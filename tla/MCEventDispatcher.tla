-------------------------- MODULE MCEventDispatcher --------------------------
(* Small clients of the dispatcher for TLC.  A task is called by its name.  *)
EXTENDS EventDispatcher, TLC

Symmetry == Permutations(Workers) \cup Permutations(Clients)

Same(S)       == [k \in S |-> k]
\* After, from the immediate predecessors of the calls that have some.
AfterOf(K, P) ==
  LET after[k \in K] == IF k \in DOMAIN P THEN P[k] \cup UNION {after[j] : j \in P[k]} ELSE {}
  IN  after
DepsOf(S, P)  == [s \in S |-> IF s \in DOMAIN P THEN P[s] ELSE <<>>]

(* Two clients share the work: main tasks A (a1, then a2) and B (b1, which  *)
(* depends on a1 of A).  The loop may start at any time.                    *)
PairMains  == {"A", "B"}
PairSubs   == {"a1", "a2", "b1"}
PairGets   == {"get_a1", "get_a2", "get_b1"}
PairSize   == [m \in PairMains |-> IF m = "A" THEN 2 ELSE 1]
PairName   == Same(PairMains)
PairSubName == Same(PairSubs)
PairPrio   == [m \in PairMains |-> IF m = "A" THEN 1 ELSE 5]
PairMainOf == [s \in PairSubs |-> IF s = "b1" THEN "B" ELSE "A"]
PairDeps   == DepsOf(PairSubs, [a2 |-> <<"a1">>, b1 |-> <<"a1">>])
PairAsks   == [f \in PairGets |->
                 CASE f = "get_a1" -> "a1" [] f = "get_a2" -> "a2" [] OTHER -> "b1"]
PairAfter  == AfterOf(PairMains \cup PairSubs \cup PairGets \cup {"up", "down"},
                [a1 |-> {"A"}, a2 |-> {"A", "a1"}, b1 |-> {"B", "a1"},
                 get_a1 |-> {"up", "a2"}, get_a2 |-> {"get_a1"}, get_b1 |-> {"up", "a2", "b1"},
                 down |-> {"up", "a1", "a2", "b1"}])

(* Two clients and two sessions: A with a, closed by a Stop (or two at      *)
(* once), then B with b and the end of the process.  A start too many       *)
(* (again) may follow the first, a subtask too many (late) the first of A.  *)
LifeMains  == {"A", "B"}
LifeSubs   == {"a", "b", "late"}
LifeName   == Same(LifeMains)
LifeSubName == Same(LifeSubs)
LifeSize   == [m \in LifeMains |-> 1]
LifePrio   == [m \in LifeMains |-> 3]
LifeMainOf == [s \in LifeSubs |-> IF s = "b" THEN "B" ELSE "A"]
LifeDeps   == DepsOf(LifeSubs, [b |-> <<"a">>])
LifeAsks   == [f \in {} |-> ""]
LifeFirst  == {"A", "a", "up", "down"}
LifeAfter  == AfterOf(LifeMains \cup LifeSubs \cup {"up", "up2", "again", "down", "down2", "exit"},
                [a |-> {"A"}, down |-> {"A", "a", "up"}, down2 |-> {"A", "a", "up"},
                 again |-> {"up"}, late |-> {"a"}, up2 |-> LifeFirst,
                 b |-> LifeFirst \cup {"B"}, exit |-> LifeFirst \cup {"up2", "B", "b"}])

(* Two clients and a pool of one worker: the two subtasks of A may be       *)
(* submitted at once, b1 of the less urgent B, submitted after them, waits  *)
(* for both, and two calls fetch its result.                                *)
BothMains  == {"A", "B"}
BothSubs   == {"a1", "a2", "b1"}
BothGets   == {"get_b1", "get_b1_too"}
BothName   == Same(BothMains)
BothSubName == Same(BothSubs)
BothSize   == [m \in BothMains |-> IF m = "A" THEN 2 ELSE 1]
BothPrio   == [m \in BothMains |-> IF m = "A" THEN 5 ELSE 3]
BothMainOf == [s \in BothSubs |-> IF s = "b1" THEN "B" ELSE "A"]
BothDeps   == DepsOf(BothSubs, [b1 |-> <<"a1", "a2">>])
BothAsks   == [f \in BothGets |-> "b1"]
BothAfter  == AfterOf(BothMains \cup BothSubs \cup BothGets \cup {"up", "down"},
                [a1 |-> {"A"}, a2 |-> {"A"}, b1 |-> {"B", "a1", "a2"},
                 get_b1 |-> {"up", "b1"}, get_b1_too |-> {"up", "b1"}, down |-> {"up", "b1"}])

(* The root of two dependents is submitted after them, to a pool of two.    *)
FanMains   == {"A"}
FanSubs    == {"d1", "d2", "root"}
FanName    == Same(FanMains)
FanSubName == Same(FanSubs)
FanSize    == [m \in FanMains |-> 3]
FanPrio    == [m \in FanMains |-> 3]
FanMainOf  == [s \in FanSubs |-> "A"]
FanDeps    == DepsOf(FanSubs, [d1 |-> <<"root">>, d2 |-> <<"root">>])
FanAsks    == [f \in {} |-> ""]
FanAfter   == AfterOf(FanMains \cup FanSubs \cup {"up"},
                [A |-> {"up"}, d1 |-> {"A"}, d2 |-> {"A", "d1"}, root |-> {"A", "d2"}])

(* b1 of B depends on a1 of A, which is submitted after it.                 *)
CrossMains == {"A", "B"}
CrossSubs  == {"a1", "b1"}
CrossName  == Same(CrossMains)
CrossSubName == Same(CrossSubs)
CrossSize  == [m \in CrossMains |-> 1]
CrossPrio  == [m \in CrossMains |-> 3]
CrossMainOf == [s \in CrossSubs |-> IF s = "a1" THEN "A" ELSE "B"]
CrossDeps  == DepsOf(CrossSubs, [b1 |-> <<"a1">>])
CrossAsks  == [f \in {} |-> ""]
CrossAfter == AfterOf(CrossMains \cup CrossSubs \cup {"up"},
                [b1 |-> {"A", "B"}, a1 |-> {"A", "b1"}])

(* One subtask, fetched before Stop and the end of the process.             *)
ExitMains  == {"A"}
ExitSubs   == {"a"}
ExitGets   == {"get_a"}
ExitName   == Same(ExitMains)
ExitSubName == Same(ExitSubs)
ExitSize   == [m \in ExitMains |-> 1]
ExitPrio   == [m \in ExitMains |-> 3]
ExitMainOf == [s \in ExitSubs |-> "A"]
ExitDeps   == DepsOf(ExitSubs, <<>>)
ExitAsks   == [f \in ExitGets |-> "a"]
ExitAfter  == AfterOf(ExitMains \cup ExitSubs \cup ExitGets \cup {"up", "down", "exit"},
                [A |-> {"up"}, a |-> {"A"}, get_a |-> {"a"}, down |-> {"get_a"}, exit |-> {"down"}])
=============================================================================
