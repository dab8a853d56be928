SPECIFICATION FairSpec
CONSTANTS
  Waiters = {w1, w2, w3}
  Notifiers = {all, one}
  OneOnly = {one}
  Triers = {t1}
INVARIANTS
  TypeOK
  MutualExclusion
  NoLostWakeup
  FlagOutlivesNobody
PROPERTIES
  ImplementsEvent
