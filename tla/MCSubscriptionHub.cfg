SPECIFICATION FairSpec
CONSTANTS
  Subscribers = {s1}
  Keys = {k1, k2}
  Protected = Protected
  Elsewhere = Elsewhere
  Unkeyed = Unkeyed
  RingMax = 2
  QueueMax = 2
  ReadLimit = 2
  Schedulers = {TRUE, FALSE}
  MaxLog = 3
INVARIANTS
  TypeOK
  NoEventTwice
  PublishedArrives
  ProtectedBarrier
  NewestSurvives
  ProtectedArrive
PROPERTY
  TailFollowsLog
CHECK_DEADLOCK FALSE
