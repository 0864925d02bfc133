SPECIFICATION FairSpec
CONSTANTS
  r1 = r1
  r2 = r2
  r3 = r3
  c1 = c1
  d1 = d1
  d2 = d2
  NoDaemon = NoDaemon
  Daemons <- MCDaemons
  Requests <- MCRequests
  Commands <- MCCommands
INVARIANT
  AtMostOnce
  ToldIsStored
PROPERTY
  OutcomeIsFinal
  EveryRequestReturns
