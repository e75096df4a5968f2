SPECIFICATION FairSpec
CONSTANTS
  tun = tun
  nouid = nouid
  w1 = w1
  w2 = w2
  None = None
  MaxDup = 2
  Targets <- MCTargets
  NoUid <- MCNoUid
  Threads <- MCThreads
INVARIANTS
  TypeOK
  EgressBlockedFirst
  Enforced
  NoIngressLeak
  OneWatcher
  
  StopReportIsTrue
PROPERTIES
  ImplementsContract
  DeathIsDetected
