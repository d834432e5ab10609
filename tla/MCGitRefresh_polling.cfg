SPECIFICATION FairSpec
CONSTANTS
  Keys = {k1, k2}
  Wsl = Wsl
  Here = Here
  There = There
  None = None
  Groups = {Wsl}
  Contexts = {Here, There}
  Intents <- SomeIntents
  ConcurrencyLimits = {1, 2}
  MaxPerGroup = 1
  MaxCalls = 4
INVARIANTS
  PermitsBalance
  NoLostWakeup
  PublishedIsFresh
PROPERTY RequestsAreServed
CHECK_DEADLOCK FALSE
