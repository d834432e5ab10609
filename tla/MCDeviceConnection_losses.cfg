SPECIFICATION FairSpec
CONSTANTS
  Terminals = {t1}
  None = None
  MaxFaults = 2
  MaxEvents = 2
  MaxDemands = 1
INVARIANTS
  ReadyDevicesListen
  StreamsHaveNoGaps
  DemandIsHonoured
PROPERTY DevicesComeBack
CHECK_DEADLOCK FALSE
