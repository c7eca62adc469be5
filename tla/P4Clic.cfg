SPECIFICATION FairSpec
CONSTANTS
  Lines <- MCLines
  SoftIds <- MCSoftIds
  Device <- MCDevice
  MaxLevel = 3
  StartMap <- MCStartMap
  Enables <- MCEnables
  Levels <- MCLevels
  RouteArgs <- MCRoutes
  MapArgs <- MCMaps
  PrioArgs <- MCPrios
  MaskArgs <- MCMasks
  RomThresh <- MCRomThresh
  CsrThresh <- MCCsrThresh
  MmioThresh <- MCMmioThresh
  ClintArgs <- MCClint
  RmwArgs <- MCRmw
  PendArgs <- MCPend
INVARIANTS
  ClicTypeOK
  DeliversBest
  NoLostIpi
  ThresholdHolds
PROPERTY
  IpiServed
