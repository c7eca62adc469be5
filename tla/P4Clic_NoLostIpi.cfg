SPECIFICATION Spec
CONSTANTS
  Lines <- MCLines
  SoftIds <- MCSoftIds
  Device <- MCDevice
  MaxLevel = 3
  StartMap <- MCStartMap
  Enables <- SharedEnables
  Levels <- MCLevels
  RouteArgs <- SharedRoutes
  MapArgs <- NoArgs
  PrioArgs <- NoArgs
  MaskArgs <- NoArgs
  RomThresh <- MCRomThresh
  CsrThresh <- MCCsrThresh
  MmioThresh <- MCMmioThresh
  ClintArgs <- MCClint
  RmwArgs <- NoArgs
  PendArgs <- NoArgs
INVARIANT
  NoLostIpi
