SPECIFICATION DevicesSpec
CONSTANTS
  Drivers <- AllDrivers
  Port = 0
  RingSize = 4
  Bytes = {0, 1}
  MaxLine = 2
  ClrArgs <- MCClr
  EnaArgs <- MCEna
  FifoSize = 3
  DevSize = 2
  CmdRegs = 5
  MaxRounds = 1
  CmdArgs <- MCCmds
  DataArgs <- MCData
  Descs <- MCDescs
  NoRam <- OutsideRam
  Heads <- MCHeads
  FifoDepth = 2
  MaxSample = 3
  Ahead = 1
  Behind = 1
  MaxStep = 2
  MaxCount = 4
  SystDiv = 2
  Targets = {0, 2}
  TargetArgs <- MCTargets
  CompArgs = {3}
  TimgStep = 2
  TimgArgs <- MCTimg
  TimgLoad = 1
  TimgAlarm = 3
  WdtArgs = {2}
  TxDelay = 4
  RxDelay = 2
  TwaiAhead = 1
  TwaiBehind = 1
  DriverTime = 2
  TwaiStep = 2
  Pins = {2, 6, 7, 30}
  OutPads <- MCOutPads
  Pulse = 6
  Button = 7
  Routed = {2}
  Outputs = {7, 30}
  PinArgs <- MCPins
  StatusArgs = {{}, {7}}
  Channels <- MCChannels
  Watch = {0}
  CntHalf = 1
  MaxCounted = 1
  PwmAhead = 1
  PwmBehind = 1
  PwmMaxStep = 3
  PwmMaxAge = 8
  PwmStep = 2
  PeriodArgs = {1, 2}
  Cmp0 = 1
  Cmp1 = 2
  Gen <- MCGen
INVARIANTS
  UartTypeOK
  I2cTypeOK
  WalkFollowsBus
  GdmaTypeOK
  EofAfterData
  RxStream
  RxInHome
  TwaiTypeOK
  FrameAnnounced
  TimersTypeOK
  MarkersInStep
  TimgKeepsTime
  PcntCounts
  SourcesBacked
  PwmTypeOK
  PwmWave
PROPERTIES
  RingIsQueue
  UartAwake
  CountedFirst
  WdtOnTime
  EdgesAnnounced
