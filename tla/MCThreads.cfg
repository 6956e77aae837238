SPECIFICATION SceneSpec
CONSTANTS
  Producer <- Threads
  Capacity = 2
  Burst = 3
  Node <- TwoNodes
  Slots = 2
  Channels = 1
  NoNode = NoNode
  Launch <- Three
  Turns = 2
  LockMayFail = TRUE
  None = None
INVARIANTS
  NothingStranded
  NoPeakAsleep
  OneWindowInTurn
PROPERTIES
  IsAChannel
  PeaksAreTaken
  ExitSparesOthers
  LaunchesEnd
CHECK_DEADLOCK FALSE
