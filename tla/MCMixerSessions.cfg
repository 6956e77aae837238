SPECIFICATION SceneSpec
CONSTANTS
  TopId = 2
  Key = {"music", "chat", "dac"}
  Name = {"Default", "Night", "Work"}
  Default = "Default"
  Section = {"apps"}
  Geometry = {"normal", "wide"}
  FirstRun = "normal"
  MaxVolume = 1
  Blank = Blank
  None = None
  Report <- BothReports
  MaxSeq = 3
  SaveMayFail = FALSE
INVARIANTS
  RowOrderSound
  CommandsAreSound
  PendingUnmatched
  ProfilesSound
  UnsavedKnows
PROPERTIES
  GhostsAreReclaimed
  SwitchKeepsEdits
  EditsReachTheDisk
