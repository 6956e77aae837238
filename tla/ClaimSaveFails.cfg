SPECIFICATION ClaimSpec
CONSTANTS
  TopId = 0
  Key = {"music", "chat", "dac"}
  Name = {"Default"}
  Default = "Default"
  Section = {"apps"}
  Geometry = {"normal"}
  FirstRun = "normal"
  MaxVolume = 1
  Blank = Blank
  None = None
  Report <- Pavucontrol
  MaxSeq = 1
  SaveMayFail = TRUE
INVARIANT
  UnsavedKnows
