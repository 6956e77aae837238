SPECIFICATION ClaimSpec
CONSTANTS
  TopId = 1
  Key = {"music", "chat", "dac"}
  Name = {"Default"}
  Default = "Default"
  Section = {"apps"}
  Geometry = {"normal"}
  FirstRun = "normal"
  MaxVolume = 1
  Blank = Blank
  None = None
  Report <- TwoOfOne
  MaxSeq = 2
  SaveMayFail = FALSE
PROPERTY
  OnlyFreshStreamsInherit
