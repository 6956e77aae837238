SPECIFICATION StripSpec
CONSTANTS
  TopId = 2
  Key = {"music", "dac"}
  Name = {"Default"}
  Default = "Default"
  Section = {}
  Geometry = {"normal"}
  FirstRun = "normal"
  MaxVolume = 3
  Blank = Blank
  None = None
  Report <- LevelsReport
  MaxSeq = 3
  SaveMayFail = FALSE
PROPERTIES
  GroupKeepsBalance
  StripStaysPut
  GesturesShow
