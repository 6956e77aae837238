SPECIFICATION SceneSpec
CONSTANTS
  Char = {"a", "b", " "}
  Wide = {"b"}
  WordChar = {"a", "b"}
  Space = " "
  MaxBytes = 2
  None = None
  VerbLabel <- Written
  StreamLabel <- Streams
  VisibleRows = 2
  MaxVisible = 4
  Source <- ComingRows
  Room = {1, 3}
  Clipboard <- Pastes
  Default <- DefaultName
  Toggles = 2
  MaxProfiles = 2
INVARIANTS
  FieldStaysSound
  OverlaysAgree
PROPERTIES
  DragsKeepTheirRow
