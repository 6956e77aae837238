SPECIFICATION SceneSpec
CONSTANTS
  MinDim = 200
  MaxDim = 8192
  LongString = {"toolong"}
  None = None
  Absent = Absent
  Unreadable = Unreadable
  Proc = {shell}
  Inode = {i1, i2, i3, i4, i5}
  DocSet <- SomeDocs
  FirstFile <- SomeFiles
  Chunk = 24
  MaxSaves = 2
  MaxCuts = 2
  Views <- SomeViews
  Sizes <- SomeSizes
  Swipe <- SomeSwipes
  Nowhere = Nowhere
  Scalar <- SomeScalars
  GCB_RANGES <- GCB_EXCERPT
  INCB_RANGES <- INCB_EXCERPT
  EXTENDED_PICTOGRAPHIC <- PICTOGRAPHIC_EXCERPT
  MaxText = 4
  NoValue = NoValue
  AdvanceOf <- Advances
  MonoHas = {97}
  EmojiFont = TRUE
  Formable = {128104, 127995, 8205, 127462}
  EM = 3
  MaxMeasured = 3
  Row = {r1, r2}
  Nobody = Nobody
  Peaks <- SomePeaks
  Never = Never
  Interval = 1
  Stale = 2
  Fade = 3
  Mark = 2
  Top = 2
  Height <- SomeHeights
  MaxTime = 4
INVARIANTS
  NothingIsMisread
  BreaksAsTheRulesSay
  MovingIsSound
PROPERTIES
  FileIsWholeOrOld
  DrawingHolds
