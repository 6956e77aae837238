SPECIFICATION SceneSpec
CONSTANTS
  Object = {1, 2, 3, 4, 5, 6, 7, 8}
  Width = {1, 2}
  Scale = {1, 2}
  MaxWire = 2
  None = None
  Allocation = {1, 2}
  BlinkToggles = 2
  Name = {a, b, c}
  NoProfile = NoProfile
  MaxPosted = 1
  MaxText = 4
  MaxTold = 2
  Closed = Closed
INVARIANTS
  FramesAreSound
  GtkIsSound
PROPERTIES
  ShellsKeepUp
  DropsLand
