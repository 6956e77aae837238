SPECIFICATION SceneSpec
CONSTANTS
  Object = {1, 2, 3, 4, 5, 6, 7, 8}
  Width = {1, 2}
  Scale = {1, 2}
  MaxWire = 2
  None = None
  Column = {0, 1, 2}
  Configured = {0, 1, 3}
  Unbounded = 99
  NoWidth = NoWidth
  RefitTicks = 2
  Room = 2
  MaxComing = 3
  MaxStrokes = 4
  MaxCopies = 2
  MaxStalls = 1
  Nil = Nil
  Outings <- SomeOutings
INVARIANTS
  SettledSize
  RefitFollows
  SeatIsSound
PROPERTIES
  WidthIsGivenBack
