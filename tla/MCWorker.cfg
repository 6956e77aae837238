SPECIFICATION SceneSpec
CONSTANTS
  Node = {"n1", "n2"}
  Client = {"client"}
  Device = {"card"}
  Object <- Some
  Name = {"dac", "bt"}
  Label = {"unnamed", "DAC", "audio-src", "Headset", "Video", "Spotify", "Firefox"}
  Unnamed = "unnamed"
  Level = {"low", "high"}
  Form = {"headphones", "headset"}
  Bluetooth = "headset"
  Generic = "generic"
  None = None
  MaxInbox = 3
INVARIANTS
  EventsTellAll
  MirrorsServer
PROPERTY
  RemovalsMet
