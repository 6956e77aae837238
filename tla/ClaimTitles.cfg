CONSTANTS
  a = a b = b p1 = p1 p2 = p2 t1 = t1 t2 = t2 u1 = u1 s1 = s1
  Nobody = Nobody
  PlayerName <- PlayerNames
  Conn = {a, b}
  TitlesOf <- Titles
  Audio = {s1}
  Ancestors <- Parents
  StreamIdent <- Idents
  PidOf <- Pids
  Declared <- Identities
  MaxPending = 2
  MaxPlayers = 2
  ManyNames = FALSE
  MaxBody = 180
  MaxLine = 8
  MaxKept = 1
  Calls <- SomeCalls
  Scripts <- SomeScripts
  Greetings <- Lines
  ReadLengths = {1, 24}
  MaxGivenUp = 1
  MaxEvents = 4
  MaxTimeouts = 0
SPECIFICATION BusSpec
INVARIANT TitlesAreCurrent
CHECK_DEADLOCK FALSE
