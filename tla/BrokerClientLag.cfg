CONSTANTS
  Address = {brick, other}
  Nowhere = Nowhere
  Mixed = Mixed
  Fits = 2
  MaxLines = 2
  brick = brick
  other = other
  Own = "Client"
  Garbage = "Garbage"
  Foreign <- Heard
  MaxDatagrams = 1
  PipeSize = 1
  Size <- MCSize
  BufSize = 7
  HeaderSize = 3
  CountMod = 5
  SequenceMod = 16
SPECIFICATION FairSpec
CHECK_DEADLOCK FALSE
PROPERTY LinesHandled
