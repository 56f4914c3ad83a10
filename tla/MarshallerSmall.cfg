CONSTANTS
  Position = Position
  Duty = Duty
  Heartbeat = Heartbeat
  Msg <- MCMsg
  Size <- MCSize
  BufSize = 7
  HeaderSize = 3
  CountMod = 3
  SequenceMod = 16
  MaxWire = 2
  MaxSequence = 4
SPECIFICATION Spec
CONSTRAINT Bounded
INVARIANTS TypeOK BufferBounds PtrExact CountHonest SequencesIncrease
PROPERTY ImplementsStream
