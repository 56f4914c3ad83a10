CONSTANTS
  Broker = {b1, b2}
  b1 = b1
  b2 = b2
  CommandLine <- Lines
  Number <- MCNumber
  Long <- MCLong
  NameToken <- MCName
  Garbage = Garbage
  NoValue = NoValue
  MaxStarts = 2
SPECIFICATION ReliableSpec
CHECK_DEADLOCK FALSE
INVARIANT UniqueName
