CONSTANTS
  Port = {outA, outB}
  MaxPlugs = 1
  DutyArg = {150}
  StartDuty = {100}
  Size <- MCSize
  BufSize = 9
  HeaderSize = 3
  CountMod = 4
  SequenceMod = 1
  Own = Own
  Garbage = Garbage
  Client = Client
  Namesake = Namesake
  Namesakes = {Namesake}
  Foreign <- Incoming
  MaxWire = 0
SPECIFICATION FairSpec
CHECK_DEADLOCK FALSE
INVARIANTS TypeOK DatagramsHonest
PROPERTIES HandlersReturn ConflictAborts ImplementsBank ClaimsBeforeReporting
