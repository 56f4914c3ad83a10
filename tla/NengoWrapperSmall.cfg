CONSTANTS
  Name = {brick, other}
  Device = {outA}
  Value = {v1, v2}
  Target = brick
  None = None
  MaxObjects = 3
  MaxResets = 2
SPECIFICATION Spec
CHECK_DEADLOCK FALSE
INVARIANTS TypeOK FailsOnlyAfterReset
PROPERTY OffsetIsFirst
