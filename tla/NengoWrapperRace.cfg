CONSTANTS
  Name = {brick, other}
  Device = {outA}
  Value = {v1, v2}
  Target = brick
  None = None
  MaxObjects = 3
  MaxResets = 1
SPECIFICATION Spec
CHECK_DEADLOCK FALSE
INVARIANT NodeAnswers
