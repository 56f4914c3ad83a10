CONSTANTS
  Port = {outA, outB}
  MaxPlugs = 2
  DutyArg = {0, 150}
  StartDuty = {100}
SPECIFICATION FairSpec
INVARIANTS TypeOK UniqueNames NoRunaway ListedObey
PROPERTIES ResetStopsAll HotPlug
