SPECIFICATION Spec
CONSTANTS
    a1 = a1
    a2 = a2
    Alarms = {a1}
    Never <- MCNever
    Programs <- MCRepeatingPrograms
    RingTimes <- MCRingTimes
    MaxAdvances = 5
    MaxTurns = 0
    MaxCalls = 0
CHECK_DEADLOCK FALSE
INVARIANT Returns
