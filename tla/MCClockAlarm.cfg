SPECIFICATION Spec
CONSTANTS
    a1 = a1
    a2 = a2
    Alarms = {a1, a2}
    Never <- MCNever
    Programs <- MCPrograms
    RingTimes <- MCRingTimes
    MaxAdvances = 5
    MaxTurns = 2
    MaxCalls = 1
CHECK_DEADLOCK FALSE
INVARIANT TypeOK
INVARIANT RetracesInReverse
INVARIANT EndlessLoops
PROPERTY RingsWhenDue
PROPERTY QueriesAreTrue
