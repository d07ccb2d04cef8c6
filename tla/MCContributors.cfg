SPECIFICATION Spec
CONSTANTS
  NChildren = 2
  NContribs = 2
  ChildOf <- MCChildOf
  Process <- MCOneProcess
  Queued = TRUE
  MaxRounds = 2
INVARIANTS TypeOK CoresReturned NoSignalMissed
PROPERTY AllReturn
