SPECIFICATION Spec
CONSTANTS
  Pids = {1, 2}
  NThreads <- MCNThreads
  NBarriers = 3
INVARIANTS TypeOK FlagsReset
PROPERTY Implements
