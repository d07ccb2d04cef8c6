SPECIFICATION Spec
CONSTANTS
  NChildren = 3
  MaxRounds = 3
  Collective = {2}
INVARIANTS IdentityKnown NoLostSignal
PROPERTY Implements
