SPECIFICATION WorkSpec
CONSTANTS
  NPETs = 2
  NDEs = 2
  NOffers = 3
  Owner <- MCOwner
  Garbage = {7}
INVARIANTS WorkTypeOK WindowExclusive OneServicePerOffer
PROPERTY WorkImplements
