SPECIFICATION FairSpec
CONSTANTS
  c1 = c1
  c2 = c2
  None = None
  Commands = {c1, c2}
  Impatient = {c1}
  Used = {c1}
  Undo = TRUE
INVARIANT EntryIsMarked
INVARIANT OfferIsTrue
INVARIANT CloseLeavesNothing
PROPERTY StopReturns
CHECK_DEADLOCK FALSE
