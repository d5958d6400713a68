SPECIFICATION Spec
CONSTANTS
  LogUnits = 3
INVARIANTS
  EachPageOnce
  Coalesced
