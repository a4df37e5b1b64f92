\* One engine under lost answers, refusals and restarts.
SPECIFICATION FairSpec
CONSTANTS
  MaxPositions = 1
  MaxRows = 3
  MaxCrashes = 2
INVARIANT OnePosition RowsProtected
PROPERTY ReconcileSound RowsCatchUp
