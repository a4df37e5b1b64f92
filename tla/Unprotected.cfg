\* The stop is refused with an exception.
SPECIFICATION FairSpec
CONSTANTS
  MaxPositions = 1
  MaxRows = 1
  MaxCrashes = 0
PROPERTY RefusedStopHalts
