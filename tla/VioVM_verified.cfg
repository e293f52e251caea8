SPECIFICATION FairSpec
CONSTANTS
  Images <- VerifiedImages
  STACK_LIMIT = 14
  NumBound = 100
INVARIANTS
  TypeOK
  TypesFit
  Safe
  DiesOnlyOfOverflow
  HeightMatches
  FramesMatch
PROPERTIES
  RunsAsActivations
  CallerSlotsUntouched
  Stops
