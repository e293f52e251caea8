SPECIFICATION ListingSpec
CONSTANTS
  Programs <- ScopedPrograms
  Expressions <- ScopedParts
INVARIANTS
  LocalsHaveNames
