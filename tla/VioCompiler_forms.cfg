SPECIFICATION ListingSpec
CONSTANTS
  Programs <- FormPrograms
  Expressions <- FormParts
INVARIANTS
  TypeOK
  NamesUnique
  ScopesBalance
  ShowsWhatRuns
PROPERTIES
  IndexesKept
  OnlyHolesPatched
  OnlyLocalsMissing
  Compiles
  ListingEnds
