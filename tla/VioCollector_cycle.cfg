SPECIFICATION FairSpec
CONSTANTS
  o1 = o1
  o2 = o2
  o3 = o3
  Objects <- Three
  size <- Sizes
INVARIANTS
  TypeOK
  BytesAreCounted
PROPERTIES
  CollectsAtomically
  CollectionEnds
