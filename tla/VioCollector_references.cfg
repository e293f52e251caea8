SPECIFICATION Spec
CONSTANTS
  o1 = o1
  o2 = o2
  o3 = o3
  Objects <- Three
  size <- Sizes
INVARIANT
  KeepsReachable
