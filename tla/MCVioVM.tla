------------------------------ MODULE MCVioVM ------------------------------
EXTENDS VioActivations, VioImages

VerifiedImages ==
  UNION {{FactorialImage(n), LocalsImage(n), NativesImage(n), EvenOddImage(n),
          HigherOrderImage(n), EndlessImage(n)} : n \in 0 .. 3}
=============================================================================
