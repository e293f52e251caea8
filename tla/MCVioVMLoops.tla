---------------------------- MODULE MCVioVMLoops ----------------------------
EXTENDS VioVMBounds, VioImages

\* The code of an operator of two operands, of a comparison and of a call of y,
\* by itself and as the operand of one or two sums.
Uses == {<<<<>>, <<2>>>>, <<<<>>, <<6, 0>>>>, <<<<9, 1>>, <<15, 2>>>>}

InSum(uses) == {<<<<1, 0>> \o u[1], u[2] \o <<2>>>> : u \in uses}

LoopImages ==
  {LoopImage(n) : n \in -6 .. 3}
  \cup {SkippingImage(k, u[1], u[2]) :
          k \in 0 .. 17 \ {OP_DIV}, u \in Uses \cup InSum(Uses) \cup InSum(InSum(Uses))}
  \cup {SkippingImage(OP_DIV, <<>>, <<2>>)}
  \cup {SkippingCallee(k, u[1], u[2]) : k \in {12, 13, 16}, u \in Uses}
  \cup {TwiceExitedImage(n) : n \in {1, 5}}
  \cup {MisfitImage(2, 1), MisfitImage(1, 2)}
  \cup {MainImage(code) : code \in WithoutValues \cup Mistyped \cup Filling}
=============================================================================
