--------------------------- MODULE VioActivations ---------------------------
(***************************************************************************)
(* eval() keeps the slots of all activations in one array, and tells them  *)
(* apart by bp and the saved bp of each frame.  For verified code this     *)
(* implements Activations, where they have nothing in common.              *)
(***************************************************************************)
EXTENDS VioVMSafety

Depth == Len(callStack) + 1

\* Frame i was saved by activation i.
Base(i) == IF i = Depth THEN bp ELSE callStack[i].bp
End(i)  == IF i = Depth THEN sp ELSE Base(i + 1)

Slots(i) == [k \in 1 .. End(i) - Base(i) |-> stack[Base(i) + k - 1]]

ActivationAt(i) ==
  [fn    |-> IF i = Depth THEN fn ELSE callStack[i].fn,
   at    |-> IF i = Depth THEN ip ELSE callStack[i].ra,
   below |-> Base(i),
   slots |-> Slots(i)]

ActivationsOfRun == IF status = "running"
                    THEN [i \in 1 .. Depth |-> ActivationAt(i)]
                    ELSE <<>>

Abstract == INSTANCE Activations
  WITH activations <- ActivationsOfRun, Limit <- STACK_LIMIT

\* The machine runs as activations with slots of their own: no instruction
\* reaches into a caller's slots, a callee gets just the function and its
\* arguments, and what it leaves is the one value the caller goes on with.
RunsAsActivations == Abstract!Spec
=============================================================================
