---------------------------- MODULE VioVMBounds ----------------------------
(***************************************************************************)
(* What eval() of src/vm/VioVM.h guarantees for any bytecode, verified or  *)
(* not: the machine may run off the code, jump into operands, find operands*)
(* of the wrong types and frames that do not fit.  The code objects are    *)
(* only assumed to be made of bytes and of values that exist, as whatever  *)
(* the compiler emits is.                                                  *)
(***************************************************************************)
EXTENDS VioVM, VioVerifier

ASSUME ImagesWellFormed ==
  \A image \in Images :
    /\ WellFormed(image.codeObjects)
    /\ IsVector(image.globals)
    /\ \A i \in DOMAIN image.globals :
         IsValue(image.codeObjects, image.globals[i].value)

\* A slot is uninitialized or holds a value; what looks like a function is one
\* of the code objects.
Callable(v) == IS_FUNCTION(v) => Payload(v) \in DOMAIN codeObjects

\* The registers and the saved ones stay offsets and code objects, and sp
\* within the array until popN() takes it out, wherever execution has strayed.
Bounded ==
  /\ WellFormed(codeObjects)
  /\ IsVector(globals)
  /\ \A i \in DOMAIN globals : Callable(globals[i].value)
  /\ ip \in Nat
  /\ sp \in Int /\ sp <= STACK_LIMIT
  /\ status # "undefined" => sp >= 0
  /\ bp \in Nat
  /\ fn \in DOMAIN codeObjects
  /\ DOMAIN stack = 0 .. STACK_LIMIT - 1
  /\ \A i \in DOMAIN stack : Callable(stack[i])
  /\ callStack \in Seq([ra : Nat, bp : Nat, fn : DOMAIN codeObjects])

\* eval() is over at some time, orderly or not: a jump into an operand, a loop
\* that is left to the wrong byte or a frame that does not fit never takes
\* the machine into a loop that no stack overflow ends.
Ends == <>(status \in {"halted", "died", "undefined"})
=============================================================================
