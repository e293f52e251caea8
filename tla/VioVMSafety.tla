---------------------------- MODULE VioVMSafety ----------------------------
(***************************************************************************)
(* What eval() of src/vm/VioVM.h guarantees for code that verifies.  The   *)
(* machine checks neither the types of its operands nor the number of      *)
(* arguments of a call; TypesFit says they are right at the instruction    *)
(* about to be executed.  While they are, everything below holds.          *)
(***************************************************************************)
EXTENDS VioVM, VioVerifier

ASSUME ImagesVerified ==
  \A image \in Images :
    /\ Verified(image.codeObjects, Len(image.globals))
    /\ IsVector(image.globals)
    /\ \A i \in DOMAIN image.globals :
         /\ image.globals[i] = GlobalVar(image.globals[i].name,
                                         image.globals[i].value)
         /\ IsValue(image.codeObjects, image.globals[i].value)

-----------------------------------------------------------------------------
(***************************************************************************)
(* The operands of the next instruction have types it has a case for, and  *)
(* a call passes the arguments that the function declares.                 *)
(***************************************************************************)
CalledValue == stack[sp - 1 - Operand]

CallFits ==
  \/ IS_NATIVE(CalledValue) /\ IS_NUMBER(stack[sp - 1])
  \/ /\ IS_FUNCTION(CalledValue)
     /\ codeObjects[Payload(CalledValue)].arity = Operand

TypesFit ==
  status = "running" =>
    /\ Opcode \in MathOps \cup {OP_COMPARE} =>
         Comparable(stack[sp - 1], stack[sp - 2])
    /\ Opcode = OP_CALL => CallFits

-----------------------------------------------------------------------------
\* The state is made of what the machine's declarations say it is, and every
\* slot below sp and every global holds a value that exists.
TypeOK ==
  /\ WellFormed(codeObjects)
  /\ IsVector(globals)
  /\ \A i \in DOMAIN globals : IsValue(codeObjects, globals[i].value)
  /\ ip \in Nat
  /\ sp \in 0 .. STACK_LIMIT
  /\ bp \in Nat
  /\ fn \in DOMAIN codeObjects
  /\ DOMAIN stack = 0 .. STACK_LIMIT - 1
  /\ \A i \in 0 .. sp - 1 : IsValue(codeObjects, stack[i])
  /\ callStack \in Seq([ra : Nat, bp : Nat, fn : DOMAIN codeObjects])
  /\ status \in {"running", "halted", "died", "undefined"}

\* eval() never leaves the stack, the bytecode, the constant pool or the
\* table of globals, and never casts an object to a type it does not have.
Safe == status # "undefined"

\* The only fatal error verified code runs into is the full operand stack of
\* push(): none of the other DIEs of eval() can be reached.
DiesOnlyOfOverflow == status = "died" => sp = STACK_LIMIT

\* Wherever the machine is, the running function's part of the stack has a
\* height that the function's code was verified for: no path of jumps, calls
\* and returns leaves a value too many or too few.
HeightMatches ==
  status = "running" =>
    /\ bp <= sp
    /\ Point(ip, sp - bp) \in Flow(codeObjects, fn)

\* The base of the activation that the i-th frame called.
BaseAbove(i) == IF i = Len(callStack) THEN bp ELSE callStack[i + 1].bp

\* Each suspended caller can be resumed: with one value in place of the
\* function and the arguments it had pushed, its height is the one its code
\* was verified for at the return address.
FramesMatch ==
  \A i \in DOMAIN callStack :
    LET frame == callStack[i]
    IN /\ frame.bp <= BaseAbove(i)
       /\ Point(frame.ra, BaseAbove(i) + 1 - frame.bp)
            \in Flow(codeObjects, frame.fn)

\* The frame at the bottom is main's, and main runs under no frame.
MainAtBottom == IF callStack = <<>> THEN fn = Main ELSE callStack[1].fn = Main

\* A function can read and write its own part of the stack: its caller's
\* values, below bp, stay as they are.
CallerSlotsUntouched ==
  [][\A i \in 0 .. bp - 1 : stack'[i] = stack[i]]_vars
=============================================================================
