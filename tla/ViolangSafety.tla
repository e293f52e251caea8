---------------------------- MODULE ViolangSafety ----------------------------
(***************************************************************************)
(* What holds of the compiler and the machine together at every moment.    *)
(* The machine checks little of what it executes: that it comes to an      *)
(* orderly end rests on the code that compile() leaves behind, and on the  *)
(* types of the operands the program computes.                             *)
(***************************************************************************)
EXTENDS Violang, VioCompilerSafety

Machine == INSTANCE VioVMSafety WITH Images <- {}

\* Whatever the bytecode is, sp never passes the end of the operand stack, and
\* passes its beginning only in the step that makes the program undefined.
StackInRange == sp <= STACK_LIMIT /\ (status # "undefined" => sp >= 0)

\* The bytecode that compile() leaves behind verifies: no path through it
\* underflows the stack, leaves a value behind, jumps into the middle of an
\* instruction or names a constant, local or global that is not there.
CompiledCodeVerifies ==
  status = "compiled" => /\ Verified(codeObjects, Len(globals))
                         /\ HeightsAgree(codeObjects)

\* Whatever eval() executes has operands of types it has a case for, and calls
\* pass the arguments that the function declares.
OperandsFit == Machine!TypesFit

\* When main halts, its result is all there is on the stack.
NothingLeftBehind == status = "halted" => sp = 0 /\ callStack = <<>>

\* eval() does nothing that C++ gives no meaning to, and gives up only when
\* the operand stack is full.
RunsSafely ==
  [][status = "running" => /\ status' # "undefined"
                           /\ status' = "died" => sp' = STACK_LIMIT]_execVars

\* The process does nothing that C++ gives no meaning to.
NothingUndefined == status # "undefined"

\* "the value of the last expression is kept on the stack as final result":
\* main's OP_HALT finds a value to return.
LastValueIsResult ==
  status = "running" /\ fn = VM!Main /\ ip + 1 = Len(VM!Code)
    => sp >= 1

NextOpcode(op) == status = "running" /\ ip < Len(VM!Code) /\ VM!Opcode = op

\* A function returns with its result and nothing else in its frame, where
\* the caller expects the one value of the call.
ReturnsOneValue == NextOpcode(OP_RETURN) => sp = bp + 1
=============================================================================
