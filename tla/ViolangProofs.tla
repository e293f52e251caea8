---------------------------- MODULE ViolangProofs ----------------------------
(***************************************************************************)
(* Proofs about compiler and machine together: for every program.  What is *)
(* proved of each of the two, for whatever it is given, is put together    *)
(* here: the machine is given what the compiler leaves behind.             *)
(***************************************************************************)
EXTENDS ViolangSafety, VioCompilerProofs

\* The machine on any bytecode, and the machine on bytecode that verifies.
\* exec() starts it on the compiler's state and on no other image.
AnyCode      == INSTANCE VioVMBoundsProofs WITH Images <- {}
VerifiedCode == INSTANCE VioVMProofs WITH Images <- {}

-----------------------------------------------------------------------------
(***************************************************************************)
(* VM, AnyCode and VerifiedCode are instances of the same definitions.     *)
(***************************************************************************)

\* A pass of eval().
LEMMA SameEval ==
  VM!Eval => AnyCode!Eval /\ VerifiedCode!Eval
<1> SUFFICES ASSUME VM!Eval
             PROVE  AnyCode!Eval /\ VerifiedCode!Eval
  OBVIOUS
<1>1. AnyCode!Eval
  BY DEF VM!Eval, VM!FetchBeyondCode, VM!Stop, VM!Code, VM!Opcode, VM!InstrLen, VM!JumpOps,
   VM!OP_JMP_IF_FALSE, VM!OP_JMP, VM!SimpleOps, VM!OP_RETURN, VM!OP_POP, VM!OP_HALT,
   VM!MathOps, VM!OP_DIV, VM!OP_MUL, VM!OP_SUB, VM!OP_ADD, VM!Opcodes,
   VM!UnknownOpcode, VM!Return, VM!Fetched, VM!AtOpcode, VM!Call, VM!IS_FUNCTION, VM!FUNCTION,
   VM!TypeOf, VM!IS_NATIVE, VM!NATIVE, VM!Payload, VM!CallFunction, VM!CalleeBase,
   VM!Frame, VM!CallNative, VM!KeepFrame, VM!NUMBER, VM!IS_NUMBER, VM!Needs,
   VM!DieShortOf, VM!Operand, VM!OP_CALL, VM!ScopeExit, VM!PopBelow, VM!Replace, VM!OP_SCOPE_EXIT,
   VM!SetLocal, VM!OP_SET_LOCAL, VM!GetLocal, VM!Push, VM!Indeterminate,
   VM!OP_GET_LOCAL, VM!Pop, VM!Drop, VM!SetGlobal, VM!GlobalVar, VM!OP_SET_GLOBAL,
   VM!GetGlobal, VM!OP_GET_GLOBAL, VM!Jmp, VM!Address, VM!Word, VM!BYTE,
   VM!JmpIfFalse, VM!ConditionOutcomes, VM!IS_BOOLEAN, VM!Compare, VM!BOOLEAN_VALUE,
   VM!CompareOutcomes, VM!Less, VM!StringLess, VM!Comparable, VM!IS_STRING,
   VM!OP_COMPARE, VM!Math, VM!MathResult, VM!STRING_VALUE, VM!Arith, VM!Quotient,
   VM!Const, VM!OP_CONST, VM!Halt, AnyCode!Eval, AnyCode!FetchBeyondCode,
   AnyCode!Stop, AnyCode!Code, AnyCode!Opcode, AnyCode!InstrLen, AnyCode!JumpOps,
   AnyCode!OP_JMP_IF_FALSE, AnyCode!OP_JMP, AnyCode!SimpleOps, AnyCode!OP_RETURN,
   AnyCode!OP_POP, AnyCode!OP_HALT, AnyCode!MathOps, AnyCode!OP_DIV, AnyCode!OP_MUL,
   AnyCode!OP_SUB, AnyCode!OP_ADD, AnyCode!Opcodes, AnyCode!UnknownOpcode,
   AnyCode!Return, AnyCode!Fetched, AnyCode!AtOpcode, AnyCode!Call, AnyCode!IS_FUNCTION,
   AnyCode!FUNCTION, AnyCode!TypeOf, AnyCode!IS_NATIVE, AnyCode!NATIVE,
   AnyCode!Payload, AnyCode!CallFunction, AnyCode!CalleeBase, AnyCode!Frame,
   AnyCode!CallNative, AnyCode!KeepFrame, AnyCode!NUMBER, AnyCode!IS_NUMBER,
   AnyCode!Needs, AnyCode!DieShortOf, AnyCode!Operand, AnyCode!OP_CALL,
   AnyCode!ScopeExit, AnyCode!PopBelow, AnyCode!Replace, AnyCode!OP_SCOPE_EXIT, AnyCode!SetLocal,
   AnyCode!OP_SET_LOCAL, AnyCode!GetLocal, AnyCode!Push, AnyCode!Indeterminate,
   AnyCode!OP_GET_LOCAL, AnyCode!Pop, AnyCode!Drop, AnyCode!SetGlobal,
   AnyCode!GlobalVar, AnyCode!OP_SET_GLOBAL, AnyCode!GetGlobal, AnyCode!OP_GET_GLOBAL,
   AnyCode!Jmp, AnyCode!Address, AnyCode!Word, AnyCode!BYTE, AnyCode!JmpIfFalse,
   AnyCode!ConditionOutcomes, AnyCode!IS_BOOLEAN, AnyCode!Compare,
   AnyCode!BOOLEAN_VALUE, AnyCode!CompareOutcomes, AnyCode!Less, AnyCode!StringLess,
   AnyCode!Comparable, AnyCode!IS_STRING, AnyCode!OP_COMPARE, AnyCode!Math,
   AnyCode!MathResult, AnyCode!STRING_VALUE, AnyCode!Arith, AnyCode!Quotient,
   AnyCode!Const, AnyCode!OP_CONST, AnyCode!Halt
<1>2. VerifiedCode!Eval
  BY DEF VM!Eval, VM!FetchBeyondCode, VM!Stop, VM!Code, VM!Opcode, VM!InstrLen, VM!JumpOps,
   VM!OP_JMP_IF_FALSE, VM!OP_JMP, VM!SimpleOps, VM!OP_RETURN, VM!OP_POP, VM!OP_HALT,
   VM!MathOps, VM!OP_DIV, VM!OP_MUL, VM!OP_SUB, VM!OP_ADD, VM!Opcodes,
   VM!UnknownOpcode, VM!Return, VM!Fetched, VM!AtOpcode, VM!Call, VM!IS_FUNCTION, VM!FUNCTION,
   VM!TypeOf, VM!IS_NATIVE, VM!NATIVE, VM!Payload, VM!CallFunction, VM!CalleeBase,
   VM!Frame, VM!CallNative, VM!KeepFrame, VM!NUMBER, VM!IS_NUMBER, VM!Needs,
   VM!DieShortOf, VM!Operand, VM!OP_CALL, VM!ScopeExit, VM!PopBelow, VM!Replace, VM!OP_SCOPE_EXIT,
   VM!SetLocal, VM!OP_SET_LOCAL, VM!GetLocal, VM!Push, VM!Indeterminate,
   VM!OP_GET_LOCAL, VM!Pop, VM!Drop, VM!SetGlobal, VM!GlobalVar, VM!OP_SET_GLOBAL,
   VM!GetGlobal, VM!OP_GET_GLOBAL, VM!Jmp, VM!Address, VM!Word, VM!BYTE,
   VM!JmpIfFalse, VM!ConditionOutcomes, VM!IS_BOOLEAN, VM!Compare, VM!BOOLEAN_VALUE,
   VM!CompareOutcomes, VM!Less, VM!StringLess, VM!Comparable, VM!IS_STRING,
   VM!OP_COMPARE, VM!Math, VM!MathResult, VM!STRING_VALUE, VM!Arith, VM!Quotient,
   VM!Const, VM!OP_CONST, VM!Halt, VerifiedCode!Eval, VerifiedCode!FetchBeyondCode,
   VerifiedCode!Stop, VerifiedCode!Code, VerifiedCode!Opcode, VerifiedCode!InstrLen,
   VerifiedCode!JumpOps, VerifiedCode!OP_JMP_IF_FALSE, VerifiedCode!OP_JMP,
   VerifiedCode!SimpleOps, VerifiedCode!OP_RETURN, VerifiedCode!OP_POP,
   VerifiedCode!OP_HALT, VerifiedCode!MathOps, VerifiedCode!OP_DIV,
   VerifiedCode!OP_MUL, VerifiedCode!OP_SUB, VerifiedCode!OP_ADD,
   VerifiedCode!Opcodes, VerifiedCode!UnknownOpcode, VerifiedCode!Return,
   VerifiedCode!Fetched, VerifiedCode!AtOpcode, VerifiedCode!Call, VerifiedCode!IS_FUNCTION,
   VerifiedCode!FUNCTION, VerifiedCode!TypeOf, VerifiedCode!IS_NATIVE,
   VerifiedCode!NATIVE, VerifiedCode!Payload, VerifiedCode!CallFunction,
   VerifiedCode!CalleeBase, VerifiedCode!Frame, VerifiedCode!CallNative,
   VerifiedCode!KeepFrame, VerifiedCode!NUMBER, VerifiedCode!IS_NUMBER,
   VerifiedCode!Needs, VerifiedCode!DieShortOf, VerifiedCode!Operand,
   VerifiedCode!OP_CALL, VerifiedCode!ScopeExit, VerifiedCode!PopBelow, VerifiedCode!Replace,
   VerifiedCode!OP_SCOPE_EXIT, VerifiedCode!SetLocal, VerifiedCode!OP_SET_LOCAL,
   VerifiedCode!GetLocal, VerifiedCode!Push, VerifiedCode!Indeterminate,
   VerifiedCode!OP_GET_LOCAL, VerifiedCode!Pop, VerifiedCode!Drop,
   VerifiedCode!SetGlobal, VerifiedCode!GlobalVar, VerifiedCode!OP_SET_GLOBAL,
   VerifiedCode!GetGlobal, VerifiedCode!OP_GET_GLOBAL, VerifiedCode!Jmp,
   VerifiedCode!Address, VerifiedCode!Word, VerifiedCode!BYTE,
   VerifiedCode!JmpIfFalse, VerifiedCode!ConditionOutcomes, VerifiedCode!IS_BOOLEAN,
   VerifiedCode!Compare, VerifiedCode!BOOLEAN_VALUE, VerifiedCode!CompareOutcomes,
   VerifiedCode!Less, VerifiedCode!StringLess, VerifiedCode!Comparable,
   VerifiedCode!IS_STRING, VerifiedCode!OP_COMPARE, VerifiedCode!Math,
   VerifiedCode!MathResult, VerifiedCode!STRING_VALUE, VerifiedCode!Arith,
   VerifiedCode!Quotient, VerifiedCode!Const, VerifiedCode!OP_CONST, VerifiedCode!Halt
<1> QED BY <1>1, <1>2

\* The registers that exec() starts with.
LEMMA SameStart ==
  VM!FreshMachine => AnyCode!FreshMachine /\ VerifiedCode!FreshMachine
BY DEF VM!FreshMachine, VM!Indeterminate, VM!EmptyStack, VM!Main, AnyCode!FreshMachine,
   AnyCode!Indeterminate, AnyCode!EmptyStack, AnyCode!Main, VerifiedCode!FreshMachine,
   VerifiedCode!Indeterminate, VerifiedCode!EmptyStack, VerifiedCode!Main

\* The values that exist.
LEMMA SameVectors ==
  ASSUME NEW s, IsVector(s)
  PROVE  AnyCode!IsVector(s) /\ VerifiedCode!IsVector(s)
BY DEF IsVector, AnyCode!IsVector, VerifiedCode!IsVector

LEMMA SameValues ==
  ASSUME NEW objects, NEW v, IsValue(objects, v)
  PROVE  AnyCode!IsValue(objects, v) /\ VerifiedCode!IsValue(objects, v)
BY DEF IsValue, Payload, IS_FUNCTION, FUNCTION, TypeOf, ValueTypes, NATIVE, CODE, NUMBER,
   AnyCode!IsValue, AnyCode!Payload, AnyCode!IS_FUNCTION, AnyCode!FUNCTION,
   AnyCode!TypeOf, AnyCode!ValueTypes, AnyCode!NATIVE, AnyCode!CODE, AnyCode!NUMBER,
   VerifiedCode!IsValue, VerifiedCode!Payload, VerifiedCode!IS_FUNCTION,
   VerifiedCode!FUNCTION, VerifiedCode!TypeOf, VerifiedCode!ValueTypes,
   VerifiedCode!NATIVE, VerifiedCode!CODE, VerifiedCode!NUMBER

LEMMA SameWellFormed ==
  ASSUME NEW objects, WellFormed(objects)
  PROVE  AnyCode!WellFormed(objects) /\ VerifiedCode!WellFormed(objects)
BY SameVectors, SameValues DEF WellFormed, BYTE, AnyCode!WellFormed, AnyCode!BYTE,
   VerifiedCode!WellFormed, VerifiedCode!BYTE

\* What a verifier computes.
LEMMA SameFlow ==
  ASSUME NEW objects, NEW f
  PROVE  Flow(objects, f) = VerifiedCode!Flow(objects, f)
BY DEF Flow, EntryPoint, Point, Doublings, Onward, Fetchable, ByteAt, InstrLen, JumpOps,
   OP_JMP_IF_FALSE, OP_JMP, SimpleOps, OP_RETURN, OP_POP, OP_HALT, MathOps, OP_DIV,
   OP_MUL, OP_SUB, OP_ADD, Opcodes, Successors, OP_CALL, OP_SCOPE_EXIT, AddressAt,
   Word, BYTE, OP_SET_LOCAL, OP_SET_GLOBAL, OP_COMPARE, OP_GET_LOCAL, OP_GET_GLOBAL,
   OP_CONST, Points, VerifiedCode!Flow, VerifiedCode!EntryPoint, VerifiedCode!Point,
   VerifiedCode!Doublings, VerifiedCode!Onward, VerifiedCode!Fetchable,
   VerifiedCode!ByteAt, VerifiedCode!InstrLen, VerifiedCode!JumpOps,
   VerifiedCode!OP_JMP_IF_FALSE, VerifiedCode!OP_JMP, VerifiedCode!SimpleOps,
   VerifiedCode!OP_RETURN, VerifiedCode!OP_POP, VerifiedCode!OP_HALT,
   VerifiedCode!MathOps, VerifiedCode!OP_DIV, VerifiedCode!OP_MUL,
   VerifiedCode!OP_SUB, VerifiedCode!OP_ADD, VerifiedCode!Opcodes,
   VerifiedCode!Successors, VerifiedCode!OP_CALL, VerifiedCode!OP_SCOPE_EXIT,
   VerifiedCode!AddressAt, VerifiedCode!Word, VerifiedCode!BYTE,
   VerifiedCode!OP_SET_LOCAL, VerifiedCode!OP_SET_GLOBAL, VerifiedCode!OP_COMPARE,
   VerifiedCode!OP_GET_LOCAL, VerifiedCode!OP_GET_GLOBAL, VerifiedCode!OP_CONST,
   VerifiedCode!Points,
   Cardinality, VerifiedCode!Cardinality

LEMMA SameClosed ==
  ASSUME NEW objects, NEW f, NEW points, Closed(objects, f, points)
  PROVE  VerifiedCode!Closed(objects, f, points)
BY DEF Closed, Successors, Point, OP_CALL, OP_SCOPE_EXIT, AddressAt, ByteAt, Word, BYTE,
   OP_JMP_IF_FALSE, OP_JMP, OP_SET_LOCAL, OP_SET_GLOBAL, OP_POP, OP_COMPARE, MathOps,
   OP_DIV, OP_MUL, OP_SUB, OP_ADD, OP_GET_LOCAL, OP_GET_GLOBAL, OP_CONST, OP_RETURN,
   OP_HALT, InstrLen, JumpOps, SimpleOps, Fetchable, Opcodes, EntryPoint,
   VerifiedCode!Closed, VerifiedCode!Successors, VerifiedCode!Point,
   VerifiedCode!OP_CALL, VerifiedCode!OP_SCOPE_EXIT, VerifiedCode!AddressAt,
   VerifiedCode!ByteAt, VerifiedCode!Word, VerifiedCode!BYTE,
   VerifiedCode!OP_JMP_IF_FALSE, VerifiedCode!OP_JMP, VerifiedCode!OP_SET_LOCAL,
   VerifiedCode!OP_SET_GLOBAL, VerifiedCode!OP_POP, VerifiedCode!OP_COMPARE,
   VerifiedCode!MathOps, VerifiedCode!OP_DIV, VerifiedCode!OP_MUL,
   VerifiedCode!OP_SUB, VerifiedCode!OP_ADD, VerifiedCode!OP_GET_LOCAL,
   VerifiedCode!OP_GET_GLOBAL, VerifiedCode!OP_CONST, VerifiedCode!OP_RETURN,
   VerifiedCode!OP_HALT, VerifiedCode!InstrLen, VerifiedCode!JumpOps,
   VerifiedCode!SimpleOps, VerifiedCode!Fetchable, VerifiedCode!Opcodes,
   VerifiedCode!EntryPoint

LEMMA SameAdmissible ==
  ASSUME NEW objects, NEW n, NEW f, NEW p, Admissible(objects, n, f, p)
  PROVE  VerifiedCode!Admissible(objects, n, f, p)
BY DEF Admissible, OP_RETURN, OP_HALT, OP_CALL, OP_SCOPE_EXIT, OP_SET_LOCAL, OP_GET_LOCAL,
   OP_SET_GLOBAL, OP_GET_GLOBAL, OP_CONST, OP_COMPARE, MathOps, OP_DIV, OP_MUL,
   OP_SUB, OP_ADD, OP_POP, OP_JMP_IF_FALSE, ByteAt, VerifiedCode!Admissible,
   VerifiedCode!OP_RETURN, VerifiedCode!OP_HALT, VerifiedCode!OP_CALL,
   VerifiedCode!OP_SCOPE_EXIT, VerifiedCode!OP_SET_LOCAL, VerifiedCode!OP_GET_LOCAL,
   VerifiedCode!OP_SET_GLOBAL, VerifiedCode!OP_GET_GLOBAL, VerifiedCode!OP_CONST,
   VerifiedCode!OP_COMPARE, VerifiedCode!MathOps, VerifiedCode!OP_DIV,
   VerifiedCode!OP_MUL, VerifiedCode!OP_SUB, VerifiedCode!OP_ADD, VerifiedCode!OP_POP,
   VerifiedCode!OP_JMP_IF_FALSE, VerifiedCode!ByteAt

LEMMA SameVerified ==
  ASSUME NEW objects, NEW n, Verified(objects, n)
  PROVE  VerifiedCode!Verified(objects, n)
BY SameWellFormed, SameFlow, SameClosed, SameAdmissible
   DEF Verified, VerifiedCode!Verified

LEMMA SameTypesFit ==
  OperandsFit => VerifiedCode!TypesFit
BY DEF OperandsFit,
   Machine!TypesFit, Machine!CallFits, Machine!Operand, Machine!Code,
   Machine!CalledValue, Machine!Payload, Machine!IS_FUNCTION, Machine!FUNCTION,
   Machine!TypeOf, Machine!IS_NUMBER, Machine!NUMBER, Machine!IS_NATIVE,
   Machine!NATIVE, Machine!OP_CALL, Machine!Opcode, Machine!Comparable,
   Machine!IS_STRING, Machine!OP_COMPARE, Machine!MathOps, Machine!OP_DIV,
   Machine!OP_MUL, Machine!OP_SUB, Machine!OP_ADD, VerifiedCode!TypesFit,
   VerifiedCode!CallFits, VerifiedCode!Operand, VerifiedCode!Code,
   VerifiedCode!CalledValue, VerifiedCode!Payload, VerifiedCode!IS_FUNCTION,
   VerifiedCode!FUNCTION, VerifiedCode!TypeOf, VerifiedCode!IS_NUMBER,
   VerifiedCode!NUMBER, VerifiedCode!IS_NATIVE, VerifiedCode!NATIVE,
   VerifiedCode!OP_CALL, VerifiedCode!Opcode, VerifiedCode!Comparable,
   VerifiedCode!IS_STRING, VerifiedCode!OP_COMPARE, VerifiedCode!MathOps,
   VerifiedCode!OP_DIV, VerifiedCode!OP_MUL, VerifiedCode!OP_SUB, VerifiedCode!OP_ADD

-----------------------------------------------------------------------------
(***************************************************************************)
(* What is used of the three proofs.                                       *)
(***************************************************************************)

\* exec() starts within bounds, and every pass of eval() stays there.
LEMMA StartBounded ==
  CInv /\ ValuesExist /\ VM!FreshMachine => AnyCode!Bounded
<1> SUFFICES ASSUME CInv, ValuesExist, VM!FreshMachine
             PROVE  AnyCode!Bounded
  OBVIOUS
<1>1. /\ WellFormed(codeObjects)
      /\ IsVector(globals)
      /\ \A i \in DOMAIN globals : IsValue(codeObjects, globals[i].value)
  BY CodeIsWellFormed
<1>2. /\ AnyCode!FreshMachine
      /\ AnyCode!WellFormed(codeObjects)
      /\ AnyCode!IsVector(globals)
      /\ \A i \in DOMAIN globals : AnyCode!IsValue(codeObjects, globals[i].value)
  BY <1>1, SameStart, SameVectors, SameValues, SameWellFormed
<1> QED BY <1>2, AnyCode!FreshBounded, StackLimitAssumption

LEMMA EvalBounded ==
  AnyCode!Bounded /\ VM!Eval => AnyCode!Bounded'
<1>1. VM!Eval => [AnyCode!Next]_AnyCode!vars
  BY SameEval DEF AnyCode!Next
<1>2. AnyCode!Bounded /\ [AnyCode!Next]_AnyCode!vars => AnyCode!Bounded'
  BY AnyCode!StepBounded, StackLimitAssumption
<1> QED BY <1>1, <1>2

LEMMA EvalRunning ==
  VM!Eval => status = "running" /\ status' \in {"running"} \cup Ended
<1>1. AnyCode!Eval => status = "running" /\ status' \in {"running", "halted", "died", "undefined"}
  BY AnyCode!EvalRuns, StackLimitAssumption
<1> QED BY <1>1, SameEval DEF Ended

-----------------------------------------------------------------------------
(***************************************************************************)
(* The operand stack, for whatever program.                                *)
(***************************************************************************)

\* Until eval() starts, gen()'s invariants hold and the machine is untouched.
WhileCompiling ==
  status \in {"compiling", "compiled"} => CInv /\ ValuesExist /\ VM!FreshMachine

\* exec() starts with gen()'s invariants.
LEMMA ExecStarts == ExecInit => CInv /\ ValuesExist /\ VM!FreshMachine
BY Starting, StartingValues DEF ExecInit

\* A pass of gen() keeps its invariants, and the machine as it is.
LEMMA CompileSafe ==
  WhileCompiling /\ Compile => CInv' /\ ValuesExist' /\ VM!FreshMachine'
<1> SUFFICES ASSUME WhileCompiling, Compile
             PROVE  CInv' /\ ValuesExist' /\ VM!FreshMachine'
  OBVIOUS
<1>1. GenStep /\ UNCHANGED machine
  BY DEF Compile
<1>2. CInv /\ ValuesExist /\ VM!FreshMachine
  BY <1>1, GeneratesWhileCompiling DEF WhileCompiling
<1>3. VM!FreshMachine'
  BY <1>1, <1>2 DEF machine, VM!FreshMachine, VM!Main, VM!EmptyStack, VM!Indeterminate
<1> QED BY <1>1, <1>2, <1>3, GenStepSafe

\* What gen() has established, it keeps; exec() and eval() leave it behind.
LEMMA CompilingStays ==
  WhileCompiling /\ [ExecNext]_execVars => WhileCompiling'
<1> SUFFICES ASSUME WhileCompiling, [ExecNext]_execVars
             PROVE  WhileCompiling'
  OBVIOUS
<1>1. CASE Compile
  BY <1>1, CompileSafe DEF WhileCompiling
<1>2. CASE StartEval
  BY <1>2 DEF StartEval, WhileCompiling
<1>3. CASE Evaluate
  BY <1>3, EvalRunning DEF Evaluate, Ended, WhileCompiling
<1>4. CASE Exited
  <2>1. status \in Ended /\ status' = status
    BY <1>4 DEF Exited, execVars, vars
  <2> QED BY <2>1 DEF Ended, WhileCompiling
<1>5. CASE UNCHANGED execVars
  <2>1. CInv => CInv'
    BY <1>5, Steps DEF execVars
  <2>2. CInv /\ ValuesExist => ValuesExist'
    BY <1>5, ValuesStay DEF execVars
  <2>3. VM!FreshMachine => VM!FreshMachine'
    BY <1>5 DEF execVars, machine, VM!FreshMachine, VM!Main, VM!EmptyStack,
       VM!Indeterminate
  <2>4. status' = status
    BY <1>5 DEF execVars, vars
  <2> QED BY <2>1, <2>2, <2>3, <2>4 DEF WhileCompiling
<1> QED BY <1>1, <1>2, <1>3, <1>4, <1>5 DEF ExecNext, Step

\* The registers of the machine only matter to the bounds together.
LEMMA BoundedStays ==
  ASSUME AnyCode!Bounded, status' # "undefined" => status # "undefined",
         UNCHANGED <<codeObjects, globals, ip, sp, bp, fn, stack, callStack>>
  PROVE  AnyCode!Bounded'
BY DEF AnyCode!Bounded, AnyCode!Callable

LEMMA BoundsStay ==
  WhileCompiling /\ AnyCode!Bounded /\ [ExecNext]_execVars => AnyCode!Bounded'
<1> SUFFICES ASSUME WhileCompiling, AnyCode!Bounded, [ExecNext]_execVars
             PROVE  AnyCode!Bounded'
  OBVIOUS
<1>1. CASE Compile
  <2>1. (CInv /\ ValuesExist /\ VM!FreshMachine)'
    BY <1>1, CompileSafe
  <2> QED BY <2>1, StartBounded, PTL
<1>2. CASE StartEval
  <2>1. VM!FreshMachine
    BY <1>2 DEF StartEval, WhileCompiling
  <2>2. UNCHANGED <<codeObjects, globals, ip, sp, bp, fn, stack, callStack>>
    BY <1>2, <2>1 DEF StartEval, VM!FreshMachine
  <2> QED BY <1>2, <2>2, BoundedStays DEF StartEval
<1>3. CASE Evaluate
  BY <1>3, EvalBounded DEF Evaluate
<1>4. CASE Exited \/ UNCHANGED execVars
  BY <1>4, BoundedStays DEF Exited, execVars, vars, machine
<1> QED BY <1>1, <1>2, <1>3, <1>4 DEF ExecNext, Step

\* Whatever the program is and wherever its bytecode makes eval() go, sp never
\* passes the end of the operand stack, and passes its beginning only where
\* popN(), which does not check, makes the program undefined.
THEOREM StackStaysInRange ==
  Exec => []StackInRange
<1>1. ExecInit => WhileCompiling /\ AnyCode!Bounded
  BY ExecStarts, StartBounded DEF WhileCompiling
<1>2. WhileCompiling /\ AnyCode!Bounded /\ [ExecNext]_execVars
        => WhileCompiling' /\ AnyCode!Bounded'
  BY CompilingStays, BoundsStay
<1>3. AnyCode!Bounded => StackInRange
  BY DEF AnyCode!Bounded, StackInRange
<1> QED BY <1>1, <1>2, <1>3, PTL DEF Exec

-----------------------------------------------------------------------------
(***************************************************************************)
(* Programs whose bytecode verifies and whose operands fit.                *)
(***************************************************************************)

\* exec() hands the machine code that verifies.
Handed ==
  /\ Verified(codeObjects, Len(globals))
  /\ IsVector(globals)
  /\ \A i \in DOMAIN globals : IsValue(codeObjects, globals[i].value)
  /\ VM!FreshMachine
  /\ status = "running"

LEMMA StartVerified == Handed => VerifiedCode!AInv
<1>1. Handed => VerifiedCode!FreshRun
  BY SameStart, SameVectors, SameValues, SameVerified DEF Handed, VerifiedCode!FreshRun
<1>2. VerifiedCode!FreshRun => VerifiedCode!AInv
  BY VerifiedCode!FreshMaps, StackLimitAssumption
<1> QED BY <1>1, <1>2

\* Each pass of eval() keeps what holds of code that verifies, and the last
\* one leaves nothing behind.
LEMMA EvalVerified ==
  VerifiedCode!AInv /\ OperandsFit /\ VM!Eval
    => /\ VerifiedCode!AInv'
       /\ status' = "halted" => sp' = 0 /\ callStack' = <<>>
<1>1. OperandsFit /\ VM!Eval => VerifiedCode!TypesFit /\ VerifiedCode!Eval
  BY SameEval, SameTypesFit
<1>2. VerifiedCode!AInv /\ VerifiedCode!TypesFit /\ [VerifiedCode!Next]_VerifiedCode!vars
        => VerifiedCode!AInv'
  BY VerifiedCode!StepAInv, StackLimitAssumption
<1>3. VerifiedCode!AInv /\ VerifiedCode!TypesFit /\ VerifiedCode!Eval /\ status' = "halted"
        => sp' = 0 /\ callStack' = <<>>
  BY VerifiedCode!HaltLeavesNothing, StackLimitAssumption
<1> QED BY <1>1, <1>2, <1>3 DEF VerifiedCode!Next

VerifiedRun ==
  /\ WhileCompiling
  /\ status = "running" => VerifiedCode!AInv
  /\ status = "halted"  => sp = 0 /\ callStack = <<>>

\* Code that verifies runs as it was verified for, and ends with an empty stack.
LEMMA RunStays ==
  VerifiedRun /\ CompiledCodeVerifies /\ OperandsFit /\ [ExecNext]_execVars => VerifiedRun'
<1> SUFFICES ASSUME VerifiedRun, CompiledCodeVerifies, OperandsFit, [ExecNext]_execVars
             PROVE  VerifiedRun'
  OBVIOUS
<1>1. WhileCompiling'
  BY CompilingStays DEF VerifiedRun
<1>2. CASE Compile
  <2>1. CInv'
    BY <1>2, CompileSafe DEF VerifiedRun
  <2>2. status' \notin {"running", "halted"}
    BY <2>1 DEF CInv
  <2> QED BY <1>1, <2>2 DEF VerifiedRun
<1>3. CASE StartEval
  <2>1. CInv /\ ValuesExist /\ VM!FreshMachine /\ Verified(codeObjects, Len(globals))
    BY <1>3 DEF StartEval, VerifiedRun, WhileCompiling, CompiledCodeVerifies
  <2>2. /\ IsVector(globals)
        /\ \A i \in DOMAIN globals : IsValue(codeObjects, globals[i].value)
    BY <2>1, CodeIsWellFormed
  <2>3. /\ codeObjects' = codeObjects /\ globals' = globals
        /\ status' = "running"
    BY <1>3 DEF StartEval
  <2>4. VM!FreshMachine'
    BY <1>3, <2>1 DEF StartEval, VM!FreshMachine, VM!Main, VM!EmptyStack, VM!Indeterminate
  <2>5. Handed'
    BY <2>1, <2>2, <2>3, <2>4 DEF Handed
  <2>6. VerifiedCode!AInv'
    BY <2>5, StartVerified, PTL
  <2> QED BY <1>1, <2>3, <2>6 DEF VerifiedRun
<1>4. CASE Evaluate
  <2>1. VM!Eval /\ VerifiedCode!AInv
    BY <1>4, EvalRunning DEF Evaluate, VerifiedRun
  <2> QED BY <1>1, <2>1, EvalVerified DEF VerifiedRun
<1>5. CASE Exited \/ UNCHANGED execVars
  <2>1. UNCHANGED <<vars, machine>>
    BY <1>5 DEF Exited, execVars
  <2>2. UNCHANGED VerifiedCode!vars
    BY <2>1 DEF vars, machine, VerifiedCode!vars
  <2>3. VerifiedCode!AInv => VerifiedCode!AInv'
    <3>1. VerifiedCode!AInv /\ VerifiedCode!TypesFit /\ [VerifiedCode!Next]_VerifiedCode!vars
            => VerifiedCode!AInv'
      BY VerifiedCode!StepAInv, StackLimitAssumption
    <3> QED BY <2>2, <3>1, SameTypesFit
  <2> QED BY <1>1, <2>1, <2>3 DEF VerifiedRun, vars, machine
<1> QED BY <1>2, <1>3, <1>4, <1>5 DEF ExecNext, Step

\* The same at every moment of a run.
LEMMA RunsVerified ==
  Exec /\ []CompiledCodeVerifies /\ []OperandsFit => []VerifiedRun
<1>1. ExecInit => VerifiedRun
  <2>1. ExecInit => status = "compiling"
    BY DEF ExecInit, Init, CompileStart
  <2> QED BY <2>1, ExecStarts DEF VerifiedRun, WhileCompiling
<1> QED BY <1>1, RunStays, PTL DEF Exec

\* If what compile() leaves behind verifies, and the operands the program
\* computes have types that its instructions have a case for, then eval() never
\* leaves the stack, the bytecode, the pools and the globals, and dies of
\* nothing but recursion that fills the stack.
THEOREM VerifiedCodeRunsSafely ==
  Exec /\ []CompiledCodeVerifies /\ []OperandsFit => RunsSafely
<1> DEFINE Orderly == status = "running" => /\ status' # "undefined"
                                            /\ status' = "died" => sp' = STACK_LIMIT
<1>1. VerifiedRun /\ CompiledCodeVerifies /\ OperandsFit /\ [ExecNext]_execVars
        => [Orderly]_execVars
  <2> SUFFICES ASSUME VerifiedRun, OperandsFit, ExecNext, status = "running"
               PROVE  /\ status' # "undefined"
                      /\ status' = "died" => sp' = STACK_LIMIT
    OBVIOUS
  <2>1. CASE Evaluate
    <3>1. VerifiedCode!AInv' /\ VerifiedCode!AInv
      BY <2>1, EvalVerified DEF Evaluate, VerifiedRun
    <3>2. status' # "undefined" /\ (status' = "died" => sp' = STACK_LIMIT)
      BY <3>1 DEF VerifiedCode!AInv, VerifiedCode!IInv, VerifiedCode!Safe,
                  VerifiedCode!DiesOnlyOfOverflow
    <3> QED BY <3>2
  <2>2. CASE ~ Evaluate
    BY <2>2, GeneratesWhileCompiling DEF ExecNext, Step, Compile, StartEval, Exited, Ended
  <2> QED BY <2>1, <2>2
<1> QED BY <1>1, RunsVerified, PTL DEF Exec, RunsSafely

\* Under the same assumptions OP_HALT finds the result of main and nothing else:
\* nothing is left of the operands, variables and frames of any function.
THEOREM NothingStaysBehind ==
  Exec /\ []CompiledCodeVerifies /\ []OperandsFit => []NothingLeftBehind
<1>1. VerifiedRun => NothingLeftBehind
  BY DEF VerifiedRun, NothingLeftBehind
<1> QED BY <1>1, RunsVerified, PTL

\* What the next instruction of verified code needs is on the stack.
LEMMA HeightsNeeded ==
  VerifiedCode!AInv /\ status = "running"
    => /\ sp \in Int /\ bp \in Nat
       /\ ip \in Nat
       /\ VM!Opcode \in Opcodes
       /\ ip + InstrLen(VM!Opcode) <= Len(VM!Code)
       /\ VM!Opcode \in {OP_HALT, OP_POP} => sp - bp >= 1
       /\ VM!Opcode \in MathOps => sp - bp >= 2
       /\ VM!Opcode = OP_RETURN => sp - bp = 1
<1> SUFFICES ASSUME VerifiedCode!AInv, status = "running"
             PROVE  /\ sp \in Int /\ bp \in Nat
                    /\ ip \in Nat
                    /\ VM!Opcode \in Opcodes
                    /\ ip + InstrLen(VM!Opcode) <= Len(VM!Code)
                    /\ VM!Opcode \in {OP_HALT, OP_POP} => sp - bp >= 1
                    /\ VM!Opcode \in MathOps => sp - bp >= 2
                    /\ VM!Opcode = OP_RETURN => sp - bp = 1
  OBVIOUS
<1>1. VerifiedCode!IInv
  BY DEF VerifiedCode!AInv
<1>2. /\ ip \in Nat /\ sp \in Nat /\ bp \in Nat
      /\ VerifiedCode!Opcode \in VerifiedCode!Opcodes
      /\ ip + VerifiedCode!InstrLen(VerifiedCode!Opcode) <= Len(VerifiedCode!Code)
  BY <1>1, VerifiedCode!CurrentPoint, StackLimitAssumption
<1>3. /\ VerifiedCode!Opcode \in {VerifiedCode!OP_HALT, VerifiedCode!OP_JMP_IF_FALSE,
                                  VerifiedCode!OP_POP} => sp - bp >= 1
      /\ VerifiedCode!Opcode \in VerifiedCode!MathOps \cup {VerifiedCode!OP_COMPARE}
           => sp - bp >= 2
      /\ VerifiedCode!Opcode = VerifiedCode!OP_RETURN
           => fn # VerifiedCode!Main /\ sp - bp = 1
  BY <1>1, VerifiedCode!Needed, StackLimitAssumption
<1>4. VM!Opcode = VerifiedCode!Opcode /\ VM!Code = VerifiedCode!Code
  BY DEF VM!Opcode, VM!Code, VerifiedCode!Opcode, VerifiedCode!Code
<1>5. /\ \A op : InstrLen(op) = VerifiedCode!InstrLen(op)
      /\ Opcodes = VerifiedCode!Opcodes
      /\ MathOps = VerifiedCode!MathOps
      /\ OP_HALT = VerifiedCode!OP_HALT
      /\ OP_POP = VerifiedCode!OP_POP
      /\ OP_RETURN = VerifiedCode!OP_RETURN
  BY DEF Opcodes, OP_RETURN, OP_HALT, InstrLen, JumpOps, OP_JMP_IF_FALSE, OP_JMP, SimpleOps,
   OP_POP, MathOps, OP_DIV, OP_MUL, OP_SUB, OP_ADD, VerifiedCode!Opcodes,
   VerifiedCode!OP_RETURN, VerifiedCode!OP_HALT, VerifiedCode!InstrLen,
   VerifiedCode!JumpOps, VerifiedCode!OP_JMP_IF_FALSE, VerifiedCode!OP_JMP,
   VerifiedCode!SimpleOps, VerifiedCode!OP_POP, VerifiedCode!MathOps,
   VerifiedCode!OP_DIV, VerifiedCode!OP_MUL, VerifiedCode!OP_SUB, VerifiedCode!OP_ADD
<1> QED BY <1>2, <1>3, <1>4, <1>5

\* With the same two assumptions, a function returns with its result and
\* nothing else in its frame.  The functions of the findings that do not are
\* compiled to code that does not verify.
THEOREM ReturnsWithItsResult ==
  Exec /\ []CompiledCodeVerifies /\ []OperandsFit => []ReturnsOneValue
<1>1. VerifiedRun => ReturnsOneValue
  <2> SUFFICES ASSUME VerifiedRun, NextOpcode(OP_RETURN)
               PROVE  sp = bp + 1
    BY DEF ReturnsOneValue
  <2>1. status = "running" /\ VM!Opcode = OP_RETURN /\ VerifiedCode!AInv
    BY DEF NextOpcode, VerifiedRun
  <2> QED BY <2>1, HeightsNeeded
<1> QED BY <1>1, RunsVerified, PTL

\* And main's last instruction finds a value.
THEOREM ResultIsThere ==
  Exec /\ []CompiledCodeVerifies /\ []OperandsFit => []LastValueIsResult
<1>1. VerifiedRun => LastValueIsResult
  <2> SUFFICES ASSUME VerifiedRun, status = "running", ip + 1 = Len(VM!Code)
               PROVE  sp >= 1
    BY DEF LastValueIsResult
  <2>1. VerifiedCode!AInv
    BY DEF VerifiedRun
  <2>2. /\ sp \in Int /\ bp \in Nat /\ ip \in Nat
        /\ VM!Opcode \in Opcodes
        /\ ip + InstrLen(VM!Opcode) <= ip + 1
    BY <2>1, HeightsNeeded
  <2>3. InstrLen(VM!Opcode) <= 1
    BY <2>2 DEF InstrLen
  <2>4. VM!Opcode \in SimpleOps
    BY <2>3 DEF InstrLen
  <2>5. sp - bp >= 1
    BY <2>1, <2>2, <2>4, HeightsNeeded DEF SimpleOps
  <2> QED BY <2>2, <2>5
<1> QED BY <1>1, RunsVerified, PTL
=============================================================================
