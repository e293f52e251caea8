------------------------------- MODULE VioVM -------------------------------
(***************************************************************************)
(* The stack machine of src/vm/VioVM.h.  One action is one pass of the     *)
(* loop of VioVM::eval(): it fetches the opcode at ip, reads its operands  *)
(* and executes the whole case of the switch.                              *)
(*                                                                         *)
(* status is the fate of the process:                                      *)
(*   "running"    eval() is in its loop                                    *)
(*   "halted"     eval() returned a value (in result)                      *)
(*   "died"       DIE printed a fatal error and called exit()              *)
(*   "undefined"  the code did something C++ gives no meaning to: an       *)
(*                access outside the operand stack, the bytecode vector,   *)
(*                the constant pool or the table of globals, a pop of the  *)
(*                empty call stack, an object of the wrong type behind a   *)
(*                cast.  Nothing can be said of what follows, so the model *)
(*                stops there and the properties ask when that is reached. *)
(***************************************************************************)
EXTENDS OpCode, Global

CONSTANTS
  STACK_LIMIT,   \* slots of the operand stack: 512 in the code
  NumBound,      \* bound on the quotients that OP_DIV is modelled for
  Images         \* what the machine may be started on: records with the
                 \* codeObjects and globals that the compiler leaves behind

ASSUME StackLimitAssumption == STACK_LIMIT \in Nat \ {0}

VARIABLES
  codeObjects,   \* VioCompiler::codeObjects_; the first one is "main"
  globals,       \* Global::globals
  ip,            \* 0-based offset in the code of the running function
  sp,            \* index of the first free stack slot
  bp,            \* index of the running function's first stack slot
  fn,            \* index of the running function's code object
  stack,         \* the operand stack, slots 0 .. STACK_LIMIT - 1
  callStack,     \* sequence of Frame, the caller's frame last
  status,
  result         \* what eval() returned

vars == <<codeObjects, globals, ip, sp, bp, fn, stack, callStack, status, result>>

Main == 1

Frame(ra, base, f) == [ra |-> ra, bp |-> base, fn |-> f]

EmptyStack == [i \in 0 .. STACK_LIMIT - 1 |-> Indeterminate]

\* VioVM::exec points the registers at the main function and the empty stack.
FreshMachine ==
  /\ ip = 0 /\ sp = 0 /\ bp = 0
  /\ fn = Main
  /\ stack = EmptyStack
  /\ callStack = <<>>
  /\ result = Indeterminate

Init ==
  /\ \E image \in Images : /\ codeObjects = image.codeObjects
                           /\ globals = image.globals
  /\ FreshMachine
  /\ status = "running"

-----------------------------------------------------------------------------
(***************************************************************************)
(* Fetching: READ_BYTE, READ_SHORT, TO_ADDRESS.                            *)
(***************************************************************************)
Code    == codeObjects[fn].code
Opcode  == Code[ip + 1]
Operand == Code[ip + 2]
Address == Word(Code[ip + 2], Code[ip + 3])

AtOpcode(op) == status = "running" /\ ip < Len(Code) /\ Opcode = op

Fetched(op) == AtOpcode(op) /\ ip + InstrLen(op) <= Len(Code)

(***************************************************************************)
(* Stack effects shared by the instructions.  len is the length of the     *)
(* instruction; READ_BYTE has moved ip past it.                            *)
(***************************************************************************)
\* Mutated form of Stop: DIE reports the error and does not exit.
Report(fate) == fate = "died" /\ UNCHANGED vars

Stop(fate) ==
  /\ status' = fate
  /\ UNCHANGED <<codeObjects, globals, ip, sp, bp, fn, stack, callStack, result>>

KeepFrame == UNCHANGED <<codeObjects, bp, fn, callStack, status, result>>

\* pop n values and push v in their place; n >= 1, so push() has room.
Replace(n, v, len) ==
  /\ stack' = [stack EXCEPT ![sp - n] = v]
  /\ sp' = sp - n + 1
  /\ ip' = ip + len
  /\ globals' = globals
  /\ KeepFrame

Drop(n, len) ==
  /\ sp' = sp - n
  /\ ip' = ip + len
  /\ UNCHANGED <<stack, globals>>
  /\ KeepFrame

\* Mutated form of Push: the end of the stack is not checked.
PushUnchecked(v, len) ==
  /\ stack' = [stack EXCEPT ![sp] = v]
  /\ sp' = sp + 1
  /\ ip' = ip + len
  /\ globals' = globals
  /\ KeepFrame

\* push(): a full stack is fatal.
Push(v, len) ==
  \/ /\ sp = STACK_LIMIT
     /\ Stop("died")
  \/ /\ sp < STACK_LIMIT
     /\ stack' = [stack EXCEPT ![sp] = v]
     /\ sp' = sp + 1
     /\ ip' = ip + len
     /\ globals' = globals
     /\ KeepFrame

\* pop() and peek() check for the empty stack; n pops need n values.
Needs(n) == sp >= n

\* Mutated form of DieShortOf: the last value on the stack cannot be popped.
DieAtLast(n) == sp <= n /\ Stop("died")

DieShortOf(n) == sp < n /\ Stop("died")

-----------------------------------------------------------------------------
(***************************************************************************)
(* Arithmetic.  A number is an integer here: the doubles of the program    *)
(* all come from integer literals.  OP_DIV is modelled for the quotients   *)
(* that are integers of at most NumBound; TLC stops at any other one.      *)
(***************************************************************************)
Quotient(a, b) == CHOOSE q \in -NumBound .. NumBound : b # 0 /\ q * b = a

Arith(op, v1, v2) == CASE op = OP_ADD -> v1 + v2
                       [] op = OP_SUB -> v1 - v2
                       [] op = OP_MUL -> v1 * v2
                       [] op = OP_DIV -> Quotient(v1, v2)

\* op1 is popped first, so it is the operand that was pushed last.
\* Two strings are concatenated, whatever the operator.
MathResult(op, op1, op2) ==
  IF IS_NUMBER(op1) THEN NUMBER(Arith(op, Payload(op1), Payload(op2)))
                    ELSE STRING_VALUE(Payload(op2) \o Payload(op1))

\* BINARY_OP and OP_COMPARE have a case for two numbers and one for two
\* strings; for any other pair they pop both and push nothing.
Comparable(v, w) == \/ IS_NUMBER(v) /\ IS_NUMBER(w)
                    \/ IS_STRING(v) /\ IS_STRING(w)

\* std::string's order: the first difference decides, a prefix is smaller.
StringLess(s, t) ==
  \E i \in 1 .. Len(t) : /\ \A j \in 1 .. i - 1 : j <= Len(s) /\ s[j] = t[j]
                         /\ i > Len(s) \/ s[i] < t[i]

Less(v, w) == IF IS_NUMBER(v) THEN Payload(v) < Payload(w)
                              ELSE StringLess(Payload(v), Payload(w))

\* COMPARE_VALUES leaves res uninitialized when op is not one of the six.
CompareOutcomes(op, v, w) ==
  CASE op = 0 -> {Less(v, w)}
    [] op = 1 -> {Less(w, v)}
    [] op = 2 -> {Payload(v) = Payload(w)}
    [] op = 3 -> {~ Less(v, w)}
    [] op = 4 -> {~ Less(w, v)}
    [] op = 5 -> {Payload(v) # Payload(w)}
    [] OTHER  -> BOOLEAN

\* AS_BOOLEAN reads the first byte of the union, whatever its type.  In a
\* double that is the lowest byte of the mantissa, zero for the integers of
\* the model; in an object pointer it may be anything.
ConditionOutcomes(v) == IF IS_BOOLEAN(v) THEN {Payload(v)}
                        ELSE IF IS_NUMBER(v) THEN {FALSE}
                        ELSE BOOLEAN

-----------------------------------------------------------------------------
(***************************************************************************)
(* The instructions, in the order of eval()'s switch.                      *)
(***************************************************************************)
Halt ==
  /\ Fetched(OP_HALT)
  /\ \/ DieShortOf(1)
     \/ /\ Needs(1)
        /\ result' = stack[sp - 1]
        /\ sp' = sp - 1
        /\ ip' = ip + 1
        /\ status' = "halted"
        /\ UNCHANGED <<codeObjects, globals, bp, fn, stack, callStack>>

Const ==
  /\ Fetched(OP_CONST)
  /\ LET constants == codeObjects[fn].constants
     IN \/ Operand >= Len(constants) /\ Stop("undefined")
        \/ Operand < Len(constants) /\ Push(constants[Operand + 1], 2)

Math(op) ==
  /\ Fetched(op)
  /\ \/ DieShortOf(2)
     \/ /\ Needs(2)
        /\ LET op1 == stack[sp - 1]
               op2 == stack[sp - 2]
           IN IF Comparable(op1, op2)
              THEN Replace(2, MathResult(op, op1, op2), 1)
              ELSE Drop(2, 1)

Compare ==
  /\ Fetched(OP_COMPARE)
  /\ \/ DieShortOf(2)
     \/ /\ Needs(2)
        /\ LET op2 == stack[sp - 1]
               op1 == stack[sp - 2]
           IN IF Comparable(op1, op2)
              THEN \E res \in CompareOutcomes(Operand, op1, op2) :
                     Replace(2, BOOLEAN_VALUE(res), 2)
              ELSE Drop(2, 2)

\* Mutated form of JmpIfFalse: the condition is not popped.
JmpIfFalsePeeking ==
  /\ Fetched(OP_JMP_IF_FALSE)
  /\ Needs(1)
  /\ \E cond \in ConditionOutcomes(stack[sp - 1]) :
       ip' = IF cond THEN ip + 3 ELSE Address
  /\ UNCHANGED <<sp, stack, globals>>
  /\ KeepFrame

\* The one instruction that pops before it reads its operand.
JmpIfFalse ==
  /\ AtOpcode(OP_JMP_IF_FALSE)
  /\ \/ DieShortOf(1)
     \/ /\ Needs(1)
        /\ Fetched(OP_JMP_IF_FALSE)
        /\ sp' = sp - 1
        /\ \E cond \in ConditionOutcomes(stack[sp - 1]) :
             ip' = IF cond THEN ip + 3 ELSE Address
        /\ UNCHANGED <<stack, globals>>
        /\ KeepFrame

Jmp ==
  /\ Fetched(OP_JMP)
  /\ ip' = Address
  /\ UNCHANGED <<sp, stack, globals>>
  /\ KeepFrame

\* Global::get does not check its index; Global::set does.
GetGlobal ==
  /\ Fetched(OP_GET_GLOBAL)
  /\ \/ Operand >= Len(globals) /\ Stop("undefined")
     \/ Operand < Len(globals) /\ Push(globals[Operand + 1].value, 2)

SetGlobal ==
  /\ Fetched(OP_SET_GLOBAL)
  /\ \/ DieShortOf(1)
     \/ Needs(1) /\ Operand >= Len(globals) /\ Stop("died")
     \/ /\ Needs(1)
        /\ Operand < Len(globals)
        /\ globals' = [globals EXCEPT ![Operand + 1] =
                         GlobalVar(@.name, stack[sp - 1])]
        /\ ip' = ip + 2
        /\ UNCHANGED <<sp, stack>>
        /\ KeepFrame

Pop ==
  /\ Fetched(OP_POP)
  /\ \/ DieShortOf(1)
     \/ Needs(1) /\ Drop(1, 1)

\* A local is addressed from bp.  The check of the index is against the size
\* of the stack, not against the slots in use.
GetLocal ==
  /\ Fetched(OP_GET_LOCAL)
  /\ LET slot == bp + Operand
     IN \/ Operand >= STACK_LIMIT /\ Stop("died")
        \/ /\ Operand < STACK_LIMIT
           /\ IF slot >= STACK_LIMIT THEN Stop("undefined")
              ELSE IF stack[slot] = Indeterminate THEN Stop("undefined")
              ELSE Push(stack[slot], 2)

SetLocal ==
  /\ Fetched(OP_SET_LOCAL)
  /\ LET slot == bp + Operand
     IN \/ DieShortOf(1)
        \/ Needs(1) /\ Operand >= STACK_LIMIT /\ Stop("died")
        \/ /\ Needs(1)
           /\ Operand < STACK_LIMIT
           /\ slot >= STACK_LIMIT
           /\ Stop("undefined")
        \/ /\ Needs(1)
           /\ Operand < STACK_LIMIT
           /\ slot < STACK_LIMIT
           /\ stack' = [stack EXCEPT ![slot] = stack[sp - 1]]
           /\ ip' = ip + 2
           /\ UNCHANGED <<sp, globals>>
           /\ KeepFrame

\* popN() does not check the count: sp goes to the bottom of the array or
\* below it.  The value was stored below the array before that.
PopBelow(count) ==
  /\ status' = "undefined"
  /\ sp' = sp - count
  /\ ip' = ip + 2
  /\ UNCHANGED <<codeObjects, globals, bp, fn, stack, callStack, result>>

\* The result moves below the variables of the scope, which are dropped.
ScopeExit ==
  /\ Fetched(OP_SCOPE_EXIT)
  /\ LET count == Operand
     IN \/ DieShortOf(1)
        \/ Needs(1) /\ sp - 1 - count < 0 /\ PopBelow(count)
        \/ /\ Needs(1)
           /\ sp - 1 - count >= 0
           /\ Replace(count + 1, stack[sp - 1], 2)

\* native-square pushes the square of the value on top; the VM pops it, then
\* the arguments and the function, and pushes it again.  popN() stays within
\* the array: it goes to the slot that the function was read from.
CallNative(argsCount) ==
  \/ ~ IS_NUMBER(stack[sp - 1]) /\ Stop("undefined")
  \/ IS_NUMBER(stack[sp - 1]) /\ sp = STACK_LIMIT /\ Stop("died")
  \/ /\ IS_NUMBER(stack[sp - 1])
     /\ sp < STACK_LIMIT
     /\ LET x == Payload(stack[sp - 1])
        IN stack' = [stack EXCEPT ![sp] = NUMBER(x * x),
                                  ![sp - argsCount - 1] = NUMBER(x * x)]
     /\ sp' = sp - argsCount
     /\ ip' = ip + 2
     /\ globals' = globals
     /\ KeepFrame

\* Mutated form of CalleeBase: the frame starts at the first argument.
FirstArgument(argsCount) == sp - argsCount

\* The callee's frame starts at the slot of the function itself.
CalleeBase(argsCount) == sp - argsCount - 1

\* Mutated form of CallFunction: the caller resumes at the call itself.
CallFunctionAgain(callee, argsCount) ==
  /\ callStack' = Append(callStack, Frame(ip, bp, fn))
  /\ fn' = callee
  /\ bp' = CalleeBase(argsCount)
  /\ ip' = 0
  /\ UNCHANGED <<codeObjects, globals, sp, stack, status, result>>

CallFunction(callee, argsCount) ==
  /\ callStack' = Append(callStack, Frame(ip + 2, bp, fn))
  /\ fn' = callee
  /\ bp' = CalleeBase(argsCount)
  /\ ip' = 0
  /\ UNCHANGED <<codeObjects, globals, sp, stack, status, result>>

Call ==
  /\ Fetched(OP_CALL)
  /\ LET argsCount == Operand
         fnValue   == stack[sp - 1 - argsCount]
     IN \/ DieShortOf(1)
        \/ Needs(1) /\ sp - 1 - argsCount < 0 /\ Stop("undefined")
        \/ /\ Needs(1)
           /\ sp - 1 - argsCount >= 0
           /\ \/ IS_NATIVE(fnValue) /\ CallNative(argsCount)
              \/ /\ IS_FUNCTION(fnValue)
                 /\ CallFunction(Payload(fnValue), argsCount)
              \/ /\ ~ IS_NATIVE(fnValue) /\ ~ IS_FUNCTION(fnValue)
                 /\ Stop("undefined")

\* Mutated forms of Return: the caller's base, or its code, is not restored.
ReturnOn(base, f) ==
  /\ Fetched(OP_RETURN)
  /\ callStack # <<>>
  /\ ip' = callStack[Len(callStack)].ra
  /\ bp' = base
  /\ fn' = f
  /\ callStack' = SubSeq(callStack, 1, Len(callStack) - 1)
  /\ UNCHANGED <<codeObjects, globals, sp, stack, status, result>>

ReturnKeepingBase == callStack # <<>> /\ ReturnOn(bp, callStack[Len(callStack)].fn)
ReturnKeepingCode == callStack # <<>> /\ ReturnOn(callStack[Len(callStack)].bp, fn)

Return ==
  /\ Fetched(OP_RETURN)
  /\ \/ callStack = <<>> /\ Stop("undefined")
     \/ /\ callStack # <<>>
        /\ LET caller == callStack[Len(callStack)]
           IN ip' = caller.ra /\ bp' = caller.bp /\ fn' = caller.fn
        /\ callStack' = SubSeq(callStack, 1, Len(callStack) - 1)
        /\ UNCHANGED <<codeObjects, globals, sp, stack, status, result>>

\* The default case of the switch.
UnknownOpcode ==
  /\ status = "running"
  /\ ip < Len(Code)
  /\ Opcode \notin Opcodes
  /\ Stop("died")

\* The opcode or an operand lies beyond the end of the bytecode.
FetchBeyondCode ==
  /\ status = "running"
  /\ \/ ip >= Len(Code)
     \/ /\ ip < Len(Code)
        /\ Opcode \in Opcodes
        /\ ip + InstrLen(Opcode) > Len(Code)
        /\ Opcode = OP_JMP_IF_FALSE => Needs(1)
  /\ Stop("undefined")

Eval == \/ Halt \/ Const \/ (\E op \in MathOps : Math(op)) \/ Compare
        \/ JmpIfFalse \/ Jmp \/ GetGlobal \/ SetGlobal \/ Pop
        \/ GetLocal \/ SetLocal \/ ScopeExit \/ Call \/ Return
        \/ UnknownOpcode \/ FetchBeyondCode

\* The process is over.
Exited == status \in {"halted", "died", "undefined"} /\ UNCHANGED vars

Next == Eval \/ Exited

Spec == Init /\ [][Next]_vars

\* eval() is a loop on the only thread of the process.
FairSpec == Spec /\ WF_vars(Eval)

-----------------------------------------------------------------------------
\* Whatever the bytecode is, sp never passes the end of the operand stack, and
\* passes its beginning only in the step that makes the program undefined:
\* push() and pop() check, popN() does not.
StackInRange == sp <= STACK_LIMIT /\ (status # "undefined" => sp >= 0)

\* Only SET_GLOBAL changes a global, and it keeps the name under each index:
\* the indexes that the compiler burned into the bytecode stay good.
GlobalNamesKept ==
  [][/\ Len(globals') = Len(globals)
     /\ \A i \in DOMAIN globals : globals'[i].name = globals[i].name]_vars

\* eval() comes to OP_HALT, to a fatal error or to undefined behaviour.
Stops == <>(status # "running")
=============================================================================
