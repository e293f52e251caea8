------------------------- MODULE VioVMBoundsProofs -------------------------
(***************************************************************************)
(* Proofs about the machine on bytecode that need not verify: for every    *)
(* STACK_LIMIT and all Images made of bytes and existing values.           *)
(***************************************************************************)
EXTENDS VioVMBounds, VioVectorProofs

\* popN() has not taken sp out of the array.
Alive == status # "undefined"

\* What the steps use of the invariant.
LEMMA Facts ==
  ASSUME Bounded, Alive
  PROVE  /\ STACK_LIMIT \in Nat
         /\ sp \in Int /\ 0 <= sp /\ sp <= STACK_LIMIT
         /\ ip \in Nat /\ bp \in Nat
         /\ Code \in Seq(0 .. BYTE - 1) /\ Len(Code) \in Nat
         /\ IsVector(codeObjects[fn].constants)
         /\ \A i \in DOMAIN codeObjects[fn].constants :
              Callable(codeObjects[fn].constants[i])
         /\ DOMAIN globals = 1 .. Len(globals) /\ Len(globals) \in Nat
<1>1. STACK_LIMIT \in Nat
  BY StackLimitAssumption
<1>2. sp \in Int /\ 0 <= sp /\ sp <= STACK_LIMIT /\ ip \in Nat /\ bp \in Nat
  BY <1>1 DEF Bounded, Alive
<1>3. /\ Code \in Seq(0 .. BYTE - 1)
      /\ IsVector(codeObjects[fn].constants)
  BY DEF Bounded, WellFormed, Code
<1>4. \A i \in DOMAIN codeObjects[fn].constants :
        Callable(codeObjects[fn].constants[i])
  <2> SUFFICES ASSUME NEW i \in DOMAIN codeObjects[fn].constants
               PROVE  Callable(codeObjects[fn].constants[i])
    OBVIOUS
  <2>1. IsValue(codeObjects, codeObjects[fn].constants[i])
    BY DEF Bounded, WellFormed
  <2>2. DOMAIN codeObjects = 1 .. Len(codeObjects)
    BY VectorDomain DEF Bounded, WellFormed
  <2> QED BY <2>1, <2>2 DEF IsValue, Callable
<1>5. DOMAIN globals = 1 .. Len(globals) /\ Len(globals) \in Nat
  BY VectorDomain DEF Bounded
<1> QED BY <1>1, <1>2, <1>3, <1>4, <1>5

\* The operand bytes of an instruction that was fetched whole.
LEMMA FetchedOperands ==
  ASSUME Bounded, Alive, NEW op, Fetched(op)
  PROVE  /\ InstrLen(op) = 2 => Operand \in Nat
         /\ InstrLen(op) = 3 => Address \in Nat
<1>1. /\ ip \in Nat /\ Code \in Seq(0 .. BYTE - 1) /\ Len(Code) \in Nat
      /\ ip + InstrLen(op) <= Len(Code)
  BY Facts DEF Fetched
<1>2. ASSUME InstrLen(op) = 2
      PROVE  Operand \in Nat
  <2>1. ip + 2 \in 1 .. Len(Code)
    BY <1>1, <1>2
  <2>2. Code[ip + 2] \in 0 .. BYTE - 1
    BY <1>1, <2>1, ElementOfSeq
  <2> QED BY <2>2 DEF Operand, BYTE
<1>3. ASSUME InstrLen(op) = 3
      PROVE  Address \in Nat
  <2>1. ip + 2 \in 1 .. Len(Code) /\ ip + 3 \in 1 .. Len(Code)
    BY <1>1, <1>3
  <2>2. Code[ip + 2] \in 0 .. BYTE - 1 /\ Code[ip + 3] \in 0 .. BYTE - 1
    BY <1>1, <2>1, ElementOfSeq
  <2>3. BYTE \in Nat /\ Code[ip + 2] \in Nat /\ Code[ip + 3] \in Nat
    BY <2>2 DEF BYTE
  <2>4. \A hi, lo, b \in Nat : hi * b + lo \in Nat
    OBVIOUS
  <2> QED BY <2>3, <2>4 DEF Address, Word
<1> QED BY <1>2, <1>3

\* The lengths of the instructions.
LEMMA Lengths ==
  /\ \A op \in {OP_CONST, OP_COMPARE, OP_GET_GLOBAL, OP_SET_GLOBAL, OP_GET_LOCAL,
                OP_SET_LOCAL, OP_SCOPE_EXIT, OP_CALL} : InstrLen(op) = 2
  /\ \A op \in {OP_JMP, OP_JMP_IF_FALSE} : InstrLen(op) = 3
BY DEF InstrLen, SimpleOps, JumpOps, MathOps, OP_HALT, OP_CONST, OP_ADD, OP_SUB,
   OP_MUL, OP_DIV, OP_COMPARE, OP_JMP_IF_FALSE, OP_JMP, OP_GET_GLOBAL,
   OP_SET_GLOBAL, OP_POP, OP_GET_LOCAL, OP_SET_LOCAL, OP_SCOPE_EXIT, OP_CALL,
   OP_RETURN

\* Numbers, strings and booleans are no functions.
LEMMA PlainCallable ==
  ASSUME NEW x
  PROVE  /\ Callable(NUMBER(x))
         /\ Callable(STRING_VALUE(x))
         /\ Callable(BOOLEAN_VALUE(x))
         /\ Callable(Indeterminate)
BY DEF Callable, IS_FUNCTION, TypeOf, NUMBER, STRING_VALUE, BOOLEAN_VALUE,
       Indeterminate

-----------------------------------------------------------------------------
(***************************************************************************)
(* The ways a step changes the machine.                                    *)
(***************************************************************************)

\* The process ends, and its state stays.
LEMMA Stopping ==
  ASSUME Bounded, Alive, NEW fate, Stop(fate)
  PROVE  Bounded'
BY DEF Stop, Bounded, Callable, Alive

\* A step within a function: what it writes, sp and ip are all that matters.
LEMMA LocalStep ==
  ASSUME Bounded, Alive, KeepFrame, globals' = globals,
         ip' \in Nat, sp' \in 0 .. STACK_LIMIT,
         DOMAIN stack' = DOMAIN stack,
         \A i \in DOMAIN stack : Callable(stack'[i])
  PROVE  Bounded'
<1>1. UNCHANGED <<codeObjects, globals, bp, fn, callStack>>
  BY DEF KeepFrame
<1>2. \A i \in DOMAIN stack' : Callable(stack'[i])
  OBVIOUS
<1>3. \A i \in DOMAIN globals' : Callable(globals'[i].value)
  BY <1>1 DEF Bounded
<1>4. sp' \in Int /\ sp' <= STACK_LIMIT /\ sp' >= 0
  BY StackLimitAssumption
<1> QED BY <1>1, <1>2, <1>3, <1>4 DEF Bounded, Callable

\* One slot is written.
LEMMA Writing ==
  ASSUME Bounded, Alive, NEW slot, NEW v, Callable(v)
  PROVE  /\ DOMAIN [stack EXCEPT ![slot] = v] = DOMAIN stack
         /\ \A i \in DOMAIN stack : Callable([stack EXCEPT ![slot] = v][i])
<1>1. ASSUME NEW i \in DOMAIN stack
      PROVE  Callable([stack EXCEPT ![slot] = v][i])
  <2>1. \/ [stack EXCEPT ![slot] = v][i] = v
        \/ [stack EXCEPT ![slot] = v][i] = stack[i]
    OBVIOUS
  <2> QED BY <2>1 DEF Bounded
<1> QED BY <1>1

\* push(): the check keeps sp within the array.
LEMMA Pushing ==
  ASSUME Bounded, Alive, NEW v, Callable(v), NEW len \in Nat, Push(v, len)
  PROVE  Bounded'
<1>1. CASE Stop("died")
  BY <1>1, Stopping
<1>2. CASE sp < STACK_LIMIT /\ ~ Stop("died")
  <2>1. /\ stack' = [stack EXCEPT ![sp] = v] /\ globals' = globals /\ KeepFrame
        /\ sp' \in 0 .. STACK_LIMIT /\ ip' \in Nat
    BY <1>2, Facts DEF Push
  <2> QED BY <2>1, Writing, LocalStep
<1> QED BY <1>1, <1>2, Facts DEF Push

\* n values make way for one: sp sinks or stays.
LEMMA Replacing ==
  ASSUME Bounded, Alive, NEW v, Callable(v), NEW len \in Nat, NEW n \in Nat,
         n >= 1, sp - n >= 0, Replace(n, v, len)
  PROVE  Bounded'
<1>1. /\ stack' = [stack EXCEPT ![sp - n] = v] /\ globals' = globals /\ KeepFrame
      /\ sp' \in 0 .. STACK_LIMIT /\ ip' \in Nat
  BY Facts DEF Replace
<1> QED BY <1>1, Writing, LocalStep

\* n values are dropped.
LEMMA Dropping ==
  ASSUME Bounded, Alive, NEW n \in Nat, sp - n >= 0, sp' = sp - n, ip' \in Nat,
         UNCHANGED <<stack, globals>>, KeepFrame
  PROVE  Bounded'
<1>1. sp' \in 0 .. STACK_LIMIT
  BY Facts
<1>2. \A i \in DOMAIN stack : Callable(stack[i])
  BY DEF Bounded
<1>3. DOMAIN stack' = DOMAIN stack /\ \A i \in DOMAIN stack : Callable(stack'[i])
  BY <1>2
<1>4. globals' = globals
  OBVIOUS
<1> QED BY <1>1, <1>3, <1>4, LocalStep

\* A slot below sp is one of the array's.
LEMMA Slots ==
  ASSUME Bounded, Alive, NEW k \in Nat, sp - 1 - k >= 0
  PROVE  sp - 1 - k \in DOMAIN stack /\ Callable(stack[sp - 1 - k])
<1>1. sp - 1 - k \in 0 .. STACK_LIMIT - 1
  BY Facts
<1> QED BY <1>1 DEF Bounded

LEMMA TopSlot ==
  ASSUME Bounded, Alive, Needs(1)
  PROVE  sp - 1 \in DOMAIN stack /\ Callable(stack[sp - 1])
<1>1. sp - 1 \in 0 .. STACK_LIMIT - 1
  BY Facts DEF Needs
<1> QED BY <1>1 DEF Bounded

-----------------------------------------------------------------------------
(***************************************************************************)
(* The instructions.                                                       *)
(***************************************************************************)

\* Constants and globals are values that exist.
LEMMA LoadSteps == ASSUME Bounded, Alive, Const \/ GetGlobal PROVE Bounded'
<1>1. CASE Const
  <2> DEFINE constants == codeObjects[fn].constants
  <2>1. Operand \in Nat
    BY <1>1, FetchedOperands, Lengths DEF Const
  <2>2. CASE Operand < Len(constants) /\ Push(constants[Operand + 1], 2)
    <3>1. DOMAIN constants = 1 .. Len(constants) /\ Len(constants) \in Nat
      BY Facts, VectorDomain
    <3>2. Operand + 1 \in DOMAIN constants
      BY <2>1, <2>2, <3>1
    <3> QED BY <2>2, <3>2, Facts, Pushing
  <2> QED BY <1>1, <2>2, Stopping DEF Const
<1>2. CASE GetGlobal
  <2>1. Operand \in Nat
    BY <1>2, FetchedOperands, Lengths DEF GetGlobal
  <2>2. CASE Operand < Len(globals) /\ Push(globals[Operand + 1].value, 2)
    <3>1. Operand + 1 \in DOMAIN globals
      BY <2>1, <2>2, Facts
    <3>2. Callable(globals[Operand + 1].value)
      BY <3>1 DEF Bounded
    <3> QED BY <2>2, <3>2, Pushing
  <2> QED BY <1>2, <2>2, Stopping DEF GetGlobal
<1> QED BY <1>1, <1>2

\* Arithmetic and comparison, with operands they have a case for or not.
LEMMA BinarySteps ==
  ASSUME Bounded, Alive, (\E op \in MathOps : Math(op)) \/ Compare
  PROVE  Bounded'
<1>1. ASSUME NEW op \in MathOps, Math(op)
      PROVE  Bounded'
  <2>1. CASE DieShortOf(2)
    BY <2>1, Stopping DEF DieShortOf
  <2>2. CASE Needs(2) /\ Replace(2, MathResult(op, stack[sp - 1], stack[sp - 2]), 1)
    <3>1. sp - 2 >= 0
      BY <2>2, Facts DEF Needs
    <3>2. Callable(MathResult(op, stack[sp - 1], stack[sp - 2]))
      BY PlainCallable DEF MathResult
    <3> QED BY <2>2, <3>1, <3>2, Replacing
  <2>3. CASE Needs(2) /\ Drop(2, 1)
    <3>1. /\ sp - 2 >= 0 /\ sp' = sp - 2 /\ ip' \in Nat
          /\ UNCHANGED <<stack, globals>> /\ KeepFrame
      BY <2>3, Facts DEF Needs, Drop
    <3> QED BY <3>1, Dropping
  <2> QED BY <1>1, <2>1, <2>2, <2>3 DEF Math
<1>2. CASE Compare
  <2>1. CASE DieShortOf(2)
    BY <2>1, Stopping DEF DieShortOf
  <2>2. CASE Needs(2) /\ \E res : Replace(2, BOOLEAN_VALUE(res), 2)
    <3>1. sp - 2 >= 0
      BY <2>2, Facts DEF Needs
    <3>2. PICK res : Replace(2, BOOLEAN_VALUE(res), 2)
      BY <2>2
    <3> QED BY <3>1, <3>2, PlainCallable, Replacing
  <2>3. CASE Needs(2) /\ Drop(2, 2)
    <3>1. /\ sp - 2 >= 0 /\ sp' = sp - 2 /\ ip' \in Nat
          /\ UNCHANGED <<stack, globals>> /\ KeepFrame
      BY <2>3, Facts DEF Needs, Drop
    <3> QED BY <3>1, Dropping
  <2> QED BY <1>2, <2>1, <2>2, <2>3 DEF Compare
<1> QED BY <1>1, <1>2

\* Jumps go to an address made of two bytes, and OP_POP drops a value.
LEMMA JumpSteps == ASSUME Bounded, Alive, JmpIfFalse \/ Jmp \/ Pop PROVE Bounded'
<1>1. CASE JmpIfFalse
  <2>2. CASE DieShortOf(1)
    BY <2>2, Stopping DEF DieShortOf
  <2>3. CASE ~ DieShortOf(1)
    <3>0. Address \in Nat
      BY <1>1, <2>3, FetchedOperands, Lengths DEF JmpIfFalse
    <3>1. /\ sp - 1 >= 0 /\ sp' = sp - 1 /\ ip' \in {ip + 3, Address}
          /\ UNCHANGED <<stack, globals>> /\ KeepFrame
      BY <1>1, <2>3, Facts DEF JmpIfFalse, Needs
    <3>2. ip' \in Nat
      BY <3>0, <3>1, Facts
    <3> QED BY <3>1, <3>2, Dropping
  <2> QED BY <2>2, <2>3
<1>2. CASE Jmp
  <2>1. /\ ip' \in Nat /\ sp' = sp - 0 /\ sp - 0 >= 0
        /\ UNCHANGED <<stack, globals>> /\ KeepFrame
    BY <1>2, FetchedOperands, Lengths, Facts DEF Jmp
  <2> QED BY <2>1, Dropping
<1>3. CASE Pop
  <2>1. CASE DieShortOf(1)
    BY <2>1, Stopping DEF DieShortOf
  <2>2. CASE Needs(1) /\ Drop(1, 1)
    <3>1. /\ sp - 1 >= 0 /\ sp' = sp - 1 /\ ip' \in Nat
          /\ UNCHANGED <<stack, globals>> /\ KeepFrame
      BY <2>2, Facts DEF Needs, Drop
    <3> QED BY <3>1, Dropping
  <2> QED BY <1>3, <2>1, <2>2 DEF Pop
<1> QED BY <1>1, <1>2, <1>3

\* A global gets the value on top of the stack and keeps its name.
LEMMA SetGlobalStep ==
  ASSUME Bounded, Alive, SetGlobal
  PROVE  /\ Bounded'
         /\ Len(globals') = Len(globals)
         /\ \A i \in DOMAIN globals : globals'[i].name = globals[i].name
<1>1. CASE globals' # globals
  <2> DEFINE entry == GlobalVar(globals[Operand + 1].name, stack[sp - 1])
  <2>1. /\ globals' = [globals EXCEPT ![Operand + 1] = entry]
        /\ Operand < Len(globals) /\ Needs(1)
        /\ ip' = ip + 2 /\ UNCHANGED <<sp, stack>> /\ KeepFrame
    BY <1>1 DEF SetGlobal, Stop, DieShortOf
  <2>2. Operand \in Nat
    BY FetchedOperands, Lengths DEF SetGlobal
  <2>3. Operand + 1 \in DOMAIN globals
    BY <2>1, <2>2, Facts
  <2>4. entry.name = globals[Operand + 1].name /\ entry.value = stack[sp - 1]
    BY DEF GlobalVar
  <2> HIDE DEF entry
  <2>5. IsVector(globals') /\ Len(globals') = Len(globals)
    BY <2>1, <2>3, VectorUpdate DEF Bounded
  <2>6. /\ DOMAIN globals' = DOMAIN globals
        /\ \A i \in DOMAIN globals :
             globals'[i] = IF i = Operand + 1 THEN entry ELSE globals[i]
    BY <2>1
  <2>7. Callable(entry.value)
    BY <2>1, <2>4, TopSlot
  <2>8. \A i \in DOMAIN globals' : Callable(globals'[i].value)
    BY <2>6, <2>7 DEF Bounded
  <2>9. UNCHANGED <<codeObjects, bp, fn, callStack, sp, stack>> /\ ip' \in Nat
    BY <2>1, Facts DEF KeepFrame
  <2>10. Bounded'
    BY <2>5, <2>8, <2>9 DEF Bounded, Callable, Alive
  <2> QED BY <2>4, <2>5, <2>6, <2>10
<1>2. CASE globals' = globals
  <2>1. CASE \E fate : Stop(fate)
    BY <2>1, <1>2, Stopping
  <2>2. CASE ~ \E fate : Stop(fate)
    <3>1. ip' = ip + 2 /\ UNCHANGED <<sp, stack>> /\ KeepFrame
      BY <2>2 DEF SetGlobal, DieShortOf
    <3>2. ip' \in Nat /\ sp' = sp - 0 /\ sp - 0 >= 0 /\ UNCHANGED <<stack, globals>>
      BY <1>2, <3>1, Facts
    <3> QED BY <1>2, <3>1, <3>2, Dropping
  <2> QED BY <2>1, <2>2
<1> QED BY <1>1, <1>2

\* Locals: whatever slot the operand names, reading or writing moves values.
LEMMA LocalSteps == ASSUME Bounded, Alive, GetLocal \/ SetLocal PROVE Bounded'
<1> DEFINE slot == bp + Operand
<1>1. CASE GetLocal
  <2>1. Operand \in Nat
    BY <1>1, FetchedOperands, Lengths DEF GetLocal
  <2>2. CASE \E fate : Stop(fate)
    BY <2>2, Stopping
  <2>3. CASE ~ \E fate : Stop(fate)
    <3>1. Push(stack[slot], 2) /\ ~ (slot >= STACK_LIMIT)
      BY <1>1, <2>3 DEF GetLocal
    <3>2. slot \in 0 .. STACK_LIMIT - 1
      BY <2>1, <3>1, Facts
    <3>3. Callable(stack[slot])
      BY <3>2 DEF Bounded
    <3> QED BY <3>1, <3>3, Pushing
  <2> QED BY <2>2, <2>3
<1>2. CASE SetLocal
  <2>1. CASE \E fate : Stop(fate)
    BY <2>1, Stopping
  <2>2. CASE ~ \E fate : Stop(fate)
    <3>1. /\ Needs(1) /\ stack' = [stack EXCEPT ![slot] = stack[sp - 1]]
          /\ ip' = ip + 2 /\ UNCHANGED <<sp, globals>> /\ KeepFrame
      BY <1>2, <2>2 DEF SetLocal, DieShortOf
    <3>2. ip' \in Nat /\ sp' \in 0 .. STACK_LIMIT
      BY <3>1, Facts
    <3>3. Callable(stack[sp - 1])
      BY <3>1, TopSlot
    <3> HIDE DEF slot
    <3>4. globals' = globals
      BY <3>1
    <3> QED BY <3>1, <3>2, <3>3, <3>4, Writing, LocalStep
  <2> QED BY <2>1, <2>2
<1> QED BY <1>1, <1>2

\* popN() does not check how far it goes; beyond the bottom is undefined.
LEMMA ScopeExitStep == ASSUME Bounded, Alive, ScopeExit PROVE Bounded'
<1>1. Operand \in Nat
  BY FetchedOperands, Lengths DEF ScopeExit
<1>2. CASE DieShortOf(1)
  BY <1>2, Stopping DEF DieShortOf
<1>3. CASE Needs(1) /\ sp - 1 - Operand < 0 /\ PopBelow(Operand)
  <2>1. /\ status' = "undefined" /\ sp' = sp - Operand /\ ip' = ip + 2
        /\ UNCHANGED <<codeObjects, globals, bp, fn, stack, callStack>>
    BY <1>3 DEF PopBelow
  <2>2. ip' \in Nat /\ sp' \in Int /\ sp' <= STACK_LIMIT
    BY <1>1, <2>1, Facts
  <2> QED BY <2>1, <2>2 DEF Bounded, Callable
<1>4. CASE Needs(1) /\ sp - 1 - Operand >= 0 /\ Replace(Operand + 1, stack[sp - 1], 2)
  <2>1. Operand + 1 \in Nat /\ Operand + 1 >= 1 /\ sp - (Operand + 1) >= 0
    BY <1>1, <1>4, Facts
  <2> QED BY <1>4, <2>1, TopSlot, Replacing
<1> QED BY <1>2, <1>3, <1>4 DEF ScopeExit

\* A call: what is called is a code object that exists, or native, or nothing.
LEMMA CallStep == ASSUME Bounded, Alive, Call PROVE Bounded'
<1> DEFINE fnValue == stack[sp - 1 - Operand]
<1>1. Operand \in Nat
  BY FetchedOperands, Lengths DEF Call
<1>2. CASE \E fate : Stop(fate)
  BY <1>2, Stopping
<1>3. CASE ~ \E fate : Stop(fate)
  <2>1. /\ sp - 1 - Operand >= 0
        /\ \/ CallNative(Operand)
           \/ IS_FUNCTION(fnValue) /\ CallFunction(Payload(fnValue), Operand)
    BY <1>3 DEF Call, DieShortOf
  <2>2. CASE CallNative(Operand)
    <3> DEFINE r == NUMBER(Payload(stack[sp - 1]) * Payload(stack[sp - 1]))
    <3>1. /\ stack' = [stack EXCEPT ![sp] = r, ![sp - Operand - 1] = r]
          /\ sp' = sp - Operand /\ ip' = ip + 2 /\ globals' = globals /\ KeepFrame
      BY <1>3, <2>2 DEF CallNative
    <3>2. Callable(r)
      BY PlainCallable
    <3> HIDE DEF r
    <3>3. /\ DOMAIN stack' = DOMAIN stack
          /\ \A i \in DOMAIN stack : stack'[i] = r \/ stack'[i] = stack[i]
      BY <3>1
    <3>4. \A i \in DOMAIN stack : Callable(stack'[i])
      BY <3>2, <3>3 DEF Bounded
    <3>5. ip' \in Nat /\ sp' \in 0 .. STACK_LIMIT
      <4>1. /\ ip \in Nat /\ sp \in Int /\ 0 <= sp /\ sp <= STACK_LIMIT
            /\ STACK_LIMIT \in Nat
        BY Facts
      <4> QED BY <1>1, <2>1, <3>1, <4>1
    <3> QED BY <3>1, <3>3, <3>4, <3>5, LocalStep
  <2>3. CASE IS_FUNCTION(fnValue) /\ CallFunction(Payload(fnValue), Operand)
    <3> DEFINE frame == Frame(ip + 2, bp, fn)
               F == [ra : Nat, bp : Nat, fn : DOMAIN codeObjects]
    <3>1. /\ callStack' = Append(callStack, frame) /\ fn' = Payload(fnValue)
          /\ bp' = CalleeBase(Operand) /\ ip' = 0
          /\ UNCHANGED <<codeObjects, globals, sp, stack>>
      BY <2>3 DEF CallFunction
    <3>2. fn' \in DOMAIN codeObjects
      <4>1. Callable(fnValue)
        BY <1>1, <2>1, Slots
      <4> QED BY <2>3, <3>1, <4>1 DEF Callable
    <3>3. bp' \in Nat
      BY <1>1, <2>1, <3>1, Facts DEF CalleeBase
    <3>4. callStack' \in Seq(F)
      <4>1. frame \in F
        BY Facts DEF Frame, Bounded
      <4>2. callStack \in Seq(F)
        BY DEF Bounded
      <4> HIDE DEF frame, F
      <4> QED BY <3>1, <4>1, <4>2, AppendProperties
    <3> QED BY <3>1, <3>2, <3>3, <3>4 DEF Bounded, Callable, Alive
  <2> QED BY <2>1, <2>2, <2>3
<1> QED BY <1>2, <1>3

\* A return takes the registers from a frame that a call left.
LEMMA ReturnStep == ASSUME Bounded, Alive, Return PROVE Bounded'
<1>1. CASE \E fate : Stop(fate)
  BY <1>1, Stopping
<1>2. CASE ~ \E fate : Stop(fate)
  <2> DEFINE F == [ra : Nat, bp : Nat, fn : DOMAIN codeObjects]
             n == Len(callStack)
             caller == callStack[n]
  <2>1. /\ callStack # <<>> /\ ip' = caller.ra /\ bp' = caller.bp /\ fn' = caller.fn
        /\ callStack' = SubSeq(callStack, 1, n - 1)
        /\ UNCHANGED <<codeObjects, globals, sp, stack>>
    BY <1>2 DEF Return
  <2>2. callStack \in Seq(F)
    BY DEF Bounded
  <2>3. n \in Nat /\ n >= 1
    BY <2>1, <2>2, EmptySeq
  <2>4. \A i \in 1 .. n : callStack[i] \in F
    BY <2>2, ElementOfSeq
  <2>5. caller \in F
    BY <2>3, <2>4
  <2>6. callStack' \in Seq(F)
    <3> HIDE DEF F, n
    <3> QED BY <2>1, <2>3, <2>4, SubSeqProperties
  <2> QED BY <2>1, <2>5, <2>6 DEF Bounded, Callable, Alive
<1> QED BY <1>1, <1>2

\* OP_HALT pops what it returns, and the errors of fetching end the process.
LEMMA EndSteps ==
  ASSUME Bounded, Alive, Halt \/ UnknownOpcode \/ FetchBeyondCode
  PROVE  Bounded'
<1>1. CASE \E fate : Stop(fate)
  BY <1>1, Stopping
<1>2. CASE ~ \E fate : Stop(fate)
  <2>1. /\ Needs(1) /\ sp' = sp - 1 /\ ip' = ip + 1
        /\ UNCHANGED <<codeObjects, globals, bp, fn, stack, callStack>>
    BY <1>2 DEF Halt, UnknownOpcode, FetchBeyondCode, DieShortOf
  <2>2. ip' \in Nat /\ sp' \in 0 .. STACK_LIMIT
    BY <2>1, Facts DEF Needs
  <2>3. sp' \in Int /\ sp' <= STACK_LIMIT /\ sp' >= 0
    BY <2>2, StackLimitAssumption
  <2> QED BY <2>1, <2>2, <2>3 DEF Bounded, Callable
<1> QED BY <1>1, <1>2

-----------------------------------------------------------------------------
(***************************************************************************)
(* The theorems.                                                           *)
(***************************************************************************)

\* A machine that was set up for code of bytes and existing values.
LEMMA FreshBounded ==
  /\ FreshMachine
  /\ WellFormed(codeObjects)
  /\ IsVector(globals)
  /\ \A i \in DOMAIN globals : IsValue(codeObjects, globals[i].value)
  => Bounded
<1> SUFFICES ASSUME FreshMachine, WellFormed(codeObjects), IsVector(globals),
                    \A i \in DOMAIN globals : IsValue(codeObjects, globals[i].value)
             PROVE  Bounded
  OBVIOUS
<1>1. /\ ip = 0 /\ sp = 0 /\ bp = 0 /\ fn = 1 /\ callStack = <<>>
      /\ stack = EmptyStack
  BY DEF FreshMachine, Main
<1>2. DOMAIN codeObjects = 1 .. Len(codeObjects) /\ Len(codeObjects) \in Nat
  BY VectorDomain DEF WellFormed
<1>3. fn \in DOMAIN codeObjects
  <2>1. Len(codeObjects) # 0
    BY DEF WellFormed, IsVector
  <2> QED BY <1>1, <1>2, <2>1
<1>4. \A i \in DOMAIN globals : Callable(globals[i].value)
  BY <1>2 DEF IsValue, Callable
<1>5. DOMAIN stack = 0 .. STACK_LIMIT - 1 /\ \A i \in DOMAIN stack : Callable(stack[i])
  BY <1>1, PlainCallable DEF EmptyStack
<1>6. sp \in Int /\ sp <= STACK_LIMIT /\ sp >= 0
  BY <1>1, StackLimitAssumption
<1>7. callStack \in Seq([ra : Nat, bp : Nat, fn : DOMAIN codeObjects])
  BY <1>1
<1> QED BY <1>1, <1>3, <1>4, <1>5, <1>6, <1>7 DEF Bounded

\* So is the machine on any of the images.
LEMMA InitBounded == Init => Bounded
<1> SUFFICES ASSUME Init
             PROVE  Bounded
  OBVIOUS
<1>1. PICK image \in Images : /\ codeObjects = image.codeObjects
                              /\ globals = image.globals
  BY DEF Init
<1>2. /\ WellFormed(codeObjects)
      /\ IsVector(globals)
      /\ \A i \in DOMAIN globals : IsValue(codeObjects, globals[i].value)
  BY <1>1, ImagesWellFormed
<1> QED BY <1>2, FreshBounded DEF Init

\* eval() is in its loop, and goes on or ends.
LEMMA EvalRuns ==
  Eval => status = "running" /\ status' \in {"running", "halted", "died", "undefined"}
<1> SUFFICES ASSUME Eval
             PROVE  /\ status = "running"
                    /\ status' \in {"running", "halted", "died", "undefined"}
  OBVIOUS
<1>1. status = "running"
  BY DEF Eval, Halt, Const, Math, Compare, JmpIfFalse, Jmp, GetGlobal, SetGlobal,
     Pop, GetLocal, SetLocal, ScopeExit, Call, Return, Fetched, AtOpcode,
     UnknownOpcode, FetchBeyondCode
<1>2. \A v, len : Push(v, len) => status' \in {"running", "died"}
  BY <1>1 DEF Push, Stop, KeepFrame
<1>3. \A n, v, len : Replace(n, v, len) => status' = "running"
  BY <1>1 DEF Replace, KeepFrame
<1>4. CASE Const \/ GetGlobal \/ GetLocal
  BY <1>1, <1>2, <1>4 DEF Const, GetGlobal, GetLocal, Stop
<1>5. CASE (\E op \in MathOps : Math(op)) \/ Compare \/ SetLocal \/ ScopeExit
  BY <1>1, <1>3, <1>5 DEF Math, Compare, SetLocal, ScopeExit, PopBelow, Drop,
     DieShortOf, Stop, KeepFrame
<1>6. CASE JmpIfFalse \/ Jmp \/ Pop \/ SetGlobal
  BY <1>1, <1>6 DEF JmpIfFalse, Jmp, Pop, SetGlobal, Drop, DieShortOf, Stop, KeepFrame
<1>7. CASE Call \/ Return
  <2>1. \A n : CallNative(n) => status' \in {"running", "died", "undefined"}
    BY <1>1 DEF CallNative, Stop, KeepFrame
  <2>2. \A f, n : CallFunction(f, n) => status' = "running"
    BY <1>1 DEF CallFunction
  <2> QED BY <1>1, <1>7, <2>1, <2>2 DEF Call, Return, DieShortOf, Stop
<1>8. CASE Halt \/ UnknownOpcode \/ FetchBeyondCode
  BY <1>1, <1>8 DEF Halt, UnknownOpcode, FetchBeyondCode, DieShortOf, Stop
<1> QED BY <1>1, <1>4, <1>5, <1>6, <1>7, <1>8 DEF Eval

LEMMA StepBounded == Bounded /\ [Next]_vars => Bounded'
<1> SUFFICES ASSUME Bounded, [Next]_vars
             PROVE  Bounded'
  OBVIOUS
<1>0. Eval => Alive
  BY EvalRuns DEF Alive
<1>1. CASE Const \/ GetGlobal
  BY <1>0, <1>1, LoadSteps DEF Eval
<1>2. CASE (\E op \in MathOps : Math(op)) \/ Compare
  BY <1>0, <1>2, BinarySteps DEF Eval
<1>3. CASE JmpIfFalse \/ Jmp \/ Pop
  BY <1>0, <1>3, JumpSteps DEF Eval
<1>4. CASE SetGlobal
  BY <1>0, <1>4, SetGlobalStep DEF Eval
<1>5. CASE GetLocal \/ SetLocal
  BY <1>0, <1>5, LocalSteps DEF Eval
<1>6. CASE ScopeExit
  BY <1>0, <1>6, ScopeExitStep DEF Eval
<1>7. CASE Call
  BY <1>0, <1>7, CallStep DEF Eval
<1>8. CASE Return
  BY <1>0, <1>8, ReturnStep DEF Eval
<1>9. CASE Halt \/ UnknownOpcode \/ FetchBeyondCode
  BY <1>0, <1>9, EndSteps DEF Eval
<1>10. CASE UNCHANGED vars
  BY <1>10 DEF vars, Bounded, Callable
<1> QED BY <1>1, <1>2, <1>3, <1>4, <1>5, <1>6, <1>7, <1>8, <1>9, <1>10
        DEF Next, Eval, Exited

\* Whatever bytecode eval() is given, and wherever it strays to, its registers
\* and frames are offsets and code objects.
THEOREM Invariance == Spec => []Bounded
BY InitBounded, StepBounded, PTL DEF Spec

\* sp never passes the end of the operand stack, and passes its beginning only
\* where popN(), which does not check, makes the program undefined.
THEOREM InRange == Spec => []StackInRange
<1>1. Bounded => StackInRange
  BY DEF Bounded, StackInRange
<1> QED BY <1>1, Invariance, PTL

\* The machine renames, adds and removes no global: the indexes burned into
\* the bytecode stay good, even for code that writes what it should not.
THEOREM NamesKept == Spec => GlobalNamesKept
<1> DEFINE Kept == /\ Len(globals') = Len(globals)
                   /\ \A i \in DOMAIN globals : globals'[i].name = globals[i].name
<1>1. Bounded /\ [Next]_vars => [Kept]_vars
  <2> SUFFICES ASSUME Bounded, [Next]_vars
               PROVE  Kept
    OBVIOUS
  <2>1. CASE SetGlobal
    <3>1. Alive
      BY <2>1, EvalRuns DEF Eval, Alive
    <3> QED BY <2>1, <3>1, SetGlobalStep
  <2>2. CASE ~ SetGlobal
    <3>1. globals' = globals
      BY <2>2 DEF vars, Next, Eval, Exited, Halt, Const, Math, Compare, JmpIfFalse,
         Jmp, GetGlobal, Pop, GetLocal, SetLocal, ScopeExit, Call, Return,
         UnknownOpcode, FetchBeyondCode, Stop, DieShortOf, PopBelow, Push, Replace, Drop,
         CallNative, CallFunction
    <3> QED BY <3>1
  <2> QED BY <2>1, <2>2
<1>2. GlobalNamesKept <=> [][Kept]_vars
  BY DEF GlobalNamesKept
<1> QED BY <1>1, <1>2, Invariance, PTL DEF Spec
=============================================================================
