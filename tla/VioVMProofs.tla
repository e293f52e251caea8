---------------------------- MODULE VioVMProofs ----------------------------
(***************************************************************************)
(* Proofs about the machine of VioVM on code that verifies: for every      *)
(* STACK_LIMIT and all Images whose bytecode verifies.                     *)
(***************************************************************************)
EXTENDS VioActivations, VioVectorProofs

\* The inductive invariant: the properties of VioVMSafety, strengthened by
\* the fact that the code and the size of the table of globals stay as they
\* were verified.
IInv ==
  /\ TypeOK
  /\ Verified(codeObjects, Len(globals))
  /\ Safe
  /\ DiesOnlyOfOverflow
  /\ HeightMatches
  /\ FramesMatch
  /\ MainAtBottom

-----------------------------------------------------------------------------
\* A difference that is not negative.
LEMMA Difference ==
  ASSUME NEW m \in Int, NEW n \in Int, m - n >= 0
  PROVE  n <= m
OBVIOUS

-----------------------------------------------------------------------------
(***************************************************************************)
(* What verification gives for the instruction that comes next.            *)
(***************************************************************************)

\* The machine is at a verified point: the instruction is within the code,
\* finds what it needs, and every point it leads to is verified as well.
LEMMA CurrentPoint ==
  ASSUME IInv, status = "running"
  PROVE  LET here == Point(ip, sp - bp)
         IN /\ ip \in Nat /\ sp \in Nat /\ bp \in Nat /\ bp <= sp
            /\ ip < Len(Code) /\ Opcode \in Opcodes
            /\ ip + InstrLen(Opcode) <= Len(Code)
            /\ Admissible(codeObjects, Len(globals), fn, here)
            /\ Successors(Code, here) \subseteq Flow(codeObjects, fn)
            /\ \A p \in Flow(codeObjects, fn) : p.at \in Nat /\ p.height \in Nat
<1> DEFINE here == Point(ip, sp - bp)
<1>1. /\ here \in Flow(codeObjects, fn)
      /\ bp <= sp /\ ip \in Nat /\ sp \in Nat /\ bp \in Nat
      /\ fn \in DOMAIN codeObjects
  BY DEF IInv, HeightMatches, TypeOK
<1>2. /\ Closed(codeObjects, fn, Flow(codeObjects, fn))
      /\ \A p \in Flow(codeObjects, fn) :
           Admissible(codeObjects, Len(globals), fn, p)
  BY <1>1 DEF IInv, Verified
<1>3. Fetchable(Code, here) /\ here.at = ip
  BY <1>1, <1>2 DEF Closed, Code, Point
<1>4. /\ ip < Len(Code) /\ Opcode \in Opcodes
      /\ ip + InstrLen(Opcode) <= Len(Code)
  BY <1>3 DEF Fetchable, ByteAt, Opcode
<1>5. /\ Admissible(codeObjects, Len(globals), fn, here)
      /\ Successors(Code, here) \subseteq Flow(codeObjects, fn)
      /\ \A p \in Flow(codeObjects, fn) : p.at \in Nat /\ p.height \in Nat
  BY <1>1, <1>2 DEF Closed, Code
<1> QED BY <1>1, <1>4, <1>5

-----------------------------------------------------------------------------
(***************************************************************************)
(* Steps.                                                                  *)
(***************************************************************************)

\* A step that stays in the running function keeps the invariant when it goes
\* to a point its code was verified for and leaves values behind.
LEMMA LocalStep ==
  ASSUME IInv, status = "running", KeepFrame,
         IsVector(globals'), Len(globals') = Len(globals),
         \A i \in DOMAIN globals' : IsValue(codeObjects, globals'[i].value),
         DOMAIN stack' = 0 .. STACK_LIMIT - 1,
         sp' \in 0 .. STACK_LIMIT,
         \A i \in 0 .. sp' - 1 : IsValue(codeObjects, stack'[i]),
         Point(ip', sp' - bp) \in Successors(Code, Point(ip, sp - bp))
  PROVE  IInv'
<1>1. UNCHANGED <<codeObjects, bp, fn, callStack, status>>
  BY DEF KeepFrame
<1>2. /\ Point(ip', sp' - bp) \in Flow(codeObjects, fn)
      /\ ip' \in Nat /\ sp' - bp \in Nat /\ bp \in Nat
  <2>1. Point(ip', sp' - bp) \in Flow(codeObjects, fn)
    BY CurrentPoint
  <2>2. Point(ip', sp' - bp).at \in Nat /\ Point(ip', sp' - bp).height \in Nat
    BY <2>1, CurrentPoint
  <2> QED BY <2>1, <2>2, CurrentPoint DEF Point
<1>3. TypeOK'
  BY <1>1, <1>2 DEF IInv, TypeOK
<1>4. Verified(codeObjects, Len(globals))'
  BY <1>1 DEF IInv
<1>5. Safe' /\ DiesOnlyOfOverflow'
  BY <1>1 DEF IInv, Safe, DiesOnlyOfOverflow
<1>6. HeightMatches'
  <2>1. sp' \in Int /\ bp \in Int /\ sp' - bp >= 0
    BY <1>2, StackLimitAssumption
  <2>2. bp' <= sp'
    <3>1. bp' = bp
      BY <1>1
    <3>2. bp <= sp'
      BY <2>1, Difference
    <3> QED BY <3>1, <3>2
  <2>3. Point(ip', sp' - bp') \in Flow(codeObjects', fn')
    BY <1>1, <1>2
  <2> QED BY <2>2, <2>3 DEF HeightMatches
<1>7. FramesMatch' /\ MainAtBottom'
  BY <1>1 DEF IInv, FramesMatch, MainAtBottom, BaseAbove
<1> QED BY <1>3, <1>4, <1>5, <1>6, <1>7 DEF IInv

\* The end of the process in a fatal error keeps it when the stack is full.
LEMMA Death ==
  ASSUME IInv, Stop("died"), sp = STACK_LIMIT
  PROVE  IInv'
<1>1. /\ UNCHANGED <<codeObjects, globals, ip, sp, bp, fn, stack, callStack>>
      /\ status' = "died"
  BY DEF Stop
<1>2. TypeOK'
  BY <1>1 DEF IInv, TypeOK
<1>3. Safe' /\ DiesOnlyOfOverflow' /\ HeightMatches'
  BY <1>1 DEF Safe, DiesOnlyOfOverflow, HeightMatches
<1>4. FramesMatch' /\ MainAtBottom' /\ Verified(codeObjects, Len(globals))'
  BY <1>1 DEF IInv, FramesMatch, MainAtBottom, BaseAbove
<1> QED BY <1>2, <1>3, <1>4 DEF IInv

\* The three ways of an instruction to change the stack of its function.
LEMMA Pushing ==
  ASSUME IInv, status = "running", NEW v, IsValue(codeObjects, v), NEW len,
         Push(v, len),
         Successors(Code, Point(ip, sp - bp)) = {Point(ip + len, sp - bp + 1)}
  PROVE  IInv'
<1>1. CASE sp = STACK_LIMIT
  BY <1>1, Death, CurrentPoint, StackLimitAssumption DEF Push
<1>2. CASE sp < STACK_LIMIT
  <2>1. /\ stack' = [stack EXCEPT ![sp] = v]
        /\ sp' = sp + 1 /\ ip' = ip + len /\ globals' = globals /\ KeepFrame
    BY <1>2, StackLimitAssumption, CurrentPoint DEF Push
  <2>2. /\ DOMAIN stack = 0 .. STACK_LIMIT - 1 /\ sp \in 0 .. STACK_LIMIT
        /\ bp \in Nat
        /\ \A i \in 0 .. sp - 1 : IsValue(codeObjects, stack[i])
        /\ IsVector(globals)
        /\ \A i \in DOMAIN globals : IsValue(codeObjects, globals[i].value)
    BY DEF IInv, TypeOK
  <2>3. \A i \in 0 .. sp' - 1 : IsValue(codeObjects, stack'[i])
    <3>1. ASSUME NEW i \in 0 .. sp' - 1
          PROVE  i \in DOMAIN stack /\ (i = sp \/ (i # sp /\ i \in 0 .. sp - 1))
      BY <1>2, <2>1, <2>2, StackLimitAssumption
    <3> SUFFICES ASSUME NEW i \in 0 .. sp' - 1
                 PROVE  IsValue(codeObjects, stack'[i])
      OBVIOUS
    <3>2. CASE i = sp
      <4>1. stack'[i] = v
        BY <2>1, <3>1, <3>2
      <4> QED BY <4>1
    <3>3. CASE i # sp /\ i \in 0 .. sp - 1
      <4>1. stack'[i] = stack[i]
        BY <2>1, <3>1, <3>3
      <4> QED BY <2>2, <3>3, <4>1
    <3> QED BY <3>1, <3>2, <3>3
  <2>4. sp' \in 0 .. STACK_LIMIT /\ DOMAIN stack' = 0 .. STACK_LIMIT - 1
    BY <1>2, <2>1, <2>2, StackLimitAssumption
  <2>5. sp' - bp = sp - bp + 1
    BY <2>1, <2>2
  <2> QED BY <2>1, <2>2, <2>3, <2>4, <2>5, LocalStep
<1>3. sp < STACK_LIMIT \/ sp = STACK_LIMIT
  <2>1. sp \in 0 .. STACK_LIMIT
    BY DEF IInv, TypeOK
  <2> QED BY <2>1, StackLimitAssumption
<1> QED BY <1>1, <1>2, <1>3

LEMMA Replacing ==
  ASSUME IInv, status = "running", NEW v, IsValue(codeObjects, v), NEW len,
         NEW n \in Nat, n >= 1, sp - n >= 0, Replace(n, v, len),
         Point(ip + len, sp - bp - n + 1) \in Successors(Code, Point(ip, sp - bp))
  PROVE  IInv'
<1>1. /\ stack' = [stack EXCEPT ![sp - n] = v]
      /\ sp' = sp - n + 1 /\ ip' = ip + len /\ globals' = globals /\ KeepFrame
  BY DEF Replace
<1>2. /\ DOMAIN stack = 0 .. STACK_LIMIT - 1 /\ sp \in 0 .. STACK_LIMIT
      /\ bp \in Nat
      /\ \A i \in 0 .. sp - 1 : IsValue(codeObjects, stack[i])
      /\ IsVector(globals)
      /\ \A i \in DOMAIN globals : IsValue(codeObjects, globals[i].value)
  BY DEF IInv, TypeOK
<1>3. \A i \in 0 .. sp' - 1 : IsValue(codeObjects, stack'[i])
  BY <1>1, <1>2, StackLimitAssumption
<1>4. sp' \in 0 .. STACK_LIMIT /\ DOMAIN stack' = 0 .. STACK_LIMIT - 1
  BY <1>1, <1>2, StackLimitAssumption
<1>5. sp' - bp = sp - bp - n + 1
  BY <1>1, <1>2
<1> QED BY <1>1, <1>2, <1>3, <1>4, <1>5, LocalStep

LEMMA Dropping ==
  ASSUME IInv, status = "running", NEW n \in Nat, sp - n >= 0,
         sp' = sp - n, UNCHANGED <<stack, globals>>, KeepFrame,
         Point(ip', sp - bp - n) \in Successors(Code, Point(ip, sp - bp))
  PROVE  IInv'
<1>1. /\ DOMAIN stack = 0 .. STACK_LIMIT - 1 /\ sp \in 0 .. STACK_LIMIT
      /\ bp \in Nat
      /\ \A i \in 0 .. sp - 1 : IsValue(codeObjects, stack[i])
      /\ IsVector(globals)
      /\ \A i \in DOMAIN globals : IsValue(codeObjects, globals[i].value)
  BY DEF IInv, TypeOK
<1>2. sp' - bp = sp - bp - n /\ sp' \in 0 .. STACK_LIMIT
  BY <1>1, StackLimitAssumption
<1> QED BY <1>1, <1>2, LocalStep, StackLimitAssumption

-----------------------------------------------------------------------------
(***************************************************************************)
(* The instruction at the current point.                                   *)
(***************************************************************************)

\* What the instruction needs, said of the machine's own state.
LEMMA Needed ==
  ASSUME IInv, status = "running"
  PROVE  /\ Opcode \in {OP_HALT, OP_JMP_IF_FALSE, OP_POP} => sp - bp >= 1
         /\ Opcode \in MathOps \cup {OP_COMPARE} => sp - bp >= 2
         /\ Opcode = OP_CONST => Operand < Len(codeObjects[fn].constants)
         /\ Opcode = OP_GET_GLOBAL => Operand < Len(globals)
         /\ Opcode = OP_SET_GLOBAL => Operand < Len(globals) /\ sp - bp >= 1
         /\ Opcode \in {OP_GET_LOCAL, OP_SET_LOCAL} => Operand < sp - bp
         /\ Opcode \in {OP_SCOPE_EXIT, OP_CALL} => sp - bp >= Operand + 1
         /\ Opcode = OP_COMPARE => Operand \in 0 .. 5
         /\ Opcode = OP_HALT => fn = Main /\ sp - bp = 1
         /\ Opcode = OP_RETURN => fn # Main /\ sp - bp = 1
<1>1. Admissible(codeObjects, Len(globals), fn, Point(ip, sp - bp))
  BY CurrentPoint
<1>2. /\ ByteAt(codeObjects[fn].code, ip) = Opcode
      /\ ByteAt(codeObjects[fn].code, ip + 1) = Operand
  <2>1. ip \in Nat
    BY CurrentPoint
  <2> QED BY <2>1 DEF ByteAt, Opcode, Operand, Code
<1>3. Point(ip, sp - bp).at = ip /\ Point(ip, sp - bp).height = sp - bp
  BY DEF Point
<1> QED BY <1>1, <1>2, <1>3 DEF Admissible, Main

\* Where it leads.
LEMMA Leads ==
  ASSUME IInv, status = "running"
  PROVE  LET after == Successors(Code, Point(ip, sp - bp))
             h     == sp - bp
         IN /\ Opcode \in {OP_CONST, OP_GET_GLOBAL, OP_GET_LOCAL}
                 => after = {Point(ip + 2, h + 1)}
            /\ Opcode \in MathOps \cup {OP_POP} => after = {Point(ip + 1, h - 1)}
            /\ Opcode = OP_COMPARE => after = {Point(ip + 2, h - 1)}
            /\ Opcode \in {OP_SET_GLOBAL, OP_SET_LOCAL} => after = {Point(ip + 2, h)}
            /\ Opcode = OP_JMP => after = {Point(Address, h)}
            /\ Opcode = OP_JMP_IF_FALSE
                 => after = {Point(ip + 3, h - 1), Point(Address, h - 1)}
            /\ Opcode \in {OP_SCOPE_EXIT, OP_CALL}
                 => after = {Point(ip + 2, h - Operand)}
<1>1. /\ ByteAt(Code, ip) = Opcode
      /\ ByteAt(Code, ip + 1) = Operand
      /\ AddressAt(Code, ip) = Address
  <2>1. ip \in Nat
    BY CurrentPoint
  <2> QED BY <2>1 DEF ByteAt, AddressAt, Opcode, Operand, Address
<1>2. Point(ip, sp - bp).at = ip /\ Point(ip, sp - bp).height = sp - bp
  BY DEF Point
<1> DEFINE after == Successors(Code, Point(ip, sp - bp))
           h     == sp - bp
<1> USE DEF InstrLen, SimpleOps, JumpOps, MathOps, OP_HALT, OP_CONST, OP_ADD, OP_SUB,
    OP_MUL, OP_DIV, OP_COMPARE, OP_JMP_IF_FALSE, OP_JMP, OP_GET_GLOBAL, OP_SET_GLOBAL,
    OP_POP, OP_GET_LOCAL, OP_SET_LOCAL, OP_SCOPE_EXIT, OP_CALL, OP_RETURN
<1>3. Opcode \in {OP_CONST, OP_GET_GLOBAL, OP_GET_LOCAL} => after = {Point(ip + 2, h + 1)}
  BY <1>1, <1>2 DEF Successors
<1>4. Opcode \in MathOps \cup {OP_POP} => after = {Point(ip + 1, h - 1)}
  BY <1>1, <1>2 DEF Successors
<1>5. Opcode = OP_COMPARE => after = {Point(ip + 2, h - 1)}
  BY <1>1, <1>2 DEF Successors
<1>6. Opcode \in {OP_SET_GLOBAL, OP_SET_LOCAL} => after = {Point(ip + 2, h)}
  BY <1>1, <1>2 DEF Successors
<1>7. Opcode = OP_JMP => after = {Point(Address, h)}
  BY <1>1, <1>2 DEF Successors
<1>8. Opcode = OP_JMP_IF_FALSE => after = {Point(ip + 3, h - 1), Point(Address, h - 1)}
  BY <1>1, <1>2 DEF Successors
<1>9. Opcode \in {OP_SCOPE_EXIT, OP_CALL} => after = {Point(ip + 2, h - Operand)}
  BY <1>1, <1>2 DEF Successors
<1> HIDE DEF after
<1> QED BY <1>3, <1>4, <1>5, <1>6, <1>7, <1>8, <1>9, Zenon DEF after

\* The operand of an instruction that has one is a byte.
LEMMA OperandIsByte ==
  ASSUME IInv, status = "running",
         Opcode \in {OP_CONST, OP_COMPARE, OP_GET_GLOBAL, OP_SET_GLOBAL,
                     OP_GET_LOCAL, OP_SET_LOCAL, OP_SCOPE_EXIT, OP_CALL}
  PROVE  Operand \in Nat
<1>1. InstrLen(Opcode) = 2
  BY DEF InstrLen, SimpleOps, JumpOps, MathOps, OP_HALT, OP_CONST, OP_ADD, OP_SUB,
     OP_MUL, OP_DIV, OP_COMPARE, OP_JMP_IF_FALSE, OP_JMP, OP_GET_GLOBAL,
     OP_SET_GLOBAL, OP_POP, OP_GET_LOCAL, OP_SET_LOCAL, OP_SCOPE_EXIT, OP_CALL,
     OP_RETURN
<1>2. Code \in Seq(0 .. BYTE - 1)
  BY DEF IInv, TypeOK, WellFormed, Code
<1>3. ip \in Nat /\ ip + 2 <= Len(Code)
  BY <1>1, CurrentPoint
<1>4. ip + 2 \in 1 .. Len(Code)
  BY <1>2, <1>3
<1>5. Code[ip + 2] \in 0 .. BYTE - 1
  BY <1>2, <1>4, ElementOfSeq
<1> QED BY <1>5 DEF Operand, BYTE

\* Numbers, strings and booleans are values, whatever they hold.
LEMMA PlainValues ==
  ASSUME NEW objects, NEW x
  PROVE  /\ IsValue(objects, NUMBER(x))
         /\ IsValue(objects, STRING_VALUE(x))
         /\ IsValue(objects, BOOLEAN_VALUE(x))
BY DEF IsValue, NUMBER, STRING_VALUE, BOOLEAN_VALUE, TypeOf, Payload, ValueTypes,
       IS_FUNCTION

\* The parts of the invariant that most steps use.
LEMMA Parts ==
  ASSUME IInv
  PROVE  /\ sp \in 0 .. STACK_LIMIT /\ sp \in Int /\ bp \in Nat /\ ip \in Nat
         /\ DOMAIN stack = 0 .. STACK_LIMIT - 1
         /\ \A i \in 0 .. sp - 1 : IsValue(codeObjects, stack[i])
         /\ IsVector(globals)
         /\ DOMAIN globals = 1 .. Len(globals) /\ Len(globals) \in Nat
         /\ \A i \in DOMAIN globals : IsValue(codeObjects, globals[i].value)
         /\ fn \in DOMAIN codeObjects
BY VectorDomain, StackLimitAssumption DEF IInv, TypeOK

-----------------------------------------------------------------------------
(***************************************************************************)
(* The instructions, one lemma each.                                       *)
(***************************************************************************)

\* OP_CONST pushes a constant that exists.
LEMMA ConstStep == ASSUME IInv, Const PROVE IInv'
<1> DEFINE constants == codeObjects[fn].constants
<1>1. status = "running" /\ Opcode = OP_CONST
  BY DEF Const, Fetched, AtOpcode
<1>2. Operand \in Nat /\ Operand < Len(constants)
  BY <1>1, Needed, OperandIsByte
<1>3. Operand + 1 \in DOMAIN constants
  <2>1. IsVector(constants)
    BY Parts DEF IInv, TypeOK, WellFormed
  <2> QED BY <1>2, <2>1, VectorDomain
<1>4. IsValue(codeObjects, constants[Operand + 1])
  BY <1>3, Parts DEF IInv, TypeOK, WellFormed
<1>5. Len(constants) \in Nat
  <2>1. IsVector(constants)
    BY Parts DEF IInv, TypeOK, WellFormed
  <2> QED BY <2>1, VectorDomain
<1>6. Push(constants[Operand + 1], 2)
  BY <1>2, <1>5 DEF Const
<1>7. Successors(Code, Point(ip, sp - bp)) = {Point(ip + 2, sp - bp + 1)}
  BY <1>1, Leads
<1> QED BY <1>1, <1>4, <1>6, <1>7, Pushing

\* Arithmetic on operands it has a case for leaves its result in their place.
LEMMA MathStep ==
  ASSUME IInv, TypesFit, NEW op \in MathOps, Math(op)
  PROVE  IInv'
<1> DEFINE op1 == stack[sp - 1]
           op2 == stack[sp - 2]
<1>1. status = "running" /\ Opcode = op
  BY DEF Math, Fetched, AtOpcode
<1>2. sp - bp >= 2 /\ sp >= 2
  BY <1>1, Needed, Parts
<1>3. Comparable(op1, op2)
  BY <1>1 DEF TypesFit
<1>4. Replace(2, MathResult(op, op1, op2), 1)
  BY <1>2, <1>3, Parts DEF Math, DieShortOf
<1>5. IsValue(codeObjects, MathResult(op, op1, op2))
  BY PlainValues DEF MathResult
<1>6. Point(ip + 1, sp - bp - 2 + 1) \in Successors(Code, Point(ip, sp - bp))
  <2>1. sp - bp - 2 + 1 = sp - bp - 1
    BY Parts
  <2> QED BY <1>1, <2>1, Leads
<1>7. 2 \in Nat /\ 2 >= 1 /\ sp - 2 >= 0
  BY <1>2, Parts
<1> HIDE DEF op1, op2
<1> QED BY <1>1, <1>4, <1>5, <1>6, <1>7, Replacing

\* So does a comparison.
LEMMA CompareStep ==
  ASSUME IInv, TypesFit, Compare
  PROVE  IInv'
<1> DEFINE op2 == stack[sp - 1]
           op1 == stack[sp - 2]
<1>1. status = "running" /\ Opcode = OP_COMPARE
  BY DEF Compare, Fetched, AtOpcode
<1>2. sp - bp >= 2 /\ sp >= 2
  BY <1>1, Needed, Parts
<1>3. Comparable(op1, op2)
  BY <1>1 DEF TypesFit, Comparable
<1>4. PICK res \in CompareOutcomes(Operand, op1, op2) :
        Replace(2, BOOLEAN_VALUE(res), 2)
  BY <1>2, <1>3, Parts DEF Compare, DieShortOf
<1>5. Point(ip + 2, sp - bp - 2 + 1) \in Successors(Code, Point(ip, sp - bp))
  <2>1. sp - bp - 2 + 1 = sp - bp - 1
    BY Parts
  <2> QED BY <1>1, <2>1, Leads
<1>6. 2 \in Nat /\ 2 >= 1 /\ sp - 2 >= 0
  BY <1>2, Parts
<1>7. IsValue(codeObjects, BOOLEAN_VALUE(res))
  BY PlainValues
<1> QED BY <1>1, <1>4, <1>5, <1>6, <1>7, Replacing

\* A conditional jump pops the condition and goes to one of two points.
LEMMA JmpIfFalseStep == ASSUME IInv, JmpIfFalse PROVE IInv'
<1>1. status = "running" /\ Opcode = OP_JMP_IF_FALSE
  BY DEF JmpIfFalse, AtOpcode
<1>2. sp - bp >= 1 /\ sp >= 1
  BY <1>1, Needed, Parts
<1>3. /\ sp' = sp - 1 /\ UNCHANGED <<stack, globals>> /\ KeepFrame
      /\ ip' \in {ip + 3, Address}
  BY <1>2, Parts DEF JmpIfFalse, DieShortOf
<1>4. Point(ip', sp - bp - 1) \in Successors(Code, Point(ip, sp - bp))
  BY <1>1, <1>3, Leads
<1> QED BY <1>1, <1>2, <1>3, <1>4, Dropping, Parts

\* A jump goes to its address at the same height.
LEMMA JmpStep == ASSUME IInv, Jmp PROVE IInv'
<1>1. status = "running" /\ Opcode = OP_JMP
  BY DEF Jmp, Fetched, AtOpcode
<1>2. ip' = Address /\ sp' = sp /\ UNCHANGED <<stack, globals>> /\ KeepFrame
  BY DEF Jmp
<1>3. sp' = sp - 0 /\ sp - bp - 0 = sp - bp /\ sp - 0 >= 0
  BY <1>2, Parts
<1>4. Point(ip', sp - bp - 0) \in Successors(Code, Point(ip, sp - bp))
  BY <1>1, <1>2, <1>3, Leads
<1> QED BY <1>1, <1>2, <1>3, <1>4, Dropping

\* OP_POP drops a value.
LEMMA PopStep == ASSUME IInv, Pop PROVE IInv'
<1>1. status = "running" /\ Opcode = OP_POP
  BY DEF Pop, Fetched, AtOpcode
<1>2. sp - bp >= 1 /\ sp >= 1
  BY <1>1, Needed, Parts
<1>3. /\ sp' = sp - 1 /\ UNCHANGED <<stack, globals>> /\ KeepFrame
      /\ ip' = ip + 1
  BY <1>2, Parts DEF Pop, DieShortOf, Drop
<1>4. Point(ip', sp - bp - 1) \in Successors(Code, Point(ip, sp - bp))
  BY <1>1, <1>3, Leads
<1> QED BY <1>1, <1>2, <1>3, <1>4, Dropping, Parts

\* OP_GET_GLOBAL pushes the value of a global that exists.
LEMMA GetGlobalStep == ASSUME IInv, GetGlobal PROVE IInv'
<1>1. status = "running" /\ Opcode = OP_GET_GLOBAL
  BY DEF GetGlobal, Fetched, AtOpcode
<1>2. Operand \in Nat /\ Operand < Len(globals) /\ Len(globals) \in Nat
  BY <1>1, Needed, OperandIsByte, Parts
<1>3. Operand + 1 \in DOMAIN globals
  BY <1>2, Parts
<1>4. IsValue(codeObjects, globals[Operand + 1].value)
  BY <1>3, Parts
<1>5. Push(globals[Operand + 1].value, 2)
  BY <1>2 DEF GetGlobal
<1>6. Successors(Code, Point(ip, sp - bp)) = {Point(ip + 2, sp - bp + 1)}
  BY <1>1, Leads
<1> QED BY <1>1, <1>4, <1>5, <1>6, Pushing

\* OP_SET_GLOBAL gives a global that exists the value on top of the stack.
LEMMA SetGlobalStep == ASSUME IInv, SetGlobal PROVE IInv'
<1>1. status = "running" /\ Opcode = OP_SET_GLOBAL
  BY DEF SetGlobal, Fetched, AtOpcode
<1>2. /\ Operand \in Nat /\ Operand < Len(globals) /\ Len(globals) \in Nat
      /\ sp - bp >= 1 /\ sp >= 1
  BY <1>1, Needed, OperandIsByte, Parts
<1> DEFINE entry == GlobalVar(globals[Operand + 1].name, stack[sp - 1])
<1>3. /\ globals' = [globals EXCEPT ![Operand + 1] = entry]
      /\ ip' = ip + 2 /\ UNCHANGED <<sp, stack>> /\ KeepFrame
  BY <1>2, Parts DEF SetGlobal, DieShortOf
<1>4. Operand + 1 \in DOMAIN globals /\ sp - 1 \in 0 .. sp - 1
  BY <1>2, Parts
<1>5. IsValue(codeObjects, stack[sp - 1])
  BY <1>4, Parts
<1>6. entry.value = stack[sp - 1]
  BY DEF GlobalVar
<1> HIDE DEF entry
<1>7. IsVector(globals') /\ Len(globals') = Len(globals)
  BY <1>3, <1>4, VectorUpdate, Parts
<1>8. \A i \in DOMAIN globals' : IsValue(codeObjects, globals'[i].value)
  <2> SUFFICES ASSUME NEW i \in DOMAIN globals'
               PROVE  IsValue(codeObjects, globals'[i].value)
    OBVIOUS
  <2>1. i \in DOMAIN globals
    BY <1>3
  <2>2. CASE i = Operand + 1
    <3>1. globals'[i] = entry
      BY <1>3, <2>1, <2>2
    <3> QED BY <1>5, <1>6, <3>1
  <2>3. CASE i # Operand + 1
    <3>1. globals'[i] = globals[i]
      BY <1>3, <2>1, <2>3
    <3> QED BY <2>1, <3>1, Parts
  <2> QED BY <2>2, <2>3
<1>9. Point(ip', sp' - bp) \in Successors(Code, Point(ip, sp - bp))
  BY <1>1, <1>3, Leads
<1>10. sp' \in 0 .. STACK_LIMIT /\ DOMAIN stack' = 0 .. STACK_LIMIT - 1
       /\ \A i \in 0 .. sp' - 1 : IsValue(codeObjects, stack'[i])
  BY <1>3, Parts
<1> QED BY <1>1, <1>3, <1>7, <1>8, <1>9, <1>10, LocalStep

\* OP_GET_LOCAL pushes a slot of the running function's part of the stack.
LEMMA GetLocalStep == ASSUME IInv, GetLocal PROVE IInv'
<1> DEFINE slot == bp + Operand
<1>1. status = "running" /\ Opcode = OP_GET_LOCAL
  BY DEF GetLocal, Fetched, AtOpcode
<1>2. Operand \in Nat /\ Operand < sp - bp
  BY <1>1, Needed, OperandIsByte
<1>3. slot \in 0 .. sp - 1 /\ Operand < STACK_LIMIT /\ slot < STACK_LIMIT
  BY <1>2, Parts, StackLimitAssumption
<1>4. IsValue(codeObjects, stack[slot])
  BY <1>3, Parts
<1>5. stack[slot] # Indeterminate
  BY <1>4 DEF IsValue, Indeterminate, TypeOf, ValueTypes
<1>6. Push(stack[slot], 2)
  BY <1>2, <1>3, <1>5, StackLimitAssumption DEF GetLocal
<1>7. Successors(Code, Point(ip, sp - bp)) = {Point(ip + 2, sp - bp + 1)}
  BY <1>1, Leads
<1> HIDE DEF slot
<1> QED BY <1>1, <1>4, <1>6, <1>7, Pushing

\* OP_SET_LOCAL copies the value on top to such a slot.
LEMMA SetLocalStep == ASSUME IInv, SetLocal PROVE IInv'
<1> DEFINE slot == bp + Operand
<1>1. status = "running" /\ Opcode = OP_SET_LOCAL
  BY DEF SetLocal, Fetched, AtOpcode
<1>2. Operand \in Nat /\ Operand < sp - bp /\ sp >= 1
  BY <1>1, Needed, OperandIsByte, Parts
<1>3. slot \in 0 .. sp - 1 /\ Operand < STACK_LIMIT /\ slot < STACK_LIMIT
  BY <1>2, Parts, StackLimitAssumption
<1>4. /\ stack' = [stack EXCEPT ![slot] = stack[sp - 1]]
      /\ ip' = ip + 2 /\ UNCHANGED <<sp, globals>> /\ KeepFrame
  BY <1>2, <1>3, Parts, StackLimitAssumption DEF SetLocal, DieShortOf
<1>5. IsValue(codeObjects, stack[sp - 1])
  BY <1>2, Parts
<1> HIDE DEF slot
<1>6. \A i \in 0 .. sp' - 1 : IsValue(codeObjects, stack'[i])
  BY <1>4, <1>5, Parts, StackLimitAssumption
<1>7. sp' \in 0 .. STACK_LIMIT /\ DOMAIN stack' = 0 .. STACK_LIMIT - 1
  BY <1>4, Parts
<1>8. Point(ip', sp' - bp) \in Successors(Code, Point(ip, sp - bp))
  BY <1>1, <1>4, Leads
<1>9. /\ IsVector(globals') /\ Len(globals') = Len(globals)
      /\ \A i \in DOMAIN globals' : IsValue(codeObjects, globals'[i].value)
  BY <1>4, Parts
<1> QED BY <1>1, <1>4, <1>6, <1>7, <1>8, <1>9, LocalStep

\* OP_SCOPE_EXIT puts the value on top in the place of the variables.
LEMMA ScopeExitStep == ASSUME IInv, ScopeExit PROVE IInv'
<1>1. status = "running" /\ Opcode = OP_SCOPE_EXIT
  BY DEF ScopeExit, Fetched, AtOpcode
<1>2. Operand \in Nat /\ sp - bp >= Operand + 1 /\ sp >= 1
  BY <1>1, Needed, OperandIsByte, Parts
<1>3. /\ sp - 1 - Operand >= 0 /\ sp - (Operand + 1) >= 0
      /\ Operand + 1 \in Nat /\ Operand + 1 >= 1 /\ sp - 1 \in 0 .. sp - 1
  <2>1. sp \in Int /\ bp \in Nat
    BY Parts
  <2> QED BY <1>2, <2>1
<1>4. Replace(Operand + 1, stack[sp - 1], 2)
  BY <1>2, <1>3, Parts DEF ScopeExit, DieShortOf
<1>5. IsValue(codeObjects, stack[sp - 1])
  BY <1>3, Parts
<1>6. sp - bp - (Operand + 1) + 1 = sp - bp - Operand
  BY <1>2, Parts
<1>7. Point(ip + 2, sp - bp - (Operand + 1) + 1)
        \in Successors(Code, Point(ip, sp - bp))
  BY <1>1, <1>6, Leads
<1> QED BY <1>1, <1>3, <1>4, <1>5, <1>7, Replacing

\* A native function puts its result in the place of itself and its arguments.
LEMMA CallNativeStep ==
  ASSUME IInv, status = "running", Opcode = OP_CALL, CallNative(Operand),
         IS_NUMBER(stack[sp - 1])
  PROVE  IInv'
<1>1. Operand \in Nat /\ sp - bp >= Operand + 1
  BY Needed, OperandIsByte
<1>2. CASE sp = STACK_LIMIT
  <2>1. Stop("died")
    BY <1>2, StackLimitAssumption DEF CallNative
  <2> QED BY <1>2, <2>1, Death
<1>3. CASE sp # STACK_LIMIT
  <2> DEFINE x == Payload(stack[sp - 1])
             r == NUMBER(x * x)
  <2>1. /\ stack' = [stack EXCEPT ![sp] = r, ![sp - Operand - 1] = r]
        /\ sp' = sp - Operand /\ ip' = ip + 2 /\ globals' = globals /\ KeepFrame
    BY <1>3 DEF CallNative
  <2>2. IsValue(codeObjects, r)
    BY PlainValues
  <2> HIDE DEF r
  <2>3. DOMAIN stack' = 0 .. STACK_LIMIT - 1 /\ sp' \in 0 .. STACK_LIMIT
    <3>1. DOMAIN stack' = DOMAIN stack
      BY <2>1
    <3>2. sp - Operand \in 0 .. STACK_LIMIT
      <4>1. sp \in 0 .. STACK_LIMIT /\ bp \in Nat
        BY Parts
      <4> QED BY <1>1, <4>1, StackLimitAssumption
    <3> QED BY <2>1, <3>1, <3>2, Parts, Zenon
  <2>4. \A i \in 0 .. sp' - 1 : IsValue(codeObjects, stack'[i])
    <3> SUFFICES ASSUME NEW i \in 0 .. sp' - 1
                 PROVE  IsValue(codeObjects, stack'[i])
      OBVIOUS
    <3>1. i \in 0 .. sp - 1 /\ i \in DOMAIN stack /\ i # sp
      <4>1. sp \in 0 .. STACK_LIMIT /\ DOMAIN stack = 0 .. STACK_LIMIT - 1
        BY Parts
      <4> QED BY <1>1, <2>1, <4>1, StackLimitAssumption
    <3>2. stack'[i] = r \/ stack'[i] = stack[i]
      BY <2>1, <3>1
    <3> QED BY <2>2, <3>1, <3>2, Parts
  <2>5. sp' - bp = sp - bp - Operand
    <3>1. sp \in Int /\ bp \in Int /\ Operand \in Int
      BY <1>1, Parts
    <3> QED BY <2>1, <3>1
  <2>6. Point(ip', sp' - bp) \in Successors(Code, Point(ip, sp - bp))
    BY <2>1, <2>5, Leads
  <2>7. /\ IsVector(globals') /\ Len(globals') = Len(globals)
        /\ \A i \in DOMAIN globals' : IsValue(codeObjects, globals'[i].value)
    BY <2>1, Parts
  <2> QED BY <2>1, <2>3, <2>4, <2>6, <2>7, LocalStep
<1> QED BY <1>2, <1>3

\* A function starts at its entry with its arguments, and its caller waits for
\* one value in their place.
LEMMA CallFunctionStep ==
  ASSUME IInv, status = "running", Opcode = OP_CALL, NEW callee,
         callee \in 2 .. Len(codeObjects),
         codeObjects[callee].arity = Operand, CallFunction(callee, Operand)
  PROVE  IInv'
<1> DEFINE frame == Frame(ip + 2, bp, fn)
<1>1. /\ Operand \in Nat /\ sp - bp >= Operand + 1
      /\ sp \in Int /\ sp \in 0 .. STACK_LIMIT /\ bp \in Nat /\ ip \in Nat
      /\ fn \in DOMAIN codeObjects
  BY Needed, OperandIsByte, Parts
<1>2. /\ callStack' = Append(callStack, frame)
      /\ fn' = callee /\ bp' = sp - Operand - 1 /\ ip' = 0
      /\ UNCHANGED <<codeObjects, globals, sp, stack, status, result>>
  BY DEF CallFunction, CalleeBase
<1>3. callee \in DOMAIN codeObjects /\ callee # 1
  <2>1. IsVector(codeObjects)
    BY DEF IInv, TypeOK, WellFormed
  <2> QED BY <2>1, VectorDomain
<1>4. callStack \in Seq([ra : Nat, bp : Nat, fn : DOMAIN codeObjects])
  BY DEF IInv, TypeOK
<1>5. frame \in [ra : Nat, bp : Nat, fn : DOMAIN codeObjects]
  BY <1>1 DEF Frame
<1>6. TypeOK'
  <2>1. callStack' \in Seq([ra : Nat, bp : Nat, fn : DOMAIN codeObjects])
    <3> HIDE DEF frame
    <3> QED BY <1>2, <1>4, <1>5, OnePushed, Zenon
  <2>2. bp' \in Nat /\ ip' \in Nat
    BY <1>1, <1>2
  <2>3. TypeOK
    BY DEF IInv
  <2> QED BY <1>2, <1>3, <2>1, <2>2, <2>3, Zenon DEF TypeOK
<1>7. Verified(codeObjects, Len(globals))' /\ Safe' /\ DiesOnlyOfOverflow'
  BY <1>2 DEF IInv, Safe, DiesOnlyOfOverflow
<1>8. HeightMatches'
  <2>1. bp' <= sp' /\ sp' - bp' = Operand + 1
    <3>1. sp' = sp /\ bp' = sp - Operand - 1
      BY <1>2
    <3>2. \A s, b, m \in Int : s - b >= m + 1 /\ m >= 0 =>
            s - m - 1 <= s /\ s - (s - m - 1) = m + 1
      OBVIOUS
    <3>3. sp \in Int /\ bp \in Int /\ Operand \in Int /\ Operand >= 0
      BY <1>1
    <3>4. sp - Operand - 1 <= sp /\ sp - (sp - Operand - 1) = Operand + 1
      BY <1>1, <3>2, <3>3
    <3> QED BY <3>1, <3>4
  <2>2. EntryPoint(codeObjects, callee) = Point(0, Operand + 1)
    BY <1>3 DEF EntryPoint
  <2>3. EntryPoint(codeObjects, callee) \in Flow(codeObjects, callee)
    BY <1>3 DEF IInv, Verified, Closed
  <2> QED BY <1>2, <2>1, <2>2, <2>3 DEF HeightMatches
<1>9. /\ Len(callStack) \in Nat
      /\ Len(callStack') = Len(callStack) + 1
      /\ DOMAIN callStack = 1 .. Len(callStack)
      /\ DOMAIN callStack' = 1 .. Len(callStack) + 1
      /\ \A i \in DOMAIN callStack : callStack'[i] = callStack[i]
      /\ callStack'[Len(callStack) + 1] = frame
  <2> DEFINE S == [ra : Nat, bp : Nat, fn : DOMAIN codeObjects]
  <2>1. callStack \in Seq(S) /\ frame \in S /\ callStack' = Append(callStack, frame)
    BY <1>2, <1>4, <1>5, Zenon
  <2> HIDE DEF frame, S
  <2> QED BY <2>1, OnePushed
<1>10. FramesMatch'
  <2> SUFFICES ASSUME NEW i \in DOMAIN callStack'
               PROVE  /\ callStack'[i].bp <= BaseAbove(i)'
                      /\ Point(callStack'[i].ra,
                               BaseAbove(i)' + 1 - callStack'[i].bp)
                           \in Flow(codeObjects', callStack'[i].fn)
    BY DEF FramesMatch
  <2>1. CASE i = Len(callStack) + 1
    <3>1. BaseAbove(i)' = sp - Operand - 1
      <4>1. i = Len(callStack')
        BY <1>9, <2>1, Zenon
      <4> QED BY <1>2, <4>1 DEF BaseAbove
    <3>2. callStack'[i].ra = ip + 2 /\ callStack'[i].bp = bp /\ callStack'[i].fn = fn
      BY <1>9, <2>1 DEF Frame
    <3>3. bp <= sp - Operand - 1 /\ sp - Operand - 1 + 1 - bp = sp - bp - Operand
      BY <1>1
    <3>4. Point(ip + 2, sp - bp - Operand) \in Flow(codeObjects, fn)
      BY Leads, CurrentPoint
    <3> QED BY <1>2, <3>1, <3>2, <3>3, <3>4
  <2>2. CASE i # Len(callStack) + 1
    <3>1. i \in DOMAIN callStack /\ callStack'[i] = callStack[i]
      BY <1>9, <2>2
    <3>2. BaseAbove(i)' = BaseAbove(i)
      <4>1. CASE i = Len(callStack)
        <5>1. callStack'[i + 1].bp = bp
          BY <1>9, <4>1 DEF Frame
        <5>2. i # Len(callStack')
          <6>1. Len(callStack) \in Nat /\ Len(callStack') = Len(callStack) + 1
            BY <1>9
          <6> QED BY <4>1, <6>1
        <5>3. BaseAbove(i)' = callStack'[i + 1].bp /\ BaseAbove(i) = bp
          BY <4>1, <5>2 DEF BaseAbove
        <5> QED BY <5>1, <5>3
      <4>2. CASE i # Len(callStack)
        BY <1>9, <3>1, <4>2 DEF BaseAbove
      <4> QED BY <4>1, <4>2
    <3> QED BY <1>2, <3>1, <3>2 DEF IInv, FramesMatch
  <2> QED BY <2>1, <2>2
<1>11. MainAtBottom'
  <2>1. callStack' # <<>>
    BY <1>9
  <2>2. CASE callStack = <<>>
    <3>1. callStack'[1].fn = fn
      BY <1>9, <2>2 DEF Frame
    <3> QED BY <2>1, <2>2, <3>1 DEF IInv, MainAtBottom
  <2>3. CASE callStack # <<>>
    <3>1. 1 \in DOMAIN callStack
      BY <1>4, <1>9, <2>3
    <3> QED BY <1>9, <2>1, <2>3, <3>1 DEF IInv, MainAtBottom
  <2> QED BY <2>2, <2>3
<1> QED BY <1>6, <1>7, <1>8, <1>10, <1>11 DEF IInv

\* A call finds a function that takes its arguments, or a native one.
LEMMA CallStep ==
  ASSUME IInv, TypesFit, Call
  PROVE  IInv'
<1> DEFINE fnValue == stack[sp - 1 - Operand]
<1>1. status = "running" /\ Opcode = OP_CALL
  BY DEF Call, Fetched, AtOpcode
<1>2. Operand \in Nat /\ sp - bp >= Operand + 1 /\ sp >= 1 /\ sp - 1 - Operand >= 0
  <2>1. Operand \in Nat /\ sp - bp >= Operand + 1
    BY <1>1, Needed, OperandIsByte
  <2> QED BY <2>1, Parts
<1>3. CallFits /\ fnValue = CalledValue
  BY <1>1 DEF TypesFit, CalledValue
<1>4. \/ IS_NATIVE(fnValue) /\ CallNative(Operand)
      \/ IS_FUNCTION(fnValue) /\ CallFunction(Payload(fnValue), Operand)
  <2>1. IS_NATIVE(fnValue) \/ IS_FUNCTION(fnValue)
    BY <1>3 DEF CallFits
  <2>2. ~ DieShortOf(1) /\ ~ (sp - 1 - Operand < 0)
    BY <1>2, Parts DEF DieShortOf
  <2> QED BY <2>1, <2>2 DEF Call
<1>5. sp - 1 - Operand \in 0 .. sp - 1
  BY <1>2, Parts
<1>6. IsValue(codeObjects, fnValue)
  BY <1>5, Parts
<1> HIDE DEF fnValue
<1>7. CASE IS_NATIVE(fnValue) /\ CallNative(Operand)
  <2>1. ~ IS_FUNCTION(fnValue)
    BY <1>7 DEF IS_NATIVE, IS_FUNCTION
  <2>2. IS_NUMBER(stack[sp - 1])
    BY <1>3, <2>1 DEF CallFits
  <2> QED BY <1>1, <1>7, <2>2, CallNativeStep
<1>8. CASE IS_FUNCTION(fnValue) /\ CallFunction(Payload(fnValue), Operand)
  <2>1. ~ IS_NATIVE(fnValue)
    BY <1>8 DEF IS_NATIVE, IS_FUNCTION
  <2>2. codeObjects[Payload(fnValue)].arity = Operand
    BY <1>3, <2>1 DEF CallFits
  <2>3. Payload(fnValue) \in 2 .. Len(codeObjects)
    BY <1>6, <1>8 DEF IsValue
  <2> QED BY <1>1, <1>8, <2>2, <2>3, CallFunctionStep
<1> QED BY <1>4, <1>7, <1>8

\* OP_RETURN finds its caller waiting at a point that fits the one value the
\* function leaves.
LEMMA ReturnStep == ASSUME IInv, Return PROVE IInv'
<1> DEFINE n == Len(callStack)
           caller == callStack[n]
<1>1. status = "running" /\ Opcode = OP_RETURN
  BY DEF Return, Fetched, AtOpcode
<1>2. fn # Main /\ sp - bp = 1
  BY <1>1, Needed
<1>3. callStack # <<>>
  BY <1>2 DEF IInv, MainAtBottom
<1>4. /\ ip' = caller.ra /\ bp' = caller.bp /\ fn' = caller.fn
      /\ callStack' = SubSeq(callStack, 1, n - 1)
      /\ UNCHANGED <<codeObjects, globals, sp, stack, status, result>>
  BY <1>3 DEF Return
<1>5. callStack \in Seq([ra : Nat, bp : Nat, fn : DOMAIN codeObjects])
  BY DEF IInv, TypeOK
<1>6. DOMAIN callStack = 1 .. n /\ n = Len(callStack) /\ caller = callStack[n]
  BY <1>5
<1>7. n \in Nat /\ n >= 1 /\ n \in 1 .. n
  BY <1>3, <1>5
<1> HIDE DEF n, caller
<1>8. caller \in [ra : Nat, bp : Nat, fn : DOMAIN codeObjects]
  BY <1>5, <1>6, <1>7, ElementOfSeq
<1>9. /\ callStack' \in Seq([ra : Nat, bp : Nat, fn : DOMAIN codeObjects])
      /\ Len(callStack') = n - 1
      /\ \A i \in 1 .. n - 1 : callStack'[i] = callStack[i]
  <2>1. /\ 1 \in Int /\ n - 1 \in Int /\ n - 1 - 1 + 1 = n - 1
        /\ ~ (1 <= n - 1) => n - 1 = 0
    BY <1>7
  <2>2. \A i \in 1 .. n - 1 :
          callStack[i] \in [ra : Nat, bp : Nat, fn : DOMAIN codeObjects]
    <3> SUFFICES ASSUME NEW i \in 1 .. n - 1
                 PROVE  callStack[i] \in [ra : Nat, bp : Nat, fn : DOMAIN codeObjects]
      OBVIOUS
    <3>1. i \in 1 .. n
      BY <1>7
    <3> QED BY <1>5, <1>6, <3>1, ElementOfSeq
  <2>3. /\ SubSeq(callStack, 1, n - 1)
             \in Seq([ra : Nat, bp : Nat, fn : DOMAIN codeObjects])
        /\ Len(SubSeq(callStack, 1, n - 1)) = n - 1
        /\ \A i \in 1 .. n - 1 :
             SubSeq(callStack, 1, n - 1)[i] = callStack[1 + i - 1]
    BY <2>1, <2>2, SubSeqProperties
  <2>4. \A i \in 1 .. n - 1 : 1 + i - 1 = i
    BY <1>7
  <2> QED BY <1>4, <2>3, <2>4
<1>10. /\ caller.bp <= bp
       /\ Point(caller.ra, bp + 1 - caller.bp) \in Flow(codeObjects, caller.fn)
  BY <1>6, <1>7 DEF IInv, FramesMatch, BaseAbove
<1>11. TypeOK'
  BY <1>4, <1>8, <1>9 DEF IInv, TypeOK
<1>12. Verified(codeObjects, Len(globals))' /\ Safe' /\ DiesOnlyOfOverflow'
  BY <1>4 DEF IInv, Safe, DiesOnlyOfOverflow
<1>13. HeightMatches'
  <2>1. sp = bp + 1 /\ caller.bp \in Nat /\ bp \in Nat
    BY <1>2, <1>8, Parts
  <2>2. bp' <= sp' /\ sp' - bp' = bp + 1 - caller.bp
    BY <1>4, <1>10, <2>1
  <2>3. Point(ip', sp' - bp') \in Flow(codeObjects', fn')
    BY <1>4, <1>10, <2>2
  <2> QED BY <2>2, <2>3 DEF HeightMatches
<1>14. FramesMatch'
  <2> SUFFICES ASSUME NEW i \in 1 .. n - 1
               PROVE  /\ callStack'[i].bp <= BaseAbove(i)'
                      /\ Point(callStack'[i].ra,
                               BaseAbove(i)' + 1 - callStack'[i].bp)
                           \in Flow(codeObjects', callStack'[i].fn)
    <3>1. DOMAIN callStack' = 1 .. n - 1
      BY <1>7, <1>9, LenProperties
    <3> QED BY <3>1, Zenon DEF FramesMatch
  <2>1. i \in 1 .. n /\ i # n /\ i + 1 \in 1 .. n
    BY <1>7
  <2>2. BaseAbove(i) = callStack[i + 1].bp
    BY <1>6, <2>1 DEF BaseAbove
  <2>3. BaseAbove(i)' = callStack[i + 1].bp
    <3>1. CASE i = n - 1
      <4>1. i + 1 = n
        BY <1>7, <3>1
      <4>2. BaseAbove(i)' = bp'
        BY <1>9, <3>1 DEF BaseAbove
      <4> QED BY <1>4, <1>6, <4>1, <4>2
    <3>2. CASE i # n - 1
      <4>1. i + 1 \in 1 .. n - 1
        BY <1>7, <3>2
      <4>2. BaseAbove(i)' = callStack'[i + 1].bp
        BY <1>9, <3>2 DEF BaseAbove
      <4>3. callStack'[i + 1] = callStack[i + 1]
        <5>1. \A j \in 1 .. n - 1 : callStack'[j] = callStack[j]
          BY <1>9, Zenon
        <5> QED BY <4>1, <5>1
      <4> QED BY <4>2, <4>3, Zenon
    <3> QED BY <3>1, <3>2
  <2>4. i \in DOMAIN callStack /\ callStack'[i] = callStack[i]
    BY <1>6, <1>9, <2>1
  <2>5. FramesMatch
    BY DEF IInv
  <2>6. /\ callStack[i].bp <= BaseAbove(i)
        /\ Point(callStack[i].ra, BaseAbove(i) + 1 - callStack[i].bp)
             \in Flow(codeObjects, callStack[i].fn)
    BY <2>4, <2>5, Zenon DEF FramesMatch
  <2> QED BY <1>4, <2>2, <2>3, <2>4, <2>6
<1>15. MainAtBottom'
  <2>1. callStack[1].fn = Main
    BY <1>3 DEF IInv, MainAtBottom
  <2>2. CASE n = 1
    <3>1. callStack' = <<>>
      <4>1. Len(callStack') = 0
        BY <1>9, <2>2
      <4> QED BY <1>9, <4>1
    <3>2. fn' = Main
      BY <1>4, <1>6, <2>1, <2>2
    <3> QED BY <3>1, <3>2 DEF MainAtBottom
  <2>3. CASE n # 1
    <3>1. callStack' # <<>> /\ callStack'[1] = callStack[1]
      <4>1. 1 \in 1 .. n - 1 /\ Len(callStack') # 0
        BY <1>7, <1>9, <2>3
      <4> QED BY <1>9, <4>1
    <3> QED BY <2>1, <3>1 DEF MainAtBottom
  <2> QED BY <2>2, <2>3
<1> QED BY <1>11, <1>12, <1>13, <1>14, <1>15 DEF IInv

\* OP_HALT takes main's value off the stack and ends the run.
LEMMA HaltStep == ASSUME IInv, Halt PROVE IInv'
<1>1. status = "running" /\ Opcode = OP_HALT
  BY DEF Halt, Fetched, AtOpcode
<1>2. sp - bp >= 1 /\ sp >= 1
  BY <1>1, Needed, Parts
<1>3. /\ sp' = sp - 1 /\ ip' = ip + 1 /\ status' = "halted"
      /\ UNCHANGED <<codeObjects, globals, bp, fn, stack, callStack>>
  BY <1>2, Parts DEF Halt, DieShortOf
<1>4. TypeOK'
  <2>1. sp' \in 0 .. STACK_LIMIT /\ ip' \in Nat
    BY <1>2, <1>3, Parts, StackLimitAssumption
  <2>2. \A i \in 0 .. sp' - 1 : IsValue(codeObjects, stack[i])
    BY <1>2, <1>3, Parts
  <2> QED BY <1>3, <2>1, <2>2 DEF IInv, TypeOK
<1>5. Safe' /\ DiesOnlyOfOverflow' /\ HeightMatches'
  BY <1>3 DEF Safe, DiesOnlyOfOverflow, HeightMatches
<1>6. FramesMatch' /\ MainAtBottom' /\ Verified(codeObjects, Len(globals))'
  BY <1>3 DEF IInv, FramesMatch, MainAtBottom, BaseAbove
<1> QED BY <1>4, <1>5, <1>6 DEF IInv

-----------------------------------------------------------------------------
(***************************************************************************)
(* The theorems.                                                           *)
(***************************************************************************)

\* exec() has set the registers for verified code.
FreshRun ==
  /\ Verified(codeObjects, Len(globals))
  /\ IsVector(globals)
  /\ \A i \in DOMAIN globals : IsValue(codeObjects, globals[i].value)
  /\ FreshMachine
  /\ status = "running"

\* Any of the images is.
LEMMA InitIsFresh == Init => FreshRun
<1> SUFFICES ASSUME Init
             PROVE  FreshRun
  OBVIOUS
<1>1. PICK image \in Images : /\ codeObjects = image.codeObjects
                              /\ globals = image.globals
  BY DEF Init
<1>2. /\ Verified(codeObjects, Len(globals))
      /\ IsVector(globals)
      /\ \A i \in DOMAIN globals : IsValue(codeObjects, globals[i].value)
  BY <1>1, ImagesVerified
<1> QED BY <1>2 DEF Init, FreshRun

\* The machine starts at the entry of main, with nothing on its stack.
LEMMA FreshIInv == FreshRun => IInv
<1> SUFFICES ASSUME FreshRun
             PROVE  IInv
  OBVIOUS
<1>1. /\ Verified(codeObjects, Len(globals))
      /\ IsVector(globals)
      /\ \A i \in DOMAIN globals : IsValue(codeObjects, globals[i].value)
  BY DEF FreshRun
<1>2. /\ ip = 0 /\ sp = 0 /\ bp = 0 /\ fn = 1 /\ callStack = <<>>
      /\ stack = EmptyStack /\ status = "running"
  BY DEF FreshRun, FreshMachine, Main
<1>3. WellFormed(codeObjects)
  BY <1>1 DEF Verified
<1>4. fn \in DOMAIN codeObjects
  <2>1. IsVector(codeObjects) /\ codeObjects # <<>>
    BY <1>3 DEF WellFormed
  <2>2. Len(codeObjects) \in Nat /\ DOMAIN codeObjects = 1 .. Len(codeObjects)
    BY <2>1, VectorDomain
  <2>3. Len(codeObjects) # 0
    BY <2>1 DEF IsVector
  <2> QED BY <1>2, <2>2, <2>3
<1>5. TypeOK
  <2>1. callStack \in Seq([ra : Nat, bp : Nat, fn : DOMAIN codeObjects])
    BY <1>2
  <2>2. DOMAIN stack = 0 .. STACK_LIMIT - 1 /\ sp \in 0 .. STACK_LIMIT
    BY <1>2, StackLimitAssumption DEF EmptyStack
  <2>3. \A i \in 0 .. sp - 1 : IsValue(codeObjects, stack[i])
    BY <1>2
  <2> QED BY <1>1, <1>2, <1>3, <1>4, <2>1, <2>2, <2>3 DEF TypeOK
<1>6. HeightMatches
  <2>1. EntryPoint(codeObjects, 1) = Point(0, 0)
    BY DEF EntryPoint
  <2>2. EntryPoint(codeObjects, 1) \in Flow(codeObjects, 1)
    BY <1>1, <1>2, <1>4 DEF Verified, Closed
  <2> QED BY <1>2, <2>1, <2>2 DEF HeightMatches
<1>7. FramesMatch /\ MainAtBottom /\ Safe /\ DiesOnlyOfOverflow
  BY <1>2 DEF FramesMatch, MainAtBottom, Safe, DiesOnlyOfOverflow, Main
<1> QED BY <1>1, <1>5, <1>6, <1>7 DEF IInv

\* Every pass of eval()'s loop keeps the invariant.
LEMMA StepIInv == IInv /\ TypesFit /\ [Next]_vars => IInv'
<1> SUFFICES ASSUME IInv, TypesFit, [Next]_vars
             PROVE  IInv'
  OBVIOUS
<1>1. CASE Halt
  BY <1>1, HaltStep
<1>2. CASE Const
  BY <1>2, ConstStep
<1>3. CASE \E op \in MathOps : Math(op)
  BY <1>3, MathStep
<1>4. CASE Compare
  BY <1>4, CompareStep
<1>5. CASE JmpIfFalse
  BY <1>5, JmpIfFalseStep
<1>6. CASE Jmp
  BY <1>6, JmpStep
<1>7. CASE GetGlobal
  BY <1>7, GetGlobalStep
<1>8. CASE SetGlobal
  BY <1>8, SetGlobalStep
<1>9. CASE Pop
  BY <1>9, PopStep
<1>10. CASE GetLocal
  BY <1>10, GetLocalStep
<1>11. CASE SetLocal
  BY <1>11, SetLocalStep
<1>12. CASE ScopeExit
  BY <1>12, ScopeExitStep
<1>13. CASE Call
  BY <1>13, CallStep
<1>14. CASE Return
  BY <1>14, ReturnStep
<1>15. CASE UnknownOpcode
  BY <1>15, CurrentPoint DEF UnknownOpcode
<1>16. CASE FetchBeyondCode
  <2>1. /\ status = "running" /\ ip \in Nat
        /\ ip >= Len(Code) \/ ip + InstrLen(Opcode) > Len(Code)
    BY <1>16, CurrentPoint DEF FetchBeyondCode
  <2>2. ip < Len(Code) /\ ip + InstrLen(Opcode) <= Len(Code)
    BY <2>1, CurrentPoint
  <2>3. Len(Code) \in Nat /\ InstrLen(Opcode) \in Nat
    BY Parts DEF IInv, TypeOK, WellFormed, Code, InstrLen
  <2> QED BY <2>1, <2>2, <2>3
<1>17. CASE UNCHANGED vars
  BY <1>17 DEF vars, IInv, TypeOK, Safe, DiesOnlyOfOverflow, HeightMatches,
              FramesMatch, MainAtBottom, BaseAbove
<1> QED
  BY <1>1, <1>2, <1>3, <1>4, <1>5, <1>6, <1>7, <1>8, <1>9, <1>10, <1>11, <1>12,
     <1>13, <1>14, <1>15, <1>16, <1>17 DEF Next, Eval, Exited

\* As long as operands have the types their instructions are for, a machine
\* running verified code stays at verified points.
THEOREM Invariance == Spec /\ []TypesFit => []IInv
BY InitIsFresh, FreshIInv, StepIInv, PTL DEF Spec

\* eval() on verified code reaches no undefined behaviour: none of the
\* accesses it leaves unchecked is out of range, however deep the calls and
\* whatever the jumps taken.
THEOREM Safety == Spec /\ []TypesFit => []Safe
<1>1. IInv => Safe
  BY DEF IInv
<1> QED BY <1>1, Invariance, PTL

\* The registers, the stack and the globals keep their types.
THEOREM TypeCorrect == Spec /\ []TypesFit => []TypeOK
<1>1. IInv => TypeOK
  BY DEF IInv
<1> QED BY <1>1, Invariance, PTL

\* The checks of pop(), of GET_LOCAL and SET_LOCAL, of Global::set and of the
\* switch's default case never fire: only push() on a full stack is fatal.
THEOREM OnlyOverflow == Spec /\ []TypesFit => []DiesOnlyOfOverflow
<1>1. IInv => DiesOnlyOfOverflow
  BY DEF IInv
<1> QED BY <1>1, Invariance, PTL

\* Wherever the machine is, its stack has a height that the compiler's code
\* was verified for at that offset.
THEOREM HeightsMatch == Spec /\ []TypesFit => []HeightMatches
<1>1. IInv => HeightMatches
  BY DEF IInv
<1> QED BY <1>1, Invariance, PTL

\* Every return address on the call stack is one its function can resume at.
THEOREM CallersCanResume == Spec /\ []TypesFit => []FramesMatch
<1>1. IInv => FramesMatch
  BY DEF IInv
<1> QED BY <1>1, Invariance, PTL

-----------------------------------------------------------------------------
(***************************************************************************)
(* A function leaves its caller's part of the stack alone.                 *)
(***************************************************************************)

\* A write at bp or above changes no slot below.
LEMMA WritesAbove ==
  ASSUME IInv, status = "running", NEW slot \in Int, bp <= slot, NEW v,
         stack' = [stack EXCEPT ![slot] = v], NEW i \in 0 .. bp - 1
  PROVE  stack'[i] = stack[i]
<1>1. bp \in Nat /\ sp \in Nat /\ bp <= sp /\ sp \in 0 .. STACK_LIMIT
  BY CurrentPoint, Parts
<1>2. i # slot /\ i \in DOMAIN stack
  BY <1>1, Parts, StackLimitAssumption
<1> QED BY <1>2

\* No step of the machine does more than that.
LEMMA StepKeepsCallerSlots ==
  ASSUME IInv, TypesFit, Eval, NEW i \in 0 .. bp - 1
  PROVE  stack'[i] = stack[i]
<1>1. /\ status = "running" /\ sp \in Nat /\ bp \in Nat /\ bp <= sp
      /\ sp \in 0 .. STACK_LIMIT
  BY CurrentPoint, Parts DEF Eval, Halt, Const, Math, Compare, JmpIfFalse, Jmp,
     GetGlobal, SetGlobal, Pop, GetLocal, SetLocal, ScopeExit, Call, Return,
     Fetched, AtOpcode, UnknownOpcode, FetchBeyondCode
<1>2. ASSUME NEW v, NEW len, Push(v, len)
      PROVE  stack'[i] = stack[i]
  BY <1>1, <1>2, WritesAbove DEF Push, Stop
<1>3. ASSUME NEW n \in Nat, NEW v, NEW len, sp - bp >= n, Replace(n, v, len)
      PROVE  stack'[i] = stack[i]
  <2>1. sp - n \in Int /\ bp <= sp - n
    BY <1>1, <1>3
  <2> QED BY <1>1, <1>3, <2>1, WritesAbove DEF Replace
<1>4. CASE Halt \/ JmpIfFalse \/ Jmp \/ SetGlobal \/ Pop \/ Return
           \/ UnknownOpcode \/ FetchBeyondCode
  BY <1>4 DEF Halt, JmpIfFalse, Jmp, SetGlobal, Pop, Drop, Return, UnknownOpcode,
     FetchBeyondCode, DieShortOf, Stop
<1>5. CASE Const
  BY <1>2, <1>5 DEF Const, Stop
<1>6. CASE \E op \in MathOps : Math(op)
  <2>1. sp - bp >= 2
    BY <1>1, <1>6, Needed DEF Math, Fetched, AtOpcode
  <2> QED BY <1>3, <1>6, <2>1 DEF Math, Drop, DieShortOf, Stop
<1>7. CASE Compare
  <2>1. sp - bp >= 2
    BY <1>1, <1>7, Needed DEF Compare, Fetched, AtOpcode
  <2> QED BY <1>3, <1>7, <2>1 DEF Compare, Drop, DieShortOf, Stop
<1>8. CASE GetGlobal
  BY <1>2, <1>8 DEF GetGlobal, Stop
<1>9. CASE GetLocal
  BY <1>2, <1>9 DEF GetLocal, Stop
<1>10. CASE SetLocal
  <2>1. Operand \in Nat
    BY <1>10, OperandIsByte DEF SetLocal, Fetched, AtOpcode
  <2>2. bp + Operand \in Int /\ bp <= bp + Operand
    BY <1>1, <2>1
  <2>3. CASE UNCHANGED stack
    BY <2>3
  <2>4. CASE stack' = [stack EXCEPT ![bp + Operand] = stack[sp - 1]]
    BY <1>1, <2>2, <2>4, WritesAbove
  <2> QED BY <1>10, <2>3, <2>4 DEF SetLocal, DieShortOf, Stop
<1>11. CASE ScopeExit
  <2>1. Operand \in Nat /\ sp - bp >= Operand + 1
    BY <1>11, Needed, OperandIsByte DEF ScopeExit, Fetched, AtOpcode
  <2>2. Operand + 1 \in Nat
    BY <2>1
  <2> QED BY <1>3, <1>11, <2>1, <2>2 DEF ScopeExit, PopBelow, DieShortOf, Stop
<1>12. CASE Call
  <2>1. Operand \in Nat /\ sp - bp >= Operand + 1
    BY <1>12, Needed, OperandIsByte DEF Call, Fetched, AtOpcode
  <2>2. sp - Operand - 1 \in Int /\ bp <= sp - Operand - 1
    BY <1>1, <2>1
  <2>3. CASE UNCHANGED stack
    BY <2>3
  <2>4. ASSUME NEW r, stack' = [stack EXCEPT ![sp] = r, ![sp - Operand - 1] = r]
        PROVE  stack'[i] = stack[i]
    <3>1. i # sp /\ i # sp - Operand - 1
      BY <1>1, <2>2
    <3>2. i \in DOMAIN stack
      BY <1>1, Parts, StackLimitAssumption
    <3> QED BY <2>4, <3>1, <3>2
  <2>5. CASE CallNative(Operand)
    <3>1. \/ UNCHANGED stack
          \/ \E r : stack' = [stack EXCEPT ![sp] = r, ![sp - Operand - 1] = r]
      BY <2>5 DEF CallNative, Stop
    <3> QED BY <2>3, <2>4, <3>1
  <2> QED
    BY <1>12, <2>3, <2>5 DEF Call, CallFunction, DieShortOf, Stop
<1> QED
  BY <1>4, <1>5, <1>6, <1>7, <1>8, <1>9, <1>10, <1>11, <1>12 DEF Eval

\* A callee reads its arguments where its caller left them and may overwrite
\* them, but the values its callers have pending below them stay as they are.
THEOREM CallersKeepTheirSlots == Spec /\ []TypesFit => CallerSlotsUntouched
<1>1. IInv /\ TypesFit /\ [Next]_vars
        => [\A i \in 0 .. bp - 1 : stack'[i] = stack[i]]_vars
  <2> SUFFICES ASSUME IInv, TypesFit, [Next]_vars
               PROVE  \/ \A i \in 0 .. bp - 1 : stack'[i] = stack[i]
                      \/ UNCHANGED vars
    OBVIOUS
  <2>1. CASE Eval
    BY <2>1, StepKeepsCallerSlots
  <2> QED BY <2>1 DEF Next, Exited
<1> QED BY <1>1, Invariance, PTL DEF Spec, CallerSlotsUntouched

-----------------------------------------------------------------------------
(***************************************************************************)
(* Activations: the machine implements Activations.                        *)
(***************************************************************************)

\* The frames lie above each other in the order of the calls, the running
\* function's on top.
BasesAscend == \A i, j \in 1 .. Depth : i <= j => Base(i) <= Base(j)

\* Only the first activation runs main: no value on the stack stands for it,
\* so nobody calls it.
FunctionAt(i) == IF i = Depth THEN fn ELSE callStack[i].fn
MainRunsOnce == \A i \in 2 .. Depth : FunctionAt(i) # Main

\* Nothing lies below it.
MainAtZero == Base(1) = 0

\* The inductive invariant: that of the machine, and the shape of the calls.
AInv == IInv /\ BasesAscend /\ MainRunsOnce /\ MainAtZero

-----------------------------------------------------------------------------
(***************************************************************************)
(* Sequences.                                                              *)
(***************************************************************************)

\* A function on 1 .. n is a sequence; what SequencesExt makes of it.
LEMMA FrontAndLast ==
  ASSUME NEW n \in Nat \ {0}, NEW f, f = [i \in 1 .. n |-> f[i]]
  PROVE  /\ f # <<>> /\ Len(f) = n
         /\ Abstract!Last(f) = f[n]
         /\ Abstract!Front(f) \in Seq({f[i] : i \in 1 .. n})
         /\ Abstract!Front(f) = [i \in 1 .. n - 1 |-> f[i]]
<1> DEFINE S == {f[i] : i \in 1 .. n}
<1>1. PICK T : T = S
  OBVIOUS
<1>2. f \in [1 .. n -> T]
  BY <1>1
<1>3. f \in Seq(T) /\ Len(f) = n
  BY <1>2, SeqDef
<1>4. f # <<>>
  BY <1>3
<1>5. Abstract!Front(f) = SubSeq(f, 1, n - 1) /\ Abstract!Last(f) = f[n]
  BY <1>3 DEF Abstract!Front, Abstract!Last
<1>6. SubSeq(f, 1, n - 1) = [i \in 1 .. n - 1 |-> f[i]]
  <2>1. /\ SubSeq(f, 1, n - 1) \in Seq(T)
        /\ Len(SubSeq(f, 1, n - 1)) = n - 1
        /\ \A i \in 1 .. n - 1 : SubSeq(f, 1, n - 1)[i] = f[i]
    BY <1>3
  <2> QED BY <2>1
<1>7. SubSeq(f, 1, n - 1) \in Seq(T)
  BY <1>3
<1> QED BY <1>1, <1>3, <1>4, <1>5, <1>6, <1>7

\* The elements from m to n of a sequence, none if m is n + 1.
LEMMA Slice ==
  ASSUME NEW S, NEW s \in Seq(S), NEW m \in 1 .. Len(s) + 1, NEW n \in 0 .. Len(s),
         m <= n + 1
  PROVE  /\ SubSeq(s, m, n) \in Seq(S)
         /\ Len(SubSeq(s, m, n)) = n - m + 1
         /\ \A k \in 1 .. n - m + 1 : SubSeq(s, m, n)[k] = s[m + k - 1]
OBVIOUS

\* A piece of a sequence, as the function it is.
LEMMA Piece ==
  ASSUME NEW h \in Nat, NEW f, f = [k \in 1 .. h |-> f[k]],
         NEW m \in 1 .. h + 1, NEW n \in 0 .. h, m <= n + 1
  PROVE  SubSeq(f, m, n) = [k \in 1 .. n - m + 1 |-> f[m + k - 1]]
<1>1. PICK T : T = {f[i] : i \in 1 .. h}
  OBVIOUS
<1>2. f \in [1 .. h -> T]
  BY <1>1
<1>3. f \in Seq(T) /\ Len(f) = h
  BY <1>2, SeqDef
<1>4. /\ SubSeq(f, m, n) \in Seq(T)
      /\ Len(SubSeq(f, m, n)) = n - m + 1
      /\ \A k \in 1 .. n - m + 1 : SubSeq(f, m, n)[k] = f[m + k - 1]
  <2> PICK s : s = f
    OBVIOUS
  <2>1. s \in Seq(T) /\ m \in 1 .. Len(s) + 1 /\ n \in 0 .. Len(s)
    BY <1>3
  <2> QED BY <2>1, Slice, Zenon
<1> QED BY <1>4

\* Two pieces that make up a sequence.
LEMMA Joined ==
  ASSUME NEW p \in Nat, NEW q \in Nat, NEW f, f = [k \in 1 .. p + q |-> f[k]]
  PROVE  [k \in 1 .. p |-> f[k]] \o [k \in 1 .. q |-> f[p + k]] = f
<1> DEFINE s == [k \in 1 .. p |-> f[k]]
           t == [k \in 1 .. q |-> f[p + k]]
<1>1. PICK T : T = {f[k] : k \in 1 .. p + q}
  OBVIOUS
<1>2. s \in [1 .. p -> T]
  <2>1. \A k \in 1 .. p : k \in 1 .. p + q
    OBVIOUS
  <2> QED BY <1>1, <2>1
<1>3. t \in [1 .. q -> T]
  <2>1. \A k \in 1 .. q : p + k \in 1 .. p + q
    OBVIOUS
  <2>2. \A k \in 1 .. q : f[p + k] \in T
    BY <1>1, <2>1
  <2> QED BY <2>2
<1>4. ASSUME NEW k \in 1 .. p + q
      PROVE  IF k <= p THEN s[k] = f[k] ELSE t[k - p] = f[k]
  <2>1. CASE k <= p
    BY <2>1
  <2>2. CASE ~ (k <= p)
    <3>1. k - p \in 1 .. q /\ p + (k - p) = k
      BY <2>2
    <3> QED BY <2>2, <3>1
  <2> QED BY <2>1, <2>2
<1> HIDE DEF s, t
<1>5. s \in Seq(T) /\ Len(s) = p /\ t \in Seq(T) /\ Len(t) = q
  <2>1. s \in Seq(T) /\ Len(s) = p
    BY <1>2, SeqDef
  <2>2. t \in Seq(T) /\ Len(t) = q
    BY <1>3, SeqDef
  <2> QED BY <2>1, <2>2
<1>6. /\ s \o t \in Seq(T) /\ Len(s \o t) = p + q
      /\ \A k \in 1 .. p + q : (s \o t)[k] = IF k <= p THEN s[k] ELSE t[k - p]
  BY <1>5
<1>7. \A k \in 1 .. p + q : (s \o t)[k] = f[k]
  BY <1>4, <1>6
<1>8. s \o t = [k \in 1 .. p + q |-> (s \o t)[k]]
  <2>1. \A u \in Seq(T) : Len(u) = p + q => u = [k \in 1 .. p + q |-> u[k]]
    OBVIOUS
  <2> QED BY <1>6, <2>1
<1> QED BY <1>7, <1>8 DEF s, t

-----------------------------------------------------------------------------
(***************************************************************************)
(* The stack of calls.                                                     *)
(***************************************************************************)

\* Frames are natural numbers, and those of the callers lie below the running
\* function's.
LEMMA Frames ==
  ASSUME AInv
  PROVE  /\ Depth \in Nat \ {0} /\ Len(callStack) = Depth - 1
         /\ DOMAIN callStack = 1 .. Depth - 1
         /\ \A i \in 1 .. Depth - 1 :
              callStack[i] \in [ra : Nat, bp : Nat, fn : DOMAIN codeObjects]
         /\ \A i \in 1 .. Depth : Base(i) \in Nat /\ Base(i) <= bp
         /\ Base(Depth) = bp /\ End(Depth) = sp
         /\ \A i \in 1 .. Depth - 1 : Base(i) = callStack[i].bp
                                      /\ End(i) = Base(i + 1)
<1>1. /\ callStack \in Seq([ra : Nat, bp : Nat, fn : DOMAIN codeObjects])
      /\ bp \in Nat
  BY DEF AInv, IInv, TypeOK
<1>2. Len(callStack) \in Nat /\ DOMAIN callStack = 1 .. Len(callStack)
  BY <1>1
<1>3. Depth \in Nat \ {0} /\ Len(callStack) = Depth - 1
  BY <1>2 DEF Depth
<1>4. \A i \in 1 .. Depth - 1 :
        callStack[i] \in [ra : Nat, bp : Nat, fn : DOMAIN codeObjects]
  BY <1>1, <1>2, <1>3, ElementOfSeq
<1>5. Base(Depth) = bp /\ End(Depth) = sp
  BY DEF Base, End
<1>6. \A i \in 1 .. Depth - 1 : i # Depth
  BY <1>3
<1>7. \A i \in 1 .. Depth - 1 : Base(i) = callStack[i].bp /\ End(i) = Base(i + 1)
  BY <1>6 DEF Base, End
<1>8. \A i \in 1 .. Depth : i = Depth \/ i \in 1 .. Depth - 1
  BY <1>3
<1>9. \A i \in 1 .. Depth : Base(i) \in Nat
  BY <1>1, <1>4, <1>5, <1>7, <1>8
<1>10. \A i \in 1 .. Depth : Base(i) <= bp
  <2>1. Depth \in 1 .. Depth /\ \A i \in 1 .. Depth : i <= Depth
    BY <1>3
  <2> QED BY <1>5, <2>1 DEF AInv, BasesAscend
<1> QED BY <1>2, <1>3, <1>4, <1>5, <1>7, <1>9, <1>10

\* The sequence that the mapping makes of a run.
LEMMA Mapped ==
  ASSUME AInv, status = "running"
  PROVE  /\ ActivationsOfRun # <<>> /\ Len(ActivationsOfRun) = Depth
         /\ Abstract!Running = ActivationAt(Depth)
         /\ Abstract!Callers = [i \in 1 .. Depth - 1 |-> ActivationAt(i)]
         /\ Abstract!Running.fn = fn
         /\ Abstract!Running.at = ip
         /\ Abstract!Running.below = bp
         /\ Abstract!Running.slots = [k \in 1 .. sp - bp |-> stack[bp + k - 1]]
         /\ Len(Abstract!Running.slots) = sp - bp
<1> DEFINE A == [i \in 1 .. Depth |-> ActivationAt(i)]
<1>1. ActivationsOfRun = A
  BY DEF ActivationsOfRun
<1>2. Depth \in Nat \ {0} /\ Depth \in 1 .. Depth
  BY Frames
<1>3. A = [i \in 1 .. Depth |-> A[i]] /\ A[Depth] = ActivationAt(Depth)
  BY <1>2
<1>4. \A i \in 1 .. Depth - 1 : A[i] = ActivationAt(i)
  BY <1>2
<1> HIDE DEF A
<1>5. /\ A # <<>> /\ Len(A) = Depth
      /\ Abstract!Last(A) = A[Depth]
      /\ Abstract!Front(A) = [i \in 1 .. Depth - 1 |-> A[i]]
  BY <1>2, <1>3, FrontAndLast
<1>6. [i \in 1 .. Depth - 1 |-> A[i]] = [i \in 1 .. Depth - 1 |-> ActivationAt(i)]
  BY <1>4
<1>7. /\ ActivationAt(Depth).fn = fn /\ ActivationAt(Depth).at = ip
      /\ ActivationAt(Depth).below = bp
      /\ ActivationAt(Depth).slots = [k \in 1 .. sp - bp |-> stack[bp + k - 1]]
  BY DEF ActivationAt, Base, Slots, End
<1>8. Len([k \in 1 .. sp - bp |-> stack[bp + k - 1]]) = sp - bp
  <2>1. sp - bp \in Nat
    BY CurrentPoint DEF AInv
  <2> QED BY <2>1
<1> QED
  BY <1>1, <1>3, <1>5, <1>6, <1>7, <1>8 DEF Abstract!Running, Abstract!Callers

-----------------------------------------------------------------------------
(***************************************************************************)
(* Steps.                                                                  *)
(***************************************************************************)

\* A pass of the loop ends the run, stays in the running function, calls or
\* returns.
LEMMA StepKinds ==
  ASSUME IInv, TypesFit, Eval
  PROVE  /\ status = "running"
         /\ \/ Stop("died") /\ sp = STACK_LIMIT
            \/ /\ status' = "halted" /\ Opcode = OP_HALT
               /\ UNCHANGED <<bp, fn, callStack>>
            \/ KeepFrame
            \/ /\ Opcode = OP_CALL
               /\ IS_FUNCTION(CalledValue)
               /\ CallFunction(Payload(CalledValue), Operand)
            \/ Return
<1>1. status = "running"
  BY DEF Eval, Halt, Const, Math, Compare, JmpIfFalse, Jmp, GetGlobal, SetGlobal,
     Pop, GetLocal, SetLocal, ScopeExit, Call, Return, Fetched, AtOpcode,
     UnknownOpcode, FetchBeyondCode
<1>2. Safe' /\ DiesOnlyOfOverflow'
  BY StepIInv DEF Next, IInv
<1>3. ~ Stop("undefined") /\ \A n : ~ PopBelow(n)
  BY <1>2 DEF Stop, PopBelow, Safe
<1>4. Stop("died") => sp = STACK_LIMIT
  BY <1>2 DEF Stop, DiesOnlyOfOverflow
<1>5. \A v, len : Push(v, len) => Stop("died") \/ KeepFrame
  BY DEF Push
<1>6. \A n, v, len : Replace(n, v, len) => KeepFrame
  BY DEF Replace
<1>7. CASE Halt
  BY <1>4, <1>7 DEF Halt, Fetched, AtOpcode, DieShortOf
<1>8. CASE Const \/ GetGlobal \/ GetLocal
  BY <1>1, <1>3, <1>4, <1>5, <1>8 DEF Const, GetGlobal, GetLocal
<1>9. CASE \E op \in MathOps : Math(op)
  BY <1>1, <1>4, <1>6, <1>9 DEF Math, Drop, DieShortOf
<1>10. CASE Compare
  BY <1>1, <1>4, <1>6, <1>10 DEF Compare, Drop, DieShortOf
<1>11. CASE JmpIfFalse \/ Jmp \/ Pop \/ SetGlobal
  BY <1>1, <1>4, <1>11 DEF JmpIfFalse, Jmp, Pop, SetGlobal, Drop, DieShortOf
<1>12. CASE SetLocal \/ ScopeExit
  BY <1>1, <1>3, <1>4, <1>6, <1>12 DEF SetLocal, ScopeExit, PopBelow, DieShortOf
<1>13. CASE Call
  <2>1. Operand \in Nat /\ sp \in Int
    BY <1>1, <1>13, OperandIsByte, Parts DEF Call, Fetched, AtOpcode
  <2>2. sp - 1 - Operand \in Int
    BY <2>1
  <2>3. CallNative(Operand) => KeepFrame \/ Stop("died") \/ Stop("undefined")
    BY DEF CallNative
  <2> QED BY <1>3, <1>4, <1>13, <2>3 DEF Call, Fetched, AtOpcode, DieShortOf, CalledValue
<1>14. CASE UnknownOpcode \/ FetchBeyondCode
  BY <1>1, <1>3, <1>4, <1>14 DEF UnknownOpcode, FetchBeyondCode
<1> QED
  BY <1>1, <1>4, <1>7, <1>8, <1>9, <1>10, <1>11, <1>12, <1>13, <1>14 DEF Eval

\* What a call makes of the stack of calls.
LEMMA Calls ==
  ASSUME AInv, status = "running", Opcode = OP_CALL, IS_FUNCTION(CalledValue),
         CallFunction(Payload(CalledValue), Operand)
  PROVE  /\ Operand \in Nat
         /\ sp \in Nat /\ bp \in Nat /\ bp <= sp - Operand - 1
         /\ ip' = 0 /\ sp' = sp /\ stack' = stack /\ status' = "running"
         /\ bp' = sp - Operand - 1 /\ fn' = Payload(CalledValue) /\ fn' # Main
         /\ Depth' = Depth + 1
         /\ callStack'[Depth] = Frame(ip + 2, bp, fn)
         /\ \A i \in 1 .. Depth - 1 : callStack'[i] = callStack[i]
<1>1. Operand \in Nat /\ sp - bp >= Operand + 1
  BY OperandIsByte, Needed DEF AInv
<1>2. sp \in Nat /\ bp \in Nat
  BY Parts, CurrentPoint DEF AInv
<1>3. /\ callStack' = Append(callStack, Frame(ip + 2, bp, fn))
      /\ ip' = 0 /\ sp' = sp /\ stack' = stack /\ status' = "running"
      /\ bp' = sp - Operand - 1 /\ fn' = Payload(CalledValue)
  BY DEF CallFunction, CalleeBase
<1>4. callStack \in Seq([ra : Nat, bp : Nat, fn : DOMAIN codeObjects])
  BY DEF AInv, IInv, TypeOK
<1>5. Frame(ip + 2, bp, fn) \in [ra : Nat, bp : Nat, fn : DOMAIN codeObjects]
  BY Parts DEF AInv, Frame
<1>6. /\ Len(callStack') = Len(callStack) + 1
      /\ callStack'[Len(callStack) + 1] = Frame(ip + 2, bp, fn)
      /\ \A i \in 1 .. Len(callStack) : callStack'[i] = callStack[i]
  BY <1>3, <1>4, <1>5, AppendProperties
<1>7. Len(callStack) = Depth - 1 /\ Depth \in Nat
  BY Frames
<1>8. Payload(CalledValue) # Main
  <2>1. sp - 1 - Operand \in 0 .. sp - 1
    BY <1>1, <1>2
  <2>2. IsValue(codeObjects, CalledValue)
    BY <2>1, Parts DEF AInv, CalledValue
  <2>3. Payload(CalledValue) \in 2 .. Len(codeObjects)
    BY <2>2 DEF IsValue
  <2> QED BY <2>3 DEF Main
<1> QED BY <1>1, <1>2, <1>3, <1>6, <1>7, <1>8 DEF Depth

\* What a return makes of it.
LEMMA Returns ==
  ASSUME AInv, Return
  PROVE  /\ sp = bp + 1 /\ Depth > 1
         /\ sp' = sp /\ stack' = stack /\ status' = "running"
         /\ ip' = callStack[Depth - 1].ra
         /\ bp' = callStack[Depth - 1].bp
         /\ fn' = callStack[Depth - 1].fn
         /\ Depth' = Depth - 1
         /\ \A i \in 1 .. Depth - 2 : callStack'[i] = callStack[i]
<1>1. status = "running" /\ Opcode = OP_RETURN
  BY DEF Return, Fetched, AtOpcode
<1>2. fn # Main /\ sp - bp = 1 /\ sp \in Nat /\ bp \in Nat
  BY <1>1, Needed, Parts, CurrentPoint DEF AInv
<1>3. callStack # <<>>
  BY <1>2 DEF AInv, IInv, MainAtBottom
<1>4. Len(callStack) = Depth - 1 /\ Depth \in Nat \ {0}
  BY Frames
<1>5. /\ ip' = callStack[Depth - 1].ra
      /\ bp' = callStack[Depth - 1].bp
      /\ fn' = callStack[Depth - 1].fn
      /\ callStack' = SubSeq(callStack, 1, Depth - 2)
      /\ sp' = sp /\ stack' = stack /\ status' = "running"
  <2>1. Depth - 1 - 1 = Depth - 2
    BY <1>4
  <2> QED BY <1>1, <1>3, <1>4, <2>1 DEF Return
<1>6. callStack \in Seq([ra : Nat, bp : Nat, fn : DOMAIN codeObjects])
  BY DEF AInv, IInv, TypeOK
<1>7. Depth > 1
  BY <1>3, <1>4, <1>6
<1>8. /\ Len(callStack') = Depth - 2
      /\ \A i \in 1 .. Depth - 2 : callStack'[i] = callStack[i]
  <2>1. callStack' = SubSeq(callStack, 1, Depth - 2) /\ Depth - 2 \in 0 .. Len(callStack)
    BY <1>4, <1>5, <1>7
  <2> QED BY <1>6, <2>1
<1> QED BY <1>2, <1>4, <1>5, <1>7, <1>8 DEF Depth

\* An activation that waits for its callee stays as it is when its frame and
\* the frame above it stay, and no slot below the running function's changes.
LEMMA Waiting ==
  ASSUME AInv, NEW i \in 1 .. Depth - 1,
         Base(i)' = Base(i), End(i)' = End(i), i # Depth',
         callStack'[i] = callStack[i],
         \A k \in 0 .. bp - 1 : stack'[k] = stack[k]
  PROVE  ActivationAt(i)' = ActivationAt(i)
<1>1. /\ i # Depth /\ i + 1 \in 1 .. Depth /\ End(i) = Base(i + 1)
      /\ Base(i) \in Nat /\ bp \in Nat
      /\ Base(i + 1) \in Nat /\ Base(i + 1) <= bp
  <2>1. Depth \in Nat
    BY Frames
  <2>2. i # Depth /\ i + 1 \in 1 .. Depth /\ i \in 1 .. Depth
    BY <2>1
  <2> QED BY <2>2, Frames, Parts DEF AInv
<1>2. \A k \in 1 .. End(i) - Base(i) :
        stack'[Base(i) + k - 1] = stack[Base(i) + k - 1]
  <2> SUFFICES ASSUME NEW k \in 1 .. End(i) - Base(i)
               PROVE  stack'[Base(i) + k - 1] = stack[Base(i) + k - 1]
    OBVIOUS
  <2>1. Base(i) + k - 1 \in 0 .. bp - 1
    BY <1>1
  <2> QED BY <2>1
<1>3. Slots(i)' = Slots(i)
  BY <1>2 DEF Slots
<1> QED BY <1>1, <1>3 DEF ActivationAt

\* A step within the running function keeps all frames.
LEMMA Stays ==
  ASSUME AInv, KeepFrame
  PROVE  /\ Depth' = Depth
         /\ \A i \in 1 .. Depth : Base(i)' = Base(i)
         /\ \A i \in 1 .. Depth - 1 : End(i)' = End(i)
<1>1. UNCHANGED <<bp, callStack>>
  BY DEF KeepFrame
<1>2. Depth' = Depth
  BY <1>1 DEF Depth
<1>3. \A i \in 1 .. Depth : Base(i)' = Base(i)
  BY <1>1, <1>2 DEF Base
<1>4. \A i \in 1 .. Depth - 1 : i # Depth /\ i + 1 \in 1 .. Depth
  BY Frames
<1>5. \A i \in 1 .. Depth - 1 : End(i)' = Base(i + 1)' /\ End(i) = Base(i + 1)
  BY <1>2, <1>4 DEF End
<1>6. \A i \in 1 .. Depth - 1 : Base(i + 1)' = Base(i + 1)
  BY <1>1, <1>2 DEF Base
<1> QED BY <1>2, <1>3, <1>5, <1>6

\* A call puts a frame on top of them.
LEMMA CallBases ==
  ASSUME AInv, status = "running", Opcode = OP_CALL, IS_FUNCTION(CalledValue),
         CallFunction(Payload(CalledValue), Operand)
  PROVE  /\ \A i \in 1 .. Depth : Base(i)' = Base(i)
         /\ \A i \in 1 .. Depth - 1 : End(i)' = End(i)
         /\ \A d : d = Depth => /\ Base(d + 1)' = bp' /\ End(d)' = bp'
                               /\ End(d + 1)' = sp
         /\ bp <= bp'
<1>1. Depth \in Nat \ {0} /\ Depth' = Depth + 1 /\ bp' = sp - Operand - 1
      /\ bp <= bp' /\ sp' = sp
  BY Frames, Calls
<1>2. ASSUME NEW d, d = Depth PROVE Base(d + 1)' = bp' /\ End(d + 1)' = sp
  BY <1>1, <1>2 DEF Base, End
<1>3. ASSUME NEW i \in 1 .. Depth PROVE Base(i)' = Base(i)
  <2>1. i # Depth'
    BY <1>1
  <2>2. Base(i)' = callStack'[i].bp
    BY <2>1 DEF Base
  <2>3. CASE i = Depth
    BY <2>2, <2>3, Calls DEF Frame, Base
  <2>4. CASE i # Depth
    <3>1. i \in 1 .. Depth - 1
      BY <1>1, <2>4
    <3> QED BY <2>2, <2>4, <3>1, Calls DEF Base
  <2> QED BY <2>3, <2>4
<1>4. ASSUME NEW i \in 1 .. Depth - 1 PROVE End(i)' = End(i)
  <2>1. i # Depth /\ i # Depth' /\ i + 1 \in 1 .. Depth
    BY <1>1
  <2>2. End(i)' = Base(i + 1)' /\ End(i) = Base(i + 1)
    BY <2>1 DEF End
  <2>3. Base(i + 1)' = Base(i + 1)
    BY <1>3, <2>1
  <2> QED BY <2>2, <2>3
<1>5. ASSUME NEW d, d = Depth PROVE End(d)' = bp'
  <2>1. d # Depth'
    BY <1>1, <1>5
  <2>2. End(d)' = Base(d + 1)'
    BY <2>1 DEF End
  <2> QED BY <1>2, <1>5, <2>2
<1> QED BY <1>1, <1>2, <1>3, <1>4, <1>5

\* A return takes the top one off.
LEMMA ReturnBases ==
  ASSUME AInv, Return
  PROVE  /\ \A i \in 1 .. Depth - 1 : Base(i)' = Base(i)
         /\ \A i \in 1 .. Depth - 2 : End(i)' = End(i)
         /\ \A d : d = Depth - 1 => End(d)' = sp
<1>1. /\ Depth \in Nat /\ Depth > 1 /\ Depth' = Depth - 1 /\ sp' = sp
      /\ bp' = callStack[Depth - 1].bp
      /\ \A i \in 1 .. Depth - 2 : callStack'[i] = callStack[i]
  BY Frames, Returns
<1>2. ASSUME NEW i \in 1 .. Depth - 1 PROVE Base(i)' = Base(i)
  <2>1. i # Depth /\ (i = Depth' \/ i \in 1 .. Depth - 2)
    BY <1>1
  <2>2. i \in 1 .. Depth - 2 => i # Depth'
    BY <1>1
  <2> QED BY <1>1, <2>1, <2>2 DEF Base
<1>3. ASSUME NEW i \in 1 .. Depth - 2 PROVE End(i)' = End(i)
  <2>1. i # Depth /\ i # Depth' /\ i + 1 \in 1 .. Depth - 1
    BY <1>1
  <2>2. End(i)' = Base(i + 1)' /\ End(i) = Base(i + 1)
    BY <2>1 DEF End
  <2>3. Base(i + 1)' = Base(i + 1)
    BY <1>2, <2>1
  <2> QED BY <2>2, <2>3
<1>4. ASSUME NEW d, d = Depth - 1 PROVE End(d)' = sp
  BY <1>1, <1>4 DEF End
<1> QED BY <1>2, <1>3, <1>4

\* The order of the frames is kept.
LEMMA StepBases == AInv /\ TypesFit /\ [Next]_vars => BasesAscend'
<1> SUFFICES ASSUME AInv, TypesFit, [Next]_vars
             PROVE  BasesAscend'
  OBVIOUS
<1>1. Depth \in Nat \ {0}
  BY Frames
<1>2. CASE UNCHANGED <<bp, callStack>>
  BY <1>2 DEF AInv, BasesAscend, Base, Depth
<1>3. CASE /\ Eval /\ Opcode = OP_CALL /\ IS_FUNCTION(CalledValue)
           /\ CallFunction(Payload(CalledValue), Operand)
  <2>1. status = "running"
    BY <1>3, StepKinds DEF AInv
  <2>2. Depth' = Depth + 1
    BY <1>3, <2>1, Calls
  <2>3. /\ \A i \in 1 .. Depth : Base(i)' = Base(i)
        /\ \A d : d = Depth => Base(d + 1)' = bp'
        /\ bp <= bp'
    BY <1>3, <2>1, CallBases
  <2>4. bp' \in Nat /\ bp \in Nat
    BY <1>3, <2>1, Calls
  <2>5. \A i \in 1 .. Depth : Base(i)' <= bp'
    BY <2>3, <2>4, Frames
  <2> SUFFICES ASSUME NEW i \in 1 .. Depth + 1, NEW j \in 1 .. Depth + 1, i <= j
               PROVE  Base(i)' <= Base(j)'
    BY <2>2 DEF BasesAscend
  <2>6. CASE j = Depth + 1
    <3>1. i = Depth + 1 \/ i \in 1 .. Depth
      BY <1>1
    <3>2. Base(j)' = bp' /\ (i = Depth + 1 => Base(i)' = bp')
      BY <2>3, <2>6
    <3> QED BY <2>4, <2>5, <3>1, <3>2
  <2>7. CASE j # Depth + 1
    <3>1. i \in 1 .. Depth /\ j \in 1 .. Depth
      BY <1>1, <2>7
    <3>2. Base(i) <= Base(j)
      BY <3>1 DEF AInv, BasesAscend
    <3> QED BY <2>3, <3>1, <3>2
  <2> QED BY <2>6, <2>7
<1>4. CASE Return
  <2>1. Depth' = Depth - 1 /\ \A i \in 1 .. Depth - 1 : Base(i)' = Base(i)
    BY <1>4, Returns, ReturnBases
  <2>2. \A i \in 1 .. Depth - 1 : i \in 1 .. Depth
    BY <1>1
  <2> QED BY <2>1, <2>2 DEF AInv, BasesAscend
<1>5. CASE Eval
  BY <1>2, <1>3, <1>4, <1>5, StepKinds DEF AInv, Stop, KeepFrame
<1> QED BY <1>2, <1>5 DEF Next, Exited, vars

\* Nobody calls main.
LEMMA StepMain == AInv /\ TypesFit /\ [Next]_vars => MainRunsOnce'
<1> SUFFICES ASSUME AInv, TypesFit, [Next]_vars
             PROVE  MainRunsOnce'
  OBVIOUS
<1>1. Depth \in Nat \ {0}
  BY Frames
<1>2. CASE UNCHANGED <<fn, callStack>>
  BY <1>2 DEF AInv, MainRunsOnce, FunctionAt, Depth
<1>3. CASE /\ Eval /\ Opcode = OP_CALL /\ IS_FUNCTION(CalledValue)
           /\ CallFunction(Payload(CalledValue), Operand)
  <2>1. status = "running"
    BY <1>3, StepKinds DEF AInv
  <2>2. /\ Depth' = Depth + 1 /\ fn' # Main
        /\ callStack'[Depth] = Frame(ip + 2, bp, fn)
        /\ \A i \in 1 .. Depth - 1 : callStack'[i] = callStack[i]
    BY <1>3, <2>1, Calls
  <2> SUFFICES ASSUME NEW i \in 2 .. Depth + 1
               PROVE  FunctionAt(i)' # Main
    BY <2>2 DEF MainRunsOnce, Main
  <2>3. CASE i = Depth + 1
    BY <2>2, <2>3 DEF FunctionAt
  <2>4. CASE i # Depth + 1
    <3>1. i \in 2 .. Depth /\ i # Depth' /\ (i = Depth \/ i \in 1 .. Depth - 1)
      BY <1>1, <2>2, <2>4
    <3>2. FunctionAt(i)' = FunctionAt(i)
      BY <2>2, <3>1 DEF FunctionAt, Frame
    <3> QED BY <3>1, <3>2 DEF AInv, MainRunsOnce
  <2> QED BY <2>3, <2>4
<1>4. CASE Return
  <2>1. /\ Depth' = Depth - 1 /\ fn' = callStack[Depth - 1].fn /\ Depth > 1
        /\ \A i \in 1 .. Depth - 2 : callStack'[i] = callStack[i]
    BY <1>4, Returns
  <2>2. \A i \in 2 .. Depth - 1 :
          i \in 2 .. Depth /\ i # Depth /\ (i = Depth' \/ i \in 1 .. Depth - 2)
    BY <1>1, <2>1
  <2>3. \A i \in 2 .. Depth - 1 : FunctionAt(i)' = FunctionAt(i)
    BY <2>1, <2>2 DEF FunctionAt
  <2> QED BY <2>1, <2>2, <2>3 DEF AInv, MainRunsOnce, Main
<1>5. CASE Eval
  BY <1>2, <1>3, <1>4, <1>5, StepKinds DEF AInv, Stop, KeepFrame
<1> QED BY <1>2, <1>5 DEF Next, Exited, vars

\* Its slots begin where they did.
LEMMA StepZero == AInv /\ TypesFit /\ [Next]_vars => MainAtZero'
<1> SUFFICES ASSUME AInv, TypesFit, [Next]_vars
             PROVE  MainAtZero'
  OBVIOUS
<1>1. Depth \in Nat \ {0} /\ 1 \in 1 .. Depth /\ Base(1) = 0
  BY Frames DEF AInv, MainAtZero
<1>2. CASE UNCHANGED <<bp, callStack>>
  BY <1>1, <1>2 DEF MainAtZero, Base, Depth
<1>3. CASE /\ Eval /\ Opcode = OP_CALL /\ IS_FUNCTION(CalledValue)
           /\ CallFunction(Payload(CalledValue), Operand)
  <2>1. status = "running"
    BY <1>3, StepKinds DEF AInv
  <2> QED BY <1>1, <1>3, <2>1, CallBases DEF MainAtZero
<1>4. CASE Return
  <2>1. Depth > 1 /\ \A i \in 1 .. Depth - 1 : Base(i)' = Base(i)
    BY <1>4, Returns, ReturnBases
  <2>2. 1 \in 1 .. Depth - 1
    BY <1>1, <2>1
  <2> QED BY <1>1, <2>1, <2>2 DEF MainAtZero
<1>5. CASE Eval
  BY <1>2, <1>3, <1>4, <1>5, StepKinds DEF AInv, Stop, KeepFrame
<1> QED BY <1>2, <1>5 DEF Next, Exited, vars

\* When the run ends in OP_HALT, main's value was all there was.
LEMMA HaltLeavesNothing ==
  AInv /\ TypesFit /\ Eval /\ status' = "halted" => sp' = 0 /\ callStack' = <<>>
<1> SUFFICES ASSUME AInv, TypesFit, Eval, status' = "halted"
             PROVE  sp' = 0 /\ callStack' = <<>>
  OBVIOUS
<1>1. status = "running"
  BY StepKinds DEF AInv
<1>2. Halt
  <2>1. \A v, len : ~ Push(v, len) \/ status' # "halted"
    BY <1>1 DEF Push, Stop, KeepFrame
  <2>2. \A n, v, len : ~ Replace(n, v, len) \/ status' # "halted"
    BY <1>1 DEF Replace, KeepFrame
  <2>3. \A fate \in {"died", "undefined"} : ~ Stop(fate)
    BY DEF Stop
  <2>4. ~ KeepFrame
    BY <1>1 DEF KeepFrame
  <2>5. CASE Const \/ GetGlobal \/ GetLocal
    BY <2>1, <2>3, <2>4, <2>5 DEF Const, GetGlobal, GetLocal
  <2>6. CASE \E op \in MathOps : Math(op)
    BY <2>2, <2>3, <2>4, <2>6 DEF Math, Drop, DieShortOf
  <2>7. CASE Compare
    BY <2>2, <2>3, <2>4, <2>7 DEF Compare, Drop, DieShortOf
  <2>8. CASE JmpIfFalse \/ Jmp \/ Pop \/ SetGlobal
    BY <2>3, <2>4, <2>8 DEF JmpIfFalse, Jmp, Pop, SetGlobal, Drop, DieShortOf
  <2>9. CASE SetLocal \/ ScopeExit
    BY <1>1, <2>2, <2>3, <2>4, <2>9 DEF SetLocal, ScopeExit, PopBelow, DieShortOf
  <2>10. CASE Call
    <3>1. ~ CallNative(Operand)
      BY <2>3, <2>4 DEF CallNative
    <3>2. \A f : ~ CallFunction(f, Operand)
      BY <1>1 DEF CallFunction
    <3> QED BY <2>3, <2>10, <3>1, <3>2 DEF Call, DieShortOf
  <2>11. CASE Return
    BY <1>1, <2>3, <2>11 DEF Return
  <2>12. CASE UnknownOpcode \/ FetchBeyondCode
    BY <2>3, <2>12 DEF UnknownOpcode, FetchBeyondCode
  <2> QED BY <2>5, <2>6, <2>7, <2>8, <2>9, <2>10, <2>11, <2>12 DEF Eval
<1>3. Opcode = OP_HALT /\ fn = Main /\ sp - bp = 1 /\ sp \in Int /\ bp \in Int
  BY <1>1, <1>2, Needed, Parts DEF AInv, Halt, Fetched, AtOpcode
<1>4. Depth = 1
  <2>1. Depth \in Nat \ {0} /\ (Depth # 1 => Depth \in 2 .. Depth)
    BY Frames
  <2> QED BY <1>3, <2>1 DEF AInv, MainRunsOnce, FunctionAt
<1>5. callStack = <<>>
  <2>1. Len(callStack) = 0 /\ \E S : callStack \in Seq(S)
    BY <1>4, Frames DEF AInv, IInv, TypeOK
  <2> QED BY <2>1, EmptySeq
<1>6. bp = 0
  BY <1>4 DEF AInv, MainAtZero, Base
<1>7. sp' = sp - 1 /\ callStack' = callStack
  BY <1>2, <1>3, <1>6 DEF Halt, DieShortOf, Stop
<1> QED BY <1>3, <1>5, <1>6, <1>7

-----------------------------------------------------------------------------
(***************************************************************************)
(* What the steps are to the activations.                                  *)
(***************************************************************************)

\* A step within a function is work of the running activation: the others
\* keep their slots.
LEMMA WorkMaps ==
  ASSUME AInv, status = "running", KeepFrame,
         \A k \in 0 .. bp - 1 : stack'[k] = stack[k]
  PROVE  Abstract!Work
<1> DEFINE B == [i \in 1 .. Depth |-> ActivationAt(i)']
<1>1. UNCHANGED <<bp, fn, callStack, status>> /\ Depth' = Depth
  BY Stays DEF KeepFrame
<1>2. Depth \in Nat \ {0} /\ Depth \in 1 .. Depth
  BY Frames
<1>3. ActivationsOfRun' = B
  BY <1>1 DEF ActivationsOfRun
<1>4. \A i \in 1 .. Depth - 1 : B[i] = ActivationAt(i)
  <2> SUFFICES ASSUME NEW i \in 1 .. Depth - 1
               PROVE  ActivationAt(i)' = ActivationAt(i)
    BY <1>2
  <2>1. i \in 1 .. Depth /\ i # Depth'
    BY <1>1, <1>2
  <2> QED BY <1>1, <2>1, Stays, Waiting
<1>5. B[Depth].fn = fn /\ B[Depth].below = bp
  <2>1. B[Depth].fn = fn' /\ B[Depth].below = bp'
    BY <1>1, <1>2 DEF ActivationAt, Base
  <2> QED BY <1>1, <2>1
<1>6. B = [i \in 1 .. Depth |-> B[i]]
  OBVIOUS
<1> HIDE DEF B
<1>7. /\ B # <<>> /\ Abstract!Last(B) = B[Depth]
      /\ Abstract!Front(B) = [i \in 1 .. Depth - 1 |-> B[i]]
  BY <1>2, <1>6, FrontAndLast
<1>8. Abstract!Front(B) = Abstract!Callers
  BY <1>4, <1>7, Mapped
<1> QED BY <1>3, <1>5, <1>7, <1>8, Mapped DEF Abstract!Work

\* The end of the program is that of the only activation, which has a value.
LEMMA HaltMaps ==
  ASSUME AInv, status = "running", Opcode = OP_HALT, status' = "halted"
  PROVE  Abstract!Halt
<1>1. fn = Main /\ sp - bp >= 1
  BY Needed DEF AInv
<1>2. Depth = 1
  <2>1. Depth \in Nat \ {0} /\ FunctionAt(Depth) = Main
    BY <1>1, Frames DEF FunctionAt
  <2>2. Depth \notin 2 .. Depth
    BY <2>1 DEF AInv, MainRunsOnce
  <2> QED BY <2>1, <2>2
<1>3. Abstract!Running.slots # <<>>
  <2>1. Len(Abstract!Running.slots) # Len(<<>>)
    BY <1>1, Mapped, CurrentPoint DEF AInv
  <2> QED BY <2>1
<1>4. ActivationsOfRun' = <<>>
  BY DEF ActivationsOfRun
<1> QED BY <1>2, <1>3, <1>4, Mapped DEF Abstract!Halt

\* Running out of stack is running out of slots.
LEMMA OverflowMaps ==
  ASSUME AInv, status = "running", Stop("died"), sp = STACK_LIMIT
  PROVE  Abstract!Overflow
<1>1. ActivationsOfRun' = <<>>
  BY DEF Stop, ActivationsOfRun
<1>2. Abstract!InUse = sp
  BY Mapped, CurrentPoint DEF AInv, Abstract!InUse
<1> QED BY <1>1, <1>2, Mapped DEF Abstract!Overflow

\* A call hands over the function and its arguments.
LEMMA InvokeMaps ==
  ASSUME AInv, status = "running", Opcode = OP_CALL, IS_FUNCTION(CalledValue),
         CallFunction(Payload(CalledValue), Operand)
  PROVE  Abstract!Invoke
<1> DEFINE slots  == Abstract!Running.slots
           h      == sp - bp
           n      == Operand
           m      == Len(slots) - n - 1
           kept   == SubSeq(slots, 1, m)
           handed == SubSeq(slots, m + 1, h)
           upper  == Abstract!Activation(fn, ip + 2, bp, kept)
           top    == Abstract!Activation(Payload(handed[1]), 0, bp + m, handed)
           A      == Abstract!Callers
           B      == [i \in 1 .. Depth + 1 |-> ActivationAt(i)']
<1>1. /\ n \in Nat /\ sp \in Nat /\ bp \in Nat /\ bp <= sp - n - 1
      /\ ip' = 0 /\ sp' = sp /\ stack' = stack /\ status' = "running"
      /\ bp' = sp - n - 1 /\ fn' = Payload(CalledValue)
      /\ Depth' = Depth + 1
      /\ callStack'[Depth] = Frame(ip + 2, bp, fn)
      /\ \A i \in 1 .. Depth - 1 : callStack'[i] = callStack[i]
  BY Calls
<1>2. h \in Nat /\ n <= h - 1 /\ Len(slots) = h /\ m = h - n - 1 /\ m \in 0 .. h
  BY <1>1, Mapped
<1>3. slots = [k \in 1 .. h |-> slots[k]]
      /\ \A k \in 1 .. h : slots[k] = stack[bp + k - 1]
  BY Mapped
<1> HIDE DEF slots
<1>4. kept = [k \in 1 .. m |-> stack[bp + k - 1]]
  <2> HIDE DEF h, n, m
  <2>1. kept = [k \in 1 .. m - 1 + 1 |-> slots[1 + k - 1]]
    <3>1. 1 \in 1 .. h + 1 /\ m \in 0 .. h /\ 1 <= m + 1
      BY <1>2
    <3> QED BY <1>2, <1>3, <3>1, Piece
  <2>2. m - 1 + 1 = m
    BY <1>2
  <2>3. \A k \in 1 .. m : 1 + k - 1 = k /\ k \in 1 .. h
    BY <1>2
  <2> QED BY <1>3, <2>1, <2>2, <2>3
<1>5. handed = [k \in 1 .. n + 1 |-> stack[sp - n - 1 + k - 1]]
  <2>1. bp + m = sp - n - 1
    BY <1>1, <1>2
  <2> HIDE DEF h, n, m
  <2>2. handed = [k \in 1 .. h - (m + 1) + 1 |-> slots[m + 1 + k - 1]]
    <3>1. m + 1 \in 1 .. h + 1 /\ h \in 0 .. h /\ m + 1 <= h + 1
      BY <1>2
    <3> QED BY <1>2, <1>3, <3>1, Piece
  <2>3. h - (m + 1) + 1 = n + 1
    BY <1>1, <1>2
  <2>4. \A k \in 1 .. n + 1 : /\ m + 1 + k - 1 \in 1 .. h
                              /\ bp + (m + 1 + k - 1) - 1 = sp - n - 1 + k - 1
    BY <1>1, <1>2, <2>1
  <2> QED BY <1>3, <2>2, <2>3, <2>4
<1>6. handed[1] = CalledValue
  <2>1. 1 \in 1 .. n + 1 /\ sp - n - 1 + 1 - 1 = sp - 1 - n
    BY <1>1
  <2> QED BY <1>5, <2>1 DEF CalledValue
<1>7. ActivationsOfRun' = B
  BY <1>1 DEF ActivationsOfRun
<1>8. /\ Depth \in Nat \ {0}
      /\ A = [i \in 1 .. Depth - 1 |-> ActivationAt(i)]
  BY Frames, Mapped
<1>9. \A i \in 1 .. Depth - 1 : B[i] = A[i]
  <2> SUFFICES ASSUME NEW i \in 1 .. Depth - 1
               PROVE  ActivationAt(i)' = ActivationAt(i)
    BY <1>8
  <2>1. i \in 1 .. Depth /\ i # Depth'
    BY <1>1, <1>8
  <2> QED BY <1>1, <2>1, CallBases, Waiting
<1>10. B[Depth] = upper
  <2>1. ASSUME NEW d, d = Depth
        PROVE  ActivationAt(d)' = upper
    <3>1. /\ d # Depth' /\ End(d)' = bp' /\ Base(d)' = bp
      <4>1. d \in 1 .. Depth /\ d # Depth' /\ Base(d) = bp
        BY <1>1, <1>8, <2>1 DEF Base
      <4> QED BY <1>1, <2>1, <4>1, CallBases
    <3>2. bp' - bp = m
      BY <1>1, <1>2
    <3>3. Slots(d)' = kept
      BY <1>1, <1>4, <3>1, <3>2 DEF Slots
    <3>4. callStack'[d] = Frame(ip + 2, bp, fn)
      BY <1>1, <2>1
    <3> QED BY <3>1, <3>3, <3>4 DEF ActivationAt, Frame, Abstract!Activation
  <2>2. Depth \in 1 .. Depth + 1
    BY <1>8
  <2> QED BY <2>1, <2>2
<1>11. B[Depth + 1] = top
  <2>1. ASSUME NEW d, d = Depth + 1
        PROVE  ActivationAt(d)' = top
    <3>1. /\ d = Depth' /\ End(d)' = sp /\ Base(d)' = bp'
      <4>1. \A e : e = Depth => Base(e + 1)' = bp' /\ End(e + 1)' = sp
        BY <1>1, CallBases
      <4> QED BY <1>1, <2>1, <4>1
    <3>2. sp - bp' = n + 1 /\ bp' = sp - n - 1 /\ bp' = bp + m
      BY <1>1, <1>2
    <3>3. Slots(d)' = handed
      <4> HIDE DEF h, n, m, handed
      <4>1. Slots(d)' = [k \in 1 .. sp - bp' |-> stack[bp' + k - 1]]
        BY <1>1, <3>1 DEF Slots
      <4> QED BY <1>5, <3>2, <4>1
    <3>4. ActivationAt(d)' = [fn |-> fn', at |-> ip', below |-> bp', slots |-> handed]
      BY <3>1, <3>3 DEF ActivationAt
    <3> QED BY <1>1, <1>6, <3>2, <3>4 DEF Abstract!Activation
  <2>2. Depth + 1 \in 1 .. Depth + 1
    BY <1>8
  <2> QED BY <2>1, <2>2
<1>12. B = A \o <<upper, top>>
  <2> HIDE DEF upper, top
  <2> DEFINE T == {A[i] : i \in 1 .. Depth - 1} \cup {upper, top}
  <2>1. A \in [1 .. Depth - 1 -> T] /\ Depth - 1 \in Nat
    BY <1>8
  <2>2. A \in Seq(T) /\ <<upper, top>> \in Seq(T)
    <3>1. upper \in T /\ top \in T
      OBVIOUS
    <3> HIDE DEF T, A
    <3> QED BY <2>1, <3>1, SeqDef
  <2>3. Len(A) = Depth - 1
    <3> HIDE DEF T, A
    <3> QED BY <2>1, <2>2
  <2> DEFINE C == A \o <<upper, top>>
  <2>4. /\ Len(C) = Depth + 1 /\ C \in Seq(T)
        /\ \A i \in 1 .. Depth - 1 : C[i] = A[i]
        /\ C[Depth] = upper /\ C[Depth + 1] = top
    <3> HIDE DEF T, A
    <3> QED BY <1>8, <2>2, <2>3
  <2>5. C = [i \in 1 .. Depth + 1 |-> C[i]]
    <3> HIDE DEF T, C
    <3> QED BY <1>8, <2>4
  <2>6. \A i \in 1 .. Depth + 1 : B[i] = C[i]
    <3>1. \A i \in 1 .. Depth + 1 :
            i \in 1 .. Depth - 1 \/ i = Depth \/ i = Depth + 1
      BY <1>8
    <3> HIDE DEF B, C, A
    <3> QED BY <1>9, <1>10, <1>11, <2>4, <3>1
  <2>7. B = C
    <3>1. B = [i \in 1 .. Depth + 1 |-> B[i]]
      OBVIOUS
    <3> HIDE DEF B, C
    <3> QED BY <2>5, <2>6, <3>1
  <2> QED BY <2>7
<1> QED
  <2>1. n \in 0 .. Len(slots) - 1
    BY <1>1, <1>2
  <2>2. /\ Abstract!Running.fn = fn /\ Abstract!Running.at = ip
        /\ Abstract!Running.below = bp /\ ActivationsOfRun # <<>>
    BY Mapped
  <2>3. /\ handed = SubSeq(slots, m + 1, Len(slots))
        /\ Abstract!IS_FUNCTION(handed[1])
        /\ Abstract!Payload(handed[1]) = Payload(handed[1])
    <3>1. handed = SubSeq(slots, m + 1, Len(slots))
      BY <1>2
    <3> HIDE DEF handed
    <3> QED BY <1>6, <3>1 DEF IS_FUNCTION, Abstract!IS_FUNCTION, TypeOf,
               Abstract!TypeOf, Payload, Abstract!Payload
  <2>4. ActivationsOfRun' = A \o <<upper, top>>
    BY <1>7, <1>12
  <2> SUFFICES \E i \in 0 .. Len(slots) - 1 :
                 LET j == Len(slots) - i - 1
                     s == SubSeq(slots, 1, j)
                     t == SubSeq(slots, j + 1, Len(slots))
                 IN /\ Abstract!IS_FUNCTION(t[1])
                    /\ ActivationsOfRun' =
                         A \o <<Abstract!Activation(fn, ip + 2, bp, s),
                                Abstract!Activation(Abstract!Payload(t[1]), 0,
                                                    bp + j, t)>>
    BY <2>2 DEF slots, Abstract!Invoke
  <2> WITNESS n \in 0 .. Len(slots) - 1
  <2> QED BY <2>3, <2>4

\* A return puts the one slot of the callee in the place of what was handed to
\* it.
LEMMA ReturnMaps ==
  ASSUME AInv, status = "running", Return
  PROVE  Abstract!Return
<1> DEFINE d == Depth - 1
           A == Abstract!Callers
           B == [i \in 1 .. Depth - 1 |-> ActivationAt(i)']
           one == Abstract!Running.slots
<1>1. /\ sp = bp + 1 /\ Depth > 1 /\ Depth \in Nat /\ Depth' = Depth - 1
      /\ sp' = sp /\ stack' = stack /\ status' = "running"
      /\ ip' = callStack[Depth - 1].ra
      /\ bp' = callStack[Depth - 1].bp
      /\ fn' = callStack[Depth - 1].fn
      /\ \A i \in 1 .. Depth - 2 : callStack'[i] = callStack[i]
  BY Returns, Frames
<1>2. bp \in Nat /\ sp \in Nat
  BY CurrentPoint DEF AInv
<1>3. A = [i \in 1 .. Depth - 1 |-> ActivationAt(i)] /\ Len(A) = d
  BY <1>1, Mapped
<1>4. ActivationsOfRun' = B
  BY <1>1 DEF ActivationsOfRun
<1>5. \A i \in 1 .. Depth - 2 : B[i] = A[i]
  <2> SUFFICES ASSUME NEW i \in 1 .. Depth - 2
               PROVE  ActivationAt(i)' = ActivationAt(i)
    BY <1>1, <1>3
  <2>1. i \in 1 .. Depth - 1 /\ i # Depth'
    BY <1>1
  <2> QED BY <1>1, <2>1, ReturnBases, Waiting
<1>6. Len(one) = 1 /\ one = [k \in 1 .. 1 |-> stack[bp + k - 1]]
  <2>1. sp - bp = 1
    BY <1>1, <1>2
  <2> QED BY <2>1, Mapped
<1>7. B[d] = [A[d] EXCEPT !.slots = @ \o one]
  <2>1. d \in 1 .. Depth - 1 /\ d \in 1 .. Depth /\ d # Depth /\ d + 1 = Depth
    BY <1>1
  <2> SUFFICES ASSUME NEW e, e = d
               PROVE  ActivationAt(e)' = [ActivationAt(e) EXCEPT !.slots = @ \o one]
    BY <1>3, <2>1
  <2>2. /\ Base(e) \in Nat /\ Base(e) <= bp /\ End(e) = bp
        /\ Base(e)' = Base(e) /\ End(e)' = sp /\ e = Depth'
    BY <1>1, <2>1, Frames, ReturnBases
  <2> DEFINE p == bp - Base(e)
             f == [k \in 1 .. p + 1 |-> stack[Base(e) + k - 1]]
  <2>3. p \in Nat /\ sp - Base(e) = p + 1
    BY <1>1, <1>2, <2>2
  <2>4. Slots(e)' = f
    BY <1>1, <2>2, <2>3 DEF Slots
  <2>5. Slots(e) = [k \in 1 .. p |-> f[k]]
    BY <2>2, <2>3 DEF Slots
  <2>6. one = [k \in 1 .. 1 |-> f[p + k]]
    BY <1>2, <1>6, <2>2, <2>3
  <2>7. Slots(e) \o one = f
    <3>1. f = [k \in 1 .. p + 1 |-> f[k]]
      OBVIOUS
    <3> HIDE DEF f, p
    <3>2. [k \in 1 .. p |-> f[k]] \o [k \in 1 .. 1 |-> f[p + k]] = f
      <4>1. 1 \in Nat
        OBVIOUS
      <4> QED BY <2>3, <3>1, <4>1, Joined
    <3> HIDE DEF one
    <3> QED BY <2>5, <2>6, <3>2
  <2>8. ActivationAt(e) = [fn |-> callStack[d].fn, at |-> callStack[d].ra,
                           below |-> Base(e), slots |-> Slots(e)]
    BY <2>1 DEF ActivationAt
  <2>9. ActivationAt(e)' = [fn |-> callStack[d].fn, at |-> callStack[d].ra,
                            below |-> Base(e), slots |-> Slots(e) \o one]
    BY <1>1, <2>2, <2>4, <2>7 DEF ActivationAt
  <2>10. ASSUME NEW a, NEW b, NEW c, NEW t, NEW u, NEW r,
                r = [fn |-> a, at |-> b, below |-> c, slots |-> t]
         PROVE  [r EXCEPT !.slots = u]
                  = [fn |-> a, at |-> b, below |-> c, slots |-> u]
    BY <2>10
  <2> HIDE DEF one, d
  <2>11. ActivationAt(e).slots = Slots(e)
    BY <2>8
  <2>12. ASSUME NEW u, u = ActivationAt(e).slots \o one
         PROVE  ActivationAt(e)' = [ActivationAt(e) EXCEPT !.slots = u]
    <3>1. u = Slots(e) \o one
      BY <2>11, <2>12
    <3>2. [ActivationAt(e) EXCEPT !.slots = u]
            = [fn |-> callStack[d].fn, at |-> callStack[d].ra,
               below |-> Base(e), slots |-> u]
      BY <2>8, <2>10
    <3> QED BY <2>9, <3>1, <3>2
  <2> QED BY <2>12
<1>8. B = [A EXCEPT ![Len(A)].slots = @ \o one]
  <2>1. \A i \in 1 .. Depth - 1 : i = d \/ i \in 1 .. Depth - 2
    BY <1>1
  <2>2. [A EXCEPT ![d].slots = @ \o one]
          = [i \in 1 .. Depth - 1 |->
               IF i = d THEN [A[d] EXCEPT !.slots = @ \o one] ELSE A[i]]
    BY <1>3
  <2>3. B = [i \in 1 .. Depth - 1 |-> B[i]]
    OBVIOUS
  <2> HIDE DEF B, A, one, d
  <2>4. \A i \in 1 .. Depth - 1 :
          B[i] = IF i = d THEN [A[d] EXCEPT !.slots = @ \o one] ELSE A[i]
    BY <1>5, <1>7, <2>1
  <2>5. B = [A EXCEPT ![d].slots = @ \o one]
    BY <2>2, <2>3, <2>4
  <2> QED BY <1>3, <2>5
<1> QED
  <2>1. Len(ActivationsOfRun) > 1
    BY <1>1, Mapped
  <2> QED BY <1>4, <1>6, <1>8, <2>1 DEF Abstract!Return

-----------------------------------------------------------------------------
(***************************************************************************)
(* The theorems.                                                           *)
(***************************************************************************)

\* The first activation is main's, with nothing in its slots.
LEMMA FreshMaps == FreshRun => AInv /\ Abstract!Init
<1> SUFFICES ASSUME FreshRun
             PROVE  AInv /\ Abstract!Init
  OBVIOUS
<1>1. /\ ip = 0 /\ sp = 0 /\ bp = 0 /\ fn = 1 /\ callStack = <<>>
      /\ status = "running"
  BY DEF FreshRun, FreshMachine, Main
<1>2. Depth = 1
  BY <1>1 DEF Depth
<1>3. AInv
  BY <1>1, <1>2, FreshIInv DEF AInv, BasesAscend, MainRunsOnce, MainAtZero, Base
<1>4. ActivationAt(1) = Abstract!Activation(1, 0, 0, <<>>)
  <2>1. Slots(1) = <<>>
    BY <1>1, <1>2 DEF Slots, Base, End
  <2> QED BY <1>1, <1>2, <2>1 DEF ActivationAt, Base, Abstract!Activation
<1>5. ActivationsOfRun = <<ActivationAt(1)>>
  BY <1>1, <1>2 DEF ActivationsOfRun
<1> QED BY <1>3, <1>4, <1>5 DEF Abstract!Init

\* Each pass of the loop keeps the invariant.
LEMMA StepAInv == AInv /\ TypesFit /\ [Next]_vars => AInv'
BY StepIInv, StepBases, StepMain, StepZero DEF AInv

\* Each pass of the loop is a step of the activations, or none.
LEMMA StepMaps ==
  AInv /\ TypesFit /\ [Next]_vars => [Abstract!Next]_ActivationsOfRun
<1> SUFFICES ASSUME AInv, TypesFit, [Next]_vars
             PROVE  Abstract!Next \/ UNCHANGED ActivationsOfRun
  OBVIOUS
<1>1. CASE UNCHANGED vars
  BY <1>1 DEF vars, ActivationsOfRun, ActivationAt, Slots, End, Base, Depth
<1>2. CASE Eval
  <2>1. status = "running"
    BY <1>2, StepKinds DEF AInv
  <2>2. CASE KeepFrame
    BY <1>2, <2>1, <2>2, StepKeepsCallerSlots, WorkMaps DEF AInv, Abstract!Next
  <2> QED
    BY <1>2, <2>1, <2>2, StepKinds, OverflowMaps, HaltMaps, InvokeMaps, ReturnMaps
       DEF AInv, Abstract!Next
<1> QED BY <1>1, <1>2 DEF Next, Exited

\* The machine on verified code implements Activations as long as operands
\* have the types their instructions are for: calls nest like activations
\* with slots of their own, whatever the code and however small the stack.
THEOREM Refinement == Spec /\ []TypesFit => RunsAsActivations
<1>1. Spec /\ []TypesFit => []AInv
  BY InitIsFresh, FreshMaps, StepAInv, PTL DEF Spec
<1> QED
  BY <1>1, InitIsFresh, FreshMaps, StepMaps, PTL DEF Spec, RunsAsActivations, Abstract!Spec
=============================================================================
