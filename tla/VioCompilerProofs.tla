------------------------- MODULE VioCompilerProofs -------------------------
(***************************************************************************)
(* Proofs about the compiler of VioCompiler: for every program, however    *)
(* deep its expressions are nested.                                        *)
(***************************************************************************)
EXTENDS VioCompilerSafety, VioVectorProofs

-----------------------------------------------------------------------------
(***************************************************************************)
(* Bytes.                                                                  *)
(***************************************************************************)

\* What emit() and patchJumpAddress() write are bytes, whatever the number.
LEMMA BytesOfNumbers ==
  /\ \A n \in Int : Byte(n) \in Bytes
  /\ \A n \in Nat : HighByte(n) \in Bytes /\ LowByte(n) \in Bytes
BY DEF Byte, HighByte, LowByte, Bytes, BYTE, SHORT

\* Opcodes are bytes.
LEMMA OpcodesAreBytes ==
  {OP_HALT, OP_CONST, OP_ADD, OP_SUB, OP_MUL, OP_DIV, OP_COMPARE, OP_JMP_IF_FALSE,
   OP_JMP, OP_GET_GLOBAL, OP_SET_GLOBAL, OP_POP, OP_GET_LOCAL, OP_SET_LOCAL,
   OP_SCOPE_EXIT, OP_CALL, OP_RETURN} \subseteq Bytes
BY DEF Bytes, BYTE, OP_HALT, OP_CONST, OP_ADD, OP_SUB, OP_MUL, OP_DIV, OP_COMPARE,
   OP_JMP_IF_FALSE, OP_JMP, OP_GET_GLOBAL, OP_SET_GLOBAL, OP_POP, OP_GET_LOCAL,
   OP_SET_LOCAL, OP_SCOPE_EXIT, OP_CALL, OP_RETURN

\* An offset in the code is a natural number.
LEMMA OffsetIsNatural ==
  ASSUME NEW code \in Seq(Bytes)
  PROVE  getOffset(code) \in Nat
<1>1. Len(code) \in Nat
  OBVIOUS
<1> QED BY <1>1 DEF getOffset, SHORT

\* Patching an address leaves bytes, and the length of the code.
LEMMA Patching ==
  ASSUME NEW code \in Seq(Bytes), NEW offset, NEW value \in Nat
  PROVE  /\ patchJumpAddress(code, offset, value) \in Seq(Bytes)
         /\ Len(patchJumpAddress(code, offset, value)) = Len(code)
<1> DEFINE new == patchJumpAddress(code, offset, value)
<1>1. code \in [1 .. Len(code) -> Bytes] /\ Len(code) \in Nat
  BY LenProperties
<1>2. HighByte(value) \in Bytes /\ LowByte(value) \in Bytes
  BY BytesOfNumbers
<1>3. new \in [1 .. Len(code) -> Bytes]
  BY <1>1, <1>2 DEF patchJumpAddress
<1> HIDE DEF new
<1>4. new \in Seq(Bytes)
  BY <1>1, <1>3, SeqDef
<1>5. Len(new) = Len(code)
  BY <1>1, <1>3, <1>4, LenProperties
<1> QED BY <1>4, <1>5 DEF new

-----------------------------------------------------------------------------
(***************************************************************************)
(* Code objects.                                                           *)
(***************************************************************************)

\* A code object that is main's if f is 1, and a function's otherwise.
Held(f, c) ==
  /\ IsCodeObject(c)
  /\ IF f = 1 THEN LocalsScoped(c) ELSE ParametersFirst(c)

\* gen() has gone on with c, which is now d: what has been given an index is
\* still there.
Grown(c, d) ==
  /\ d.name = c.name
  /\ d.arity = c.arity
  /\ IsExtension(d.constants, c.constants)

\* And it is still in the same scope.
Continues(f, c, d) == Held(f, d) /\ Grown(c, d) /\ d.scopeLevel = c.scopeLevel

\* A vector is an extension of itself, and so it is with one element more.
LEMMA Extension ==
  ASSUME NEW s, IsVector(s), NEW v
  PROVE  IsExtension(s, s) /\ IsExtension(Append(s, v), s)
BY VectorDomain, VectorAppend DEF IsExtension

\* New code, and nothing else.
LEMMA Recoded ==
  ASSUME NEW f, NEW c, Held(f, c), NEW code \in Seq(Bytes),
         NEW d, d = [c EXCEPT !.code = code]
  PROVE  Continues(f, c, d) /\ d.constants = c.constants
<1>1. c = [name |-> c.name, arity |-> c.arity, constants |-> c.constants,
           code |-> c.code, scopeLevel |-> c.scopeLevel, locals |-> c.locals]
  BY DEF Held, IsCodeObject
<1>2. d = [name |-> c.name, arity |-> c.arity, constants |-> c.constants,
           code |-> code, scopeLevel |-> c.scopeLevel, locals |-> c.locals]
  BY <1>1
<1>3. /\ d.name = c.name /\ d.arity = c.arity /\ d.constants = c.constants
      /\ d.code = code /\ d.scopeLevel = c.scopeLevel /\ d.locals = c.locals
  BY <1>2
<1>4. Held(f, d)
  BY <1>2, <1>3 DEF Held, IsCodeObject, LocalsNested, LocalsScoped, ParametersFirst
<1>5. Grown(c, d)
  BY <1>3, Extension DEF Grown, Held, IsCodeObject
<1> QED BY <1>3, <1>4, <1>5 DEF Continues

\* emit().
LEMMA Emission ==
  ASSUME NEW f, NEW c, Held(f, c), NEW bytes \in Seq(Bytes)
  PROVE  /\ Continues(f, c, Emitted(c, bytes))
         /\ Emitted(c, bytes).constants = c.constants
<1>1. PICK code : code = c.code \o bytes
  OBVIOUS
<1>2. code \in Seq(Bytes)
  BY <1>1 DEF Held, IsCodeObject
<1>3. Emitted(c, bytes) = [c EXCEPT !.code = code]
  BY <1>1 DEF Emitted
<1> QED BY <1>2, <1>3, Recoded

\* A constant at the end of the pool.
LEMMA Pooled ==
  ASSUME NEW f, NEW c, Held(f, c), NEW v
  PROVE  /\ Continues(f, c, addConst(c, v))
         /\ addConst(c, v).constants = Append(c.constants, v)
<1> DEFINE d == addConst(c, v)
<1>1. c = [name |-> c.name, arity |-> c.arity, constants |-> c.constants,
           code |-> c.code, scopeLevel |-> c.scopeLevel, locals |-> c.locals]
  BY DEF Held, IsCodeObject
<1>2. d = [name |-> c.name, arity |-> c.arity, constants |-> Append(c.constants, v),
           code |-> c.code, scopeLevel |-> c.scopeLevel, locals |-> c.locals]
  BY <1>1 DEF addConst
<1> HIDE DEF d
<1>3. /\ d.name = c.name /\ d.arity = c.arity
      /\ d.constants = Append(c.constants, v)
      /\ d.code = c.code /\ d.scopeLevel = c.scopeLevel /\ d.locals = c.locals
  BY <1>2
<1>4. IsVector(c.constants)
  BY DEF Held, IsCodeObject
<1>5. IsVector(d.constants)
  BY <1>3, <1>4, VectorAppend
<1>6. Held(f, d)
  BY <1>2, <1>3, <1>5 DEF Held, IsCodeObject, LocalsNested, LocalsScoped,
     ParametersFirst
<1>7. Grown(c, d)
  BY <1>3, <1>4, Extension DEF Grown
<1> QED BY <1>3, <1>6, <1>7 DEF Continues, d

\* ALLOC_CONST finds the constant where it was, or adds it, and emits its index.
LEMMA Literal ==
  ASSUME NEW f, NEW c, Held(f, c), NEW v
  PROVE  Continues(f, c, WithLiteral(c, v))
<1> DEFINE pool == Interned(c.constants, v)
           bytes == <<OP_CONST, Byte(ConstIdx(pool, v) - 1)>>
           d == WithLiteral(c, v)
<1>1. IsVector(c.constants) /\ c.code \in Seq(Bytes)
  BY DEF Held, IsCodeObject
<1>2. IsVector(pool) /\ IsExtension(pool, c.constants) /\ \E i \in DOMAIN pool : pool[i] = v
  <2>1. CASE \E i \in DOMAIN c.constants : c.constants[i] = v
    BY <1>1, <2>1, Extension DEF Interned
  <2>2. CASE ~ \E i \in DOMAIN c.constants : c.constants[i] = v
    <3>1. pool = Append(c.constants, v)
      BY <2>2 DEF Interned
    <3> HIDE DEF pool
    <3>2. /\ IsVector(pool) /\ Len(pool) = Len(c.constants) + 1
          /\ pool[Len(c.constants) + 1] = v
      BY <1>1, <3>1, VectorAppend
    <3>3. Len(pool) \in DOMAIN pool
      BY <1>1, <3>2, VectorDomain
    <3> QED BY <1>1, <3>1, <3>2, <3>3, Extension
  <2> QED BY <2>1, <2>2
<1> HIDE DEF pool
<1>3. ConstIdx(pool, v) \in DOMAIN pool
  <2> DEFINE S == {i \in DOMAIN pool : pool[i] = v}
  <2>1. S \subseteq Nat /\ S # {}
    BY <1>2, VectorDomain
  <2>2. PICK i \in S : \A j \in S : i <= j
    BY <2>1, Least
  <2> QED BY <2>2 DEF ConstIdx
<1>4. bytes \in Seq(Bytes)
  <2>1. ConstIdx(pool, v) - 1 \in Int
    BY <1>2, <1>3, VectorDomain
  <2> QED BY <2>1, BytesOfNumbers, OpcodesAreBytes
<1> HIDE DEF bytes
<1>5. c = [name |-> c.name, arity |-> c.arity, constants |-> c.constants,
           code |-> c.code, scopeLevel |-> c.scopeLevel, locals |-> c.locals]
  BY DEF Held, IsCodeObject
<1>6. d = [name |-> c.name, arity |-> c.arity, constants |-> pool,
           code |-> c.code \o bytes, scopeLevel |-> c.scopeLevel, locals |-> c.locals]
  <2>1. d = [c EXCEPT !.constants = pool, !.code = c.code \o bytes]
    BY DEF WithLiteral, pool, bytes
  <2> HIDE DEF d
  <2> QED BY <1>5, <2>1
<1> HIDE DEF d
<1>7. /\ d.name = c.name /\ d.arity = c.arity /\ d.constants = pool
      /\ d.code = c.code \o bytes /\ d.scopeLevel = c.scopeLevel
      /\ d.locals = c.locals
  BY <1>6
<1>8. d.code \in Seq(Bytes)
  BY <1>1, <1>4, <1>7
<1>9. Held(f, d)
  BY <1>2, <1>6, <1>7, <1>8 DEF Held, IsCodeObject, LocalsNested, LocalsScoped,
     ParametersFirst
<1>10. Grown(c, d)
  BY <1>2, <1>7 DEF Grown
<1> QED BY <1>7, <1>9, <1>10 DEF Continues, d

\* addLocal(): the new variable is in the innermost scope.
LEMMA LocalAdded ==
  ASSUME NEW f, NEW c, Held(f, c), NEW name, f = 1 => c.scopeLevel # 0
  PROVE  Continues(f, c, addLocal(c, name))
<1> DEFINE new == LocalVar(name, c.scopeLevel)
           d == addLocal(c, name)
           n == Len(c.locals)
<1>1. c = [name |-> c.name, arity |-> c.arity, constants |-> c.constants,
           code |-> c.code, scopeLevel |-> c.scopeLevel, locals |-> c.locals]
      /\ LocalsNested(c) /\ c.arity \in Nat /\ c.scopeLevel \in Nat
  BY DEF Held, IsCodeObject
<1>2. d = [name |-> c.name, arity |-> c.arity, constants |-> c.constants,
           code |-> c.code, scopeLevel |-> c.scopeLevel,
           locals |-> Append(c.locals, new)]
  <2>1. ASSUME NEW v
        PROVE  [c EXCEPT !.locals = v]
                 = [name |-> c.name, arity |-> c.arity, constants |-> c.constants,
                    code |-> c.code, scopeLevel |-> c.scopeLevel, locals |-> v]
    BY <1>1
  <2>2. d = [c EXCEPT !.locals = Append(c.locals, new)]
    BY Zenon DEF addLocal
  <2> HIDE DEF d, new
  <2> QED BY <2>1, <2>2, Zenon
<1>3. new.scopeLevel = c.scopeLevel
  BY DEF LocalVar
<1> HIDE DEF d, new
<1>4. /\ d.name = c.name /\ d.arity = c.arity /\ d.constants = c.constants
      /\ d.code = c.code /\ d.scopeLevel = c.scopeLevel
      /\ d.locals = Append(c.locals, new)
  BY <1>2
<1>5. /\ IsVector(c.locals) /\ n \in Nat /\ DOMAIN c.locals = 1 .. n
      /\ IsVector(d.locals) /\ Len(d.locals) = n + 1
      /\ \A i \in 1 .. n : d.locals[i] = c.locals[i]
      /\ d.locals[n + 1] = new
  BY <1>1, <1>4, VectorDomain, VectorAppend DEF LocalsNested
<1>6. DOMAIN d.locals = 1 .. n + 1
  BY <1>5, VectorDomain
<1> HIDE DEF n
<1>7. \A i \in 1 .. n : c.locals[i].scopeLevel \in 0 .. c.scopeLevel
  BY <1>1, <1>5 DEF LocalsNested
<1>8. LocalsNested(d)
  <2>1. \A i \in DOMAIN d.locals : d.locals[i].scopeLevel \in 0 .. d.scopeLevel
    <3> SUFFICES ASSUME NEW i \in 1 .. n + 1
                 PROVE  d.locals[i].scopeLevel \in 0 .. c.scopeLevel
      BY <1>4, <1>6
    <3>1. CASE i = n + 1
      BY <1>1, <1>3, <1>5, <3>1
    <3>2. CASE i \in 1 .. n
      BY <1>5, <1>7, <3>2
    <3> QED BY <1>5, <3>1, <3>2
  <2>2. ASSUME NEW i \in DOMAIN d.locals, NEW j \in DOMAIN d.locals, i <= j
        PROVE  d.locals[i].scopeLevel <= d.locals[j].scopeLevel
    <3>1. CASE j = n + 1
      <4>1. d.locals[j].scopeLevel = d.scopeLevel
        BY <1>3, <1>4, <1>5, <3>1
      <4>2. d.locals[i].scopeLevel \in 0 .. d.scopeLevel
        BY <2>1
      <4> QED BY <1>1, <1>4, <4>1, <4>2
    <3>2. CASE j \in 1 .. n
      <4>1. i \in 1 .. n
        BY <1>5, <1>6, <2>2, <3>2
      <4>2. d.locals[i] = c.locals[i] /\ d.locals[j] = c.locals[j]
        BY <1>5, <3>2, <4>1
      <4>3. c.locals[i].scopeLevel <= c.locals[j].scopeLevel
        BY <1>1, <1>5, <2>2, <3>2, <4>1 DEF LocalsNested
      <4> QED BY <4>2, <4>3
    <3> QED BY <1>5, <1>6, <3>1, <3>2
  <2> QED BY <1>5, <2>1, <2>2 DEF LocalsNested
<1>9. IsCodeObject(d)
  BY <1>2, <1>4, <1>8 DEF Held, IsCodeObject
<1>10. ASSUME f = 1
       PROVE  LocalsScoped(d)
  <2>1. LocalsScoped(c)
    BY <1>10 DEF Held
  <2> SUFFICES ASSUME NEW i \in 1 .. n + 1
               PROVE  d.locals[i].scopeLevel # 0
    BY <1>6 DEF LocalsScoped
  <2>2. CASE i = n + 1
    BY <1>3, <1>5, <1>10, <2>2
  <2>3. CASE i \in 1 .. n
    BY <1>5, <2>1, <2>3 DEF LocalsScoped
  <2> QED BY <1>5, <2>2, <2>3
<1>11. ASSUME f # 1
       PROVE  ParametersFirst(d)
  <2>1. /\ n >= c.arity + 1 /\ c.locals[1].name = c.name
        /\ \A i \in 1 .. c.arity + 1 : c.locals[i].scopeLevel = 0
    BY <1>11 DEF Held, ParametersFirst, n
  <2>2. \A i \in 1 .. c.arity + 1 : i \in 1 .. n
    BY <1>1, <1>5, <2>1
  <2>3. 1 \in 1 .. n
    BY <1>1, <1>5, <2>1
  <2>4. n + 1 >= c.arity + 1
    BY <1>1, <1>5, <2>1
  <2> QED BY <1>4, <1>5, <2>1, <2>2, <2>3, <2>4 DEF ParametersFirst
<1>12. Grown(c, d)
  BY <1>4, Extension DEF Grown, Held, IsCodeObject
<1> QED BY <1>4, <1>9, <1>10, <1>11, <1>12 DEF Held, Continues, d

\* Going on twice is going on.
LEMMA Onwards ==
  ASSUME NEW f, NEW b, NEW c, NEW d, Held(f, b), Continues(f, b, c), Continues(f, c, d)
  PROVE  Continues(f, b, d)
<1>1. IsVector(b.constants) /\ IsVector(c.constants) /\ IsVector(d.constants)
  BY DEF Continues, Held, IsCodeObject
<1>2. IsExtension(d.constants, b.constants)
  BY <1>1, VectorDomain DEF Continues, Grown, IsExtension
<1> QED BY <1>2 DEF Continues, Grown

\* The store to a declared variable.
LEMMA Declaration ==
  ASSUME NEW f, NEW c, Held(f, c), NEW name, IsVector(globals),
         f = 1 => c.scopeLevel # 0
  PROVE  Continues(f, c, Stored(c, name))
<1> DEFINE declared == Declared(c, name)
           bytes == IF isGlobalScope(c)
                    THEN <<OP_SET_GLOBAL,
                           Byte(getGlobalIndex(DefinedIn(c, name), name))>>
                    ELSE <<OP_SET_LOCAL, Byte(getLocalIndex(declared, name))>>
<1>1. Continues(f, c, declared)
  <2>1. Continues(f, c, c)
    BY Extension DEF Continues, Grown, Held, IsCodeObject
  <2> QED BY <2>1, LocalAdded DEF Declared
<1>2. IsVector(declared.locals)
  BY <1>1 DEF Continues, Held, IsCodeObject, LocalsNested
<1>3. IsVector(DefinedIn(c, name))
  BY VectorAppend DEF DefinedIn, define
<1> HIDE DEF declared
<1>4. bytes \in Seq(Bytes)
  <2>1. getLocalIndex(declared, name) \in Int
    BY <1>2, LastIndexFinds DEF getLocalIndex
  <2>2. getGlobalIndex(DefinedIn(c, name), name) \in Int
    BY <1>3, LastIndexFinds DEF getGlobalIndex
  <2>3. /\ Byte(getLocalIndex(declared, name)) \in Bytes
        /\ Byte(getGlobalIndex(DefinedIn(c, name), name)) \in Bytes
    BY <2>1, <2>2, BytesOfNumbers
  <2> QED BY <2>3, OpcodesAreBytes
<1>5. Stored(c, name) = Emitted(declared, bytes)
  BY DEF Stored, declared
<1> HIDE DEF bytes
<1>6. Held(f, declared)
  BY <1>1 DEF Continues
<1>7. Continues(f, declared, Emitted(declared, bytes))
  BY <1>4, <1>6, Emission
<1> QED BY <1>1, <1>5, <1>7, Onwards

\* A table of globals in which no two have the same name, after a name that
\* was not found in it has been added.
LEMMA Registered ==
  ASSUME NEW table, IsVector(table), NEW name, ~ exists(table, name), NEW value,
         \A i, j \in DOMAIN table : table[i].name = table[j].name => i = j
  PROVE  LET longer == Append(table, GlobalVar(name, value))
         IN /\ IsVector(longer)
            /\ IsExtension(longer, table)
            /\ \A i, j \in DOMAIN longer :
                 longer[i].name = longer[j].name => i = j
<1> DEFINE new == GlobalVar(name, value)
           longer == Append(table, new)
           n == Len(table)
<1>1. new.name = name
  BY DEF GlobalVar
<1> HIDE DEF new
<1>2. n \in Nat /\ DOMAIN table = 1 .. n
  BY VectorDomain
<1>3. /\ IsVector(longer) /\ IsExtension(longer, table)
      /\ DOMAIN longer = 1 .. n + 1
      /\ longer[n + 1] = new
      /\ \A i \in 1 .. n : longer[i] = table[i]
  BY <1>2, VectorAppend, VectorDomain, Extension
<1> HIDE DEF longer
<1>4. \A i \in 1 .. n : table[i].name # name
  BY <1>2, LastIndexFinds DEF exists, getGlobalIndex, Named
<1> HIDE DEF n
<1>5. ASSUME NEW i \in 1 .. n + 1, NEW j \in 1 .. n + 1,
             longer[i].name = longer[j].name
      PROVE  i = j
  <2>1. CASE i \in 1 .. n /\ j \in 1 .. n
    BY <1>2, <1>3, <1>5, <2>1
  <2>2. CASE i \in 1 .. n /\ j = n + 1
    BY <1>1, <1>3, <1>4, <1>5, <2>2
  <2>3. CASE i = n + 1 /\ j \in 1 .. n
    BY <1>1, <1>3, <1>4, <1>5, <2>3
  <2> QED BY <1>2, <2>1, <2>2, <2>3
<1> QED BY <1>3, <1>5 DEF longer, new

\* define() and its kind: a table of globals that is still one without doubles.
LEMMA Definition ==
  ASSUME NEW name, IsVector(globals), NamesUnique
  PROVE  LET table == define(globals, name)
         IN /\ IsVector(table)
            /\ IsExtension(table, globals)
            /\ \A i, j \in DOMAIN table : table[i].name = table[j].name => i = j
<1>1. CASE exists(globals, name)
  BY <1>1, Extension DEF define, NamesUnique
<1>2. CASE ~ exists(globals, name)
  <2>1. define(globals, name) = Append(globals, GlobalVar(name, NUMBER(0)))
    BY <1>2 DEF define
  <2> QED BY <1>2, <2>1, Registered DEF NamesUnique
<1> QED BY <1>1, <1>2

-----------------------------------------------------------------------------
(***************************************************************************)
(* Scopes.                                                                 *)
(***************************************************************************)

\* scopeEnter().
LEMMA Entering ==
  ASSUME NEW f, NEW c, Held(f, c), NEW d, d = [c EXCEPT !.scopeLevel = @ + 1]
  PROVE  Held(f, d) /\ Grown(c, d) /\ d.scopeLevel = c.scopeLevel + 1
<1>1. c = [name |-> c.name, arity |-> c.arity, constants |-> c.constants,
           code |-> c.code, scopeLevel |-> c.scopeLevel, locals |-> c.locals]
      /\ c.scopeLevel \in Nat /\ LocalsNested(c)
  BY DEF Held, IsCodeObject
<1>2. d = [name |-> c.name, arity |-> c.arity, constants |-> c.constants,
           code |-> c.code, scopeLevel |-> c.scopeLevel + 1, locals |-> c.locals]
  BY <1>1
<1>3. /\ d.name = c.name /\ d.arity = c.arity /\ d.constants = c.constants
      /\ d.code = c.code /\ d.scopeLevel = c.scopeLevel + 1 /\ d.locals = c.locals
  BY <1>2
<1>4. LocalsNested(d)
  <2>1. \A i \in DOMAIN d.locals : d.locals[i].scopeLevel \in 0 .. d.scopeLevel
    BY <1>1, <1>3 DEF LocalsNested
  <2> QED BY <1>1, <1>3, <2>1 DEF LocalsNested
<1>5. Held(f, d)
  BY <1>1, <1>2, <1>3, <1>4 DEF Held, IsCodeObject, LocalsScoped, ParametersFirst
<1>6. Grown(c, d)
  BY <1>3, Extension DEF Grown, Held, IsCodeObject
<1> QED BY <1>3, <1>5, <1>6

\* getVarsCountOnScopeExit(): what is left are locals of the outer scopes, the
\* parameters of a function among them.
LEMMA VarsLeft ==
  ASSUME NEW c, IsCodeObject(c)
  PROVE  LET left == Len(c.locals) - VarsCount(c)
         IN /\ VarsCount(c) \in Nat
            /\ left \in 0 .. Len(c.locals)
            /\ \A i \in 1 .. left : c.locals[i].scopeLevel < c.scopeLevel
            /\ \A i \in 1 .. Len(c.locals) :
                 c.locals[i].scopeLevel # c.scopeLevel => i <= left
<1> DEFINE n == Len(c.locals)
           S == {i \in DOMAIN c.locals : c.locals[i].scopeLevel # c.scopeLevel}
<1>1. /\ n \in Nat /\ DOMAIN c.locals = 1 .. n
      /\ c.scopeLevel \in Nat
      /\ \A i \in 1 .. n : c.locals[i].scopeLevel \in 0 .. c.scopeLevel
      /\ \A i, j \in 1 .. n :
           i <= j => c.locals[i].scopeLevel <= c.locals[j].scopeLevel
  BY VectorDomain DEF IsCodeObject, LocalsNested
<1>2. CASE S = {}
  <2>1. VarsCount(c) = n
    BY <1>2 DEF VarsCount
  <2> QED BY <1>1, <1>2, <2>1
<1>3. CASE S # {}
  <2> DEFINE k == CHOOSE i \in S : \A j \in S : j <= i
  <2>1. VarsCount(c) = n - k
    BY <1>3 DEF VarsCount
  <2>2. \E i \in S : \A j \in S : j <= i
    BY <1>1, <1>3, Greatest
  <2>3. k \in S /\ \A j \in S : j <= k
    BY <2>2
  <2> HIDE DEF k
  <2>4. k \in 1 .. n /\ c.locals[k].scopeLevel < c.scopeLevel
    BY <1>1, <2>3
  <2>5. \A i \in 1 .. k : i \in 1 .. n
    BY <1>1, <2>4
  <2>6. ASSUME NEW i \in 1 .. k
        PROVE  c.locals[i].scopeLevel < c.scopeLevel
    <3>1. c.locals[i].scopeLevel <= c.locals[k].scopeLevel
      BY <1>1, <2>4, <2>5
    <3>2. c.locals[i].scopeLevel \in Nat /\ c.locals[k].scopeLevel \in Nat
      BY <1>1, <2>4, <2>5
    <3> QED BY <1>1, <2>4, <3>1, <3>2
  <2>7. n - (n - k) = k /\ n - k \in Nat
    BY <1>1, <2>4
  <2>8. \A i \in 1 .. n : c.locals[i].scopeLevel # c.scopeLevel => i <= k
    BY <1>1, <2>3
  <2> HIDE DEF n
  <2> QED BY <1>1, <2>1, <2>4, <2>6, <2>7, <2>8 DEF n
<1> QED BY <1>2, <1>3

\* scopeExit().
LEMMA Exiting ==
  ASSUME NEW f, NEW c, Held(f, c), c.scopeLevel # 0
  PROVE  LET d == ScopeExited(c)
         IN Held(f, d) /\ Grown(c, d) /\ d.scopeLevel = c.scopeLevel - 1
<1> DEFINE exitCode == IF VarsCount(c) > 0 \/ c.arity > 0
                       THEN <<OP_SCOPE_EXIT, Byte(DroppedOnExit(c))>> ELSE <<>>
           left == Len(c.locals) - VarsCount(c)
           d == ScopeExited(c)
<1>1. /\ c = [name |-> c.name, arity |-> c.arity, constants |-> c.constants,
              code |-> c.code, scopeLevel |-> c.scopeLevel, locals |-> c.locals]
      /\ c.scopeLevel \in Nat /\ c.arity \in Nat /\ c.code \in Seq(Bytes)
      /\ IsVector(c.locals) /\ IsVector(c.constants)
      /\ Len(c.locals) \in Nat /\ DOMAIN c.locals = 1 .. Len(c.locals)
      /\ \A i \in 1 .. Len(c.locals) : c.locals[i].scopeLevel \in Nat
      /\ \A i, j \in 1 .. Len(c.locals) :
           i <= j => c.locals[i].scopeLevel <= c.locals[j].scopeLevel
  BY VectorDomain DEF Held, IsCodeObject, LocalsNested
<1>2. /\ VarsCount(c) \in Nat
      /\ left \in 0 .. Len(c.locals)
      /\ \A i \in 1 .. left : c.locals[i].scopeLevel < c.scopeLevel
      /\ \A i \in 1 .. Len(c.locals) :
           c.locals[i].scopeLevel # c.scopeLevel => i <= left
  BY VarsLeft DEF Held
<1>3. exitCode \in Seq(Bytes)
  <2>1. DroppedOnExit(c) \in Int
    BY <1>1, <1>2 DEF DroppedOnExit
  <2>2. Byte(DroppedOnExit(c)) \in Bytes
    BY <2>1, BytesOfNumbers
  <2> QED BY <2>2, OpcodesAreBytes
<1>4. d = [c EXCEPT !.code = @ \o exitCode,
                    !.locals = SubSeq(@, 1, left),
                    !.scopeLevel = @ - 1]
  BY DEF ScopeExited
<1> HIDE DEF exitCode, left, d
<1>5. d = [name |-> c.name, arity |-> c.arity, constants |-> c.constants,
           code |-> c.code \o exitCode, scopeLevel |-> c.scopeLevel - 1,
           locals |-> SubSeq(c.locals, 1, left)]
  <2>1. ASSUME NEW r, NEW name, NEW arity, NEW constants, NEW code, NEW level,
               NEW locals, NEW u, NEW v, NEW w,
               r = [name |-> name, arity |-> arity, constants |-> constants,
                    code |-> code, scopeLevel |-> level, locals |-> locals]
        PROVE  [r EXCEPT !.code = u, !.locals = v, !.scopeLevel = w]
                 = [name |-> name, arity |-> arity, constants |-> constants,
                    code |-> u, scopeLevel |-> w, locals |-> v]
    <3> DEFINE p == [r EXCEPT !.code = u]
               q == [p EXCEPT !.locals = v]
    <3>1. p = [name |-> name, arity |-> arity, constants |-> constants,
               code |-> u, scopeLevel |-> level, locals |-> locals]
      BY <2>1
    <3> HIDE DEF p
    <3>2. q = [name |-> name, arity |-> arity, constants |-> constants,
               code |-> u, scopeLevel |-> level, locals |-> v]
      BY <3>1
    <3> HIDE DEF q
    <3>3. [q EXCEPT !.scopeLevel = w]
            = [name |-> name, arity |-> arity, constants |-> constants,
               code |-> u, scopeLevel |-> w, locals |-> v]
      BY <3>2
    <3> QED BY <3>3 DEF q, p
  <2>2. d = [c EXCEPT !.code = c.code \o exitCode,
                      !.locals = SubSeq(c.locals, 1, left),
                      !.scopeLevel = c.scopeLevel - 1]
    BY <1>4, Zenon
  <2>3. c = [name |-> c.name, arity |-> c.arity, constants |-> c.constants,
             code |-> c.code, scopeLevel |-> c.scopeLevel, locals |-> c.locals]
    BY <1>1, Zenon
  <2> QED BY <2>1, <2>2, <2>3, Zenon
<1>6. /\ d.name = c.name /\ d.arity = c.arity /\ d.constants = c.constants
      /\ d.code = c.code \o exitCode /\ d.scopeLevel = c.scopeLevel - 1
      /\ d.locals = SubSeq(c.locals, 1, left)
  BY <1>5
<1>7. d.code \in Seq(Bytes)
  BY <1>1, <1>3, <1>6
<1>8. /\ IsVector(d.locals) /\ Len(d.locals) = left /\ left \in Nat
      /\ DOMAIN d.locals = 1 .. left
      /\ \A i \in 1 .. left : i \in 1 .. Len(c.locals)
      /\ \A i \in 1 .. left : d.locals[i] = c.locals[i]
  <2>1. IsVector(c.locals) /\ left \in 0 .. Len(c.locals) /\ Len(c.locals) \in Nat
    BY <1>1, <1>2, Zenon
  <2>2. /\ IsVector(d.locals) /\ Len(d.locals) = left
        /\ \A i \in 1 .. left : d.locals[i] = c.locals[i]
    BY <1>6, <2>1, VectorPrefix, Zenon
  <2>3. DOMAIN d.locals = 1 .. left
    BY <2>2, VectorDomain, Zenon
  <2>4. left \in Nat /\ \A i \in 1 .. left : i \in 1 .. Len(c.locals)
    BY <2>1
  <2> QED BY <2>2, <2>3, <2>4, Zenon
<1>9. LocalsNested(d)
  <2>1. ASSUME NEW i \in 1 .. left
        PROVE  d.locals[i].scopeLevel \in 0 .. d.scopeLevel
    <3>1. /\ c.locals[i].scopeLevel < c.scopeLevel
          /\ c.locals[i].scopeLevel \in Nat
      BY <1>1, <1>2, <1>8
    <3>2. /\ c.scopeLevel \in Nat /\ d.scopeLevel = c.scopeLevel - 1
          /\ d.locals[i] = c.locals[i]
      BY <1>1, <1>6, <1>8
    <3> QED BY ONLY <3>1, <3>2
  <2> QED BY <1>1, <1>8, <2>1 DEF LocalsNested
<1>10. d.scopeLevel \in Nat
  BY <1>1, <1>6
<1>11. IsCodeObject(d)
  BY <1>1, <1>5, <1>6, <1>7, <1>9, <1>10 DEF IsCodeObject
<1>12. ASSUME f = 1
       PROVE  LocalsScoped(d)
  BY <1>1, <1>8, <1>12 DEF Held, LocalsScoped
<1>13. ASSUME f # 1
       PROVE  ParametersFirst(d)
  <2>1. /\ Len(c.locals) >= c.arity + 1 /\ c.locals[1].name = c.name
        /\ \A i \in 1 .. c.arity + 1 : c.locals[i].scopeLevel = 0
    BY <1>13 DEF Held, ParametersFirst
  <2>2. c.arity + 1 \in 1 .. Len(c.locals) /\ c.arity + 1 \in 1 .. c.arity + 1
    BY <1>1, <2>1
  <2>3. c.arity + 1 <= left
    BY <1>2, <2>1, <2>2
  <2>4. \A i \in 1 .. c.arity + 1 : i \in 1 .. left
    BY <1>1, <1>8, <2>3
  <2>5. 1 \in 1 .. left
    BY <1>1, <1>8, <2>3
  <2> QED BY <1>6, <1>8, <2>1, <2>3, <2>4, <2>5, <1>1 DEF ParametersFirst
<1>14. Grown(c, d)
  BY <1>1, <1>6, Extension DEF Grown
<1> QED BY <1>6, <1>11, <1>12, <1>13, <1>14 DEF Held, d

-----------------------------------------------------------------------------
(***************************************************************************)
(* Expressions and activations.                                            *)
(***************************************************************************)
MaybeExpressions == Expressions \cup {Missing}

\* exp.list[i] is an expression too, or there is none.
LEMMA Subexpression ==
  ASSUME NEW e \in MaybeExpressions
  PROVE  /\ IsVector(Entries(e)) /\ Size(e) \in Nat
         /\ \A i \in Nat : At(e, i) \in MaybeExpressions
<1>1. CASE e = Missing
  <2>1. Entries(e) = <<>>
    BY <1>1 DEF Missing, Entries, IsList, ExpType
  <2>2. IsVector(<<>>)
    <3>1. <<>> \in Seq({})
      OBVIOUS
    <3> QED BY <3>1, SequenceIsVector
  <2>3. Size(e) = 0
    BY <2>1 DEF Size
  <2>4. \A i \in Nat : At(e, i) = Missing
    BY <2>3 DEF At
  <2> QED BY <2>1, <2>2, <2>3, <2>4 DEF MaybeExpressions
<1>2. CASE e \in Expressions
  <2>1. IsVector(Entries(e))
    BY <1>2, ExpressionsAreTrees
  <2>2. Size(e) \in Nat /\ DOMAIN Entries(e) = 1 .. Size(e)
    BY <2>1, VectorDomain DEF Size
  <2>3. ASSUME NEW i \in Nat, i < Size(e)
        PROVE  Entries(e)[i + 1] \in Expressions
    <3>1. i + 1 \in DOMAIN Entries(e)
      BY <2>2, <2>3
    <3>2. Entries(e)[i + 1] \in Parts(Expressions)
      BY <1>2, <3>1 DEF Parts
    <3> QED BY <3>2, ExpressionsAreTrees
  <2> QED BY <2>1, <2>2, <2>3 DEF At, MaybeExpressions
<1> QED BY <1>1, <1>2 DEF MaybeExpressions

\* The activations below the one on top stay where they are.
LEMMA Heights ==
  ASSUME IsVector(work), work # <<>>, NEW tasks, IsVector(tasks),
         work' = tasks \o Tail(work)
  PROVE  /\ IsVector(work)' /\ Len(work) \in Nat \ {0}
         /\ Len(work') = Len(work) - 1 + Len(tasks)
         /\ Len(tasks) \in Nat
         /\ AtHeight(Len(work)) = Top
         /\ \A d \in 1 .. Len(work) - 1 :
              work'[Len(work') + 1 - d] = AtHeight(d)
         /\ \A d \in Len(work) .. Len(work') :
              /\ Len(work') + 1 - d \in DOMAIN tasks
              /\ work'[Len(work') + 1 - d] = tasks[Len(work') + 1 - d]
<1> DEFINE n == Len(work)
           m == Len(tasks)
           rest == Tail(work)
<1>1. PICK S : work \in Seq(S)
  BY DEF IsVector
<1>2. /\ n \in Nat /\ n # 0
      /\ rest \in Seq(S) /\ Len(rest) = n - 1
      /\ \A i \in 1 .. n - 1 : rest[i] = work[i + 1]
  BY <1>1, HeadTailProperties
<1>3. IsVector(rest)
  BY <1>2, SequenceIsVector
<1>4. m \in Nat /\ DOMAIN tasks = 1 .. m
  BY VectorDomain
<1>5. Top = work[1]
  BY <1>1 DEF Top
<1>6. /\ IsVector(work') /\ Len(work') = m + (n - 1)
      /\ \A i \in 1 .. m + (n - 1) :
           work'[i] = IF i <= m THEN tasks[i] ELSE rest[i - m]
  BY <1>2, <1>3, VectorConcat
<1> HIDE DEF rest, m, n
<1>7. AtHeight(n) = Top
  <2>1. n + 1 - n = 1
    BY <1>2
  <2> QED BY <1>5, <2>1 DEF AtHeight, n
<1>8. ASSUME NEW d \in 1 .. n - 1
      PROVE  work'[Len(work') + 1 - d] = AtHeight(d)
  <2> DEFINE i == m + (n - 1) + 1 - d
  <2>1. i \in 1 .. m + (n - 1) /\ ~ (i <= m) /\ i - m \in 1 .. n - 1
        /\ i - m + 1 = n + 1 - d
    BY <1>2, <1>4
  <2>2. work'[i] = work[n + 1 - d]
    BY <1>2, <1>6, <2>1
  <2> QED BY <1>6, <2>2 DEF AtHeight, n
<1>9. ASSUME NEW d \in n .. m + (n - 1)
      PROVE  /\ m + (n - 1) + 1 - d \in DOMAIN tasks
             /\ work'[m + (n - 1) + 1 - d] = tasks[m + (n - 1) + 1 - d]
  <2> DEFINE i == m + (n - 1) + 1 - d
  <2>1. i \in 1 .. m /\ i \in 1 .. m + (n - 1) /\ i <= m
    BY <1>2, <1>4
  <2> QED BY <1>4, <1>6, <2>1
<1> QED BY <1>2, <1>4, <1>6, <1>7, <1>8, <1>9 DEF n, m

-----------------------------------------------------------------------------
(***************************************************************************)
(* The activations that wait, after a step that goes on in the same code   *)
(* object: its new tasks run in the scope that is open now, and only the   *)
(* last of them may be what is left of a block.                            *)
(***************************************************************************)
Depth(t) == IF t.kind = "block" THEN 1 ELSE 0

\* The tasks that a step pushes find what the one that pushed them found.
LEMMA Resuming ==
  ASSUME IsVector(work), work # <<>>, IsVector(codeObjects), IsVector(codeObjects'),
         NEW owner, NEW level, Pending(owner, level),
         NEW tasks, IsVector(tasks), work' = tasks \o Tail(work),
         co' = co, Len(codeObjects') = Len(codeObjects),
         \A f \in DOMAIN codeObjects :
           f # co => codeObjects'[f].scopeLevel = codeObjects[f].scopeLevel,
         codeObjects'[co].scopeLevel \in Nat,
         Top.kind # "enddef",
         \A i \in DOMAIN tasks : tasks[i].kind # "enddef",
         \A i \in DOMAIN tasks : tasks[i].kind = "block" => i = Len(tasks),
         codeObjects'[co].scopeLevel =
           CO.scopeLevel - Depth(Top)
             + (IF tasks = <<>> THEN 0 ELSE Depth(tasks[Len(tasks)])),
         co = 1 /\ codeObjects'[co].scopeLevel = 0 =>
           \A i \in DOMAIN tasks : IsOuter(tasks[i])
  PROVE  \E o, l : Pending(o, l)'
<1> DEFINE n == Len(work)
           m == Len(tasks)
           n2 == Len(work')
           L2 == codeObjects'[co].scopeLevel
<1>1. /\ n \in Nat \ {0} /\ n2 = n - 1 + m /\ m \in Nat
      /\ DOMAIN tasks = 1 .. m
      /\ AtHeight(n) = Top
      /\ \A d \in 1 .. n - 1 : work'[n2 + 1 - d] = AtHeight(d)
      /\ \A d \in n .. n2 : /\ n2 + 1 - d \in DOMAIN tasks
                            /\ work'[n2 + 1 - d] = tasks[n2 + 1 - d]
  BY Heights, VectorDomain
<1>2. /\ \A d \in 0 .. n : owner[d] \in DOMAIN codeObjects /\ level[d] \in Nat
      /\ owner[n] = co /\ level[n] = CO.scopeLevel
      /\ owner[0] = 1 /\ level[0] = 0
      /\ \A d, e \in 0 .. n : d <= e => owner[d] <= owner[e]
      /\ \A d \in 1 .. n :
           /\ Link(AtHeight(d), owner[d - 1], level[d - 1], owner[d], level[d])
           /\ owner[d] = 1 /\ level[d] = 0 => IsOuter(AtHeight(d))
      /\ \A f \in DOMAIN codeObjects :
           (\A d \in 0 .. n : owner[d] # f) => codeObjects[f].scopeLevel = 0
  BY DEF Pending
<1>0. /\ n \in Nat /\ n # 0 /\ m \in Nat /\ n2 = n - 1 + m
      /\ \A i \in 1 .. m : /\ tasks[i].kind # "enddef"
                           /\ tasks[i].kind = "block" => i = m
  BY <1>1
<1> HIDE DEF n, m, n2, L2
<1>3. DOMAIN codeObjects' = DOMAIN codeObjects /\ DOMAIN codeObjects \subseteq Nat
  BY VectorDomain
<1>4. owner[n - 1] = co /\ CO.scopeLevel = level[n - 1] + Depth(Top)
  <2>1. Link(Top, owner[n - 1], level[n - 1], co, CO.scopeLevel)
    <3>1. n \in 1 .. n
      BY <1>0
    <3> QED BY <1>1, <1>2, <3>1
  <2>2. n - 1 \in 0 .. n /\ n \in 0 .. n
    BY <1>0
  <2>3. level[n - 1] \in Nat
    BY <1>2, <2>2
  <2>4. CASE Top.kind = "block"
    BY <2>1, <2>4 DEF Link, Depth
  <2>5. CASE Top.kind # "block"
    <3>1. owner[n - 1] = co /\ CO.scopeLevel = level[n - 1]
      BY <2>1, <2>5 DEF Link
    <3>2. Depth(Top) = 0
      BY <2>5 DEF Depth
    <3> QED BY <2>3, <3>1, <3>2
  <2> QED BY <2>4, <2>5
<1>5. L2 = level[n - 1] + (IF tasks = <<>> THEN 0 ELSE Depth(tasks[m]))
  <2>1. n - 1 \in 0 .. n
    BY <1>0
  <2> QED BY <1>2, <1>4, <2>1 DEF Depth, L2, m
<1> PICK o : o = [d \in 0 .. n2 |-> IF d < n THEN owner[d] ELSE co]
  OBVIOUS
<1> PICK l : l = [d \in 0 .. n2 |-> IF d < n THEN level[d] ELSE L2]
  OBVIOUS
<1>6. /\ \A d \in 0 .. n - 1 : d \in 0 .. n2 /\ d \in 0 .. n
                              /\ o[d] = owner[d] /\ l[d] = level[d]
      /\ \A d \in n .. n2 : d \in 0 .. n2 /\ o[d] = co /\ l[d] = L2
      /\ \A d \in 0 .. n2 : d \in 0 .. n - 1 \/ d \in n .. n2
      /\ n2 \in Nat /\ n - 1 \in 0 .. n - 1
  BY <1>0
<1>7. co \in DOMAIN codeObjects /\ co \in Nat /\ L2 \in Nat
  <2>1. n \in 0 .. n
    BY <1>0
  <2>2. co \in DOMAIN codeObjects
    BY <1>2, <2>1
  <2> QED BY <1>3, <2>2 DEF L2
<1>8. \A d \in 0 .. n2 : o[d] \in DOMAIN codeObjects' /\ l[d] \in Nat
  BY <1>2, <1>3, <1>6, <1>7
<1>9. o[n2] = co' /\ l[n2] = codeObjects'[co'].scopeLevel
  <2>1. CASE m = 0
    <3>1. n2 = n - 1 /\ tasks = <<>>
      BY <1>1, <2>1 DEF m
    <3>2. L2 = level[n - 1]
      BY <1>2, <1>5, <1>6, <3>1
    <3> QED BY <1>4, <1>6, <3>1, <3>2 DEF L2
  <2>2. CASE m # 0
    <3>1. n2 \in n .. n2
      BY <1>1, <2>2
    <3> QED BY <1>6, <3>1 DEF L2
  <2> QED BY <2>1, <2>2
<1>10. o[0] = 1 /\ l[0] = 0
  BY <1>1, <1>2, <1>6
<1>11. ASSUME NEW d \in 0 .. n2, NEW e \in 0 .. n2, d <= e
       PROVE  o[d] <= o[e]
  <2>1. CASE e \in 0 .. n - 1
    <3>1. d \in 0 .. n - 1
      BY <1>1, <1>11, <2>1
    <3>2. \A i, j \in 0 .. n : i <= j => owner[i] <= owner[j]
      BY <1>2, Zenon
    <3>3. d \in 0 .. n /\ e \in 0 .. n /\ o[d] = owner[d] /\ o[e] = owner[e]
      BY <1>6, <2>1, <3>1
    <3> QED BY <1>11, <3>2, <3>3
  <2>2. CASE e \in n .. n2 /\ d \in 0 .. n - 1
    <3>1. \A i, j \in 0 .. n : i <= j => owner[i] <= owner[j]
      BY <1>2, Zenon
    <3>2. d \in 0 .. n /\ n \in 0 .. n /\ d <= n /\ o[d] = owner[d]
      BY <1>1, <1>6, <2>2
    <3>3. owner[n] = co /\ o[e] = co
      BY <1>2, <1>6, <2>2, Zenon
    <3> QED BY <3>1, <3>2, <3>3
  <2>3. CASE e \in n .. n2 /\ d \in n .. n2
    <3>1. o[d] = co /\ o[e] = co
      BY <1>6, <2>3
    <3> QED BY <1>7, <3>1
  <2> QED BY <1>6, <2>1, <2>2, <2>3
<1>12. ASSUME NEW d \in 1 .. n - 1
       PROVE  /\ Link(AtHeight(d), o[d - 1], l[d - 1], o[d], l[d])'
              /\ o[d] = 1 /\ l[d] = 0 => IsOuter(AtHeight(d))
  <2>1. /\ d \in 0 .. n - 1 /\ d - 1 \in 0 .. n - 1 /\ d \in 1 .. n
        /\ d \in 0 .. n /\ n \in 0 .. n /\ d <= n
    BY <1>1
  <2>2. /\ o[d] = owner[d] /\ l[d] = level[d]
        /\ o[d - 1] = owner[d - 1] /\ l[d - 1] = level[d - 1]
    BY <1>6, <2>1
  <2>3. Link(AtHeight(d), o[d - 1], l[d - 1], o[d], l[d])
    BY <1>2, <2>1, <2>2
  <2>4. work'[n2 + 1 - d] = AtHeight(d)
    BY <1>1
  <2>5. o[d] <= co /\ o[d - 1] \in DOMAIN codeObjects /\ o[d] \in Nat
    <3>1. \A i, j \in 0 .. n : i <= j => owner[i] <= owner[j]
      BY <1>2, Zenon
    <3>2. owner[d] <= owner[n] /\ owner[n] = co
      BY <1>2, <2>1, <3>1
    <3>3. owner[d - 1] \in DOMAIN codeObjects /\ owner[d] \in DOMAIN codeObjects
      <4>1. d - 1 \in 0 .. n
        BY <2>1
      <4> QED BY <1>2, <2>1, <4>1, Zenon
    <3> QED BY <1>3, <2>2, <3>2, <3>3
  <2>6. o[d - 1] < o[d] => codeObjects'[o[d - 1]].scopeLevel = codeObjects[o[d - 1]].scopeLevel
    BY <1>3, <2>5
  <2>7. AtHeight(d)' = AtHeight(d)
    BY <2>4 DEF AtHeight, n2
  <2>8. Link(AtHeight(d), o[d - 1], l[d - 1], o[d], l[d])'
    BY <2>3, <2>6, <2>7 DEF Link
  <2>9. o[d] = 1 /\ l[d] = 0 => IsOuter(AtHeight(d))
    BY <1>2, <2>1, <2>2, Zenon
  <2> QED BY <2>8, <2>9
<1>13. ASSUME NEW d \in n .. n2
       PROVE  LET t == work'[n2 + 1 - d]
              IN /\ t.kind \notin {"block", "enddef"} => o[d - 1] = co /\ l[d - 1] = L2
                 /\ t.kind = "block" => o[d - 1] = co /\ L2 = l[d - 1] + 1
                 /\ t.kind # "enddef"
                 /\ o[d] = 1 /\ l[d] = 0 => IsOuter(t)
  <2> DEFINE i == n2 + 1 - d
  <2>1. i \in 1 .. m /\ work'[i] = tasks[i] /\ m # 0
    <3>1. i \in 1 .. m /\ work'[i] = tasks[i]
      BY <1>1, Zenon
    <3>2. m \in Nat
      BY <1>0, Zenon
    <3> HIDE DEF i
    <3>3. m # 0
      BY <3>1, <3>2
    <3> QED BY <3>1, <3>3, Zenon
  <2>2. tasks # <<>>
    BY <2>1 DEF m
  <2>3. /\ tasks[i].kind # "enddef"
        /\ tasks[i].kind = "block" => i = m
    <3> HIDE DEF i
    <3> QED BY <1>0, <2>1
  <2>4. o[d] = 1 /\ l[d] = 0 => IsOuter(tasks[i])
    <3>1. o[d] = co /\ l[d] = L2
      BY <1>6, Zenon
    <3>2. i \in DOMAIN tasks
      BY <1>1, <2>1, Zenon
    <3> HIDE DEF i
    <3> QED BY <3>1, <3>2, Zenon DEF L2
  <2>5. CASE d = n
    <3>1. i = m
      BY <1>1, <2>5
    <3>2. o[d - 1] = co /\ l[d - 1] = level[n - 1] /\ l[d - 1] \in Nat
      BY <1>2, <1>4, <1>6, <2>5
    <3>3. L2 = l[d - 1] + Depth(tasks[i])
      BY <1>5, <2>2, <3>1, <3>2
    <3> HIDE DEF i
    <3>4. /\ tasks[i].kind = "block" => L2 = l[d - 1] + 1
          /\ tasks[i].kind # "block" => L2 = l[d - 1]
      BY <3>2, <3>3 DEF Depth
    <3> QED BY <2>1, <2>3, <2>4, <3>2, <3>4 DEF i
  <2>6. CASE d # n
    <3>1. d - 1 \in n .. n2 /\ i # m
      BY <1>0, <2>6
    <3>2. o[d - 1] = co /\ l[d - 1] = L2
      BY <1>6, <3>1
    <3> HIDE DEF i
    <3> QED BY <2>1, <2>3, <2>4, <3>1, <3>2 DEF i
  <2> QED BY <2>5, <2>6
<1>14. ASSUME NEW d \in 1 .. n2
       PROVE  /\ Link(AtHeight(d), o[d - 1], l[d - 1], o[d], l[d])'
              /\ o[d] = 1 /\ l[d] = 0 => IsOuter(work'[n2 + 1 - d])
  <2>1. CASE d \in 1 .. n - 1
    <3>1. /\ Link(AtHeight(d), o[d - 1], l[d - 1], o[d], l[d])'
          /\ o[d] = 1 /\ l[d] = 0 => IsOuter(AtHeight(d))
      BY <1>12, <2>1
    <3>2. work'[n2 + 1 - d] = AtHeight(d)
      BY <1>1, <2>1
    <3> QED BY <3>1, <3>2
  <2>2. CASE d \in n .. n2
    <3>1. o[d] = co /\ l[d] = L2
      BY <1>6, <2>2
    <3>2. Link(work'[n2 + 1 - d], o[d - 1], l[d - 1], o[d], l[d])
      BY <1>13, <2>2, <3>1 DEF Link
    <3> QED BY <1>13, <2>2, <3>1, <3>2 DEF Link, AtHeight, n2
  <2>3. d \in 1 .. n - 1 \/ d \in n .. n2
    BY <1>0
  <2> QED BY <2>1, <2>2, <2>3
<1>15. ASSUME NEW f \in DOMAIN codeObjects', \A d \in 0 .. n2 : o[d] # f
       PROVE  codeObjects'[f].scopeLevel = 0
  <2>1. f # co
    <3>1. o[n2] = co /\ n2 \in 0 .. n2
      BY <1>6, <1>9
    <3> QED BY <1>15, <3>1
  <2>2. ASSUME NEW d \in 0 .. n
        PROVE  owner[d] # f
    <3>1. CASE d = n
      BY <1>2, <2>1, <3>1
    <3>2. CASE d \in 0 .. n - 1
      BY <1>6, <1>15, <3>2
    <3> QED BY <1>1, <3>1, <3>2
  <2> QED BY <1>2, <1>3, <2>1, <2>2
<1>16. Pending(o, l)'
  BY <1>8, <1>9, <1>10, <1>11, <1>14, <1>15 DEF Pending, AtHeight, n2, CO
<1> QED BY <1>16

\* A def suspends the code object it was found in: its level stays what the
\* rest of the activation will find.
LEMMA Suspending ==
  ASSUME IsVector(work), work # <<>>, IsVector(codeObjects), IsVector(codeObjects'),
         NEW owner, NEW level, Pending(owner, level),
         Top.kind = "gen", ~ IsOuter(Top),
         NEW body, NEW rest, work' = <<body, rest>> \o Tail(work),
         body.kind = "gen", rest.kind = "enddef", rest.prevCo = co,
         co' = Len(codeObjects) + 1, Len(codeObjects') = Len(codeObjects) + 1,
         \A f \in DOMAIN codeObjects :
           codeObjects'[f].scopeLevel = codeObjects[f].scopeLevel,
         codeObjects'[co'].scopeLevel = 0
  PROVE  \E o, l : Pending(o, l)'
<1> DEFINE n == Len(work)
           n2 == Len(work')
           new == Len(codeObjects) + 1
<1>1. IsVector(<<body, rest>>) /\ Len(<<body, rest>>) = 2
  <2>1. <<body, rest>> \in Seq({body, rest})
    OBVIOUS
  <2> QED BY <2>1, SequenceIsVector
<1>2. /\ n \in Nat \ {0} /\ n2 = n - 1 + 2
      /\ AtHeight(n) = Top
      /\ \A d \in 1 .. n - 1 : work'[n2 + 1 - d] = AtHeight(d)
      /\ \A d \in n .. n2 : work'[n2 + 1 - d] = <<body, rest>>[n2 + 1 - d]
  BY <1>1, Heights
<1>3. /\ \A d \in 0 .. n : owner[d] \in DOMAIN codeObjects /\ level[d] \in Nat
      /\ owner[n] = co /\ level[n] = CO.scopeLevel
      /\ owner[0] = 1 /\ level[0] = 0
      /\ \A d, e \in 0 .. n : d <= e => owner[d] <= owner[e]
      /\ \A d \in 1 .. n :
           /\ Link(AtHeight(d), owner[d - 1], level[d - 1], owner[d], level[d])
           /\ owner[d] = 1 /\ level[d] = 0 => IsOuter(AtHeight(d))
      /\ \A f \in DOMAIN codeObjects :
           (\A d \in 0 .. n : owner[d] # f) => codeObjects[f].scopeLevel = 0
  BY DEF Pending
<1>4. /\ DOMAIN codeObjects = 1 .. Len(codeObjects) /\ Len(codeObjects) \in Nat
      /\ DOMAIN codeObjects' = 1 .. new
  BY VectorDomain
<1> HIDE DEF n, n2
<1>5. /\ n \in Nat /\ n # 0 /\ n2 = n + 1
      /\ n \in 1 .. n /\ n \in 0 .. n /\ n - 1 \in 0 .. n
  BY <1>2
<1>6. new \in Nat /\ new > Len(codeObjects) /\ new \in DOMAIN codeObjects' /\ new # 1
  <2>1. owner[n] \in 1 .. Len(codeObjects)
    BY <1>3, <1>4, <1>5
  <2> QED BY <1>4, <2>1
<1> HIDE DEF new
<1>7. owner[n - 1] = co /\ level[n - 1] = CO.scopeLevel
  <2>1. Link(Top, owner[n - 1], level[n - 1], co, CO.scopeLevel)
    BY <1>2, <1>3, <1>5
  <2> QED BY <2>1 DEF Link
<1> PICK o : o = [d \in 0 .. n2 |-> IF d < n THEN owner[d] ELSE new]
  OBVIOUS
<1> PICK l : l = [d \in 0 .. n2 |-> IF d < n THEN level[d] ELSE 0]
  OBVIOUS
<1>8. /\ \A d \in 0 .. n - 1 : d \in 0 .. n2 /\ d \in 0 .. n
                              /\ o[d] = owner[d] /\ l[d] = level[d]
      /\ \A d \in n .. n2 : d \in 0 .. n2 /\ o[d] = new /\ l[d] = 0
      /\ \A d \in 0 .. n2 : d \in 0 .. n - 1 \/ d \in n .. n2
      /\ n2 \in Nat /\ n2 \in n .. n2 /\ n - 1 \in 0 .. n - 1 /\ 0 \in 0 .. n - 1
  BY <1>5
<1>9. \A d \in 0 .. n : owner[d] \in DOMAIN codeObjects' /\ owner[d] \in Nat /\ owner[d] < new
  BY <1>3, <1>4, <1>6 DEF new
<1>10. ASSUME NEW d \in 0 .. n2
       PROVE  o[d] \in DOMAIN codeObjects' /\ l[d] \in Nat
  <2>1. CASE d \in 0 .. n - 1
    BY <1>3, <1>8, <1>9, <2>1
  <2>2. CASE d \in n .. n2
    <3>1. o[d] = new /\ l[d] = 0 /\ 0 \in Nat
      BY <1>8, <2>2
    <3>2. new \in DOMAIN codeObjects'
      BY <1>6
    <3> QED BY <3>1, <3>2
  <2> QED BY <1>8, <2>1, <2>2
<1>11. o[n2] = co' /\ l[n2] = codeObjects'[co'].scopeLevel
  BY <1>8 DEF new
<1>12. o[0] = 1 /\ l[0] = 0
  BY <1>3, <1>8
<1>13. ASSUME NEW d \in 0 .. n2, NEW e \in 0 .. n2, d <= e
       PROVE  o[d] <= o[e]
  <2>1. CASE e \in 0 .. n - 1
    <3>1. d \in 0 .. n - 1
      BY <1>5, <1>13, <2>1
    <3>2. \A i, j \in 0 .. n : i <= j => owner[i] <= owner[j]
      BY <1>3, Zenon
    <3>3. d \in 0 .. n /\ e \in 0 .. n /\ o[d] = owner[d] /\ o[e] = owner[e]
      BY <1>8, <2>1, <3>1
    <3> QED BY <1>13, <3>2, <3>3
  <2>2. CASE e \in n .. n2 /\ d \in 0 .. n - 1
    <3>1. o[d] < new /\ o[d] \in Nat /\ o[e] = new
      BY <1>8, <1>9, <2>2
    <3> QED BY <1>6, <3>1
  <2>3. CASE e \in n .. n2 /\ d \in n .. n2
    <3>1. o[d] = new /\ o[e] = new
      BY <1>8, <2>3
    <3> QED BY <1>6, <3>1
  <2> QED BY <1>8, <2>1, <2>2, <2>3
<1>14. ASSUME NEW d \in 1 .. n - 1
       PROVE  /\ Link(AtHeight(d), o[d - 1], l[d - 1], o[d], l[d])'
              /\ o[d] = 1 /\ l[d] = 0 => IsOuter(work'[n2 + 1 - d])
  <2>1. /\ d \in 0 .. n - 1 /\ d - 1 \in 0 .. n - 1 /\ d \in 1 .. n
    BY <1>5
  <2>2. /\ o[d] = owner[d] /\ l[d] = level[d]
        /\ o[d - 1] = owner[d - 1] /\ l[d - 1] = level[d - 1]
        /\ o[d - 1] \in DOMAIN codeObjects
    BY <1>3, <1>8, <2>1
  <2>3. Link(AtHeight(d), o[d - 1], l[d - 1], o[d], l[d])
    BY <1>3, <2>1, <2>2
  <2>4. work'[n2 + 1 - d] = AtHeight(d)
    BY <1>2
  <2>5. codeObjects'[o[d - 1]].scopeLevel = codeObjects[o[d - 1]].scopeLevel
    BY <2>2
  <2>6. AtHeight(d)' = AtHeight(d)
    BY <2>4 DEF AtHeight, n2
  <2>7. Link(AtHeight(d), o[d - 1], l[d - 1], o[d], l[d])'
    BY <2>3, <2>5, <2>6 DEF Link
  <2>8. o[d] = 1 /\ l[d] = 0 => IsOuter(AtHeight(d))
    BY <1>3, <2>1, <2>2, Zenon
  <2> QED BY <2>4, <2>7, <2>8
<1>15. ASSUME NEW d \in n .. n2
       PROVE  /\ Link(AtHeight(d), o[d - 1], l[d - 1], o[d], l[d])'
              /\ o[d] = 1 /\ l[d] = 0 => IsOuter(work'[n2 + 1 - d])
  <2>1. o[d] = new /\ l[d] = 0
    BY <1>8
  <2>2. CASE d = n
    <3>1. work'[n2 + 1 - d] = rest
      <4>1. n2 + 1 - d = 2
        BY <1>5, <2>2
      <4> QED BY <1>2, <4>1
    <3>2. o[d - 1] = co /\ l[d - 1] = CO.scopeLevel
      BY <1>7, <1>8, <2>2
    <3>3. co < new /\ co \in DOMAIN codeObjects
      BY <1>3, <1>5, <1>9
    <3>4. co = 1 => CO.scopeLevel # 0
      <4>1. co = 1 /\ CO.scopeLevel = 0 => IsOuter(Top)
        BY <1>2, <1>3, <1>5
      <4> QED BY <4>1
    <3>5. codeObjects'[co].scopeLevel = CO.scopeLevel
      BY <3>3 DEF CO
    <3> QED BY <1>6, <2>1, <3>1, <3>2, <3>3, <3>4, <3>5 DEF Link, AtHeight, n2
  <2>3. CASE d # n
    <3>1. d = n + 1
      BY <1>5, <2>3
    <3>2. work'[n2 + 1 - d] = body
      <4>1. n2 + 1 - d = 1
        BY <1>5, <3>1
      <4> QED BY <1>2, <4>1
    <3>3. o[d - 1] = new /\ l[d - 1] = 0
      <4>1. d - 1 \in n .. n2
        BY <1>5, <3>1
      <4> QED BY <1>8, <4>1
    <3> QED BY <1>6, <2>1, <3>2, <3>3 DEF Link, AtHeight, n2
  <2> QED BY <2>2, <2>3
<1>16. ASSUME NEW d \in 1 .. n2
       PROVE  /\ Link(AtHeight(d), o[d - 1], l[d - 1], o[d], l[d])'
              /\ o[d] = 1 /\ l[d] = 0 => IsOuter(work'[n2 + 1 - d])
  <2>1. d \in 1 .. n - 1 \/ d \in n .. n2
    BY <1>5
  <2> QED BY <1>14, <1>15, <2>1
<1>17. ASSUME NEW f \in DOMAIN codeObjects', \A d \in 0 .. n2 : o[d] # f
       PROVE  codeObjects'[f].scopeLevel = 0
  <2>1. f # new
    BY <1>8, <1>17
  <2>2. f \in DOMAIN codeObjects
    BY <1>4, <2>1 DEF new
  <2>3. ASSUME NEW d \in 0 .. n
        PROVE  owner[d] # f
    <3>1. CASE d = n
      <4>1. o[n - 1] = co
        BY <1>7, <1>8
      <4> QED BY <1>3, <1>8, <1>17, <3>1, <4>1
    <3>2. CASE d \in 0 .. n - 1
      BY <1>8, <1>17, <3>2
    <3> QED BY <1>5, <3>1, <3>2
  <2> QED BY <1>3, <2>2, <2>3
<1>18. Pending(o, l)'
  BY <1>10, <1>11, <1>12, <1>13, <1>16, <1>17 DEF Pending, AtHeight, n2, CO
<1> QED BY <1>18

\* When the body is done, the code object that was suspended is found as it
\* was left.
LEMMA Restoring ==
  ASSUME IsVector(work), work # <<>>, IsVector(codeObjects), IsVector(codeObjects'),
         NEW owner, NEW level, Pending(owner, level),
         Top.kind = "enddef",
         work' = <<>> \o Tail(work), co' = Top.prevCo,
         Len(codeObjects') = Len(codeObjects),
         \A f \in DOMAIN codeObjects :
           codeObjects'[f].scopeLevel = codeObjects[f].scopeLevel
  PROVE  Pending(owner, level)'
<1> DEFINE n == Len(work)
           n2 == Len(work')
<1>1. IsVector(<<>>) /\ Len(<<>>) = 0
  <2>1. <<>> \in Seq({})
    OBVIOUS
  <2> QED BY <2>1, SequenceIsVector
<1>2. /\ n \in Nat \ {0} /\ n2 = n - 1 + 0
      /\ AtHeight(n) = Top
      /\ \A d \in 1 .. n - 1 : work'[n2 + 1 - d] = AtHeight(d)
  BY <1>1, Heights
<1>3. /\ \A d \in 0 .. n : owner[d] \in DOMAIN codeObjects /\ level[d] \in Nat
      /\ owner[n] = co /\ level[n] = CO.scopeLevel
      /\ owner[0] = 1 /\ level[0] = 0
      /\ \A d, e \in 0 .. n : d <= e => owner[d] <= owner[e]
      /\ \A d \in 1 .. n :
           /\ Link(AtHeight(d), owner[d - 1], level[d - 1], owner[d], level[d])
           /\ owner[d] = 1 /\ level[d] = 0 => IsOuter(AtHeight(d))
      /\ \A f \in DOMAIN codeObjects :
           (\A d \in 0 .. n : owner[d] # f) => codeObjects[f].scopeLevel = 0
  BY DEF Pending
<1>4. DOMAIN codeObjects' = DOMAIN codeObjects
  BY VectorDomain
<1> HIDE DEF n, n2
<1>5. /\ n \in Nat /\ n # 0 /\ n2 = n - 1
      /\ n \in 1 .. n /\ n \in 0 .. n /\ n - 1 \in 0 .. n
      /\ \A d \in 0 .. n2 : d \in 0 .. n
  BY <1>2
<1>6. Link(Top, owner[n - 1], level[n - 1], co, CO.scopeLevel)
  BY <1>2, <1>3, <1>5
<1>7. /\ owner[n - 1] = co' /\ co' < co
      /\ CO.scopeLevel = 0 /\ level[n - 1] = codeObjects[co'].scopeLevel
      /\ co' = 1 => codeObjects[co'].scopeLevel # 0
      /\ co' \in DOMAIN codeObjects
  BY <1>3, <1>5, <1>6 DEF Link
<1>8. \A d \in 0 .. n2 : owner[d] \in DOMAIN codeObjects' /\ level[d] \in Nat
  BY <1>3, <1>4, <1>5
<1>9. owner[n2] = co' /\ level[n2] = codeObjects'[co'].scopeLevel
  BY <1>5, <1>7
<1>10. \A d, e \in 0 .. n2 : d <= e => owner[d] <= owner[e]
  BY <1>3, <1>5
<1>11. ASSUME NEW d \in 1 .. n2
       PROVE  /\ Link(AtHeight(d), owner[d - 1], level[d - 1], owner[d], level[d])'
              /\ owner[d] = 1 /\ level[d] = 0 => IsOuter(work'[n2 + 1 - d])
  <2>1. d \in 1 .. n - 1 /\ d \in 1 .. n /\ d - 1 \in 0 .. n
    BY <1>5
  <2>2. Link(AtHeight(d), owner[d - 1], level[d - 1], owner[d], level[d])
    BY <1>3, <2>1
  <2>3. work'[n2 + 1 - d] = AtHeight(d)
    BY <1>2, <2>1
  <2>4. codeObjects'[owner[d - 1]].scopeLevel = codeObjects[owner[d - 1]].scopeLevel
    BY <1>3, <2>1
  <2> QED BY <1>3, <2>1, <2>2, <2>3, <2>4 DEF Link, AtHeight, n2
<1>12. ASSUME NEW f \in DOMAIN codeObjects', \A d \in 0 .. n2 : owner[d] # f
       PROVE  codeObjects'[f].scopeLevel = 0
  <2>1. CASE f = co
    BY <1>4, <1>7, <1>12, <2>1 DEF CO
  <2>2. CASE f # co
    <3>1. ASSUME NEW d \in 0 .. n
          PROVE  owner[d] # f
      <4>1. d = n \/ d \in 0 .. n2
        BY <1>5
      <4> QED BY <1>3, <1>12, <2>2, <4>1
    <3> QED BY <1>3, <1>4, <3>1
  <2> QED BY <2>1, <2>2
<1>13. Pending(owner, level)'
  BY <1>3, <1>8, <1>9, <1>10, <1>11, <1>12 DEF Pending, AtHeight, n2, CO
<1> QED BY <1>13

-----------------------------------------------------------------------------
(***************************************************************************)
(* What a step does to the whole state.                                    *)
(***************************************************************************)

\* Every index that was emitted keeps its meaning: what IndexesKept says of
\* a step.
Kept ==
  /\ IsExtension(globals', globals)
  /\ Len(codeObjects') >= Len(codeObjects)
  /\ \A f \in DOMAIN codeObjects : Grown(codeObjects[f], codeObjects'[f])

\* The code objects are those of the invariant, one by one.
LEMMA Holding ==
  CodeObjectsOK <=> /\ IsVector(codeObjects)
                    /\ \A f \in DOMAIN codeObjects : Held(f, codeObjects[f])
                    /\ co \in DOMAIN codeObjects
BY DEF CodeObjectsOK, Held

\* Code objects do not shrink by staying as they are.
LEMMA GrownItself ==
  ASSUME NEW f, NEW c, Held(f, c)
  PROVE  Grown(c, c) /\ Continues(f, c, c)
BY Extension DEF Held, IsCodeObject, Grown, Continues

\* The activations after a step are tasks, too.
LEMMA Pushing ==
  ASSUME WorkOK, work # <<>>, NEW tasks, IsVector(tasks), work' = tasks \o Tail(work),
         \A i \in DOMAIN tasks : IsTask(tasks[i])
  PROVE  WorkOK'
<1>0. IsVector(work) /\ \A i \in DOMAIN work : IsTask(work[i])
  BY DEF WorkOK
<1> DEFINE n2 == Len(work')
<1>1. /\ IsVector(work') /\ Len(work) \in Nat \ {0} /\ Len(tasks) \in Nat
      /\ n2 = Len(work) - 1 + Len(tasks)
      /\ \A d \in 1 .. Len(work) - 1 : work'[n2 + 1 - d] = AtHeight(d)
      /\ \A d \in Len(work) .. n2 :
           /\ n2 + 1 - d \in DOMAIN tasks
           /\ work'[n2 + 1 - d] = tasks[n2 + 1 - d]
  BY <1>0, Heights
<1>2. DOMAIN work = 1 .. Len(work) /\ DOMAIN work' = 1 .. n2
  BY <1>0, <1>1, VectorDomain
<1>3. ASSUME NEW i \in 1 .. n2
      PROVE  IsTask(work'[i])
  <2> DEFINE d == n2 + 1 - i
  <2>1. n2 + 1 - d = i /\ (d \in 1 .. Len(work) - 1 \/ d \in Len(work) .. n2)
    BY <1>1
  <2>2. CASE d \in 1 .. Len(work) - 1
    <3>1. Len(work) + 1 - d \in 1 .. Len(work)
      BY <1>1, <2>2
    <3>2. work'[i] = work[Len(work) + 1 - d]
      BY <1>1, <2>1, <2>2 DEF AtHeight
    <3> QED BY <1>0, <1>2, <3>1, <3>2
  <2>3. CASE d \in Len(work) .. n2
    <3> HIDE DEF d, n2
    <3>1. i \in DOMAIN tasks /\ work'[i] = tasks[i]
      BY <1>1, <2>1, <2>3
    <3> QED BY <3>1
  <2> QED BY <2>1, <2>2, <2>3
<1> QED BY <1>1, <1>2, <1>3 DEF WorkOK

\* A step of an activation that goes on in its code object, with the tasks
\* it pushes.
LEMMA InCodeObject ==
  ASSUME CInv, status = "compiling", status' = status, work # <<>>, co' = co,
         NEW tasks, IsVector(tasks), work' = tasks \o Tail(work),
         \A i \in DOMAIN tasks : IsTask(tasks[i]),
         NEW c, Held(co, c), Grown(CO, c),
         codeObjects' = [codeObjects EXCEPT ![co] = c],
         Top.kind # "enddef",
         \A i \in DOMAIN tasks : tasks[i].kind # "enddef",
         \A i \in DOMAIN tasks : tasks[i].kind = "block" => i = Len(tasks),
         c.scopeLevel = CO.scopeLevel - Depth(Top)
                          + (IF tasks = <<>> THEN 0 ELSE Depth(tasks[Len(tasks)])),
         co = 1 /\ c.scopeLevel = 0 => \A i \in DOMAIN tasks : IsOuter(tasks[i]),
         IsVector(globals'), IsExtension(globals', globals), NamesUnique'
  PROVE  CInv' /\ Kept
<1>1. /\ IsVector(codeObjects) /\ co \in DOMAIN codeObjects
      /\ \A f \in DOMAIN codeObjects : Held(f, codeObjects[f])
      /\ IsVector(work) /\ \A i \in DOMAIN work : IsTask(work[i])
  BY Holding DEF CInv, WorkOK
<1>2. /\ IsVector(codeObjects') /\ Len(codeObjects') = Len(codeObjects)
      /\ DOMAIN codeObjects' = DOMAIN codeObjects
      /\ codeObjects'[co] = c
      /\ \A f \in DOMAIN codeObjects : f # co => codeObjects'[f] = codeObjects[f]
  BY <1>1, VectorUpdate
<1>3. Len(codeObjects) \in Nat
  BY <1>1, VectorDomain
<1>4. Kept
  <2>1. ASSUME NEW f \in DOMAIN codeObjects
        PROVE  Grown(codeObjects[f], codeObjects'[f])
    <3>1. CASE f = co
      BY <1>2, <3>1 DEF CO
    <3>2. CASE f # co
      BY <1>1, <1>2, <3>2, GrownItself
    <3> QED BY <3>1, <3>2
  <2> QED BY <1>2, <1>3, <2>1 DEF Kept
<1>5. CodeObjectsOK'
  <2>1. ASSUME NEW f \in DOMAIN codeObjects
        PROVE  Held(f, codeObjects'[f])
    <3>1. CASE f = co
      BY <1>2, <3>1
    <3>2. CASE f # co
      BY <1>1, <1>2, <3>2
    <3> QED BY <3>1, <3>2
  <2> QED BY <1>1, <1>2, <2>1 DEF CodeObjectsOK, Held
<1>6. WorkOK'
  BY Pushing DEF CInv
<1>7. (\E owner, level : Pending(owner, level))'
  <2>1. PICK owner, level : Pending(owner, level)
    BY DEF CInv
  <2>2. codeObjects'[co].scopeLevel = c.scopeLevel /\ c.scopeLevel \in Nat
    BY <1>2 DEF Held, IsCodeObject
  <2>3. \A f \in DOMAIN codeObjects :
           f # co => codeObjects'[f].scopeLevel = codeObjects[f].scopeLevel
    BY <1>2
  <2>4. \E o, l : Pending(o, l)'
    BY <1>1, <1>2, <2>1, <2>2, <2>3, Resuming
  <2> QED BY <2>4
<1> QED BY <1>4, <1>5, <1>6, <1>7 DEF CInv

\* Outside the block of the program main declares nothing.
LEMMA MainIsInABlock ==
  ASSUME CInv, work # <<>>, ~ IsOuter(Top), co = 1
  PROVE  CO.scopeLevel # 0
<1>1. PICK owner, level : Pending(owner, level)
  BY DEF CInv
<1>2. Len(work) \in 1 .. Len(work) /\ AtHeight(Len(work)) = Top
  <2>1. IsVector(work)
    BY DEF CInv, WorkOK
  <2>2. Len(work) \in Nat \ {0}
    BY <2>1 DEF IsVector
  <2>3. Len(work) + 1 - Len(work) = 1
    BY <2>2
  <2> QED BY <2>1, <2>2, <2>3 DEF AtHeight, Top, IsVector
<1>3. owner[Len(work)] = co /\ level[Len(work)] = CO.scopeLevel
  BY <1>1 DEF Pending
<1> QED BY <1>1, <1>2, <1>3 DEF Pending

\* A step that stays in its scope, and leaves no block behind.
LEMMA InScope ==
  ASSUME CInv, status = "compiling", status' = status, work # <<>>, co' = co,
         NEW S, NEW tasks \in Seq(S), work' = tasks \o Tail(work),
         \A t \in S : IsTask(t) /\ t.kind \notin {"block", "enddef"},
         NEW c, Continues(co, CO, c),
         codeObjects' = [codeObjects EXCEPT ![co] = c],
         Top.kind \notin {"block", "enddef"},
         tasks = <<>> \/ ~ IsOuter(Top),
         IsVector(globals'), IsExtension(globals', globals), NamesUnique'
  PROVE  CInv' /\ Kept
<1>1. IsVector(tasks) /\ \A i \in DOMAIN tasks : tasks[i] \in S
  BY SequenceIsVector
<1>2. tasks # <<>> => Len(tasks) \in DOMAIN tasks
  OBVIOUS
<1>3. CO.scopeLevel \in Nat
  BY DEF CInv, CodeObjectsOK, IsCodeObject, CO
<1>4. c.scopeLevel = CO.scopeLevel - Depth(Top)
                       + (IF tasks = <<>> THEN 0 ELSE Depth(tasks[Len(tasks)]))
  <2>1. Depth(Top) = 0
    BY DEF Depth
  <2>2. tasks # <<>> => Depth(tasks[Len(tasks)]) = 0
    BY <1>1, <1>2 DEF Depth
  <2>3. c.scopeLevel = CO.scopeLevel
    BY DEF Continues
  <2> QED BY <1>3, <2>1, <2>2, <2>3
<1>5. co = 1 /\ c.scopeLevel = 0 => \A i \in DOMAIN tasks : IsOuter(tasks[i])
  <2> SUFFICES ASSUME co = 1, c.scopeLevel = 0, tasks # <<>>
               PROVE  FALSE
    OBVIOUS
  <2> QED BY MainIsInABlock DEF Continues
<1>6. Held(co, c) /\ Grown(CO, c)
  BY DEF Continues
<1> QED BY <1>1, <1>4, <1>5, <1>6, InCodeObject

\* Steps that leave a part of the state as it is.
LEMMA Staying ==
  ASSUME CInv
  PROVE  /\ UNCHANGED globals =>
              IsVector(globals') /\ IsExtension(globals', globals) /\ NamesUnique'
         /\ UNCHANGED codeObjects => UpdateCO(CO)
         /\ Held(co, CO) /\ Continues(co, CO, CO)
<1>1. IsVector(globals) /\ NamesUnique
  BY DEF CInv
<1>2. UNCHANGED globals => NamesUnique'
  BY <1>1 DEF NamesUnique
<1>3. UNCHANGED globals => IsVector(globals') /\ IsExtension(globals', globals)
  BY <1>1, Extension
<1>4. /\ IsVector(codeObjects) /\ co \in DOMAIN codeObjects
      /\ \A f \in DOMAIN codeObjects : Held(f, codeObjects[f])
  BY Holding DEF CInv
<1>5. codeObjects = [codeObjects EXCEPT ![co] = CO]
  BY <1>4 DEF IsVector, CO
<1>6. Held(co, CO) /\ Continues(co, CO, CO)
  BY <1>4, GrownItself DEF CO
<1> QED BY <1>2, <1>3, <1>5, <1>6 DEF UpdateCO

\* A step that only writes code, or constants, and pushes tasks.
LEMMA Writes ==
  ASSUME CInv, status = "compiling", work # <<>>, Same, UNCHANGED globals,
         NEW c, Continues(co, CO, c), UpdateCO(c),
         NEW S, NEW tasks \in Seq(S), Continue(tasks),
         \A t \in S : IsTask(t) /\ t.kind \notin {"block", "enddef"},
         Top.kind \notin {"block", "enddef"},
         tasks = <<>> \/ ~ IsOuter(Top)
  PROVE  CInv' /\ Kept
<1>1. status' = status /\ co' = co
  BY DEF Same
<1>2. work' = tasks \o Tail(work)
  BY DEF Continue
<1>3. codeObjects' = [codeObjects EXCEPT ![co] = c]
  BY DEF UpdateCO
<1>4. IsVector(globals') /\ IsExtension(globals', globals) /\ NamesUnique'
  BY Staying
<1> QED BY <1>1, <1>2, <1>3, <1>4, InScope

\* A step that writes code, or constants, and is the end of its activation.
LEMMA Finishes ==
  ASSUME CInv, status = "compiling", work # <<>>, Same, UNCHANGED globals,
         NEW c, Continues(co, CO, c), UpdateCO(c), Continue(<<>>),
         Top.kind \notin {"block", "enddef"}
  PROVE  CInv' /\ Kept
<1>1. PICK S : S = {}
  OBVIOUS
<1>2. PICK tasks \in Seq(S) : tasks = <<>>
  BY EmptySeq
<1>3. \A t \in S : IsTask(t) /\ t.kind \notin {"block", "enddef"}
  BY <1>1
<1>4. Continue(tasks)
  BY <1>2
<1> QED BY <1>2, <1>3, <1>4, Writes

\* A step that only pushes tasks.
LEMMA Pushes ==
  ASSUME CInv, status = "compiling", work # <<>>, Same,
         UNCHANGED <<codeObjects, globals>>,
         NEW S, NEW tasks \in Seq(S), Continue(tasks),
         \A t \in S : IsTask(t) /\ t.kind \notin {"block", "enddef"},
         Top.kind \notin {"block", "enddef"},
         tasks = <<>> \/ ~ IsOuter(Top)
  PROVE  CInv' /\ Kept
<1>1. UpdateCO(CO) /\ Continues(co, CO, CO)
  BY Staying
<1> QED BY <1>1, Writes

\* A step that changes only the status, or nothing.
LEMMA Resting ==
  ASSUME CInv, UNCHANGED <<codeObjects, globals, co, work>>,
         status' \in {"compiling", "compiled", "died", "undefined"},
         status' = "compiled" => work = <<>>
  PROVE  CInv' /\ Kept
<1>1. (\E owner, level : Pending(owner, level))'
  <2>1. PICK owner, level : Pending(owner, level)
    BY DEF CInv
  <2>2. Pending(owner, level)'
    BY <2>1 DEF Pending, Link, AtHeight, CO
  <2> QED BY <2>2
<1>2. CodeObjectsOK' /\ WorkOK' /\ NamesUnique'
  BY DEF CInv, CodeObjectsOK, WorkOK, NamesUnique
<1>3. Kept
  <2>1. \A f \in DOMAIN codeObjects : Grown(codeObjects[f], codeObjects[f])
    BY Holding, GrownItself DEF CInv
  <2>2. IsVector(codeObjects) /\ IsVector(globals)
    BY Holding DEF CInv
  <2>3. Len(codeObjects) \in Nat
    BY <2>2, VectorDomain
  <2> QED BY <2>1, <2>2, <2>3, Extension DEF Kept
<1> QED BY <1>1, <1>2, <1>3 DEF CInv

\* The process exits, or what it does is undefined.
LEMMA Stopping ==
  ASSUME CInv, NEW fate \in {"died", "undefined"}, Stop(fate)
  PROVE  CInv' /\ Kept
BY Resting DEF Stop

-----------------------------------------------------------------------------
(***************************************************************************)
(* Tasks.                                                                  *)
(***************************************************************************)

\* The tasks most actions push.
LEMMA Tasks ==
  /\ \A e \in MaybeExpressions : IsTask(Gen(e)) /\ Gen(e).kind = "gen"
  /\ \A b \in Seq(Bytes) : IsTask(EmitTask(b)) /\ EmitTask(b).kind = "emit"
BY DEF IsTask, Gen, EmitTask, MaybeExpressions

\* No tasks, or two.
LEMMA Lists ==
  /\ IsVector(<<>>) /\ DOMAIN <<>> = {}
  /\ \A s, t : /\ IsVector(<<s, t>>)
               /\ \A i \in DOMAIN <<s, t>> : <<s, t>>[i] \in {s, t}
<1>1. IsVector(<<>>) /\ DOMAIN <<>> = {}
  <2> PICK tasks : tasks = <<>>
    OBVIOUS
  <2>1. tasks \in Seq({})
    OBVIOUS
  <2>2. IsVector(tasks)
    BY <2>1, SequenceIsVector
  <2>3. DOMAIN tasks = {}
    OBVIOUS
  <2> QED BY <2>2, <2>3
<1>2. ASSUME NEW s, NEW t
      PROVE  /\ IsVector(<<s, t>>)
             /\ \A i \in DOMAIN <<s, t>> : <<s, t>>[i] \in {s, t}
  <2>1. <<s, t>> \in Seq({s, t})
    OBVIOUS
  <2>2. IsVector(<<s, t>>)
    BY <2>1, SequenceIsVector
  <2> QED BY <2>1, <2>2
<1> QED BY <1>1, <1>2

\* The activation on top.
LEMMA TopIsTask ==
  ASSUME CInv, work # <<>>
  PROVE  /\ IsTask(Top)
         /\ Top.kind \in {"gen", "if", "else", "while", "block", "enddef"} =>
              /\ Top.exp \in MaybeExpressions
              /\ \A i \in Nat : At(Top.exp, i) \in MaybeExpressions
              /\ Size(Top.exp) \in Nat
<1>1. IsTask(Top)
  <2>1. IsVector(work) /\ \A i \in DOMAIN work : IsTask(work[i])
    BY DEF CInv, WorkOK
  <2>2. Head(work) = work[1] /\ 1 \in DOMAIN work
    BY <2>1 DEF IsVector
  <2> QED BY <2>1, <2>2 DEF Top
<1> QED BY <1>1, Subexpression DEF IsTask, MaybeExpressions

\* Of all tasks only a block and the last OP_HALT run outside it.
LEMMA NotOuter ==
  /\ GenList /\ Head0 # "begin" => ~ IsOuter(Top)
  /\ Top.kind \notin {"gen", "emit"} => ~ IsOuter(Top)
BY DEF GenList, Doing, Head0, IsOuter, IsBlock, IsTaggedList, IsSymbol, ExpType, Name, Sym

\* The codes of operators are bytes.
LEMMA OperatorsAreBytes ==
  /\ \A op \in DOMAIN MathOpcodes : MathOpcodes[op] \in Bytes
  /\ \A op \in DOMAIN compareOps : compareOps[op] \in Bytes
BY DEF MathOpcodes, compareOps, Bytes, BYTE, OP_ADD, OP_SUB, OP_MUL, OP_DIV

\* The instruction for a variable.
LEMMA AccessIsCode ==
  ASSUME CInv, NEW name, NEW localOp \in Bytes, NEW globalOp \in Bytes
  PROVE  Access(CO, globals, name, localOp, globalOp) \in Seq(Bytes)
<1>1. IsVector(CO.locals) /\ IsVector(globals)
  BY Staying DEF CInv, Held, IsCodeObject, LocalsNested
<1>2. getLocalIndex(CO, name) \in Int /\ getGlobalIndex(globals, name) \in Int
  BY <1>1, LastIndexFinds DEF getLocalIndex, getGlobalIndex
<1>3. /\ Byte(getLocalIndex(CO, name)) \in Bytes
      /\ Byte(getGlobalIndex(globals, name)) \in Bytes
  BY <1>2, BytesOfNumbers
<1> QED BY <1>3 DEF Access

-----------------------------------------------------------------------------
(***************************************************************************)
(* The actions, one by one.                                                *)
(***************************************************************************)
\* A literal: its constant and OP_CONST.
LEMMA GenLiteralSafe ==
  CInv /\ GenLiteral => CInv' /\ Kept
<1> SUFFICES ASSUME CInv, GenLiteral
             PROVE  CInv' /\ Kept
  OBVIOUS
<1> DEFINE c == WithLiteral(CO, LiteralValue(Top.exp))
<1>1. status = "compiling" /\ work # <<>> /\ Top.kind = "gen"
  BY DEF GenLiteral, Doing
<1>2. UpdateCO(c) /\ Continue(<<>>) /\ UNCHANGED globals /\ Same
  BY DEF GenLiteral
<1>3. Continues(co, CO, c)
  BY Staying, Literal
<1> HIDE DEF c
<1> QED BY <1>1, <1>2, <1>3, Finishes

\* A variable: an instruction that reads it, or the end.
LEMMA GenVariableSafe ==
  CInv /\ GenVariable => CInv' /\ Kept
<1> SUFFICES ASSUME CInv, GenVariable
             PROVE  CInv' /\ Kept
  OBVIOUS
<1>1. CASE Stop("died")
  BY <1>1, Stopping
<1>2. CASE ~ Stop("died")
  <2> DEFINE code == Access(CO, globals, Name(Top.exp), OP_GET_LOCAL, OP_GET_GLOBAL)
             c == Emitted(CO, code)
  <2>1. status = "compiling" /\ work # <<>> /\ Top.kind = "gen"
    BY DEF GenVariable, Doing
  <2>2. UpdateCO(c) /\ Continue(<<>>) /\ UNCHANGED globals /\ Same
    BY <1>2 DEF GenVariable
  <2>3. code \in Seq(Bytes)
    BY AccessIsCode, OpcodesAreBytes
  <2> HIDE DEF code
  <2>4. Continues(co, CO, c)
    BY <2>3, Staying, Emission
  <2> HIDE DEF c
  <2> QED BY <2>1, <2>2, <2>4, Finishes
<1> QED BY <1>1, <1>2

\* What is not there is not compiled.
LEMMA GenMissingSafe ==
  CInv /\ GenMissing => CInv' /\ Kept
BY Stopping DEF GenMissing

\* The bytes of an operator or a call.
LEMMA EmitSafe ==
  CInv /\ Emit => CInv' /\ Kept
<1> SUFFICES ASSUME CInv, Emit
             PROVE  CInv' /\ Kept
  OBVIOUS
<1> DEFINE c == Emitted(CO, Top.bytes)
<1>1. status = "compiling" /\ work # <<>> /\ Top.kind = "emit"
  BY DEF Emit, Doing
<1>2. UpdateCO(c) /\ Continue(<<>>) /\ UNCHANGED globals /\ Same
  BY DEF Emit
<1>3. Top.bytes \in Seq(Bytes)
  BY <1>1, TopIsTask DEF IsTask
<1>4. Continues(co, CO, c)
  BY <1>3, Staying, Emission
<1> HIDE DEF c
<1> QED BY <1>1, <1>2, <1>4, Finishes

\* Arithmetic and comparisons: the operands, then the operator.
LEMMA GenBinarySafe ==
  CInv /\ GenBinary => CInv' /\ Kept
<1> SUFFICES ASSUME CInv, GenBinary
             PROVE  CInv' /\ Kept
  OBVIOUS
<1>1. status = "compiling" /\ work # <<>> /\ Top.kind = "gen"
  BY DEF GenBinary, GenList, Doing
<1>2. UNCHANGED <<codeObjects, globals>> /\ Same
  BY DEF GenBinary
<1>3. ~ IsOuter(Top)
  BY NotOuter DEF GenBinary, MathOpcodes, compareOps
<1> DEFINE left == Gen(At(Top.exp, 1))
           right == Gen(At(Top.exp, 2))
<1>4. PICK code \in Seq(Bytes) : Continue(<<left, right, EmitTask(code)>>)
  <2>1. CASE Head0 \in DOMAIN MathOpcodes
                 /\ Continue(<<left, right, EmitTask(<<MathOpcodes[Head0]>>)>>)
    <3>1. <<MathOpcodes[Head0]>> \in Seq(Bytes)
      BY <2>1, OperatorsAreBytes
    <3> QED BY <2>1, <3>1
  <2>2. CASE Head0 \in DOMAIN compareOps
                 /\ Continue(<<left, right,
                               EmitTask(<<OP_COMPARE, compareOps[Head0]>>)>>)
    <3>1. <<OP_COMPARE, compareOps[Head0]>> \in Seq(Bytes)
      BY <2>2, OperatorsAreBytes, OpcodesAreBytes
    <3> QED BY <2>2, <3>1
  <2> QED BY <2>1, <2>2 DEF GenBinary
<1>5. /\ IsTask(left) /\ left.kind = "gen" /\ IsTask(right) /\ right.kind = "gen"
      /\ IsTask(EmitTask(code)) /\ EmitTask(code).kind = "emit"
  BY <1>1, TopIsTask, Tasks
<1> HIDE DEF left, right
<1> DEFINE S == {left, right, EmitTask(code)}
<1>6. <<left, right, EmitTask(code)>> \in Seq(S)
  OBVIOUS
<1>7. \A t \in S : IsTask(t) /\ t.kind \notin {"block", "enddef"}
  BY <1>5
<1> HIDE DEF S
<1> QED BY <1>1, <1>2, <1>3, <1>4, <1>6, <1>7, Pushes

\* A call: the function and the arguments, then OP_CALL.
LEMMA GenCallSafe ==
  CInv /\ GenCall => CInv' /\ Kept
<1> SUFFICES ASSUME CInv, GenCall
             PROVE  CInv' /\ Kept
  OBVIOUS
<1>1. status = "compiling" /\ work # <<>> /\ Top.kind = "gen"
  BY DEF GenCall, GenList, Doing
<1>2. UNCHANGED <<codeObjects, globals>> /\ Same
  BY DEF GenCall
<1>3. ~ IsOuter(Top)
  BY NotOuter DEF GenCall, Keywords
<1> DEFINE n == Size(Top.exp)
           code == <<OP_CALL, Byte(n - 1)>>
           parts == [i \in 1 .. n |-> Gen(At(Top.exp, i - 1))]
           tasks == parts \o <<EmitTask(code)>>
           S == {Gen(e) : e \in MaybeExpressions} \cup {EmitTask(code)}
<1>4. Continue(tasks)
  BY DEF GenCall
<1>5. n \in Nat /\ \A i \in 1 .. n : At(Top.exp, i - 1) \in MaybeExpressions
  <2>1. n \in Nat /\ \A i \in Nat : At(Top.exp, i) \in MaybeExpressions
    BY <1>1, TopIsTask
  <2>2. \A i \in 1 .. n : i - 1 \in Nat
    BY <2>1
  <2> QED BY <2>1, <2>2
<1>6. code \in Seq(Bytes)
  <2>1. n - 1 \in Int
    BY <1>5
  <2>2. Byte(n - 1) \in Bytes
    BY <2>1, BytesOfNumbers
  <2> QED BY <2>2, OpcodesAreBytes
<1>7. \A t \in S : IsTask(t) /\ t.kind \notin {"block", "enddef"}
  <2> HIDE DEF code
  <2> QED BY <1>6, Tasks
<1>8. tasks \in Seq(S)
  <2> HIDE DEF n, code
  <2>1. parts \in [1 .. n -> S]
    BY <1>5
  <2>2. parts \in Seq(S)
    <3> HIDE DEF parts, S
    <3> QED BY <1>5, <2>1, SeqDef
  <2>3. <<EmitTask(code)>> \in Seq(S)
    OBVIOUS
  <2> HIDE DEF parts, S
  <2> QED BY <2>2, <2>3
<1> HIDE DEF tasks, S
<1> QED BY <1>1, <1>2, <1>3, <1>4, <1>7, <1>8, Pushes

\* A list that is not a form compiles to nothing.
LEMMA GenOtherSafe ==
  CInv /\ GenOther => CInv' /\ Kept
<1> SUFFICES ASSUME CInv, GenOther
             PROVE  CInv' /\ Kept
  OBVIOUS
<1>1. status = "compiling" /\ work # <<>> /\ Top.kind = "gen"
  BY DEF GenOther, Doing
<1>2. UNCHANGED <<codeObjects, globals>> /\ Same /\ Continue(<<>>)
  BY DEF GenOther
<1>3. UpdateCO(CO) /\ Continues(co, CO, CO)
  BY <1>2, Staying
<1> QED BY <1>1, <1>2, <1>3, Finishes

\* if: the test first.
LEMMA GenIfSafe ==
  CInv /\ GenIf => CInv' /\ Kept
<1> SUFFICES ASSUME CInv, GenIf
             PROVE  CInv' /\ Kept
  OBVIOUS
<1>1. status = "compiling" /\ work # <<>> /\ Top.kind = "gen"
  BY DEF GenIf, GenForm, GenList, Doing
<1> DEFINE test == Gen(At(Top.exp, 1))
           rest == [kind |-> "if", exp |-> Top.exp]
<1>2. UNCHANGED <<codeObjects, globals>> /\ Same /\ Continue(<<test, rest>>)
  BY DEF GenIf
<1>3. ~ IsOuter(Top)
  BY NotOuter DEF GenIf, GenForm
<1>4. IsTask(test) /\ test.kind = "gen"
  BY <1>1, TopIsTask, Tasks
<1>5. IsTask(rest) /\ rest.kind = "if"
  BY <1>1, TopIsTask DEF IsTask, MaybeExpressions
<1> HIDE DEF test, rest
<1> DEFINE S == {test, rest}
<1>6. <<test, rest>> \in Seq(S)
  OBVIOUS
<1>7. \A t \in S : IsTask(t) /\ t.kind \notin {"block", "enddef"}
  BY <1>4, <1>5
<1> HIDE DEF S
<1> QED BY <1>1, <1>2, <1>3, <1>6, <1>7, Pushes

\* while: the test first.
LEMMA GenWhileSafe ==
  CInv /\ GenWhile => CInv' /\ Kept
<1> SUFFICES ASSUME CInv, GenWhile
             PROVE  CInv' /\ Kept
  OBVIOUS
<1>1. status = "compiling" /\ work # <<>> /\ Top.kind = "gen"
  BY DEF GenWhile, GenForm, GenList, Doing
<1> DEFINE test == Gen(At(Top.exp, 1))
           rest == [kind |-> "while", exp |-> Top.exp,
                    loopStartAddr |-> getOffset(CO.code)]
<1>2. UNCHANGED <<codeObjects, globals>> /\ Same /\ Continue(<<test, rest>>)
  BY DEF GenWhile
<1>3. ~ IsOuter(Top)
  BY NotOuter DEF GenWhile, GenForm
<1>4. IsTask(test) /\ test.kind = "gen"
  BY <1>1, TopIsTask, Tasks
<1>5. getOffset(CO.code) \in Nat
  BY Staying, OffsetIsNatural DEF Held, IsCodeObject
<1>6. IsTask(rest) /\ rest.kind = "while"
  BY <1>1, <1>5, TopIsTask DEF IsTask, MaybeExpressions
<1> HIDE DEF test, rest
<1> DEFINE S == {test, rest}
<1>7. <<test, rest>> \in Seq(S)
  OBVIOUS
<1>8. \A t \in S : IsTask(t) /\ t.kind \notin {"block", "enddef"}
  BY <1>4, <1>6
<1> HIDE DEF S
<1> QED BY <1>1, <1>2, <1>3, <1>7, <1>8, Pushes

\* A jump is emitted with a hole for its address.
LEMMA JumpEmitted ==
  ASSUME CInv, NEW jump \in {OP_JMP, OP_JMP_IF_FALSE},
         NEW code, code = CO.code \o <<jump, 0, 0>>
  PROVE  /\ code \in Seq(Bytes) /\ getOffset(code) \in Nat
         /\ CO.code \in Seq(Bytes) /\ getOffset(CO.code) \in Nat
<1>1. CO.code \in Seq(Bytes)
  BY Staying DEF Held, IsCodeObject
<1>2. <<jump, 0, 0>> \in Seq(Bytes)
  <2>1. jump \in Bytes
    BY OpcodesAreBytes
  <2>2. 0 \in Bytes
    BY DEF Bytes, BYTE
  <2> QED BY <2>1, <2>2
<1>3. code \in Seq(Bytes)
  BY <1>1, <1>2
<1> QED BY <1>1, <1>3, OffsetIsNatural

\* if: the jump over the consequent.
LEMMA IfTestedSafe ==
  CInv /\ IfTested => CInv' /\ Kept
<1> SUFFICES ASSUME CInv, IfTested
             PROVE  CInv' /\ Kept
  OBVIOUS
<1>1. status = "compiling" /\ work # <<>> /\ Top.kind = "if"
  BY DEF IfTested, Doing
<1> PICK code : code = CO.code \o <<OP_JMP_IF_FALSE, 0, 0>>
  OBVIOUS
<1> DEFINE c == [CO EXCEPT !.code = code]
           next == Gen(At(Top.exp, 2))
           rest == [kind |-> "else", exp |-> Top.exp,
                    elseJmpAddr |-> getOffset(code) - 2]
           S == {next, rest}
<1>2. UpdateCO(c) /\ Continue(<<next, rest>>) /\ UNCHANGED globals /\ Same
  BY DEF IfTested
<1>3. Continues(co, CO, c)
  BY JumpEmitted, Staying, Recoded
<1> HIDE DEF c
<1>4. IsTask(next) /\ next.kind = "gen"
  BY <1>1, TopIsTask, Tasks
<1>5. IsTask(rest) /\ rest.kind = "else"
  BY <1>1, TopIsTask DEF IsTask, MaybeExpressions
<1> HIDE DEF next, rest
<1>6. <<next, rest>> \in Seq(S)
  OBVIOUS
<1>7. \A t \in S : IsTask(t) /\ t.kind \notin {"block", "enddef"}
  BY <1>4, <1>5
<1> HIDE DEF S
<1>8. ~ IsOuter(Top)
  BY <1>1, NotOuter
<1> QED BY <1>1, <1>2, <1>3, <1>6, <1>7, <1>8, Writes

\* if: the jump over the alternate, and the address of the first jump.
LEMMA IfConsequentSafe ==
  CInv /\ IfConsequent => CInv' /\ Kept
<1> SUFFICES ASSUME CInv, IfConsequent
             PROVE  CInv' /\ Kept
  OBVIOUS
<1>1. status = "compiling" /\ work # <<>> /\ Top.kind = "else"
  BY DEF IfConsequent, Doing
<1> PICK code : code = CO.code \o <<OP_JMP, 0, 0>>
  OBVIOUS
<1> PICK patched : patched = patchJumpAddress(code, Top.elseJmpAddr, getOffset(code))
  OBVIOUS
<1> DEFINE c == [CO EXCEPT !.code = patched]
           next == Gen(At(Top.exp, 3))
           rest == [kind |-> "endif", endAddr |-> getOffset(code) - 2]
           S == {next, rest}
<1>2. UpdateCO(c) /\ UNCHANGED globals /\ Same
  BY DEF IfConsequent
<1>3. Continue(<<next>> \o <<rest>>) \/ Continue(<<>> \o <<rest>>)
  BY DEF IfConsequent
<1>4. patched \in Seq(Bytes)
  BY JumpEmitted, Patching
<1>5. Continues(co, CO, c)
  BY <1>4, Staying, Recoded
<1> HIDE DEF c
<1>6. IsTask(next) /\ next.kind = "gen"
  BY <1>1, TopIsTask, Tasks
<1>7. IsTask(rest) /\ rest.kind = "endif"
  BY DEF IsTask
<1> HIDE DEF next, rest
<1>8. PICK tasks \in Seq(S) : Continue(tasks)
  <2>1. <<next>> \o <<rest>> \in Seq(S) /\ <<>> \o <<rest>> \in Seq(S)
    OBVIOUS
  <2> QED BY <1>3, <2>1
<1>9. \A t \in S : IsTask(t) /\ t.kind \notin {"block", "enddef"}
  BY <1>6, <1>7
<1> HIDE DEF S
<1>10. ~ IsOuter(Top)
  BY <1>1, NotOuter
<1> QED BY <1>1, <1>2, <1>5, <1>8, <1>9, <1>10, Writes

\* if: the address of the second jump.
LEMMA IfDoneSafe ==
  CInv /\ IfDone => CInv' /\ Kept
<1> SUFFICES ASSUME CInv, IfDone
             PROVE  CInv' /\ Kept
  OBVIOUS
<1>1. status = "compiling" /\ work # <<>> /\ Top.kind = "endif"
  BY DEF IfDone, Doing
<1> PICK patched : patched = patchJumpAddress(CO.code, Top.endAddr, getOffset(CO.code))
  OBVIOUS
<1> DEFINE c == [CO EXCEPT !.code = patched]
<1>2. UpdateCO(c) /\ Continue(<<>>) /\ UNCHANGED globals /\ Same
  BY DEF IfDone
<1>3. CO.code \in Seq(Bytes)
  BY Staying DEF Held, IsCodeObject
<1>4. patched \in Seq(Bytes)
  BY <1>3, OffsetIsNatural, Patching
<1>5. Continues(co, CO, c)
  BY <1>4, Staying, Recoded
<1> HIDE DEF c
<1> QED BY <1>1, <1>2, <1>5, Finishes

\* while: the jump out of the loop.
LEMMA WhileTestedSafe ==
  CInv /\ WhileTested => CInv' /\ Kept
<1> SUFFICES ASSUME CInv, WhileTested
             PROVE  CInv' /\ Kept
  OBVIOUS
<1>1. status = "compiling" /\ work # <<>> /\ Top.kind = "while"
  BY DEF WhileTested, Doing
<1> PICK code : code = CO.code \o <<OP_JMP_IF_FALSE, 0, 0>>
  OBVIOUS
<1> DEFINE c == [CO EXCEPT !.code = code]
           next == Gen(At(Top.exp, 2))
           rest == [kind |-> "loop", loopStartAddr |-> Top.loopStartAddr,
                    loopEndJmpAddr |-> getOffset(code) - 2]
           S == {next, rest}
<1>2. UpdateCO(c) /\ Continue(<<next, rest>>) /\ UNCHANGED globals /\ Same
  BY DEF WhileTested
<1>3. Continues(co, CO, c)
  BY JumpEmitted, Staying, Recoded
<1> HIDE DEF c
<1>4. IsTask(next) /\ next.kind = "gen"
  BY <1>1, TopIsTask, Tasks
<1>5. IsTask(rest) /\ rest.kind = "loop"
  BY <1>1, TopIsTask DEF IsTask
<1> HIDE DEF next, rest
<1>6. <<next, rest>> \in Seq(S)
  OBVIOUS
<1>7. \A t \in S : IsTask(t) /\ t.kind \notin {"block", "enddef"}
  BY <1>4, <1>5
<1> HIDE DEF S
<1>8. ~ IsOuter(Top)
  BY <1>1, NotOuter
<1> QED BY <1>1, <1>2, <1>3, <1>6, <1>7, <1>8, Writes

\* while: the jump back, and the address of the jump out.
LEMMA WhileDoneSafe ==
  CInv /\ WhileDone => CInv' /\ Kept
<1> SUFFICES ASSUME CInv, WhileDone
             PROVE  CInv' /\ Kept
  OBVIOUS
<1>1. status = "compiling" /\ work # <<>> /\ Top.kind = "loop"
  BY DEF WhileDone, Doing
<1> PICK jump : jump = CO.code \o <<OP_JMP, 0, 0>>
  OBVIOUS
<1> PICK code : code = patchJumpAddress(jump, getOffset(jump) - 2, Top.loopStartAddr)
  OBVIOUS
<1> PICK patched : patched = patchJumpAddress(code, Top.loopEndJmpAddr,
                                              getOffset(code) + 1)
  OBVIOUS
<1> DEFINE c == [CO EXCEPT !.code = patched]
<1>2. UpdateCO(c) /\ Continue(<<>>) /\ UNCHANGED globals /\ Same
  BY DEF WhileDone
<1>3. Top.loopStartAddr \in Nat
  BY <1>1, TopIsTask DEF IsTask
<1>4. code \in Seq(Bytes)
  BY <1>3, JumpEmitted, Patching
<1>5. getOffset(code) + 1 \in Nat
  BY <1>4, OffsetIsNatural
<1>6. patched \in Seq(Bytes)
  BY <1>4, <1>5, Patching
<1>7. Continues(co, CO, c)
  BY <1>6, Staying, Recoded
<1> HIDE DEF c
<1> QED BY <1>1, <1>2, <1>7, Finishes

\* (var name value) and (set name value).
LEMMA NameThenValueSafe ==
  ASSUME CInv, NEW form, form # "begin", NEW kind \in {"declare", "assign"},
         NameThenValue(form, kind)
  PROVE  CInv' /\ Kept
<1>1. CASE Stop("undefined")
  BY <1>1, Stopping
<1>2. CASE ~ Stop("undefined")
  <2>1. status = "compiling" /\ work # <<>> /\ Top.kind = "gen"
    BY DEF NameThenValue, GenForm, GenList, Doing
  <2> DEFINE value == Gen(At(Top.exp, 2))
             rest == [kind |-> kind, name |-> VarName(Top.exp)]
             S == {value, rest}
  <2>2. UNCHANGED <<codeObjects, globals>> /\ Same /\ Continue(<<value, rest>>)
    BY <1>2 DEF NameThenValue
  <2>3. ~ IsOuter(Top)
    BY NotOuter DEF NameThenValue, GenForm
  <2>4. IsTask(value) /\ value.kind = "gen"
    BY <2>1, TopIsTask, Tasks
  <2>5. IsTask(rest) /\ rest.kind = kind
    BY DEF IsTask
  <2> HIDE DEF value, rest
  <2>6. <<value, rest>> \in Seq(S)
    OBVIOUS
  <2>7. \A t \in S : IsTask(t) /\ t.kind \notin {"block", "enddef"}
    BY <2>4, <2>5
  <2> HIDE DEF S
  <2> QED BY <2>1, <2>2, <2>3, <2>6, <2>7, Pushes
<1> QED BY <1>1, <1>2

\* var: the value first.
LEMMA GenVarSafe ==
  CInv /\ GenVar => CInv' /\ Kept
BY NameThenValueSafe DEF GenVar

\* set: the value first.
LEMMA GenSetSafe ==
  CInv /\ GenSet => CInv' /\ Kept
BY NameThenValueSafe DEF GenSet

\* set: the store, or the end.
LEMMA SetAssignSafe ==
  CInv /\ SetAssign => CInv' /\ Kept
<1> SUFFICES ASSUME CInv, SetAssign
             PROVE  CInv' /\ Kept
  OBVIOUS
<1>1. CASE Stop("died")
  BY <1>1, Stopping
<1>2. CASE ~ Stop("died")
  <2> DEFINE code == Access(CO, globals, Top.name, OP_SET_LOCAL, OP_SET_GLOBAL)
             c == Emitted(CO, code)
  <2>1. status = "compiling" /\ work # <<>> /\ Top.kind = "assign"
    BY DEF SetAssign, Doing
  <2>2. UpdateCO(c) /\ Continue(<<>>) /\ UNCHANGED globals /\ Same
    BY <1>2 DEF SetAssign
  <2>3. code \in Seq(Bytes)
    BY AccessIsCode, OpcodesAreBytes
  <2> HIDE DEF code
  <2>4. Continues(co, CO, c)
    BY <2>3, Staying, Emission
  <2> HIDE DEF c
  <2> QED BY <2>1, <2>2, <2>4, Finishes
<1> QED BY <1>1, <1>2

\* The table of globals after a declaration.
LEMMA Defining ==
  ASSUME CInv, NEW c, NEW name, globals' = DefinedIn(c, name)
  PROVE  IsVector(globals') /\ IsExtension(globals', globals) /\ NamesUnique'
<1>1. IsVector(globals) /\ NamesUnique
  BY DEF CInv
<1>2. CASE isGlobalScope(c)
  <2>1. globals' = define(globals, name)
    BY <1>2 DEF DefinedIn
  <2> QED BY <1>1, <2>1, Definition DEF NamesUnique
<1>3. CASE ~ isGlobalScope(c)
  BY <1>3, Staying DEF DefinedIn
<1> QED BY <1>2, <1>3

\* var: the declaration and the store.
LEMMA VarDeclareSafe ==
  CInv /\ VarDeclare => CInv' /\ Kept
<1> SUFFICES ASSUME CInv, VarDeclare
             PROVE  CInv' /\ Kept
  OBVIOUS
<1>1. status = "compiling" /\ work # <<>> /\ Top.kind = "declare"
  BY DEF VarDeclare, Doing
<1> DEFINE c == Stored(CO, Top.name)
<1>2. /\ status' = status /\ co' = co
      /\ work' = <<>> \o Tail(work)
      /\ codeObjects' = [codeObjects EXCEPT ![co] = c]
  BY DEF VarDeclare, Same, Continue, UpdateCO
<1>3. IsVector(globals') /\ IsExtension(globals', globals) /\ NamesUnique'
  BY Defining DEF VarDeclare
<1>4. Continues(co, CO, c)
  <2>1. co = 1 => CO.scopeLevel # 0
    BY <1>1, NotOuter, MainIsInABlock
  <2> QED BY <2>1, Staying, Declaration DEF CInv
<1> HIDE DEF c
<1>5. PICK S : S = {}
  OBVIOUS
<1>6. PICK tasks \in Seq(S) : tasks = <<>>
  BY EmptySeq
<1>7. \A t \in S : IsTask(t) /\ t.kind \notin {"block", "enddef"}
  BY <1>5
<1>8. work' = tasks \o Tail(work)
  BY <1>2, <1>6
<1> QED BY <1>1, <1>2, <1>3, <1>4, <1>6, <1>7, <1>8, InScope

-----------------------------------------------------------------------------
(***************************************************************************)
(* Blocks.                                                                 *)
(***************************************************************************)
\* begin: a scope is entered.
LEMMA GenBeginSafe ==
  CInv /\ GenBegin => CInv' /\ Kept
<1> SUFFICES ASSUME CInv, GenBegin
             PROVE  CInv' /\ Kept
  OBVIOUS
<1>1. status = "compiling" /\ work # <<>> /\ Top.kind = "gen"
  BY DEF GenBegin, GenForm, GenList, Doing
<1> PICK c : c = [CO EXCEPT !.scopeLevel = @ + 1]
  OBVIOUS
<1> PICK block : block = [kind |-> "block", exp |-> Top.exp, i |-> 1]
  OBVIOUS
<1> PICK tasks : tasks = <<block>>
  OBVIOUS
<1>2. /\ status' = status /\ co' = co
      /\ work' = tasks \o Tail(work)
      /\ codeObjects' = [codeObjects EXCEPT ![co] = c]
  BY DEF GenBegin, Same, Continue, UpdateCO
<1>3. IsVector(globals') /\ IsExtension(globals', globals) /\ NamesUnique'
  BY Staying DEF GenBegin
<1>4. Held(co, c) /\ Grown(CO, c) /\ c.scopeLevel = CO.scopeLevel + 1
  BY Staying, Entering
<1>5. IsTask(block) /\ block.kind = "block"
  BY <1>1, TopIsTask DEF IsTask, MaybeExpressions
<1>6. tasks \in Seq({block}) /\ Len(tasks) = 1 /\ DOMAIN tasks = {1} /\ tasks[1] = block
      /\ tasks # <<>>
  OBVIOUS
<1>7. IsVector(tasks)
  BY <1>6, SequenceIsVector
<1>8. CO.scopeLevel \in Nat
  BY Staying DEF Held, IsCodeObject
<1>9. c.scopeLevel # 0 /\ c.scopeLevel = CO.scopeLevel - Depth(Top)
                      + (IF tasks = <<>> THEN 0 ELSE Depth(tasks[Len(tasks)]))
  BY <1>1, <1>4, <1>5, <1>6, <1>8 DEF Depth
<1> QED BY <1>1, <1>2, <1>3, <1>4, <1>5, <1>6, <1>7, <1>9, InCodeObject, ZenonT(30)

\* begin: an expression, and the OP_POP of its value.
LEMMA BlockItemSafe ==
  CInv /\ BlockItem => CInv' /\ Kept
<1> SUFFICES ASSUME CInv, BlockItem
             PROVE  CInv' /\ Kept
  OBVIOUS
<1>1. status = "compiling" /\ work # <<>> /\ Top.kind = "block"
  BY DEF BlockItem, Doing
<1> PICK item : item = Gen(At(Top.exp, Top.i))
  OBVIOUS
<1> PICK pop : pop = EmitTask(<<OP_POP>>)
  OBVIOUS
<1> PICK block : block = [Top EXCEPT !.i = @ + 1]
  OBVIOUS
<1>2. PICK front \in Seq({item, pop}) : work' = front \o <<block>> \o Tail(work)
  <2>1. \/ Continue(<<item>> \o <<>> \o <<block>>)
        \/ Continue(<<item>> \o <<pop>> \o <<block>>)
    BY DEF BlockItem
  <2>2. /\ <<item>> \o <<>> \in Seq({item, pop})
        /\ <<item>> \o <<pop>> \in Seq({item, pop})
    OBVIOUS
  <2> QED BY <2>1, <2>2 DEF Continue
<1> PICK tasks : tasks = front \o <<block>>
  OBVIOUS
<1>3. /\ status' = status /\ co' = co
      /\ codeObjects' = [codeObjects EXCEPT ![co] = CO]
  BY Staying DEF BlockItem, Same, UpdateCO
<1>4. IsVector(globals') /\ IsExtension(globals', globals) /\ NamesUnique'
  BY Staying DEF BlockItem
<1>5. Held(co, CO) /\ Grown(CO, CO)
  BY Staying DEF Continues
<1>6. /\ Top = [kind |-> "block", exp |-> Top.exp, i |-> Top.i] /\ Top.i \in Nat
      /\ Top.exp \in Expressions \cup {Missing}
      /\ At(Top.exp, Top.i) \in MaybeExpressions
  BY <1>1, TopIsTask DEF IsTask, MaybeExpressions
<1>7. IsTask(block) /\ block.kind = "block"
  <2>1. block = [kind |-> "block", exp |-> Top.exp, i |-> Top.i + 1]
    BY <1>6
  <2>2. block.kind = "block" /\ block.exp = Top.exp /\ block.i = Top.i + 1
    BY <2>1
  <2>3. Top.i + 1 \in Nat /\ Top.exp \in Expressions \cup {Missing}
    BY <1>6
  <2>4. block = [kind |-> "block", exp |-> block.exp, i |-> block.i]
    BY <2>1, <2>2
  <2> QED BY <2>2, <2>3, <2>4 DEF IsTask
<1>8. IsTask(item) /\ item.kind = "gen"
  BY <1>6, Tasks
<1>9. IsTask(pop) /\ pop.kind = "emit"
  <2>1. <<OP_POP>> \in Seq(Bytes)
    BY OpcodesAreBytes
  <2> QED BY <2>1, Tasks
<1>10. /\ IsVector(tasks) /\ tasks # <<>>
       /\ tasks[Len(tasks)] = block
       /\ \A i \in DOMAIN tasks :
            /\ tasks[i] \in {item, pop, block}
            /\ i # Len(tasks) => tasks[i] \in {item, pop}
  <2> PICK S : S = {item, pop, block}
    OBVIOUS
  <2>1. /\ front \in Seq(S) /\ Len(front) \in Nat
        /\ \A i \in 1 .. Len(front) : front[i] \in {item, pop}
    OBVIOUS
  <2>2. <<block>> \in Seq(S) /\ Len(<<block>>) = 1 /\ <<block>>[1] = block
    OBVIOUS
  <2>3. /\ tasks \in Seq(S)
        /\ Len(tasks) = Len(front) + 1
        /\ \A i \in 1 .. Len(front) + 1 :
             tasks[i] = IF i <= Len(front) THEN front[i] ELSE <<block>>[i - Len(front)]
    BY <2>1, <2>2, ConcatProperties
  <2>4. DOMAIN tasks = 1 .. Len(front) + 1 /\ IsVector(tasks)
    <3>1. IsVector(tasks)
      BY <2>3, SequenceIsVector
    <3>2. DOMAIN tasks = 1 .. Len(tasks)
      BY <3>1, VectorDomain
    <3> QED BY <2>3, <3>1, <3>2
  <2> PICK m : m = Len(front)
    OBVIOUS
  <2>5. m + 1 \in 1 .. m + 1 /\ ~ (m + 1 <= m) /\ m + 1 - m = 1
    BY <2>1
  <2>6. tasks[m + 1] = block
    BY <2>2, <2>3, <2>5
  <2>7. ASSUME NEW i \in 1 .. m + 1, i # m + 1
        PROVE  tasks[i] \in {item, pop}
    <3>1. i \in 1 .. m /\ i <= m
      BY <2>1, <2>7
    <3> QED BY <2>1, <2>3, <3>1
  <2>8. tasks # <<>>
    BY <2>1, <2>3
  <2> QED BY <2>3, <2>4, <2>6, <2>7, <2>8
<1>11. /\ \A i \in DOMAIN tasks : IsTask(tasks[i])
       /\ \A i \in DOMAIN tasks : tasks[i].kind # "enddef"
       /\ \A i \in DOMAIN tasks : tasks[i].kind = "block" => i = Len(tasks)
  BY <1>7, <1>8, <1>9, <1>10
<1>12. CO.scopeLevel \in Nat
  BY Staying DEF Held, IsCodeObject
<1>13. CO.scopeLevel = CO.scopeLevel - Depth(Top)
                      + (IF tasks = <<>> THEN 0 ELSE Depth(tasks[Len(tasks)]))
  BY <1>1, <1>7, <1>10, <1>12 DEF Depth
<1>14. ~ (co = 1 /\ CO.scopeLevel = 0)
  BY <1>1, NotOuter, MainIsInABlock
<1> QED BY <1>1, <1>2, <1>3, <1>4, <1>5, <1>10, <1>11, <1>13, <1>14, InCodeObject

\* The scope of a block is still open when the block is done.
LEMMA BlockIsOpen ==
  ASSUME CInv, work # <<>>, Top.kind = "block"
  PROVE  CO.scopeLevel # 0
<1>1. PICK owner, level : Pending(owner, level)
  BY DEF CInv
<1>2. IsVector(work)
  BY DEF CInv, WorkOK
<1>3. Len(work) \in Nat \ {0}
  BY <1>2 DEF IsVector
<1>4. Len(work) \in 1 .. Len(work) /\ AtHeight(Len(work)) = Top
  <2>1. Len(work) + 1 - Len(work) = 1
    BY <1>3
  <2> QED BY <1>2, <1>3, <2>1 DEF AtHeight, Top, IsVector
<1>5. Len(work) - 1 \in 0 .. Len(work)
  BY <1>3
<1>6. /\ level[Len(work)] = CO.scopeLevel /\ level[Len(work) - 1] \in Nat
      /\ Link(Top, owner[Len(work) - 1], level[Len(work) - 1],
              owner[Len(work)], level[Len(work)])
  BY <1>1, <1>4, <1>5 DEF Pending
<1> QED BY <1>6 DEF Link

\* begin: the scope is left.
LEMMA BlockDoneSafe ==
  CInv /\ BlockDone => CInv' /\ Kept
<1> SUFFICES ASSUME CInv, BlockDone
             PROVE  CInv' /\ Kept
  OBVIOUS
<1>1. CASE Stop("undefined")
  BY <1>1, Stopping
<1>2. CASE ~ Stop("undefined")
  <2>1. status = "compiling" /\ work # <<>> /\ Top.kind = "block"
    BY DEF BlockDone, Doing
  <2> PICK c : c = ScopeExited(CO)
    OBVIOUS
  <2> PICK tasks : tasks = <<>>
    OBVIOUS
  <2>2. /\ status' = status /\ co' = co
        /\ work' = tasks \o Tail(work)
        /\ codeObjects' = [codeObjects EXCEPT ![co] = c]
        /\ UNCHANGED globals
    BY <1>2 DEF BlockDone, Same, Continue, UpdateCO
  <2>3. IsVector(globals') /\ IsExtension(globals', globals) /\ NamesUnique'
    BY <2>2, Staying
  <2>4. Held(co, c) /\ Grown(CO, c) /\ c.scopeLevel = CO.scopeLevel - 1
    BY <2>1, Staying, BlockIsOpen, Exiting
  <2>5. IsVector(tasks) /\ \A i \in DOMAIN tasks : FALSE
    <3>1. tasks \in Seq({})
      OBVIOUS
    <3>2. DOMAIN tasks = {}
      OBVIOUS
    <3> QED BY <3>1, <3>2, SequenceIsVector
  <2>6. CO.scopeLevel \in Nat
    BY Staying DEF Held, IsCodeObject
  <2>7. c.scopeLevel = CO.scopeLevel - Depth(Top)
                      + (IF tasks = <<>> THEN 0 ELSE Depth(tasks[Len(tasks)]))
    BY <2>1, <2>4, <2>6 DEF Depth
  <2> QED BY <2>1, <2>2, <2>3, <2>4, <2>5, <2>7, InCodeObject
<1> QED BY <1>1, <1>2

-----------------------------------------------------------------------------
(***************************************************************************)
(* Functions.                                                              *)
(***************************************************************************)

\* The parameters of a def are as many as its list has elements.
LEMMA ArityIsNatural ==
  ASSUME NEW e \in MaybeExpressions
  PROVE  Arity(e) \in Nat
<1>1. At(e, 2) \in MaybeExpressions
  BY Subexpression
<1>2. IsVector(Params(e))
  BY <1>1, Subexpression DEF Params
<1> QED BY <1>2, VectorDomain DEF Arity

\* The code object of a def: itself and its parameters, and nothing yet.
LEMMA NewFunction ==
  ASSUME NEW e \in MaybeExpressions, NEW f, f # 1,
         NEW c, c = [CodeObject(VarName(e), Arity(e)) EXCEPT !.locals = FunctionLocals(e)]
  PROVE  Held(f, c) /\ c.scopeLevel = 0
<1> DEFINE locals == FunctionLocals(e)
           n == Arity(e)
           itself == LocalVar(VarName(e), 0)
           params == [i \in 1 .. n |-> LocalVar(Name(Params(e)[i]), 0)]
<1>1. n \in Nat
  BY ArityIsNatural
<1>2. locals = <<itself>> \o params
  BY DEF FunctionLocals
<1>3. itself.scopeLevel = 0 /\ itself.name = VarName(e)
  BY DEF LocalVar
<1>4. \A i \in 1 .. n : params[i].scopeLevel = 0
  BY DEF LocalVar
<1> PICK S : S = {itself} \cup {params[i] : i \in 1 .. n}
  OBVIOUS
<1>5. <<itself>> \in Seq(S) /\ Len(<<itself>>) = 1 /\ <<itself>>[1] = itself
  OBVIOUS
<1>6. params \in Seq(S) /\ Len(params) = n
  <2>1. params \in [1 .. n -> S]
    OBVIOUS
  <2> HIDE DEF params, n
  <2>2. params \in Seq(S)
    BY <1>1, <2>1, SeqDef
  <2> QED BY <1>1, <2>1, <2>2, LenProperties
<1> HIDE DEF n, params, itself, locals
<1>7. /\ locals \in Seq(S) /\ Len(locals) = 1 + n
      /\ \A i \in 1 .. 1 + n :
           locals[i] = IF i <= 1 THEN <<itself>>[i] ELSE params[i - 1]
  BY <1>2, <1>5, <1>6, ConcatProperties
<1>8. locals[1] = itself /\ 1 \in 1 .. 1 + n
  BY <1>1, <1>5, <1>7
<1>9. ASSUME NEW i \in 1 .. 1 + n
      PROVE  locals[i].scopeLevel = 0
  <2>1. CASE i = 1
    BY <1>3, <1>8, <2>1
  <2>2. CASE i # 1
    <3>1. i - 1 \in 1 .. n /\ ~ (i <= 1)
      BY <1>1, <2>2
    <3> QED BY <1>4, <1>7, <3>1
  <2> QED BY <2>1, <2>2
<1>10. IsVector(locals) /\ DOMAIN locals = 1 .. 1 + n
  <2>1. IsVector(locals)
    BY <1>7, SequenceIsVector
  <2> QED BY <1>7, <2>1, VectorDomain
<1>11. c = [name |-> VarName(e), arity |-> n, constants |-> <<>>, code |-> <<>>,
            scopeLevel |-> 0, locals |-> locals]
  BY DEF CodeObject, n, locals
<1>12. /\ c.name = VarName(e) /\ c.arity = n /\ c.constants = <<>> /\ c.code = <<>>
       /\ c.scopeLevel = 0 /\ c.locals = locals
  BY <1>11
<1>13. IsVector(c.constants) /\ c.code \in Seq(Bytes)
  <2>1. IsVector(c.constants)
    BY <1>12, Lists
  <2>2. c.code \in Seq(Bytes)
    BY <1>12, EmptySeq
  <2> QED BY <2>1, <2>2
<1>14. LocalsNested(c)
  BY <1>9, <1>10, <1>12 DEF LocalsNested
<1>15. IsCodeObject(c)
  <2>1. c = [name |-> c.name, arity |-> c.arity, constants |-> c.constants,
             code |-> c.code, scopeLevel |-> c.scopeLevel, locals |-> c.locals]
    BY <1>11, <1>12
  <2>2. c.arity \in Nat /\ c.scopeLevel \in Nat
    BY <1>1, <1>12
  <2> QED BY <1>13, <1>14, <2>1, <2>2 DEF IsCodeObject
<1>16. ParametersFirst(c)
  <2>1. n + 1 = 1 + n /\ 1 + n >= n + 1
    BY <1>1
  <2> QED BY <1>3, <1>7, <1>8, <1>9, <1>12, <2>1 DEF ParametersFirst
<1> QED BY <1>12, <1>15, <1>16 DEF Held

\* def puts a code object behind the others and a constant into co.
LEMMA FunctionAdded ==
  ASSUME IsVector(codeObjects), co \in DOMAIN codeObjects, NEW c, NEW fn,
         codeObjects' = [codeObjects EXCEPT ![co] = c] \o <<fn>>,
         NEW new, new = Len(codeObjects) + 1
  PROVE  /\ DOMAIN codeObjects = 1 .. Len(codeObjects) /\ Len(codeObjects) \in Nat
         /\ IsVector(codeObjects') /\ Len(codeObjects') = Len(codeObjects) + 1
         /\ \A f \in DOMAIN codeObjects :
              codeObjects'[f] = IF f = co THEN c ELSE codeObjects[f]
         /\ codeObjects'[new] = fn
         /\ DOMAIN codeObjects' = 1 .. new
<1> PICK objects : objects = [codeObjects EXCEPT ![co] = c]
  OBVIOUS
<1>1. DOMAIN codeObjects = 1 .. Len(codeObjects) /\ Len(codeObjects) \in Nat
  BY VectorDomain
<1>2. /\ IsVector(objects) /\ Len(objects) = Len(codeObjects)
      /\ \A f \in DOMAIN codeObjects : objects[f] = IF f = co THEN c ELSE codeObjects[f]
  <2>1. IsVector(objects) /\ Len(objects) = Len(codeObjects)
    BY <1>1, VectorUpdate, ZenonT(30)
  <2> QED BY <2>1
<1>3. IsVector(<<fn>>) /\ Len(<<fn>>) = 1 /\ <<fn>>[1] = fn
  <2>1. <<fn>> \in Seq({fn})
    OBVIOUS
  <2> QED BY <2>1, SequenceIsVector
<1>4. /\ IsVector(codeObjects') /\ Len(codeObjects') = Len(codeObjects) + 1
      /\ \A f \in 1 .. Len(codeObjects) + 1 :
           codeObjects'[f] = IF f <= Len(codeObjects) THEN objects[f]
                             ELSE <<fn>>[f - Len(codeObjects)]
  BY <1>2, <1>3, VectorConcat
<1>5. ASSUME NEW f \in DOMAIN codeObjects
      PROVE  codeObjects'[f] = objects[f]
  <2>1. f \in 1 .. Len(codeObjects) + 1 /\ f <= Len(codeObjects)
    BY <1>1
  <2> QED BY <1>4, <2>1
<1>6. codeObjects'[new] = fn
  <2>1. /\ new \in 1 .. Len(codeObjects) + 1 /\ ~ (new <= Len(codeObjects))
        /\ new - Len(codeObjects) = 1
    BY <1>1
  <2> QED BY <1>3, <1>4, <2>1
<1>7. DOMAIN codeObjects' = 1 .. new
  BY <1>4, VectorDomain
<1> QED BY <1>1, <1>2, <1>4, <1>5, <1>6, <1>7

\* def: the new code object is the one being filled.
LEMMA GenDefSafe ==
  CInv /\ GenDef => CInv' /\ Kept
<1> SUFFICES ASSUME CInv, GenDef
             PROVE  CInv' /\ Kept
  OBVIOUS
<1>1. CASE Stop("undefined")
  BY <1>1, Stopping
<1>2. CASE ~ Stop("undefined")
  <2>1. status = "compiling" /\ work # <<>> /\ Top.kind = "gen" /\ ~ IsOuter(Top)
    BY NotOuter DEF GenDef, GenForm, GenList, Doing
  <2> PICK new : new = Len(codeObjects) + 1
    OBVIOUS
  <2> PICK c : c = addConst(CO, CODE(new))
    OBVIOUS
  <2> PICK fn : fn = [CodeObject(VarName(Top.exp), Arity(Top.exp))
                        EXCEPT !.locals = FunctionLocals(Top.exp)]
    OBVIOUS
  <2> PICK body : body = Gen(At(Top.exp, 3))
    OBVIOUS
  <2> PICK rest : rest = [kind |-> "enddef", exp |-> Top.exp, prevCo |-> co]
    OBVIOUS
  <2> PICK tasks : tasks = <<body, rest>>
    OBVIOUS
  <2> PICK objects : objects = [codeObjects EXCEPT ![co] = c]
    OBVIOUS
  <2>2. /\ codeObjects' = objects \o <<fn>>
        /\ co' = new /\ work' = tasks \o Tail(work)
        /\ UNCHANGED globals /\ status' = status
    BY <1>2 DEF GenDef, Continue, CO
  <2>3. /\ IsVector(codeObjects) /\ co \in DOMAIN codeObjects
        /\ \A f \in DOMAIN codeObjects : Held(f, codeObjects[f])
        /\ DOMAIN codeObjects = 1 .. Len(codeObjects) /\ Len(codeObjects) \in Nat
    BY Holding, VectorDomain DEF CInv
  <2>4. new \in Nat /\ new # 1
    BY <2>3
  <2>5. Continues(co, CO, c)
    BY Staying, Pooled
  <2>6. Held(new, fn) /\ fn.scopeLevel = 0
    BY <2>1, <2>4, TopIsTask, NewFunction
  <2>9. codeObjects' = [codeObjects EXCEPT ![co] = c] \o <<fn>>
    BY <2>2
  <2>10. /\ IsVector(codeObjects') /\ Len(codeObjects') = Len(codeObjects) + 1
         /\ \A f \in DOMAIN codeObjects :
              codeObjects'[f] = IF f = co THEN c ELSE codeObjects[f]
         /\ codeObjects'[new] = fn
         /\ DOMAIN codeObjects' = 1 .. new
    BY <2>3, <2>9, FunctionAdded
  <2>11. Kept
    <3>1. ASSUME NEW f \in DOMAIN codeObjects
          PROVE  Grown(codeObjects[f], codeObjects'[f])
      <4>1. CASE f = co
        BY <2>5, <2>10, <4>1 DEF Continues, CO
      <4>2. CASE f # co
        BY <2>3, <2>10, <4>2, GrownItself
      <4> QED BY <4>1, <4>2
    <3>2. Len(codeObjects') >= Len(codeObjects)
      BY <2>3, <2>10
    <3> QED BY <2>2, <3>1, <3>2, Staying DEF Kept
  <2>12. CodeObjectsOK'
    <3>1. ASSUME NEW f \in 1 .. new
          PROVE  Held(f, codeObjects'[f])
      <4>1. CASE f = new
        BY <2>6, <2>10, <4>1
      <4>2. CASE f # new
        <5>1. f \in DOMAIN codeObjects
          BY <2>3, <4>2
        <5>2. CASE f = co
          BY <2>5, <2>10, <5>1, <5>2 DEF Continues
        <5>3. CASE f # co
          BY <2>3, <2>10, <5>1, <5>3
        <5> QED BY <5>2, <5>3
      <4> QED BY <4>1, <4>2
    <3>2. new \in 1 .. new
      BY <2>3
    <3> QED BY <2>2, <2>10, <3>1, <3>2 DEF CodeObjectsOK, Held
  <2>13. IsTask(body) /\ body.kind = "gen"
    BY <2>1, TopIsTask, Tasks
  <2>14. IsTask(rest) /\ rest.kind = "enddef" /\ rest.prevCo = co
    BY <2>1, TopIsTask DEF IsTask, MaybeExpressions
  <2>15. WorkOK'
    <3>1. IsVector(tasks) /\ \A i \in DOMAIN tasks : tasks[i] \in {body, rest}
      BY Lists
    <3> QED BY <2>1, <2>2, <2>13, <2>14, <3>1, Pushing DEF CInv
  <2>16. (\E owner, level : Pending(owner, level))'
    <3>1. PICK owner, level : Pending(owner, level)
      BY DEF CInv
    <3>2. \A f \in DOMAIN codeObjects :
            codeObjects'[f].scopeLevel = codeObjects[f].scopeLevel
      BY <2>5, <2>10 DEF Continues, CO
    <3>3. /\ codeObjects'[co'].scopeLevel = 0
          /\ co' = Len(codeObjects) + 1
      BY <2>2, <2>6, <2>10
    <3>4. work' = <<body, rest>> \o Tail(work) /\ IsVector(work)
      BY <2>2 DEF CInv, WorkOK
    <3>5. \E o, l : Pending(o, l)'
      BY <2>1, <2>3, <2>10, <2>13, <2>14, <3>1, <3>2, <3>3, <3>4, Suspending
    <3> QED BY <3>5
  <2>17. IsVector(globals') /\ NamesUnique'
    BY <2>2, Staying
  <2> QED BY <2>1, <2>2, <2>11, <2>12, <2>15, <2>16, <2>17 DEF CInv
<1> QED BY <1>1, <1>2

\* A body that is not a block ends in a scopeExit() of its own.
LEMMA EpilogueIsCode ==
  ASSUME NEW e \in MaybeExpressions
  PROVE  Epilogue(e) \in Seq(Bytes)
<1>1. Arity(e) + 1 \in Int
  BY ArityIsNatural
<1>2. Byte(Arity(e) + 1) \in Bytes
  BY <1>1, BytesOfNumbers
<1>3. <<OP_SCOPE_EXIT, Byte(Arity(e) + 1)>> \in Seq(Bytes) /\ <<OP_RETURN>> \in Seq(Bytes)
  BY <1>2, OpcodesAreBytes
<1> QED BY <1>3 DEF Epilogue

\* The code object that a def is compiled from is an enclosing one; main is
\* in a block.
LEMMA Suspended ==
  ASSUME CInv, work # <<>>, Top.kind = "enddef"
  PROVE  /\ Top.prevCo \in DOMAIN codeObjects /\ Top.prevCo < co
         /\ Top.prevCo = 1 => codeObjects[Top.prevCo].scopeLevel # 0
<1>1. PICK owner, level : Pending(owner, level)
  BY DEF CInv
<1>2. IsVector(work)
  BY DEF CInv, WorkOK
<1>3. Len(work) \in Nat \ {0}
  BY <1>2 DEF IsVector
<1>4. Len(work) \in 1 .. Len(work) /\ AtHeight(Len(work)) = Top
  <2>1. Len(work) + 1 - Len(work) = 1
    BY <1>3
  <2> QED BY <1>2, <1>3, <2>1 DEF AtHeight, Top, IsVector
<1>5. Len(work) - 1 \in 0 .. Len(work)
  BY <1>3
<1>6. /\ owner[Len(work)] = co /\ owner[Len(work) - 1] \in DOMAIN codeObjects
      /\ Link(Top, owner[Len(work) - 1], level[Len(work) - 1],
              owner[Len(work)], level[Len(work)])
  BY <1>1, <1>4, <1>5 DEF Pending
<1> QED BY <1>6 DEF Link

\* The end of a def writes to its own code object and to the enclosing one.
LEMMA TwoReplaced ==
  ASSUME IsVector(codeObjects), co \in DOMAIN codeObjects,
         NEW prev \in DOMAIN codeObjects, prev # co, NEW inner, NEW outer,
         codeObjects' = [codeObjects EXCEPT ![co] = inner, ![prev] = outer]
  PROVE  /\ IsVector(codeObjects') /\ Len(codeObjects') = Len(codeObjects)
         /\ DOMAIN codeObjects' = DOMAIN codeObjects
         /\ codeObjects'[prev] = outer /\ codeObjects'[co] = inner
         /\ \A f \in DOMAIN codeObjects :
              f # prev /\ f # co => codeObjects'[f] = codeObjects[f]
<1> DEFINE first == [codeObjects EXCEPT ![co] = inner]
<1>1. /\ IsVector(first) /\ Len(first) = Len(codeObjects)
      /\ DOMAIN first = DOMAIN codeObjects /\ first[co] = inner
      /\ \A f \in DOMAIN codeObjects : f # co => first[f] = codeObjects[f]
  BY VectorUpdate
<1>2. codeObjects' = [first EXCEPT ![prev] = outer]
  OBVIOUS
<1> HIDE DEF first
<1>3. IsVector(codeObjects') /\ Len(codeObjects') = Len(first)
  <2>1. prev \in DOMAIN first /\ IsVector(first)
    BY <1>1
  <2>2. \A v : /\ IsVector([first EXCEPT ![prev] = v])
              /\ Len([first EXCEPT ![prev] = v]) = Len(first)
    BY <2>1, VectorUpdate
  <2> QED BY <1>2, <2>2
<1>4. /\ codeObjects'[prev] = outer /\ DOMAIN codeObjects' = DOMAIN first
      /\ \A f \in DOMAIN first : f # prev => codeObjects'[f] = first[f]
  BY <1>1, <1>2
<1> QED BY <1>1, <1>3, <1>4

\* def: back in the code object it was found in.
LEMMA DefDoneSafe ==
  CInv /\ DefDone => CInv' /\ Kept
<1> SUFFICES ASSUME CInv, DefDone
             PROVE  CInv' /\ Kept
  OBVIOUS
<1>1. status = "compiling" /\ work # <<>> /\ Top.kind = "enddef"
  BY DEF DefDone, Doing
<1> PICK name : name = VarName(Top.exp)
  OBVIOUS
<1> PICK prev : prev = Top.prevCo
  OBVIOUS
<1> PICK withFn : withFn = addConst(codeObjects[prev], FUNCTION(co))
  OBVIOUS
<1> DEFINE bytes == <<OP_CONST, Byte(Len(withFn.constants) - 1)>>
<1> PICK withRef : withRef = Emitted(withFn, bytes)
  OBVIOUS
<1> PICK inner : inner = Emitted(CO, Epilogue(Top.exp))
  OBVIOUS
<1> PICK outer : outer = Stored(withRef, name)
  OBVIOUS
<1>2. /\ codeObjects' = [codeObjects EXCEPT ![co] = inner, ![prev] = outer]
      /\ globals' = DefinedIn(withRef, name)
      /\ co' = prev
      /\ work' = <<>> \o Tail(work)
      /\ status' = status
  BY DEF DefDone, Continue, CO
<1> HIDE DEF bytes
<1>3. /\ IsVector(codeObjects) /\ co \in DOMAIN codeObjects
      /\ \A f \in DOMAIN codeObjects : Held(f, codeObjects[f])
      /\ DOMAIN codeObjects = 1 .. Len(codeObjects) /\ Len(codeObjects) \in Nat
  BY Holding, VectorDomain DEF CInv
<1>4. /\ prev \in DOMAIN codeObjects /\ prev # co
      /\ prev = 1 => codeObjects[prev].scopeLevel # 0
  BY <1>1, <1>3, Suspended
<1>5. /\ IsVector(codeObjects') /\ Len(codeObjects') = Len(codeObjects)
      /\ DOMAIN codeObjects' = DOMAIN codeObjects
      /\ codeObjects'[prev] = outer /\ codeObjects'[co] = inner
      /\ \A f \in DOMAIN codeObjects :
           f # prev /\ f # co => codeObjects'[f] = codeObjects[f]
  BY <1>2, <1>3, <1>4, TwoReplaced
<1>6. Continues(co, CO, inner)
  <2>1. Epilogue(Top.exp) \in Seq(Bytes)
    BY <1>1, TopIsTask, EpilogueIsCode
  <2> QED BY <2>1, Staying, Emission
<1>7. Continues(prev, codeObjects[prev], outer)
  <2> PICK old : old = codeObjects[prev]
    OBVIOUS
  <2>1. Held(prev, old)
    BY <1>3, <1>4
  <2>2. Continues(prev, old, withFn) /\ Held(prev, withFn)
    BY <2>1, Pooled DEF Continues
  <2>3. bytes \in Seq(Bytes)
    <3>1. Len(withFn.constants) - 1 \in Int
      BY <2>2, VectorDomain DEF Held, IsCodeObject
    <3>2. Byte(Len(withFn.constants) - 1) \in Bytes
      BY <3>1, BytesOfNumbers
    <3> QED BY <3>2, OpcodesAreBytes DEF bytes
  <2>4. Continues(prev, withFn, withRef) /\ Held(prev, withRef)
    BY <2>2, <2>3, Emission DEF Continues
  <2>5. prev = 1 => withRef.scopeLevel # 0
    BY <1>4, <2>2, <2>4 DEF Continues
  <2>6. Continues(prev, withRef, outer)
    BY <2>4, <2>5, Declaration DEF CInv
  <2>7. Continues(prev, old, withRef)
    BY <2>1, <2>2, <2>4, Onwards
  <2> QED BY <2>1, <2>6, <2>7, Onwards
<1>8. ASSUME NEW f \in DOMAIN codeObjects
      PROVE  Continues(f, codeObjects[f], codeObjects'[f])
  <2>1. CASE f = prev
    BY <1>5, <1>7, <2>1
  <2>2. CASE f = co
    BY <1>5, <1>6, <2>2 DEF CO
  <2>3. CASE f # prev /\ f # co
    BY <1>3, <1>5, <2>3, GrownItself
  <2> QED BY <2>1, <2>2, <2>3
<1>9. IsVector(globals') /\ IsExtension(globals', globals) /\ NamesUnique'
  BY <1>2, Defining
<1>10. Kept
  BY <1>3, <1>5, <1>8, <1>9 DEF Kept, Continues
<1>11. CodeObjectsOK'
  BY <1>2, <1>4, <1>5, <1>8 DEF CodeObjectsOK, Continues, Held
<1>12. WorkOK'
  <2> PICK tasks : tasks = <<>>
    OBVIOUS
  <2>1. IsVector(tasks) /\ DOMAIN tasks = {}
    BY Lists
  <2> QED BY <1>1, <1>2, <2>1, Pushing DEF CInv
<1>13. (\E owner, level : Pending(owner, level))'
  <2>1. PICK owner, level : Pending(owner, level)
    BY DEF CInv
  <2>2. \A f \in DOMAIN codeObjects :
          codeObjects'[f].scopeLevel = codeObjects[f].scopeLevel
    BY <1>8 DEF Continues
  <2>3. IsVector(work)
    BY DEF CInv, WorkOK
  <2>4. Pending(owner, level)'
    BY <1>1, <1>2, <1>3, <1>5, <2>1, <2>2, <2>3, Restoring
  <2> QED BY <2>4
<1> QED BY <1>1, <1>2, <1>9, <1>10, <1>11, <1>12, <1>13 DEF CInv

-----------------------------------------------------------------------------
(***************************************************************************)
(* The invariant.                                                          *)
(***************************************************************************)

\* The globals of a new machine are not doubles.
LEMMA InitialGlobalsUnique ==
  ASSUME globals = InitialGlobals
  PROVE  IsVector(globals) /\ NamesUnique
<1> DEFINE natives == addNativeFunction(<<>>, "native-square")
<1>1. /\ IsVector(<<>>)
      /\ \A i, j \in DOMAIN <<>> : <<>>[i].name = <<>>[j].name => i = j
  BY Lists
<1>2. /\ IsVector(natives)
      /\ \A i, j \in DOMAIN natives : natives[i].name = natives[j].name => i = j
  BY <1>1, Registered DEF addNativeFunction
<1>3. globals = addGlobal(natives, "y", 20)
  BY DEF InitialGlobals
<1> HIDE DEF natives
<1>4. CASE exists(natives, "y")
  BY <1>2, <1>3, <1>4 DEF addGlobal, NamesUnique
<1>5. CASE ~ exists(natives, "y")
  <2>1. globals = Append(natives, GlobalVar("y", NUMBER(20)))
    BY <1>3, <1>5 DEF addGlobal
  <2> QED BY <1>2, <1>5, <2>1, Registered DEF NamesUnique
<1> QED BY <1>4, <1>5

\* compile() starts with main, and its program's block and OP_HALT to do.
LEMMA Starting ==
  Init => CInv
<1> SUFFICES ASSUME Init
             PROVE  CInv
  OBVIOUS
<1> PICK main : main = CodeObject("main", 0)
  OBVIOUS
<1> PICK block : block = Gen(program)
  OBVIOUS
<1> PICK halt : halt = EmitTask(<<OP_HALT>>)
  OBVIOUS
<1>1. /\ codeObjects = <<main>> /\ co = 1 /\ work = <<block, halt>>
      /\ status = "compiling" /\ globals = InitialGlobals /\ program \in Programs
  BY DEF Init, CompileStart
<1>2. /\ main = [name |-> main.name, arity |-> main.arity, constants |-> main.constants,
                 code |-> main.code, scopeLevel |-> main.scopeLevel, locals |-> main.locals]
      /\ main.arity = 0 /\ main.scopeLevel = 0
      /\ main.constants = <<>> /\ main.code = <<>> /\ main.locals = <<>>
  BY DEF CodeObject
<1>3. Held(1, main)
  <2>1. /\ IsVector(main.constants) /\ IsVector(main.locals) /\ DOMAIN main.locals = {}
    BY <1>2, Lists
  <2>2. main.code \in Seq(Bytes)
    BY <1>2, EmptySeq
  <2>3. LocalsNested(main) /\ LocalsScoped(main)
    BY <2>1 DEF LocalsNested, LocalsScoped
  <2>4. main.arity \in Nat /\ main.scopeLevel \in Nat
    BY <1>2
  <2>5. IsCodeObject(main)
    BY <1>2, <2>1, <2>2, <2>3, <2>4 DEF IsCodeObject
  <2> QED BY <2>3, <2>5 DEF Held
<1>4. /\ IsVector(codeObjects) /\ DOMAIN codeObjects = {1} /\ codeObjects[1] = main
  <2>1. codeObjects \in Seq({main})
    BY <1>1
  <2>2. DOMAIN codeObjects = {1} /\ codeObjects[1] = main
    BY <1>1
  <2> QED BY <2>1, <2>2, SequenceIsVector
<1>5. CodeObjectsOK
  BY <1>1, <1>3, <1>4 DEF CodeObjectsOK, Held
<1>6. IsTask(block) /\ block.kind = "gen" /\ IsOuter(block)
  <2>1. program \in MaybeExpressions /\ IsBlock(program)
    BY <1>1, ExpressionsAreTrees, ProgramsAreBlocks DEF MaybeExpressions
  <2>2. block.exp = program
    BY DEF Gen
  <2> QED BY <2>1, <2>2, Tasks DEF IsOuter
<1>7. IsTask(halt) /\ halt.kind = "emit" /\ IsOuter(halt)
  <2>1. <<OP_HALT>> \in Seq(Bytes)
    BY OpcodesAreBytes
  <2> QED BY <2>1, Tasks DEF IsOuter
<1>8. /\ IsVector(work) /\ \A i \in DOMAIN work : work[i] \in {block, halt}
  BY <1>1, Lists
<1>9. WorkOK
  BY <1>6, <1>7, <1>8 DEF WorkOK
<1>10. Len(work) = 2 /\ \A d \in 1 .. 2 : AtHeight(d) \in {block, halt}
  <2>1. Len(work) = 2 /\ work[1] = block /\ work[2] = halt
    BY <1>1
  <2>2. AtHeight(1) = halt /\ AtHeight(2) = block
    BY <2>1 DEF AtHeight
  <2> QED BY <2>1, <2>2
<1> PICK owner : owner = [d \in 0 .. 2 |-> 1]
  OBVIOUS
<1> PICK level : level = [d \in 0 .. 2 |-> 0]
  OBVIOUS
<1>11. /\ \A d \in 0 .. 2 : owner[d] = 1 /\ level[d] = 0
       /\ \A d \in 1 .. 2 : d - 1 \in 0 .. 2 /\ d \in 0 .. 2
  OBVIOUS
<1>12. ASSUME NEW d \in 1 .. 2
       PROVE  /\ Link(AtHeight(d), owner[d - 1], level[d - 1], owner[d], level[d])
              /\ IsOuter(AtHeight(d))
  <2>1. AtHeight(d).kind \in {"gen", "emit"} /\ IsOuter(AtHeight(d))
    BY <1>6, <1>7, <1>10
  <2> QED BY <1>11, <2>1 DEF Link
<1>13. CO.scopeLevel = 0
  BY <1>1, <1>2, <1>4 DEF CO
<1>14. \A f \in DOMAIN codeObjects : codeObjects[f].scopeLevel = 0
  BY <1>2, <1>4
<1>15. Pending(owner, level)
  BY <1>1, <1>4, <1>10, <1>11, <1>12, <1>13, <1>14 DEF Pending
<1> QED BY <1>1, <1>5, <1>9, <1>15, InitialGlobalsUnique DEF CInv

\* Every step keeps the invariant, and the meaning of every index.
LEMMA Steps ==
  CInv /\ [Next]_vars => CInv' /\ Kept
<1> SUFFICES ASSUME CInv, [Next]_vars
             PROVE  CInv' /\ Kept
  OBVIOUS
<1>1. CASE UNCHANGED vars
  BY <1>1, Resting DEF vars, CInv
<1>2. CASE GenLiteral \/ GenVariable \/ GenMissing \/ Emit
  BY <1>2, GenLiteralSafe, GenVariableSafe, GenMissingSafe, EmitSafe
<1>3. CASE GenBinary \/ GenCall \/ GenOther
  BY <1>3, GenBinarySafe, GenCallSafe, GenOtherSafe
<1>4. CASE GenIf \/ IfTested \/ IfConsequent \/ IfDone
  BY <1>4, GenIfSafe, IfTestedSafe, IfConsequentSafe, IfDoneSafe
<1>5. CASE GenWhile \/ WhileTested \/ WhileDone
  BY <1>5, GenWhileSafe, WhileTestedSafe, WhileDoneSafe
<1>6. CASE GenVar \/ GenSet \/ VarDeclare \/ SetAssign
  BY <1>6, GenVarSafe, GenSetSafe, VarDeclareSafe, SetAssignSafe
<1>7. CASE GenBegin \/ BlockItem \/ BlockDone
  BY <1>7, GenBeginSafe, BlockItemSafe, BlockDoneSafe
<1>8. CASE GenDef \/ DefDone
  BY <1>8, GenDefSafe, DefDoneSafe
<1>9. CASE Compiled
  BY <1>9, Resting DEF Compiled
<1>10. CASE Finished
  BY <1>10, <1>1 DEF Finished
<1> QED BY <1>1, <1>2, <1>3, <1>4, <1>5, <1>6, <1>7, <1>8, <1>9, <1>10 DEF Next, GenStep

\* Whatever program is compiled, each pending activation of gen() will find
\* the code object and the scope that it expects.
THEOREM Invariance ==
  Spec => []CInv
<1>1. Init => CInv
  BY Starting
<1>2. CInv /\ [Next]_vars => CInv'
  BY Steps
<1> QED BY <1>1, <1>2, PTL DEF Spec

\* All that is emitted are bytes, and every def has an enclosing code object
\* to go back to.
THEOREM TypeCorrect ==
  Spec => []TypeOK
<1>1. CInv => TypeOK
  <2> SUFFICES ASSUME CInv
               PROVE  TypeOK
    OBVIOUS
  <2>1. /\ IsVector(codeObjects) /\ co \in DOMAIN codeObjects
        /\ \A f \in DOMAIN codeObjects : IsCodeObject(codeObjects[f])
        /\ DOMAIN codeObjects = 1 .. Len(codeObjects) /\ Len(codeObjects) \in Nat
    BY VectorDomain DEF CInv, CodeObjectsOK
  <2>2. PICK owner, level : Pending(owner, level)
    BY DEF CInv
  <2>3. DOMAIN work = 1 .. Len(work) /\ Len(work) \in Nat
    BY VectorDomain DEF CInv, WorkOK
  <2>4. ASSUME NEW t \in DOMAIN work, work[t].kind = "enddef"
        PROVE  work[t].prevCo \in 1 .. co
    <3> PICK d : d = Len(work) + 1 - t
      OBVIOUS
    <3>1. /\ d \in 1 .. Len(work) /\ d - 1 \in 0 .. Len(work) /\ d \in 0 .. Len(work)
          /\ Len(work) + 1 - d = t /\ d - 1 <= Len(work)
          /\ Len(work) \in 0 .. Len(work)
      BY <2>3
    <3>2. AtHeight(d) = work[t]
      BY <3>1 DEF AtHeight
    <3>3. owner[d - 1] = work[t].prevCo
      BY <2>2, <2>4, <3>1, <3>2 DEF Pending, Link
    <3>4. owner[d - 1] <= co /\ owner[d - 1] \in DOMAIN codeObjects
      BY <2>2, <3>1 DEF Pending
    <3> QED BY <2>1, <3>3, <3>4
  <2> QED BY <2>1, <2>4 DEF CInv, TypeOK, IsCodeObject
<1> QED BY <1>1, Invariance, PTL

\* No two globals share a name: an index is as good as a name.
THEOREM NamesStayUnique ==
  Spec => []NamesUnique
<1>1. CInv => NamesUnique
  BY DEF CInv
<1> QED BY <1>1, Invariance, PTL

\* When compile() returns, every scope has been left, every def has given back
\* the code object it was found in, main has no locals and every function has
\* itself and its parameters first.
THEOREM EveryScopeIsLeft ==
  Spec => []ScopesBalance
<1>1. CInv => ScopesBalance
  <2> SUFFICES ASSUME CInv, status = "compiled"
               PROVE  /\ co = 1
                      /\ codeObjects[1].locals = <<>>
                      /\ \A f \in DOMAIN codeObjects :
                           /\ codeObjects[f].scopeLevel = 0
                           /\ f # 1 =>
                                /\ Len(codeObjects[f].locals) >= codeObjects[f].arity + 1
                                /\ codeObjects[f].locals[1].name = codeObjects[f].name
    BY DEF ScopesBalance
  <2>1. work = <<>> /\ Len(work) = 0
    BY DEF CInv
  <2>2. PICK owner, level : Pending(owner, level)
    BY DEF CInv
  <2>3. co = 1 /\ CO.scopeLevel = 0 /\ owner[0] = 1
    BY <2>1, <2>2 DEF Pending
  <2>4. ASSUME NEW f \in DOMAIN codeObjects
        PROVE  codeObjects[f].scopeLevel = 0
    <3>1. CASE f = 1
      BY <2>3, <3>1 DEF CO
    <3>2. CASE f # 1
      <4>1. \A d \in 0 .. Len(work) : owner[d] # f
        BY <2>1, <2>3, <3>2
      <4> QED BY <2>2, <4>1 DEF Pending
    <3> QED BY <3>1, <3>2
  <2>5. /\ 1 \in DOMAIN codeObjects
        /\ IsCodeObject(codeObjects[1]) /\ LocalsScoped(codeObjects[1])
    BY <2>3 DEF CInv, CodeObjectsOK
  <2>6. codeObjects[1].locals = <<>>
    <3> PICK s : s = codeObjects[1].locals
      OBVIOUS
    <3>1. IsVector(s) /\ \A i \in DOMAIN s : FALSE
      BY <2>4, <2>5 DEF IsCodeObject, LocalsNested, LocalsScoped
    <3>2. Len(s) = 0
      <4> PICK n : n = Len(s)
        OBVIOUS
      <4>1. n \in Nat /\ DOMAIN s = 1 .. n
        BY <3>1, VectorDomain
      <4>2. n # 0 => 1 \in DOMAIN s
        BY <4>1
      <4> QED BY <3>1, <4>2
    <3>3. PICK S : s \in Seq(S)
      BY <3>1 DEF IsVector
    <3>4. s = <<>>
      BY <3>2, <3>3, EmptySeq
    <3> QED BY <3>4
  <2>7. ASSUME NEW f \in DOMAIN codeObjects, f # 1
        PROVE  ParametersFirst(codeObjects[f])
    BY <2>7 DEF CInv, CodeObjectsOK
  <2> QED BY <2>3, <2>4, <2>6, <2>7 DEF ParametersFirst
<1> QED BY <1>1, Invariance, PTL

\* An index that was emitted as an operand keeps its meaning: no step changes
\* a constant, a global or a code object that has been given one.
THEOREM IndexesStay ==
  Spec => IndexesKept
<1>1. CInv /\ [Next]_vars =>
        [/\ IsExtension(globals', globals)
         /\ Len(codeObjects') >= Len(codeObjects)
         /\ \A f \in DOMAIN codeObjects :
              /\ codeObjects'[f].name = codeObjects[f].name
              /\ codeObjects'[f].arity = codeObjects[f].arity
              /\ IsExtension(codeObjects'[f].constants, codeObjects[f].constants)]_vars
  BY Steps DEF Kept, Grown
<1> QED BY <1>1, Invariance, PTL DEF Spec, IndexesKept

-----------------------------------------------------------------------------
(***************************************************************************)
(* The constants and the values of the globals.                            *)
(***************************************************************************)

\* A value stays one when code objects are added.
LEMMA StillValue ==
  ASSUME NEW a, NEW b, Len(a) \in Nat, Len(b) \in Nat, Len(b) >= Len(a),
         NEW v, IsValue(a, v)
  PROVE  IsValue(b, v)
BY DEF IsValue

\* The values the compiler makes.
LEMMA MadeValues ==
  /\ \A objects, x : /\ IsValue(objects, NUMBER(x))
                     /\ IsValue(objects, STRING_VALUE(x))
                     /\ IsValue(objects, BOOLEAN_VALUE(x))
                     /\ IsValue(objects, NATIVE(x))
                     /\ IsValue(objects, CODE(x))
  /\ \A objects, k : k \in 2 .. Len(objects) => IsValue(objects, FUNCTION(k))
BY DEF IsValue, ValueTypes, TypeOf, Payload, IS_FUNCTION, NUMBER, STRING_VALUE,
       BOOLEAN_VALUE, NATIVE, CODE, FUNCTION

\* What is new in the pools of a step.
NewConstants ==
  \A f \in DOMAIN codeObjects' : \A i \in DOMAIN codeObjects'[f].constants :
    \/ f \in DOMAIN codeObjects /\ i \in DOMAIN codeObjects[f].constants
    \/ IsValue(codeObjects', codeObjects'[f].constants[i])

\* And in the table of globals.
NewGlobals ==
  \A i \in DOMAIN globals' :
    i \in DOMAIN globals \/ IsValue(codeObjects', globals'[i].value)

\* When what is new is a value, everything is.
LEMMA ValuesAdded ==
  ASSUME CInv, ValuesExist, CInv', Kept, NewConstants, NewGlobals
  PROVE  ValuesExist'
<1>1. /\ Len(codeObjects) \in Nat /\ Len(codeObjects') \in Nat
      /\ Len(codeObjects') >= Len(codeObjects)
  BY VectorDomain DEF CInv, CodeObjectsOK, Kept
<1>2. ASSUME NEW f \in DOMAIN codeObjects', NEW i \in DOMAIN codeObjects'[f].constants
      PROVE  IsValue(codeObjects', codeObjects'[f].constants[i])
  <2>1. CASE f \in DOMAIN codeObjects /\ i \in DOMAIN codeObjects[f].constants
    <3>1. codeObjects'[f].constants[i] = codeObjects[f].constants[i]
      BY <2>1 DEF Kept, Grown, IsExtension
    <3>2. IsValue(codeObjects, codeObjects[f].constants[i])
      BY <2>1 DEF ValuesExist
    <3> QED BY <1>1, <3>1, <3>2, StillValue
  <2> QED BY <2>1 DEF NewConstants
<1>3. ASSUME NEW i \in DOMAIN globals'
      PROVE  IsValue(codeObjects', globals'[i].value)
  <2>1. CASE i \in DOMAIN globals
    <3>1. globals'[i].value = globals[i].value
      BY <2>1 DEF Kept, IsExtension
    <3>2. IsValue(codeObjects, globals[i].value)
      BY <2>1 DEF ValuesExist
    <3> QED BY <1>1, <3>1, <3>2, StillValue
  <2> QED BY <2>1 DEF NewGlobals
<1> QED BY <1>2, <1>3 DEF ValuesExist

\* Nothing new in the table of globals.
LEMMA GlobalsStay ==
  ASSUME UNCHANGED globals
  PROVE  NewGlobals
BY DEF NewGlobals

\* A declared global starts as the number 0.
LEMMA GlobalDefined ==
  ASSUME CInv, NEW c, NEW name, globals' = DefinedIn(c, name)
  PROVE  NewGlobals
<1>1. IsVector(globals) /\ DOMAIN globals = 1 .. Len(globals) /\ Len(globals) \in Nat
  BY VectorDomain DEF CInv
<1>2. CASE globals' = globals
  BY <1>2, GlobalsStay
<1>3. CASE globals' # globals
  <2> PICK new : new = GlobalVar(name, NUMBER(0))
    OBVIOUS
  <2>1. globals' = Append(globals, new)
    BY <1>3 DEF DefinedIn, define
  <2>2. /\ IsVector(globals') /\ Len(globals') = Len(globals) + 1
        /\ globals'[Len(globals) + 1] = new
    BY <1>1, <2>1, VectorAppend
  <2>3. DOMAIN globals' = 1 .. Len(globals) + 1
    BY <2>2, VectorDomain
  <2>4. IsValue(codeObjects', new.value)
    BY MadeValues DEF GlobalVar
  <2> QED BY <1>1, <2>2, <2>3, <2>4 DEF NewGlobals
<1> QED BY <1>2, <1>3

\* Nothing new in the pools.
LEMMA Unwritten ==
  ASSUME UNCHANGED codeObjects
  PROVE  NewConstants
BY DEF NewConstants

\* Only the code, the locals or the level of co are written.
LEMMA PoolStays ==
  ASSUME CInv, NEW c, c.constants = CO.constants, UpdateCO(c)
  PROVE  NewConstants
BY DEF NewConstants, UpdateCO, CO

\* Emitting, patching, declaring and scopes leave the constants alone.
LEMMA SamePool ==
  ASSUME NEW f, NEW c, Held(f, c)
  PROVE  /\ \A v : /\ [c EXCEPT !.code = v].constants = c.constants
                   /\ [c EXCEPT !.scopeLevel = v].constants = c.constants
         /\ \A bytes : Emitted(c, bytes).constants = c.constants
         /\ \A name : addLocal(c, name).constants = c.constants
         /\ ScopeExited(c).constants = c.constants
<1> DEFINE keys == {"name", "arity", "constants", "code", "scopeLevel", "locals"}
<1>1. c = [name |-> c.name, arity |-> c.arity, constants |-> c.constants,
           code |-> c.code, scopeLevel |-> c.scopeLevel, locals |-> c.locals]
  BY DEF Held, IsCodeObject
<1>2. DOMAIN c = keys /\ c = [k \in keys |-> c[k]]
  BY <1>1
<1>3. \A v : /\ [c EXCEPT !.code = v].constants = c.constants
             /\ [c EXCEPT !.scopeLevel = v].constants = c.constants
             /\ [c EXCEPT !.locals = v].constants = c.constants
  BY <1>2
<1>4. \A u, v, w : [c EXCEPT !.code = u, !.locals = v, !.scopeLevel = w].constants
                     = c.constants
  BY <1>2
<1> QED BY <1>3, <1>4 DEF Emitted, addLocal, ScopeExited

\* The store to a variable adds no constant.
LEMMA StoredPool ==
  ASSUME NEW f, NEW c, Held(f, c), f = 1 => c.scopeLevel # 0, NEW name
  PROVE  Stored(c, name).constants = c.constants
<1> PICK declared : declared = Declared(c, name)
  OBVIOUS
<1>1. Held(f, declared) /\ declared.constants = c.constants
  BY SamePool, LocalAdded DEF Declared, Continues
<1> QED BY <1>1, SamePool DEF Stored

\* A literal is a number, a string or a boolean.
LEMMA LiteralAdded ==
  CInv /\ GenLiteral => NewConstants /\ NewGlobals
<1> SUFFICES ASSUME CInv, GenLiteral
             PROVE  NewConstants /\ NewGlobals
  OBVIOUS
<1> PICK v : v = LiteralValue(Top.exp)
  OBVIOUS
<1> PICK c : c = WithLiteral(CO, v)
  OBVIOUS
<1> PICK pool : pool = CO.constants
  OBVIOUS
<1>1. codeObjects' = [codeObjects EXCEPT ![co] = c] /\ UNCHANGED globals
  BY DEF GenLiteral, UpdateCO
<1>2. IsVector(codeObjects) /\ co \in DOMAIN codeObjects /\ Held(co, CO)
  BY Staying DEF CInv, CodeObjectsOK
<1>3. IsVector(pool)
  BY <1>2 DEF Held, IsCodeObject
<1>4. IsValue(codeObjects', v)
  BY MadeValues DEF LiteralValue
<1>5. c.constants = Interned(pool, v)
  <2>1. CO = [name |-> CO.name, arity |-> CO.arity, constants |-> pool,
              code |-> CO.code, scopeLevel |-> CO.scopeLevel, locals |-> CO.locals]
    BY <1>2 DEF Held, IsCodeObject
  <2>2. PICK new, code : new = Interned(pool, v)
                         /\ c = [CO EXCEPT !.constants = new, !.code = code]
    BY DEF WithLiteral
  <2> QED BY <2>1, <2>2
<1>6. ASSUME NEW i \in DOMAIN c.constants
      PROVE  i \in DOMAIN pool \/ c.constants[i] = v
  <2>1. CASE c.constants = Append(pool, v)
    <3>1. /\ DOMAIN c.constants = 1 .. Len(pool) + 1 /\ DOMAIN pool = 1 .. Len(pool)
          /\ c.constants[Len(pool) + 1] = v /\ Len(pool) \in Nat
      <4>1. IsVector(c.constants) /\ Len(c.constants) = Len(pool) + 1
        BY <1>3, <2>1, VectorAppend
      <4> QED BY <1>3, <2>1, <4>1, VectorAppend, VectorDomain
    <3> QED BY <3>1
  <2> QED BY <1>5, <2>1 DEF Interned
<1>7. NewConstants
  <2>1. \A f \in DOMAIN codeObjects :
          codeObjects'[f] = IF f = co THEN c ELSE codeObjects[f]
    BY <1>1, <1>2
  <2>2. DOMAIN codeObjects' = DOMAIN codeObjects
    BY <1>1
  <2> QED BY <1>4, <1>6, <2>1, <2>2 DEF NewConstants, CO
<1> QED BY <1>1, <1>7, GlobalsStay

\* Steps that write to one code object, but not to its constants.
LEMMA CodeWritten ==
  ASSUME CInv, GenVariable \/ Emit \/ IfTested \/ IfConsequent \/ IfDone \/ WhileTested
                 \/ WhileDone \/ SetAssign \/ GenBegin \/ BlockDone
  PROVE  NewConstants /\ NewGlobals
<1> DEFINE Pure == \E c : UpdateCO(c) /\ c.constants = CO.constants
<1>1. Held(co, CO)
  BY Staying
<1>2. ASSUME NEW code, UpdateCO([CO EXCEPT !.code = code])
      PROVE  Pure
  BY <1>1, <1>2, SamePool
<1>3. IfTested \/ IfConsequent \/ IfDone \/ WhileTested \/ WhileDone => Pure
  <2>1. IfTested \/ IfConsequent \/ IfDone \/ WhileTested \/ WhileDone
          => \E code : UpdateCO([CO EXCEPT !.code = code])
    BY DEF IfTested, IfConsequent, IfDone, WhileTested, WhileDone
  <2> QED BY <1>2, <2>1
<1>4. GenVariable \/ Emit \/ SetAssign => Pure \/ UNCHANGED codeObjects
  <2>1. GenVariable \/ Emit \/ SetAssign
          => (\E bytes : UpdateCO(Emitted(CO, bytes))) \/ UNCHANGED codeObjects
    BY DEF GenVariable, Emit, SetAssign, Stop
  <2> QED BY <1>1, <2>1, SamePool
<1>5. GenBegin \/ BlockDone => Pure \/ UNCHANGED codeObjects
  BY <1>1, SamePool DEF GenBegin, BlockDone, Stop
<1>6. NewConstants
  <2>1. Pure \/ UNCHANGED codeObjects
    BY <1>3, <1>4, <1>5
  <2> QED BY <2>1, PoolStays, Unwritten
<1>7. UNCHANGED globals
  BY DEF GenVariable, Emit, IfTested, IfConsequent, IfDone, WhileTested, WhileDone,
         SetAssign, GenBegin, BlockDone, Stop
<1> QED BY <1>6, <1>7, GlobalsStay

\* A declaration may add a global, and no constant.
LEMMA DeclarationWritten ==
  CInv /\ VarDeclare => NewConstants /\ NewGlobals
<1> SUFFICES ASSUME CInv, VarDeclare
             PROVE  NewConstants /\ NewGlobals
  OBVIOUS
<1>1. work # <<>> /\ Top.kind = "declare"
  BY DEF VarDeclare, Doing
<1>2. co = 1 => CO.scopeLevel # 0
  BY <1>1, NotOuter, MainIsInABlock
<1>3. PICK c : UpdateCO(c) /\ c = Stored(CO, Top.name)
  BY DEF VarDeclare
<1>4. c.constants = CO.constants
  BY <1>2, <1>3, Staying, StoredPool
<1>5. NewGlobals
  BY GlobalDefined DEF VarDeclare
<1> QED BY <1>3, <1>4, <1>5, PoolStays

\* A value at the end of a pool.
LEMMA PoolAppended ==
  ASSUME NEW pool, IsVector(pool), NEW v, NEW i \in DOMAIN Append(pool, v)
  PROVE  i \in DOMAIN pool \/ Append(pool, v)[i] = v
<1>1. /\ IsVector(Append(pool, v)) /\ Len(Append(pool, v)) = Len(pool) + 1
      /\ Append(pool, v)[Len(pool) + 1] = v
  BY VectorAppend
<1>2. /\ DOMAIN Append(pool, v) = 1 .. Len(pool) + 1
      /\ DOMAIN pool = 1 .. Len(pool) /\ Len(pool) \in Nat
  BY <1>1, VectorDomain
<1> QED BY <1>1, <1>2

\* def: the code object is a constant of the enclosing one.
LEMMA CodeAdded ==
  CInv /\ GenDef => NewConstants /\ NewGlobals
<1> SUFFICES ASSUME CInv, GenDef
             PROVE  NewConstants /\ NewGlobals
  OBVIOUS
<1>1. CASE Stop("undefined")
  BY <1>1, Unwritten, GlobalsStay DEF Stop
<1>2. CASE ~ Stop("undefined")
  <2> PICK new : new = Len(codeObjects) + 1
    OBVIOUS
  <2> PICK c : c = addConst(CO, CODE(new))
    OBVIOUS
  <2> PICK fn : fn = [CodeObject(VarName(Top.exp), Arity(Top.exp))
                        EXCEPT !.locals = FunctionLocals(Top.exp)]
    OBVIOUS
  <2>1. codeObjects' = [codeObjects EXCEPT ![co] = c] \o <<fn>> /\ UNCHANGED globals
    BY <1>2 DEF GenDef, CO
  <2>2. IsVector(codeObjects) /\ co \in DOMAIN codeObjects /\ Held(co, CO)
    BY Staying DEF CInv, CodeObjectsOK
  <2>3. /\ \A f \in DOMAIN codeObjects :
             codeObjects'[f] = IF f = co THEN c ELSE codeObjects[f]
        /\ codeObjects'[new] = fn
        /\ DOMAIN codeObjects' = 1 .. new
        /\ DOMAIN codeObjects = 1 .. Len(codeObjects) /\ Len(codeObjects) \in Nat
    BY <2>1, <2>2, FunctionAdded
  <2>4. DOMAIN fn.constants = {}
    <3>1. fn.constants = <<>>
      BY DEF CodeObject
    <3> QED BY <3>1, Lists
  <2>5. ASSUME NEW i \in DOMAIN c.constants
        PROVE  i \in DOMAIN CO.constants \/ IsValue(codeObjects', c.constants[i])
    <3>1. c.constants = Append(CO.constants, CODE(new)) /\ IsVector(CO.constants)
      <4>1. IsVector(CO.constants)
        BY <2>2 DEF Held, IsCodeObject
      <4> QED BY <2>2, <4>1, Pooled
    <3>2. i \in DOMAIN CO.constants \/ c.constants[i] = CODE(new)
      BY <3>1, PoolAppended
    <3> QED BY <3>2, MadeValues
  <2>6. ASSUME NEW f \in 1 .. new
        PROVE  f \in DOMAIN codeObjects \/ f = new
    BY <2>3
  <2>7. NewConstants
    BY <2>3, <2>4, <2>5, <2>6 DEF NewConstants, CO
  <2> QED BY <2>1, <2>7, GlobalsStay
<1> QED BY <1>1, <1>2

\* The end of a def: the function is another constant of the enclosing one.
LEMMA FunctionPooled ==
  CInv /\ DefDone => NewConstants /\ NewGlobals
<1> SUFFICES ASSUME CInv, DefDone
             PROVE  NewConstants /\ NewGlobals
  OBVIOUS
<1>1. work # <<>> /\ Top.kind = "enddef"
  BY DEF DefDone, Doing
<1> PICK name : name = VarName(Top.exp)
  OBVIOUS
<1> PICK prev : prev = Top.prevCo
  OBVIOUS
<1> PICK withFn : withFn = addConst(codeObjects[prev], FUNCTION(co))
  OBVIOUS
<1> PICK bytes : bytes = <<OP_CONST, Byte(Len(withFn.constants) - 1)>>
  OBVIOUS
<1> PICK withRef : withRef = Emitted(withFn, bytes)
  OBVIOUS
<1> PICK inner : inner = Emitted(CO, Epilogue(Top.exp))
  OBVIOUS
<1> PICK outer : outer = Stored(withRef, name)
  OBVIOUS
<1>2. /\ codeObjects' = [codeObjects EXCEPT ![co] = inner, ![prev] = outer]
      /\ globals' = DefinedIn(withRef, name)
  BY DEF DefDone, CO
<1>3. /\ IsVector(codeObjects) /\ co \in DOMAIN codeObjects /\ Held(co, CO)
      /\ \A f \in DOMAIN codeObjects : Held(f, codeObjects[f])
      /\ DOMAIN codeObjects = 1 .. Len(codeObjects) /\ Len(codeObjects) \in Nat
  BY Holding, Staying, VectorDomain DEF CInv
<1>4. /\ prev \in DOMAIN codeObjects /\ prev < co
      /\ prev = 1 => codeObjects[prev].scopeLevel # 0
  BY <1>1, Suspended
<1>5. prev # co /\ co \in 2 .. Len(codeObjects)
  BY <1>3, <1>4
<1>6. /\ DOMAIN codeObjects' = DOMAIN codeObjects /\ Len(codeObjects') = Len(codeObjects)
      /\ codeObjects'[prev] = outer /\ codeObjects'[co] = inner
      /\ \A f \in DOMAIN codeObjects :
           f # prev /\ f # co => codeObjects'[f] = codeObjects[f]
  BY <1>2, <1>3, <1>4, <1>5, TwoReplaced
<1>7. inner.constants = CO.constants
  BY <1>3, SamePool
<1> PICK old : old = codeObjects[prev]
  OBVIOUS
<1>8. Held(prev, old)
  BY <1>3, <1>4
<1>9. /\ Held(prev, withFn) /\ withFn.scopeLevel = old.scopeLevel
      /\ withFn.constants = Append(old.constants, FUNCTION(co))
  BY <1>8, Pooled DEF Continues
<1>10. outer.constants = withFn.constants
  <2>1. bytes \in Seq(Bytes)
    <3>1. Len(withFn.constants) - 1 \in Int
      BY <1>9, VectorDomain DEF Held, IsCodeObject
    <3>2. Byte(Len(withFn.constants) - 1) \in Bytes
      BY <3>1, BytesOfNumbers
    <3> QED BY <3>2, OpcodesAreBytes
  <2>2. Continues(prev, withFn, withRef) /\ withRef.constants = withFn.constants
    BY <1>9, <2>1, Emission
  <2>3. Held(prev, withRef) /\ withRef.scopeLevel = old.scopeLevel
    BY <1>9, <2>2 DEF Continues
  <2> QED BY <1>4, <2>2, <2>3, StoredPool
<1>11. ASSUME NEW i \in DOMAIN outer.constants
       PROVE  i \in DOMAIN old.constants \/ IsValue(codeObjects', outer.constants[i])
  <2>1. IsVector(old.constants)
    BY <1>8 DEF Held, IsCodeObject
  <2>2. i \in DOMAIN old.constants \/ outer.constants[i] = FUNCTION(co)
    <3> PICK v : v = FUNCTION(co)
      OBVIOUS
    <3> PICK pool : pool = old.constants
      OBVIOUS
    <3>1. outer.constants = Append(pool, v)
      BY <1>9, <1>10
    <3>2. i \in DOMAIN Append(pool, v)
      BY <3>1
    <3>3. i \in DOMAIN pool \/ Append(pool, v)[i] = v
      BY <2>1, <3>2, PoolAppended
    <3> QED BY <3>1, <3>3
  <2>3. IsValue(codeObjects', FUNCTION(co))
    BY <1>5, <1>6, MadeValues
  <2> QED BY <2>2, <2>3
<1>12. NewConstants
  BY <1>6, <1>7, <1>11 DEF NewConstants, CO
<1>13. NewGlobals
  BY <1>2, GlobalDefined
<1> QED BY <1>12, <1>13

\* Every constant and every value of a global exists, at the start and after
\* every step.
LEMMA StartingValues ==
  Init => ValuesExist
<1> SUFFICES ASSUME Init
             PROVE  ValuesExist
  OBVIOUS
<1> PICK main : main = CodeObject("main", 0)
  OBVIOUS
<1>1. codeObjects = <<main>> /\ globals = InitialGlobals
  BY DEF Init, CompileStart
<1>2. DOMAIN codeObjects = {1} /\ codeObjects[1] = main /\ main.constants = <<>>
  BY <1>1 DEF CodeObject
<1>3. DOMAIN main.constants = {}
  BY <1>2, Lists
<1> PICK natives : natives = addNativeFunction(<<>>, "native-square")
  OBVIOUS
<1>4. IsVector(natives) /\ \A i \in DOMAIN natives : IsValue(codeObjects, natives[i].value)
  <2> PICK none : none = <<>>
    OBVIOUS
  <2> PICK v : v = GlobalVar("native-square", NATIVE("native-square"))
    OBVIOUS
  <2>1. IsVector(none) /\ DOMAIN none = {}
    BY Lists
  <2>2. IsValue(codeObjects, v.value)
    BY MadeValues DEF GlobalVar
  <2>3. natives = none \/ natives = Append(none, v)
    BY DEF addNativeFunction
  <2>4. CASE natives = Append(none, v)
    <3>1. IsVector(natives)
      BY <2>1, <2>4, VectorAppend
    <3>2. \A i \in DOMAIN natives : natives[i] = v
      BY <2>1, <2>4, PoolAppended
    <3> QED BY <2>2, <3>1, <3>2
  <2> QED BY <2>1, <2>3, <2>4
<1>5. \A i \in DOMAIN globals : IsValue(codeObjects, globals[i].value)
  <2> PICK y : y = GlobalVar("y", NUMBER(20))
    OBVIOUS
  <2>1. IsValue(codeObjects, y.value)
    BY MadeValues DEF GlobalVar
  <2>2. globals = natives \/ globals = Append(natives, y)
    BY <1>1 DEF InitialGlobals, addGlobal
  <2>3. \A i \in DOMAIN natives : Append(natives, y)[i] = natives[i]
    BY <1>4, VectorAppend
  <2> QED BY <1>4, <2>1, <2>2, <2>3, PoolAppended
<1> QED BY <1>2, <1>3, <1>5 DEF ValuesExist

\* No step takes a value or a function from them.
LEMMA ValuesStay ==
  CInv /\ ValuesExist /\ [Next]_vars => ValuesExist'
<1> SUFFICES ASSUME CInv, ValuesExist, [Next]_vars
             PROVE  ValuesExist'
  OBVIOUS
<1>1. CInv' /\ Kept
  BY Steps
<1>2. NewConstants /\ NewGlobals
  <2>1. CASE UNCHANGED <<codeObjects, globals>>
    BY <2>1, Unwritten, GlobalsStay
  <2>2. CASE ~ UNCHANGED <<codeObjects, globals>>
    <3>1. \/ GenLiteral \/ VarDeclare \/ GenDef \/ DefDone
          \/ (GenVariable \/ Emit \/ IfTested \/ IfConsequent \/ IfDone \/ WhileTested
                \/ WhileDone \/ SetAssign \/ GenBegin \/ BlockDone)
      BY <2>2 DEF vars, Next, GenStep, GenMissing, GenBinary, GenCall, GenOther, GenIf,
         GenWhile, GenVar, GenSet, NameThenValue, BlockItem, Compiled, Finished, Stop
    <3> QED BY <3>1, LiteralAdded, DeclarationWritten, CodeAdded, FunctionPooled,
               CodeWritten
  <2> QED BY <2>1, <2>2
<1> QED BY <1>1, <1>2, ValuesAdded

\* Each constant of each code object, and each global, has a value of a known
\* type; a function among them is one that has been compiled.
THEOREM ValuesAlwaysExist ==
  Spec => []ValuesExist
<1>1. Init => CInv /\ ValuesExist
  BY Starting, StartingValues
<1>2. CInv /\ ValuesExist /\ [Next]_vars => (CInv /\ ValuesExist)'
  BY Steps, ValuesStay
<1> QED BY <1>1, <1>2, PTL DEF Spec

\* What compile() hands to the machine: bytes and values that exist.
LEMMA CodeIsWellFormed ==
  CInv /\ ValuesExist =>
    /\ WellFormed(codeObjects)
    /\ IsVector(globals)
    /\ \A i \in DOMAIN globals : IsValue(codeObjects, globals[i].value)
<1> SUFFICES ASSUME CInv, ValuesExist
             PROVE  /\ WellFormed(codeObjects)
                    /\ IsVector(globals)
                    /\ \A i \in DOMAIN globals : IsValue(codeObjects, globals[i].value)
  OBVIOUS
<1>1. /\ IsVector(codeObjects) /\ co \in DOMAIN codeObjects
      /\ \A f \in DOMAIN codeObjects : IsCodeObject(codeObjects[f])
  BY DEF CInv, CodeObjectsOK
<1>2. codeObjects # <<>>
  <2>1. codeObjects = <<>> => DOMAIN codeObjects = {}
    BY Lists
  <2> QED BY <1>1, <2>1
<1>3. \A f \in DOMAIN codeObjects :
        /\ codeObjects[f].arity \in Nat
        /\ codeObjects[f].code \in Seq(0 .. BYTE - 1)
        /\ IsVector(codeObjects[f].constants)
  BY <1>1 DEF IsCodeObject, Bytes
<1> QED BY <1>1, <1>2, <1>3 DEF WellFormed, ValuesExist, CInv

\* gen() runs while the program is being compiled, and not afterwards.
LEMMA GeneratesWhileCompiling ==
  GenStep => status = "compiling"
BY DEF GenStep, GenLiteral, GenVariable, GenMissing, Emit, GenBinary, GenCall, GenOther,
       GenIf, IfTested, IfConsequent, IfDone, GenWhile, WhileTested, WhileDone, GenVar,
       GenSet, NameThenValue, VarDeclare, SetAssign, GenBegin, BlockItem, BlockDone,
       GenDef, DefDone, Compiled, GenForm, GenList, Doing

\* A pass of gen() leaves the invariants true.
LEMMA GenStepSafe ==
  CInv /\ ValuesExist /\ GenStep => CInv' /\ ValuesExist'
BY Steps, ValuesStay DEF Next
=============================================================================
