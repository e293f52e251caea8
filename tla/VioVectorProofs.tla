-------------------------- MODULE VioVectorProofs --------------------------
(***************************************************************************)
(* Lemmas about the tables of the compiler and the machine, std::vectors   *)
(* of which only their elements' positions matter, and about the points    *)
(* that the verifier computes by recursion.                                *)
(***************************************************************************)
EXTENDS VioVerifier, TLAPS, SequenceTheorems, FiniteSetTheorems, WellFoundedInduction

\* The domain of a vector are its positions.
LEMMA VectorDomain ==
  ASSUME NEW s, IsVector(s)
  PROVE  Len(s) \in Nat /\ DOMAIN s = 1 .. Len(s)
BY DEF IsVector

\* A vector with one element replaced is a vector of the same length.
LEMMA VectorUpdate ==
  ASSUME NEW s, IsVector(s), NEW i \in DOMAIN s, NEW v
  PROVE  /\ IsVector([s EXCEPT ![i] = v])
         /\ Len([s EXCEPT ![i] = v]) = Len(s)
<1> DEFINE S == {s[j] : j \in DOMAIN s} \cup {v}
           t == [s EXCEPT ![i] = v]
<1>1. s \in Seq(S) /\ Len(s) \in Nat /\ DOMAIN s = 1 .. Len(s)
  <2>1. s \in Seq({s[j] : j \in DOMAIN s})
    BY DEF IsVector
  <2> QED BY <2>1
<1>2. PICK T : T = {t[j] : j \in DOMAIN t}
  OBVIOUS
<1>3. t \in [1 .. Len(s) -> T]
  BY <1>1, <1>2
<1>4. t \in Seq(T) /\ Len(t) = Len(s)
  <2> HIDE DEF t
  <2> QED BY <1>1, <1>3, SeqDef
<1> QED BY <1>2, <1>4 DEF IsVector

\* The elements of a sequence over any set make it a vector.
LEMMA SequenceIsVector ==
  ASSUME NEW S, NEW s \in Seq(S)
  PROVE  IsVector(s)
<1> PICK T : T = {s[j] : j \in DOMAIN s}
  OBVIOUS
<1>1. s \in [1 .. Len(s) -> T] /\ Len(s) \in Nat
  BY LenProperties
<1>2. \A n \in Nat : [1 .. n -> T] \subseteq Seq(T)
  <2> DEFINE U == {[1 .. n -> T] : n \in Nat}
  <2>1. Seq(T) = UNION U
    BY ONLY SeqDef, Zenon
  <2>2. \A n \in Nat : [1 .. n -> T] \in U
    BY ONLY Zenon
  <2> HIDE DEF U
  <2> QED BY ONLY <2>1, <2>2, SMT
<1>3. s \in Seq(T)
  BY ONLY <1>1, <1>2, Zenon
<1> QED BY <1>3 DEF IsVector

\* push_back: the elements that were there stay where they were.
LEMMA VectorAppend ==
  ASSUME NEW s, IsVector(s), NEW v
  PROVE  /\ IsVector(Append(s, v))
         /\ Len(Append(s, v)) = Len(s) + 1
         /\ \A i \in DOMAIN s : Append(s, v)[i] = s[i]
         /\ Append(s, v)[Len(s) + 1] = v
<1> DEFINE S == {s[j] : j \in DOMAIN s} \cup {v}
<1>1. s \in Seq(S) /\ DOMAIN s = 1 .. Len(s)
  <2>1. s \in Seq({s[j] : j \in DOMAIN s})
    BY DEF IsVector
  <2> QED BY <2>1
<1> HIDE DEF S
<1>2. v \in S
  BY DEF S
<1>3. /\ Append(s, v) \in Seq(S)
      /\ Len(Append(s, v)) = Len(s) + 1
      /\ \A i \in 1 .. Len(s) : Append(s, v)[i] = s[i]
      /\ Append(s, v)[Len(s) + 1] = v
  BY <1>1, <1>2, AppendProperties
<1>4. IsVector(Append(s, v))
  BY <1>3, SequenceIsVector
<1> QED BY <1>1, <1>3, <1>4

\* Several of them.
LEMMA VectorConcat ==
  ASSUME NEW s, IsVector(s), NEW t, IsVector(t)
  PROVE  /\ IsVector(s \o t)
         /\ Len(s \o t) = Len(s) + Len(t)
         /\ \A i \in 1 .. Len(s) + Len(t) :
              (s \o t)[i] = IF i <= Len(s) THEN s[i] ELSE t[i - Len(s)]
<1> DEFINE S == {s[j] : j \in DOMAIN s} \cup {t[j] : j \in DOMAIN t}
<1>1. s \in Seq(S)
  <2>1. s \in Seq({s[j] : j \in DOMAIN s})
    BY DEF IsVector
  <2> QED BY <2>1
<1>2. t \in Seq(S)
  <2>1. t \in Seq({t[j] : j \in DOMAIN t})
    BY DEF IsVector
  <2> QED BY <2>1
<1> HIDE DEF S
<1> QED BY <1>1, <1>2, ConcatProperties, SequenceIsVector

\* The first elements of a vector.
LEMMA VectorPrefix ==
  ASSUME NEW s, IsVector(s), NEW k \in 0 .. Len(s)
  PROVE  /\ IsVector(SubSeq(s, 1, k))
         /\ Len(SubSeq(s, 1, k)) = k
         /\ \A i \in 1 .. k : SubSeq(s, 1, k)[i] = s[i]
<1> DEFINE S == {s[j] : j \in DOMAIN s}
           t == SubSeq(s, 1, k)
<1>1. s \in Seq(S) /\ Len(s) \in Nat /\ DOMAIN s = 1 .. Len(s)
  <2>1. s \in Seq(S)
    BY DEF IsVector
  <2> HIDE DEF S
  <2> QED BY <2>1, LenProperties
<1> HIDE DEF S
<1>2. t \in Seq(S) /\ Len(t) = k /\ \A i \in 1 .. k : t[i] = s[i]
  <2>1. \A i \in 1 .. k : s[i] \in S
    BY <1>1
  <2>2. t = [i \in 1 .. k |-> s[i]]
    BY <1>1
  <2> HIDE DEF t
  <2>3. t \in [1 .. k -> S] /\ k \in Nat
    BY <1>1, <2>1, <2>2
  <2>4. t \in Seq(S)
    BY <2>3, SeqDef
  <2> QED BY <1>1, <2>2, <2>3, <2>4, LenProperties
<1> QED BY <1>2, SequenceIsVector

\* A stack of frames after a call.
LEMMA OnePushed ==
  ASSUME NEW S, NEW s \in Seq(S), NEW x \in S, NEW t, t = Append(s, x)
  PROVE  /\ t \in Seq(S)
         /\ Len(s) \in Nat /\ Len(t) = Len(s) + 1
         /\ DOMAIN s = 1 .. Len(s) /\ DOMAIN t = 1 .. Len(s) + 1
         /\ \A i \in DOMAIN s : t[i] = s[i]
         /\ t[Len(s) + 1] = x
OBVIOUS

-----------------------------------------------------------------------------
(***************************************************************************)
(* Searches: what a scan from one of the ends comes to.                    *)
(***************************************************************************)

\* A set of natural numbers has a least element.
LEMMA Least ==
  ASSUME NEW S, S \subseteq Nat, S # {}
  PROVE  \E i \in S : \A j \in S : i <= j
<1> DEFINE R == OpToRel(<, Nat)
<1>1. IsWellFoundedOn(R, Nat)
  BY NatLessThanWellFounded
<1>2. \A i, j \in Nat : <<i, j>> \in R <=> i < j
  BY DEF OpToRel
<1> HIDE DEF R
<1>3. PICK i \in S : \A j \in S : ~ (<<j, i>> \in R)
  BY <1>1, WFMin
<1>4. ASSUME NEW j \in S
      PROVE  i <= j
  <2>1. i \in Nat /\ j \in Nat
    OBVIOUS
  <2>2. ~ (j < i)
    BY <1>2, <1>3, <2>1
  <2> QED BY <2>1, <2>2
<1> QED BY <1>4

\* A set of positions has a greatest element.
LEMMA Greatest ==
  ASSUME NEW n \in Nat, NEW S, S \subseteq 1 .. n, S # {}
  PROVE  \E i \in S : \A j \in S : j <= i
<1> DEFINE T == {k \in Nat : n - k \in S}
<1>1. PICK e \in S : TRUE
  OBVIOUS
<1>2. n - e \in T
  <2>1. e \in 1 .. n /\ n - (n - e) = e /\ n - e \in Nat
    OBVIOUS
  <2> QED BY <2>1
<1>3. PICK k \in T : \A j \in T : k <= j
  BY <1>2, Least
<1>4. n - k \in S /\ k \in Nat
  OBVIOUS
<1>5. ASSUME NEW j \in S
      PROVE  j <= n - k
  <2>1. j \in 1 .. n /\ n - (n - j) = j /\ n - j \in Nat
    OBVIOUS
  <2>2. k <= n - j
    BY <1>3, <2>1
  <2> QED BY <1>4, <2>1, <2>2
<1> QED BY <1>4, <1>5

\* getLocalIndex() and getGlobalIndex(): -1 if and only if no entry has the
\* name, and otherwise the index of one that has.
LEMMA LastIndexFinds ==
  ASSUME NEW table, IsVector(table), NEW name
  PROVE  /\ LastIndex(table, name) \in Int
         /\ LastIndex(table, name) = -1 <=> Named(table, name) = {}
         /\ Named(table, name) # {} =>
              LastIndex(table, name) + 1 \in Named(table, name)
<1> DEFINE S == Named(table, name)
<1>1. CASE S = {}
  BY <1>1 DEF LastIndex
<1>2. CASE S # {}
  <2>1. S \subseteq 1 .. Len(table) /\ Len(table) \in Nat
    BY VectorDomain DEF Named
  <2>2. \E i \in S : \A j \in S : j <= i
    BY <1>2, <2>1, Greatest
  <2> DEFINE i == CHOOSE i \in S : \A j \in S : j <= i
  <2>3. i \in S
    BY <2>2
  <2>4. LastIndex(table, name) = i - 1
    BY <1>2 DEF LastIndex
  <2>5. i \in 1 .. Len(table)
    BY <2>1, <2>3
  <2> HIDE DEF i
  <2> QED BY <1>2, <2>1, <2>3, <2>4, <2>5
<1> QED BY <1>1, <1>2

-----------------------------------------------------------------------------
(***************************************************************************)
(* The points of the verifier.                                             *)
(***************************************************************************)

\* Induction over the natural numbers, with a set for the predicate.
LEMMA Induction ==
  ASSUME NEW T \in SUBSET Nat, 0 \in T, \A n \in T : n + 1 \in T
  PROVE  T = Nat
<1> SUFFICES ASSUME Nat \ T # {} PROVE FALSE
  OBVIOUS
<1>1. PICK m \in Nat \ T : \A k \in Nat \ T : m <= k
  BY Least
<1>2. m # 0 /\ m - 1 \in Nat
  OBVIOUS
<1>3. m - 1 \in T
  BY <1>1, <1>2
<1>4. m - 1 + 1 = m
  OBVIOUS
<1> QED BY <1>3, <1>4

\* The values of a function F that is applied again and again, from x.
IsIteration(g, D, x, F) ==
  g \in [Nat -> D] /\ g[0] = x /\ \A n \in Nat : g[n + 1] = F[g[n]]

\* They exist.
LEMMA Iteration ==
  ASSUME NEW D, NEW x \in D, NEW F \in [D -> D]
  PROVE  \E g : IsIteration(g, D, x, F)
<1> DEFINE From(n, h) == /\ h \in [0 .. n -> D] /\ h[0] = x
                         /\ \A i \in 0 .. n : i < n => h[i + 1] = F[h[i]]
           T == {n \in Nat : \E h : From(n, h)}
<1>1. 0 \in T
  <2>1. From(0, [i \in 0 .. 0 |-> x])
    OBVIOUS
  <2> QED BY <2>1
<1>2. ASSUME NEW n \in T
      PROVE  n + 1 \in T
  <2>1. n \in Nat
    OBVIOUS
  <2>2. PICK h : From(n, h)
    OBVIOUS
  <2> PICK e : e = [i \in 0 .. n + 1 |-> IF i = n + 1 THEN F[h[n]] ELSE h[i]]
    OBVIOUS
  <2>3. h[n] \in D /\ F[h[n]] \in D
    BY <2>1, <2>2
  <2>4. /\ e[n + 1] = F[h[n]] /\ \A i \in 0 .. n : e[i] = h[i]
        /\ e \in [0 .. n + 1 -> D]
    BY <2>1, <2>2, <2>3
  <2>5. \A i \in 0 .. n + 1 : i < n + 1 => e[i + 1] = F[e[i]]
    BY <2>1, <2>2, <2>4
  <2>6. From(n + 1, e)
    BY <2>1, <2>2, <2>4, <2>5
  <2> HIDE DEF From
  <2> QED BY <2>1, <2>6
<1>3. T = Nat
  BY <1>1, <1>2, Induction
<1>4. ASSUME NEW n \in Nat, NEW h, From(n, h), NEW k \in Nat, NEW e, From(k, e),
             NEW i \in Nat, i <= n, i <= k
      PROVE  h[i] = e[i]
  <2> DEFINE U == {j \in Nat : j <= n /\ j <= k => h[j] = e[j]}
  <2>1. 0 \in U
    BY <1>4
  <2>2. ASSUME NEW j \in U
        PROVE  j + 1 \in U
    BY <1>4
  <2>3. U = Nat
    <3>1. U \in SUBSET Nat
      OBVIOUS
    <3> HIDE DEF U
    <3> QED BY <2>1, <2>2, <3>1, Induction
  <2> QED BY <1>4, <2>3
<1> DEFINE pick == [n \in Nat |-> CHOOSE h : From(n, h)]
<1>5. \A n \in Nat : From(n, pick[n])
  <2> SUFFICES ASSUME NEW n \in Nat PROVE From(n, CHOOSE h : From(n, h))
    OBVIOUS
  <2>1. \E h : From(n, h)
    BY <1>3
  <2> HIDE DEF From
  <2> QED BY <2>1
<1> HIDE DEF pick
<1> PICK g : g = [n \in Nat |-> pick[n][n]]
  OBVIOUS
<1>6. g \in [Nat -> D] /\ g[0] = x
  BY <1>5
<1>7. ASSUME NEW n \in Nat
      PROVE  g[n + 1] = F[g[n]]
  <2> PICK a, b : a = pick[n] /\ b = pick[n + 1]
    OBVIOUS
  <2>1. n + 1 \in Nat /\ n <= n /\ n <= n + 1 /\ n < n + 1 /\ n \in 0 .. n + 1
    OBVIOUS
  <2>2. From(n, a) /\ From(n + 1, b)
    BY <1>5, <2>1
  <2>3. b[n] = a[n]
    <3> HIDE DEF From
    <3> QED BY <1>4, <2>1, <2>2
  <2>4. b[n + 1] = F[b[n]]
    BY <2>1, <2>2
  <2>5. g[n] = a[n] /\ g[n + 1] = b[n + 1]
    BY <2>1
  <2> QED BY <2>3, <2>4, <2>5
<1> QED BY <1>6, <1>7 DEF IsIteration

\* Where execution goes on from an instruction is a point.
LEMMA SuccessorPoints ==
  ASSUME NEW code \in Seq(0 .. BYTE - 1), NEW p \in Points, Fetchable(code, p)
  PROVE  Successors(code, p) \subseteq Points
<1> DEFINE op == ByteAt(code, p.at)
<1>1. op \in Opcodes /\ p.at \in Nat /\ p.height \in Int /\ p.at + InstrLen(op) <= Len(code)
  BY DEF Fetchable, Points
<1>2. p.at + InstrLen(op) \in Nat /\ InstrLen(op) \in Nat
  BY <1>1 DEF InstrLen
<1>3. \A i \in 1 .. Len(code) : code[i] \in Nat
  <2>1. \A i \in 1 .. Len(code) : code[i] \in 0 .. BYTE - 1
    BY ElementOfSeq
  <2>2. 0 .. BYTE - 1 \subseteq Nat
    BY DEF BYTE
  <2> QED BY <2>1, <2>2, Zenon
<1>4. ASSUME op \in {OP_SCOPE_EXIT, OP_CALL}
      PROVE  ByteAt(code, p.at + 1) \in Nat
  <2>1. InstrLen(op) = 2
    BY <1>4 DEF InstrLen, SimpleOps, MathOps, JumpOps, OP_SCOPE_EXIT, OP_CALL, OP_HALT, OP_ADD,
       OP_SUB, OP_MUL, OP_DIV, OP_POP, OP_RETURN, OP_JMP, OP_JMP_IF_FALSE
  <2>2. p.at + 1 + 1 \in 1 .. Len(code)
    BY <1>1, <2>1
  <2> QED BY <1>3, <2>2 DEF ByteAt
<1>5. ASSUME op \in JumpOps
      PROVE  AddressAt(code, p.at) \in Nat
  <2>1. InstrLen(op) = 3
    BY <1>5 DEF InstrLen, SimpleOps, MathOps, JumpOps, OP_HALT, OP_ADD,
       OP_SUB, OP_MUL, OP_DIV, OP_POP, OP_RETURN, OP_JMP, OP_JMP_IF_FALSE
  <2>2. p.at + 1 + 1 \in 1 .. Len(code) /\ p.at + 2 + 1 \in 1 .. Len(code)
    BY <1>1, <2>1
  <2>3. ByteAt(code, p.at + 1) \in Nat /\ ByteAt(code, p.at + 2) \in Nat
    BY <1>3, <2>2 DEF ByteAt
  <2> QED BY <2>3 DEF AddressAt, Word, BYTE
<1>6. \A at \in Nat, height \in Int : Point(at, height) \in Points
  BY DEF Point, Points
<1> PICK o, arg, next, h : /\ o = op /\ arg = ByteAt(code, p.at + 1)
                           /\ next = p.at + InstrLen(op) /\ h = p.height
  OBVIOUS
<1>7. /\ next \in Nat /\ h \in Int /\ o \in Opcodes
      /\ o \in {OP_SCOPE_EXIT, OP_CALL} => arg \in Nat
      /\ o \in JumpOps => AddressAt(code, p.at) \in Nat
  BY <1>1, <1>2, <1>4, <1>5
<1>8. \/ o \in {OP_HALT, OP_RETURN}
      \/ o \in {OP_CONST, OP_GET_GLOBAL, OP_GET_LOCAL}
      \/ o \in MathOps \cup {OP_COMPARE, OP_POP}
      \/ o \in {OP_SET_GLOBAL, OP_SET_LOCAL}
      \/ o = OP_JMP
      \/ o = OP_JMP_IF_FALSE
      \/ o \in {OP_SCOPE_EXIT, OP_CALL}
  BY ONLY <1>7 DEF MathOps, Opcodes, OP_HALT, OP_CONST, OP_ADD, OP_SUB, OP_MUL,
     OP_DIV, OP_COMPARE, OP_JMP_IF_FALSE, OP_JMP, OP_GET_GLOBAL, OP_SET_GLOBAL, OP_POP,
     OP_GET_LOCAL, OP_SET_LOCAL, OP_SCOPE_EXIT, OP_CALL, OP_RETURN
<1>9. /\ {} \subseteq Points
      /\ {Point(next, h + 1)} \subseteq Points /\ {Point(next, h - 1)} \subseteq Points
      /\ {Point(next, h)} \subseteq Points
      /\ o \in {OP_SCOPE_EXIT, OP_CALL} => {Point(next, h - arg)} \subseteq Points
      /\ o \in JumpOps => {Point(AddressAt(code, p.at), h)} \subseteq Points
      /\ o \in JumpOps => {Point(next, h - 1), Point(AddressAt(code, p.at), h - 1)}
                            \subseteq Points
  BY <1>6, <1>7
<1>10. o = OP_JMP \/ o = OP_JMP_IF_FALSE => o \in JumpOps
  BY DEF JumpOps
<1> PICK S : S = Successors(code, p)
  OBVIOUS
<1>11. \/ S \in {{}, {Point(next, h + 1)}, {Point(next, h - 1)}, {Point(next, h)}}
       \/ o \in {OP_SCOPE_EXIT, OP_CALL} /\ S = {Point(next, h - arg)}
       \/ o = OP_JMP /\ S = {Point(AddressAt(code, p.at), h)}
       \/ o = OP_JMP_IF_FALSE /\ S = {Point(next, h - 1), Point(AddressAt(code, p.at), h - 1)}
  BY <1>8 DEF Successors
<1> QED BY <1>9, <1>10, <1>11

\* Where execution goes on: nowhere, behind the instruction, or where it jumps.
LEMMA SuccessorForms ==
  ASSUME NEW code, NEW p, NEW o, o = ByteAt(code, p.at), o \in Opcodes,
         NEW next, next = p.at + InstrLen(o), NEW to, to = Successors(code, p)
  PROVE  \/ o \in {OP_HALT, OP_RETURN} /\ to = {}
         \/ /\ o \notin {OP_HALT, OP_RETURN, OP_JMP, OP_JMP_IF_FALSE}
            /\ \E h : to = {Point(next, h)}
         \/ o = OP_JMP /\ \E h : to = {Point(AddressAt(code, p.at), h)}
         \/ /\ o = OP_JMP_IF_FALSE
            /\ \E h : to = {Point(next, h), Point(AddressAt(code, p.at), h)}
<1> PICK arg, h : arg = ByteAt(code, p.at + 1) /\ h = p.height
  OBVIOUS
<1>1. \/ o \in {OP_HALT, OP_RETURN}
      \/ o \in {OP_CONST, OP_GET_GLOBAL, OP_GET_LOCAL}
      \/ o \in MathOps \cup {OP_COMPARE, OP_POP}
      \/ o \in {OP_SET_GLOBAL, OP_SET_LOCAL}
      \/ o = OP_JMP
      \/ o = OP_JMP_IF_FALSE
      \/ o \in {OP_SCOPE_EXIT, OP_CALL}
  BY ONLY o \in Opcodes DEF MathOps, Opcodes, OP_HALT, OP_CONST, OP_ADD, OP_SUB, OP_MUL,
     OP_DIV, OP_COMPARE, OP_JMP_IF_FALSE, OP_JMP, OP_GET_GLOBAL, OP_SET_GLOBAL, OP_POP,
     OP_GET_LOCAL, OP_SET_LOCAL, OP_SCOPE_EXIT, OP_CALL, OP_RETURN
<1>2. /\ OP_JMP \notin {OP_HALT, OP_RETURN, OP_JMP_IF_FALSE}
      /\ OP_JMP_IF_FALSE \notin {OP_HALT, OP_RETURN}
      /\ \A q \in {OP_CONST, OP_GET_GLOBAL, OP_GET_LOCAL, OP_SET_GLOBAL, OP_SET_LOCAL,
                   OP_SCOPE_EXIT, OP_CALL} \cup MathOps \cup {OP_COMPARE, OP_POP} :
           q \notin {OP_HALT, OP_RETURN, OP_JMP, OP_JMP_IF_FALSE}
  BY DEF MathOps, OP_HALT, OP_CONST, OP_ADD, OP_SUB, OP_MUL,
     OP_DIV, OP_COMPARE, OP_JMP_IF_FALSE, OP_JMP, OP_GET_GLOBAL, OP_SET_GLOBAL, OP_POP,
     OP_GET_LOCAL, OP_SET_LOCAL, OP_SCOPE_EXIT, OP_CALL, OP_RETURN
<1>3. \/ o \in {OP_HALT, OP_RETURN} /\ to = {}
      \/ o \in {OP_CONST, OP_GET_GLOBAL, OP_GET_LOCAL} /\ to = {Point(next, h + 1)}
      \/ o \in MathOps \cup {OP_COMPARE, OP_POP} /\ to = {Point(next, h - 1)}
      \/ o \in {OP_SET_GLOBAL, OP_SET_LOCAL} /\ to = {Point(next, h)}
      \/ o = OP_JMP /\ to = {Point(AddressAt(code, p.at), h)}
      \/ o = OP_JMP_IF_FALSE /\ to = {Point(next, h - 1), Point(AddressAt(code, p.at), h - 1)}
      \/ o \in {OP_SCOPE_EXIT, OP_CALL} /\ to = {Point(next, h - arg)}
  BY <1>1 DEF Successors
<1>4. /\ o \in {OP_CONST, OP_GET_GLOBAL, OP_GET_LOCAL, OP_SET_GLOBAL, OP_SET_LOCAL,
                OP_SCOPE_EXIT, OP_CALL} \cup MathOps \cup {OP_COMPARE, OP_POP} =>
           o \notin {OP_HALT, OP_RETURN, OP_JMP, OP_JMP_IF_FALSE}
  BY <1>2
<1> QED BY <1>3, <1>4

\* What Flow computes with: up to 2^k steps from each set of points.
Advanced(code, advance, k, S) ==
  IF Onward(code, S) = S THEN S
  ELSE IF k = 0 THEN Onward(code, S)
  ELSE advance[k - 1][advance[k - 1][S]]

\* The function that Flow defines by recursion.
IsAdvance(code, advance) ==
  advance = [k \in Nat |-> [S \in SUBSET Points |-> Advanced(code, advance, k, S)]]

\* The recursion of Flow is well-founded.
LEMMA AdvanceExists ==
  ASSUME NEW code \in Seq(0 .. BYTE - 1)
  PROVE  \E advance : IsAdvance(code, advance)
<1> DEFINE Twice(a) == [S \in SUBSET Points |->
                          IF Onward(code, S) = S THEN S ELSE a[a[S]]]
<1> PICK D : D = [SUBSET Points -> SUBSET Points]
  OBVIOUS
<1> PICK x : x = [S \in SUBSET Points |-> Onward(code, S)]
  OBVIOUS
<1> PICK F : F = [a \in D |-> Twice(a)]
  OBVIOUS
<1>1. \A S \in SUBSET Points : Onward(code, S) \in SUBSET Points
  BY SuccessorPoints DEF Onward
<1>2. x \in D /\ F \in [D -> D]
  BY <1>1
<1>3. PICK g : IsIteration(g, D, x, F)
  BY ONLY <1>2, Iteration
<1>4. g \in [Nat -> D] /\ g[0] = x /\ \A n \in Nat : g[n + 1] = F[g[n]]
  BY <1>3 DEF IsIteration
<1>5. ASSUME NEW k \in Nat, NEW S \in SUBSET Points
      PROVE  g[k][S] = Advanced(code, g, k, S)
  <2>1. CASE k = 0
    BY <1>4, <2>1 DEF Advanced
  <2>2. CASE k # 0
    <3>1. k - 1 \in Nat /\ k - 1 + 1 = k
      BY <2>2
    <3>2. g[k] = F[g[k - 1]] /\ g[k - 1] \in D
      BY <1>4, <3>1
    <3>3. g[k] = Twice(g[k - 1])
      BY <3>2
    <3> QED BY <2>2, <3>3 DEF Advanced
  <2> QED BY <2>1, <2>2
<1>6. IsAdvance(code, g)
  <2>1. \A k \in Nat : g[k] = [S \in SUBSET Points |-> Advanced(code, g, k, S)]
    BY <1>4, <1>5
  <2>2. g = [k \in Nat |-> g[k]]
    BY <1>4
  <2> QED BY <2>1, <2>2 DEF IsAdvance
<1> QED BY <1>6

\* So Flow is what it is defined to be.
LEMMA FlowAdvances ==
  ASSUME NEW objects, NEW f, objects[f].code \in Seq(0 .. BYTE - 1)
  PROVE  \E advance : /\ IsAdvance(objects[f].code, advance)
                      /\ Flow(objects, f) = advance[Doublings(Len(objects[f].code))]
                                                   [{EntryPoint(objects, f)}]
<1> DEFINE code    == objects[f].code
           advance == CHOOSE a : IsAdvance(code, a)
<1>1. IsAdvance(code, advance)
  BY AdvanceExists
<1>2. Flow(objects, f) = advance[Doublings(Len(code))][{EntryPoint(objects, f)}]
  BY Zenon DEF Flow, IsAdvance, Advanced
<1> HIDE DEF advance
<1> QED BY <1>1, <1>2

\* Execution stays among the points that it cannot leave.
LEMMA FlowStays ==
  ASSUME NEW objects, NEW f, objects[f].code \in Seq(0 .. BYTE - 1),
         NEW Q \in SUBSET Points, EntryPoint(objects, f) \in Q,
         \A p \in Q : Fetchable(objects[f].code, p) => Successors(objects[f].code, p) \subseteq Q
  PROVE  Flow(objects, f) \subseteq Q
<1> PICK code : code = objects[f].code
  OBVIOUS
<1>1. PICK advance : /\ IsAdvance(code, advance)
                     /\ Flow(objects, f) = advance[Doublings(Len(code))][{EntryPoint(objects, f)}]
  BY FlowAdvances
<1>2. \A k \in Nat : \A S \in SUBSET Q : advance[k][S] = Advanced(code, advance, k, S)
  <2>1. \A S \in SUBSET Q : S \in SUBSET Points
    OBVIOUS
  <2>2. \A k \in Nat : advance[k] = [S \in SUBSET Points |-> Advanced(code, advance, k, S)]
    BY <1>1 DEF IsAdvance
  <2> QED BY <2>1, <2>2
<1>3. \A S \in SUBSET Q : Onward(code, S) \in SUBSET Q
  BY DEF Onward
<1> DEFINE T == {k \in Nat : \A S \in SUBSET Q : advance[k][S] \in SUBSET Q}
<1>4. 0 \in T
  BY <1>2, <1>3 DEF Advanced
<1>5. ASSUME NEW k \in T
      PROVE  k + 1 \in T
  <2>1. k + 1 \in Nat /\ k + 1 # 0 /\ k + 1 - 1 = k /\ k \in Nat
    OBVIOUS
  <2>2. \A S \in SUBSET Q : advance[k][advance[k][S]] \in SUBSET Q
    OBVIOUS
  <2> QED BY <1>2, <2>1, <2>2 DEF Advanced
<1>6. T = Nat
  <2>1. T \in SUBSET Nat
    OBVIOUS
  <2> HIDE DEF T
  <2> QED BY <1>4, <1>5, <2>1, Induction
<1>7. Doublings(Len(code)) \in Nat
  <2>1. IsFiniteSet(0 .. 15)
    <3>1. 0 \in Int /\ 15 \in Int
      OBVIOUS
    <3> QED BY <3>1, FS_Interval, Zenon
  <2>2. IsFiniteSet({k \in 0 .. 15 : 2^k < Len(code)})
    BY <2>1, FS_Subset
  <2> QED BY <2>2, FS_CardinalityType DEF Doublings
<1> QED BY <1>1, <1>6, <1>7
=============================================================================
