------------------------- MODULE VioCollectorProofs -------------------------
(***************************************************************************)
(* Proofs about the collector: for every set of objects of any sizes, any  *)
(* roots and any order in which they are visited.                          *)
(***************************************************************************)
EXTENDS VioCollector, TLAPS, SequenceTheorems, FiniteSetTheorems, FunctionTheorems

-----------------------------------------------------------------------------
(***************************************************************************)
(* Lists without duplicates.                                               *)
(***************************************************************************)

\* A list has as many elements as places just when no element is in it twice.
LEMMA ListOfDistinct ==
  ASSUME NEW S, NEW s \in Seq(S)
  PROVE  /\ IsFiniteSet(Range(s))
         /\ Cardinality(Range(s)) = Len(s) <=> IsInjective(s)
<1>1. Len(s) \in Nat /\ DOMAIN s = 1 .. Len(s) /\ s \in [1 .. Len(s) -> S]
  OBVIOUS
<1>2. s \in Surjection(1 .. Len(s), Range(s))
  BY <1>1, Fun_RangeProperties
<1>3. IsFiniteSet(1 .. Len(s)) /\ Cardinality(1 .. Len(s)) = Len(s)
  BY <1>1, FS_Interval
<1>4. s \in Injection(1 .. Len(s), Range(s)) <=> IsInjective(s)
  BY <1>1, <1>2, Fun_SurjectionProperties DEF Injection
<1> QED BY <1>2, <1>3, <1>4, FS_Surjection

\* The element at a place, and only this one, is missing from what RemoveAt
\* leaves of such a list; the places before it stay, those behind it move up.
LEMMA Removed ==
  ASSUME NEW S, NEW s \in Seq(S), IsInjective(s), NEW i \in 1 .. Len(s)
  PROVE  LET r == RemoveAt(s, i)
         IN /\ r \in Seq(S)
            /\ Len(r) = Len(s) - 1
            /\ \A j \in 1 .. i - 1 : r[j] = s[j]
            /\ \A j \in i .. Len(s) - 1 : r[j] = s[j + 1]
            /\ IsInjective(r)
            /\ Range(r) = Range(s) \ {s[i]}
<1> DEFINE r == RemoveAt(s, i)
           a == SubSeq(s, 1, i - 1)
           b == SubSeq(s, i + 1, Len(s))
<1>1. /\ a \in Seq(S) /\ Len(a) = i - 1
      /\ \A j \in 1 .. i - 1 : a[j] = s[j]
  OBVIOUS
<1>2. /\ b \in Seq(S) /\ Len(b) = Len(s) - i
      /\ \A j \in 1 .. Len(s) - i : b[j] = s[i + j]
  OBVIOUS
<1>3. r = a \o b
  BY DEF RemoveAt
<1> HIDE DEF r, a, b
<1>4. /\ r \in Seq(S) /\ Len(r) = Len(s) - 1
      /\ \A j \in 1 .. Len(s) - 1 : r[j] = IF j <= i - 1 THEN a[j] ELSE b[j - (i - 1)]
  <2>1. Len(a) + Len(b) = Len(s) - 1
    BY <1>1, <1>2
  <2>2. /\ a \o b \in Seq(S) /\ Len(a \o b) = Len(a) + Len(b)
        /\ \A j \in 1 .. Len(a) + Len(b) :
             (a \o b)[j] = IF j <= Len(a) THEN a[j] ELSE b[j - Len(a)]
    BY <1>1, <1>2, ConcatProperties
  <2> QED BY <1>1, <1>3, <2>1, <2>2
<1>5. ASSUME NEW j \in 1 .. i - 1 PROVE r[j] = s[j]
  <2>1. j \in 1 .. Len(s) - 1 /\ j <= i - 1
    OBVIOUS
  <2>2. r[j] = a[j]
    BY <1>4, <2>1
  <2> QED BY <1>1, <2>2
<1>6. ASSUME NEW j \in i .. Len(s) - 1 PROVE r[j] = s[j + 1]
  <2>1. j \in 1 .. Len(s) - 1 /\ ~ (j <= i - 1)
    OBVIOUS
  <2>2. j - (i - 1) \in 1 .. Len(s) - i /\ i + (j - (i - 1)) = j + 1
    OBVIOUS
  <2> QED BY <1>2, <1>4, <2>1, <2>2
<1>7. DOMAIN r = 1 .. Len(s) - 1 /\ DOMAIN s = 1 .. Len(s)
  BY <1>4
<1>8. \A j \in 1 .. Len(s) - 1 : j \in 1 .. i - 1 \/ j \in i .. Len(s) - 1
  OBVIOUS
<1>9. IsInjective(r)
  <2> SUFFICES ASSUME NEW j \in 1 .. Len(s) - 1, NEW k \in 1 .. Len(s) - 1,
                      r[j] = r[k]
               PROVE  j = k
    BY <1>7 DEF IsInjective
  <2> DEFINE old(n) == IF n < i THEN n ELSE n + 1
  <2>1. r[j] = s[old(j)] /\ r[k] = s[old(k)]
    BY <1>5, <1>6, <1>8
  <2>2. old(j) \in 1 .. Len(s) /\ old(k) \in 1 .. Len(s)
    OBVIOUS
  <2>3. old(j) = old(k)
    BY <1>7, <2>1, <2>2 DEF IsInjective
  <2> QED BY <2>3
<1>10. Range(r) = Range(s) \ {s[i]}
  <2>1. ASSUME NEW j \in 1 .. Len(s) - 1 PROVE r[j] \in Range(s) \ {s[i]}
    <3> DEFINE n == IF j < i THEN j ELSE j + 1
    <3>1. r[j] = s[n] /\ n \in 1 .. Len(s) /\ n # i
      BY <1>5, <1>6, <1>8
    <3> HIDE DEF n
    <3>2. s[n] # s[i]
      BY <1>7, <3>1 DEF IsInjective
    <3> QED BY <1>7, <3>1, <3>2 DEF Range
  <2>2. ASSUME NEW n \in 1 .. Len(s), s[n] # s[i] PROVE s[n] \in Range(r)
    <3> DEFINE j == IF n < i THEN n ELSE n - 1
    <3>1. j \in 1 .. Len(s) - 1 /\ r[j] = s[n]
      <4>1. CASE n < i
        BY <1>5, <4>1
      <4>2. CASE n > i
        <5>1. n - 1 \in i .. Len(s) - 1 /\ (n - 1) + 1 = n
          BY <4>2
        <5> QED BY <1>6, <4>2, <5>1
      <4>3. n # i
        BY <2>2
      <4> QED BY <4>1, <4>2, <4>3
    <3> HIDE DEF j
    <3> QED BY <1>7, <3>1 DEF Range
  <2> QED BY <1>7, <2>1, <2>2 DEF Range
<1> QED BY <1>4, <1>5, <1>6, <1>9, <1>10 DEF r

\* A new element at the end.
LEMMA Appended ==
  ASSUME NEW S, NEW s \in Seq(S), IsInjective(s), NEW x \in S, x \notin Range(s)
  PROVE  /\ IsInjective(Append(s, x))
         /\ Range(Append(s, x)) = Range(s) \cup {x}
<1> DEFINE t == Append(s, x)
<1>1. /\ Len(t) = Len(s) + 1 /\ DOMAIN t = 1 .. Len(s) + 1
      /\ DOMAIN s = 1 .. Len(s) /\ Len(s) \in Nat
      /\ \A i \in 1 .. Len(s) : t[i] = s[i]
      /\ t[Len(s) + 1] = x
  OBVIOUS
<1> HIDE DEF t
<1>2. \A i \in 1 .. Len(s) : s[i] # x
  BY <1>1 DEF Range
<1>3. \A i \in 1 .. Len(s) + 1 : i = Len(s) + 1 \/ i \in 1 .. Len(s)
  BY <1>1
<1>4. IsInjective(t)
  BY <1>1, <1>2, <1>3 DEF IsInjective
<1>5. Range(t) = Range(s) \cup {x}
  <2>1. \A i \in 1 .. Len(s) : i \in 1 .. Len(s) + 1
    BY <1>1
  <2>2. Len(s) + 1 \in 1 .. Len(s) + 1
    BY <1>1
  <2> QED BY <1>1, <1>3, <2>1, <2>2 DEF Range
<1> QED BY <1>4, <1>5 DEF t

\* What Last and Front make of a list.
LEMMA TakenOff ==
  ASSUME NEW S, NEW s \in Seq(S), s # <<>>
  PROVE  /\ Front(s) \in Seq(S) /\ Last(s) \in S
         /\ Range(s) = Range(Front(s)) \cup {Last(s)}
<1> DEFINE n == Len(s)
<1>1. n \in Nat /\ n >= 1 /\ DOMAIN s = 1 .. n
  OBVIOUS
<1>2. /\ Front(s) \in Seq(S) /\ DOMAIN Front(s) = 1 .. n - 1
      /\ \A i \in 1 .. n - 1 : Front(s)[i] = s[i]
  BY <1>1 DEF Front
<1>3. Last(s) = s[n]
  BY DEF Last
<1> HIDE DEF n
<1>4. \A i \in 1 .. n : i = n \/ i \in 1 .. n - 1
  BY <1>1
<1>5. n \in 1 .. n /\ \A i \in 1 .. n - 1 : i \in 1 .. n
  BY <1>1
<1>6. Range(s) = Range(Front(s)) \cup {Last(s)}
  BY <1>1, <1>2, <1>3, <1>4, <1>5 DEF Range
<1>7. s[n] \in S
  BY <1>1, <1>5
<1> QED BY <1>2, <1>3, <1>6, <1>7

\* Every order of a finite set lists its elements, each once.
LEMMA Orders ==
  ASSUME NEW S, IsFiniteSet(S), NEW s \in SetToSeqs(S)
  PROVE  s \in Seq(S) /\ Range(s) = S
<1> PICK n : n = Cardinality(S)
  OBVIOUS
<1>1. n \in Nat
  BY FS_CardinalityType
<1>2. s \in [1 .. n -> S] /\ \A i, j \in 1 .. n : i # j => s[i] # s[j]
  BY DEF SetToSeqs
<1>3. s \in Injection(1 .. n, S)
  BY <1>2, Fun_IsInj
<1>4. IsFiniteSet(1 .. n) /\ Cardinality(1 .. n) = n
  BY <1>1, FS_Interval
<1>5. s \in Surjection(1 .. n, S)
  BY <1>3, <1>4, FS_Injection
<1>6. s \in Seq(S)
  BY <1>1, <1>2, SeqDef
<1> QED BY <1>5, <1>6, Fun_SurjectionProperties

-----------------------------------------------------------------------------
(***************************************************************************)
(* Bytes.                                                                  *)
(***************************************************************************)

\* One object takes size[o] bytes.
LEMMA BytesOfOne ==
  ASSUME NEW o \in Objects
  PROVE  IsFiniteSet(Bytes({o})) /\ Cardinality(Bytes({o})) = size[o]
<1>1. Bytes({o}) = {o} \X (1 .. size[o])
  BY DEF Bytes
<1>2. IsFiniteSet({o}) /\ Cardinality({o}) = 1
  BY FS_Singleton
<1>3. size[o] \in Nat
  BY SizeAssumption
<1>4. IsFiniteSet(1 .. size[o]) /\ Cardinality(1 .. size[o]) = size[o]
  <2>1. IsFiniteSet(1 .. size[o])
        /\ Cardinality(1 .. size[o]) = IF 1 > size[o] THEN 0 ELSE size[o] - 1 + 1
    <3>1. 1 \in Int /\ size[o] \in Int
      BY <1>3
    <3> QED BY <3>1, FS_Interval, Zenon
  <2>2. (IF 1 > size[o] THEN 0 ELSE size[o] - 1 + 1) = size[o]
    BY <1>3
  <2> QED BY <2>1, <2>2
<1>5. IsFiniteSet({o} \X (1 .. size[o]))
      /\ Cardinality({o} \X (1 .. size[o])) = 1 * size[o]
  <2> PICK S, T : S = {o} /\ T = 1 .. size[o]
    OBVIOUS
  <2>1. IsFiniteSet(S \X T) /\ Cardinality(S \X T) = Cardinality(S) * Cardinality(T)
    BY <1>2, <1>4, FS_Product, Zenon
  <2> QED BY <1>2, <1>4, <2>1
<1>6. 1 * size[o] = size[o]
  BY <1>3
<1> QED BY <1>1, <1>5, <1>6

\* Different objects have no byte in common.
LEMMA BytesAdded ==
  ASSUME NEW os \in SUBSET Objects, IsFiniteSet(Bytes(os)), NEW o \in Objects \ os
  PROVE  /\ IsFiniteSet(Bytes(os \cup {o}))
         /\ Cardinality(Bytes(os \cup {o})) = Cardinality(Bytes(os)) + size[o]
<1>1. Bytes(os \cup {o}) = Bytes(os) \cup Bytes({o})
  BY DEF Bytes
<1>2. Bytes(os) \cap Bytes({o}) = {}
  BY DEF Bytes
<1>3. IsFiniteSet(Bytes({o})) /\ Cardinality(Bytes({o})) = size[o]
  BY BytesOfOne
<1>4. Cardinality({}) = 0 /\ Cardinality(Bytes(os)) \in Nat /\ size[o] \in Nat
  BY FS_EmptySet, FS_CardinalityType, SizeAssumption
<1>5. /\ IsFiniteSet(Bytes(os) \cup Bytes({o}))
      /\ Cardinality(Bytes(os) \cup Bytes({o})) =
           Cardinality(Bytes(os)) + Cardinality(Bytes({o}))
             - Cardinality(Bytes(os) \cap Bytes({o}))
  BY <1>3, FS_Union
<1>6. Cardinality(Bytes(os) \cap Bytes({o})) = 0
  BY <1>2, <1>4
<1>7. Cardinality(Bytes(os) \cup Bytes({o})) = Cardinality(Bytes(os)) + size[o]
  BY <1>3, <1>4, <1>5, <1>6
<1> QED BY <1>1, <1>5, <1>7

\* So one that goes takes its bytes with it, and no others.
LEMMA BytesTaken ==
  ASSUME NEW os \in SUBSET Objects, IsFiniteSet(Bytes(os)), NEW o \in os
  PROVE  /\ IsFiniteSet(Bytes(os \ {o}))
         /\ Cardinality(Bytes(os \ {o}))
              = Cardinality(Bytes(os)) - Cardinality(Bytes({o}))
<1>1. IsFiniteSet(Bytes(os \ {o}))
  <2>1. Bytes(os \ {o}) \in SUBSET Bytes(os)
    BY DEF Bytes
  <2> QED BY <2>1, FS_Subset
<1>2. os \ {o} \in SUBSET Objects /\ o \in Objects \ (os \ {o})
      /\ (os \ {o}) \cup {o} = os
  OBVIOUS
<1>3. Cardinality(Bytes(os)) = Cardinality(Bytes(os \ {o})) + size[o]
  BY <1>1, <1>2, BytesAdded
<1>4. Cardinality(Bytes({o})) = size[o] /\ size[o] \in Nat
  BY BytesOfOne, SizeAssumption
<1>5. Cardinality(Bytes(os \ {o})) \in Nat
  BY <1>1, FS_CardinalityType
<1> QED BY <1>1, <1>3, <1>4, <1>5

-----------------------------------------------------------------------------
(***************************************************************************)
(* The inductive invariant.                                                *)
(***************************************************************************)

\* The types: those of TypeOK, with the list free of duplicates instead of
\* a count of its elements.
Types ==
  /\ objects \in Seq(Objects) /\ IsInjective(objects)
  /\ Heap \subseteq memory /\ memory \subseteq Objects
  /\ references \subseteq memory \X memory
  /\ marked \subseteq Heap
  /\ phase \in {"mutator", "mark", "sweep"}
  /\ roots \subseteq Objects
  /\ worklist \in Seq(Objects) /\ Range(worklist) \subseteq Heap
  /\ it \in 1 .. Len(objects) + 1

Counted == IsFiniteSet(Bytes(Heap)) /\ BytesAreCounted

\* mark() has marked every root or has it still to visit, and visits nothing
\* but roots.
MarksRoots ==
  phase = "mark" => /\ roots \subseteq Heap
                    /\ roots \subseteq marked \cup Range(worklist)
                    /\ Range(worklist) \subseteq roots

\* sweep() has passed no marked object; elsewhere nothing is left to visit.
SweepsMarks ==
  /\ phase = "sweep" => \A i \in 1 .. it - 1 : objects[i] \notin marked
  /\ phase # "sweep" => it = 1
  /\ phase # "mark"  => worklist = <<>>

CInv == Types /\ Counted /\ MarksRoots /\ SweepsMarks

-----------------------------------------------------------------------------
(***************************************************************************)
(* The steps.                                                              *)
(***************************************************************************)

\* Nothing is allocated, and nothing has to be swept.
LEMMA InitCInv == Init => CInv
<1> SUFFICES ASSUME Init
             PROVE  CInv
  OBVIOUS
<1>1. /\ objects = <<>> /\ bytesAllocated = 0 /\ marked = {} /\ phase = "mutator"
      /\ roots = {} /\ worklist = <<>> /\ it = 1 /\ memory = {} /\ references = {}
  BY DEF Init
<1>2. Heap = {} /\ Range(worklist) = {}
  BY <1>1 DEF Heap, Range
<1>3. Types
  BY <1>1, <1>2 DEF Types, IsInjective
<1>4. Counted
  <2>1. Bytes({}) = {}
    BY DEF Bytes
  <2> QED BY <1>1, <1>2, <2>1, FS_EmptySet DEF Counted, BytesAreCounted
<1> QED BY <1>1, <1>3, <1>4 DEF CInv, MarksRoots, SweepsMarks

\* operator new adds one object and its bytes.
LEMMA AllocateCInv == ASSUME CInv, Allocate PROVE CInv'
<1>1. PICK o \in Objects \ memory :
        /\ memory' = memory \cup {o}
        /\ objects' = Append(objects, o)
        /\ bytesAllocated' = bytesAllocated + size[o]
        /\ marked' = marked \/ marked' = marked \cup {o}
  BY DEF Allocate
<1>2. phase = "mutator" /\ UNCHANGED <<references, phase, roots, worklist, it>>
  BY DEF Allocate
<1>3. /\ objects' \in Seq(Objects) /\ IsInjective(objects')
      /\ Heap' = Heap \cup {o} /\ Len(objects') = Len(objects) + 1
      /\ o \in Objects \ Heap
  <2>1. objects \in Seq(Objects) /\ IsInjective(objects) /\ o \in Objects
        /\ o \notin Range(objects)
    BY DEF CInv, Types, Heap
  <2> QED BY <1>1, <2>1, Appended DEF Heap
<1>4. Types'
  BY <1>1, <1>2, <1>3 DEF CInv, Types
<1>5. Counted'
  <2>1. Heap \in SUBSET Objects
    BY DEF CInv, Types, Heap, Range
  <2> QED BY <1>1, <1>3, <2>1, BytesAdded DEF CInv, Counted, BytesAreCounted
<1> QED BY <1>2, <1>4, <1>5 DEF CInv, MarksRoots, SweepsMarks

\* A pointer from one object of the heap to another changes nothing else.
LEMMA ReferCInv == ASSUME CInv, addConst PROVE CInv'
<1>1. /\ references' \subseteq references \cup (Heap \X Heap)
      /\ UNCHANGED <<objects, bytesAllocated, memory, marked, phase,
                     roots, worklist, it>>
  BY DEF addConst, heap
<1>2. Heap' = Heap /\ Heap \subseteq memory
  BY <1>1 DEF Heap, CInv, Types
<1>3. references' \subseteq memory \X memory
  BY <1>1, <1>2 DEF CInv, Types
<1> QED
  BY <1>1, <1>2, <1>3
  DEF CInv, Types, Counted, BytesAreCounted, MarksRoots, SweepsMarks

\* cleanup() leaves no object and no byte.
LEMMA CleanupCInv == ASSUME CInv, cleanup PROVE CInv'
<1>1. /\ phase = "mutator" /\ objects' = <<>> /\ marked' = {}
      /\ bytesAllocated' = bytesAllocated - Cardinality(Bytes(Heap))
      /\ UNCHANGED <<memory, references, phase, roots, worklist, it>>
  BY DEF cleanup, delete
<1>2. worklist = <<>> /\ it = 1
  BY <1>1 DEF CInv, SweepsMarks
<1>3. Heap' = {} /\ Range(worklist') = {}
  BY <1>1, <1>2 DEF Heap, Range
<1>4. Types'
  BY <1>1, <1>2, <1>3 DEF CInv, Types, IsInjective
<1>5. Counted'
  <2>1. Cardinality(Bytes(Heap)) \in Nat
    BY FS_CardinalityType DEF CInv, Counted
  <2>2. bytesAllocated' = 0
    BY <1>1, <2>1 DEF CInv, Counted, BytesAreCounted
  <2>3. Bytes({}) = {}
    BY DEF Bytes
  <2> QED BY <1>3, <2>2, <2>3, FS_EmptySet DEF Counted, BytesAreCounted
<1> QED BY <1>1, <1>2, <1>4, <1>5 DEF CInv, MarksRoots, SweepsMarks

\* gc() starts with all roots to be visited.
LEMMA StartMarkCInv == ASSUME CInv, StartMark PROVE CInv'
<1>1. PICK rs \in SUBSET Heap : roots' = rs /\ worklist' \in SetToSeqs(rs)
  BY DEF StartMark
<1>2. /\ phase = "mutator" /\ phase' = "mark"
      /\ UNCHANGED <<objects, bytesAllocated, memory, references, marked, it>>
  BY DEF StartMark, heap
<1>3. Heap \in SUBSET Objects /\ IsFiniteSet(Heap)
  BY ListOfDistinct DEF CInv, Types, Heap, Range
<1>4. worklist' \in Seq(rs) /\ Range(worklist') = rs
  BY <1>1, <1>3, FS_Subset, Orders
<1>5. worklist' \in Seq(Objects)
  BY <1>1, <1>3, <1>4
<1>6. Heap' = Heap
  BY <1>2 DEF Heap
<1>7. Types'
  BY <1>1, <1>2, <1>3, <1>4, <1>5, <1>6 DEF CInv, Types
<1>8. Counted' /\ MarksRoots' /\ SweepsMarks'
  BY <1>1, <1>2, <1>4, <1>6
  DEF CInv, Counted, BytesAreCounted, MarksRoots, SweepsMarks
<1> QED BY <1>7, <1>8 DEF CInv

\* mark() takes the last object off the list and marks it; it follows no
\* pointer from there.
LEMMA MarkStepTakes ==
  ASSUME CInv, MarkStep
  PROVE  /\ phase = "mark" /\ worklist # <<>>
         /\ Last(worklist) \in roots
         /\ worklist' = Front(worklist) /\ marked' = marked \cup {Last(worklist)}
         /\ UNCHANGED <<objects, bytesAllocated, memory, references, phase, roots, it>>
<1>1. /\ phase = "mark" /\ worklist # <<>>
      /\ UNCHANGED <<objects, bytesAllocated, memory, references, phase, roots, it>>
  BY DEF MarkStep, heap
<1>2. /\ Front(worklist) \in Seq(Objects)
      /\ Range(worklist) = Range(Front(worklist)) \cup {Last(worklist)}
  BY <1>1, TakenOff DEF CInv, Types
<1>3. \A order \in SetToSeqs({}) : Front(worklist) \o order = Front(worklist)
  <2> SUFFICES ASSUME NEW order \in SetToSeqs({})
               PROVE  Front(worklist) \o order = Front(worklist)
    OBVIOUS
  <2>1. order \in Seq({})
    BY FS_EmptySet, Orders
  <2>2. order = <<>>
    BY <2>1
  <2> QED BY <1>2, <2>2, ConcatEmptySeq
<1>4. /\ worklist' = Front(worklist) /\ marked' = marked \cup {Last(worklist)}
  BY <1>3 DEF MarkStep, getPointers
<1>5. Last(worklist) \in roots
  BY <1>1, <1>2 DEF CInv, MarksRoots
<1> QED BY <1>1, <1>4, <1>5

LEMMA MarkStepCInv == ASSUME CInv, MarkStep PROVE CInv'
<1>1. /\ phase = "mark" /\ worklist # <<>>
      /\ Last(worklist) \in roots
      /\ worklist' = Front(worklist) /\ marked' = marked \cup {Last(worklist)}
      /\ UNCHANGED <<objects, bytesAllocated, memory, references, phase, roots, it>>
  BY MarkStepTakes
<1>2. /\ Front(worklist) \in Seq(Objects)
      /\ Range(worklist) = Range(Front(worklist)) \cup {Last(worklist)}
  BY <1>1, TakenOff DEF CInv, Types
<1>3. Heap' = Heap
  BY <1>1 DEF Heap
<1>4. Types'
  BY <1>1, <1>2, <1>3 DEF CInv, Types
<1>5. Counted' /\ MarksRoots' /\ SweepsMarks'
  BY <1>1, <1>2, <1>3
  DEF CInv, Counted, BytesAreCounted, MarksRoots, SweepsMarks
<1> QED BY <1>4, <1>5 DEF CInv

\* sweep() starts when every root is marked.
LEMMA StartSweepCInv == ASSUME CInv, StartSweep PROVE CInv'
<1>1. /\ phase = "mark" /\ worklist = <<>> /\ phase' = "sweep" /\ it' = 1
      /\ UNCHANGED <<objects, bytesAllocated, memory, references, marked, roots, worklist>>
  BY DEF StartSweep, heap
<1>2. Heap' = Heap
  BY <1>1 DEF Heap
<1>3. 1 \in 1 .. Len(objects) + 1
  BY DEF CInv, Types
<1> QED
  BY <1>1, <1>2, <1>3
  DEF CInv, Types, Counted, BytesAreCounted, MarksRoots, SweepsMarks

\* It passes an object that loses its mark.
LEMMA PassCInv ==
  ASSUME CInv, SweepStep, objects[it] \in marked
  PROVE  CInv'
<1>1. /\ phase = "sweep" /\ it <= Len(objects)
      /\ marked' = marked \ {objects[it]} /\ it' = it + 1
      /\ UNCHANGED <<objects, bytesAllocated, memory, references, phase, roots, worklist>>
  BY DEF SweepStep, heap
<1>2. Heap' = Heap
  BY <1>1 DEF Heap
<1>3. it' \in 1 .. Len(objects) + 1
  BY <1>1 DEF CInv, Types
<1>4. \A i \in 1 .. it' - 1 : objects[i] \notin marked'
  <2>1. \A i \in 1 .. it' - 1 : i = it \/ i \in 1 .. it - 1
    BY <1>1 DEF CInv, Types
  <2> QED BY <1>1, <2>1 DEF CInv, SweepsMarks
<1> QED
  BY <1>1, <1>2, <1>3, <1>4
  DEF CInv, Types, Counted, BytesAreCounted, MarksRoots, SweepsMarks

\* Or erases and deletes it.
LEMMA EraseCInv ==
  ASSUME CInv, SweepStep, objects[it] \notin marked
  PROVE  CInv'
<1>1. /\ phase = "sweep" /\ it <= Len(objects)
      /\ objects' = RemoveAt(objects, it)
      /\ bytesAllocated' = bytesAllocated - Cardinality(Bytes({objects[it]}))
      /\ UNCHANGED <<memory, references, marked, it, phase, roots, worklist>>
  BY DEF SweepStep, delete
<1>2. it \in 1 .. Len(objects) /\ objects \in Seq(Objects) /\ IsInjective(objects)
  BY <1>1 DEF CInv, Types
<1>3. /\ objects' \in Seq(Objects) /\ IsInjective(objects')
      /\ Len(objects') = Len(objects) - 1
      /\ Heap' = Heap \ {objects[it]}
      /\ \A i \in 1 .. it - 1 : objects'[i] = objects[i]
  BY <1>1, <1>2, Removed DEF Heap
<1>4. worklist = <<>> /\ Range(worklist) = {}
  BY <1>1 DEF CInv, SweepsMarks, Range
<1>5. Types'
  BY <1>1, <1>2, <1>3, <1>4 DEF CInv, Types
<1>6. Counted'
  <2>1. Heap \in SUBSET Objects /\ objects[it] \in Heap
    BY <1>2 DEF Heap, Range
  <2> QED BY <1>1, <1>3, <2>1, BytesTaken DEF CInv, Counted, BytesAreCounted
<1>7. MarksRoots' /\ SweepsMarks'
  BY <1>1, <1>3 DEF CInv, MarksRoots, SweepsMarks
<1> QED BY <1>5, <1>6, <1>7 DEF CInv

\* gc() returns when the iterator is at the end of the list.
LEMMA EndSweepCInv == ASSUME CInv, EndSweep PROVE CInv'
<1>1. /\ phase = "sweep" /\ phase' = "mutator" /\ it' = 1
      /\ UNCHANGED <<objects, bytesAllocated, memory, references, marked, roots, worklist>>
  BY DEF EndSweep, heap
<1>2. Heap' = Heap
  BY <1>1 DEF Heap
<1>3. 1 \in 1 .. Len(objects) + 1
  BY DEF CInv, Types
<1> QED
  BY <1>1, <1>2, <1>3
  DEF CInv, Types, Counted, BytesAreCounted, MarksRoots, SweepsMarks

\* All steps together.
LEMMA StepCInv == CInv /\ [Next]_vars => CInv'
<1> SUFFICES ASSUME CInv, [Next]_vars
             PROVE  CInv'
  OBVIOUS
<1>1. CASE Allocate
  BY <1>1, AllocateCInv
<1>2. CASE cleanup
  BY <1>2, CleanupCInv
<1>3. CASE StartMark
  BY <1>3, StartMarkCInv
<1>4. CASE MarkStep
  BY <1>4, MarkStepCInv
<1>5. CASE StartSweep
  BY <1>5, StartSweepCInv
<1>6. CASE SweepStep
  BY <1>6, PassCInv, EraseCInv
<1>7. CASE EndSweep
  BY <1>7, EndSweepCInv
<1>8. CASE UNCHANGED vars
  <2>1. UNCHANGED <<objects, bytesAllocated, memory, references, marked, phase,
                   roots, worklist, it>>
    BY <1>8 DEF vars, heap
  <2> QED
    BY <2>1 DEF CInv, Types, Counted, BytesAreCounted, MarksRoots, SweepsMarks, Heap
<1>9. CASE addConst
  BY <1>9, ReferCInv
<1> QED
  BY <1>1, <1>2, <1>3, <1>4, <1>5, <1>6, <1>7, <1>8, <1>9 DEF Next, Collect

\* The invariant holds throughout, whatever is allocated and collected.
THEOREM Invariance == Spec => []CInv
BY InitCInv, StepCInv, PTL DEF Spec

\* No object is in the list twice, no deleted object is marked or visited,
\* and the iterator of sweep() stays in the list.
THEOREM TypeCorrect == Spec => []TypeOK
<1>1. CInv => TypeOK
  <2> SUFFICES ASSUME CInv
               PROVE  TypeOK
    OBVIOUS
  <2>1. Cardinality(Heap) = Len(objects)
    BY ListOfDistinct DEF CInv, Types, Heap
  <2> QED BY <2>1 DEF CInv, Types, TypeOK
<1> QED BY <1>1, Invariance, PTL

\* bytesAllocated is the size of the heap, after any sequence of allocations,
\* collections and calls of cleanup().
THEOREM CountIsExact == Spec => []BytesAreCounted
<1>1. CInv => BytesAreCounted
  BY DEF CInv, Counted
<1> QED BY <1>1, Invariance, PTL

-----------------------------------------------------------------------------
(***************************************************************************)
(* The refinement of Collection.                                           *)
(***************************************************************************)

\* The elements in the first places of a list.
LEMMA FirstOnes ==
  ASSUME NEW S, NEW s \in Seq(S), NEW n \in 0 .. Len(s)
  PROVE  Range(SubSeq(s, 1, n)) = {s[i] : i \in 1 .. n}
<1>1. /\ DOMAIN SubSeq(s, 1, n) = 1 .. n
      /\ \A i \in 1 .. n : SubSeq(s, 1, n)[i] = s[i]
  OBVIOUS
<1> QED BY <1>1 DEF Range

\* What the heap is to be, phase by phase.
KeptByPhase ==
  /\ phase = "mutator" => Kept = Heap /\ Stale = marked
  /\ phase # "mutator" => Stale = {}
  /\ phase = "mark"    => Kept = roots \cup marked
  /\ phase = "sweep"   => Kept = {objects[i] : i \in 1 .. it - 1} \cup marked

LEMMA KeptIs == CInv => KeptByPhase
<1> SUFFICES ASSUME CInv
             PROVE  KeptByPhase
  OBVIOUS
<1>1. objects \in Seq(Objects) /\ it - 1 \in 0 .. Len(objects)
  BY DEF CInv, Types
<1>2. Range(SubSeq(objects, 1, it - 1)) = {objects[i] : i \in 1 .. it - 1}
  BY <1>1, FirstOnes
<1> QED BY <1>2 DEF Kept, Stale, KeptByPhase

\* It says the same of the next state.
LEMMA KeptWillBe == CInv' => KeptByPhase'
BY KeptIs, PTL

\* A turn of a loop of mark() or sweep() changes nothing of that, and neither
\* do the steps between the loops: the collection took effect at its start.
LEMMA CollectStutters ==
  ASSUME CInv, Collect
  PROVE  Kept' = Kept /\ Stale' = Stale /\ references' = references
<1> SUFFICES Kept' = Kept /\ Stale' = Stale
  BY DEF Collect, MarkStep, StartSweep, SweepStep, EndSweep
<1>1. KeptByPhase /\ CInv' /\ KeptByPhase'
  BY StepCInv, KeptIs, KeptWillBe DEF Next
<1>2. CASE MarkStep
  <2>1. /\ phase = "mark" /\ phase' = "mark" /\ roots' = roots
        /\ marked' = marked \cup {Last(worklist)} /\ Last(worklist) \in roots
    BY <1>2, MarkStepTakes
  <2> QED BY <1>1, <2>1 DEF KeptByPhase
<1>3. CASE StartSweep
  <2>1. /\ phase = "mark" /\ phase' = "sweep" /\ marked' = marked /\ it' = 1
        /\ worklist = <<>>
    BY <1>3 DEF StartSweep
  <2>2. roots \subseteq marked
    BY <2>1 DEF CInv, MarksRoots, Range
  <2>3. {objects'[i] : i \in 1 .. it' - 1} = {}
    BY <2>1
  <2> QED BY <1>1, <2>1, <2>2, <2>3 DEF KeptByPhase
<1>4. CASE SweepStep
  <2>1. phase = "sweep" /\ phase' = "sweep" /\ it <= Len(objects)
    BY <1>4 DEF SweepStep
  <2>2. it \in 1 .. Len(objects) /\ objects \in Seq(Objects) /\ IsInjective(objects)
    BY <2>1 DEF CInv, Types
  <2>3. CASE objects[it] \in marked
    <3>1. marked' = marked \ {objects[it]} /\ it' = it + 1 /\ objects' = objects
      BY <1>4, <2>3 DEF SweepStep, heap
    <3>2. \A i : i \in 1 .. it' - 1 <=> i = it \/ i \in 1 .. it - 1
      BY <2>2, <3>1
    <3> PICK before : before = {objects[i] : i \in 1 .. it - 1}
      OBVIOUS
    <3>3. {objects'[i] : i \in 1 .. it' - 1} = before \cup {objects[it]}
      BY <3>1, <3>2
    <3>4. Stale' = {} /\ Kept' = before \cup {objects[it]} \cup marked'
      BY <1>1, <2>1, <3>3 DEF KeptByPhase
    <3>5. Stale = {} /\ Kept = before \cup marked
      BY <1>1, <2>1 DEF KeptByPhase
    <3>6. {objects[it]} \cup marked' = marked
      BY <2>3, <3>1
    <3> HIDE DEF KeptByPhase
    <3> QED BY <3>4, <3>5, <3>6
  <2>4. CASE objects[it] \notin marked
    <3>1. objects' = RemoveAt(objects, it) /\ UNCHANGED <<marked, it>>
      BY <1>4, <2>4 DEF SweepStep
    <3>2. \A i \in 1 .. it - 1 : objects'[i] = objects[i]
      BY <2>2, <3>1, Removed
    <3>3. {objects'[i] : i \in 1 .. it - 1} = {objects[i] : i \in 1 .. it - 1}
      BY <3>2
    <3> QED BY <1>1, <2>1, <3>1, <3>3 DEF KeptByPhase
  <2> QED BY <2>3, <2>4
<1>5. CASE EndSweep
  <2>1. /\ phase = "sweep" /\ phase' = "mutator" /\ it > Len(objects)
        /\ UNCHANGED <<objects, marked>>
    BY <1>5 DEF EndSweep, heap
  <2>2. it - 1 = Len(objects) /\ DOMAIN objects = 1 .. it - 1
    BY <2>1 DEF CInv, Types
  <2>3. Heap = {objects[i] : i \in 1 .. it - 1} /\ Heap' = Heap
    BY <2>1, <2>2 DEF Heap, Range
  <2>4. marked = {}
    BY <2>1, <2>3 DEF CInv, Types, SweepsMarks
  <2> QED BY <1>1, <2>1, <2>3, <2>4 DEF KeptByPhase
<1> QED BY <1>2, <1>3, <1>4, <1>5 DEF Collect

\* A root can be reached from the roots.
LEMMA RootsAreReachable ==
  ASSUME NEW rs \in SUBSET Objects
  PROVE  rs \subseteq Atomic!Reachable(rs)
BY DEF Atomic!Reachable

\* The steps of the mutator are those of Collection; calling gc() is the
\* collection.
LEMMA StepMaps == CInv /\ [Next]_vars => [Atomic!Next]_Atomic!vars
<1> SUFFICES ASSUME CInv, [Next]_vars
             PROVE  Atomic!Next \/ UNCHANGED <<Kept, references, Stale>>
  BY DEF Atomic!vars
<1>1. KeptByPhase /\ CInv' /\ KeptByPhase'
  BY StepCInv, KeptIs, KeptWillBe
<1>2. CASE Allocate
  <2>1. PICK o \in Objects \ memory :
          /\ objects' = Append(objects, o)
          /\ marked' = marked \/ marked' = marked \cup {o}
    BY <1>2 DEF Allocate
  <2>2. phase = "mutator" /\ phase' = "mutator" /\ references' = references
    BY <1>2 DEF Allocate
  <2>3. /\ objects \in Seq(Objects) /\ IsInjective(objects)
        /\ o \in Objects /\ o \notin Range(objects)
    BY DEF CInv, Types, Heap
  <2>4. Heap' = Heap \cup {o} /\ o \in Objects \ Heap
    BY <2>1, <2>3, Appended DEF Heap
  <2>5. Kept = Heap /\ Stale = marked /\ Kept' = Heap' /\ Stale' = marked'
    BY <1>1, <2>2 DEF KeptByPhase
  <2>6. /\ o \in Objects \ Kept /\ Kept' = Kept \cup {o}
        /\ Stale' \in {Stale, Stale \cup {o}}
    BY ONLY <2>1, <2>4, <2>5
  <2>7. Atomic!Allocate
    BY ONLY <2>2, <2>6 DEF Atomic!Allocate
  <2> QED BY ONLY <2>7 DEF Atomic!Next
<1>3. CASE addConst
  <2>1. /\ phase = "mutator" /\ phase' = "mutator"
        /\ objects' = objects /\ marked' = marked
        /\ \E o, p \in Heap : references' = references \cup {<<o, p>>}
    BY <1>3 DEF addConst, heap
  <2>2. Heap' = Heap
    BY <2>1 DEF Heap
  <2>3. Kept = Heap /\ Kept' = Heap /\ Stale = marked /\ Stale' = marked
    BY <1>1, <2>1, <2>2 DEF KeptByPhase
  <2>4. Atomic!Refer
    BY ONLY <2>1, <2>3 DEF Atomic!Refer
  <2> QED BY ONLY <2>4 DEF Atomic!Next
<1>4. CASE cleanup
  <2>1. /\ phase = "mutator" /\ phase' = "mutator" /\ objects' = <<>> /\ marked' = {}
        /\ references' = references
    BY <1>4 DEF cleanup
  <2>2. Heap' = {}
    BY <2>1 DEF Heap, Range
  <2> QED BY <1>1, <2>1, <2>2 DEF KeptByPhase, Atomic!Cleanup, Atomic!Next
<1>5. CASE StartMark
  <2>1. PICK rs \in SUBSET Heap : roots' = rs
    BY <1>5 DEF StartMark
  <2>2. /\ phase = "mutator" /\ phase' = "mark" /\ marked' = marked
        /\ references' = references
    BY <1>5 DEF StartMark
  <2>3. Kept = Heap /\ Stale = marked /\ Kept' = roots' \cup marked' /\ Stale' = {}
    BY <1>1, <2>2 DEF KeptByPhase
  <2>4. marked \subseteq Heap
    BY DEF CInv, Types
  <2>5. rs \subseteq Atomic!Reachable(rs)
    <3>1. rs \in SUBSET Objects
      BY DEF CInv, Types
    <3> QED BY <3>1, RootsAreReachable
  <2>6. /\ rs \in SUBSET Kept /\ Kept' \in SUBSET Kept /\ rs \subseteq Kept'
        /\ Kept' \subseteq Atomic!Reachable(rs) \cup Stale
    <3>1. Kept' = rs \cup Stale
      BY ONLY <2>1, <2>2, <2>3
    <3> QED BY ONLY <2>1, <2>3, <2>4, <2>5, <3>1
  <2>7. Atomic!Collect
    BY ONLY <2>2, <2>3, <2>6 DEF Atomic!Collect
  <2> QED BY ONLY <2>7 DEF Atomic!Next
<1>6. CASE Collect
  BY <1>6, CollectStutters
<1>7. CASE UNCHANGED vars
  BY <1>7 DEF vars, heap, Kept, Stale, Heap
<1> QED BY <1>2, <1>3, <1>4, <1>5, <1>6, <1>7 DEF Next

\* gc() implements one atomic collection: whatever order the roots are
\* visited and the list is swept in, it keeps every root, takes out of the
\* heap what cannot be reached from them and had no mark, and leaves no mark
\* behind.
THEOREM Refinement == Spec => CollectsAtomically
<1>1. Init => Atomic!Init
  <2> SUFFICES ASSUME Init
               PROVE  Kept = {} /\ references = {} /\ Stale = {}
    BY DEF Atomic!Init
  <2> QED BY DEF Init, Kept, Stale, Heap, Range
<1> QED
  BY <1>1, Invariance, StepMaps, PTL DEF Spec, CollectsAtomically, Atomic!Spec
=============================================================================
