-------------------------- MODULE VioLayoutProofs --------------------------
(***************************************************************************)
(* Proofs about the code that the compiler writes and the disassembler     *)
(* walks, for every program whose code objects are shorter than 64K: a     *)
(* step of the compiler rewrites only addresses that were left open        *)
(* (PatchesHitHoles), the listing names only what is in its table          *)
(* (ListingReadsWhatIsThere), and all that can be executed is listed       *)
(* (ListingShowsWhatRuns).                                                 *)
(***************************************************************************)
EXTENDS VioLayout, VioCompilerProofs

-----------------------------------------------------------------------------
(***************************************************************************)
(* Instructions.                                                           *)
(***************************************************************************)

\* An instruction has one, two or three bytes, a jump three.
LEMMA InstrLengths ==
  /\ \A op : InstrLen(op) \in {1, 2, 3}
  /\ \A op \in JumpOps : InstrLen(op) = 3
  /\ \A op \in {OP_CONST, OP_COMPARE, OP_GET_GLOBAL, OP_SET_GLOBAL} :
       InstrLen(op) = 2 /\ op \notin JumpOps
  /\ JumpOps \subseteq Opcodes
  /\ \A op \in {OP_HALT, OP_RETURN} : op \notin JumpOps
BY DEF InstrLen, JumpOps, SimpleOps, MathOps, Opcodes, OP_HALT, OP_ADD, OP_SUB, OP_MUL, OP_DIV,
   OP_POP, OP_RETURN, OP_JMP, OP_JMP_IF_FALSE, OP_CONST, OP_COMPARE, OP_GET_GLOBAL,
   OP_SET_GLOBAL

\* The disassembler takes as many bytes for an instruction as the machine.
LEMMA SameLengths == \A op \in Opcodes : ShownBytes(op) = InstrLen(op)
BY DEF ShownBytes, InstrLen, JumpOps, SimpleOps, MathOps, Opcodes, OP_HALT, OP_ADD, OP_SUB,
   OP_MUL, OP_DIV, OP_POP, OP_RETURN, OP_JMP, OP_JMP_IF_FALSE, OP_CONST, OP_COMPARE,
   OP_GET_GLOBAL, OP_SET_GLOBAL, OP_GET_LOCAL, OP_SET_LOCAL, OP_SCOPE_EXIT, OP_CALL

\* The new code is the old one with addresses of the jumps at H rewritten,
\* and may be longer.
Rewrites(code, new, H) ==
  /\ Len(code) <= Len(new)
  /\ \A i \in 1 .. Len(code) : new[i] = code[i] \/ \E h \in H : i \in {h + 2, h + 3}

\* Every other instruction is the same.
LEMMA Instructions ==
  ASSUME NEW code \in Seq(Bytes), NEW new \in Seq(Bytes), NEW S, Cut(code, S),
         NEW H, H \subseteq S \ {Len(code)}, \A h \in H : IsJump(code, h),
         Rewrites(code, new, H), NEW s \in S \ {Len(code)}
  PROVE  /\ s \in Nat /\ s + InstrLen(ByteAt(code, s)) <= Len(code)
         /\ ByteAt(new, s) = ByteAt(code, s)
         /\ s \notin H =>
              /\ InstrLen(ByteAt(code, s)) > 1 => ByteAt(new, s + 1) = ByteAt(code, s + 1)
              /\ InstrLen(ByteAt(code, s)) = 3 => ByteAt(new, s + 2) = ByteAt(code, s + 2)
<1> DEFINE k == InstrLen(ByteAt(code, s))
<1>1. /\ Len(code) \in Nat /\ s \in Nat /\ k \in {1, 2, 3} /\ s + k <= Len(code)
      /\ \A t \in S : s < t => s + k <= t
  BY InstrLengths DEF Cut
<1>2. ASSUME NEW h \in H
      PROVE  h \in Nat /\ (h = s \/ s + k <= h \/ h + 3 <= s)
  <2>1. InstrLen(ByteAt(code, h)) = 3
    BY InstrLengths DEF IsJump
  <2>2. h \in Nat /\ \A t \in S : h < t => h + 3 <= t
    BY <2>1 DEF Cut
  <2> QED BY <1>1, <2>2
<1>3. \A h \in H : h \in Nat
  BY DEF Cut
<1> HIDE DEF k
<1>4. ASSUME NEW j \in 0 .. 2, j < k, s \notin H \/ j = 0
      PROVE  new[s + j + 1] = code[s + j + 1]
  <2>1. s + j + 1 \in 1 .. Len(code)
    BY <1>1, <1>4
  <2>2. ASSUME NEW h \in H
        PROVE  s + j + 1 # h + 2 /\ s + j + 1 # h + 3
    BY <1>1, <1>2, <1>3, <1>4
  <2> QED BY <2>1, <2>2 DEF Rewrites
<1>5. ByteAt(new, s) = ByteAt(code, s)
  BY <1>1, <1>4 DEF ByteAt
<1>6. ASSUME s \notin H, k > 1
      PROVE  ByteAt(new, s + 1) = ByteAt(code, s + 1)
  BY <1>1, <1>4, <1>6 DEF ByteAt
<1>7. ASSUME s \notin H, k = 3
      PROVE  ByteAt(new, s + 2) = ByteAt(code, s + 2)
  BY <1>1, <1>4, <1>7 DEF ByteAt
<1> QED BY <1>1, <1>5, <1>6, <1>7 DEF k

\* The code after a step: of the same length, or with one instruction more.
Lengthens(code, new) ==
  \/ Len(new) = Len(code)
  \/ /\ ByteAt(new, Len(code)) \in Opcodes
     /\ Len(new) = Len(code) + InstrLen(ByteAt(new, Len(code)))

\* It is still cut into its instructions.
LEMMA Recut ==
  ASSUME NEW code \in Seq(Bytes), NEW new \in Seq(Bytes), NEW S, Cut(code, S),
         NEW H, H \subseteq S \ {Len(code)}, \A h \in H : IsJump(code, h),
         Rewrites(code, new, H), Lengthens(code, new)
  PROVE  Cut(new, S \cup {Len(new)})
<1> DEFINE n == Len(code)
           T == S \cup {Len(new)}
<1>1. n \in Nat /\ Len(new) \in Nat /\ n <= Len(new)
  BY DEF Rewrites
<1>2. S \subseteq 0 .. n /\ 0 \in S /\ n \in S
  BY DEF Cut
<1>3. ASSUME NEW s \in T \ {Len(new)}
      PROVE  /\ ByteAt(new, s) \in Opcodes
             /\ s + InstrLen(ByteAt(new, s)) \in T
             /\ \A t \in T : s < t => s + InstrLen(ByteAt(new, s)) <= t
  <2>1. CASE s = n
    <3>1. ByteAt(new, s) \in Opcodes /\ s + InstrLen(ByteAt(new, s)) = Len(new)
      BY <1>3, <2>1 DEF Lengthens
    <3>2. \A t \in T : s < t => t = Len(new)
      BY <1>1, <1>2, <2>1
    <3> QED BY <1>1, <3>1, <3>2
  <2>2. CASE s # n
    <3>1. s \in S \ {n}
      BY <1>3, <2>2
    <3>2. ByteAt(new, s) = ByteAt(code, s)
      BY <3>1, Instructions
    <3>3. /\ ByteAt(code, s) \in Opcodes
          /\ s + InstrLen(ByteAt(code, s)) \in S
          /\ \A t \in S : s < t => s + InstrLen(ByteAt(code, s)) <= t
      BY <3>1 DEF Cut
    <3>4. PICK k \in {1, 2, 3} : k = InstrLen(ByteAt(code, s))
      BY InstrLengths
    <3>5. s + k \in S /\ \A t \in S : s < t => s + k <= t
      BY <3>3, <3>4
    <3>6. s + k <= Len(new)
      BY <1>1, <1>2, <3>5
    <3>7. \A t \in T : s < t => s + k <= t
      BY <3>5, <3>6
    <3> QED BY <3>2, <3>3, <3>4, <3>5, <3>7
  <2> QED BY <2>1, <2>2
<1>4. \A s \in T : s \in 0 .. Len(new)
  <2>1. 0 .. n \subseteq 0 .. Len(new) /\ Len(new) \in 0 .. Len(new)
    BY <1>1
  <2> QED BY <1>2, <2>1
<1>5. 0 \in T /\ Len(new) \in T
  BY <1>2
<1> HIDE DEF T
<1>6. Cut(new, T)
  BY <1>3, <1>4, <1>5 DEF Cut
<1> QED BY <1>6 DEF T

\* What the operand of an instruction names is still there in larger tables.
LEMMA StillReadable ==
  ASSUME NEW code, NEW new, NEW s, NEW m \in Nat, NEW n \in Nat,
         NEW m2 \in Nat, NEW n2 \in Nat, m <= m2, n <= n2,
         ByteAt(new, s) = ByteAt(code, s),
         InstrLen(ByteAt(code, s)) > 1 => /\ ByteAt(new, s + 1) = ByteAt(code, s + 1)
                                          /\ ByteAt(code, s + 1) \in Bytes,
         Readable(code, s, m, n)
  PROVE  Readable(new, s, m2, n2)
<1>1. ASSUME NEW op \in {OP_CONST, OP_COMPARE, OP_GET_GLOBAL, OP_SET_GLOBAL},
             ByteAt(code, s) = op
      PROVE  ByteAt(new, s + 1) = ByteAt(code, s + 1) /\ ByteAt(code, s + 1) \in Int
  <2>1. InstrLen(op) = 2
    BY InstrLengths
  <2>2. Bytes \subseteq Int
    BY DEF Bytes
  <2> QED BY <1>1, <2>1, <2>2
<1> QED BY <1>1 DEF Readable

\* What a step does to the code of one code object: it may write the address of
\* the jumps at H and add an instruction, which may be a new open jump.
LEMMA LaidOn ==
  ASSUME NEW code \in Seq(Bytes), NEW new \in Seq(Bytes),
         NEW S, NEW holes, NEW m \in Nat, NEW n \in Nat, CodeLaid(code, S, holes, m, n),
         NEW H, H \subseteq holes, Rewrites(code, new, H), Lengthens(code, new),
         NEW T, T = S \cup {Len(new)},
         NEW holes2,
         \A h \in holes2 : \/ h \in holes /\ h \notin H
                           \/ h = Len(code) /\ h < Len(new) /\ IsHole(new, h),
         NEW m2 \in Nat, NEW n2 \in Nat, m <= m2, n <= n2,
         Len(code) < Len(new) => Readable(new, Len(code), m2, n2),
         \/ /\ Len(code) < Len(new) /\ Len(code) \notin holes2
            /\ IsLoopEnd(new, Len(code))
         \/ /\ \A h \in H : Lands(new, T, h)
            /\ Len(code) < Len(new) => Lands(new, T, Len(code))
  PROVE  CodeLaid(new, T, holes2, m2, n2)
<1> DEFINE L == Len(code)
<1>1. /\ Cut(code, S) /\ holes \subseteq S \ {L}
      /\ \A s \in holes : IsHole(code, s)
      /\ \A s \in S \ {L} : Readable(code, s, m, n)
  BY DEF CodeLaid
<1>2. H \subseteq S \ {L} /\ \A h \in H : IsJump(code, h)
  BY <1>1 DEF IsHole
<1>3. Cut(new, T)
  BY <1>1, <1>2, Recut
<1>4. /\ L \in Nat /\ Len(new) \in Nat /\ L <= Len(new)
      /\ S \subseteq 0 .. L /\ L \in S
  BY <1>1 DEF Rewrites, Cut
<1>5. ASSUME NEW s \in S \ {L}
      PROVE  /\ s \in Nat /\ s + InstrLen(ByteAt(code, s)) <= L
             /\ ByteAt(new, s) = ByteAt(code, s)
             /\ s \notin H =>
                  /\ InstrLen(ByteAt(code, s)) > 1 =>
                       ByteAt(new, s + 1) = ByteAt(code, s + 1)
                  /\ InstrLen(ByteAt(code, s)) = 3 =>
                       ByteAt(new, s + 2) = ByteAt(code, s + 2)
  BY <1>1, <1>2, <1>5, Instructions
<1>6. \A s \in T \ {Len(new)} : s \in S \ {L} \/ (s = L /\ L < Len(new))
  BY <1>4
<1>7. ASSUME NEW s \in S \ {L}, s \notin H, IsJump(code, s)
      PROVE  /\ ByteAt(new, s + 1) = ByteAt(code, s + 1)
             /\ ByteAt(new, s + 2) = ByteAt(code, s + 2)
             /\ AddressAt(new, s) = AddressAt(code, s)
  <2>1. InstrLen(ByteAt(code, s)) = 3
    BY <1>7, InstrLengths DEF IsJump
  <2>2. ByteAt(new, s + 1) = ByteAt(code, s + 1) /\ ByteAt(new, s + 2) = ByteAt(code, s + 2)
    BY <1>5, <1>7, <2>1
  <2> QED BY <2>2 DEF AddressAt
<1>8. ASSUME NEW h \in holes2
      PROVE  h \in T \ {Len(new)} /\ IsHole(new, h)
  <2>1. CASE h \in holes /\ h \notin H
    <3>1. h \in S \ {L} /\ IsHole(code, h)
      BY <1>1, <2>1
    <3>2. h # Len(new)
      BY <1>4, <3>1
    <3> QED BY <1>5, <1>7, <2>1, <3>1, <3>2 DEF IsHole, IsJump
  <2>2. CASE h = L /\ h < Len(new) /\ IsHole(new, h)
    BY <1>4, <2>2
  <2> QED BY <2>1, <2>2
<1>9. ASSUME NEW s \in T \ {Len(new)}
      PROVE  Readable(new, s, m2, n2)
  <2>1. CASE s \in S \ {L}
    <3>1. CASE s \in H
      BY <1>2, <1>5, <2>1, <3>1, InstrLengths DEF Readable, IsJump
    <3>2. CASE s \notin H
      <4>1. ASSUME InstrLen(ByteAt(code, s)) > 1
            PROVE  ByteAt(new, s + 1) = ByteAt(code, s + 1) /\ ByteAt(code, s + 1) \in Bytes
        <5>1. s + 2 \in 1 .. L
          BY <1>4, <1>5, <2>1, <4>1, InstrLengths
        <5>2. code[s + 2] \in Bytes
          BY <5>1, ElementOfSeq
        <5>3. ByteAt(code, s + 1) = code[s + 2]
          BY <1>5, <2>1 DEF ByteAt
        <5> QED BY <1>5, <2>1, <3>2, <4>1, <5>2, <5>3
      <4>2. Readable(code, s, m, n)
        BY <1>1, <2>1
      <4> QED BY <1>5, <2>1, <4>1, <4>2, StillReadable
    <3> QED BY <3>1, <3>2
  <2>2. CASE s = L /\ L < Len(new)
    BY <2>2
  <2> QED BY <1>6, <2>1, <2>2
<1>10. \/ \E s \in T \ {Len(new)} : s \notin holes2 /\ IsLoopEnd(new, s)
       \/ \A s \in T \ {Len(new)} : Lands(new, T, s)
  <2>1. CASE L < Len(new) /\ L \notin holes2 /\ IsLoopEnd(new, L)
    <3>1. L \in T \ {Len(new)}
      BY <1>4, <2>1
    <3> QED BY <2>1, <3>1
  <2>2. CASE /\ \A h \in H : Lands(new, T, h)
             /\ L < Len(new) => Lands(new, T, L)
    <3>1. CASE \E s \in S \ {L} : s \notin holes /\ IsLoopEnd(code, s)
      <4>1. PICK s \in S \ {L} : s \notin holes /\ IsLoopEnd(code, s)
        BY <3>1
      <4>2. s \notin H /\ IsJump(code, s)
        BY <4>1 DEF IsLoopEnd, IsJump, JumpOps
      <4>3. IsLoopEnd(new, s)
        BY <1>5, <1>7, <4>1, <4>2 DEF IsLoopEnd
      <4>4. s \in T \ {Len(new)} /\ s \notin holes2
        BY <1>4, <4>1
      <4> QED BY <4>3, <4>4
    <3>2. CASE \A s \in S \ {L} : Lands(code, S, s)
      <4>1. ASSUME NEW s \in T \ {Len(new)}
            PROVE  Lands(new, T, s)
        <5>1. CASE s \in S \ {L} /\ s \notin H
          BY <1>5, <1>7, <3>2, <5>1 DEF Lands, IsJump
        <5>2. CASE s \in H \/ (s = L /\ L < Len(new))
          BY <2>2, <5>2
        <5> QED BY <1>6, <5>1, <5>2
      <4> QED BY <4>1
    <3> QED BY <3>1, <3>2 DEF CodeLaid
  <2> QED BY <2>1, <2>2
<1> QED BY <1>3, <1>8, <1>9, <1>10 DEF CodeLaid

\* The code of a code object is complete with its last OP_RETURN or OP_HALT.
LEMMA Completed ==
  ASSUME NEW code \in Seq(Bytes), NEW new \in Seq(Bytes),
         NEW S, NEW holes, NEW m, NEW n, CodeLaid(code, S, holes, m, n),
         Rewrites(code, new, {}), Lengthens(code, new), Len(code) < Len(new),
         ByteAt(new, Len(code)) \in {OP_HALT, OP_RETURN},
         NEW T, T = S \cup {Len(new)}
  PROVE  Complete(new, T)
<1> DEFINE L == Len(code)
<1>1. Cut(code, S)
  BY DEF CodeLaid
<1>2. /\ L \in Nat /\ Len(new) \in Nat
      /\ S \subseteq 0 .. L /\ L \in S
  BY <1>1 DEF Cut
<1>3. ASSUME NEW s \in S \ {L}
      PROVE  /\ s \in Nat /\ s + InstrLen(ByteAt(code, s)) <= L
             /\ ByteAt(new, s) = ByteAt(code, s)
             /\ IsJump(code, s) => AddressAt(new, s) = AddressAt(code, s)
  <2> PICK H : H = {}
    OBVIOUS
  <2>1. H \subseteq S \ {L} /\ (\A h \in H : IsJump(code, h)) /\ Rewrites(code, new, H)
    OBVIOUS
  <2>2. /\ s \in Nat /\ s + InstrLen(ByteAt(code, s)) <= L
        /\ ByteAt(new, s) = ByteAt(code, s)
        /\ s \notin H =>
              /\ InstrLen(ByteAt(code, s)) > 1 => ByteAt(new, s + 1) = ByteAt(code, s + 1)
              /\ InstrLen(ByteAt(code, s)) = 3 => ByteAt(new, s + 2) = ByteAt(code, s + 2)
    BY <1>1, <2>1, Instructions
  <2>3. IsJump(code, s) => InstrLen(ByteAt(code, s)) = 3
    BY InstrLengths DEF IsJump
  <2> QED BY <2>2, <2>3 DEF AddressAt
<1>4. Len(new) > 0
  BY <1>2
<1>5. CASE \E s \in S \ {L} : s \notin holes /\ IsLoopEnd(code, s)
  <2>1. PICK s \in S \ {L} : IsLoopEnd(code, s)
    BY <1>5
  <2>2. IsJump(code, s)
    BY <2>1 DEF IsLoopEnd, IsJump, JumpOps
  <2>3. IsLoopEnd(new, s)
    BY <1>3, <2>1, <2>2 DEF IsLoopEnd
  <2>4. s \in T \ {Len(new)}
    BY <1>2
  <2> QED BY <1>4, <2>3, <2>4 DEF Complete
<1>6. CASE \A s \in S \ {L} : Lands(code, S, s)
  <2>1. ASSUME NEW s \in T \ {Len(new)}
        PROVE  Lands(new, T, s) /\ StaysInside(new, s)
    <3>1. CASE s = L
      BY <3>1, InstrLengths DEF Lands, StaysInside, IsJump
    <3>2. CASE s \in S \ {L}
      <4>1. IsJump(new, s) => AddressAt(new, s) \in S
        BY <1>3, <1>6, <3>2 DEF Lands, IsJump
      <4>2. s + InstrLen(ByteAt(new, s)) # Len(new)
        BY <1>2, <1>3, <3>2, InstrLengths
      <4>3. \A t \in S : t # Len(new)
        BY <1>2
      <4> QED BY <4>1, <4>2, <4>3 DEF Lands, StaysInside
    <3> QED BY <3>1, <3>2
  <2> QED BY <1>4, <2>1 DEF Complete
<1> QED BY <1>5, <1>6 DEF CodeLaid

-----------------------------------------------------------------------------
(***************************************************************************)
(* Writing code.                                                           *)
(***************************************************************************)

\* emit() of the bytes of an instruction.
LEMMA Appended ==
  ASSUME NEW code \in Seq(Bytes), NEW bytes \in Seq(Bytes),
         NEW new, new = code \o bytes
  PROVE  /\ new \in Seq(Bytes)
         /\ Len(new) = Len(code) + Len(bytes)
         /\ Rewrites(code, new, {})
         /\ \A j \in 0 .. Len(bytes) - 1 : ByteAt(new, Len(code) + j) = bytes[j + 1]
<1>1. new \in Seq(Bytes) /\ Len(new) = Len(code) + Len(bytes)
  OBVIOUS
<1>2. \A i \in 1 .. Len(code) : new[i] = code[i]
  OBVIOUS
<1>3. ASSUME NEW j \in 0 .. Len(bytes) - 1
      PROVE  ByteAt(new, Len(code) + j) = bytes[j + 1]
  <2>1. new[Len(code) + (j + 1)] = bytes[j + 1]
    OBVIOUS
  <2>2. Len(code) + (j + 1) = Len(code) + j + 1
    OBVIOUS
  <2> QED BY <2>1, <2>2 DEF ByteAt
<1> QED BY <1>1, <1>2, <1>3 DEF Rewrites

\* The new code is the old one with the address of the jump at h written.
IsPatched(code, new, h, value) ==
  /\ new \in Seq(Bytes)
  /\ Len(new) = Len(code)
  /\ Rewrites(code, new, {h})
  /\ value < SHORT => AddressAt(new, h) = value
  /\ \A s \in Nat : s < Len(code) /\ s # h + 1 /\ s # h + 2
                      => ByteAt(new, s) = ByteAt(code, s)

\* patchJumpAddress() of the jump at offset h.
LEMMA Patched ==
  ASSUME NEW code \in Seq(Bytes), NEW h \in Nat, h + 3 <= Len(code), NEW value \in Nat,
         NEW new, new = patchJumpAddress(code, h + 1, value)
  PROVE  IsPatched(code, new, h, value)
<1>1. new \in Seq(Bytes) /\ Len(new) = Len(code)
  BY Patching
<1>2. /\ DOMAIN code = 1 .. Len(code) /\ Len(code) \in Nat
      /\ h + 2 \in 1 .. Len(code) /\ h + 3 \in 1 .. Len(code)
  OBVIOUS
<1>3. /\ new[h + 2] = HighByte(value) /\ new[h + 3] = LowByte(value)
      /\ \A i \in 1 .. Len(code) : i # h + 2 /\ i # h + 3 => new[i] = code[i]
  <2>1. h + 1 + 1 = h + 2 /\ h + 1 + 2 = h + 3 /\ h + 2 # h + 3
    OBVIOUS
  <2> QED BY <1>2, <2>1 DEF patchJumpAddress
<1>4. Rewrites(code, new, {h})
  BY <1>1, <1>2, <1>3 DEF Rewrites
<1>5. ASSUME value < SHORT
      PROVE  AddressAt(new, h) = value
  <2>1. AddressAt(new, h) = Word(new[h + 2], new[h + 3])
    <3>1. h + 1 + 1 = h + 2 /\ h + 2 + 1 = h + 3
      OBVIOUS
    <3> QED BY <3>1 DEF AddressAt, ByteAt
  <2>2. Word(HighByte(value), LowByte(value)) = value
    BY <1>5 DEF Word, HighByte, LowByte, BYTE, SHORT
  <2> QED BY <1>3, <2>1, <2>2
<1>6. ASSUME NEW s \in Nat, s < Len(code), s # h + 1, s # h + 2
      PROVE  ByteAt(new, s) = ByteAt(code, s)
  <2>1. s + 1 \in 1 .. Len(code) /\ s + 1 # h + 2 /\ s + 1 # h + 3
    BY <1>2, <1>6
  <2> QED BY <1>3, <2>1 DEF ByteAt
<1> QED BY <1>1, <1>4, <1>5, <1>6 DEF IsPatched

\* Rewriting twice.
LEMMA RewrittenTwice ==
  ASSUME NEW a \in Seq(Bytes), NEW b \in Seq(Bytes), NEW c \in Seq(Bytes), NEW G, NEW H,
         Rewrites(a, b, G), Rewrites(b, c, H)
  PROVE  Rewrites(a, c, G \cup H)
<1>1. Len(a) \in Nat /\ Len(b) \in Nat /\ Len(c) \in Nat
      /\ Len(a) <= Len(b) /\ Len(b) <= Len(c)
  BY DEF Rewrites
<1>2. ASSUME NEW i \in 1 .. Len(a)
      PROVE  c[i] = a[i] \/ \E h \in G \cup H : i \in {h + 2, h + 3}
  <2>1. i \in 1 .. Len(b)
    BY <1>1
  <2>2. b[i] = a[i] \/ \E h \in G : i \in {h + 2, h + 3}
    BY DEF Rewrites
  <2>3. c[i] = b[i] \/ \E h \in H : i \in {h + 2, h + 3}
    BY <2>1 DEF Rewrites
  <2> QED BY <2>2, <2>3
<1>3. Len(a) <= Len(c)
  BY <1>1
<1> QED BY <1>2, <1>3 DEF Rewrites

-----------------------------------------------------------------------------
(***************************************************************************)
(* The activations after a step.                                           *)
(***************************************************************************)

\* Those below the top stay, and find what they would have found; those that
\* the step pushes find the code object that is in co then.
Moved(owner, owner2, tasks) ==
  /\ Owned(owner2)'
  /\ \A d \in 1 .. Len(work) - 1 : /\ d \in 1 .. Len(work')
                                   /\ AtHeight(d)' = AtHeight(d)
                                   /\ owner2[d] = owner[d]
  /\ \A d \in 1 .. Len(work') :
       d >= Len(work) => /\ owner2[d] = co'
                         /\ Len(work') + 1 - d \in DOMAIN tasks
                         /\ AtHeight(d)' = tasks[Len(work') + 1 - d]
  /\ Len(work) \in Nat \ {0}
  /\ Len(work') = Len(work) - 1 + Len(tasks)
  /\ Len(tasks) \in Nat /\ DOMAIN tasks = 1 .. Len(tasks)
  /\ AtHeight(Len(work)) = Top
  /\ owner[Len(work)] = co

\* The top is replaced by tasks; an enddef among them is the last and restores
\* the code object of those below.
LEMMA Moving ==
  ASSUME IsVector(work), work # <<>>, NEW owner, Owned(owner),
         NEW tasks, IsVector(tasks), work' = tasks \o Tail(work),
         \A i \in DOMAIN tasks :
           tasks[i].kind = "enddef" => i = Len(tasks) /\ tasks[i].prevCo = owner[Len(work) - 1],
         tasks = <<>> \/ tasks[Len(tasks)].kind # "enddef" => co' = owner[Len(work) - 1]
  PROVE  \E owner2 : Moved(owner, owner2, tasks)
<1> DEFINE n == Len(work)
           n2 == Len(work')
<1>1. /\ n \in Nat \ {0} /\ n2 = n - 1 + Len(tasks) /\ Len(tasks) \in Nat
      /\ DOMAIN tasks = 1 .. Len(tasks)
      /\ AtHeight(n) = Top
      /\ \A d \in 1 .. n - 1 : work'[n2 + 1 - d] = AtHeight(d)
      /\ \A d \in n .. n2 : /\ n2 + 1 - d \in DOMAIN tasks
                            /\ work'[n2 + 1 - d] = tasks[n2 + 1 - d]
  BY Heights, VectorDomain
<1>2. PICK owner2 : owner2 = [d \in 0 .. n2 |-> IF d < n THEN owner[d] ELSE co']
  OBVIOUS
<1>3. /\ \A d \in 0 .. n2 : d < n => owner2[d] = owner[d]
      /\ \A d \in 0 .. n2 : d >= n => owner2[d] = co'
  BY <1>1, <1>2
<1>4. \A d : AtHeight(d)' = work'[n2 + 1 - d]
  BY DEF AtHeight
<1>5. owner[n] = co
  BY DEF Owned
<1>6. \A d \in 1 .. n :
         owner[d - 1] = IF AtHeight(d).kind = "enddef" THEN AtHeight(d).prevCo ELSE owner[d]
  BY DEF Owned
<1> HIDE DEF n, n2
<1>7. ASSUME NEW d \in 1 .. n - 1
      PROVE  d \in 1 .. n2 /\ AtHeight(d)' = AtHeight(d) /\ owner2[d] = owner[d]
  <2>1. d \in 1 .. n2 /\ d \in 0 .. n2 /\ d < n
    BY <1>1
  <2> QED BY <1>1, <1>3, <1>4, <2>1
<1>8. ASSUME NEW d \in 1 .. n2, d >= n
      PROVE  /\ owner2[d] = co'
             /\ n2 + 1 - d \in DOMAIN tasks
             /\ AtHeight(d)' = tasks[n2 + 1 - d]
  <2>1. d \in n .. n2 /\ d \in 0 .. n2
    BY <1>1, <1>8
  <2> QED BY <1>1, <1>3, <1>4, <1>8, <2>1
<1>9. owner2[n2] = co'
  <2>1. CASE n2 >= n
    BY <1>1, <1>3, <2>1
  <2>2. CASE n2 < n
    <3>1. n2 = n - 1 /\ tasks = <<>> /\ n2 \in 0 .. n2
      <4>1. Len(tasks) = 0
        BY <1>1, <2>2
      <4>2. tasks = <<>>
        BY <4>1 DEF IsVector
      <4> QED BY <1>1, <4>1, <4>2
    <3> QED BY <1>3, <2>2, <3>1 DEF n
  <2> QED BY <1>1, <2>1, <2>2
<1>10. ASSUME NEW d \in 1 .. n2
       PROVE  owner2[d - 1] = (IF AtHeight(d).kind = "enddef" THEN AtHeight(d).prevCo
                                                               ELSE owner2[d])'
  <2>1. d - 1 \in 0 .. n2 /\ d \in 0 .. n2
    BY <1>1
  <2>2. CASE d < n
    <3>1. d \in 1 .. n - 1 /\ d \in 1 .. n /\ d - 1 < n
      BY <1>1, <2>2
    <3>2. owner2[d - 1] = owner[d - 1] /\ owner2[d] = owner[d]
      BY <1>3, <2>1, <2>2, <3>1
    <3> QED BY <1>6, <1>7, <3>1, <3>2
  <2>3. CASE d = n
    <3>1. owner2[d - 1] = owner[n - 1] /\ owner2[d] = co'
      BY <1>1, <1>3, <2>1, <2>3
    <3>2. n2 + 1 - d = Len(tasks)
      BY <1>1, <2>3
    <3>3. AtHeight(d)' = tasks[Len(tasks)] /\ Len(tasks) \in DOMAIN tasks
      BY <1>1, <1>8, <2>3, <3>2
    <3> QED BY <3>1, <3>3 DEF n
  <2>4. CASE d > n
    <3>1. owner2[d - 1] = co' /\ owner2[d] = co'
      BY <1>1, <1>3, <2>1, <2>4
    <3>2. n2 + 1 - d \in DOMAIN tasks /\ n2 + 1 - d # Len(tasks)
      BY <1>1, <1>8, <2>4
    <3>3. AtHeight(d)' = tasks[n2 + 1 - d]
      <4>1. d >= n
        BY <1>1, <2>4
      <4> QED BY <1>8, <4>1
    <3>4. tasks[n2 + 1 - d].kind # "enddef"
      BY <3>2
    <3> QED BY <3>1, <3>3, <3>4
  <2> QED BY <1>1, <2>2, <2>3, <2>4
<1>11. Owned(owner2)'
  BY <1>9, <1>10 DEF Owned, n2
<1> QED BY <1>1, <1>5, <1>7, <1>8, <1>11 DEF Moved, n, n2

\* What the invariant has of the code objects, as far as it is used here.
LEMMA Objects ==
  ASSUME CInv
  PROVE  /\ IsVector(codeObjects) /\ IsVector(globals) /\ IsVector(work)
         /\ Len(globals) \in Nat
         /\ co \in DOMAIN codeObjects
         /\ \A f \in DOMAIN codeObjects :
              /\ codeObjects[f].code \in Seq(Bytes)
              /\ IsVector(codeObjects[f].constants)
              /\ Len(codeObjects[f].constants) \in Nat
<1>1. /\ IsVector(codeObjects) /\ IsVector(globals) /\ IsVector(work)
      /\ co \in DOMAIN codeObjects
      /\ \A f \in DOMAIN codeObjects :
           codeObjects[f].code \in Seq(Bytes) /\ IsVector(codeObjects[f].constants)
  BY DEF CInv, WorkOK, CodeObjectsOK, IsCodeObject
<1> QED BY <1>1, VectorDomain

\* No table has become smaller.
TablesGrow(f) ==
  /\ IsVector(codeObjects'[f].constants)
  /\ Len(codeObjects[f].constants) <= Len(codeObjects'[f].constants)
  /\ IsVector(globals') /\ Len(globals) <= Len(globals')

\* Code has become longer, or is what it was: it is laid out, and what was
\* remembered of it is still true.
IsContinued(code, S, holes, new, T, m2, n2) ==
  /\ new \in Seq(Bytes)
  /\ Rewrites(code, new, {})
  /\ CodeLaid(new, T, holes, m2, n2)
  /\ \A t : Remembers(t, code, S) => Remembers(t, new, T)

\* A code object whose code goes on like that, when nothing more waits for it.
LEMMA Continued ==
  ASSUME CInv, NEW f \in DOMAIN codeObjects, NEW owner, NEW starts, Laid(owner, starts, f),
         NEW T,
         IsContinued(codeObjects[f].code, starts[f], Holes(owner, f), codeObjects'[f].code, T,
                     Len(codeObjects'[f].constants), Len(globals')),
         NEW owner2, Waiting(owner2, f)' \subseteq Waiting(owner, f),
         \A d \in Waiting(owner2, f)' : AtHeight(d)' = AtHeight(d),
         NEW starts2, starts2[f] = T,
         Waiting(owner2, f)' = {} => Complete(codeObjects'[f].code, T)
  PROVE  Laid(owner2, starts2, f)'
<1> PICK new, m2, n2 : /\ new = codeObjects'[f].code
                       /\ m2 = Len(codeObjects'[f].constants) /\ n2 = Len(globals')
  OBVIOUS
<1> PICK W, W2, holes, holes2 : /\ W = Waiting(owner, f) /\ W2 = Waiting(owner2, f)'
                                /\ holes = Holes(owner, f) /\ holes2 = Holes(owner2, f)'
  OBVIOUS
<1>1. /\ W2 \subseteq W /\ \A d \in W2 : AtHeight(d)' = AtHeight(d)
      /\ \A d \in W : Remembers(AtHeight(d), codeObjects[f].code, starts[f])
      /\ \A d, e \in W : /\ Opens(AtHeight(d)) /\ Opens(AtHeight(e))
                         /\ JumpOf(AtHeight(d)) = JumpOf(AtHeight(e))
                         => d = e
  BY DEF Laid
<1>2. /\ CodeLaid(new, T, holes, m2, n2)
      /\ \A t : Remembers(t, codeObjects[f].code, starts[f]) => Remembers(t, new, T)
  BY DEF IsContinued
<1>3. holes2 \subseteq holes
  <2>1. holes2 = {JumpOf(AtHeight(d)') : d \in {e \in W2 : Opens(AtHeight(e)')}}
    BY DEF Holes, Opens, JumpOf, Address
  <2>2. holes = {JumpOf(AtHeight(d)) : d \in {e \in W : Opens(AtHeight(e))}}
    BY DEF Holes
  <2> QED BY <1>1, <2>1, <2>2
<1>4. CodeLaid(new, T, holes2, m2, n2)
  BY <1>2, <1>3 DEF CodeLaid
<1>5. CodeLaid(codeObjects[f].code, starts2[f], Holes(owner2, f),
               Len(codeObjects[f].constants), Len(globals))'
  BY <1>4
<1>6. \A d \in Waiting(owner2, f)' : Remembers(AtHeight(d)', codeObjects'[f].code, starts2[f])
  BY <1>1, <1>2
<1>7. \A d, e \in Waiting(owner2, f)' :
          /\ Opens(AtHeight(d)') /\ Opens(AtHeight(e)')
          /\ JumpOf(AtHeight(d)') = JumpOf(AtHeight(e)')
          => d = e
  BY <1>1
<1>8. Waiting(owner2, f)' = {} => Complete(codeObjects'[f].code, starts2[f])
  OBVIOUS
<1> QED BY <1>5, <1>6, <1>7, <1>8 DEF Laid

\* A code object that no activation has written to.
LEMMA Untouched ==
  ASSUME CInv, NEW f \in DOMAIN codeObjects, NEW owner, NEW starts, Laid(owner, starts, f),
         codeObjects'[f].code = codeObjects[f].code, TablesGrow(f),
         NEW owner2, Waiting(owner2, f)' \subseteq Waiting(owner, f),
         Waiting(owner2, f)' = {} => Waiting(owner, f) = {},
         \A d \in Waiting(owner2, f)' : AtHeight(d)' = AtHeight(d),
         NEW starts2, starts2[f] = starts[f]
  PROVE  Laid(owner2, starts2, f)'
<1> PICK code : code = codeObjects[f].code
  OBVIOUS
<1> PICK m2, n2 : m2 = Len(codeObjects'[f].constants) /\ n2 = Len(globals')
  OBVIOUS
<1>1. /\ code \in Seq(Bytes)
      /\ Len(codeObjects[f].constants) \in Nat /\ Len(globals) \in Nat
  BY Objects
<1>2. m2 \in Nat /\ n2 \in Nat /\ Len(codeObjects[f].constants) <= m2 /\ Len(globals) <= n2
  BY VectorDomain DEF TablesGrow
<1>3. CodeLaid(code, starts[f], Holes(owner, f), Len(codeObjects[f].constants), Len(globals))
  BY DEF Laid
<1>4. PICK H : H = {}
  OBVIOUS
<1>5. Rewrites(code, code, H) /\ Lengthens(code, code) /\ ~ (Len(code) < Len(code))
  BY <1>1 DEF Rewrites, Lengthens
<1>6. starts[f] = starts[f] \cup {Len(code)}
  BY <1>3 DEF CodeLaid, Cut
<1>7. CodeLaid(code, starts[f], Holes(owner, f), m2, n2)
  <2>1. /\ H \subseteq Holes(owner, f)
        /\ \A h \in Holes(owner, f) : h \in Holes(owner, f) /\ h \notin H
        /\ \A h \in H : Lands(code, starts[f], h)
    BY <1>4
  <2> QED BY <1>1, <1>2, <1>3, <1>5, <1>6, <2>1, LaidOn
<1>8. Rewrites(code, code, {})
  BY <1>4, <1>5
<1>9. IsContinued(code, starts[f], Holes(owner, f), code, starts[f], m2, n2)
  BY <1>1, <1>7, <1>8 DEF IsContinued
<1>10. Waiting(owner2, f)' = {} => Complete(code, starts[f])
  BY DEF Laid
<1> QED BY <1>9, <1>10, Continued

-----------------------------------------------------------------------------
(***************************************************************************)
(* A step that writes to the code object in co and goes on in it.          *)
(***************************************************************************)

\* What it makes of the code: at most one instruction more, which is readable,
\* and addresses of the jumps at H.
NewCode(code, new, H, m2, n2) ==
  /\ new \in Seq(Bytes)
  /\ Rewrites(code, new, H)
  /\ Lengthens(code, new)
  /\ Len(code) < Len(new) => Readable(new, Len(code), m2, n2)

\* The jumps that it writes land; or else it ends a loop.
NewJumps(code, new, H, S, tasks) ==
  \/ /\ Len(code) < Len(new) /\ IsLoopEnd(new, Len(code))
     /\ \A i \in DOMAIN tasks : ~ Opens(tasks[i])
  \/ /\ \A h \in H : Lands(new, S \cup {Len(new)}, h)
     /\ Len(code) < Len(new) => Lands(new, S \cup {Len(new)}, Len(code))

\* The tasks it pushes: at most one has a jump to patch, the one just emitted.
NewTasks(code, new, S, tasks) ==
  /\ \A i \in DOMAIN tasks : Remembers(tasks[i], new, S \cup {Len(new)})
  /\ \A i \in DOMAIN tasks :
       Opens(tasks[i]) => /\ JumpOf(tasks[i]) = Len(code)
                          /\ Len(code) < Len(new) /\ IsHole(new, Len(code))
  /\ \A i, j \in DOMAIN tasks : Opens(tasks[i]) /\ Opens(tasks[j]) => i = j

\* The jump that the activation on top patches, if there is one.
TopHole == IF Opens(Top) THEN {JumpOf(Top)} ELSE {}

\* What an activation remembers stays true of longer code.
LEMMA StillRemembers ==
  ASSUME NEW t, NEW code \in Seq(Bytes), NEW new \in Seq(Bytes), NEW S, Cut(code, S),
         Len(code) <= Len(new), Remembers(t, code, S)
  PROVE  Remembers(t, new, S \cup {Len(new)})
<1>1. \A s \in S : s \in Int
  BY DEF Cut
<1>2. Len(code) \in Int /\ Len(new) \in Int
  OBVIOUS
<1>3. ASSUME t.kind = "loop"
      PROVE  t.loopStartAddr < Len(new)
  BY <1>1, <1>2, <1>3 DEF Remembers
<1> QED BY <1>3 DEF Remembers

\* The code object in co after the step.
LEMMA Written ==
  ASSUME CInv, NEW owner, NEW starts, Laid(owner, starts, co),
         NEW tasks, NEW owner2, Moved(owner, owner2, tasks), co' = co,
         NEW c, codeObjects'[co] = c, TablesGrow(co),
         NewCode(CO.code, c.code, TopHole, Len(c.constants), Len(globals')),
         NewJumps(CO.code, c.code, TopHole, starts[co], tasks),
         NewTasks(CO.code, c.code, starts[co], tasks),
         NEW starts2, starts2[co] = starts[co] \cup {Len(c.code)},
         Waiting(owner2, co)' = {} => Complete(c.code, starts2[co])
  PROVE  Laid(owner2, starts2, co)'
<1> DEFINE code == CO.code
           new == c.code
           S == starts[co]
           T == S \cup {Len(new)}
           n == Len(work)
           W == Waiting(owner, co)
           W2 == Waiting(owner2, co)'
           holes == Holes(owner, co)
           holes2 == Holes(owner2, co)'
           m2 == Len(c.constants)
           n2 == Len(globals')
<1>1. /\ code \in Seq(Bytes) /\ new \in Seq(Bytes)
      /\ Len(CO.constants) \in Nat /\ Len(globals) \in Nat
      /\ m2 \in Nat /\ n2 \in Nat
      /\ Len(CO.constants) <= m2 /\ Len(globals) <= n2
  BY Objects, VectorDomain DEF CO, TablesGrow, NewCode
<1>2. CodeLaid(code, S, holes, Len(CO.constants), Len(globals))
  BY DEF Laid, CO
<1>3. /\ \A d \in W : Remembers(AtHeight(d), code, S)
      /\ \A d, e \in W :
           /\ Opens(AtHeight(d)) /\ Opens(AtHeight(e))
           /\ JumpOf(AtHeight(d)) = JumpOf(AtHeight(e))
           => d = e
  BY DEF Laid, CO
<1>4. /\ Cut(code, S) /\ holes \subseteq S \ {Len(code)}
      /\ Len(code) \in Nat /\ Len(new) \in Nat /\ Len(code) <= Len(new)
      /\ S \subseteq 0 .. Len(code)
  BY <1>1, <1>2 DEF CodeLaid, Cut, NewCode, Rewrites
<1>5. n \in W /\ AtHeight(n) = Top /\ n \in Nat
  BY DEF Moved, Waiting
<1>6. \A d \in W : Opens(AtHeight(d)) => JumpOf(AtHeight(d)) \in holes
  BY DEF Holes
<1>7. TopHole \subseteq holes
  BY <1>5, <1>6 DEF TopHole
<1>8. ASSUME NEW d \in W2
      PROVE  \/ d < n /\ d \in W /\ d # n /\ AtHeight(d)' = AtHeight(d)
             \/ /\ d >= n
                /\ Len(work') + 1 - d \in DOMAIN tasks
                /\ AtHeight(d)' = tasks[Len(work') + 1 - d]
  <2>1. d \in 1 .. Len(work') /\ owner2[d] = co /\ Len(work') \in Nat
    BY DEF Waiting, Moved
  <2>2. CASE d < n
    <3>1. d \in 1 .. n - 1 /\ d \in 1 .. n /\ d # n
      BY <1>5, <2>1, <2>2
    <3> QED BY <2>1, <2>2, <3>1 DEF Moved, Waiting
  <2>3. CASE d >= n
    BY <2>1, <2>3 DEF Moved
  <2> QED BY <1>5, <2>1, <2>2, <2>3
<1> HIDE DEF code, new, S, n, W, W2, holes, holes2, m2, n2, T
<1>9. ASSUME NEW d \in W2
      PROVE  Remembers(AtHeight(d)', new, T)
  <2>1. CASE d \in W /\ AtHeight(d)' = AtHeight(d)
    <3>1. Remembers(AtHeight(d), code, S)
      BY <1>3, <2>1
    <3>2. Remembers(AtHeight(d), new, T)
      BY <1>1, <1>4, <3>1, StillRemembers DEF T
    <3> QED BY <2>1, <3>2
  <2>2. CASE /\ Len(work') + 1 - d \in DOMAIN tasks
             /\ AtHeight(d)' = tasks[Len(work') + 1 - d]
    BY <2>2 DEF NewTasks, new, code, S, T
  <2> QED BY <1>8, <2>1, <2>2
<1>10. ASSUME NEW d \in W2, Opens(AtHeight(d)')
       PROVE  \/ /\ d \in W /\ AtHeight(d)' = AtHeight(d) /\ d # n
                 /\ JumpOf(AtHeight(d)') \in holes
                 /\ JumpOf(AtHeight(d)') \notin TopHole
                 /\ JumpOf(AtHeight(d)') # Len(code)
              \/ /\ d >= n /\ Len(work') + 1 - d \in DOMAIN tasks
                 /\ AtHeight(d)' = tasks[Len(work') + 1 - d]
                 /\ JumpOf(AtHeight(d)') = Len(code)
                 /\ Len(code) < Len(new) /\ IsHole(new, Len(code))
  <2>1. CASE d \in W /\ d # n /\ AtHeight(d)' = AtHeight(d)
    <3>1. JumpOf(AtHeight(d)) \in holes
      BY <1>6, <1>10, <2>1
    <3>2. JumpOf(AtHeight(d)) \notin TopHole
      BY <1>3, <1>5, <1>10, <2>1 DEF TopHole
    <3>3. JumpOf(AtHeight(d)) # Len(code)
      BY <1>4, <3>1
    <3> QED BY <2>1, <3>1, <3>2, <3>3
  <2>2. CASE /\ d >= n
             /\ Len(work') + 1 - d \in DOMAIN tasks
             /\ AtHeight(d)' = tasks[Len(work') + 1 - d]
    BY <1>10, <2>2 DEF NewTasks, new, code
  <2> QED BY <1>8, <2>1, <2>2
<1>11. ASSUME NEW h \in holes2
       PROVE  \/ h \in holes /\ h \notin TopHole /\ h # Len(code)
              \/ /\ h = Len(code) /\ h < Len(new) /\ IsHole(new, h)
                 /\ \E i \in DOMAIN tasks : Opens(tasks[i])
  <2>1. PICK d \in W2 : Opens(AtHeight(d)') /\ h = JumpOf(AtHeight(d)')
    BY DEF Holes, W2, holes2
  <2> QED BY <1>10, <2>1
<1>12. CodeLaid(new, T, holes2, m2, n2)
  <2>1. /\ Rewrites(code, new, TopHole) /\ Lengthens(code, new)
        /\ Len(code) < Len(new) => Readable(new, Len(code), m2, n2)
    BY DEF NewCode, code, new, m2, n2
  <2>2. \/ /\ Len(code) < Len(new) /\ Len(code) \notin holes2
           /\ IsLoopEnd(new, Len(code))
        \/ /\ \A h \in TopHole : Lands(new, T, h)
           /\ Len(code) < Len(new) => Lands(new, T, Len(code))
    <3>1. CASE /\ Len(code) < Len(new) /\ IsLoopEnd(new, Len(code))
               /\ \A i \in DOMAIN tasks : ~ Opens(tasks[i])
      BY <1>11, <3>1
    <3>2. CASE /\ \A h \in TopHole : Lands(new, T, h)
               /\ Len(code) < Len(new) => Lands(new, T, Len(code))
      BY <3>2
    <3> QED BY <3>1, <3>2 DEF NewJumps, code, new, S, T
  <2>3. \A h \in holes2 : \/ h \in holes /\ h \notin TopHole
                          \/ h = Len(code) /\ h < Len(new) /\ IsHole(new, h)
    BY <1>11
  <2> QED BY <1>1, <1>2, <1>7, <2>1, <2>2, <2>3, LaidOn DEF T
<1>13. ASSUME NEW d \in W2, NEW e \in W2, Opens(AtHeight(d)'), Opens(AtHeight(e)'),
              JumpOf(AtHeight(d)') = JumpOf(AtHeight(e)')
       PROVE  d = e
  <2>1. CASE d \in W /\ AtHeight(d)' = AtHeight(d) /\ e \in W /\ AtHeight(e)' = AtHeight(e)
    BY <1>3, <1>13, <2>1
  <2>2. CASE /\ Len(work') + 1 - d \in DOMAIN tasks /\ Len(work') + 1 - e \in DOMAIN tasks
             /\ AtHeight(d)' = tasks[Len(work') + 1 - d]
             /\ AtHeight(e)' = tasks[Len(work') + 1 - e]
    <3>1. Len(work') + 1 - d = Len(work') + 1 - e
      BY <1>13, <2>2 DEF NewTasks
    <3>2. Len(work') \in Nat /\ d \in Int /\ e \in Int
      BY DEF Moved, W2, Waiting
    <3> QED BY <3>1, <3>2
  <2> QED BY <1>10, <1>13, <2>1, <2>2
<1>14. CodeLaid(codeObjects[co].code, starts2[co], Holes(owner2, co),
                Len(codeObjects[co].constants), Len(globals))'
  BY <1>12 DEF new, T, S, holes2, m2, n2
<1>15. /\ \A d \in Waiting(owner2, co)' :
             Remembers(AtHeight(d)', codeObjects'[co].code, starts2[co])
       /\ \A d, e \in Waiting(owner2, co)' :
             /\ Opens(AtHeight(d)') /\ Opens(AtHeight(e)')
             /\ JumpOf(AtHeight(d)') = JumpOf(AtHeight(e)')
             => d = e
  BY <1>9, <1>13 DEF W2, new, T, S
<1> QED BY <1>14, <1>15 DEF Laid

\* What OnlyHolesPatched says of a step.
HolesPatched ==
  \A f \in DOMAIN codeObjects :
    LET old == codeObjects[f].code
        new == codeObjects'[f].code
    IN /\ Len(new) >= Len(old)
       /\ \A i \in DOMAIN old :
            new[i] # old[i] => old[i] = 0 /\ InAddress(old, i)

\* The layout invariant.
LaidOut == \E owner, starts : Layout(owner, starts)

\* A step that rewrites only the addresses of open jumps changes only zeros.
LEMMA PatchedZeros ==
  ASSUME NEW old \in Seq(Bytes), NEW new \in Seq(Bytes), NEW S, Cut(old, S),
         NEW H, H \subseteq S \ {Len(old)}, \A h \in H : IsHole(old, h),
         Rewrites(old, new, H)
  PROVE  /\ Len(new) >= Len(old)
         /\ \A i \in DOMAIN old : new[i] # old[i] => old[i] = 0 /\ InAddress(old, i)
<1>1. Len(old) \in Nat /\ Len(new) \in Nat /\ Len(old) <= Len(new)
      /\ DOMAIN old = 1 .. Len(old)
  BY DEF Rewrites
<1>2. ASSUME NEW i \in DOMAIN old, new[i] # old[i]
      PROVE  old[i] = 0 /\ InAddress(old, i)
  <2>1. PICK h \in H : i \in {h + 2, h + 3}
    BY <1>1, <1>2 DEF Rewrites
  <2>2. h \in 0 .. Len(old) /\ IsHole(old, h) /\ h \in Nat
    BY <2>1 DEF Cut
  <2>3. /\ old[h + 1] \in JumpOps
        /\ ByteAt(old, h + 1) = 0 /\ ByteAt(old, h + 2) = 0
    BY <2>2 DEF IsHole, IsJump, ByteAt
  <2>4. old[h + 2] = 0 /\ old[h + 3] = 0
    <3>1. h + 1 + 1 = h + 2 /\ h + 2 + 1 = h + 3
      BY <2>2
    <3> QED BY <2>3, <3>1 DEF ByteAt
  <2>5. h + 1 \in DOMAIN old /\ h + 1 \in {i - 1, i - 2}
    <3>1. h + 1 \in {i - 1, i - 2}
      BY <2>1, <2>2
    <3>2. h + 1 \in 1 .. Len(old)
      <4>1. Len(old) \in Nat /\ h \in Nat /\ i \in 1 .. Len(old)
        BY <1>1, <2>2
      <4> QED BY <2>1, <4>1
    <3> QED BY <1>1, <3>1, <3>2
  <2> QED BY <2>1, <2>3, <2>4, <2>5 DEF InAddress
<1> QED BY <1>1, <1>2

\* A step of an activation that goes on in the code object in co.
LEMMA GoesOn ==
  ASSUME CInv, CInv', Kept, work # <<>>, NEW owner, NEW starts, Layout(owner, starts),
         co' = co, Top.kind # "enddef",
         NEW tasks, IsVector(tasks), Continue(tasks),
         \A i \in DOMAIN tasks : tasks[i].kind # "enddef",
         NEW c, UpdateCO(c),
         NewCode(CO.code, c.code, TopHole, Len(c.constants), Len(globals')),
         NewJumps(CO.code, c.code, TopHole, starts[co], tasks),
         NewTasks(CO.code, c.code, starts[co], tasks),
         Top = EmitTask(<<OP_HALT>>) => tasks = <<>> /\ c.code = CO.code \o <<OP_HALT>>
  PROVE  LaidOut' /\ HolesPatched
<1> DEFINE n == Len(work)
           n2 == Len(work')
<1>1. /\ Owned(owner) /\ HaltBelow
      /\ \A f \in DOMAIN codeObjects : Laid(owner, starts, f)
  BY DEF Layout
<1>2. /\ IsVector(work) /\ IsVector(codeObjects) /\ co \in DOMAIN codeObjects
      /\ \A f \in DOMAIN codeObjects : codeObjects[f].code \in Seq(Bytes)
      /\ n \in Nat \ {0} /\ AtHeight(n) = Top
  BY Objects, Heights DEF Continue
<1> HIDE DEF n, n2
<1>0. n \in Nat /\ n # 0
  BY <1>2
<1>3. owner[n - 1] = co
  <2>1. n \in 1 .. n
    BY <1>0
  <2> QED BY <1>1, <1>2, <2>1 DEF Owned, n
<1>4. PICK owner2 : Moved(owner, owner2, tasks)
  <2>1. tasks = <<>> \/ tasks[Len(tasks)].kind # "enddef" => co' = owner[Len(work) - 1]
    BY <1>3 DEF n
  <2> QED BY <1>1, <1>2, <2>1, Moving DEF Continue
<1>5. /\ DOMAIN codeObjects' = DOMAIN codeObjects
      /\ codeObjects'[co] = c
      /\ \A f \in DOMAIN codeObjects : f # co => codeObjects'[f] = codeObjects[f]
  BY <1>2 DEF UpdateCO
<1>6. \A f \in DOMAIN codeObjects : TablesGrow(f)
  <2>1. IsVector(globals') /\ \A f \in DOMAIN codeObjects' : IsVector(codeObjects'[f].constants)
    BY DEF CInv, CodeObjectsOK, IsCodeObject
  <2> QED BY <1>5, <2>1 DEF TablesGrow, Kept, Grown, IsExtension
<1> PICK starts2 : starts2 = [f \in DOMAIN codeObjects |->
                                IF f = co THEN starts[co] \cup {Len(c.code)}
                                          ELSE starts[f]]
  OBVIOUS
<1>7. /\ starts2[co] = starts[co] \cup {Len(c.code)}
      /\ \A f \in DOMAIN codeObjects : f # co => starts2[f] = starts[f]
  BY <1>2
<1>8. n > 1 => (n - 1) \in Waiting(owner2, co)'
  <2>1. n > 1 => n - 1 \in 1 .. n - 1
    BY <1>0
  <2> QED BY <1>3, <2>1, <1>4 DEF Moved, Waiting, n
<1>9. n = 1 => Complete(c.code, starts2[co])
  <2> SUFFICES ASSUME n = 1
               PROVE  Complete(c.code, starts2[co])
    OBVIOUS
  <2>1. Top = EmitTask(<<OP_HALT>>)
    BY <1>1, <1>2 DEF HaltBelow
  <2>2. c.code = CO.code \o <<OP_HALT>>
    BY <2>1
  <2>3. CodeLaid(CO.code, starts[co], Holes(owner, co), Len(CO.constants), Len(globals))
    BY <1>1, <1>2 DEF Laid, CO
  <2>4. <<OP_HALT>> \in Seq(Bytes) /\ Len(<<OP_HALT>>) = 1
    BY OpcodesAreBytes
  <2>5. /\ c.code \in Seq(Bytes) /\ CO.code \in Seq(Bytes)
        /\ Len(c.code) = Len(CO.code) + 1
        /\ Rewrites(CO.code, c.code, {})
        /\ ByteAt(c.code, Len(CO.code)) = OP_HALT
        /\ Len(CO.code) \in Nat
    <3>1. CO.code \in Seq(Bytes) /\ Len(CO.code) \in Nat
      BY <1>2 DEF CO
    <3>2. \A j \in 0 .. Len(<<OP_HALT>>) - 1 :
            ByteAt(c.code, Len(CO.code) + j) = <<OP_HALT>>[j + 1]
      BY <2>2, <2>4, <3>1, Appended
    <3>3. ByteAt(c.code, Len(CO.code) + 0) = <<OP_HALT>>[0 + 1]
      BY <2>4, <3>2
    <3>4. ByteAt(c.code, Len(CO.code)) = OP_HALT
      <4>1. Len(CO.code) + 0 = Len(CO.code) /\ <<OP_HALT>>[0 + 1] = OP_HALT
        BY <3>1
      <4> QED BY <3>3, <4>1
    <3>5. /\ c.code \in Seq(Bytes)
          /\ Len(c.code) = Len(CO.code) + Len(<<OP_HALT>>)
          /\ Rewrites(CO.code, c.code, {})
      BY <2>2, <2>4, <3>1, Appended
    <3> QED BY <2>4, <3>1, <3>4, <3>5
  <2>6. Lengthens(CO.code, c.code) /\ Len(CO.code) < Len(c.code)
    BY <2>5 DEF Lengthens, Opcodes, InstrLen, SimpleOps, OP_HALT, OP_RETURN
  <2> QED BY <1>7, <2>3, <2>5, <2>6, Completed
<1>10. Laid(owner2, starts2, co)'
  <2>1. Waiting(owner2, co)' = {} => Complete(c.code, starts2[co])
    <3> SUFFICES ASSUME Waiting(owner2, co)' = {}
                 PROVE  Complete(c.code, starts2[co])
      OBVIOUS
    <3>1. ~ (n > 1)
      BY <1>8
    <3>2. n = 1
      BY <1>0, <3>1
    <3> QED BY <1>9, <3>2
  <2>2. Laid(owner, starts, co) /\ TablesGrow(co)
    BY <1>1, <1>2, <1>6
  <2>3. /\ codeObjects'[co] = c
        /\ starts2[co] = starts[co] \cup {Len(c.code)}
    BY <1>5, <1>7
  <2> QED BY <1>4, <2>1, <2>2, <2>3, Written
<1>11. ASSUME NEW f \in DOMAIN codeObjects, f # co
       PROVE  Laid(owner2, starts2, f)'
  <2>1. ASSUME NEW d \in Waiting(owner, f)
        PROVE  d \in 1 .. n - 1
    <3>1. d \in 1 .. n /\ d # n
      BY <1>1, <1>11, <2>1 DEF Waiting, Owned, n
    <3> QED BY <1>0, <3>1
  <2>2. \A d \in Waiting(owner, f) : AtHeight(d)' = AtHeight(d)
    BY <1>4, <2>1 DEF Moved, n
  <2>3. ASSUME NEW d \in Waiting(owner, f)
        PROVE  d \in Waiting(owner2, f)'
    BY <1>4, <2>1, <2>3 DEF Moved, Waiting, n
  <2>4. ASSUME NEW d \in Waiting(owner2, f)'
        PROVE  d \in Waiting(owner, f)
    <3>1. d \in 1 .. n2 /\ owner2[d] = f /\ n2 \in Nat
      BY <1>4 DEF Waiting, Moved, n2
    <3>2. ~ (d >= n)
      BY <1>4, <1>11, <3>1 DEF Moved, n, n2
    <3>3. d \in 1 .. n - 1 /\ d \in 1 .. n
      BY <1>0, <3>1, <3>2
    <3> QED BY <1>4, <3>1, <3>3 DEF Moved, Waiting, n
  <2>5. Waiting(owner2, f)' = Waiting(owner, f)
    BY <2>3, <2>4
  <2>6. Laid(owner, starts, f) /\ TablesGrow(f)
    BY <1>1, <1>6
  <2>7. codeObjects'[f].code = codeObjects[f].code /\ starts2[f] = starts[f]
    BY <1>5, <1>7, <1>11
  <2>8. /\ Waiting(owner2, f)' \subseteq Waiting(owner, f)
        /\ Waiting(owner2, f)' = {} => Waiting(owner, f) = {}
        /\ \A d \in Waiting(owner2, f)' : AtHeight(d)' = AtHeight(d)
    BY <2>2, <2>5
  <2> QED BY <2>6, <2>7, <2>8, Untouched
<1>12. HaltBelow'
  <2>1. CASE n > 1
    <3>1. 1 \in 1 .. n - 1
      BY <1>0, <2>1
    <3>2. AtHeight(1)' = AtHeight(1)
      BY <1>4, <3>1 DEF Moved, n
    <3> QED BY <1>1, <3>2 DEF HaltBelow
  <2>2. CASE n = 1
    <3>1. Top = EmitTask(<<OP_HALT>>) /\ tasks = <<>>
      BY <1>1, <1>2, <2>2 DEF HaltBelow
    <3>2. Len(work') = 0
      BY <1>4, <2>2, <3>1, Lists DEF Moved, n
    <3>3. IsVector(work')
      BY Heights, <1>2 DEF Continue
    <3>4. work' = <<>>
      BY <3>2, <3>3 DEF IsVector
    <3> QED BY <3>4 DEF HaltBelow
  <2>3. n > 1 \/ n = 1
    BY <1>0
  <2> QED BY <2>1, <2>2, <2>3
<1>13. LaidOut'
  <2>0. \A d \in 1 .. Len(work') : owner2[d] \in DOMAIN codeObjects'
    <3> SUFFICES ASSUME NEW d \in 1 .. Len(work')
                 PROVE  owner2[d] \in DOMAIN codeObjects'
      OBVIOUS
    <3>1. CASE d >= n
      BY <1>2, <1>4, <1>5, <3>1 DEF Moved, n
    <3>2. CASE ~ (d >= n)
      <4>1. d \in 1 .. n - 1 /\ d \in 1 .. n
        BY <1>0, <1>4, <3>2 DEF Moved
      <4> QED BY <1>4, <1>5, <4>1 DEF Layout, Moved, n
    <3> QED BY <3>1, <3>2
  <2>1. \A f \in DOMAIN codeObjects' : Laid(owner2, starts2, f)'
    BY <1>5, <1>10, <1>11
  <2>2. Owned(owner2)'
    BY <1>4 DEF Moved
  <2>3. Layout(owner2, starts2)'
    BY <1>12, <2>0, <2>1, <2>2 DEF Layout
  <2> QED BY <2>3 DEF LaidOut
<1>14. HolesPatched
  <2> SUFFICES ASSUME NEW f \in DOMAIN codeObjects
               PROVE  /\ Len(codeObjects'[f].code) >= Len(codeObjects[f].code)
                      /\ \A i \in DOMAIN codeObjects[f].code :
                           codeObjects'[f].code[i] # codeObjects[f].code[i]
                           => codeObjects[f].code[i] = 0 /\ InAddress(codeObjects[f].code, i)
    BY DEF HolesPatched
  <2>1. CASE f # co
    BY <1>2, <1>5, <2>1
  <2>2. CASE f = co
    <3>1. /\ Cut(CO.code, starts[co])
          /\ Holes(owner, co) \subseteq starts[co] \ {Len(CO.code)}
          /\ \A h \in Holes(owner, co) : IsHole(CO.code, h)
      BY <1>1, <1>2 DEF Laid, CO, CodeLaid
    <3>2. TopHole \subseteq Holes(owner, co)
      <4>1. n \in Waiting(owner, co)
        BY <1>0, <1>1 DEF Waiting, Owned, n
      <4> QED BY <1>2, <4>1 DEF Holes, TopHole
    <3>3. CO.code \in Seq(Bytes) /\ c.code \in Seq(Bytes) /\ Rewrites(CO.code, c.code, TopHole)
      BY <1>2 DEF CO, NewCode
    <3>4. /\ Len(c.code) >= Len(CO.code)
          /\ \A i \in DOMAIN CO.code :
               c.code[i] # CO.code[i] => CO.code[i] = 0 /\ InAddress(CO.code, i)
      BY <3>1, <3>2, <3>3, PatchedZeros
    <3> QED BY <1>5, <2>2, <3>4 DEF CO
  <2> QED BY <2>1, <2>2
<1> QED BY <1>13, <1>14

-----------------------------------------------------------------------------
(***************************************************************************)
(* Steps of one kind.                                                      *)
(***************************************************************************)

\* One instruction, whose operand is in tables of these sizes.
IsInstruction(bytes, m, n) ==
  /\ bytes \in Seq(Bytes)
  /\ bytes # <<>>
  /\ bytes[1] \in Opcodes
  /\ Len(bytes) = InstrLen(bytes[1])
  /\ bytes[1] = OP_CONST                         => bytes[2] < m
  /\ bytes[1] = OP_COMPARE                       => bytes[2] < 6
  /\ bytes[1] \in {OP_GET_GLOBAL, OP_SET_GLOBAL} => bytes[2] < n

\* The new code is the old one with an instruction more.
Extends(code, new, bytes, m, n) ==
  /\ NewCode(code, new, {}, m, n)
  /\ new \in Seq(Bytes) /\ Len(code) < Len(new)
  /\ ByteAt(new, Len(code)) = bytes[1]
  /\ Len(bytes) > 1 => ByteAt(new, Len(code) + 1) = bytes[2]
  /\ Len(bytes) > 2 => ByteAt(new, Len(code) + 2) = bytes[3]

\* Appending an instruction extends the code.
LEMMA OneMore ==
  ASSUME NEW code \in Seq(Bytes), NEW m, NEW n, NEW bytes, IsInstruction(bytes, m, n),
         NEW new, new = code \o bytes
  PROVE  Extends(code, new, bytes, m, n)
<1>1. bytes \in Seq(Bytes) /\ Len(bytes) \in {1, 2, 3} /\ Len(code) \in Nat
  BY InstrLengths DEF IsInstruction
<1> PICK k \in {1, 2, 3} : k = Len(bytes)
  BY <1>1
<1> PICK p \in Nat : p = Len(code)
  BY <1>1
<1>2. /\ new \in Seq(Bytes) /\ Len(new) = Len(code) + Len(bytes)
      /\ Rewrites(code, new, {})
      /\ \A j \in 0 .. Len(bytes) - 1 : ByteAt(new, Len(code) + j) = bytes[j + 1]
  BY <1>1, Appended
<1>3. ByteAt(new, Len(code)) = bytes[1]
  <2>1. 0 \in 0 .. k - 1 /\ p + 0 = p /\ 0 + 1 = 1
    OBVIOUS
  <2>2. ByteAt(new, Len(code) + 0) = bytes[0 + 1]
    BY <1>2, <2>1
  <2> QED BY <2>1, <2>2
<1>4. Len(bytes) > 1 => ByteAt(new, Len(code) + 1) = bytes[2]
  <2> SUFFICES ASSUME Len(bytes) > 1
               PROVE  ByteAt(new, Len(code) + 1) = bytes[2]
    OBVIOUS
  <2>1. 1 \in 0 .. k - 1 /\ 1 + 1 = 2
    OBVIOUS
  <2>2. ByteAt(new, Len(code) + 1) = bytes[1 + 1]
    BY <1>2, <2>1
  <2> QED BY <2>1, <2>2
<1>5. Len(bytes) > 2 => ByteAt(new, Len(code) + 2) = bytes[3]
  <2> SUFFICES ASSUME Len(bytes) > 2
               PROVE  ByteAt(new, Len(code) + 2) = bytes[3]
    OBVIOUS
  <2>1. 2 \in 0 .. k - 1 /\ 2 + 1 = 3
    OBVIOUS
  <2>2. ByteAt(new, Len(code) + 2) = bytes[2 + 1]
    BY <1>2, <2>1
  <2> QED BY <2>1, <2>2
<1>6. Len(code) < Len(new)
  <2>1. Len(new) = p + k /\ p < p + k
    BY <1>2
  <2> QED BY <2>1
<1>7. Lengthens(code, new)
  BY <1>2, <1>3 DEF IsInstruction, Lengthens
<1>8. Readable(new, Len(code), m, n)
  <2>1. bytes[1] \in {OP_CONST, OP_COMPARE, OP_GET_GLOBAL, OP_SET_GLOBAL} => Len(bytes) > 1
    BY InstrLengths DEF IsInstruction
  <2> QED BY <1>3, <1>4, <2>1 DEF Readable, IsInstruction
<1> QED BY <1>2, <1>3, <1>4, <1>5, <1>6, <1>7, <1>8 DEF NewCode, Extends

\* The code object in co and where its instructions start.
LEMMA InLayout ==
  ASSUME CInv, NEW owner, NEW starts, Layout(owner, starts)
  PROVE  /\ CodeLaid(CO.code, starts[co], Holes(owner, co), Len(CO.constants), Len(globals))
         /\ Cut(CO.code, starts[co])
         /\ CO.code \in Seq(Bytes) /\ Len(CO.code) \in Nat
         /\ 0 \in starts[co] /\ Len(CO.code) \in starts[co]
         /\ work # <<>> /\ IsVector(work) =>
              /\ Len(work) \in Waiting(owner, co)
              /\ Remembers(Top, CO.code, starts[co])
              /\ Opens(Top) => JumpOf(Top) \in Holes(owner, co)
<1>1. /\ Owned(owner) /\ Laid(owner, starts, co)
      /\ CO.code \in Seq(Bytes) /\ Len(CO.code) \in Nat
  BY Objects DEF Layout, CO
<1>2. /\ CodeLaid(CO.code, starts[co], Holes(owner, co), Len(CO.constants), Len(globals))
      /\ \A d \in Waiting(owner, co) : Remembers(AtHeight(d), CO.code, starts[co])
  BY <1>1 DEF Laid, CO
<1>3. Cut(CO.code, starts[co])
  BY <1>2 DEF CodeLaid
<1>4. ASSUME work # <<>>, IsVector(work)
      PROVE  Len(work) \in Waiting(owner, co) /\ AtHeight(Len(work)) = Top
  <2>1. Len(work) \in Nat /\ Len(work) # 0
    BY <1>4, VectorDomain DEF IsVector
  <2>2. Len(work) \in 1 .. Len(work)
    BY <2>1
  <2>3. AtHeight(Len(work)) = Top
    <3>1. Len(work) + 1 - Len(work) = 1
      BY <2>1
    <3>2. Head(work) = work[1]
      BY <1>4 DEF IsVector
    <3> QED BY <3>1, <3>2 DEF AtHeight, Top
  <2> QED BY <1>1, <2>2, <2>3 DEF Waiting, Owned
<1>5. ASSUME work # <<>>, IsVector(work)
      PROVE  /\ Len(work) \in Waiting(owner, co)
             /\ Remembers(Top, CO.code, starts[co])
             /\ Opens(Top) => JumpOf(Top) \in Holes(owner, co)
  BY <1>2, <1>4, <1>5 DEF Holes
<1> QED BY <1>1, <1>2, <1>3, <1>5 DEF Cut

\* The kinds of tasks that remember nothing of the code.
Forgetful == {"gen", "if", "block", "declare", "assign"}

\* A step that pushes tasks and leaves the code as it is.
LEMMA PushesOn ==
  ASSUME CInv, CInv', Kept, LaidOut, work # <<>>, co' = co,
         Top.kind \in Forgetful,
         NEW tasks, IsVector(tasks), Continue(tasks),
         \A i \in DOMAIN tasks :
           \/ tasks[i].kind \in Forgetful
           \/ tasks[i].kind = "emit" /\ IsPlain(tasks[i].bytes)
           \/ tasks[i].kind = "while" /\ tasks[i].loopStartAddr = Len(CO.code),
         NEW c, UpdateCO(c), c.code = CO.code
  PROVE  LaidOut' /\ HolesPatched
<1>1. PICK owner, starts : Layout(owner, starts)
  BY DEF LaidOut
<1>2. /\ CO.code \in Seq(Bytes) /\ Len(CO.code) \in starts[co] /\ Len(CO.code) \in Nat
  BY <1>1, InLayout
<1>3. TopHole = {} /\ Top.kind # "enddef" /\ Top # EmitTask(<<OP_HALT>>)
  BY DEF Forgetful, TopHole, Opens, EmitTask
<1>4. NewCode(CO.code, c.code, TopHole, Len(c.constants), Len(globals'))
  BY <1>2 DEF NewCode, Rewrites, Lengthens
<1>5. NewJumps(CO.code, c.code, TopHole, starts[co], tasks)
  BY <1>2, <1>3 DEF NewJumps
<1>6. \A i \in DOMAIN tasks : tasks[i].kind # "enddef" /\ ~ Opens(tasks[i])
  BY DEF Forgetful, Opens
<1>7. ASSUME NEW i \in DOMAIN tasks
      PROVE  Remembers(tasks[i], c.code, starts[co] \cup {Len(c.code)})
  <2>1. CASE tasks[i].kind \in Forgetful
    BY <2>1 DEF Remembers, Forgetful, Opens
  <2>2. CASE tasks[i].kind = "emit" /\ IsPlain(tasks[i].bytes)
    BY <2>2 DEF Remembers, Opens
  <2>3. CASE tasks[i].kind = "while" /\ tasks[i].loopStartAddr = Len(CO.code)
    BY <2>3 DEF Remembers, Opens
  <2> QED BY <2>1, <2>2, <2>3
<1>8. NewTasks(CO.code, c.code, starts[co], tasks)
  BY <1>6, <1>7 DEF NewTasks
<1> QED BY <1>1, <1>3, <1>4, <1>5, <1>6, <1>8, GoesOn

\* A step that emits one instruction, and is the end of its activation or emits
\* a jump whose address the rest of it will write.
LEMMA EmitsOne ==
  ASSUME CInv, CInv', Kept, LaidOut, work # <<>>, co' = co,
         Top.kind # "enddef", ~ Opens(Top),
         NEW c, UpdateCO(c),
         NEW bytes, IsInstruction(bytes, Len(c.constants), Len(globals')),
         c.code = CO.code \o bytes,
         Top = EmitTask(<<OP_HALT>>) => bytes = <<OP_HALT>>,
         \/ Continue(<<>>) /\ bytes[1] \notin JumpOps
         \/ \E exp, rest :
              /\ Continue(<<Gen(exp), rest>>)
              /\ bytes = <<OP_JMP_IF_FALSE, 0, 0>>
              /\ \/ rest.kind = "else"
                 \/ rest.kind = "loop" /\ Top.kind = "while"
                                       /\ rest.loopStartAddr = Top.loopStartAddr
              /\ Address(rest) = Len(CO.code) + 1
  PROVE  LaidOut' /\ HolesPatched
<1>1. PICK owner, starts : Layout(owner, starts)
  BY DEF LaidOut
<1>2. /\ CO.code \in Seq(Bytes) /\ Len(CO.code) \in Nat
      /\ Cut(CO.code, starts[co]) /\ 0 \in starts[co]
      /\ Remembers(Top, CO.code, starts[co])
  BY <1>1, InLayout, Objects
<1>3. TopHole = {}
  BY DEF TopHole
<1>4. /\ NewCode(CO.code, c.code, {}, Len(c.constants), Len(globals'))
      /\ c.code \in Seq(Bytes) /\ Len(CO.code) < Len(c.code)
      /\ ByteAt(c.code, Len(CO.code)) = bytes[1]
      /\ Len(bytes) > 1 => ByteAt(c.code, Len(CO.code) + 1) = bytes[2]
      /\ Len(bytes) > 2 => ByteAt(c.code, Len(CO.code) + 2) = bytes[3]
  <2>1. Extends(CO.code, c.code, bytes, Len(c.constants), Len(globals'))
    BY <1>2, OneMore
  <2> QED BY <2>1 DEF Extends
<1>5. CASE Continue(<<>>) /\ bytes[1] \notin JumpOps
  <2>1. IsVector(<<>>) /\ DOMAIN <<>> = {}
    BY Lists
  <2>2. NewJumps(CO.code, c.code, {}, starts[co], <<>>)
    BY <1>4, <1>5 DEF NewJumps, Lands, IsJump
  <2>3. NewTasks(CO.code, c.code, starts[co], <<>>)
    BY <2>1 DEF NewTasks
  <2> QED BY <1>1, <1>3, <1>4, <1>5, <2>1, <2>2, <2>3, GoesOn
<1>6. CASE \E exp, rest :
              /\ Continue(<<Gen(exp), rest>>)
              /\ bytes = <<OP_JMP_IF_FALSE, 0, 0>>
              /\ \/ rest.kind = "else"
                 \/ rest.kind = "loop" /\ Top.kind = "while"
                                       /\ rest.loopStartAddr = Top.loopStartAddr
              /\ Address(rest) = Len(CO.code) + 1
  <2>1. PICK exp, rest :
              /\ Continue(<<Gen(exp), rest>>)
              /\ bytes = <<OP_JMP_IF_FALSE, 0, 0>>
              /\ \/ rest.kind = "else"
                 \/ rest.kind = "loop" /\ Top.kind = "while"
                                       /\ rest.loopStartAddr = Top.loopStartAddr
              /\ Address(rest) = Len(CO.code) + 1
    BY <1>6
  <2>2. /\ ByteAt(c.code, Len(CO.code)) = OP_JMP_IF_FALSE
        /\ ByteAt(c.code, Len(CO.code) + 1) = 0
        /\ ByteAt(c.code, Len(CO.code) + 2) = 0
    BY <1>4, <2>1
  <2>3. IsHole(c.code, Len(CO.code)) /\ AddressAt(c.code, Len(CO.code)) = 0
    BY <2>2 DEF IsHole, IsJump, JumpOps, AddressAt, Word, BYTE
  <2>4. PICK tasks : tasks = <<Gen(exp), rest>>
    OBVIOUS
  <2>5. /\ IsVector(tasks) /\ DOMAIN tasks = {1, 2}
        /\ tasks[1] = Gen(exp) /\ tasks[2] = rest
    BY <2>4, Lists
  <2>6. Gen(exp).kind = "gen"
    BY DEF Gen
  <2>7. \A i \in DOMAIN tasks : tasks[i].kind # "enddef"
    BY <2>1, <2>5, <2>6
  <2>8. NewJumps(CO.code, c.code, {}, starts[co], tasks)
    BY <1>2, <2>3 DEF NewJumps, Lands
  <2>9. Remembers(Gen(exp), c.code, starts[co] \cup {Len(c.code)})
    BY <2>6 DEF Remembers, Opens
  <2>10. JumpOf(rest) = Len(CO.code) /\ Address(rest) \in Int
    BY <1>2, <2>1 DEF JumpOf
  <2>11. Remembers(rest, c.code, starts[co] \cup {Len(c.code)})
    <3>1. rest.kind = "loop" => rest.loopStartAddr \in starts[co]
      BY <1>2, <2>1 DEF Remembers
    <3>2. rest.kind = "loop" => rest.loopStartAddr < Len(c.code)
      <4>1. starts[co] \subseteq 0 .. Len(CO.code)
        BY <1>2 DEF Cut
      <4>2. Len(c.code) \in Nat
        BY <1>4
      <4> QED BY <1>2, <1>4, <3>1, <4>1, <4>2
    <3> QED BY <2>1, <2>10, <3>1, <3>2 DEF Remembers
  <2>12. NewTasks(CO.code, c.code, starts[co], tasks)
    BY <1>4, <2>1, <2>3, <2>5, <2>6, <2>9, <2>11, <2>10 DEF NewTasks, Opens
  <2>13. Top # EmitTask(<<OP_HALT>>)
    BY <2>1 DEF OP_HALT, OP_JMP_IF_FALSE
  <2>14. Continue(tasks)
    BY <2>1, <2>4
  <2> QED BY <1>1, <1>3, <1>4, <2>5, <2>7, <2>8, <2>12, <2>13, <2>14, GoesOn
<1> QED BY <1>5, <1>6

-----------------------------------------------------------------------------
(***************************************************************************)
(* Instructions that name something.                                       *)
(***************************************************************************)

\* An index that is cut to a byte is still in the table.
LEMMA BytesAreSmall ==
  \A n \in Nat : Byte(n) \in Nat /\ Byte(n) <= n /\ Byte(n) \in Bytes
BY DEF Byte, BYTE, Bytes

\* An index that was looked up is in the table.
LEMMA IndexInTable ==
  ASSUME NEW table, IsVector(table), NEW name, LastIndex(table, name) # -1
  PROVE  /\ Byte(LastIndex(table, name)) \in Bytes
         /\ Byte(LastIndex(table, name)) < Len(table)
<1>1. LastIndex(table, name) + 1 \in DOMAIN table /\ LastIndex(table, name) \in Int
  BY LastIndexFinds DEF Named
<1>2. LastIndex(table, name) \in Nat /\ LastIndex(table, name) < Len(table)
      /\ Len(table) \in Nat
  BY <1>1, VectorDomain
<1> PICK n \in Nat : n = LastIndex(table, name)
  BY <1>2
<1>3. Byte(n) \in Nat /\ Byte(n) <= n /\ Byte(n) \in Bytes
  BY BytesAreSmall
<1> QED BY <1>2, <1>3

\* An instruction of two bytes.
LEMMA TwoBytes ==
  ASSUME NEW op \in Opcodes, InstrLen(op) = 2, NEW arg \in Bytes, NEW m, NEW n,
         op = OP_CONST => arg < m, op = OP_COMPARE => arg < 6,
         op \in {OP_GET_GLOBAL, OP_SET_GLOBAL} => arg < n
  PROVE  /\ IsInstruction(<<op, arg>>, m, n)
         /\ <<op, arg>>[1] = op
<1>1. op \in Bytes
  BY DEF Opcodes, Bytes, BYTE, OP_HALT, OP_RETURN
<1>2. /\ <<op, arg>> \in Seq(Bytes) /\ <<op, arg>> # <<>> /\ Len(<<op, arg>>) = 2
      /\ <<op, arg>>[1] = op /\ <<op, arg>>[2] = arg
  BY <1>1
<1> QED BY <1>2 DEF IsInstruction

\* An instruction of one byte.
LEMMA OneByte ==
  ASSUME NEW op \in Opcodes, InstrLen(op) = 1, NEW m, NEW n
  PROVE  /\ IsInstruction(<<op>>, m, n)
         /\ <<op>>[1] = op
<1>1. op \in Bytes
  BY DEF Opcodes, Bytes, BYTE, OP_HALT, OP_RETURN
<1>2. <<op>> \in Seq(Bytes) /\ <<op>> # <<>> /\ Len(<<op>>) = 1 /\ <<op>>[1] = op
  BY <1>1
<1> QED BY <1>2, InstrLengths DEF IsInstruction

\* The lengths of the instructions that the compiler emits with an operand.
LEMMA WithOperand ==
  \A op \in {OP_CONST, OP_COMPARE, OP_GET_GLOBAL, OP_SET_GLOBAL, OP_GET_LOCAL,
             OP_SET_LOCAL, OP_SCOPE_EXIT, OP_CALL} :
    /\ op \in Opcodes /\ InstrLen(op) = 2
    /\ op \notin JumpOps \cup {OP_HALT, OP_RETURN}
BY DEF InstrLen, JumpOps, SimpleOps, MathOps, Opcodes, OP_HALT, OP_ADD, OP_SUB, OP_MUL, OP_DIV,
   OP_POP, OP_RETURN, OP_JMP, OP_JMP_IF_FALSE, OP_CONST, OP_COMPARE, OP_GET_GLOBAL,
   OP_SET_GLOBAL, OP_GET_LOCAL, OP_SET_LOCAL, OP_SCOPE_EXIT, OP_CALL

\* A literal: an OP_CONST of a constant that is in the pool.
LEMMA LiteralCode ==
  ASSUME NEW f, NEW c, Held(f, c), NEW v, NEW n
  PROVE  \E bytes : /\ IsInstruction(bytes, Len(WithLiteral(c, v).constants), n)
                    /\ bytes[1] \notin JumpOps
                    /\ WithLiteral(c, v).code = c.code \o bytes
<1> DEFINE pool == Interned(c.constants, v)
           bytes == <<OP_CONST, Byte(ConstIdx(pool, v) - 1)>>
           d == WithLiteral(c, v)
<1>1. IsVector(c.constants)
  BY DEF Held, IsCodeObject
<1>2. IsVector(pool) /\ \E i \in DOMAIN pool : pool[i] = v
  <2>1. CASE \E i \in DOMAIN c.constants : c.constants[i] = v
    BY <1>1, <2>1 DEF Interned
  <2>2. CASE ~ \E i \in DOMAIN c.constants : c.constants[i] = v
    <3>1. pool = Append(c.constants, v)
      BY <2>2 DEF Interned
    <3> HIDE DEF pool
    <3>2. /\ IsVector(pool) /\ Len(pool) = Len(c.constants) + 1
          /\ pool[Len(c.constants) + 1] = v
      BY <1>1, <3>1, VectorAppend
    <3>3. Len(pool) \in DOMAIN pool
      BY <1>1, <3>2, VectorDomain
    <3> QED BY <3>2, <3>3
  <2> QED BY <2>1, <2>2
<1> HIDE DEF pool
<1>3. ConstIdx(pool, v) \in DOMAIN pool
  <2> DEFINE S == {i \in DOMAIN pool : pool[i] = v}
  <2>1. S \subseteq Nat /\ S # {}
    BY <1>2, VectorDomain
  <2>2. PICK i \in S : \A j \in S : i <= j
    BY <2>1, Least
  <2> QED BY <2>2 DEF ConstIdx
<1>4. PICK k \in Nat : k = ConstIdx(pool, v) - 1 /\ k < Len(pool)
  BY <1>2, <1>3, VectorDomain
<1>5. Byte(k) \in Bytes /\ Byte(k) < Len(pool)
  BY <1>2, <1>4, BytesAreSmall, VectorDomain
<1>6. IsInstruction(bytes, Len(pool), n) /\ bytes[1] = OP_CONST
  BY <1>4, <1>5, TwoBytes, WithOperand DEF OP_CONST, OP_COMPARE, OP_GET_GLOBAL, OP_SET_GLOBAL
<1>7. c = [name |-> c.name, arity |-> c.arity, constants |-> c.constants,
           code |-> c.code, scopeLevel |-> c.scopeLevel, locals |-> c.locals]
  BY DEF Held, IsCodeObject
<1>8. d = [c EXCEPT !.constants = pool, !.code = c.code \o bytes]
  BY DEF WithLiteral, pool, bytes
<1> HIDE DEF d, bytes
<1>9. d.constants = pool /\ d.code = c.code \o bytes
  BY <1>7, <1>8
<1> QED BY <1>6, <1>9, WithOperand DEF d

\* A variable that is read or set.
LEMMA AccessCode ==
  ASSUME CInv, NEW name, Resolves(name), NEW m,
         NEW localOp \in {OP_GET_LOCAL, OP_SET_LOCAL},
         NEW globalOp \in {OP_GET_GLOBAL, OP_SET_GLOBAL}
  PROVE  /\ IsInstruction(Access(CO, globals, name, localOp, globalOp), m, Len(globals))
         /\ Access(CO, globals, name, localOp, globalOp)[1] \notin JumpOps
<1>1. IsVector(CO.locals) /\ IsVector(globals)
  BY DEF CInv, CO, CodeObjectsOK, IsCodeObject, LocalsNested
<1>2. CASE getLocalIndex(CO, name) # -1
  <2>1. Byte(getLocalIndex(CO, name)) \in Bytes
    BY <1>1, <1>2, IndexInTable DEF getLocalIndex
  <2>2. Access(CO, globals, name, localOp, globalOp)
          = <<localOp, Byte(getLocalIndex(CO, name))>>
    BY <1>2 DEF Access
  <2> QED BY <2>1, <2>2, TwoBytes, WithOperand DEF OP_CONST, OP_COMPARE, OP_GET_GLOBAL,
             OP_SET_GLOBAL, OP_GET_LOCAL, OP_SET_LOCAL
<1>3. CASE getLocalIndex(CO, name) = -1
  <2>1. getGlobalIndex(globals, name) # -1
    BY <1>3 DEF Resolves, exists
  <2>2. /\ Byte(getGlobalIndex(globals, name)) \in Bytes
        /\ Byte(getGlobalIndex(globals, name)) < Len(globals)
    BY <1>1, <2>1, IndexInTable DEF getGlobalIndex
  <2>3. Access(CO, globals, name, localOp, globalOp)
          = <<globalOp, Byte(getGlobalIndex(globals, name))>>
    BY <1>3 DEF Access
  <2> QED BY <2>2, <2>3, TwoBytes, WithOperand DEF OP_CONST, OP_COMPARE, OP_GET_GLOBAL,
             OP_SET_GLOBAL
<1> QED BY <1>2, <1>3

\* A declared name is in the table of globals, or among the locals.
LEMMA StoredCode ==
  ASSUME NEW f, NEW c, Held(f, c), NEW name, IsVector(globals), NEW m
  PROVE  \E bytes : /\ IsInstruction(bytes, m, Len(DefinedIn(c, name)))
                    /\ bytes[1] \notin JumpOps
                    /\ Stored(c, name).code = c.code \o bytes
                    /\ Stored(c, name).constants = c.constants
<1> DEFINE declared == Declared(c, name)
           table == DefinedIn(c, name)
           bytes == IF isGlobalScope(c)
                    THEN <<OP_SET_GLOBAL, Byte(getGlobalIndex(table, name))>>
                    ELSE <<OP_SET_LOCAL, Byte(getLocalIndex(declared, name))>>
<1>1. c = [name |-> c.name, arity |-> c.arity, constants |-> c.constants,
           code |-> c.code, scopeLevel |-> c.scopeLevel, locals |-> c.locals]
      /\ IsVector(c.locals)
  BY DEF Held, IsCodeObject, LocalsNested
<1>2. PICK locals : /\ IsVector(locals)
                    /\ locals = c.locals \/ locals = Append(c.locals, LocalVar(name, c.scopeLevel))
                    /\ declared = [c EXCEPT !.locals = locals]
  <2>1. CASE isGlobalScope(c)
    <3>1. declared = c
      BY <2>1 DEF Declared
    <3> QED BY <1>1, <3>1
  <2>2. CASE ~ isGlobalScope(c)
    <3>1. declared = [c EXCEPT !.locals = Append(c.locals, LocalVar(name, c.scopeLevel))]
      BY <2>2 DEF Declared, addLocal
    <3>2. IsVector(Append(c.locals, LocalVar(name, c.scopeLevel)))
      BY <1>1, VectorAppend
    <3> QED BY <3>1, <3>2
  <2> QED BY <2>1, <2>2
<1>3. Stored(c, name) = Emitted(declared, bytes)
  BY DEF Stored
<1> HIDE DEF declared
<1>4. /\ declared = [name |-> c.name, arity |-> c.arity, constants |-> c.constants,
                     code |-> c.code, scopeLevel |-> c.scopeLevel, locals |-> locals]
  BY <1>1, <1>2
<1>5. CASE isGlobalScope(c)
  <2>1. IsVector(table) /\ \E i \in DOMAIN table : table[i].name = name
    <3>1. CASE exists(globals, name)
      <4>1. table = globals
        BY <1>5, <3>1 DEF DefinedIn, define
      <4>2. Named(globals, name) # {}
        BY <3>1, LastIndexFinds DEF exists, getGlobalIndex
      <4> QED BY <4>1, <4>2 DEF Named
    <3>2. CASE ~ exists(globals, name)
      <4> DEFINE new == GlobalVar(name, NUMBER(0))
      <4>1. table = Append(globals, new) /\ new.name = name
        BY <1>5, <3>2 DEF DefinedIn, define, GlobalVar
      <4> HIDE DEF new, table
      <4>2. /\ IsVector(table) /\ Len(table) = Len(globals) + 1
            /\ table[Len(globals) + 1] = new
        BY <4>1, VectorAppend
      <4>3. Len(table) \in DOMAIN table
        BY <4>2, VectorDomain
      <4> QED BY <4>1, <4>2, <4>3
    <3> QED BY <3>1, <3>2
  <2> HIDE DEF table
  <2>2. getGlobalIndex(table, name) # -1
    BY <2>1, LastIndexFinds DEF getGlobalIndex, Named
  <2>3. /\ Byte(getGlobalIndex(table, name)) \in Bytes
        /\ Byte(getGlobalIndex(table, name)) < Len(table)
    BY <2>1, <2>2, IndexInTable DEF getGlobalIndex
  <2>4. bytes = <<OP_SET_GLOBAL, Byte(getGlobalIndex(table, name))>>
    BY <1>5
  <2>5. IsInstruction(bytes, m, Len(table)) /\ bytes[1] \notin JumpOps
    BY <2>3, <2>4, TwoBytes, WithOperand DEF OP_CONST, OP_COMPARE, OP_SET_GLOBAL
  <2> HIDE DEF bytes
  <2>6. /\ Emitted(declared, bytes).code = c.code \o bytes
        /\ Emitted(declared, bytes).constants = c.constants
    BY <1>4 DEF Emitted
  <2> QED BY <1>3, <2>5, <2>6 DEF table
<1>6. CASE ~ isGlobalScope(c)
  <2>1. locals = Append(c.locals, LocalVar(name, c.scopeLevel))
    <3>1. declared = addLocal(c, name)
      BY <1>6 DEF Declared, declared
    <3>2. declared = [c EXCEPT !.locals = Append(c.locals, LocalVar(name, c.scopeLevel))]
      BY <3>1 DEF addLocal
    <3>3. declared.locals = Append(c.locals, LocalVar(name, c.scopeLevel))
      BY <1>1, <3>2
    <3> QED BY <1>4, <3>3
  <2>2. declared.locals = locals /\ IsVector(locals)
    BY <1>2, <1>4
  <2>3. \E i \in DOMAIN locals : locals[i].name = name
    <3> DEFINE new == LocalVar(name, c.scopeLevel)
    <3>1. locals = Append(c.locals, new) /\ new.name = name
      BY <2>1 DEF LocalVar
    <3> HIDE DEF new
    <3>2. /\ Len(locals) = Len(c.locals) + 1
          /\ locals[Len(c.locals) + 1] = new
      BY <1>1, <3>1, VectorAppend
    <3>3. Len(locals) \in DOMAIN locals
      BY <1>1, <1>2, <3>2, VectorDomain
    <3> QED BY <3>1, <3>2, <3>3
  <2>4. getLocalIndex(declared, name) # -1
    BY <2>2, <2>3, LastIndexFinds DEF getLocalIndex, Named
  <2>5. Byte(getLocalIndex(declared, name)) \in Bytes
    BY <2>2, <2>4, IndexInTable DEF getLocalIndex
  <2>6. bytes = <<OP_SET_LOCAL, Byte(getLocalIndex(declared, name))>>
    BY <1>6
  <2>7. IsInstruction(bytes, m, Len(table)) /\ bytes[1] \notin JumpOps
    BY <2>5, <2>6, TwoBytes, WithOperand DEF OP_CONST, OP_COMPARE, OP_SET_LOCAL,
       OP_GET_GLOBAL, OP_SET_GLOBAL
  <2> HIDE DEF bytes
  <2>8. /\ Emitted(declared, bytes).code = c.code \o bytes
        /\ Emitted(declared, bytes).constants = c.constants
    BY <1>4 DEF Emitted
  <2> QED BY <1>3, <2>7, <2>8
<1> QED BY <1>5, <1>6

-----------------------------------------------------------------------------
(***************************************************************************)
(* The actions of gen().  Ready is what is known about a step already.     *)
(***************************************************************************)
Ready == CInv /\ CInv' /\ Kept /\ LaidOut /\ CodeFits /\ CodeFits'

\* An offset of 16 bits is not cut.
LEMMA Offsets ==
  \A n \in Nat : n < SHORT => n % SHORT = n
BY DEF SHORT

\* The code object in co, with other code.
LEMMA InCO ==
  ASSUME CInv
  PROVE  /\ \A code : /\ [CO EXCEPT !.code = code].code = code
                      /\ [CO EXCEPT !.code = code].constants = CO.constants
         /\ \A bytes : /\ Emitted(CO, bytes).code = CO.code \o bytes
                       /\ Emitted(CO, bytes).constants = CO.constants
         /\ CO.code \in Seq(Bytes) /\ Len(CO.code) \in Nat
         /\ CodeFits => getOffset(CO.code) = Len(CO.code)
<1>1. CO = [name |-> CO.name, arity |-> CO.arity, constants |-> CO.constants,
            code |-> CO.code, scopeLevel |-> CO.scopeLevel, locals |-> CO.locals]
  BY Staying DEF Held, IsCodeObject
<1>2. ASSUME NEW code
      PROVE  /\ [CO EXCEPT !.code = code].code = code
             /\ [CO EXCEPT !.code = code].constants = CO.constants
  BY <1>1
<1>3. ASSUME NEW bytes
      PROVE  /\ Emitted(CO, bytes).code = CO.code \o bytes
             /\ Emitted(CO, bytes).constants = CO.constants
  <2>1. Emitted(CO, bytes) = [CO EXCEPT !.code = CO.code \o bytes]
    BY DEF Emitted
  <2> QED BY <1>2, <2>1
<1>4. CO.code \in Seq(Bytes) /\ Len(CO.code) \in Nat
  BY Objects DEF CO
<1>5. CodeFits => getOffset(CO.code) = Len(CO.code)
  <2>1. CodeFits => Len(CO.code) < SHORT
    BY Objects DEF CodeFits, CO
  <2> QED BY <1>4, <2>1, Offsets DEF getOffset
<1> QED BY <1>2, <1>3, <1>4, <1>5, Zenon

\* What is laid out stays so while code and activations are left alone.
LEMMA Unmoved ==
  ASSUME NEW owner, NEW starts, Layout(owner, starts),
         UNCHANGED <<codeObjects, globals, co, work>>
  PROVE  Layout(owner, starts)'
<1>1. \A d : AtHeight(d)' = AtHeight(d)
  BY DEF AtHeight
<1>2. /\ Len(work)' = Len(work) /\ co' = co /\ work' = work
      /\ codeObjects' = codeObjects /\ globals' = globals
  OBVIOUS
<1>3. Owned(owner)' /\ HaltBelow'
  BY <1>1, <1>2 DEF Layout, Owned, HaltBelow
<1>4. ASSUME NEW f \in DOMAIN codeObjects
      PROVE  Laid(owner, starts, f)'
  <2>1. Waiting(owner, f)' = Waiting(owner, f)
    BY <1>2 DEF Waiting
  <2>2. Holes(owner, f)' = Holes(owner, f)
    BY <1>1, <2>1 DEF Holes
  <2>3. Laid(owner, starts, f)
    BY DEF Layout
  <2> QED BY <1>1, <1>2, <2>1, <2>2, <2>3 DEF Laid
<1> QED BY <1>2, <1>3, <1>4 DEF Layout

\* A step that leaves code and activations alone.
LEMMA Rests ==
  ASSUME Ready, UNCHANGED <<codeObjects, globals, co, work>>
  PROVE  LaidOut' /\ HolesPatched
<1>1. PICK owner, starts : Layout(owner, starts)
  BY DEF Ready, LaidOut
<1>2. Layout(owner, starts)'
  BY <1>1, Unmoved
<1>3. HolesPatched
  BY Objects DEF HolesPatched, Ready
<1> QED BY <1>2, <1>3 DEF LaidOut

\* The process exits.
LEMMA StopRests ==
  ASSUME Ready, NEW fate, Stop(fate)
  PROVE  LaidOut' /\ HolesPatched
BY Rests DEF Stop

\* A literal.
LEMMA GenLiteralLaid ==
  Ready /\ GenLiteral => LaidOut' /\ HolesPatched
<1> SUFFICES ASSUME Ready, GenLiteral
             PROVE  LaidOut' /\ HolesPatched
  OBVIOUS
<1>1. work # <<>> /\ Top.kind = "gen" /\ co' = co /\ Continue(<<>>)
  BY DEF GenLiteral, Doing, Same
<1> PICK c : c = WithLiteral(CO, LiteralValue(Top.exp))
  OBVIOUS
<1>2. UpdateCO(c)
  BY DEF GenLiteral
<1>3. PICK bytes : /\ IsInstruction(bytes, Len(c.constants), Len(globals'))
                   /\ bytes[1] \notin JumpOps
                   /\ c.code = CO.code \o bytes
  BY Staying, LiteralCode DEF Ready
<1>4. ~ Opens(Top) /\ Top.kind # "enddef" /\ Top # EmitTask(<<OP_HALT>>)
  BY <1>1 DEF Opens, EmitTask
<1> QED BY <1>1, <1>2, <1>3, <1>4, EmitsOne DEF Ready

\* A variable.
LEMMA GenVariableLaid ==
  Ready /\ GenVariable => LaidOut' /\ HolesPatched
<1> SUFFICES ASSUME Ready, GenVariable
             PROVE  LaidOut' /\ HolesPatched
  OBVIOUS
<1>1. CASE Stop("died")
  BY <1>1, StopRests
<1>2. CASE ~ Stop("died")
  <2> PICK bytes : bytes = Access(CO, globals, Name(Top.exp), OP_GET_LOCAL, OP_GET_GLOBAL)
    OBVIOUS
  <2> PICK c : c = Emitted(CO, bytes)
    OBVIOUS
  <2>1. /\ work # <<>> /\ Top.kind = "gen" /\ co' = co /\ Continue(<<>>)
        /\ Resolves(Name(Top.exp)) /\ UpdateCO(c) /\ globals' = globals
    BY <1>2 DEF GenVariable, Doing, Same
  <2>2. c.code = CO.code \o bytes
    BY InCO DEF Ready
  <2>3. IsInstruction(bytes, Len(c.constants), Len(globals')) /\ bytes[1] \notin JumpOps
    BY <2>1, AccessCode DEF Ready
  <2>4. ~ Opens(Top) /\ Top.kind # "enddef" /\ Top # EmitTask(<<OP_HALT>>)
    BY <2>1 DEF Opens, EmitTask
  <2> QED BY <2>1, <2>2, <2>3, <2>4, EmitsOne DEF Ready
<1> QED BY <1>1, <1>2

\* set: the store.
LEMMA SetAssignLaid ==
  Ready /\ SetAssign => LaidOut' /\ HolesPatched
<1> SUFFICES ASSUME Ready, SetAssign
             PROVE  LaidOut' /\ HolesPatched
  OBVIOUS
<1>1. CASE Stop("died")
  BY <1>1, StopRests
<1>2. CASE ~ Stop("died")
  <2> PICK bytes : bytes = Access(CO, globals, Top.name, OP_SET_LOCAL, OP_SET_GLOBAL)
    OBVIOUS
  <2> PICK c : c = Emitted(CO, bytes)
    OBVIOUS
  <2>1. /\ work # <<>> /\ Top.kind = "assign" /\ co' = co /\ Continue(<<>>)
        /\ Resolves(Top.name) /\ UpdateCO(c) /\ globals' = globals
    BY <1>2 DEF SetAssign, Doing, Same
  <2>2. c.code = CO.code \o bytes
    BY InCO DEF Ready
  <2>3. IsInstruction(bytes, Len(c.constants), Len(globals')) /\ bytes[1] \notin JumpOps
    BY <2>1, AccessCode DEF Ready
  <2>4. ~ Opens(Top) /\ Top.kind # "enddef" /\ Top # EmitTask(<<OP_HALT>>)
    BY <2>1 DEF Opens, EmitTask
  <2> QED BY <2>1, <2>2, <2>3, <2>4, EmitsOne DEF Ready
<1> QED BY <1>1, <1>2

\* The bytes that an activation has left for the end are a plain instruction.
LEMMA EmitLaid ==
  Ready /\ Emit => LaidOut' /\ HolesPatched
<1> SUFFICES ASSUME Ready, Emit
             PROVE  LaidOut' /\ HolesPatched
  OBVIOUS
<1> PICK bytes : bytes = Top.bytes
  OBVIOUS
<1> PICK c : c = Emitted(CO, bytes)
  OBVIOUS
<1>1. /\ work # <<>> /\ Top.kind = "emit" /\ co' = co /\ Continue(<<>>)
      /\ UpdateCO(c)
  BY DEF Emit, Doing, Same
<1>2. c.code = CO.code \o bytes
  BY InCO DEF Ready
<1>3. PICK owner, starts : Layout(owner, starts)
  BY DEF Ready, LaidOut
<1>4. IsPlain(bytes)
  BY <1>1, <1>3, InLayout, Objects DEF Ready, Remembers
<1>5. IsInstruction(bytes, Len(c.constants), Len(globals')) /\ bytes[1] \notin JumpOps
  BY <1>4 DEF IsPlain, IsInstruction
<1>6. ~ Opens(Top) /\ Top.kind # "enddef"
  BY <1>1 DEF Opens
<1>7. Top = EmitTask(<<OP_HALT>>) => bytes = <<OP_HALT>>
  BY DEF EmitTask
<1> QED BY <1>1, <1>2, <1>5, <1>6, <1>7, EmitsOne DEF Ready

\* The opcodes of the operators are plain instructions.
LEMMA OperatorsArePlain ==
  /\ \A op \in DOMAIN MathOpcodes : IsPlain(<<MathOpcodes[op]>>)
  /\ \A op \in DOMAIN compareOps : IsPlain(<<OP_COMPARE, compareOps[op]>>)
  /\ \A b \in Bytes : IsPlain(<<OP_CALL, b>>)
  /\ IsPlain(<<OP_POP>>) /\ IsPlain(<<OP_HALT>>)
<1> DEFINE Plain == Opcodes \ (JumpOps \cup {OP_CONST, OP_GET_GLOBAL, OP_SET_GLOBAL})
<1>1. /\ MathOps \cup {OP_POP, OP_HALT, OP_COMPARE, OP_CALL} \subseteq Plain
      /\ \A op \in MathOps \cup {OP_POP, OP_HALT} : InstrLen(op) = 1 /\ op # OP_COMPARE
      /\ InstrLen(OP_COMPARE) = 2 /\ InstrLen(OP_CALL) = 2 /\ OP_CALL # OP_COMPARE
  BY DEF InstrLen, JumpOps, SimpleOps, MathOps, Opcodes, OP_HALT, OP_ADD, OP_SUB, OP_MUL,
     OP_DIV, OP_POP, OP_RETURN, OP_JMP, OP_JMP_IF_FALSE, OP_CONST, OP_COMPARE,
     OP_GET_GLOBAL, OP_SET_GLOBAL, OP_CALL
<1>2. Plain \subseteq Bytes
  BY DEF Opcodes, Bytes, BYTE, OP_HALT, OP_RETURN
<1> HIDE DEF Plain
<1>3. ASSUME NEW op \in MathOps \cup {OP_POP, OP_HALT}
      PROVE  IsPlain(<<op>>)
  <2>1. op \in Plain /\ op \in Bytes /\ InstrLen(op) = 1 /\ op # OP_COMPARE
    BY <1>1, <1>2
  <2>2. /\ <<op>> \in Seq(Bytes) /\ <<op>> # <<>> /\ Len(<<op>>) = 1
        /\ <<op>>[1] = op
    BY <2>1
  <2> QED BY <2>1, <2>2 DEF IsPlain, Plain
<1>4. ASSUME NEW op \in {OP_COMPARE, OP_CALL}, NEW arg \in Bytes,
             op = OP_COMPARE => arg < 6
      PROVE  IsPlain(<<op, arg>>)
  <2>1. op \in Plain /\ op \in Bytes /\ InstrLen(op) = 2
    BY <1>1, <1>2
  <2>2. /\ <<op, arg>> \in Seq(Bytes) /\ <<op, arg>> # <<>> /\ Len(<<op, arg>>) = 2
        /\ <<op, arg>>[1] = op /\ <<op, arg>>[2] = arg
    BY <2>1
  <2> QED BY <1>4, <2>1, <2>2 DEF IsPlain, Plain
<1>5. \A op \in DOMAIN MathOpcodes : MathOpcodes[op] \in MathOps
  BY DEF MathOpcodes, MathOps
<1>6. \A op \in DOMAIN compareOps : compareOps[op] \in Bytes /\ compareOps[op] < 6
  BY DEF compareOps, Bytes, BYTE
<1> QED BY <1>1, <1>3, <1>4, <1>5, <1>6

\* Arithmetic and comparisons.
LEMMA GenBinaryLaid ==
  Ready /\ GenBinary => LaidOut' /\ HolesPatched
<1> SUFFICES ASSUME Ready, GenBinary
             PROVE  LaidOut' /\ HolesPatched
  OBVIOUS
<1>1. work # <<>> /\ Top.kind = "gen" /\ co' = co /\ UNCHANGED codeObjects
  BY DEF GenBinary, GenList, Doing, Same
<1> PICK left, right : left = Gen(At(Top.exp, 1)) /\ right = Gen(At(Top.exp, 2))
  OBVIOUS
<1>2. PICK emit : /\ Continue(<<left, right, emit>>)
                  /\ emit.kind = "emit" /\ IsPlain(emit.bytes)
  <2>0. \A b : EmitTask(b).kind = "emit" /\ EmitTask(b).bytes = b
    BY DEF EmitTask
  <2>1. CASE /\ Head0 \in DOMAIN MathOpcodes
             /\ Continue(<<left, right, EmitTask(<<MathOpcodes[Head0]>>)>>)
    <3>1. IsPlain(<<MathOpcodes[Head0]>>)
      BY <2>1, OperatorsArePlain
    <3> QED BY <2>0, <2>1, <3>1, Zenon
  <2>2. CASE /\ Head0 \in DOMAIN compareOps
             /\ Continue(<<left, right, EmitTask(<<OP_COMPARE, compareOps[Head0]>>)>>)
    <3>1. IsPlain(<<OP_COMPARE, compareOps[Head0]>>)
      BY <2>2, OperatorsArePlain
    <3> QED BY <2>0, <2>2, <3>1, Zenon
  <2> QED BY <2>1, <2>2 DEF GenBinary
<1> PICK tasks : tasks = <<left, right, emit>>
  OBVIOUS
<1>3. IsVector(tasks) /\ \A i \in DOMAIN tasks : tasks[i] \in {left, right, emit}
  <2>1. tasks \in Seq({left, right, emit})
    OBVIOUS
  <2>2. IsVector(tasks)
    BY <2>1, SequenceIsVector
  <2> QED BY <2>1, <2>2
<1>4. left.kind \in Forgetful /\ right.kind \in Forgetful /\ Top.kind \in Forgetful
  BY <1>1 DEF Gen, Forgetful
<1>5. UpdateCO(CO)
  BY <1>1, Staying DEF Ready
<1>6. Continue(tasks)
  BY <1>2
<1> QED BY <1>1, <1>2, <1>3, <1>4, <1>5, <1>6, PushesOn DEF Ready

\* A call.
LEMMA GenCallLaid ==
  Ready /\ GenCall => LaidOut' /\ HolesPatched
<1> SUFFICES ASSUME Ready, GenCall
             PROVE  LaidOut' /\ HolesPatched
  OBVIOUS
<1>1. work # <<>> /\ Top.kind = "gen" /\ co' = co /\ UNCHANGED codeObjects
  BY DEF GenCall, GenList, Doing, Same
<1> PICK n : n = Size(Top.exp)
  OBVIOUS
<1>2. n \in Nat
  BY <1>1, TopIsTask DEF Ready
<1> PICK emit : emit = EmitTask(<<OP_CALL, Byte(n - 1)>>)
  OBVIOUS
<1> DEFINE parts == [i \in 1 .. n |-> Gen(At(Top.exp, i - 1))]
           S == {Gen(At(Top.exp, i - 1)) : i \in 1 .. n} \cup {emit}
<1> PICK tasks : tasks = parts \o <<emit>>
  OBVIOUS
<1>3. Continue(tasks)
  BY DEF GenCall
<1>4. emit.kind = "emit" /\ IsPlain(emit.bytes)
  <2>1. Byte(n - 1) \in Bytes
    <3>1. n - 1 \in Int
      BY <1>2
    <3> QED BY <3>1, BytesOfNumbers
  <2> QED BY <2>1, OperatorsArePlain DEF EmitTask
<1>5. \A t \in S : t.kind \in Forgetful \/ t = emit
  BY DEF Gen, Forgetful
<1>6. tasks \in Seq(S)
  <2>1. parts \in [1 .. n -> S]
    OBVIOUS
  <2>2. parts \in Seq(S)
    <3> HIDE DEF parts, S
    <3> QED BY <1>2, <2>1, SeqDef
  <2>3. <<emit>> \in Seq(S)
    OBVIOUS
  <2> HIDE DEF parts, S
  <2> QED BY <2>2, <2>3
<1> HIDE DEF S
<1>7. IsVector(tasks) /\ \A i \in DOMAIN tasks : tasks[i] \in S
  <2>1. IsVector(tasks)
    BY <1>6, SequenceIsVector
  <2>2. \A i \in 1 .. Len(tasks) : tasks[i] \in S
    BY <1>6, ElementOfSeq
  <2> QED BY <2>1, <2>2, VectorDomain
<1>8. \A i \in DOMAIN tasks : \/ tasks[i].kind \in Forgetful
                              \/ tasks[i].kind = "emit" /\ IsPlain(tasks[i].bytes)
  BY <1>4, <1>5, <1>7
<1>9. UpdateCO(CO) /\ Top.kind \in Forgetful
  BY <1>1, Staying DEF Ready, Forgetful
<1> QED BY <1>1, <1>3, <1>7, <1>8, <1>9, PushesOn DEF Ready

\* Two tasks pushed, the second of which may be the rest of a while.
LEMMA TwoPushed ==
  ASSUME Ready, work # <<>>, co' = co, Top.kind = "gen", UNCHANGED codeObjects,
         NEW exp, NEW rest, Continue(<<Gen(exp), rest>>),
         \/ rest.kind \in Forgetful
         \/ rest.kind = "while" /\ rest.loopStartAddr = Len(CO.code)
  PROVE  LaidOut' /\ HolesPatched
<1> PICK tasks : tasks = <<Gen(exp), rest>>
  OBVIOUS
<1>1. IsVector(tasks) /\ \A i \in DOMAIN tasks : tasks[i] \in {Gen(exp), rest}
  BY Lists
<1>2. Gen(exp).kind \in Forgetful /\ Top.kind \in Forgetful
  BY DEF Gen, Forgetful
<1>3. UpdateCO(CO)
  BY Staying DEF Ready
<1> QED BY <1>1, <1>2, <1>3, PushesOn DEF Ready

\* if, var and set: the first expression.
LEMMA FirstExpression ==
  Ready /\ (GenIf \/ GenVar \/ GenSet) => LaidOut' /\ HolesPatched
<1> SUFFICES ASSUME Ready, GenIf \/ GenVar \/ GenSet
             PROVE  LaidOut' /\ HolesPatched
  OBVIOUS
<1>1. CASE GenIf
  <2>1. /\ work # <<>> /\ Top.kind = "gen" /\ co' = co /\ UNCHANGED codeObjects
        /\ Continue(<<Gen(At(Top.exp, 1)), [kind |-> "if", exp |-> Top.exp]>>)
    BY <1>1 DEF GenIf, GenForm, GenList, Doing, Same
  <2>2. [kind |-> "if", exp |-> Top.exp].kind \in Forgetful
    BY DEF Forgetful
  <2> QED BY <2>1, <2>2, TwoPushed
<1>2. ASSUME NEW form, NEW kind \in {"declare", "assign"}, NameThenValue(form, kind)
      PROVE  LaidOut' /\ HolesPatched
  <2>1. CASE Stop("undefined")
    BY <2>1, StopRests
  <2>2. CASE ~ Stop("undefined")
    <3>1. /\ work # <<>> /\ Top.kind = "gen" /\ co' = co /\ UNCHANGED codeObjects
          /\ Continue(<<Gen(At(Top.exp, 2)), [kind |-> kind, name |-> VarName(Top.exp)]>>)
      BY <1>2, <2>2 DEF NameThenValue, GenForm, GenList, Doing, Same
    <3>2. [kind |-> kind, name |-> VarName(Top.exp)].kind \in Forgetful
      BY DEF Forgetful
    <3> QED BY <3>1, <3>2, TwoPushed
  <2> QED BY <2>1, <2>2
<1> QED BY <1>1, <1>2 DEF GenVar, GenSet

\* while: the test, whose first instruction is where the code ends now.
LEMMA GenWhileLaid ==
  Ready /\ GenWhile => LaidOut' /\ HolesPatched
<1> SUFFICES ASSUME Ready, GenWhile
             PROVE  LaidOut' /\ HolesPatched
  OBVIOUS
<1> PICK rest : rest = [kind |-> "while", exp |-> Top.exp,
                        loopStartAddr |-> getOffset(CO.code)]
  OBVIOUS
<1>1. /\ work # <<>> /\ Top.kind = "gen" /\ co' = co /\ UNCHANGED codeObjects
      /\ Continue(<<Gen(At(Top.exp, 1)), rest>>)
  BY DEF GenWhile, GenForm, GenList, Doing, Same
<1>2. rest.kind = "while" /\ rest.loopStartAddr = Len(CO.code)
  BY InCO DEF Ready
<1> QED BY <1>1, <1>2, TwoPushed

\* A list that is no form, and the beginning of a block.
LEMMA NothingEmitted ==
  Ready /\ (GenOther \/ GenBegin) => LaidOut' /\ HolesPatched
<1> SUFFICES ASSUME Ready, GenOther \/ GenBegin
             PROVE  LaidOut' /\ HolesPatched
  OBVIOUS
<1>1. CASE GenOther
  <2> PICK tasks : tasks = <<>>
    OBVIOUS
  <2>1. work # <<>> /\ Top.kind = "gen" /\ co' = co /\ UNCHANGED codeObjects
        /\ Continue(tasks)
    BY <1>1 DEF GenOther, Doing, Same
  <2>2. IsVector(tasks) /\ DOMAIN tasks = {}
    BY Lists
  <2>3. UpdateCO(CO) /\ Top.kind \in Forgetful
    BY <2>1, Staying DEF Ready, Forgetful
  <2> QED BY <2>1, <2>2, <2>3, PushesOn DEF Ready
<1>2. CASE GenBegin
  <2> PICK block : block = [kind |-> "block", exp |-> Top.exp, i |-> 1]
    OBVIOUS
  <2> PICK tasks : tasks = <<block>>
    OBVIOUS
  <2> PICK c : c = [CO EXCEPT !.scopeLevel = @ + 1]
    OBVIOUS
  <2>1. work # <<>> /\ Top.kind = "gen" /\ co' = co /\ UpdateCO(c)
        /\ Continue(tasks)
    BY <1>2 DEF GenBegin, GenForm, GenList, Doing, Same
  <2>2. IsVector(tasks) /\ \A i \in DOMAIN tasks : tasks[i] = block
    <3>1. tasks \in Seq({block})
      OBVIOUS
    <3>2. IsVector(tasks)
      BY <3>1, SequenceIsVector
    <3> QED BY <3>1, <3>2
  <2>3. c.code = CO.code
    <3>1. CO = [name |-> CO.name, arity |-> CO.arity, constants |-> CO.constants,
                code |-> CO.code, scopeLevel |-> CO.scopeLevel, locals |-> CO.locals]
      BY Staying DEF Held, IsCodeObject, Ready
    <3> QED BY <3>1
  <2>4. block.kind \in Forgetful /\ Top.kind \in Forgetful
    BY <2>1 DEF Forgetful
  <2> QED BY <2>1, <2>2, <2>3, <2>4, PushesOn DEF Ready
<1> QED BY <1>1, <1>2

\* var: the declaration and the store.
LEMMA VarDeclareLaid ==
  Ready /\ VarDeclare => LaidOut' /\ HolesPatched
<1> SUFFICES ASSUME Ready, VarDeclare
             PROVE  LaidOut' /\ HolesPatched
  OBVIOUS
<1> PICK c : c = Stored(CO, Top.name)
  OBVIOUS
<1>1. /\ work # <<>> /\ Top.kind = "declare" /\ co' = co /\ Continue(<<>>)
      /\ UpdateCO(c) /\ globals' = DefinedIn(CO, Top.name)
  BY DEF VarDeclare, Doing, Same
<1>2. PICK bytes : /\ IsInstruction(bytes, Len(c.constants), Len(globals'))
                   /\ bytes[1] \notin JumpOps
                   /\ c.code = CO.code \o bytes
  <2> PICK m : m = Len(c.constants)
    OBVIOUS
  <2>1. Held(co, CO) /\ IsVector(globals)
    BY Staying DEF Ready, CInv
  <2>2. PICK bytes : /\ IsInstruction(bytes, m, Len(DefinedIn(CO, Top.name)))
                     /\ bytes[1] \notin JumpOps
                     /\ Stored(CO, Top.name).code = CO.code \o bytes
                     /\ Stored(CO, Top.name).constants = CO.constants
    BY <2>1, StoredCode, Zenon
  <2> QED BY <1>1, <2>2
<1>3. ~ Opens(Top) /\ Top.kind # "enddef" /\ Top # EmitTask(<<OP_HALT>>)
  BY <1>1 DEF Opens, EmitTask
<1> QED BY <1>1, <1>2, <1>3, EmitsOne DEF Ready

\* begin: the next expression, and what pops its value.
LEMMA BlockItemLaid ==
  Ready /\ BlockItem => LaidOut' /\ HolesPatched
<1> SUFFICES ASSUME Ready, BlockItem
             PROVE  LaidOut' /\ HolesPatched
  OBVIOUS
<1> PICK item : item = Gen(At(Top.exp, Top.i))
  OBVIOUS
<1> PICK pop : pop = EmitTask(<<OP_POP>>)
  OBVIOUS
<1> PICK block : block = [Top EXCEPT !.i = @ + 1]
  OBVIOUS
<1>1. work # <<>> /\ Top.kind = "block" /\ co' = co /\ UNCHANGED codeObjects
  BY DEF BlockItem, Doing, Same
<1>2. PICK tasks \in Seq({item, pop, block}) : Continue(tasks)
  <2>1. \/ Continue(<<item>> \o <<>> \o <<block>>)
        \/ Continue(<<item>> \o <<pop>> \o <<block>>)
    BY DEF BlockItem
  <2>2. /\ <<item>> \o <<>> \o <<block>> \in Seq({item, pop, block})
        /\ <<item>> \o <<pop>> \o <<block>> \in Seq({item, pop, block})
    OBVIOUS
  <2> QED BY <2>1, <2>2
<1>3. IsVector(tasks) /\ \A i \in DOMAIN tasks : tasks[i] \in {item, pop, block}
  <2>1. IsVector(tasks)
    BY SequenceIsVector
  <2> QED BY <2>1
<1>4. item.kind \in Forgetful /\ Top.kind \in Forgetful
  BY <1>1 DEF Gen, Forgetful
<1>5. pop.kind = "emit" /\ IsPlain(pop.bytes)
  BY OperatorsArePlain DEF EmitTask
<1>6. block.kind \in Forgetful
  <2>1. Top = [kind |-> "block", exp |-> Top.exp, i |-> Top.i]
    BY <1>1, TopIsTask DEF Ready, IsTask
  <2>2. block = [kind |-> "block", exp |-> Top.exp, i |-> Top.i + 1]
    BY <2>1
  <2> QED BY <2>2 DEF Forgetful
<1>7. UpdateCO(CO)
  BY <1>1, Staying DEF Ready
<1> QED BY <1>1, <1>2, <1>3, <1>4, <1>5, <1>6, <1>7, PushesOn DEF Ready

\* begin: the scope is left, with an OP_SCOPE_EXIT or without.
LEMMA BlockDoneLaid ==
  Ready /\ BlockDone => LaidOut' /\ HolesPatched
<1> SUFFICES ASSUME Ready, BlockDone
             PROVE  LaidOut' /\ HolesPatched
  OBVIOUS
<1>1. CASE Stop("undefined")
  BY <1>1, StopRests
<1>2. CASE ~ Stop("undefined")
  <2> PICK c : c = ScopeExited(CO)
    OBVIOUS
  <2> PICK exitCode : exitCode = IF VarsCount(CO) > 0 \/ CO.arity > 0
                                 THEN <<OP_SCOPE_EXIT, Byte(DroppedOnExit(CO))>> ELSE <<>>
    OBVIOUS
  <2> PICK tasks : tasks = <<>>
    OBVIOUS
  <2>1. /\ work # <<>> /\ Top.kind = "block" /\ co' = co /\ Continue(tasks)
        /\ UpdateCO(c)
    BY <1>2 DEF BlockDone, Doing, Same
  <2>2. IsCodeObject(CO)
    BY Staying DEF Held, Ready
  <2>3. c.code = CO.code \o exitCode /\ CO.code \in Seq(Bytes)
    <3> PICK locals, level : /\ locals = SubSeq(CO.locals, 1, Len(CO.locals) - VarsCount(CO))
                             /\ level = CO.scopeLevel - 1
      OBVIOUS
    <3>1. c = [CO EXCEPT !.code = CO.code \o exitCode, !.locals = locals, !.scopeLevel = level]
      BY DEF ScopeExited
    <3>2. CO = [name |-> CO.name, arity |-> CO.arity, constants |-> CO.constants,
                code |-> CO.code, scopeLevel |-> CO.scopeLevel, locals |-> CO.locals]
          /\ CO.code \in Seq(Bytes)
      BY <2>2 DEF IsCodeObject
    <3> QED BY <3>1, <3>2
  <2>4. /\ ~ Opens(Top) /\ Top.kind # "enddef" /\ Top # EmitTask(<<OP_HALT>>)
        /\ Top.kind \in Forgetful
    BY <2>1 DEF Opens, EmitTask, Forgetful
  <2>5. CASE exitCode = <<>>
    <3>1. c.code = CO.code
      <4>1. CO.code \o <<>> = CO.code
        BY <2>3
      <4> QED BY <2>3, <2>5, <4>1
    <3>2. IsVector(tasks) /\ DOMAIN tasks = {}
      BY Lists
    <3> QED BY <2>1, <2>4, <3>1, <3>2, PushesOn DEF Ready
  <2>6. CASE exitCode = <<OP_SCOPE_EXIT, Byte(DroppedOnExit(CO))>>
    <3>1. Byte(DroppedOnExit(CO)) \in Bytes
      <4>1. VarsCount(CO) \in Nat /\ CO.arity \in Nat
        BY <2>2, VarsLeft DEF IsCodeObject
      <4>2. DroppedOnExit(CO) \in Int
        BY <4>1 DEF DroppedOnExit
      <4> QED BY <4>2, BytesOfNumbers
    <3>2. /\ IsInstruction(exitCode, Len(c.constants), Len(globals'))
          /\ exitCode[1] \notin JumpOps
      BY <2>6, <3>1, TwoBytes, WithOperand DEF OP_SCOPE_EXIT, OP_CONST, OP_COMPARE,
         OP_GET_GLOBAL, OP_SET_GLOBAL
    <3> QED BY <2>1, <2>3, <2>4, <3>2, EmitsOne DEF Ready
  <2> QED BY <2>5, <2>6
<1> QED BY <1>1, <1>2

\* The address of a jump that has just been emitted.
LEMMA JustEmitted ==
  ASSUME CInv, NEW op \in JumpOps, NEW code, code = CO.code \o <<op, 0, 0>>, Len(code) < SHORT
  PROVE  /\ code \in Seq(Bytes) /\ Len(code) = Len(CO.code) + 3
         /\ getOffset(code) = Len(CO.code) + 3
         /\ Len(CO.code) \in Nat /\ CO.code \in Seq(Bytes)
         /\ \A m, n : IsInstruction(<<op, 0, 0>>, m, n)
         /\ \A m, n : Extends(CO.code, code, <<op, 0, 0>>, m, n)
         /\ Rewrites(CO.code, code, {})
         /\ ByteAt(code, Len(CO.code)) = op
         /\ ByteAt(code, Len(CO.code) + 1) = 0
         /\ ByteAt(code, Len(CO.code) + 2) = 0
<1>1. CO.code \in Seq(Bytes) /\ Len(CO.code) \in Nat
  BY InCO
<1>2. /\ op \in Opcodes /\ op \in Bytes /\ InstrLen(op) = 3
      /\ op \notin {OP_CONST, OP_COMPARE, OP_GET_GLOBAL, OP_SET_GLOBAL}
  BY InstrLengths DEF Opcodes, Bytes, BYTE, OP_HALT, OP_RETURN
<1>3. <<op, 0, 0>> \in Seq(Bytes) /\ Len(<<op, 0, 0>>) = 3
      /\ <<op, 0, 0>>[1] = op /\ <<op, 0, 0>>[2] = 0 /\ <<op, 0, 0>>[3] = 0
  <2>1. 0 \in Bytes
    BY DEF Bytes, BYTE
  <2> QED BY <1>2, <2>1
<1> PICK bytes : bytes = <<op, 0, 0>>
  OBVIOUS
<1>4. ASSUME NEW m, NEW n
      PROVE  IsInstruction(bytes, m, n) /\ Extends(CO.code, code, bytes, m, n)
  <2>1. IsInstruction(bytes, m, n)
    BY <1>2, <1>3 DEF IsInstruction
  <2> QED BY <1>1, <2>1, OneMore
<1>5. /\ code \in Seq(Bytes) /\ Len(code) = Len(CO.code) + 3
      /\ Rewrites(CO.code, code, {})
  BY <1>1, <1>3, Appended
<1>6. getOffset(code) = Len(CO.code) + 3
  <2>1. Len(code) \in Nat
    BY <1>5
  <2>2. Len(code) % SHORT = Len(code)
    BY <2>1, Offsets
  <2> QED BY <1>5, <2>2 DEF getOffset
<1>7. /\ ByteAt(code, Len(CO.code)) = op
      /\ ByteAt(code, Len(CO.code) + 1) = 0
      /\ ByteAt(code, Len(CO.code) + 2) = 0
  <2> PICK p \in Nat : p = Len(CO.code)
    BY <1>1
  <2>1. \A j \in 0 .. Len(bytes) - 1 : ByteAt(code, Len(CO.code) + j) = bytes[j + 1]
    BY <1>1, <1>3, Appended
  <2>2. 0 \in 0 .. 2 /\ 1 \in 0 .. 2 /\ 2 \in 0 .. 2 /\ Len(bytes) - 1 = 2
    BY <1>3
  <2>3. /\ ByteAt(code, p + 0) = bytes[0 + 1] /\ ByteAt(code, p + 1) = bytes[1 + 1]
        /\ ByteAt(code, p + 2) = bytes[2 + 1]
    BY <2>1, <2>2, Zenon
  <2>4. p + 0 = p /\ 0 + 1 = 1 /\ 1 + 1 = 2 /\ 2 + 1 = 3
    OBVIOUS
  <2> QED BY <1>3, <2>3, <2>4
<1> QED BY <1>1, <1>4, <1>5, <1>6, <1>7

\* if and while: the jump that is taken when the test is false.
LEMMA TestedLaid ==
  Ready /\ (IfTested \/ WhileTested) => LaidOut' /\ HolesPatched
<1> SUFFICES ASSUME Ready, IfTested \/ WhileTested
             PROVE  LaidOut' /\ HolesPatched
  OBVIOUS
<1> PICK bytes : bytes = <<OP_JMP_IF_FALSE, 0, 0>>
  OBVIOUS
<1> PICK code : code = CO.code \o bytes
  OBVIOUS
<1> PICK c : c = [CO EXCEPT !.code = code]
  OBVIOUS
<1> PICK exp : exp = At(Top.exp, 2)
  OBVIOUS
<1> PICK addr : addr = getOffset(code) - 2
  OBVIOUS
<1>1. PICK rest : /\ work # <<>> /\ co' = co /\ UpdateCO(c) /\ Continue(<<Gen(exp), rest>>)
                  /\ \/ Top.kind = "if" /\ rest.kind = "else"
                     \/ /\ Top.kind = "while" /\ rest.kind = "loop"
                        /\ rest.loopStartAddr = Top.loopStartAddr
                  /\ Address(rest) = addr
  <2>1. CASE IfTested
    <3> PICK rest : rest = [kind |-> "else", exp |-> Top.exp, elseJmpAddr |-> addr]
      OBVIOUS
    <3>1. /\ work # <<>> /\ co' = co /\ UpdateCO(c) /\ Continue(<<Gen(exp), rest>>)
          /\ Top.kind = "if"
      BY <2>1 DEF IfTested, Doing, Same
    <3>2. rest.kind = "else" /\ Address(rest) = addr
      BY DEF Address
    <3> QED BY <3>1, <3>2
  <2>2. CASE WhileTested
    <3> PICK rest : rest = [kind |-> "loop", loopStartAddr |-> Top.loopStartAddr,
                            loopEndJmpAddr |-> addr]
      OBVIOUS
    <3>1. /\ work # <<>> /\ co' = co /\ UpdateCO(c) /\ Continue(<<Gen(exp), rest>>)
          /\ Top.kind = "while"
      BY <2>2 DEF WhileTested, Doing, Same
    <3>2. /\ rest.kind = "loop" /\ Address(rest) = addr
          /\ rest.loopStartAddr = Top.loopStartAddr
      BY DEF Address
    <3> QED BY <3>1, <3>2
  <2> QED BY <2>1, <2>2
<1>2. c.code = code
  BY InCO DEF Ready
<1>3. Len(code) < SHORT
  <2>1. codeObjects'[co] = c /\ co \in DOMAIN codeObjects'
    BY <1>1, Objects DEF Ready, UpdateCO
  <2> QED BY <1>2, <2>1 DEF Ready, CodeFits
<1>4. /\ IsInstruction(bytes, Len(c.constants), Len(globals'))
      /\ Len(CO.code) \in Nat /\ getOffset(code) = Len(CO.code) + 3
  <2>1. OP_JMP_IF_FALSE \in JumpOps /\ CInv
    BY DEF JumpOps, Ready
  <2>2. code = CO.code \o <<OP_JMP_IF_FALSE, 0, 0>>
    OBVIOUS
  <2>3. /\ getOffset(code) = Len(CO.code) + 3 /\ Len(CO.code) \in Nat
        /\ \A m, n : IsInstruction(<<OP_JMP_IF_FALSE, 0, 0>>, m, n)
    BY <1>3, <2>1, <2>2, JustEmitted
  <2> QED BY <2>3
<1>5. Address(rest) = Len(CO.code) + 1
  <2> PICK p \in Nat : p = Len(CO.code)
    BY <1>4
  <2> PICK end : end = getOffset(code)
    OBVIOUS
  <2>1. addr = end - 2
    OBVIOUS
  <2>2. end = p + 3
    BY <1>4
  <2>3. addr = p + 1
    BY ONLY <2>1, <2>2, p \in Nat
  <2> QED BY <1>1, <2>3
<1>6. ~ Opens(Top) /\ Top.kind # "enddef" /\ Top # EmitTask(<<OP_HALT>>)
  BY <1>1 DEF Opens, EmitTask
<1> QED BY <1>1, <1>2, <1>4, <1>5, <1>6, EmitsOne DEF Ready

-----------------------------------------------------------------------------
(***************************************************************************)
(* The steps that patch a jump.                                            *)
(***************************************************************************)

\* The jump that the activation on top is to patch.
LEMMA JumpOfTop ==
  ASSUME CInv, NEW owner, NEW starts, Layout(owner, starts), work # <<>>, Opens(Top)
  PROVE  \E h \in Nat :
           /\ h + 3 <= Len(CO.code) /\ Address(Top) = h + 1
           /\ TopHole = {h} /\ h \in starts[co] \ {Len(CO.code)}
           /\ IsHole(CO.code, h)
<1>1. /\ CodeLaid(CO.code, starts[co], Holes(owner, co), Len(CO.constants), Len(globals))
      /\ Cut(CO.code, starts[co]) /\ CO.code \in Seq(Bytes) /\ Len(CO.code) \in Nat
      /\ Remembers(Top, CO.code, starts[co])
      /\ JumpOf(Top) \in Holes(owner, co)
  BY InLayout, Objects
<1> PICK h : h = JumpOf(Top)
  OBVIOUS
<1> PICK a \in Int : a = Address(Top)
  BY <1>1 DEF Remembers
<1>2. h = a - 1
  BY DEF JumpOf
<1>3. h \in starts[co] \ {Len(CO.code)} /\ IsHole(CO.code, h)
  BY <1>1 DEF CodeLaid
<1>4. InstrLen(ByteAt(CO.code, h)) = 3
  BY <1>3, InstrLengths DEF IsHole, IsJump
<1>5. h \in 0 .. Len(CO.code) /\ h + 3 \in 0 .. Len(CO.code)
  BY <1>1, <1>3, <1>4 DEF Cut
<1>6. h \in Nat /\ h + 3 <= Len(CO.code) /\ a = h + 1
  BY <1>1, <1>2, <1>5
<1> QED BY <1>3, <1>6 DEF TopHole

\* if: the jump over the alternate is emitted, the one over the consequent
\* lands behind it.
LEMMA JumpedOver ==
  ASSUME CInv, NEW owner, NEW starts, Layout(owner, starts), work # <<>>, Opens(Top),
         NEW code, code = CO.code \o <<OP_JMP, 0, 0>>,
         NEW new, new = patchJumpAddress(code, Address(Top), getOffset(code)),
         Len(new) < SHORT, NEW m, NEW n, NEW tasks
  PROVE  /\ NewCode(CO.code, new, TopHole, m, n)
         /\ NewJumps(CO.code, new, TopHole, starts[co], tasks)
         /\ Len(CO.code) \in Nat /\ Len(CO.code) < Len(new)
         /\ IsHole(new, Len(CO.code))
         /\ getOffset(code) = Len(CO.code) + 3
<1> PICK old : old = CO.code
  OBVIOUS
<1>1. PICK h \in Nat : /\ h + 3 <= Len(old) /\ Address(Top) = h + 1
                       /\ TopHole = {h} /\ h \in starts[co] \ {Len(old)}
  BY JumpOfTop
<1>2. OP_JMP \in JumpOps
  BY DEF JumpOps
<1>3. code \in Seq(Bytes) /\ getOffset(code) \in Nat /\ old \in Seq(Bytes)
  BY JumpEmitted
<1>4. Len(new) = Len(code)
  BY <1>3, Patching
<1>5. Len(code) < SHORT
  BY <1>4
<1>6. /\ Len(code) = Len(old) + 3 /\ getOffset(code) = Len(old) + 3
      /\ Len(old) \in Nat /\ Rewrites(old, code, {})
      /\ ByteAt(code, Len(old)) = OP_JMP
      /\ ByteAt(code, Len(old) + 1) = 0 /\ ByteAt(code, Len(old) + 2) = 0
  BY <1>2, <1>5, JustEmitted
<1> PICK p \in Nat : p = Len(old)
  BY <1>6
<1>7. h + 3 <= p /\ Len(code) = p + 3 /\ getOffset(code) = p + 3
  BY <1>1, <1>6
<1>8. /\ new \in Seq(Bytes) /\ Len(new) = p + 3
      /\ Rewrites(code, new, {h})
      /\ AddressAt(new, h) = p + 3
      /\ \A s \in Nat : s < p + 3 /\ s # h + 1 /\ s # h + 2
                          => ByteAt(new, s) = ByteAt(code, s)
  <2>1. h + 3 <= Len(code)
    BY <1>7
  <2>2. new = patchJumpAddress(code, h + 1, getOffset(code))
    BY <1>1
  <2>3. getOffset(code) < SHORT
    BY <1>4, <1>5, <1>7
  <2>4. IsPatched(code, new, h, getOffset(code))
    BY <1>3, <2>1, <2>2, Patched
  <2> QED BY <1>7, <2>3, <2>4 DEF IsPatched
<1>9. /\ ByteAt(new, p) = OP_JMP
      /\ ByteAt(new, p + 1) = 0 /\ ByteAt(new, p + 2) = 0
  <2>1. \A s \in {p, p + 1, p + 2} : s \in Nat /\ s < p + 3 /\ s # h + 1 /\ s # h + 2
    BY <1>7
  <2> QED BY <1>6, <1>8, <2>1
<1>10. Rewrites(old, new, {h})
  <2>1. Rewrites(old, new, {} \cup {h})
    BY <1>3, <1>6, <1>8, RewrittenTwice
  <2>2. {} \cup {h} = {h}
    OBVIOUS
  <2> QED BY <2>1, <2>2
<1>11. IsHole(new, p) /\ AddressAt(new, p) = 0
  BY <1>2, <1>9 DEF IsHole, IsJump, AddressAt, Word, BYTE
<1>12. NewCode(old, new, {h}, m, n)
  <2>1. OP_JMP \in Opcodes /\ InstrLen(OP_JMP) = 3
    BY <1>2, InstrLengths
  <2>2. Lengthens(old, new)
    BY <1>8, <1>9, <2>1 DEF Lengthens
  <2>3. Readable(new, p, m, n)
    BY <1>9 DEF Readable, OP_JMP, OP_CONST, OP_COMPARE, OP_GET_GLOBAL, OP_SET_GLOBAL
  <2> QED BY <1>8, <1>10, <2>2, <2>3 DEF NewCode
<1>13. NewJumps(old, new, {h}, starts[co], tasks)
  <2>1. Lands(new, starts[co] \cup {Len(new)}, h)
    BY <1>8 DEF Lands
  <2>2. Lands(new, starts[co] \cup {Len(new)}, p)
    BY <1>11, InLayout DEF Lands
  <2> QED BY <2>1, <2>2 DEF NewJumps
<1>14. p < Len(new)
  BY <1>8
<1> QED BY <1>1, <1>7, <1>11, <1>12, <1>13, <1>14

\* The rest of an if patches the jump over the alternate.
EndsIf(rest, old, new) ==
  /\ rest.kind = "endif" /\ Address(rest) \in Int /\ JumpOf(rest) = Len(old)
  /\ Len(old) < Len(new) /\ IsHole(new, Len(old))

\* if: the alternate, and what patches the jump over it.
LEMMA AlternateTasks ==
  ASSUME NEW exp, NEW rest, NEW old, NEW new, EndsIf(rest, old, new), NEW S,
         NEW tasks, tasks \in {<<Gen(exp), rest>>, <<rest>>}
  PROVE  /\ IsVector(tasks)
         /\ \A i \in DOMAIN tasks : tasks[i].kind # "enddef"
         /\ NewTasks(old, new, S, tasks)
<1>0. /\ rest.kind = "endif" /\ Address(rest) \in Int /\ JumpOf(rest) = Len(old)
      /\ Len(old) < Len(new) /\ IsHole(new, Len(old))
  BY DEF EndsIf
<1>1. Gen(exp).kind = "gen"
  BY DEF Gen
<1> PICK gen : gen = Gen(exp)
  OBVIOUS
<1>2. /\ IsVector(tasks)
      /\ \A i \in DOMAIN tasks : tasks[i] = gen \/ tasks[i] = rest
      /\ \A i, j \in DOMAIN tasks : tasks[i] = rest /\ tasks[j] = rest => i = j
  <2>0. gen # rest
    BY <1>0, <1>1
  <2>1. CASE tasks = <<gen, rest>>
    <3>1. tasks \in Seq({gen, rest}) /\ DOMAIN tasks = {1, 2}
          /\ tasks[1] = gen /\ tasks[2] = rest
      BY <2>1
    <3> QED BY <2>0, <3>1, SequenceIsVector
  <2>2. CASE tasks = <<rest>>
    <3>1. tasks \in Seq({rest}) /\ DOMAIN tasks = {1} /\ tasks[1] = rest
      BY <2>2
    <3> QED BY <3>1, SequenceIsVector
  <2> QED BY <2>1, <2>2
<1>3. ~ Opens(gen) /\ gen.kind = "gen"
  BY <1>1 DEF Opens
<1>4. Remembers(gen, new, S \cup {Len(new)}) /\ Remembers(rest, new, S \cup {Len(new)})
  BY <1>0, <1>3 DEF Remembers, Opens
<1> QED BY <1>0, <1>2, <1>3, <1>4 DEF NewTasks

\* Short sequences.
LEMMA Pairs ==
  \A s, t : <<s>> \o <<t>> = <<s, t>> /\ <<>> \o <<t>> = <<t>>
<1> TAKE s, t
<1>1. <<s>> \in Seq({s, t}) /\ <<t>> \in Seq({s, t}) /\ <<>> \in Seq({s, t})
      /\ <<s, t>> \in Seq({s, t})
  OBVIOUS
<1>2. <<s>> \o <<t>> = <<s, t>>
  <2> PICK S, two, both : S = {s, t} /\ two = <<s>> \o <<t>> /\ both = <<s, t>>
    OBVIOUS
  <2>1. two \in Seq(S) /\ Len(two) = 2 /\ two[1] = s /\ two[2] = t
    BY <1>1
  <2>2. both \in Seq(S) /\ Len(both) = 2 /\ both[1] = s /\ both[2] = t
    BY <1>1
  <2>3. \A i \in 1 .. Len(two) : two[i] = both[i]
    <3>1. \A i \in 1 .. 2 : i = 1 \/ i = 2
      OBVIOUS
    <3> QED BY <2>1, <2>2, <3>1
  <2>4. two = both
    BY <2>1, <2>2, <2>3, SeqEqual
  <2> QED BY <2>4
<1>3. <<>> \o <<t>> = <<t>>
  <2> PICK S, seq : S = {s, t} /\ seq = <<t>>
    OBVIOUS
  <2>1. seq \in Seq(S)
    BY <1>1
  <2>2. <<>> \o seq = seq
    BY <2>1, ConcatEmptySeq
  <2> QED BY <2>2
<1> QED BY <1>2, <1>3

\* if: the end of the consequent.
LEMMA IfConsequentLaid ==
  Ready /\ IfConsequent => LaidOut' /\ HolesPatched
<1> SUFFICES ASSUME Ready, IfConsequent
             PROVE  LaidOut' /\ HolesPatched
  OBVIOUS
<1> PICK code : code = CO.code \o <<OP_JMP, 0, 0>>
  OBVIOUS
<1> PICK new : new = patchJumpAddress(code, Top.elseJmpAddr, getOffset(code))
  OBVIOUS
<1> PICK c : c = [CO EXCEPT !.code = new]
  OBVIOUS
<1> PICK rest : rest = [kind |-> "endif", endAddr |-> getOffset(code) - 2]
  OBVIOUS
<1> PICK exp : exp = At(Top.exp, 3)
  OBVIOUS
<1> PICK tasks : tasks = (IF Size(Top.exp) = 4 THEN <<Gen(exp)>> ELSE <<>>) \o <<rest>>
  OBVIOUS
<1>1. /\ work # <<>> /\ Top.kind = "else" /\ co' = co /\ UpdateCO(c) /\ Continue(tasks)
  BY DEF IfConsequent, Doing, Same
<1>2. /\ Opens(Top) /\ Top.kind # "enddef" /\ Top # EmitTask(<<OP_HALT>>)
      /\ Address(Top) = Top.elseJmpAddr
      /\ rest.kind = "endif" /\ Address(rest) = getOffset(code) - 2
  BY <1>1 DEF Opens, EmitTask, Address
<1>3. c.code = new
  BY InCO DEF Ready
<1>4. Len(new) < SHORT
  <2>1. codeObjects'[co] = c /\ co \in DOMAIN codeObjects'
    BY <1>1, Objects DEF Ready, UpdateCO
  <2> QED BY <1>3, <2>1 DEF Ready, CodeFits
<1>5. PICK owner, starts : Layout(owner, starts)
  BY DEF Ready, LaidOut
<1>6. /\ NewCode(CO.code, new, TopHole, Len(c.constants), Len(globals'))
      /\ NewJumps(CO.code, new, TopHole, starts[co], tasks)
      /\ Len(CO.code) \in Nat /\ Len(CO.code) < Len(new)
      /\ IsHole(new, Len(CO.code))
      /\ getOffset(code) = Len(CO.code) + 3
  <2>1. new = patchJumpAddress(code, Address(Top), getOffset(code))
    BY <1>2
  <2>2. CInv
    BY DEF Ready
  <2> QED BY <1>1, <1>2, <1>4, <1>5, <2>1, <2>2, JumpedOver
<1>7. Address(rest) \in Int /\ JumpOf(rest) = Len(CO.code)
  <2> PICK p \in Nat : p = Len(CO.code)
    BY <1>6
  <2> PICK a : a = Address(rest)
    OBVIOUS
  <2>1. a = p + 3 - 2
    BY <1>2, <1>6
  <2>2. a \in Int /\ a - 1 = p
    BY ONLY <2>1, p \in Nat
  <2> QED BY <2>2 DEF JumpOf
<1>8. tasks \in {<<Gen(exp), rest>>, <<rest>>}
  <2> PICK gen : gen = Gen(exp)
    OBVIOUS
  <2>1. <<gen>> \o <<rest>> = <<gen, rest>> /\ <<>> \o <<rest>> = <<rest>>
    BY Pairs, Zenon
  <2>2. CASE Size(Top.exp) = 4
    <3>1. tasks = <<gen>> \o <<rest>>
      BY <2>2
    <3> QED BY <2>1, <3>1, Zenon
  <2>3. CASE Size(Top.exp) # 4
    <3>1. tasks = <<>> \o <<rest>>
      BY <2>3
    <3> QED BY <2>1, <3>1, Zenon
  <2> QED BY <2>2, <2>3, Zenon
<1>9. /\ IsVector(tasks)
      /\ \A i \in DOMAIN tasks : tasks[i].kind # "enddef"
      /\ NewTasks(CO.code, new, starts[co], tasks)
  <2> PICK old, S : old = CO.code /\ S = starts[co]
    OBVIOUS
  <2>1. EndsIf(rest, old, new)
    BY <1>2, <1>6, <1>7 DEF EndsIf
  <2>2. /\ IsVector(tasks)
        /\ \A i \in DOMAIN tasks : tasks[i].kind # "enddef"
        /\ NewTasks(old, new, S, tasks)
    BY ONLY <1>8, <2>1, AlternateTasks, Zenon
  <2> QED BY <2>2
<1> QED BY <1>1, <1>2, <1>3, <1>5, <1>6, <1>9, GoesOn DEF Ready

\* if: the end of the alternate.
LEMMA IfDoneLaid ==
  Ready /\ IfDone => LaidOut' /\ HolesPatched
<1> SUFFICES ASSUME Ready, IfDone
             PROVE  LaidOut' /\ HolesPatched
  OBVIOUS
<1> PICK old : old = CO.code
  OBVIOUS
<1> PICK new : new = patchJumpAddress(old, Top.endAddr, getOffset(old))
  OBVIOUS
<1> PICK c : c = [CO EXCEPT !.code = new]
  OBVIOUS
<1> PICK tasks : tasks = <<>>
  OBVIOUS
<1>1. /\ work # <<>> /\ Top.kind = "endif" /\ co' = co /\ UpdateCO(c) /\ Continue(tasks)
  BY DEF IfDone, Doing, Same
<1>2. /\ Opens(Top) /\ Top.kind # "enddef" /\ Top # EmitTask(<<OP_HALT>>)
      /\ Address(Top) = Top.endAddr
  BY <1>1 DEF Opens, EmitTask, Address
<1>3. c.code = new /\ CInv
  BY InCO DEF Ready
<1>4. PICK owner, starts : Layout(owner, starts)
  BY DEF Ready, LaidOut
<1>5. /\ old \in Seq(Bytes) /\ getOffset(old) = Len(old) /\ Len(old) \in Nat
      /\ Len(old) < SHORT
  BY InCO, Objects DEF Ready, CodeFits, CO
<1>6. PICK h \in Nat : /\ h + 3 <= Len(old) /\ Address(Top) = h + 1
                       /\ TopHole = {h} /\ h \in starts[co] \ {Len(old)}
  BY <1>1, <1>2, <1>3, <1>4, JumpOfTop
<1>7. new = patchJumpAddress(old, h + 1, Len(old))
  BY <1>2, <1>5, <1>6
<1>8. /\ new \in Seq(Bytes) /\ Len(new) = Len(old) /\ Rewrites(old, new, {h})
      /\ AddressAt(new, h) = Len(old)
  <2>1. IsPatched(old, new, h, Len(old))
    BY <1>5, <1>6, <1>7, Patched
  <2> QED BY <1>5, <2>1 DEF IsPatched
<1>9. ~ (Len(old) < Len(new))
  BY <1>5, <1>8
<1>10. NewCode(old, new, {h}, Len(c.constants), Len(globals'))
  BY <1>8, <1>9 DEF NewCode, Lengthens
<1>11. NewJumps(old, new, {h}, starts[co], tasks)
  BY <1>8, <1>9 DEF NewJumps, Lands
<1>12. IsVector(tasks) /\ DOMAIN tasks = {}
  BY Lists
<1>13. NewTasks(old, new, starts[co], tasks)
  BY <1>12 DEF NewTasks
<1>14. /\ NewCode(CO.code, c.code, TopHole, Len(c.constants), Len(globals'))
       /\ NewJumps(CO.code, c.code, TopHole, starts[co], tasks)
       /\ NewTasks(CO.code, c.code, starts[co], tasks)
  BY <1>3, <1>6, <1>10, <1>11, <1>13
<1> QED BY <1>1, <1>2, <1>3, <1>4, <1>12, <1>14, GoesOn DEF Ready

\* while: the jump back, and the jump of the test out of the loop, which lands
\* one byte behind it.
LEMMA JumpedBack ==
  ASSUME CInv, NEW owner, NEW starts, Layout(owner, starts), work # <<>>,
         Top.kind = "loop",
         NEW jump, jump = CO.code \o <<OP_JMP, 0, 0>>,
         NEW code, code = patchJumpAddress(jump, getOffset(jump) - 2, Top.loopStartAddr),
         NEW new,
         new = patchJumpAddress(code, Top.loopEndJmpAddr, getOffset(code) + 1),
         Len(new) < SHORT, NEW m, NEW n
  PROVE  /\ NewCode(CO.code, new, TopHole, m, n)
         /\ NewJumps(CO.code, new, TopHole, starts[co], <<>>)
<1> PICK old : old = CO.code
  OBVIOUS
<1>1. PICK h \in Nat : /\ h + 3 <= Len(old) /\ Top.loopEndJmpAddr = h + 1
                       /\ TopHole = {h}
  <2>1. Opens(Top) /\ Address(Top) = Top.loopEndJmpAddr
    BY DEF Opens, Address
  <2> QED BY <2>1, JumpOfTop
<1>2. OP_JMP \in JumpOps
  BY DEF JumpOps
<1>3. jump \in Seq(Bytes) /\ getOffset(jump) \in Nat /\ old \in Seq(Bytes)
  BY JumpEmitted
<1> PICK start : start = Top.loopStartAddr
  OBVIOUS
<1>4. start \in Nat /\ start < Len(old)
  <2>1. Remembers(Top, CO.code, starts[co]) /\ IsTask(Top)
    BY InLayout, Objects, TopIsTask
  <2> QED BY <2>1 DEF Remembers, IsTask
<1>5. /\ code \in Seq(Bytes) /\ Len(code) = Len(jump) /\ getOffset(code) \in Nat
      /\ Len(new) = Len(code)
  <2>1. code \in Seq(Bytes) /\ Len(code) = Len(jump)
    BY <1>3, <1>4, Patching
  <2>2. getOffset(code) \in Nat
    BY <2>1, OffsetIsNatural
  <2>3. getOffset(code) + 1 \in Nat
    BY <2>2
  <2>4. Len(new) = Len(code)
    BY <2>1, <2>3, Patching
  <2> QED BY <2>1, <2>2, <2>4
<1>6. /\ Len(jump) = Len(old) + 3 /\ getOffset(jump) = Len(old) + 3
      /\ Len(old) \in Nat /\ Rewrites(old, jump, {})
      /\ ByteAt(jump, Len(old)) = OP_JMP
  <2>1. Len(jump) < SHORT
    BY <1>5
  <2> QED BY <1>2, <2>1, JustEmitted
<1> PICK p \in Nat : p = Len(old)
  BY <1>6
<1>7. /\ h + 3 <= p /\ Len(jump) = p + 3 /\ Len(code) = p + 3 /\ Len(new) = p + 3
      /\ start < SHORT /\ getOffset(jump) - 2 = p + 1
  <2>1. h + 3 <= p /\ Len(jump) = p + 3 /\ start < p /\ getOffset(jump) = p + 3
    BY <1>1, <1>4, <1>6
  <2>2. Len(code) = p + 3 /\ Len(new) = p + 3 /\ p + 3 < SHORT
    BY <1>5, <2>1
  <2>3. SHORT \in Nat
    BY DEF SHORT
  <2>4. start < SHORT
    BY <1>4, <2>1, <2>2, <2>3
  <2>5. getOffset(jump) - 2 = p + 1
    <3> PICK end : end = getOffset(jump)
      OBVIOUS
    <3>1. end = p + 3
      BY <2>1
    <3>2. end - 2 = p + 1
      BY ONLY <3>1, p \in Nat
    <3> QED BY <3>2
  <2> QED BY <2>1, <2>2, <2>4, <2>5
<1>8. IsPatched(jump, code, p, start)
  <2>1. p + 3 <= Len(jump)
    BY <1>7
  <2>2. code = patchJumpAddress(jump, p + 1, start)
    BY <1>7
  <2> QED BY <1>3, <1>4, <2>1, <2>2, Patched
<1>9. IsPatched(code, new, h, getOffset(code) + 1)
  <2>1. h + 3 <= Len(code)
    BY <1>7
  <2>2. new = patchJumpAddress(code, h + 1, getOffset(code) + 1)
    BY <1>1
  <2>3. getOffset(code) + 1 \in Nat
    BY <1>5
  <2> QED BY <1>5, <2>1, <2>2, <2>3, Patched
<1>10. Rewrites(old, code, {})
  <2>1. Rewrites(old, code, {} \cup {p})
    <3>1. Rewrites(jump, code, {p})
      BY <1>8 DEF IsPatched
    <3> QED BY <1>3, <1>5, <1>6, <3>1, RewrittenTwice
  <2>2. ASSUME NEW i \in 1 .. Len(old)
        PROVE  code[i] = old[i]
    <3>1. i # p + 2 /\ i # p + 3
      <4>1. i \in 1 .. p
        OBVIOUS
      <4> QED BY <4>1
    <3> QED BY <2>1, <3>1 DEF Rewrites
  <2> QED BY <2>1, <2>2 DEF Rewrites
<1>11. Rewrites(old, new, {h}) /\ new \in Seq(Bytes)
  <2>1. new \in Seq(Bytes) /\ Rewrites(code, new, {h})
    BY <1>9 DEF IsPatched
  <2>2. Rewrites(old, new, {} \cup {h})
    BY <1>3, <1>5, <1>10, <2>1, RewrittenTwice
  <2>3. {} \cup {h} = {h}
    OBVIOUS
  <2> QED BY <2>1, <2>2, <2>3
<1>12. ByteAt(new, p) = OP_JMP /\ AddressAt(new, p) = start
  <2>1. \A s \in {p, p + 1, p + 2} : s \in Nat /\ s < p + 3 /\ s # h + 1 /\ s # h + 2
    BY <1>7
  <2>2. \A s \in {p, p + 1, p + 2} : ByteAt(new, s) = ByteAt(code, s)
    BY <1>7, <1>9, <2>1 DEF IsPatched
  <2>3. ByteAt(code, p) = OP_JMP
    <3>1. p < p + 3 /\ p # p + 1 /\ p # p + 2
      OBVIOUS
    <3>2. ByteAt(code, p) = ByteAt(jump, p)
      BY <1>7, <1>8, <3>1 DEF IsPatched
    <3> QED BY <1>6, <3>2
  <2>4. AddressAt(code, p) = start
    BY <1>7, <1>8 DEF IsPatched
  <2>5. AddressAt(new, p) = AddressAt(code, p)
    BY <2>2 DEF AddressAt
  <2> QED BY <2>2, <2>3, <2>4, <2>5
<1>13. NewCode(old, new, {h}, m, n)
  <2>1. OP_JMP \in Opcodes /\ InstrLen(OP_JMP) = 3
    BY <1>2, InstrLengths
  <2>2. Lengthens(old, new)
    BY <1>7, <1>12, <2>1 DEF Lengthens
  <2>3. Readable(new, p, m, n)
    BY <1>12 DEF Readable, OP_JMP, OP_CONST, OP_COMPARE, OP_GET_GLOBAL, OP_SET_GLOBAL
  <2> QED BY <1>11, <2>2, <2>3 DEF NewCode
<1>14. NewJumps(old, new, {h}, starts[co], <<>>)
  <2>1. p < Len(new)
    BY <1>7
  <2>2. IsLoopEnd(new, p)
    BY <1>4, <1>12 DEF IsLoopEnd
  <2>3. DOMAIN <<>> = {}
    BY Lists
  <2> QED BY <2>1, <2>2, <2>3 DEF NewJumps
<1> QED BY <1>1, <1>13, <1>14

\* while: the end of the body.
LEMMA WhileDoneLaid ==
  Ready /\ WhileDone => LaidOut' /\ HolesPatched
<1> SUFFICES ASSUME Ready, WhileDone
             PROVE  LaidOut' /\ HolesPatched
  OBVIOUS
<1> PICK jump : jump = CO.code \o <<OP_JMP, 0, 0>>
  OBVIOUS
<1> PICK code : code = patchJumpAddress(jump, getOffset(jump) - 2, Top.loopStartAddr)
  OBVIOUS
<1> PICK new : new = patchJumpAddress(code, Top.loopEndJmpAddr, getOffset(code) + 1)
  OBVIOUS
<1> PICK c : c = [CO EXCEPT !.code = new]
  OBVIOUS
<1>1. /\ work # <<>> /\ Top.kind = "loop" /\ co' = co /\ UpdateCO(c) /\ Continue(<<>>)
  BY DEF WhileDone, Doing, Same
<1>2. Top.kind # "enddef" /\ Top # EmitTask(<<OP_HALT>>)
  BY <1>1 DEF EmitTask
<1>3. c.code = new /\ CInv
  BY InCO DEF Ready
<1>4. Len(new) < SHORT
  <2>1. codeObjects'[co] = c /\ co \in DOMAIN codeObjects'
    BY <1>1, Objects DEF Ready, UpdateCO
  <2> QED BY <1>3, <2>1 DEF Ready, CodeFits
<1>5. PICK owner, starts : Layout(owner, starts)
  BY DEF Ready, LaidOut
<1> PICK tasks : tasks = <<>>
  OBVIOUS
<1>6. /\ NewCode(CO.code, new, TopHole, Len(c.constants), Len(globals'))
      /\ NewJumps(CO.code, new, TopHole, starts[co], tasks)
  BY <1>1, <1>3, <1>4, <1>5, JumpedBack
<1>7. IsVector(tasks) /\ DOMAIN tasks = {}
  BY Lists
<1>8. NewTasks(CO.code, new, starts[co], tasks)
  BY <1>7 DEF NewTasks
<1>9. /\ NewCode(CO.code, c.code, TopHole, Len(c.constants), Len(globals'))
      /\ NewJumps(CO.code, c.code, TopHole, starts[co], tasks)
      /\ NewTasks(CO.code, c.code, starts[co], tasks)
  BY <1>3, <1>6, <1>8
<1> QED BY <1>1, <1>2, <1>3, <1>5, <1>7, <1>9, GoesOn DEF Ready

-----------------------------------------------------------------------------
(***************************************************************************)
(* The steps that change the code object being filled.                     *)
(***************************************************************************)

\* One instruction more, which is no jump.
LEMMA InstructionAdded ==
  ASSUME NEW code \in Seq(Bytes), NEW S, NEW holes, NEW m \in Nat, NEW n \in Nat,
         CodeLaid(code, S, holes, m, n),
         NEW m2 \in Nat, NEW n2 \in Nat, m <= m2, n <= n2,
         NEW bytes, IsInstruction(bytes, m2, n2), bytes[1] \notin JumpOps,
         NEW new, new = code \o bytes, NEW T, T = S \cup {Len(new)}
  PROVE  /\ IsContinued(code, S, holes, new, T, m2, n2)
         /\ bytes[1] \in {OP_HALT, OP_RETURN} => Complete(new, T)
<1>1. Extends(code, new, bytes, m2, n2)
  BY OneMore
<1>2. /\ new \in Seq(Bytes) /\ Len(code) < Len(new)
      /\ ByteAt(new, Len(code)) = bytes[1]
      /\ Rewrites(code, new, {}) /\ Lengthens(code, new)
      /\ Readable(new, Len(code), m2, n2)
  BY <1>1 DEF Extends, NewCode
<1>3. CodeLaid(new, T, holes, m2, n2)
  <2> PICK H : H = {}
    OBVIOUS
  <2>1. /\ H \subseteq holes /\ Rewrites(code, new, H)
        /\ \A h \in holes : h \in holes /\ h \notin H
        /\ \A h \in H : Lands(new, T, h)
        /\ Lands(new, T, Len(code))
    BY <1>2 DEF Lands, IsJump
  <2> QED BY <1>2, <2>1, LaidOn
<1>4. ASSUME NEW t, Remembers(t, code, S)
      PROVE  Remembers(t, new, T)
  <2>1. Cut(code, S) /\ Len(code) <= Len(new)
    BY <1>2 DEF CodeLaid, Rewrites
  <2> QED BY <1>2, <1>4, <2>1, StillRemembers
<1>5. ASSUME bytes[1] \in {OP_HALT, OP_RETURN}
      PROVE  Complete(new, T)
  BY <1>2, <1>5, Completed
<1> QED BY <1>2, <1>3, <1>4, <1>5 DEF IsContinued

\* And another one.
LEMMA ContinuedTwice ==
  ASSUME NEW a \in Seq(Bytes), NEW S, NEW holes, NEW b, NEW T, NEW m, NEW n,
         IsContinued(a, S, holes, b, T, m, n),
         NEW c, NEW U, IsContinued(b, T, holes, c, U, m, n)
  PROVE  IsContinued(a, S, holes, c, U, m, n)
<1>1. b \in Seq(Bytes) /\ c \in Seq(Bytes) /\ Rewrites(a, b, {}) /\ Rewrites(b, c, {})
  BY DEF IsContinued
<1>2. Rewrites(a, c, {} \cup {})
  BY <1>1, RewrittenTwice
<1>3. {} \cup {} = {}
  OBVIOUS
<1>4. Rewrites(a, c, {})
  BY <1>2, <1>3
<1> QED BY <1>1, <1>4 DEF IsContinued

\* No byte of a code object changes when its code only becomes longer.
LEMMA NothingPatched ==
  ASSUME \A f \in DOMAIN codeObjects :
           Rewrites(codeObjects[f].code, codeObjects'[f].code, {}),
         \A f \in DOMAIN codeObjects :
           codeObjects[f].code \in Seq(Bytes) /\ codeObjects'[f].code \in Seq(Bytes)
  PROVE  HolesPatched
<1> SUFFICES ASSUME NEW f \in DOMAIN codeObjects
             PROVE  /\ Len(codeObjects'[f].code) >= Len(codeObjects[f].code)
                    /\ \A i \in DOMAIN codeObjects[f].code :
                         codeObjects'[f].code[i] = codeObjects[f].code[i]
  BY DEF HolesPatched
<1> PICK old, new : old = codeObjects[f].code /\ new = codeObjects'[f].code
  OBVIOUS
<1>1. old \in Seq(Bytes) /\ new \in Seq(Bytes) /\ Rewrites(old, new, {})
  OBVIOUS
<1>2. Len(new) >= Len(old) /\ \A i \in DOMAIN old : new[i] = old[i]
  BY <1>1 DEF Rewrites
<1> QED BY <1>2

\* No table becomes smaller.
LEMMA TablesKept ==
  ASSUME CInv', Kept, NEW f \in DOMAIN codeObjects, f \in DOMAIN codeObjects'
  PROVE  TablesGrow(f)
<1>1. IsVector(globals') /\ IsVector(codeObjects'[f].constants)
  BY DEF CInv, CodeObjectsOK, IsCodeObject
<1> QED BY <1>1 DEF TablesGrow, Kept, Grown, IsExtension

\* Below an activation that is no emit task there is another one.
LEMMA NotTheLast ==
  ASSUME CInv, HaltBelow, work # <<>>, Top.kind # "emit"
  PROVE  Len(work) \in Nat /\ Len(work) > 1 /\ Len(work) - 1 \in 1 .. Len(work) - 1
<1>1. Len(work) \in Nat /\ Len(work) # 0 /\ AtHeight(Len(work)) = Top
  <2>1. IsVector(work)
    BY Objects
  <2>2. Len(work) \in Nat /\ Len(work) # 0
    BY <2>1, VectorDomain DEF IsVector
  <2>3. Len(work) + 1 - Len(work) = 1 /\ Head(work) = work[1]
    BY <2>1, <2>2 DEF IsVector
  <2> QED BY <2>2, <2>3 DEF AtHeight, Top
<1>2. Len(work) # 1
  <2> SUFFICES ASSUME Len(work) = 1
               PROVE  FALSE
    OBVIOUS
  <2>1. AtHeight(1) = Top
    BY <1>1 DEF AtHeight
  <2>2. AtHeight(1).kind = "emit"
    BY DEF HaltBelow, EmitTask
  <2> QED BY <2>1, <2>2
<1> PICK n : n = Len(work)
  OBVIOUS
<1>3. n \in Nat /\ n # 0 /\ n # 1
  BY <1>1, <1>2
<1>4. n > 1 /\ n - 1 \in 1 .. n - 1
  BY <1>3
<1> QED BY <1>3, <1>4

\* The code object of a new function.
LEMMA EmptyCode ==
  ASSUME NEW m, NEW n, NEW S, S = {0}
  PROVE  CodeLaid(<<>>, S, {}, m, n)
<1> PICK code : code = <<>>
  OBVIOUS
<1>1. Len(code) = 0 /\ S \ {Len(code)} = {}
  OBVIOUS
<1>2. Cut(code, S)
  BY <1>1 DEF Cut
<1>3. CodeLaid(code, S, {}, m, n)
  BY <1>1, <1>2 DEF CodeLaid
<1> QED BY <1>3

\* def: the new code object is the one being filled, what is left of the
\* activation will give the other one back.
LEMMA GenDefLaid ==
  Ready /\ GenDef => LaidOut' /\ HolesPatched
<1> SUFFICES ASSUME Ready, GenDef
             PROVE  LaidOut' /\ HolesPatched
  OBVIOUS
<1>1. CASE Stop("undefined")
  BY <1>1, StopRests
<1>2. CASE ~ Stop("undefined")
  <2> PICK new : new = Len(codeObjects) + 1
    OBVIOUS
  <2> PICK c : c = addConst(CO, CODE(new))
    OBVIOUS
  <2> PICK fn : fn = [CodeObject(VarName(Top.exp), Arity(Top.exp))
                        EXCEPT !.locals = FunctionLocals(Top.exp)]
    OBVIOUS
  <2> PICK body : body = Gen(At(Top.exp, 3))
    OBVIOUS
  <2> PICK rest : rest = [kind |-> "enddef", exp |-> Top.exp, prevCo |-> co]
    OBVIOUS
  <2> PICK tasks : tasks = <<body, rest>>
    OBVIOUS
  <2>1. /\ codeObjects' = [codeObjects EXCEPT ![co] = c] \o <<fn>>
        /\ co' = new /\ Continue(tasks) /\ work # <<>> /\ Top.kind = "gen"
    BY <1>2 DEF GenDef, GenForm, GenList, Doing, CO
  <2>2. body.kind = "gen" /\ rest.kind = "enddef" /\ rest.prevCo = co
    BY DEF Gen
  <2>3. fn.code = <<>> /\ c.code = CO.code
    <3>1. fn.code = <<>>
      BY DEF CodeObject
    <3>2. c.code = CO.code
      BY InCO, Objects DEF addConst, Ready
    <3> QED BY <3>1, <3>2
  <2>4. /\ DOMAIN codeObjects = 1 .. Len(codeObjects) /\ Len(codeObjects) \in Nat
        /\ \A f \in DOMAIN codeObjects :
             codeObjects'[f] = IF f = co THEN c ELSE codeObjects[f]
        /\ codeObjects'[new] = fn
        /\ DOMAIN codeObjects' = 1 .. new
        /\ co \in DOMAIN codeObjects
    BY <2>1, Objects, FunctionAdded DEF Ready
  <2>5. /\ DOMAIN codeObjects \subseteq DOMAIN codeObjects'
        /\ new \in DOMAIN codeObjects' /\ new \notin DOMAIN codeObjects
        /\ \A f \in DOMAIN codeObjects' : f = new \/ f \in DOMAIN codeObjects
    BY <2>4
  <2>6. \A f \in DOMAIN codeObjects : codeObjects'[f].code = codeObjects[f].code
    BY <2>3, <2>4 DEF CO
  <2>7. PICK owner, starts : Layout(owner, starts)
    BY DEF Ready, LaidOut
  <2>8. /\ Owned(owner) /\ HaltBelow
        /\ \A d \in 1 .. Len(work) : owner[d] \in DOMAIN codeObjects
        /\ \A f \in DOMAIN codeObjects : Laid(owner, starts, f)
    BY <2>7 DEF Layout
  <2> PICK n : n = Len(work)
    OBVIOUS
  <2>9. n \in Nat /\ n > 1 /\ n - 1 \in 1 .. n - 1
    BY <2>1, <2>8, NotTheLast DEF Ready
  <2>10. owner[n - 1] = co
    <3>1. n \in 1 .. n
      BY <2>9
    <3>2. IsVector(work) /\ AtHeight(n) = Top
      BY <2>1, <2>9, Objects, Heights DEF Continue, Ready, AtHeight, Top, IsVector
    <3> QED BY <2>1, <2>8, <3>1, <3>2 DEF Owned
  <2>11. IsVector(tasks) /\ DOMAIN tasks = {1, 2} /\ Len(tasks) = 2
         /\ tasks[1] = body /\ tasks[2] = rest
    BY Lists
  <2>12. PICK owner2 : Moved(owner, owner2, tasks)
    <3>1. \A i \in DOMAIN tasks :
            tasks[i].kind = "enddef" =>
              i = Len(tasks) /\ tasks[i].prevCo = owner[Len(work) - 1]
      BY <2>2, <2>10, <2>11
    <3>2. tasks = <<>> \/ tasks[Len(tasks)].kind # "enddef" => co' = owner[Len(work) - 1]
      BY <2>2, <2>11
    <3>3. IsVector(work)
      BY Objects DEF Ready
    <3> QED BY <2>1, <2>8, <2>11, <3>1, <3>2, <3>3, Moving DEF Continue
  <2> PICK starts2 : starts2 = [f \in DOMAIN codeObjects' |->
                                  IF f = new THEN {0} ELSE starts[f]]
    OBVIOUS
  <2>13. starts2[new] = {0} /\ \A f \in DOMAIN codeObjects : starts2[f] = starts[f]
    BY <2>5
  <2>14. ASSUME NEW d \in 1 .. Len(work')
         PROVE  /\ d >= n => owner2[d] = new
                /\ ~ (d >= n) => /\ d \in 1 .. n - 1 /\ d \in 1 .. n
                                 /\ owner2[d] = owner[d] /\ AtHeight(d)' = AtHeight(d)
    <3>1. CASE d >= n
      BY <2>1, <2>9, <2>12, <3>1 DEF Moved
    <3>2. CASE ~ (d >= n)
      <4>1. d \in 1 .. n - 1 /\ d \in 1 .. n
        BY <2>9, <2>12, <3>2 DEF Moved
      <4> QED BY <2>12, <3>2, <4>1 DEF Moved
    <3> QED BY <3>1, <3>2
  <2>15. ASSUME NEW f \in DOMAIN codeObjects
         PROVE  Laid(owner2, starts2, f)'
    <3>1. \A d \in Waiting(owner2, f)' :
            d \in Waiting(owner, f) /\ AtHeight(d)' = AtHeight(d)
      BY <2>5, <2>14 DEF Waiting
    <3>2. ASSUME Waiting(owner2, f)' = {}, NEW d \in Waiting(owner, f)
          PROVE  FALSE
      <4>1. d \in 1 .. n /\ owner[d] = f
        BY DEF Waiting
      <4>2. CASE d = n
        <5>1. owner[n - 1] = f /\ n - 1 \in 1 .. n - 1
          BY <2>8, <2>9, <2>10, <4>1, <4>2 DEF Owned
        <5>2. n - 1 \in Waiting(owner2, f)'
          BY <2>12, <5>1 DEF Moved, Waiting
        <5> QED BY <3>2, <5>2
      <4>3. CASE d # n
        <5>1. d \in 1 .. n - 1
          BY <2>9, <4>1, <4>3
        <5>2. d \in Waiting(owner2, f)'
          BY <2>12, <4>1, <5>1 DEF Moved, Waiting
        <5> QED BY <3>2, <5>2
      <4> QED BY <4>2, <4>3
    <3>3. TablesGrow(f)
      BY <2>5, TablesKept DEF Ready
    <3>4. /\ Waiting(owner2, f)' \subseteq Waiting(owner, f)
          /\ Waiting(owner2, f)' = {} => Waiting(owner, f) = {}
          /\ \A d \in Waiting(owner2, f)' : AtHeight(d)' = AtHeight(d)
      BY <3>1, <3>2
    <3>5. /\ Laid(owner, starts, f) /\ CInv
          /\ codeObjects'[f].code = codeObjects[f].code
          /\ starts2[f] = starts[f]
      BY <2>6, <2>8, <2>13 DEF Ready
    <3> QED BY <3>3, <3>4, <3>5, Untouched
  <2>16. Laid(owner2, starts2, new)'
    <3>1. \A d \in Waiting(owner2, new)' : AtHeight(d)' \in {body, rest}
      <4> SUFFICES ASSUME NEW d \in Waiting(owner2, new)'
                   PROVE  AtHeight(d)' \in {body, rest}
        OBVIOUS
      <4>1. d \in 1 .. Len(work') /\ owner2[d] = new
        BY DEF Waiting
      <4>2. d >= n
        BY <2>5, <2>8, <2>14, <4>1
      <4>3. Len(work') + 1 - d \in DOMAIN tasks /\ AtHeight(d)' = tasks[Len(work') + 1 - d]
        BY <2>12, <4>1, <4>2 DEF Moved
      <4> QED BY <2>11, <4>3
    <3>2. /\ ~ Opens(body) /\ ~ Opens(rest)
          /\ \A code, S : Remembers(body, code, S) /\ Remembers(rest, code, S)
      BY <2>2 DEF Opens, Remembers
    <3>3. Holes(owner2, new)' = {}
      BY <3>1, <3>2 DEF Holes, Opens
    <3>4. n + 1 \in 1 .. Len(work') /\ n + 1 >= n
      <4>1. Len(work') = n - 1 + 2
        BY <2>11, <2>12 DEF Moved
      <4> QED BY <2>9, <4>1
    <3>5. Waiting(owner2, new)' # {}
      BY <2>14, <3>4 DEF Waiting
    <3>6. CodeLaid(codeObjects[new].code, starts2[new], Holes(owner2, new),
                   Len(codeObjects[new].constants), Len(globals))'
      <4> PICK m2, n2 : m2 = Len(codeObjects'[new].constants) /\ n2 = Len(globals')
        OBVIOUS
      <4>1. CodeLaid(<<>>, starts2[new], {}, m2, n2)
        BY <2>13, EmptyCode
      <4>2. codeObjects'[new].code = <<>>
        BY <2>3, <2>4
      <4> QED BY <3>3, <4>1, <4>2
    <3>7. \A d \in Waiting(owner2, new)' :
            /\ ~ Opens(AtHeight(d)')
            /\ Remembers(AtHeight(d)', codeObjects'[new].code, starts2[new])
      BY <3>1, <3>2
    <3> QED BY <3>5, <3>6, <3>7 DEF Laid, Opens
  <2>17. \A f \in DOMAIN codeObjects' : Laid(owner2, starts2, f)'
    BY <2>5, <2>15, <2>16
  <2>18. \A d \in 1 .. Len(work') : owner2[d] \in DOMAIN codeObjects'
    BY <2>5, <2>8, <2>14
  <2>19. HaltBelow'
    <3>1. 1 \in 1 .. n - 1
      BY <2>9
    <3>2. AtHeight(1)' = AtHeight(1)
      BY <2>12, <3>1 DEF Moved
    <3> QED BY <2>1, <2>8, <3>2 DEF HaltBelow
  <2>20. Layout(owner2, starts2)'
    BY <2>12, <2>17, <2>18, <2>19 DEF Layout, Moved
  <2>21. HolesPatched
    <3>1. ASSUME NEW f \in DOMAIN codeObjects
          PROVE  /\ codeObjects[f].code \in Seq(Bytes)
                 /\ codeObjects'[f].code = codeObjects[f].code
                 /\ Rewrites(codeObjects[f].code, codeObjects[f].code, {})
      <4>1. codeObjects[f].code \in Seq(Bytes)
        BY Objects DEF Ready
      <4> QED BY <2>6, <4>1 DEF Rewrites
    <3> QED BY <3>1, NothingPatched
  <2> QED BY <2>20, <2>21 DEF LaidOut
<1> QED BY <1>1, <1>2

\* The end of a def: what its own code object gets.
LEMMA EpilogueAdded ==
  ASSUME NEW code \in Seq(Bytes), NEW S, NEW holes, NEW m \in Nat, NEW n \in Nat,
         CodeLaid(code, S, holes, m, n), NEW n2 \in Nat, n <= n2,
         NEW exp \in MaybeExpressions, NEW new, new = code \o Epilogue(exp)
  PROVE  \E T : IsContinued(code, S, holes, new, T, m, n2) /\ Complete(new, T)
<1> PICK ret : ret = <<OP_RETURN>>
  OBVIOUS
<1> PICK drop : drop = <<OP_SCOPE_EXIT, Byte(Arity(exp) + 1)>>
  OBVIOUS
<1>1. /\ IsInstruction(ret, m, n2) /\ ret[1] \in {OP_HALT, OP_RETURN}
      /\ ret[1] \notin JumpOps /\ ret \in Seq(Bytes)
  <2>1. OP_RETURN \in Opcodes /\ InstrLen(OP_RETURN) = 1
    BY DEF InstrLen, SimpleOps, MathOps, Opcodes, JumpOps, OP_HALT, OP_ADD, OP_SUB, OP_MUL,
       OP_DIV, OP_POP, OP_RETURN
  <2>2. IsInstruction(ret, m, n2) /\ ret[1] = OP_RETURN
    BY <2>1, OneByte
  <2> QED BY <2>2, InstrLengths DEF IsInstruction
<1>2. IsInstruction(drop, m, n2) /\ drop[1] \notin JumpOps /\ drop \in Seq(Bytes)
  <2>1. Byte(Arity(exp) + 1) \in Bytes
    <3>1. Arity(exp) + 1 \in Int
      BY ArityIsNatural
    <3> QED BY <3>1, BytesOfNumbers
  <2>2. OP_SCOPE_EXIT \in Opcodes /\ InstrLen(OP_SCOPE_EXIT) = 2 /\ OP_SCOPE_EXIT \notin JumpOps
    BY WithOperand
  <2>3. OP_SCOPE_EXIT \notin {OP_CONST, OP_COMPARE, OP_GET_GLOBAL, OP_SET_GLOBAL}
    BY DEF OP_SCOPE_EXIT, OP_CONST, OP_COMPARE, OP_GET_GLOBAL, OP_SET_GLOBAL
  <2>4. IsInstruction(drop, m, n2) /\ drop[1] = OP_SCOPE_EXIT
    BY <2>1, <2>2, <2>3, TwoBytes
  <2> QED BY <2>2, <2>4 DEF IsInstruction
<1>3. CASE IsBlock(At(exp, 3))
  <2>1. new = code \o ret
    <3>1. Epilogue(exp) = <<>> \o ret
      BY <1>3 DEF Epilogue
    <3>2. <<>> \o ret = ret
      BY <1>1, ConcatEmptySeq
    <3> QED BY <3>1, <3>2
  <2> PICK T : T = S \cup {Len(new)}
    OBVIOUS
  <2>2. m <= m
    OBVIOUS
  <2>3. IsContinued(code, S, holes, new, T, m, n2) /\ Complete(new, T)
    BY <1>1, <2>1, <2>2, InstructionAdded
  <2> QED BY <2>3
<1>4. CASE ~ IsBlock(At(exp, 3))
  <2> PICK mid : mid = code \o drop
    OBVIOUS
  <2>1. new = mid \o ret
    <3>1. Epilogue(exp) = drop \o ret
      BY <1>4 DEF Epilogue
    <3>2. code \o (drop \o ret) = (code \o drop) \o ret
      BY <1>1, <1>2, ConcatAssociative
    <3> QED BY <3>1, <3>2
  <2> PICK T : T = S \cup {Len(mid)}
    OBVIOUS
  <2> PICK U : U = T \cup {Len(new)}
    OBVIOUS
  <2>2. m <= m /\ n2 <= n2
    OBVIOUS
  <2>3. IsContinued(code, S, holes, mid, T, m, n2)
    BY <1>2, <2>2, InstructionAdded
  <2>4. mid \in Seq(Bytes) /\ CodeLaid(mid, T, holes, m, n2)
    BY <2>3 DEF IsContinued
  <2>5. IsContinued(mid, T, holes, new, U, m, n2) /\ Complete(new, U)
    BY ONLY <1>1, <2>1, <2>2, <2>4, m \in Nat, n2 \in Nat, U = T \cup {Len(new)}, InstructionAdded
  <2>6. IsContinued(code, S, holes, new, U, m, n2)
    BY <2>3, <2>5, ContinuedTwice
  <2> QED BY <2>5, <2>6
<1> QED BY <1>3, <1>4

\* The end of a def: what the enclosing code object gets, the function and its
\* store.
LEMMA FunctionStored ==
  ASSUME NEW f, NEW old, Held(f, old), NEW name, IsVector(globals), NEW n \in Nat,
         NEW S, NEW holes, CodeLaid(old.code, S, holes, Len(old.constants), n),
         NEW fn, NEW withFn, withFn = addConst(old, fn),
         NEW withRef,
         withRef = Emitted(withFn, <<OP_CONST, Byte(Len(withFn.constants) - 1)>>),
         Len(DefinedIn(withRef, name)) \in Nat, n <= Len(DefinedIn(withRef, name)),
         NEW outer, outer = Stored(withRef, name)
  PROVE  \E T : IsContinued(old.code, S, holes, outer.code, T,
                            Len(outer.constants), Len(DefinedIn(withRef, name)))
<1> PICK n2 : n2 = Len(DefinedIn(withRef, name))
  OBVIOUS
<1>1. /\ Held(f, withFn) /\ withFn.constants = Append(old.constants, fn)
      /\ withFn.code = old.code /\ old.code \in Seq(Bytes)
      /\ IsVector(old.constants)
  <2>1. Held(f, withFn) /\ withFn.constants = Append(old.constants, fn)
    BY Pooled DEF Continues
  <2>2. old = [name |-> old.name, arity |-> old.arity, constants |-> old.constants,
               code |-> old.code, scopeLevel |-> old.scopeLevel, locals |-> old.locals]
        /\ old.code \in Seq(Bytes) /\ IsVector(old.constants)
    BY DEF Held, IsCodeObject
  <2>3. withFn.code = old.code
    BY <2>2 DEF addConst
  <2> QED BY <2>1, <2>2, <2>3
<1> PICK k : k = Len(old.constants)
  OBVIOUS
<1>2. k \in Nat /\ Len(withFn.constants) = k + 1
  BY <1>1, VectorDomain, VectorAppend
<1> PICK bytes : bytes = <<OP_CONST, Byte(k)>>
  OBVIOUS
<1>3. withRef = Emitted(withFn, bytes)
  <2>1. k + 1 - 1 = k
    BY <1>2
  <2>2. Len(withFn.constants) - 1 = k
    BY <1>2, <2>1
  <2> QED BY <2>2
<1>4. /\ IsInstruction(bytes, k + 1, n2) /\ bytes[1] = OP_CONST
      /\ OP_CONST \notin JumpOps
  <2>1. Byte(k) \in Bytes /\ Byte(k) < k + 1
    <3>1. Byte(k) \in Nat /\ Byte(k) <= k /\ Byte(k) \in Bytes
      BY <1>2, BytesAreSmall
    <3> QED BY <1>2, <3>1
  <2>2. OP_CONST \in Opcodes /\ InstrLen(OP_CONST) = 2 /\ OP_CONST \notin JumpOps
    BY WithOperand
  <2>3. OP_CONST # OP_COMPARE /\ OP_CONST \notin {OP_GET_GLOBAL, OP_SET_GLOBAL}
    BY DEF OP_CONST, OP_COMPARE, OP_GET_GLOBAL, OP_SET_GLOBAL
  <2>4. IsInstruction(bytes, k + 1, n2) /\ bytes[1] = OP_CONST
    BY <2>1, <2>2, <2>3, TwoBytes
  <2> QED BY <2>2, <2>4
<1>5. /\ Held(f, withRef) /\ withRef.constants = withFn.constants
      /\ withRef.code = old.code \o bytes
  <2>1. bytes \in Seq(Bytes)
    BY <1>4 DEF IsInstruction
  <2>2. Held(f, withRef) /\ withRef.constants = withFn.constants
    BY <1>1, <1>3, <2>1, Emission DEF Continues
  <2>3. withFn = [name |-> withFn.name, arity |-> withFn.arity,
                  constants |-> withFn.constants, code |-> withFn.code,
                  scopeLevel |-> withFn.scopeLevel, locals |-> withFn.locals]
    BY <1>1 DEF Held, IsCodeObject
  <2>4. withRef.code = withFn.code \o bytes
    BY <1>3, <2>3 DEF Emitted
  <2> QED BY <1>1, <2>2, <2>4
<1>6. PICK store : /\ IsInstruction(store, k + 1, Len(DefinedIn(withRef, name)))
                   /\ store[1] \notin JumpOps
                   /\ Stored(withRef, name).code = withRef.code \o store
                   /\ Stored(withRef, name).constants = withRef.constants
  BY <1>5, StoredCode, Zenon
<1>7. /\ outer.code = withRef.code \o store /\ Len(outer.constants) = k + 1
      /\ IsInstruction(store, k + 1, n2)
  BY <1>2, <1>5, <1>6
<1> PICK T : T = S \cup {Len(withRef.code)}
  OBVIOUS
<1> PICK U : U = T \cup {Len(outer.code)}
  OBVIOUS
<1>8. k <= k + 1 /\ k + 1 \in Nat /\ k + 1 <= k + 1 /\ n2 \in Nat /\ n <= n2 /\ n2 <= n2
  BY <1>2
<1>9. IsContinued(old.code, S, holes, withRef.code, T, k + 1, n2)
  <2>1. CodeLaid(old.code, S, holes, k, n) /\ bytes[1] \notin JumpOps
    BY <1>4
  <2>2. /\ old.code \in Seq(Bytes) /\ k \in Nat /\ n \in Nat
        /\ T = S \cup {Len(withRef.code)}
    BY <1>1, <1>2
  <2>3. CodeLaid(old.code, S, holes, k, n)
    BY <2>1
  <2> QED BY ONLY <1>4, <1>5, <1>8, <2>1, <2>2, <2>3, InstructionAdded
<1>10. withRef.code \in Seq(Bytes) /\ CodeLaid(withRef.code, T, holes, k + 1, n2)
  BY <1>9 DEF IsContinued
<1>11. IsContinued(withRef.code, T, holes, outer.code, U, k + 1, n2)
  <2>1. store[1] \notin JumpOps /\ U = T \cup {Len(outer.code)}
    BY <1>6
  <2> QED BY ONLY <1>7, <1>8, <1>10, <2>1, InstructionAdded
<1>12. IsContinued(old.code, S, holes, outer.code, U, k + 1, n2)
  BY <1>1, <1>9, <1>11, ContinuedTwice
<1> QED BY <1>7, <1>12

\* The end of a def.
LEMMA DefDoneLaid ==
  Ready /\ DefDone => LaidOut' /\ HolesPatched
<1> SUFFICES ASSUME Ready, DefDone
             PROVE  LaidOut' /\ HolesPatched
  OBVIOUS
<1>1. work # <<>> /\ Top.kind = "enddef" /\ CInv /\ CInv' /\ Kept
  BY DEF DefDone, Doing, Ready
<1> PICK name : name = VarName(Top.exp)
  OBVIOUS
<1> PICK prev : prev = Top.prevCo
  OBVIOUS
<1> PICK old : old = codeObjects[prev]
  OBVIOUS
<1> PICK withFn : withFn = addConst(old, FUNCTION(co))
  OBVIOUS
<1> PICK withRef : withRef = Emitted(withFn, <<OP_CONST, Byte(Len(withFn.constants) - 1)>>)
  OBVIOUS
<1> PICK inner : inner = Emitted(CO, Epilogue(Top.exp))
  OBVIOUS
<1> PICK outer : outer = Stored(withRef, name)
  OBVIOUS
<1>2. /\ codeObjects' = [codeObjects EXCEPT ![co] = inner, ![prev] = outer]
      /\ globals' = DefinedIn(withRef, name)
      /\ co' = prev
      /\ Continue(<<>>)
  BY DEF DefDone, CO
<1>3. /\ IsVector(codeObjects) /\ co \in DOMAIN codeObjects /\ IsVector(globals)
      /\ Len(globals) \in Nat /\ IsVector(work)
      /\ \A f \in DOMAIN codeObjects : Held(f, codeObjects[f])
  BY <1>1, Objects, Holding DEF CInv
<1>4. prev \in DOMAIN codeObjects /\ prev # co
  BY <1>1, <1>3, VectorDomain, Suspended
<1>5. /\ DOMAIN codeObjects' = DOMAIN codeObjects
      /\ codeObjects'[prev] = outer /\ codeObjects'[co] = inner
      /\ \A f \in DOMAIN codeObjects :
           f # prev /\ f # co => codeObjects'[f] = codeObjects[f]
  BY <1>2, <1>3, <1>4, TwoReplaced
<1>6. PICK owner, starts : Layout(owner, starts)
  BY DEF Ready, LaidOut
<1>7. /\ Owned(owner) /\ HaltBelow
      /\ \A d \in 1 .. Len(work) : owner[d] \in DOMAIN codeObjects
      /\ \A f \in DOMAIN codeObjects : Laid(owner, starts, f)
  BY <1>6 DEF Layout
<1> PICK n : n = Len(work)
  OBVIOUS
<1>8. n \in Nat /\ n > 1 /\ n - 1 \in 1 .. n - 1
  BY <1>1, <1>7, NotTheLast
<1> PICK tasks : tasks = <<>>
  OBVIOUS
<1>9. IsVector(tasks) /\ DOMAIN tasks = {} /\ Len(tasks) = 0
  BY Lists
<1>10. owner[n - 1] = prev
  <2>1. n \in 1 .. n
    BY <1>8
  <2>2. AtHeight(n) = Top
    BY <1>1, <1>2, <1>3, <1>9, Heights DEF Continue
  <2> QED BY <1>1, <1>7, <2>1, <2>2 DEF Owned
<1>11. PICK owner2 : Moved(owner, owner2, tasks)
  <2>1. \A i \in DOMAIN tasks :
          tasks[i].kind = "enddef" =>
            i = Len(tasks) /\ tasks[i].prevCo = owner[Len(work) - 1]
    BY <1>9
  <2>2. tasks = <<>> \/ tasks[Len(tasks)].kind # "enddef" => co' = owner[Len(work) - 1]
    BY <1>2, <1>10
  <2>3. work' = tasks \o Tail(work)
    BY <1>2 DEF Continue
  <2> QED BY <1>1, <1>3, <1>7, <1>9, <2>1, <2>2, <2>3, Moving
<1>12. Len(work') = n - 1 /\ 1 .. n - 1 \subseteq 1 .. n /\ n \notin 1 .. n - 1
  <2>1. Len(work') = n - 1 + 0
    BY <1>9, <1>11 DEF Moved
  <2> QED BY <1>8, <2>1
<1>13. \A d \in 1 .. Len(work') : /\ d \in 1 .. n /\ d # n
                                  /\ owner2[d] = owner[d] /\ AtHeight(d)' = AtHeight(d)
  BY <1>11, <1>12 DEF Moved
<1>14. \A f : /\ Waiting(owner2, f)' \subseteq Waiting(owner, f)
              /\ \A d \in Waiting(owner2, f)' : AtHeight(d)' = AtHeight(d)
  BY <1>13 DEF Waiting
<1>15. PICK T : IsContinued(old.code, starts[prev], Holes(owner, prev), outer.code, T,
                            Len(outer.constants), Len(globals'))
  <2>1. Held(prev, old)
    BY <1>3, <1>4
  <2>2. CodeLaid(old.code, starts[prev], Holes(owner, prev), Len(old.constants), Len(globals))
    BY <1>4, <1>7 DEF Laid
  <2>3. Len(globals') \in Nat /\ Len(globals) <= Len(globals')
    <3>1. TablesGrow(prev)
      BY <1>1, <1>4, <1>5, TablesKept
    <3> QED BY <3>1, VectorDomain DEF TablesGrow
  <2>4. globals' = DefinedIn(withRef, name)
    BY <1>2
  <2> PICK table : table = DefinedIn(withRef, name)
    OBVIOUS
  <2>5. Len(table) \in Nat /\ Len(globals) <= Len(table)
    BY <2>3, <2>4
  <2>6. \E T : IsContinued(old.code, starts[prev], Holes(owner, prev), outer.code, T,
                           Len(outer.constants), Len(DefinedIn(withRef, name)))
    BY <1>3, <2>1, <2>2, <2>5, FunctionStored
  <2> QED BY <2>4, <2>6
<1>16. PICK U : /\ IsContinued(CO.code, starts[co], Holes(owner, co), inner.code, U,
                               Len(inner.constants), Len(globals'))
                /\ Complete(inner.code, U)
  <2>1. CodeLaid(CO.code, starts[co], Holes(owner, co), Len(CO.constants), Len(globals))
    BY <1>1, <1>6, InLayout
  <2>2. /\ CO.code \in Seq(Bytes) /\ Len(CO.constants) \in Nat
        /\ inner.constants = CO.constants /\ inner.code = CO.code \o Epilogue(Top.exp)
    <3>1. CO.code \in Seq(Bytes) /\ Len(CO.constants) \in Nat
      BY <1>1, Objects DEF CO
    <3> QED BY <1>1, <3>1, InCO
  <2>3. Len(globals') \in Nat /\ Len(globals) <= Len(globals')
    <3>1. TablesGrow(prev)
      BY <1>1, <1>4, <1>5, TablesKept
    <3> QED BY <3>1, VectorDomain DEF TablesGrow
  <2>4. Top.exp \in MaybeExpressions
    BY <1>1, TopIsTask
  <2>5. \E V : /\ IsContinued(CO.code, starts[co], Holes(owner, co), inner.code, V,
                              Len(CO.constants), Len(globals'))
               /\ Complete(inner.code, V)
    BY <1>3, <2>1, <2>2, <2>3, <2>4, EpilogueAdded
  <2> QED BY <2>2, <2>5
<1> PICK starts2 : starts2 = [f \in DOMAIN codeObjects |->
                                IF f = co THEN U ELSE IF f = prev THEN T ELSE starts[f]]
  OBVIOUS
<1> PICK own : own = co
  OBVIOUS
<1>17. /\ starts2[own] = U /\ starts2[prev] = T
       /\ \A f \in DOMAIN codeObjects : f # prev /\ f # co => starts2[f] = starts[f]
  BY <1>3, <1>4
<1>18. Laid(owner2, starts2, own)'
  <2>1. IsContinued(codeObjects[own].code, starts[own], Holes(owner, own),
                    codeObjects'[own].code, U, Len(codeObjects'[own].constants), Len(globals'))
    BY <1>5, <1>16 DEF CO
  <2>2. Laid(owner, starts, own) /\ Complete(codeObjects'[own].code, U)
        /\ own \in DOMAIN codeObjects
    BY <1>3, <1>5, <1>7, <1>16
  <2> QED BY <1>1, <1>14, <1>17, <2>1, <2>2, Continued
<1>19. Laid(owner2, starts2, prev)'
  <2>1. IsContinued(codeObjects[prev].code, starts[prev], Holes(owner, prev),
                    codeObjects'[prev].code, T, Len(codeObjects'[prev].constants), Len(globals'))
    BY <1>5, <1>15
  <2>2. Laid(owner, starts, prev)
    BY <1>4, <1>7
  <2>3. Waiting(owner2, prev)' # {}
    <3>1. n - 1 \in 1 .. Len(work') /\ owner2[n - 1] = prev
      BY <1>8, <1>10, <1>12, <1>13
    <3> QED BY <3>1 DEF Waiting
  <2> QED BY <1>1, <1>4, <1>14, <1>17, <2>1, <2>2, <2>3, Continued
<1>20. ASSUME NEW f \in DOMAIN codeObjects, f # prev, f # co
       PROVE  Laid(owner2, starts2, f)'
  <2>1. TablesGrow(f)
    BY <1>1, <1>5, TablesKept
  <2>2. ASSUME NEW d \in Waiting(owner, f)
        PROVE  d \in Waiting(owner2, f)'
    <3>1. d \in 1 .. n /\ owner[d] = f /\ owner[n] = co
      BY <1>7 DEF Waiting, Owned
    <3>2. d # n
      BY <1>20, <3>1
    <3>3. d \in 1 .. n - 1
      BY <1>8, <3>1, <3>2
    <3> QED BY <1>12, <1>13, <3>1, <3>3 DEF Waiting
  <2>3. /\ codeObjects'[f].code = codeObjects[f].code
        /\ starts2[f] = starts[f] /\ Laid(owner, starts, f)
        /\ Waiting(owner2, f)' = {} => Waiting(owner, f) = {}
    BY <1>5, <1>7, <1>17, <1>20, <2>2
  <2> QED BY <1>1, <1>14, <2>1, <2>3, Untouched
<1>21. \A f \in DOMAIN codeObjects' : Laid(owner2, starts2, f)'
  <2> SUFFICES ASSUME NEW f \in DOMAIN codeObjects
               PROVE  Laid(owner2, starts2, f)'
    BY <1>5
  <2>1. CASE f = own
    BY <1>18, <2>1
  <2>2. CASE f = prev
    BY <1>19, <2>2
  <2>3. CASE f # own /\ f # prev
    BY <1>20, <2>3
  <2> QED BY <2>1, <2>2, <2>3
<1>22. \A d \in 1 .. Len(work') : owner2[d] \in DOMAIN codeObjects'
  BY <1>5, <1>7, <1>13
<1>23. HaltBelow'
  <2>1. 1 \in 1 .. n - 1
    BY <1>8
  <2>2. AtHeight(1)' = AtHeight(1)
    BY <1>11, <2>1 DEF Moved
  <2> QED BY <1>1, <1>7, <2>2 DEF HaltBelow
<1>24. Layout(owner2, starts2)'
  BY <1>11, <1>21, <1>22, <1>23 DEF Layout, Moved
<1>25. HolesPatched
  <2>1. ASSUME NEW f \in DOMAIN codeObjects
        PROVE  /\ codeObjects[f].code \in Seq(Bytes)
               /\ codeObjects'[f].code \in Seq(Bytes)
               /\ Rewrites(codeObjects[f].code, codeObjects'[f].code, {})
    <3>1. codeObjects[f].code \in Seq(Bytes)
      BY <1>1, Objects
    <3>2. CASE f = co
      BY <1>5, <1>16, <3>1, <3>2 DEF IsContinued, CO
    <3>3. CASE f = prev
      BY <1>5, <1>15, <3>1, <3>3 DEF IsContinued
    <3>4. CASE f # prev /\ f # co
      BY <1>5, <3>1, <3>4 DEF Rewrites
    <3> QED BY <3>2, <3>3, <3>4
  <2> QED BY <2>1, NothingPatched
<1> QED BY <1>24, <1>25 DEF LaidOut

\* Every step of the compiler leaves the code laid out, and rewrites nothing
\* of it but the addresses of jumps that were still open.
LEMMA LaidSteps ==
  CInv /\ CInv' /\ Kept /\ LaidOut /\ CodeFits /\ CodeFits' /\ [Next]_vars
    => LaidOut' /\ HolesPatched
<1> SUFFICES ASSUME Ready, [Next]_vars
             PROVE  LaidOut' /\ HolesPatched
  BY DEF Ready
<1>1. CASE UNCHANGED vars
  BY <1>1, Rests DEF vars
<1>2. CASE GenLiteral \/ GenVariable \/ Emit
  BY <1>2, GenLiteralLaid, GenVariableLaid, EmitLaid
<1>3. CASE GenMissing
  <2>1. Stop("undefined")
    BY <1>3 DEF GenMissing
  <2> QED BY <2>1, StopRests
<1>4. CASE GenBinary \/ GenCall \/ GenOther \/ GenBegin
  BY <1>4, GenBinaryLaid, GenCallLaid, NothingEmitted
<1>5. CASE GenIf \/ GenVar \/ GenSet
  BY <1>5, FirstExpression
<1>6. CASE IfTested \/ WhileTested
  BY <1>6, TestedLaid
<1>7. CASE IfConsequent \/ IfDone
  BY <1>7, IfConsequentLaid, IfDoneLaid
<1>8. CASE GenWhile \/ WhileDone
  BY <1>8, GenWhileLaid, WhileDoneLaid
<1>9. CASE VarDeclare \/ SetAssign
  BY <1>9, VarDeclareLaid, SetAssignLaid
<1>10. CASE BlockItem \/ BlockDone
  BY <1>10, BlockItemLaid, BlockDoneLaid
<1>11. CASE GenDef \/ DefDone
  BY <1>11, GenDefLaid, DefDoneLaid
<1>12. CASE Compiled
  BY <1>12, Rests DEF Compiled
<1>13. CASE Finished
  BY <1>13, <1>1 DEF Finished
<1> QED BY <1>1, <1>2, <1>3, <1>4, <1>5, <1>6, <1>7, <1>8, <1>9, <1>10,
           <1>11, <1>12, <1>13 DEF Next, GenStep

\* The empty code of main is laid out, and everything waits for it.
LEMMA StartsLaid ==
  Init => LaidOut
<1> SUFFICES ASSUME Init
             PROVE  LaidOut
  OBVIOUS
<1> PICK main : main = CodeObject("main", 0)
  OBVIOUS
<1> PICK block : block = Gen(program)
  OBVIOUS
<1> PICK halt : halt = EmitTask(<<OP_HALT>>)
  OBVIOUS
<1> PICK owner : owner = [d \in 0 .. 2 |-> 1]
  OBVIOUS
<1> PICK starts : starts = [f \in {1} |-> {0}]
  OBVIOUS
<1>1. codeObjects = <<main>> /\ co = 1 /\ work = <<block, halt>>
  BY DEF Init, CompileStart
<1>2. /\ main.code = <<>> /\ block.kind = "gen" /\ halt.kind = "emit"
      /\ halt.bytes = <<OP_HALT>>
  BY DEF CodeObject, Gen, EmitTask
<1>3. /\ Len(work) = 2 /\ DOMAIN codeObjects = {1} /\ codeObjects[1] = main
      /\ AtHeight(1) = halt /\ AtHeight(2) = block
  BY <1>1 DEF AtHeight
<1>4. \A d \in 1 .. Len(work) :
        /\ AtHeight(d).kind \in {"gen", "emit"}
        /\ ~ Opens(AtHeight(d))
        /\ owner[d] = 1 /\ owner[d - 1] = 1
  BY <1>2, <1>3 DEF Opens
<1>5. Owned(owner)
  BY <1>1, <1>3, <1>4 DEF Owned
<1>6. HaltBelow
  BY <1>3 DEF HaltBelow
<1>7. Holes(owner, 1) = {}
  BY <1>4 DEF Holes, Waiting
<1>8. CodeLaid(<<>>, {0}, {}, Len(main.constants), Len(globals))
  BY EmptyCode
<1>9. \A d \in Waiting(owner, 1) : Remembers(AtHeight(d), <<>>, {0})
  <2>1. IsPlain(<<OP_HALT>>)
    BY OperatorsArePlain
  <2>2. Remembers(halt, <<>>, {0}) /\ Remembers(block, <<>>, {0})
    BY <1>2, <2>1 DEF Remembers, Opens
  <2> QED BY <1>3, <2>2 DEF Waiting
<1>10. 1 \in Waiting(owner, 1)
  BY <1>3, <1>4 DEF Waiting
<1>11. Laid(owner, starts, 1)
  <2>1. starts[1] = {0} /\ codeObjects[1].code = <<>>
    BY <1>2, <1>3
  <2>2. \A d \in Waiting(owner, 1) : ~ Opens(AtHeight(d))
    BY <1>4 DEF Waiting
  <2> QED BY <1>3, <1>7, <1>8, <1>9, <1>10, <2>1, <2>2 DEF Laid
<1> QED BY <1>3, <1>4, <1>5, <1>6, <1>11 DEF LaidOut, Layout

\* While no code is too long for an address of 16 bits, the code is laid out
\* as instructions, and all that is still to be patched is known.
LEMMA LayoutInvariance ==
  Spec /\ []CodeFits => [](CInv /\ LaidOut)
<1>1. Init => CInv /\ LaidOut
  BY Starting, StartsLaid
<1>2. CInv /\ LaidOut /\ CodeFits /\ CodeFits' /\ [Next]_vars => (CInv /\ LaidOut)'
  BY Steps, LaidSteps
<1> QED BY <1>1, <1>2, PTL DEF Spec

\* Code that was emitted stays as it is, but for the addresses of jumps, and
\* those are patched from 0: no patch of an if, a while or a def hits an
\* opcode, another operand, or an address that was patched before.
THEOREM PatchesHitHoles ==
  Spec /\ []CodeFits => OnlyHolesPatched
<1>1. Spec /\ []CodeFits => [](CInv /\ LaidOut)
  BY LayoutInvariance
<1>2. CInv /\ LaidOut /\ CodeFits /\ CodeFits' /\ [Next]_vars => HolesPatched
  BY Steps, LaidSteps
<1>3. [HolesPatched]_vars <=>
        [\A f \in DOMAIN codeObjects :
           LET old == codeObjects[f].code
               new == codeObjects'[f].code
           IN /\ Len(new) >= Len(old)
              /\ \A i \in DOMAIN old :
                   new[i] # old[i] => old[i] = 0 /\ InAddress(old, i)]_vars
  BY DEF HolesPatched
<1> QED BY <1>1, <1>2, <1>3, PTL DEF Spec, OnlyHolesPatched

-----------------------------------------------------------------------------
(***************************************************************************)
(* The listing.                                                            *)
(***************************************************************************)

\* Nothing lies before the first instruction of the first code object.
LEMMA FirstLine ==
  ASSUME NEW objects, IsVector(objects), NEW starts,
         \A f \in DOMAIN objects : Cut(objects[f].code, starts[f])
  PROVE  /\ 1 <= Len(objects) => 0 \in starts[1]
         /\ \A f \in DOMAIN objects : /\ ~ f < 1
                                      /\ \A s \in starts[f] : ~ s < 0
<1>1. DOMAIN objects = 1 .. Len(objects) /\ Len(objects) \in Nat
  BY VectorDomain
<1>2. \A f \in DOMAIN objects : 0 \in starts[f] /\ \A s \in starts[f] : s \in Int /\ s >= 0
  BY DEF Cut
<1> QED BY <1>1, <1>2

\* The instruction to be listed.
LEMMA AtStart ==
  ASSUME CInv, NEW owner, NEW starts, Layout(owner, starts), Listed(starts),
         Listing, offset < Len(Unit.code)
  PROVE  /\ unit \in DOMAIN codeObjects
         /\ CodeLaid(Unit.code, starts[unit], Holes(owner, unit),
                     Len(Unit.constants), Len(globals))
         /\ offset \in starts[unit] \ {Len(Unit.code)}
         /\ Shown = ByteAt(Unit.code, offset)
         /\ InstrLen(Shown) # 1 => Index = ByteAt(Unit.code, offset + 1)
<1>1. DOMAIN codeObjects = 1 .. Len(codeObjects) /\ Len(codeObjects) \in Nat
  BY Objects, VectorDomain
<1>2. unit \in DOMAIN codeObjects /\ offset \in starts[unit]
  BY <1>1 DEF Listed, Listing
<1>3. CodeLaid(Unit.code, starts[unit], Holes(owner, unit),
               Len(Unit.constants), Len(globals))
  BY <1>2 DEF Layout, Laid, Unit
<1>4. Unit.code \in Seq(Bytes)
  BY <1>2, Objects DEF Unit
<1>5. offset \in Nat /\ offset # Len(Unit.code)
  BY <1>2, <1>3, <1>4 DEF CodeLaid, Cut
<1>6. offset + 1 + 1 = offset + 2
  BY <1>5
<1> QED BY <1>2, <1>3, <1>5, <1>6 DEF Shown, Index, ByteAt

\* All that is read for a line of the listing is there, but for the name of
\* a local.
LEMMA ReadsWhatIsThere ==
  ASSUME CInv, NEW owner, NEW starts, Layout(owner, starts), Listed(starts),
         disassembleInstruction
  PROVE  /\ NextOffset \in starts[unit] /\ offset < NextOffset
         /\ \A t \in starts[unit] : offset < t => NextOffset <= t
         /\ status' # "compiled" => AtLocal
         /\ status' \in {"compiled", "undefined"}
<1>1. Listing /\ offset < Len(Unit.code) /\ status' \in Fates
  BY DEF disassembleInstruction
<1>2. /\ unit \in DOMAIN codeObjects
      /\ CodeLaid(Unit.code, starts[unit], Holes(owner, unit),
                  Len(Unit.constants), Len(globals))
      /\ offset \in starts[unit] \ {Len(Unit.code)}
      /\ Shown = ByteAt(Unit.code, offset)
      /\ InstrLen(Shown) # 1 => Index = ByteAt(Unit.code, offset + 1)
  BY <1>1, AtStart
<1>3. /\ Shown \in Opcodes /\ NextOffset \in starts[unit]
      /\ \A t \in starts[unit] : offset < t => NextOffset <= t
  BY <1>2, SameLengths DEF CodeLaid, Cut, NextOffset
<1>4. offset < NextOffset /\ ~ NextOffset > Len(Unit.code)
  <2>1. Len(Unit.code) \in Nat
    BY <1>2, Objects DEF Unit
  <2>2. starts[unit] \subseteq 0 .. Len(Unit.code)
    BY <1>2 DEF CodeLaid, Cut
  <2>3. InstrLen(Shown) \in {1, 2, 3}
    BY InstrLengths
  <2> QED BY <1>2, <1>3, <2>1, <2>2, <2>3, SameLengths DEF NextOffset
<1>5. Readable(Unit.code, offset, Len(Unit.constants), Len(globals))
  BY <1>2 DEF CodeLaid
<1>6. /\ Shown = OP_CONST => ~ Index >= Len(Unit.constants)
      /\ Shown = OP_COMPARE => ~ Index >= 6
      /\ Shown \in {OP_GET_GLOBAL, OP_SET_GLOBAL} => ~ Index >= Len(globals)
  <2>1. Shown \in {OP_CONST, OP_COMPARE, OP_GET_GLOBAL, OP_SET_GLOBAL} =>
          Index = ByteAt(Unit.code, offset + 1) /\ Index \in Nat
    <3>1. SUFFICES ASSUME Shown \in {OP_CONST, OP_COMPARE, OP_GET_GLOBAL, OP_SET_GLOBAL}
                   PROVE  Index = ByteAt(Unit.code, offset + 1) /\ Index \in Nat
      OBVIOUS
    <3>2. InstrLen(Shown) = 2
      BY <3>1, InstrLengths
    <3>3. Unit.code \in Seq(Bytes)
      BY <1>2, Objects DEF Unit
    <3>4. offset \in Nat /\ offset + 2 <= Len(Unit.code)
      BY <1>2, <1>3, <1>4, <3>2, <3>3, SameLengths DEF NextOffset, CodeLaid, Cut
    <3>5. offset + 2 \in 1 .. Len(Unit.code)
      BY <3>3, <3>4
    <3>6. Index \in Bytes
      BY <3>3, <3>5, ElementOfSeq DEF Index
    <3>7. InstrLen(Shown) # 1
      BY <3>2
    <3>8. Index \in Nat
      BY ONLY <3>6 DEF Bytes, BYTE
    <3> QED BY <1>2, <3>7, <3>8, Zenon
  <2>2. Len(Unit.constants) \in Nat /\ Len(globals) \in Nat
    BY <1>2, Objects DEF Unit
  <2> QED BY <1>2, <1>5, <2>1, <2>2 DEF Readable
<1>7. /\ Shown \notin {OP_GET_LOCAL, OP_SET_LOCAL} => Fates = {"compiled"}
      /\ Fates \subseteq {"compiled", "undefined"}
  BY <1>3, <1>4, <1>6 DEF Fates
<1> QED BY <1>1, <1>3, <1>4, <1>7 DEF AtLocal

\* One line of the listing.
LEMMA OneListed ==
  ASSUME CInv, NEW owner, NEW starts, Layout(owner, starts), Listed(starts),
         disassembleInstruction
  PROVE  Listed(starts)'
<1>1. /\ NextOffset \in starts[unit] /\ offset < NextOffset
      /\ \A t \in starts[unit] : offset < t => NextOffset <= t
      /\ status' \in {"compiled", "undefined"}
  BY ReadsWhatIsThere
<1>2. /\ Listing /\ offset < Len(Unit.code) /\ unit' = unit
      /\ codeObjects' = codeObjects /\ unit <= Len(codeObjects)
      /\ IF status' = "compiled"
         THEN offset' = NextOffset /\ shown' = shown \cup {<<unit, offset>>}
         ELSE offset' = offset /\ shown' = shown
  BY DEF disassembleInstruction, Listing
<1>3. unit \in DOMAIN codeObjects /\ offset \in starts[unit] /\ ~ unit < unit
  BY <1>2, AtStart DEF Listed
<1>4. \A f \in DOMAIN codeObjects : starts[f] \subseteq Int
  <2>1. \A f \in DOMAIN codeObjects : starts[f] \subseteq 0 .. Len(codeObjects[f].code)
    BY DEF Layout, Laid, CodeLaid, Cut
  <2>2. \A f \in DOMAIN codeObjects : Len(codeObjects[f].code) \in Nat
    BY Objects
  <2> QED BY <2>1, <2>2
<1>5. CASE status' = "compiled"
  <2>1. offset' = NextOffset /\ shown' = shown \cup {<<unit, offset>>}
    BY <1>2, <1>5
  <2>2. ASSUME NEW f \in DOMAIN codeObjects,
               NEW s \in starts[f] \ {Len(codeObjects[f].code)},
               f < unit \/ (f = unit /\ s < NextOffset)
        PROVE  <<f, s>> \in shown'
    <3>1. CASE f < unit \/ (f = unit /\ s < offset)
      BY <2>1, <3>1 DEF Listed
    <3>2. CASE f = unit /\ s = offset
      BY <2>1, <3>2
    <3>3. CASE f = unit /\ offset < s
      <4>1. NextOffset <= s /\ s < NextOffset
        BY <1>1, <1>3, <2>2, <3>3
      <4>2. s \in Int /\ NextOffset \in Int
        BY <1>1, <1>3, <1>4, <3>3
      <4> QED BY <4>1, <4>2
    <3>4. s \in Int /\ offset \in Int
      BY <1>3, <1>4
    <3> QED BY <2>2, <3>1, <3>2, <3>3, <3>4
  <2> QED BY <1>1, <1>2, <1>5, <2>1, <2>2 DEF Listed
<1>6. CASE status' # "compiled"
  BY <1>1, <1>2, <1>6 DEF Listed
<1> QED BY <1>5, <1>6

\* The listing goes on with the next code object.
LEMMA NextUnitListed ==
  ASSUME CInv, NEW owner, NEW starts, Layout(owner, starts), Listed(starts), UnitDone
  PROVE  Listed(starts)'
<1>1. /\ status = "compiled" /\ unit <= Len(codeObjects) /\ offset >= Len(Unit.code)
      /\ unit' = unit + 1 /\ offset' = 0 /\ shown' = shown
      /\ status' = status /\ codeObjects' = codeObjects
  BY DEF UnitDone, Listing, vars
<1>2. /\ DOMAIN codeObjects = 1 .. Len(codeObjects) /\ Len(codeObjects) \in Nat
      /\ unit \in Nat /\ 1 <= unit
  BY Objects, VectorDomain DEF Listed
<1>3. unit + 1 <= Len(codeObjects) => 0 \in starts[unit + 1]
  <2>1. unit + 1 <= Len(codeObjects) => unit + 1 \in DOMAIN codeObjects
    BY <1>2
  <2> QED BY <2>1 DEF Layout, Laid, CodeLaid, Cut
<1>4. \A f \in DOMAIN codeObjects : starts[f] \subseteq 0 .. Len(codeObjects[f].code)
  BY DEF Layout, Laid, CodeLaid, Cut
<1>5. \A f \in DOMAIN codeObjects : Len(codeObjects[f].code) \in Nat
  BY Objects
<1>6. unit \in DOMAIN codeObjects /\ offset \in starts[unit]
  BY <1>1, <1>2 DEF Listed
<1>7. ASSUME NEW f \in DOMAIN codeObjects,
             NEW s \in starts[f] \ {Len(codeObjects[f].code)}, f < unit + 1
      PROVE  <<f, s>> \in shown
  <2>1. CASE f < unit
    BY <2>1 DEF Listed
  <2>2. CASE f = unit
    <3>1. s < Len(codeObjects[f].code)
      BY <1>4, <1>5
    <3>2. s < offset
      BY <1>1, <1>4, <1>5, <1>6, <2>2, <3>1 DEF Unit
    <3> QED BY <2>2, <3>2 DEF Listed
  <2> QED BY <1>2, <1>7, <2>1, <2>2
<1>8. ASSUME NEW f \in DOMAIN codeObjects,
             NEW s \in starts[f] \ {Len(codeObjects[f].code)},
             f < unit' \/ (f = unit' /\ s < offset')
      PROVE  <<f, s>> \in shown'
  <2>1. ~ s < 0
    BY <1>4, <1>5
  <2> QED BY <1>1, <1>7, <1>8, <2>1
<1> QED BY <1>1, <1>2, <1>3, <1>8 DEF Listed

\* What the actions of the listing leave alone.
LEMMA ListingLeaves ==
  ASSUME disassembleBytecode
  PROVE  /\ status = "compiled"
         /\ UNCHANGED <<codeObjects, globals, co, work>>
BY DEF disassembleBytecode, UnitDone, disassembleInstruction, Listing, vars

\* Compiling and listing both keep what is known of the code, and a listing
\* that ends too early was at the name of a local.
LEMMA ListingSteps ==
  DInv /\ CodeFits /\ CodeFits' /\ [ListingNext]_allVars =>
    /\ DInv'
    /\ status = "compiled" /\ status' # "compiled" => AtLocal
<1> SUFFICES ASSUME DInv, CodeFits, CodeFits', [ListingNext]_allVars
             PROVE  /\ DInv'
                    /\ status = "compiled" /\ status' # "compiled" => AtLocal
  OBVIOUS
<1> PICK owner, starts : Layout(owner, starts) /\ Listed(starts)
  BY DEF DInv
<1>1. CInv /\ LaidOut
  BY DEF DInv, LaidOut
<1>2. CASE GenStep /\ UNCHANGED listing
  <2>1. Next /\ CInv' /\ LaidOut'
    BY <1>1, <1>2, Steps, LaidSteps DEF Next
  <2>2. status = "compiling"
    BY <1>2 DEF GenStep, GenLiteral, GenVariable, GenMissing, Emit, GenBinary, GenCall,
       GenOther, GenIf, IfTested, IfConsequent, IfDone, GenWhile, WhileTested, WhileDone,
       GenVar, GenSet, NameThenValue, VarDeclare, SetAssign, GenBegin, BlockItem,
       BlockDone, GenDef, DefDone, Compiled, GenForm, GenList, Doing
  <2>3. unit' = 1 /\ offset' = 0
    BY <1>2, <2>2 DEF listing, Listed
  <2>4. PICK owner2, starts2 : Layout(owner2, starts2)'
    BY <2>1 DEF LaidOut
  <2>5. Listed(starts2)'
    <3>1. IsVector(codeObjects')
      BY <2>1 DEF CInv, CodeObjectsOK
    <3>2. \A f \in DOMAIN codeObjects' : Cut(codeObjects'[f].code, starts2[f])
      BY <2>4 DEF Layout, Laid, CodeLaid
    <3> QED BY <2>3, <3>1, <3>2, FirstLine DEF Listed
  <2> QED BY <2>1, <2>2, <2>4, <2>5 DEF DInv
<1>3. CASE disassembleBytecode
  <2>1. /\ status = "compiled" /\ UNCHANGED <<codeObjects, globals, co, work>>
    BY <1>3, ListingLeaves
  <2>2. Layout(owner, starts)'
    BY <2>1, Unmoved
  <2>3. Listed(starts)'
    BY <1>1, <1>3, OneListed, NextUnitListed DEF disassembleBytecode
  <2>4. /\ status' \in {"compiled", "undefined"}
        /\ status' # "compiled" => AtLocal
    <3>1. UnitDone => status' = status
      BY DEF UnitDone, vars
    <3> QED BY <1>1, <1>3, <2>1, <3>1, ReadsWhatIsThere DEF disassembleBytecode
  <2>5. CInv'
    <3>1. work = <<>>
      BY <1>1, <2>1 DEF CInv
    <3> QED BY <1>1, <2>1, <2>4, <3>1, Resting
  <2> QED BY <2>2, <2>3, <2>4, <2>5 DEF DInv
<1>4. CASE UNCHANGED allVars
  <2>1. /\ UNCHANGED <<codeObjects, globals, co, work>> /\ status' = status
        /\ unit' = unit /\ offset' = offset /\ shown' = shown
    BY <1>4 DEF allVars, vars, listing
  <2>2. Layout(owner, starts)'
    BY <2>1, Unmoved
  <2>3. Listed(starts)'
    BY <2>1 DEF Listed
  <2>4. CInv'
    BY <1>1, <2>1, Resting DEF CInv
  <2> QED BY <2>1, <2>2, <2>3, <2>4 DEF DInv
<1>5. CASE ListingFinished
  <2>1. UNCHANGED allVars
    BY <1>5 DEF ListingFinished, Finished, allVars
  <2> QED BY <1>4, <2>1
<1> QED BY <1>2, <1>3, <1>4, <1>5 DEF ListingNext, ListingStep

\* While compile() runs and while the listing is printed, the code is laid
\* out, and the listing is where an instruction starts.
LEMMA ListingInvariance ==
  ListingSpec /\ []CodeFits => []DInv
<1>1. ListingInit => DInv
  <2> SUFFICES ASSUME ListingInit
               PROVE  DInv
    OBVIOUS
  <2>1. CInv /\ LaidOut
    BY Starting, StartsLaid DEF ListingInit
  <2>2. PICK owner, starts : Layout(owner, starts)
    BY <2>1 DEF LaidOut
  <2>3. Listed(starts)
    <3>1. IsVector(codeObjects)
      BY <2>1, Objects
    <3>2. \A f \in DOMAIN codeObjects : Cut(codeObjects[f].code, starts[f])
      BY <2>2 DEF Layout, Laid, CodeLaid
    <3> QED BY <3>1, <3>2, FirstLine DEF Listed, ListingInit
  <2> QED BY <2>1, <2>2, <2>3 DEF DInv
<1>2. DInv /\ CodeFits /\ CodeFits' /\ [ListingNext]_allVars => DInv'
  BY ListingSteps
<1> QED BY <1>1, <1>2, PTL DEF ListingSpec

\* What compile() emits can be listed: of all that disassembleInstruction()
\* reads without a check, operands, constants, names of globals and
\* comparisons, only the name of a local can be missing.
THEOREM ListingReadsWhatIsThere ==
  ListingSpec /\ []CodeFits => OnlyLocalsMissing
<1>1. DInv /\ CodeFits /\ CodeFits' /\ [ListingNext]_allVars =>
        [status = "compiled" /\ status' # "compiled" => AtLocal]_allVars
  BY ListingSteps
<1> QED BY <1>1, ListingInvariance, PTL DEF ListingSpec, OnlyLocalsMissing

\* Where execution can go on to, from an instruction of code that it cannot
\* leave, there is an instruction.
LEMMA StaysAmongStarts ==
  ASSUME NEW code \in Seq(Bytes), NEW S, Cut(code, S),
         \A s \in S \ {Len(code)} : Lands(code, S, s) /\ StaysInside(code, s),
         NEW p \in Points, p.at \in S \ {Len(code)}, NEW q \in Successors(code, p)
  PROVE  q.at \in S \ {Len(code)}
<1> PICK s, op, next, to : /\ s = p.at /\ op = ByteAt(code, s)
                           /\ next = s + InstrLen(op) /\ to = Successors(code, p)
  OBVIOUS
<1>1. /\ op \in Opcodes /\ next \in S /\ s \in S \ {Len(code)}
      /\ op \notin {OP_HALT, OP_RETURN} => next # Len(code)
      /\ op \in {OP_JMP, OP_JMP_IF_FALSE} => AddressAt(code, s) \in S \ {Len(code)}
  BY DEF Cut, Lands, StaysInside, IsJump, JumpOps
<1>2. op = OP_JMP_IF_FALSE => op \notin {OP_HALT, OP_RETURN}
  BY DEF OP_JMP_IF_FALSE, OP_HALT, OP_RETURN
<1>3. \/ op \in {OP_HALT, OP_RETURN} /\ to = {}
      \/ /\ op \notin {OP_HALT, OP_RETURN, OP_JMP, OP_JMP_IF_FALSE}
         /\ \E h : to = {Point(next, h)}
      \/ op = OP_JMP /\ \E h : to = {Point(AddressAt(code, s), h)}
      \/ /\ op = OP_JMP_IF_FALSE
         /\ \E h : to = {Point(next, h), Point(AddressAt(code, s), h)}
  BY <1>1, SuccessorForms
<1>4. \A at, h : Point(at, h).at = at
  BY DEF Point
<1>5. q \in to
  OBVIOUS
<1>6. \/ q.at = next /\ op \notin {OP_HALT, OP_RETURN}
      \/ q.at = AddressAt(code, s) /\ op \in {OP_JMP, OP_JMP_IF_FALSE}
  BY ONLY <1>2, <1>3, <1>4, <1>5
<1> QED BY <1>1, <1>6

\* The listing shows what the machine executes: when it is over, it has shown
\* every instruction that execution can come to, whichever way it takes, in
\* every code object without a while.
THEOREM ListingShowsWhatRuns ==
  ListingSpec /\ []CodeFits => []ShowsWhatRuns
<1>1. DInv => ShowsWhatRuns
  <2> SUFFICES ASSUME DInv, status = "compiled", unit > Len(codeObjects),
                      NEW f \in DOMAIN codeObjects, ~ LoopsBack(f),
                      NEW p \in Flow(codeObjects, f)
               PROVE  <<f, p.at>> \in shown
    BY DEF ShowsWhatRuns
  <2> PICK owner, starts : Layout(owner, starts) /\ Listed(starts)
    BY DEF DInv
  <2> PICK code : code = codeObjects[f].code
    OBVIOUS
  <2> PICK S : S = starts[f]
    OBVIOUS
  <2>1. /\ code \in Seq(Bytes) /\ Len(code) \in Nat /\ CInv
        /\ DOMAIN codeObjects = 1 .. Len(codeObjects) /\ Len(codeObjects) \in Nat
    BY Objects, VectorDomain DEF DInv
  <2>2. f < unit
    BY <2>1 DEF Listed
  <2>3. \A s \in S \ {Len(code)} : <<f, s>> \in shown
    BY <2>2 DEF Listed
  <2>4. Cut(code, S) /\ Complete(code, S)
    <3>1. work = <<>>
      BY <2>1 DEF CInv
    <3>2. Waiting(owner, f) = {}
      BY <3>1 DEF Waiting
    <3> QED BY <3>2 DEF Layout, Laid, CodeLaid
  <2>5. ASSUME NEW s \in S \ {Len(code)}
        PROVE  ~ IsLoopEnd(code, s)
    <3> SUFFICES ASSUME IsLoopEnd(code, s)
                 PROVE  FALSE
      OBVIOUS
    <3> PICK i : i = <<f, s>>
      OBVIOUS
    <3>1. i \in shown /\ i[1] = f /\ i[2] = s
      BY <2>3
    <3> QED BY <3>1 DEF IsLoopEnd, LoopsBack
  <2>6. \A s \in S \ {Len(code)} : Lands(code, S, s) /\ StaysInside(code, s)
    BY <2>4, <2>5 DEF Complete
  <2> PICK Q : Q = {r \in Points : r.at \in S \ {Len(code)}}
    OBVIOUS
  <2>7. EntryPoint(codeObjects, f) \in Q
    <3>1. 0 \in S \ {Len(code)}
      BY <2>1, <2>4 DEF Cut, Complete
    <3>2. codeObjects[f].arity \in Nat
      BY <2>1 DEF CInv, CodeObjectsOK, IsCodeObject
    <3> QED BY <3>1, <3>2 DEF EntryPoint, Point, Points
  <2>8. ASSUME NEW r \in Q, Fetchable(code, r)
        PROVE  Successors(code, r) \subseteq Q
    <3>1. Successors(code, r) \subseteq Points
      BY <2>1, <2>8, SuccessorPoints DEF Bytes
    <3>2. \A q \in Successors(code, r) : q.at \in S \ {Len(code)}
      BY <2>1, <2>4, <2>6, StaysAmongStarts
    <3> QED BY <3>1, <3>2
  <2>9. Flow(codeObjects, f) \subseteq Q
    <3>1. codeObjects[f].code \in Seq(0 .. BYTE - 1) /\ Q \in SUBSET Points
      BY <2>1 DEF Bytes
    <3> QED BY <2>7, <2>8, <3>1, FlowStays
  <2> QED BY <2>3, <2>9
<1> QED BY <1>1, ListingInvariance, PTL
=============================================================================
