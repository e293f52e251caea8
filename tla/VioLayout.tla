----------------------------- MODULE VioLayout -----------------------------
(***************************************************************************)
(* What the code is while src/compiler/VioCompiler.h writes it: a row of   *)
(* whole instructions, in which the jumps that a suspended if or while has *)
(* still to patch are known by their addresses of zero, and every other    *)
(* jump lands where an instruction starts.                                 *)
(*                                                                         *)
(* An offset is 0-based.  starts holds those where an instruction starts,  *)
(* and the end of the code.                                                *)
(***************************************************************************)
EXTENDS VioCompilerSafety, VioDisassembler

\* No code object is too long for an address of 16 bits.
CodeFits == \A f \in DOMAIN codeObjects : Len(codeObjects[f].code) < SHORT

-----------------------------------------------------------------------------
(***************************************************************************)
(* Code.                                                                   *)
(***************************************************************************)

\* The code consists of the instructions at starts, without gap or overlap.
Cut(code, starts) ==
  /\ {0, Len(code)} \subseteq starts
  /\ starts \subseteq 0 .. Len(code)
  /\ \A s \in starts \ {Len(code)} :
       /\ ByteAt(code, s) \in Opcodes
       /\ s + InstrLen(ByteAt(code, s)) \in starts
       /\ \A t \in starts : s < t => s + InstrLen(ByteAt(code, s)) <= t

\* What the operand of the instruction at s names is in its table.
Readable(code, s, constantsCount, globalsCount) ==
  LET op  == ByteAt(code, s)
      arg == ByteAt(code, s + 1)
  IN /\ op = OP_CONST                        => arg < constantsCount
     /\ op = OP_COMPARE                      => arg < 6
     /\ op \in {OP_GET_GLOBAL, OP_SET_GLOBAL} => arg < globalsCount

\* A jump starts at s.
IsJump(code, s) == ByteAt(code, s) \in JumpOps

\* A jump whose address has not been written.
IsHole(code, s) ==
  IsJump(code, s) /\ ByteAt(code, s + 1) = 0 /\ ByteAt(code, s + 2) = 0

\* The end of a while: its jump back to the test.
IsLoopEnd(code, s) == ByteAt(code, s) = OP_JMP /\ AddressAt(code, s) < s

\* A jump at s goes to an instruction, or to the end of the code.
Lands(code, starts, s) == IsJump(code, s) => AddressAt(code, s) \in starts

\* Execution does not run on from the instruction at s to the end of the code.
StaysInside(code, s) ==
  /\ ByteAt(code, s) \notin {OP_HALT, OP_RETURN} =>
       s + InstrLen(ByteAt(code, s)) # Len(code)
  /\ IsJump(code, s) => AddressAt(code, s) # Len(code)

\* Code without a while is complete when execution cannot leave it.
Complete(code, starts) ==
  /\ Len(code) > 0
  /\ \/ \E s \in starts \ {Len(code)} : IsLoopEnd(code, s)
     \/ \A s \in starts \ {Len(code)} : Lands(code, starts, s) /\ StaysInside(code, s)

\* Code in which the jumps at holes are still open.
CodeLaid(code, starts, holes, constantsCount, globalsCount) ==
  /\ Cut(code, starts)
  /\ holes \subseteq starts \ {Len(code)}
  /\ \A s \in holes : IsHole(code, s)
  /\ \A s \in starts \ {Len(code)} : Readable(code, s, constantsCount, globalsCount)
  /\ \/ \E s \in starts \ {Len(code)} : s \notin holes /\ IsLoopEnd(code, s)
     \/ \A s \in starts \ {Len(code)} : Lands(code, starts, s)

-----------------------------------------------------------------------------
(***************************************************************************)
(* Activations.                                                            *)
(***************************************************************************)

\* The rest of the activation patches the address of the jump at JumpOf.
Opens(t)   == t.kind \in {"else", "endif", "loop"}
Address(t) == CASE t.kind = "else"  -> t.elseJmpAddr
                [] t.kind = "endif" -> t.endAddr
                [] OTHER            -> t.loopEndJmpAddr
JumpOf(t)  == Address(t) - 1

\* One instruction that is no jump and names nothing.
IsPlain(bytes) ==
  /\ bytes \in Seq(Bytes)
  /\ bytes # <<>>
  /\ bytes[1] \in Opcodes \ (JumpOps \cup {OP_CONST, OP_GET_GLOBAL, OP_SET_GLOBAL})
  /\ Len(bytes) = InstrLen(bytes[1])
  /\ bytes[1] = OP_COMPARE => bytes[2] < 6

\* What activation t remembers of the code object it will find.
Remembers(t, code, starts) ==
  /\ t.kind = "emit" => IsPlain(t.bytes)
  /\ Opens(t) => Address(t) \in Int
  /\ t.kind \in {"while", "loop"} => t.loopStartAddr \in starts
  /\ t.kind = "loop" => t.loopStartAddr < Len(code)

\* owner[d] is what co will be when the activation at height d is resumed.
Owned(owner) ==
  LET n == Len(work)
  IN /\ owner[n] = co
     /\ \A d \in 1 .. n :
          owner[d - 1] = IF AtHeight(d).kind = "enddef" THEN AtHeight(d).prevCo
                                                        ELSE owner[d]

\* The heights of the activations that will find code object f.
Waiting(owner, f) == {d \in 1 .. Len(work) : owner[d] = f}

\* The jumps of code object f that they have still to patch.
Holes(owner, f) ==
  {JumpOf(AtHeight(d)) : d \in {e \in Waiting(owner, f) : Opens(AtHeight(e))}}

\* One code object and the activations that wait for it; when there are none,
\* it is complete.
Laid(owner, starts, f) ==
  LET code == codeObjects[f].code
  IN /\ CodeLaid(code, starts[f], Holes(owner, f),
                 Len(codeObjects[f].constants), Len(globals))
     /\ \A d \in Waiting(owner, f) : Remembers(AtHeight(d), code, starts[f])
     /\ \A d, e \in Waiting(owner, f) :
          /\ Opens(AtHeight(d)) /\ Opens(AtHeight(e))
          /\ JumpOf(AtHeight(d)) = JumpOf(AtHeight(e))
          => d = e
     /\ Waiting(owner, f) = {} => Complete(code, starts[f])

\* Below everything is the OP_HALT of compile().
HaltBelow == work # <<>> => AtHeight(1) = EmitTask(<<OP_HALT>>)

\* All code objects, with the activations below and above.
Layout(owner, starts) ==
  /\ Owned(owner)
  /\ \A d \in 1 .. Len(work) : owner[d] \in DOMAIN codeObjects
  /\ HaltBelow
  /\ \A f \in DOMAIN codeObjects : Laid(owner, starts, f)

\* The listing is at the start of an instruction, and has shown all before it.
Listed(starts) ==
  /\ status = "compiling" => unit = 1 /\ offset = 0
  /\ unit \in Nat /\ 1 <= unit
  /\ unit <= Len(codeObjects) => offset \in starts[unit]
  /\ \A f \in DOMAIN codeObjects : \A s \in starts[f] \ {Len(codeObjects[f].code)} :
       f < unit \/ (f = unit /\ s < offset) => <<f, s>> \in shown

\* The invariant of the compiler, and that of the listing.
LInv == CInv /\ \E owner, starts : Layout(owner, starts)

DInv == CInv /\ \E owner, starts : Layout(owner, starts) /\ Listed(starts)
=============================================================================
