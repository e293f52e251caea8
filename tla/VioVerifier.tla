---------------------------- MODULE VioVerifier ----------------------------
(***************************************************************************)
(* What well-formed bytecode is.  The compiler never states it, and eval() *)
(* relies on it: it checks hardly any of its operands.                     *)
(*                                                                         *)
(* The height of the operand stack is counted from bp: a function starts   *)
(* with itself and its arguments in its frame, main with nothing.  An      *)
(* instruction that finds operands of the right type changes the height by *)
(* an amount that only the instruction determines, so the pairs of offset  *)
(* and height that a code object can be in are computed from its bytes.    *)
(* Code verifies when each pair gives the instruction what it needs.       *)
(*                                                                         *)
(* A pair is [at |-> offset, height |-> values above bp].                  *)
(***************************************************************************)
EXTENDS OpCode, Global, FiniteSets

Point(at, height) == [at |-> at, height |-> height]

\* The byte at a 0-based offset of the code, and the address after it.
ByteAt(code, at)    == code[at + 1]
AddressAt(code, at) == Word(ByteAt(code, at + 1), ByteAt(code, at + 2))

EntryPoint(objects, f) ==
  Point(0, IF f = 1 THEN 0 ELSE objects[f].arity + 1)

(***************************************************************************)
(* The whole instruction at a point lies within the code.                  *)
(***************************************************************************)
Fetchable(code, p) ==
  /\ p.at < Len(code)
  /\ ByteAt(code, p.at) \in Opcodes
  /\ p.at + InstrLen(ByteAt(code, p.at)) <= Len(code)

\* What a fetched instruction needs of its operand byte and of the height.
Admissible(objects, globalsCount, f, p) ==
  LET code == objects[f].code
      op   == ByteAt(code, p.at)
      arg  == ByteAt(code, p.at + 1)
      h    == p.height
  IN /\ op \in {OP_JMP_IF_FALSE, OP_POP}          => h >= 1
     /\ op \in MathOps \cup {OP_COMPARE}          => h >= 2
     /\ op = OP_COMPARE    => arg \in 0 .. 5
     /\ op = OP_CONST      => arg < Len(objects[f].constants)
     /\ op = OP_GET_GLOBAL => arg < globalsCount
     /\ op = OP_SET_GLOBAL => arg < globalsCount /\ h >= 1
     /\ op \in {OP_GET_LOCAL, OP_SET_LOCAL}   => arg < h
     /\ op \in {OP_SCOPE_EXIT, OP_CALL}       => h >= arg + 1
     /\ op = OP_HALT       => f = 1 /\ h = 1
     /\ op = OP_RETURN     => f # 1 /\ h = 1

\* The points execution can be in after the instruction at p.
Successors(code, p) ==
  LET op   == ByteAt(code, p.at)
      arg  == ByteAt(code, p.at + 1)
      next == p.at + InstrLen(op)
      h    == p.height
  IN CASE op \in {OP_HALT, OP_RETURN} -> {}
       [] op \in {OP_CONST, OP_GET_GLOBAL, OP_GET_LOCAL} -> {Point(next, h + 1)}
       [] op \in MathOps \cup {OP_COMPARE, OP_POP} -> {Point(next, h - 1)}
       [] op \in {OP_SET_GLOBAL, OP_SET_LOCAL} -> {Point(next, h)}
       [] op = OP_JMP -> {Point(AddressAt(code, p.at), h)}
       [] op = OP_JMP_IF_FALSE -> {Point(next, h - 1),
                                   Point(AddressAt(code, p.at), h - 1)}
       [] op \in {OP_SCOPE_EXIT, OP_CALL} -> {Point(next, h - arg)}

Points == [at : Nat, height : Int]

\* These points, and those that execution can go on to from them.
Onward(code, points) ==
  points \cup UNION {Successors(code, p) : p \in {q \in points : Fetchable(code, q)}}

(***************************************************************************)
(* The points reached from the entry of function f.  A code object whose   *)
(* heights do not grow round a loop has at most one point per byte, so as  *)
(* many steps as it has bytes reach them all: advance[k] takes up to 2^k   *)
(* of them, and Doublings is the k for the length of the code.             *)
(***************************************************************************)
Doublings(n) == Cardinality({k \in 0 .. 15 : 2^k < n})

Flow(objects, f) ==
  LET code == objects[f].code
      advance[k \in Nat] ==
        [S \in SUBSET Points |->
           IF Onward(code, S) = S THEN S
           ELSE IF k = 0 THEN Onward(code, S)
           ELSE advance[k - 1][advance[k - 1][S]]]
  IN advance[Doublings(Len(code))][{EntryPoint(objects, f)}]

\* A set of points that a function can be in and never leaves.
Closed(objects, f, points) ==
  /\ EntryPoint(objects, f) \in points
  /\ \A p \in points : /\ p.at \in Nat /\ p.height \in Nat
                       /\ p = Point(p.at, p.height)
                       /\ Fetchable(objects[f].code, p)
                       /\ Successors(objects[f].code, p) \subseteq points

(***************************************************************************)
(* Values that exist: of a known type and, for functions, compiled.        *)
(***************************************************************************)
IsValue(objects, v) ==
  /\ v = <<TypeOf(v), Payload(v)>>
  /\ TypeOf(v) \in ValueTypes
  /\ IS_FUNCTION(v) => Payload(v) \in 2 .. Len(objects)

IsVector(s) == s \in Seq({s[i] : i \in DOMAIN s})

WellFormed(objects) ==
  /\ IsVector(objects)
  /\ objects # <<>>
  /\ \A f \in DOMAIN objects :
       /\ objects[f].arity \in Nat
       /\ objects[f].code \in Seq(0 .. BYTE - 1)
       /\ IsVector(objects[f].constants)
       /\ \A i \in DOMAIN objects[f].constants :
            IsValue(objects, objects[f].constants[i])

Verified(objects, globalsCount) ==
  /\ WellFormed(objects)
  /\ \A f \in DOMAIN objects :
       LET points == Flow(objects, f)
       IN /\ Closed(objects, f, points)
          /\ \A p \in points : Admissible(objects, globalsCount, f, p)

\* One height per instruction: what the compiler intends with begin and if.
HeightsAgree(objects) ==
  \A f \in DOMAIN objects :
    LET points == Flow(objects, f)
    IN \A p, q \in points : p.at = q.at => p.height = q.height
=============================================================================
