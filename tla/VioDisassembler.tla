-------------------------- MODULE VioDisassembler --------------------------
(***************************************************************************)
(* The listing of the bytecode: disassembleBytecode() of VioCompiler.h and *)
(* src/disassembler/VioDisassembler.h, which exec() calls when compile()   *)
(* has returned.  One action is one instruction; what is printed is left   *)
(* out, but not what is read for it.  status stays "compiled" until the    *)
(* process dies.                                                           *)
(***************************************************************************)
EXTENDS VioCompiler, VioVerifier

VARIABLES
  unit,          \* the code object being listed: an index of codeObjects
  offset,        \* of the next instruction in its code
  shown          \* the <<unit, offset>> that were listed, for the properties

listing == <<unit, offset, shown>>
allVars == <<vars, listing>>

ListingInit == Init /\ unit = 1 /\ offset = 0 /\ shown = {}

Unit == codeObjects[unit]

Listing == status = "compiled" /\ unit <= Len(codeObjects)

\* disassemble() of a unit is over: the loop goes on to the next one.
UnitDone ==
  /\ Listing /\ offset >= Len(Unit.code)
  /\ unit' = unit + 1
  /\ offset' = 0
  /\ UNCHANGED <<vars, shown>>

Shown == Unit.code[offset + 1]

\* Mutated form of Index: the opcode is taken for the operand.
IndexHere == Unit.code[offset + 1]

\* The operand as an index into the table that gives the operand's name.
Index == Unit.code[offset + 2]

\* The bytes that the case of an opcode shows, by the disassembler's own
\* account: disassembleSimple(), disassembleJump(), and the functions of the
\* instructions with one operand.
ShownBytes(op) ==
  CASE op \in {OP_HALT, OP_ADD, OP_SUB, OP_MUL, OP_DIV, OP_POP, OP_RETURN} -> 1
    [] op \in {OP_JMP_IF_FALSE, OP_JMP} -> 3
    [] op \in {OP_SCOPE_EXIT, OP_CALL, OP_CONST, OP_COMPARE, OP_GET_GLOBAL,
               OP_SET_GLOBAL, OP_SET_LOCAL, OP_GET_LOCAL} -> 2

\* Mutated forms of NextOffset: a jump is as long as the other instructions
\* with an operand, or the offset is 0, what the default case returns.
ShortJumps  == offset + (IF ShownBytes(Shown) = 1 THEN 1 ELSE 2)
FromTheTop  == IF Shown = OP_CALL THEN 0 ELSE offset + ShownBytes(Shown)

NextOffset == offset + ShownBytes(Shown)

\* What may come of the instruction: an element beyond the end of a vector is
\* undefined; compile() has popped the locals of the scopes it left, and what
\* is read in their place may still be there.
Fates ==
  CASE Shown \notin Opcodes                                      -> {"died"}
    [] NextOffset > Len(Unit.code)                               -> {"undefined"}
    [] Shown = OP_CONST /\ Index >= Len(Unit.constants)          -> {"undefined"}
    [] Shown = OP_COMPARE /\ Index >= 6                          -> {"undefined"}
    [] Shown \in {OP_GET_GLOBAL, OP_SET_GLOBAL} /\ Index >= Len(globals)
                                                                 -> {"undefined"}
    [] Shown \in {OP_GET_LOCAL, OP_SET_LOCAL} /\ Index >= Len(Unit.locals)
                                                    -> {"compiled", "undefined"}
    [] OTHER                                                     -> {"compiled"}

disassembleInstruction ==
  /\ Listing /\ offset < Len(Unit.code)
  /\ status' \in Fates
  /\ IF status' = "compiled"
     THEN offset' = NextOffset /\ shown' = shown \cup {<<unit, offset>>}
     ELSE UNCHANGED <<offset, shown>>
  /\ UNCHANGED <<unit, program, codeObjects, globals, co, work>>

disassembleBytecode == UnitDone \/ disassembleInstruction

ListingStep == (GenStep /\ UNCHANGED listing) \/ disassembleBytecode

ListingFinished == Finished /\ UNCHANGED listing

ListingNext == ListingStep \/ ListingFinished

\* compile() and disassembleBytecode() run on the only thread of the process.
ListingSpec == ListingInit /\ [][ListingNext]_allVars /\ WF_allVars(ListingStep)

-----------------------------------------------------------------------------
AtLocal == Listing /\ offset < Len(Unit.code) /\ Shown \in {OP_GET_LOCAL, OP_SET_LOCAL}

\* What compile() emits can be listed: of all that disassembleInstruction()
\* reads without a check, only the name of a local can be missing.
OnlyLocalsMissing ==
  [][status = "compiled" /\ status' # "compiled" => AtLocal]_allVars

LoopsBack(f) ==
  LET code == codeObjects[f].code
  IN \E i \in shown : /\ i[1] = f
                      /\ ByteAt(code, i[2]) = OP_JMP
                      /\ AddressAt(code, i[2]) < i[2]

\* The listing shows what the machine executes: the disassembler walks the
\* bytes in their order and the machine follows the jumps, and they agree on
\* where instructions start.  Only a while can jump between two of them.
ShowsWhatRuns ==
  status = "compiled" /\ unit > Len(codeObjects) =>
    \A f \in DOMAIN codeObjects :
      \/ LoopsBack(f)
      \/ \A p \in Flow(codeObjects, f) : <<f, p.at>> \in shown

\* The walk comes to the end of the last code object, or the process dies.
ListingEnds ==
  <>(status \in {"died", "undefined"} \/ unit > Len(codeObjects))

\* "Disassembles local variable instruction.": the variable is one that the
\* code object has.
LocalsHaveNames == AtLocal => Index < Len(Unit.locals)
=============================================================================
