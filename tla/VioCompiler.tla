---------------------------- MODULE VioCompiler ----------------------------
(***************************************************************************)
(* The bytecode compiler of src/compiler/VioCompiler.h.                    *)
(*                                                                         *)
(* gen() is recursive.  Its C++ activations are the tasks of work: a "gen" *)
(* task is a call of gen() that has not started, any other task is what is *)
(* left of an activation after the recursive call above it returns, with   *)
(* the local variables (patch addresses, names, the enclosing code object) *)
(* that the rest of the activation uses.  One action is the code between   *)
(* two recursive calls.                                                    *)
(***************************************************************************)
EXTENDS OpCode, Global, VioAst

CONSTANT Programs      \* the programs to compile: what parse() may return

VARIABLES
  program,       \* the expression handed to compile()
  codeObjects,   \* VioCompiler::codeObjects_; the first one is "main"
  globals,       \* Global::globals
  co,            \* index of the code object being filled
  work,          \* pending activations of gen(), the innermost one first
  status         \* "compiling", "compiled", "died" or "undefined"

vars == <<program, codeObjects, globals, co, work, status>>

-----------------------------------------------------------------------------
(***************************************************************************)
(* Tasks.                                                                  *)
(***************************************************************************)
Gen(exp)        == [kind |-> "gen", exp |-> exp]
EmitTask(bytes) == [kind |-> "emit", bytes |-> bytes]

Top == Head(work)
Doing(kind) == status = "compiling" /\ work # <<>> /\ Top.kind = kind

\* The activation on top goes on with these tasks; <<>> when it is done.
Continue(tasks) == work' = tasks \o Tail(work)

\* Mutated form of Stop: DIE reports the error and does not exit.
Report(fate) == fate = "died" /\ UNCHANGED vars

Stop(fate) == /\ status' = fate
              /\ UNCHANGED <<program, codeObjects, globals, co, work>>

Same == UNCHANGED <<program, co, status>>

(***************************************************************************)
(* Code emission into the code object co.                                  *)
(***************************************************************************)
CO == codeObjects[co]

getOffset(code) == Len(code) % SHORT

\* Mutated form of patchJumpAddress: the offset is that of the opcode.
patchOneEarly(code, offset, value) ==
  [code EXCEPT ![offset] = HighByte(value), ![offset + 1] = LowByte(value)]

patchJumpAddress(code, offset, value) ==
  [code EXCEPT ![offset + 1] = HighByte(value), ![offset + 2] = LowByte(value)]

\* emit() of a sequence of bytes.
Emitted(c, bytes) == [c EXCEPT !.code = @ \o bytes]

UpdateCO(c) == codeObjects' = [codeObjects EXCEPT ![co] = c]

\* ALLOC_CONST: a constant already in the pool is not added again.
ConstIdx(pool, value) ==
  CHOOSE i \in DOMAIN pool :
    pool[i] = value /\ \A j \in DOMAIN pool : pool[j] = value => i <= j

\* Mutated form of Interned: a new constant goes to the front of the pool.
InternedInFront(pool, value) ==
  IF \E i \in DOMAIN pool : pool[i] = value THEN pool ELSE <<value>> \o pool

Interned(pool, value) ==
  IF \E i \in DOMAIN pool : pool[i] = value THEN pool ELSE Append(pool, value)

\* OP_CONST of a literal, its constant allocated in co's pool.
WithLiteral(c, value) ==
  LET pool == Interned(c.constants, value)
  IN [c EXCEPT !.constants = pool,
               !.code = @ \o <<OP_CONST, Byte(ConstIdx(pool, value) - 1)>>]

(***************************************************************************)
(* Scopes.  The main function is recognized by its name.                   *)
(***************************************************************************)
isGlobalScope(c)  == c.name = "main" /\ c.scopeLevel = 1
isFunctionBody(c) == c.name # "main" /\ c.scopeLevel = 1

\* getVarsCountOnScopeExit: the variables of the current level, from the back.
VarsCount(c) ==
  LET below == {i \in DOMAIN c.locals : c.locals[i].scopeLevel # c.scopeLevel}
  IN IF below = {} THEN Len(c.locals)
     ELSE Len(c.locals) - CHOOSE i \in below : \A j \in below : j <= i

\* A function body also drops its parameters and the function itself.
DroppedOnExit(c) ==
  VarsCount(c) + (IF isFunctionBody(c) THEN c.arity + 1 ELSE 0)

\* Mutated form of ScopeExited: the compiler forgets to drop the variables.
ScopeExitedKeeping(c) ==
  LET exitCode == IF VarsCount(c) > 0 \/ c.arity > 0
                  THEN <<OP_SCOPE_EXIT, Byte(DroppedOnExit(c))>> ELSE <<>>
  IN [c EXCEPT !.code = @ \o exitCode, !.scopeLevel = @ - 1]

\* scopeExit
ScopeExited(c) ==
  LET exitCode == IF VarsCount(c) > 0 \/ c.arity > 0
                  THEN <<OP_SCOPE_EXIT, Byte(DroppedOnExit(c))>> ELSE <<>>
  IN [c EXCEPT !.code = @ \o exitCode,
               !.locals = SubSeq(@, 1, Len(@) - VarsCount(c)),
               !.scopeLevel = @ - 1]

-----------------------------------------------------------------------------
(***************************************************************************)
(* gen(): literals and variables.                                          *)
(***************************************************************************)
BooleanNames == {"true", "false"}

LiteralValue(exp) ==
  CASE ExpType(exp) = "NUMBER" -> NUMBER(exp[2])
    [] ExpType(exp) = "STRING" -> STRING_VALUE(exp[2])
    [] OTHER                   -> BOOLEAN_VALUE(Name(exp) = "true")

IsLiteral(exp) == \/ ExpType(exp) \in {"NUMBER", "STRING"}
                  \/ IsSymbol(exp) /\ Name(exp) \in BooleanNames

GenLiteral ==
  /\ Doing("gen")
  /\ IsLiteral(Top.exp)
  /\ UpdateCO(WithLiteral(CO, LiteralValue(Top.exp)))
  /\ Continue(<<>>)
  /\ UNCHANGED globals
  /\ Same

\* A name is looked up in the locals of the code object being filled, then
\* in the globals; the locals of enclosing functions are not searched.
Resolves(name) == getLocalIndex(CO, name) # -1 \/ exists(globals, name)

\* The instruction for name: a local one if co has the name, or a global one.
Access(c, table, name, localOp, globalOp) ==
  IF getLocalIndex(c, name) # -1
  THEN <<localOp, Byte(getLocalIndex(c, name))>>
  ELSE <<globalOp, Byte(getGlobalIndex(table, name))>>

IsVariable(exp) == IsSymbol(exp) /\ Name(exp) \notin BooleanNames

GenVariable ==
  /\ Doing("gen")
  /\ IsVariable(Top.exp)
  /\ \/ ~ Resolves(Name(Top.exp)) /\ Stop("died")
     \/ /\ Resolves(Name(Top.exp))
        /\ UpdateCO(Emitted(CO, Access(CO, globals, Name(Top.exp),
                                       OP_GET_LOCAL, OP_GET_GLOBAL)))
        /\ Continue(<<>>)
        /\ UNCHANGED globals
        /\ Same

\* The evaluation of exp.list[i] beyond the end of the list.
GenMissing ==
  /\ Doing("gen")
  /\ Top.exp = Missing \/ (IsList(Top.exp) /\ Size(Top.exp) = 0)
  /\ Stop("undefined")

\* Bytes emitted after the operands of an expression.
Emit ==
  /\ Doing("emit")
  /\ UpdateCO(Emitted(CO, Top.bytes))
  /\ Continue(<<>>)
  /\ UNCHANGED globals
  /\ Same

-----------------------------------------------------------------------------
(***************************************************************************)
(* gen(): lists.                                                           *)
(***************************************************************************)
MathOpcodes == [op \in {"+", "-", "*", "/"} |->
                  CASE op = "+" -> OP_ADD [] op = "-" -> OP_SUB
                    [] op = "*" -> OP_MUL [] op = "/" -> OP_DIV]

compareOps == [op \in {"<", ">", "==", ">=", "<=", "!="} |->
                 CASE op = "<"  -> 0 [] op = ">"  -> 1 [] op = "==" -> 2
                   [] op = ">=" -> 3 [] op = "<=" -> 4 [] op = "!=" -> 5]

Keywords == {"if", "while", "var", "set", "begin", "def"}

\* A gen task for a list whose first element is the symbol op.
GenList == Doing("gen") /\ IsList(Top.exp) /\ IsSymbol(At(Top.exp, 0))
Head0 == Name(At(Top.exp, 0))
GenForm(op) == GenList /\ Head0 = op

GenBinary ==
  /\ GenList
  /\ \/ /\ Head0 \in DOMAIN MathOpcodes
        /\ Continue(<<Gen(At(Top.exp, 1)), Gen(At(Top.exp, 2)),
                      EmitTask(<<MathOpcodes[Head0]>>)>>)
     \/ /\ Head0 \in DOMAIN compareOps
        /\ Continue(<<Gen(At(Top.exp, 1)), Gen(At(Top.exp, 2)),
                      EmitTask(<<OP_COMPARE, compareOps[Head0]>>)>>)
  /\ UNCHANGED <<codeObjects, globals>>
  /\ Same

\* FUNCTION_CALL: the function, then the arguments, left to right.
GenCall ==
  /\ GenList
  /\ Head0 \notin DOMAIN MathOpcodes \cup DOMAIN compareOps \cup Keywords
  /\ Continue([i \in 1 .. Size(Top.exp) |-> Gen(At(Top.exp, i - 1))]
              \o <<EmitTask(<<OP_CALL, Byte(Size(Top.exp) - 1)>>)>>)
  /\ UNCHANGED <<codeObjects, globals>>
  /\ Same

\* A list that starts with anything but a symbol compiles to nothing.
GenOther ==
  /\ Doing("gen")
  /\ IsList(Top.exp) /\ Size(Top.exp) > 0 /\ ~ IsSymbol(At(Top.exp, 0))
  /\ Continue(<<>>)
  /\ UNCHANGED <<codeObjects, globals>>
  /\ Same

(***************************************************************************)
(* (if test consequent alternate): a conditional jump over the consequent  *)
(* and a jump over the alternate, both patched when their target is known. *)
(***************************************************************************)
GenIf ==
  /\ GenForm("if")
  /\ Continue(<<Gen(At(Top.exp, 1)), [kind |-> "if", exp |-> Top.exp]>>)
  /\ UNCHANGED <<codeObjects, globals>>
  /\ Same

IfTested ==
  /\ Doing("if")
  /\ LET code == CO.code \o <<OP_JMP_IF_FALSE, 0, 0>>
     IN /\ UpdateCO([CO EXCEPT !.code = code])
        /\ Continue(<<Gen(At(Top.exp, 2)),
                      [kind |-> "else", exp |-> Top.exp,
                       elseJmpAddr |-> getOffset(code) - 2]>>)
  /\ UNCHANGED globals
  /\ Same

IfConsequent ==
  /\ Doing("else")
  /\ LET code == CO.code \o <<OP_JMP, 0, 0>>
         patched == patchJumpAddress(code, Top.elseJmpAddr, getOffset(code))
         alternate == IF Size(Top.exp) = 4 THEN <<Gen(At(Top.exp, 3))>>
                                           ELSE <<>>
     IN /\ UpdateCO([CO EXCEPT !.code = patched])
        /\ Continue(alternate \o
                    <<[kind |-> "endif", endAddr |-> getOffset(code) - 2]>>)
  /\ UNCHANGED globals
  /\ Same

\* Mutated form of IfDone: the jump over the alternate is not patched.
IfLeftOpen ==
  /\ Doing("endif")
  /\ Continue(<<>>)
  /\ UNCHANGED <<codeObjects, globals>>
  /\ Same

IfDone ==
  /\ Doing("endif")
  /\ UpdateCO([CO EXCEPT !.code =
                 patchJumpAddress(@, Top.endAddr, getOffset(@))])
  /\ Continue(<<>>)
  /\ UNCHANGED globals
  /\ Same

(***************************************************************************)
(* (while test body): the loop is left to one byte after its last          *)
(* instruction.                                                            *)
(***************************************************************************)
GenWhile ==
  /\ GenForm("while")
  /\ Continue(<<Gen(At(Top.exp, 1)),
                [kind |-> "while", exp |-> Top.exp,
                 loopStartAddr |-> getOffset(CO.code)]>>)
  /\ UNCHANGED <<codeObjects, globals>>
  /\ Same

WhileTested ==
  /\ Doing("while")
  /\ LET code == CO.code \o <<OP_JMP_IF_FALSE, 0, 0>>
     IN /\ UpdateCO([CO EXCEPT !.code = code])
        /\ Continue(<<Gen(At(Top.exp, 2)),
                      [kind |-> "loop", loopStartAddr |-> Top.loopStartAddr,
                       loopEndJmpAddr |-> getOffset(code) - 2]>>)
  /\ UNCHANGED globals
  /\ Same

WhileDone ==
  /\ Doing("loop")
  /\ LET jump == CO.code \o <<OP_JMP, 0, 0>>
         code == patchJumpAddress(jump, getOffset(jump) - 2,
                                  Top.loopStartAddr)
         loopEndAddr == getOffset(code) + 1
     IN UpdateCO([CO EXCEPT !.code =
                    patchJumpAddress(code, Top.loopEndJmpAddr, loopEndAddr)])
  /\ Continue(<<>>)
  /\ UNCHANGED globals
  /\ Same

(***************************************************************************)
(* (var name value) and (set name value).  VarName is exp.list[1].string,  *)
(* read before the value is compiled.                                      *)
(***************************************************************************)
HasName(exp) == Size(exp) > 1
VarName(exp) == Name(At(exp, 1))

NameThenValue(form, kind) ==
  /\ GenForm(form)
  /\ \/ ~ HasName(Top.exp) /\ Stop("undefined")
     \/ /\ HasName(Top.exp)
        /\ Continue(<<Gen(At(Top.exp, 2)),
                      [kind |-> kind, name |-> VarName(Top.exp)]>>)
        /\ UNCHANGED <<codeObjects, globals>>
        /\ Same

GenVar == NameThenValue("var", "declare")
GenSet == NameThenValue("set", "assign")

\* Declares name in the current scope and emits the store to it: a global in
\* the outermost block of main, a local of the code object anywhere else.
Declared(c, name) == IF isGlobalScope(c) THEN c ELSE addLocal(c, name)

DefinedIn(c, name) ==
  IF isGlobalScope(c) THEN define(globals, name) ELSE globals

Stored(c, name) ==
  LET declared == Declared(c, name)
  IN Emitted(declared,
       IF isGlobalScope(c)
       THEN <<OP_SET_GLOBAL, Byte(getGlobalIndex(DefinedIn(c, name), name))>>
       ELSE <<OP_SET_LOCAL, Byte(getLocalIndex(declared, name))>>)

VarDeclare ==
  /\ Doing("declare")
  /\ globals' = DefinedIn(CO, Top.name)
  /\ UpdateCO(Stored(CO, Top.name))
  /\ Continue(<<>>)
  /\ Same

SetAssign ==
  /\ Doing("assign")
  /\ \/ ~ Resolves(Top.name) /\ Stop("died")
     \/ /\ Resolves(Top.name)
        /\ UpdateCO(Emitted(CO, Access(CO, globals, Top.name,
                                       OP_SET_LOCAL, OP_SET_GLOBAL)))
        /\ Continue(<<>>)
        /\ UNCHANGED globals
        /\ Same

(***************************************************************************)
(* (begin exp ...): a new scope; every value but the last is popped, except*)
(* that of a local declaration, whose slot is the variable.                *)
(***************************************************************************)
\* Mutated form of GenBegin: the block does not enter a scope.
GenBeginInScope ==
  /\ GenForm("begin")
  /\ Continue(<<[kind |-> "block", exp |-> Top.exp, i |-> 1]>>)
  /\ UNCHANGED <<codeObjects, globals>>
  /\ Same

GenBegin ==
  /\ GenForm("begin")
  /\ UpdateCO([CO EXCEPT !.scopeLevel = @ + 1])
  /\ Continue(<<[kind |-> "block", exp |-> Top.exp, i |-> 1]>>)
  /\ UNCHANGED globals
  /\ Same

IsLocalDeclaration(c, exp) == IsVarDeclaration(exp) /\ ~ isGlobalScope(c)

\* Mutated form of PopsAfter: the value of a declaration is popped, too.
PopsAfterAny(c, exp, i) == i # Size(exp) - 1

PopsAfter(c, exp, i) ==
  i # Size(exp) - 1 /\ ~ IsLocalDeclaration(c, At(exp, i))

BlockItem ==
  /\ Doing("block")
  /\ Top.i < Size(Top.exp)
  /\ LET pop == IF PopsAfter(CO, Top.exp, Top.i)
                THEN <<EmitTask(<<OP_POP>>)>> ELSE <<>>
     IN Continue(<<Gen(At(Top.exp, Top.i))>> \o pop
                 \o <<[Top EXCEPT !.i = @ + 1]>>)
  /\ UNCHANGED <<codeObjects, globals>>
  /\ Same

\* When the scope holds every local of the code object, the count of its
\* variables reads locals.back() of the emptied vector.  The outcomes: that
\* memory does not look like a variable of the scope and the loop ends, or
\* it does and the loop pops the empty vector.
ReadsBackOfEmpty(c) == c.locals # <<>> /\ VarsCount(c) = Len(c.locals)

BlockDone ==
  /\ Doing("block")
  /\ Top.i >= Size(Top.exp)
  /\ \/ /\ UpdateCO(ScopeExited(CO))
        /\ Continue(<<>>)
        /\ UNCHANGED globals
        /\ Same
     \/ ReadsBackOfEmpty(CO) /\ Stop("undefined")

(***************************************************************************)
(* (def name (params) body): the body is compiled into a code object of    *)
(* its own, whose first locals are the function itself and its parameters; *)
(* the enclosing code object gets the code and, afterwards, the function   *)
(* as constants and the instructions that store the function.              *)
(***************************************************************************)
Params(exp) == Entries(At(exp, 2))
Arity(exp)  == Len(Params(exp))

FunctionLocals(exp) ==
  <<LocalVar(VarName(exp), 0)>>
  \o [i \in 1 .. Arity(exp) |-> LocalVar(Name(Params(exp)[i]), 0)]

GenDef ==
  /\ GenForm("def")
  /\ \/ Size(Top.exp) < 3 /\ Stop("undefined")
     \/ /\ Size(Top.exp) >= 3
        /\ LET new == Len(codeObjects) + 1
           IN /\ codeObjects' =
                   [codeObjects EXCEPT ![co] = addConst(@, CODE(new))]
                   \o <<[CodeObject(VarName(Top.exp), Arity(Top.exp))
                           EXCEPT !.locals = FunctionLocals(Top.exp)]>>
              /\ co' = new
              /\ Continue(<<Gen(At(Top.exp, 3)),
                            [kind |-> "enddef", exp |-> Top.exp,
                             prevCo |-> co]>>)
        /\ UNCHANGED <<program, globals, status>>

\* Mutated form of Epilogue: the parameters are left to the caller.
EpilogueKeeping(exp) == <<OP_RETURN>>

\* A body that is not a block has no scopeExit() to drop the parameters.
Epilogue(exp) ==
  (IF IsBlock(At(exp, 3)) THEN <<>>
   ELSE <<OP_SCOPE_EXIT, Byte(Arity(exp) + 1)>>) \o <<OP_RETURN>>

DefDone ==
  /\ Doing("enddef")
  /\ LET name    == VarName(Top.exp)
         prev    == Top.prevCo
         withFn  == addConst(codeObjects[prev], FUNCTION(co))
         withRef == Emitted(withFn,
                            <<OP_CONST, Byte(Len(withFn.constants) - 1)>>)
     IN /\ codeObjects' =
             [codeObjects EXCEPT ![co] = Emitted(@, Epilogue(Top.exp)),
                                 ![prev] = Stored(withRef, name)]
        /\ globals' = DefinedIn(withRef, name)
        /\ co' = prev
  /\ Continue(<<>>)
  /\ UNCHANGED <<program, status>>

-----------------------------------------------------------------------------
(***************************************************************************)
(* compile(): gen() of the program into main, then OP_HALT.                *)
(***************************************************************************)
CompileStart ==
  /\ codeObjects = <<CodeObject("main", 0)>>
  /\ globals = InitialGlobals
  /\ co = 1
  /\ work = <<Gen(program), EmitTask(<<OP_HALT>>)>>
  /\ status = "compiling"

Init == program \in Programs /\ CompileStart

Compiled ==
  /\ status = "compiling"
  /\ work = <<>>
  /\ status' = "compiled"
  /\ UNCHANGED <<program, codeObjects, globals, co, work>>

GenStep ==
  \/ GenLiteral \/ GenVariable \/ GenMissing \/ Emit
  \/ GenBinary \/ GenCall \/ GenOther
  \/ GenIf \/ IfTested \/ IfConsequent \/ IfDone
  \/ GenWhile \/ WhileTested \/ WhileDone
  \/ GenVar \/ GenSet \/ VarDeclare \/ SetAssign
  \/ GenBegin \/ BlockItem \/ BlockDone
  \/ GenDef \/ DefDone
  \/ Compiled

\* Compilation is over: exec() goes on, or the process has exited.
Finished == status # "compiling" /\ UNCHANGED vars

Next == GenStep \/ Finished

Spec == Init /\ [][Next]_vars

\* gen() runs on the only thread of the process.
FairSpec == Spec /\ WF_vars(GenStep)

-----------------------------------------------------------------------------
Bytes == 0 .. BYTE - 1

\* The compiler's state: every byte is a byte, co names a code object, and
\* the activations that wait for a body restore an enclosing code object.
TypeOK ==
  /\ status \in {"compiling", "compiled", "died", "undefined"}
  /\ co \in DOMAIN codeObjects
  /\ \A f \in DOMAIN codeObjects :
       /\ codeObjects[f].code \in Seq(Bytes)
       /\ codeObjects[f].scopeLevel \in Nat
       /\ codeObjects[f].arity \in Nat
  /\ \A t \in DOMAIN work : work[t].kind = "enddef" => work[t].prevCo \in 1 .. co

\* No two globals share a name, so an index is as good as a name: define(),
\* addGlobal() and addNativeFunction() look before they add, however often a
\* variable or function is declared again.
NamesUnique ==
  \A i, j \in DOMAIN globals : globals[i].name = globals[j].name => i = j

IsExtension(new, old) ==
  /\ Len(new) >= Len(old)
  /\ \A i \in DOMAIN old : new[i] = old[i]

\* An index that was emitted as an operand keeps its meaning: compiling on
\* changes no constant, global or code object that has been given one.
IndexesKept ==
  [][/\ IsExtension(globals', globals)
     /\ Len(codeObjects') >= Len(codeObjects)
     /\ \A f \in DOMAIN codeObjects :
          /\ codeObjects'[f].name = codeObjects[f].name
          /\ codeObjects'[f].arity = codeObjects[f].arity
          /\ IsExtension(codeObjects'[f].constants, codeObjects[f].constants)]_vars

\* One of the two bytes before byte i has the code of a jump.
InAddress(code, i) ==
  \E j \in {i - 1, i - 2} : j \in DOMAIN code /\ code[j] \in JumpOps

\* Code that was emitted stays as it is, through all nestings of if, while and
\* def, but for bytes that were 0 and may be the address of an open jump: no
\* patch hits the opcode of another instruction, a byte that is not behind the
\* code of a jump, or an address that has been patched.  That the bytes are
\* the address of a jump whose if or while is still being compiled is the
\* invariant of VioLayout from which this is proved.
OnlyHolesPatched ==
  [][\A f \in DOMAIN codeObjects :
       LET old == codeObjects[f].code
           new == codeObjects'[f].code
       IN /\ Len(new) >= Len(old)
          /\ \A i \in DOMAIN old :
               new[i] # old[i] => old[i] = 0 /\ InAddress(old, i)]_vars

\* When compile() returns, every scope that was entered has been left again
\* and every def has given back the code object it was compiled from; main
\* has no locals left, and a function still has itself and its parameters
\* first, where its callers put them.
ScopesBalance ==
  status = "compiled" =>
    /\ co = 1
    /\ codeObjects[1].locals = <<>>
    /\ \A f \in DOMAIN codeObjects :
         /\ codeObjects[f].scopeLevel = 0
         /\ f # 1 => /\ Len(codeObjects[f].locals) >= codeObjects[f].arity + 1
                     /\ codeObjects[f].locals[1].name = codeObjects[f].name

\* gen() comes to the end of every expression, whatever its shape.
Compiles == <>(status # "compiling")
=============================================================================
