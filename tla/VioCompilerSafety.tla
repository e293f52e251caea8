------------------------- MODULE VioCompilerSafety -------------------------
(***************************************************************************)
(* What holds inside gen() of src/compiler/VioCompiler.h at every moment:  *)
(* the activations that wait on the C++ stack know which code object they  *)
(* will find in co, and at which scope level, when they are resumed.       *)
(***************************************************************************)
EXTENDS VioCompiler, VioVerifier

CONSTANT Expressions   \* the expressions that parse() builds, parts included

Parts(exps) == UNION {{Entries(e)[i] : i \in DOMAIN Entries(e)} : e \in exps}

ASSUME ExpressionsAreTrees ==
  /\ Programs \subseteq Expressions
  /\ Parts(Expressions) \subseteq Expressions
  /\ \A e \in Expressions : IsVector(Entries(e))

\* exec() wraps the text of a program in (begin ...).
ASSUME ProgramsAreBlocks == \A p \in Programs : IsBlock(p)

-----------------------------------------------------------------------------
(***************************************************************************)
(* Code objects.                                                           *)
(***************************************************************************)

\* Locals lie in the order of their scopes, none deeper than the open one.
LocalsNested(c) ==
  /\ IsVector(c.locals)
  /\ \A i \in DOMAIN c.locals : c.locals[i].scopeLevel \in 0 .. c.scopeLevel
  /\ \A i, j \in DOMAIN c.locals :
       i <= j => c.locals[i].scopeLevel <= c.locals[j].scopeLevel

IsCodeObject(c) ==
  /\ c = [name |-> c.name, arity |-> c.arity, constants |-> c.constants,
          code |-> c.code, scopeLevel |-> c.scopeLevel, locals |-> c.locals]
  /\ c.arity \in Nat
  /\ c.scopeLevel \in Nat
  /\ c.code \in Seq(Bytes)
  /\ IsVector(c.constants)
  /\ LocalsNested(c)

\* A function's first locals are itself and its parameters, outside any scope.
ParametersFirst(c) ==
  /\ Len(c.locals) >= c.arity + 1
  /\ c.locals[1].name = c.name
  /\ \A i \in 1 .. c.arity + 1 : c.locals[i].scopeLevel = 0

\* All that main declares is in a scope.
LocalsScoped(c) == \A i \in DOMAIN c.locals : c.locals[i].scopeLevel # 0

CodeObjectsOK ==
  /\ IsVector(codeObjects)
  /\ \A f \in DOMAIN codeObjects :
       /\ IsCodeObject(codeObjects[f])
       /\ IF f = 1 THEN LocalsScoped(codeObjects[f])
                   ELSE ParametersFirst(codeObjects[f])
  /\ co \in DOMAIN codeObjects

\* The constants are numbers, strings and booleans, and functions and code
\* objects that have been made; so are the values of the globals.
ValuesExist ==
  /\ \A f \in DOMAIN codeObjects :
       \A i \in DOMAIN codeObjects[f].constants :
         IsValue(codeObjects, codeObjects[f].constants[i])
  /\ \A i \in DOMAIN globals : IsValue(codeObjects, globals[i].value)

-----------------------------------------------------------------------------
(***************************************************************************)
(* Pending activations.                                                    *)
(***************************************************************************)
IsTask(t) ==
  /\ t.kind \in {"gen", "if", "else", "while", "block", "enddef"}
       => t.exp \in Expressions \cup {Missing}
  /\ t.kind = "emit" => t.bytes \in Seq(Bytes)
  /\ t.kind \in {"while", "loop"} => t.loopStartAddr \in Nat
  /\ t.kind = "block" => /\ t = [kind |-> "block", exp |-> t.exp, i |-> t.i]
                         /\ t.i \in Nat

WorkOK == IsVector(work) /\ \A i \in DOMAIN work : IsTask(work[i])

\* The activation at a height above the bottom of the C++ stack.
AtHeight(d) == work[Len(work) + 1 - d]

\* When activation t is done, what it found as <<o, l>>, the code object in co
\* and its scope level, has become <<o0, l0>>, which the one below it finds: a
\* block leaves its scope, and a def gives back the code object it was found in.
Link(t, o0, l0, o, l) ==
  /\ t.kind = "block"  => o0 = o /\ l = l0 + 1
  /\ t.kind = "enddef" => /\ o0 = t.prevCo /\ o0 < o
                          /\ l = 0 /\ l0 = codeObjects[o0].scopeLevel
                          /\ o0 = 1 => l0 # 0
  /\ t.kind \notin {"block", "enddef"} => o0 = o /\ l = l0

\* Outside the block of the program there is only the block, and OP_HALT.
IsOuter(t) == t.kind = "emit" \/ (t.kind = "gen" /\ IsBlock(t.exp))

\* owner[d] and level[d]: what co and its scope level will be when the
\* activation at height d is resumed.
Pending(owner, level) ==
  LET n == Len(work)
  IN /\ \A d \in 0 .. n : owner[d] \in DOMAIN codeObjects /\ level[d] \in Nat
     /\ owner[n] = co /\ level[n] = CO.scopeLevel
     /\ owner[0] = 1 /\ level[0] = 0
     /\ \A d, e \in 0 .. n : d <= e => owner[d] <= owner[e]
     /\ \A d \in 1 .. n :
          /\ Link(AtHeight(d), owner[d - 1], level[d - 1], owner[d], level[d])
          /\ owner[d] = 1 /\ level[d] = 0 => IsOuter(AtHeight(d))
     /\ \A f \in DOMAIN codeObjects :
          (\A d \in 0 .. n : owner[d] # f) => codeObjects[f].scopeLevel = 0

CInv ==
  /\ status \in {"compiling", "compiled", "died", "undefined"}
  /\ status = "compiled" => work = <<>>
  /\ CodeObjectsOK
  /\ WorkOK
  /\ IsVector(globals)
  /\ NamesUnique
  /\ \E owner, level : Pending(owner, level)
=============================================================================
