------------------------------- MODULE Global -------------------------------
(***************************************************************************)
(* The table of global variables, from src/vm/Global.h: a vector of named  *)
(* values shared by the compiler, which adds names and hands out indexes,  *)
(* and by the VM, which reads and writes values through those indexes.     *)
(* Every operator is pure: it maps a table to a table or to an index.      *)
(***************************************************************************)
EXTENDS VioValue

GlobalVar(name, value) == [name |-> name, value |-> value]

getGlobalIndex(globals, name) == LastIndex(globals, name)

exists(globals, name) == getGlobalIndex(globals, name) # -1

\* Mutated form of define: it does not look for the name first.
defineAgain(globals, name) == Append(globals, GlobalVar(name, NUMBER(0)))

\* define() registers a name once, with the default number 0.
define(globals, name) ==
  IF exists(globals, name) THEN globals
  ELSE Append(globals, GlobalVar(name, NUMBER(0)))

addGlobal(globals, name, number) ==
  IF exists(globals, name) THEN globals
  ELSE Append(globals, GlobalVar(name, NUMBER(number)))

addNativeFunction(globals, name) ==
  IF exists(globals, name) THEN globals
  ELSE Append(globals, GlobalVar(name, NATIVE(name)))

\* VioVM::setGlobalVariables, run by the constructor of the VM.
InitialGlobals == addGlobal(addNativeFunction(<<>>, "native-square"), "y", 20)
=============================================================================
