------------------------------ MODULE VioValue ------------------------------
(***************************************************************************)
(* Values and code objects of Violang, from src/vm/VioValue.h.             *)
(*                                                                         *)
(* A value is the pair <<type, payload>> of the tagged union VioValue.     *)
(* The payload of a heap object stands for the object: a string object is  *)
(* its sequence of characters, a code or function object is the index of   *)
(* the code object in VioCompiler::codeObjects_ (each FunctionObject is    *)
(* allocated together with its CodeObject), a native object is its name.   *)
(***************************************************************************)
EXTENDS Integers, Sequences

NUMBER(n)         == <<"NUMBER", n>>
BOOLEAN_VALUE(b)  == <<"BOOLEAN", b>>
STRING_VALUE(s)   == <<"STRING", s>>
CODE(k)           == <<"CODE", k>>
FUNCTION(k)       == <<"FUNCTION", k>>
NATIVE(name)      == <<"NATIVE", name>>

\* What a stack slot holds before anything was pushed there: std::array
\* leaves its elements uninitialized.
Indeterminate == <<"INDETERMINATE", 0>>

ValueTypes == {"NUMBER", "BOOLEAN", "STRING", "CODE", "FUNCTION", "NATIVE"}

TypeOf(v)  == v[1]
Payload(v) == v[2]

IS_NUMBER(v)   == TypeOf(v) = "NUMBER"
IS_BOOLEAN(v)  == TypeOf(v) = "BOOLEAN"
IS_STRING(v)   == TypeOf(v) = "STRING"
IS_NATIVE(v)   == TypeOf(v) = "NATIVE"
IS_FUNCTION(v) == TypeOf(v) = "FUNCTION"

(***************************************************************************)
(* Both CodeObject::getLocalIndex and Global::getGlobalIndex scan their    *)
(* table from the back: the innermost, latest entry of a name wins.  The   *)
(* result is a 0-based index, -1 when there is none.                       *)
(***************************************************************************)
Named(table, name) == {i \in DOMAIN table : table[i].name = name}

\* Mutated form of LastIndex: the scan starts at the front.
FirstIndex(table, name) ==
  IF Named(table, name) = {} THEN -1
  ELSE (CHOOSE i \in Named(table, name) :
          \A j \in Named(table, name) : i <= j) - 1

LastIndex(table, name) ==
  IF Named(table, name) = {} THEN -1
  ELSE (CHOOSE i \in Named(table, name) :
          \A j \in Named(table, name) : j <= i) - 1

CodeObject(name, arity) ==
  [name |-> name, arity |-> arity, constants |-> <<>>, code |-> <<>>,
   scopeLevel |-> 0, locals |-> <<>>]

LocalVar(name, level) == [name |-> name, scopeLevel |-> level]

getLocalIndex(code, name) == LastIndex(code.locals, name)

\* addLocal records the variable at the code object's current scope level.
addLocal(code, name) ==
  [code EXCEPT !.locals = Append(@, LocalVar(name, code.scopeLevel))]

addConst(code, value) == [code EXCEPT !.constants = Append(@, value)]
=============================================================================
