---------------------------- MODULE VioSemantics ----------------------------
(***************************************************************************)
(* What a program of the language means, with no bytecode, stack or table  *)
(* of indexes: variables are looked up by name.  It is the reference that  *)
(* the compiler and the machine together are checked against, for programs *)
(* whose expressions all have a value (an if has both branches, operators  *)
(* get operands of one type, calls the arguments their functions declare). *)
(*                                                                         *)
(* A state s of the evaluation has                                         *)
(*   val      the value of the expression evaluated last                   *)
(*   locals   the variables of the running function, innermost last        *)
(*   globals  a function from the names of globals to values               *)
(*   inner    FALSE in the outermost block of main, where variables are    *)
(*            declared as globals                                          *)
(* A function's value is <<"FUNCTION", its def expression>>.               *)
(***************************************************************************)
EXTENDS VioAst, VioValue, FiniteSetsExt, TLC

Binding(name, value) == [name |-> name, value |-> value]

InitialState ==
  [val |-> NUMBER(0), locals |-> <<>>, inner |-> FALSE,
   globals |-> ("native-square" :> NATIVE("native-square")) @@ ("y" :> NUMBER(20))]

\* The variables of that name in sight; the innermost one is the last.
Locals(s, name)  == {i \in DOMAIN s.locals : s.locals[i].name = name}
IsLocal(s, name) == Locals(s, name) # {}
Innermost(s, name) == Max(Locals(s, name))

LookUp(s, name) == IF IsLocal(s, name) THEN s.locals[Innermost(s, name)].value
                                       ELSE s.globals[name]

Bound(s, name) == [s EXCEPT !.globals = (name :> s.val) @@ @]

\* set: the innermost local of that name, or the global.
Stored(s, name) ==
  IF IsLocal(s, name)
  THEN [s EXCEPT !.locals[Innermost(s, name)].value = s.val]
  ELSE Bound(s, name)

\* var and def: a new local, or a global.
Declared(s, name) ==
  IF s.inner THEN [s EXCEPT !.locals = Append(@, Binding(name, s.val))]
             ELSE Bound(s, name)

(***************************************************************************)
(* Operators.  Arithmetic takes its operands from last to first: (- 1 x)   *)
(* is x - 1, as the factorial in the comments of vio-vm.cpp has it.        *)
(***************************************************************************)
Symbols == {"+", "-", "*", "/", "<", ">", "==", ">=", "<=", "!="}

Before(v, w) ==
  IF IS_NUMBER(v) THEN Payload(v) < Payload(w)
  ELSE LET s == Payload(v)
           t == Payload(w)
       IN \/ Len(s) < Len(t) /\ s = SubSeq(t, 1, Len(s))
          \/ \E i \in 1 .. Len(s) :
               /\ i <= Len(t) /\ s[i] < t[i]
               /\ SubSeq(s, 1, i - 1) = SubSeq(t, 1, i - 1)

Apply(op, v, w) ==
  LET a == Payload(v)
      b == Payload(w)
  IN CASE op = "<"  -> BOOLEAN_VALUE(Before(v, w))
       [] op = ">"  -> BOOLEAN_VALUE(Before(w, v))
       [] op = "==" -> BOOLEAN_VALUE(a = b)
       [] op = ">=" -> BOOLEAN_VALUE(~ Before(v, w))
       [] op = "<=" -> BOOLEAN_VALUE(~ Before(w, v))
       [] op = "!=" -> BOOLEAN_VALUE(a # b)
       [] op \in {"+", "-", "*", "/"} /\ IS_STRING(v) -> STRING_VALUE(a \o b)
       [] op = "+" -> NUMBER(b + a)
       [] op = "-" -> NUMBER(b - a)
       [] op = "*" -> NUMBER(b * a)
       [] op = "/" -> NUMBER(b \div a)

-----------------------------------------------------------------------------
RECURSIVE Eval(_, _), EvalAll(_, _, _), EvalBlock(_, _, _)

\* The values of exps[i], exps[i + 1], ..., and the state they leave.
EvalAll(exps, i, s) ==
  IF i > Len(exps) THEN [vals |-> <<>>, s |-> s]
  ELSE LET first == Eval(exps[i], s)
           rest  == EvalAll(exps, i + 1, first)
       IN [vals |-> <<first.val>> \o rest.vals, s |-> rest.s]

EvalBlock(exps, i, s) ==
  IF i > Len(exps) THEN s ELSE EvalBlock(exps, i + 1, Eval(exps[i], s))

\* A call: the caller's variables are out of sight until it returns.
Called(f, args, s) ==
  IF IS_NATIVE(f)
  THEN [s EXCEPT !.val = NUMBER(Payload(args[1]) * Payload(args[1]))]
  ELSE LET def    == Payload(f)
           params == Entries(At(def, 2))
           frame  == <<Binding(Name(At(def, 1)), f)>>
                     \o [i \in DOMAIN params |-> Binding(Name(params[i]), args[i])]
           end    == Eval(At(def, 3), [s EXCEPT !.locals = frame, !.inner = TRUE])
       IN [end EXCEPT !.locals = s.locals, !.inner = s.inner]

Eval(exp, s) ==
  CASE ExpType(exp) = "NUMBER" -> [s EXCEPT !.val = NUMBER(exp[2])]
    [] ExpType(exp) = "STRING" -> [s EXCEPT !.val = STRING_VALUE(exp[2])]
    [] IsSymbol(exp) /\ Name(exp) \in {"true", "false"} ->
         [s EXCEPT !.val = BOOLEAN_VALUE(Name(exp) = "true")]
    [] IsSymbol(exp) /\ Name(exp) \notin {"true", "false"} ->
         [s EXCEPT !.val = LookUp(s, Name(exp))]
    [] IsList(exp) ->
         LET op == Name(At(exp, 0))
         IN CASE op \in Symbols ->
                   LET e == EvalAll(Tail(Entries(exp)), 1, s)
                   IN [e.s EXCEPT !.val = Apply(op, e.vals[1], e.vals[2])]
              [] op = "if" ->
                   LET test == Eval(At(exp, 1), s)
                   IN Eval(At(exp, IF Payload(test.val) THEN 2 ELSE 3), test)
              [] op = "var" -> Declared(Eval(At(exp, 2), s), Name(At(exp, 1)))
              [] op = "set" -> Stored(Eval(At(exp, 2), s), Name(At(exp, 1)))
              [] op = "def" -> Declared([s EXCEPT !.val = <<"FUNCTION", exp>>],
                                        Name(At(exp, 1)))
              [] op = "begin" ->
                   LET end == EvalBlock(Tail(Entries(exp)), 1, [s EXCEPT !.inner = TRUE])
                   IN [end EXCEPT !.locals = SubSeq(@, 1, Len(s.locals)),
                                  !.inner = s.inner]
              [] OTHER ->
                   LET e == EvalAll(Entries(exp), 1, s)
                   IN Called(e.vals[1], Tail(e.vals), e.s)

\* The outermost block of a program is main's global scope.
Meaning(program) == EvalBlock(Tail(Entries(program)), 1, InitialState)
=============================================================================
