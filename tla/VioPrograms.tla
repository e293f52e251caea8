---------------------------- MODULE VioPrograms ----------------------------
(***************************************************************************)
(* Shorthands for the expressions of the language, and the program that    *)
(* exec() of src/vm/VioVM.h parses: the text wrapped in a block.           *)
(***************************************************************************)
EXTENDS VioAst

\* A name stands for the symbol wherever an expression is expected.
Form(op, args) == List(<<Sym(op)>> \o args)

Bin(op, a, b)           == Form(op, <<a, b>>)
If(test, then, else)    == Form("if", <<test, then, else>>)
IfOnly(test, then)      == Form("if", <<test, then>>)
While(test, body)       == Form("while", <<test, body>>)
VarDecl(name, exp)      == Form("var", <<Sym(name), exp>>)
Assign(name, exp)       == Form("set", <<Sym(name), exp>>)
Begin(exps)             == Form("begin", exps)
Def(name, params, body) ==
  Form("def", <<Sym(name), List([i \in DOMAIN params |-> Sym(params[i])]), body>>)
CallTo(name, args)      == Form(name, args)

\* exec(): "(begin " + program + ")".
Program(exps) == Begin(exps)

-----------------------------------------------------------------------------
(***************************************************************************)
(* Programs with functions.  The value of n drives how often they recurse. *)
(***************************************************************************)

\* The program in the comments of vio-vm.cpp; (- 1 x) is x - 1.
Factorial(n) ==
  Program(<<Def("factorial", <<"x">>,
              If(Bin("==", Sym("x"), Num(1)), Num(1),
                 Bin("*", Sym("x"),
                     CallTo("factorial", <<Bin("-", Num(1), Sym("x"))>>)))),
            CallTo("factorial", <<Num(n)>>)>>)

\* Locals of a function body and of a nested block; calls as arguments.
Locals(n) ==
  Program(<<Def("f", <<"a", "b">>,
              Begin(<<VarDecl("s", Bin("+", Sym("a"), Sym("b"))),
                      Begin(<<VarDecl("t", Bin("*", Sym("s"), Num(2))),
                              VarDecl("a", Sym("b")),
                              Assign("s", Bin("+", Sym("t"), Sym("a")))>>),
                      Bin("-", Sym("a"), Sym("s"))>>)),
            Bin("+", Num(7),
                CallTo("f", <<Num(n), CallTo("f", <<Num(1), Num(2)>>)>>))>>)

\* Native and user functions, globals read and written inside a function.
Natives(n) ==
  Program(<<VarDecl("count", Num(0)),
            Def("sq", <<"x">>,
              Begin(<<Assign("count", Bin("+", Sym("count"), Num(1))),
                      CallTo("native-square", <<Sym("x")>>)>>)),
            VarDecl("r", Bin("+", CallTo("sq", <<Num(n)>>),
                             CallTo("sq", <<Sym("y")>>))),
            Bin("+", Sym("r"), Sym("count"))>>)

\* Mutual recursion through the table of globals.
EvenOdd(n) ==
  Program(<<VarDecl("odd", Num(0)),
            Def("even", <<"k">>,
              If(Bin("==", Sym("k"), Num(0)), Sym("true"),
                 CallTo("odd", <<Bin("-", Num(1), Sym("k"))>>))),
            Def("odd", <<"k">>,
              If(Bin("==", Sym("k"), Num(0)), Sym("false"),
                 CallTo("even", <<Bin("-", Num(1), Sym("k"))>>))),
            CallTo("even", <<Num(n)>>)>>)

\* Functions are values: passed, stored in a global, called through a
\* parameter.  Strings are compared and concatenated.
HigherOrder(n) ==
  Program(<<Def("twice", <<"g", "v">>,
              CallTo("g", <<CallTo("g", <<Sym("v")>>)>>)),
            Def("label", <<"v">>,
              If(Bin("<", Sym("v"), Str(<<2>>)), Bin("+", Sym("v"), Str(<<n>>)),
                 Str(<<>>))),
            VarDecl("h", Sym("label")),
            CallTo("twice", <<Sym("h"), Str(<<n>>)>>)>>)

\* Recursion that only the end of the operand stack stops.
Endless(n) ==
  Program(<<Def("down", <<"x">>,
              Bin("+", Num(n), CallTo("down", <<Sym("x")>>))),
            CallTo("down", <<Num(0)>>)>>)
=============================================================================
