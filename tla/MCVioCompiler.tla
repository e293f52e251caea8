--------------------------- MODULE MCVioCompiler ---------------------------
EXTENDS VioDisassembler, VioCompilerSafety, VioPrograms

(***************************************************************************)
(* Expressions of every form, also of those that compile to code the       *)
(* machine cannot run, nested three deep in the places gen() recurses to.  *)
(***************************************************************************)
Leaves == {Num(1), Str(<<1>>), Sym("true"), Sym("x"), Sym("y"), Sym("undeclared")}

Wraps(e) ==
  {Bin("+", e, Num(2)), Bin("<", Num(2), e), If(Sym("x"), e, Num(3)),
   If(e, Num(3), e), IfOnly(Sym("x"), e), While(Sym("x"), e), While(e, Num(4)),
   VarDecl("x", e), VarDecl("z", e), Assign("x", e), Assign("z", e),
   Begin(<<e>>), Begin(<<VarDecl("z", Num(5)), e, Sym("z")>>), Begin(<<>>),
   Def("f", <<"p", "x">>, e), Def("g", <<>>, Begin(<<e, Sym("g")>>)),
   Def("main", <<"p">>, Begin(<<VarDecl("q", e), Sym("p")>>)),
   CallTo("native-square", <<e, e>>), List(<<Num(1), e>>)}

\* Lists too short for their form.
Broken == {List(<<>>), List(<<Sym("+")>>), List(<<Sym("if"), Num(1)>>),
           List(<<Sym("var")>>), List(<<Sym("set")>>), List(<<Sym("def")>>),
           List(<<Sym("def"), Sym("f"), List(<<>>)>>), List(<<Sym("while")>>)}

\* Numbers and lists in the place of names.
Nameless == {List(<<Sym("var"), Num(5), Num(1)>>), List(<<Sym("set"), Num(5), Num(1)>>),
             List(<<Sym("def"), List(<<>>), List(<<Num(1), Sym("p")>>), Sym("p")>>)}

Nested(S) == UNION {Wraps(e) : e \in S}

Forms == Broken \cup Leaves \cup Nested(Leaves \cup Broken \cup Nameless)
           \cup Nested(Nested({Num(1), Sym("x")}))

\* A function with a variable of its own.
ScopedPrograms ==
  {Program(<<Def("f", <<"x">>, Begin(<<VarDecl("z", Num(5)), Sym("z")>>))>>)}

FormPrograms ==
  {Program(<<VarDecl("x", Num(1)), Def("f", <<"x">>, Sym("x")), e, Sym("x")>>) : e \in Forms}

\* The programs with their parts, down to the leaves.
WithParts(exps) == exps \cup Parts(exps)

FormParts == WithParts(WithParts(WithParts(WithParts(WithParts(FormPrograms)))))

ScopedParts == WithParts(WithParts(WithParts(WithParts(ScopedPrograms))))
=============================================================================
