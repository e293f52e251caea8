----------------------------- MODULE MCViolang -----------------------------
EXTENDS VioCorrectness, VioPrograms, TLC

\* The programs with their parts, down to the leaves.
WithParts(exps) == exps \cup Parts(exps)

FourLevels(exps) == WithParts(WithParts(WithParts(WithParts(exps))))

ProgramParts == FourLevels(FourLevels(FourLevels(Programs)))

(***************************************************************************)
(* Supported programs: a global x, a function f of two parameters, and an  *)
(* expression that calls it.  The bodies are expressions or blocks with    *)
(* variables of their own; no while, no if without an alternative, no      *)
(* variable declared where an operand is pending, no def inside a function.*)
(***************************************************************************)
Scalars == {Sym("a"), Sym("x"), Num(3)}

Simple == Scalars
  \cup {Bin(op, u, v) : op \in {"+", "-"}, u \in {Sym("a"), Num(3)}, v \in {Sym("b"), Sym("x")}}

Conditions == {Bin(op, Sym("a"), Sym("x")) : op \in {"<", ">", "==", ">=", "<=", "!="}}

Branching == {If(t, u, v) : t \in Conditions, u \in {Num(3), Assign("x", Sym("b"))},
                            v \in {Sym("b"), Begin(<<Assign("b", Num(4)), Sym("b")>>)}}

Countdown ==
  If(Bin("<", Sym("a"), Num(1)), Sym("b"),
     CallTo("f", <<Bin("-", Num(1), Sym("a")), Bin("+", Sym("b"), Sym("x"))>>))

Blocks ==
  {Begin(<<VarDecl("s", e), Assign(t, Bin("*", Sym("s"), Num(2))), l>>) :
     e \in {Sym("b"), Bin("-", Num(3), Sym("a"))}, t \in {"s", "a", "x"},
     l \in {Sym("a"), Bin("+", Sym("s"), Sym("x"))}}

Shadowing ==
  {Begin(<<VarDecl("s", Sym("b")),
           Begin(<<VarDecl(n, Num(5)), VarDecl("t", Sym("a")),
                   Assign(m, Bin("+", Sym("t"), Sym(n)))>>),
           If(Bin(">", Sym("s"), Sym("a")),
              Begin(<<VarDecl("t", Num(8)), Assign("x", Sym("t"))>>),
              Sym("s")),
           Bin("-", Sym("a"), Sym("s"))>>) :
     n \in {"s", "a", "u"}, m \in {"s", "a", "t", "x"}}

Bodies == Simple \cup {Begin(<<e>>) : e \in Branching} \cup {Countdown} \cup Blocks \cup Shadowing

F(u, v) == CallTo("f", <<u, v>>)

Uses == {F(Num(1), Num(2)),
         Bin("+", F(Num(2), Num(6)), Sym("y")),
         Bin("-", Num(9), F(F(Num(2), Sym("x")), Num(4))),
         Begin(<<F(Num(3), Num(3)), If(Sym("true"), Sym("x"), Sym("f"))>>)}

(***************************************************************************)
(* The largest program whose indexes fit a byte: 256 globals, the native   *)
(* function and y included, 256 constants in main's pool, and a conditional*)
(* jump over more than 256 bytes.                                          *)
(***************************************************************************)
GlobalName(i) == "g" \o ToString(i)

BoundaryPrograms ==
  {Program([i \in 1 .. 254 |-> VarDecl(GlobalName(i), Num(i))]
          \o <<Assign("g254", Num(255)),
               If(Bin(">", Sym("g253"), Num(256)),
                  Begin([i \in 1 .. 100 |-> Num(i)]),
                  Bin("-", Sym("g253"), Sym("g254")))>>)}

SupportedPrograms ==
  {Program(<<VarDecl("x", Num(3)), Def("f", <<"a", "b">>, body), use>>) :
     body \in Bodies, use \in Uses}
  \cup BoundaryPrograms
  \cup {Locals(2), Natives(3), EvenOdd(3), HigherOrder(1), Factorial(4)}
  \cup {Program(<<Def("k", <<>>, Bin("*", Sym("y"), Num(2))),
                  Bin("/", Num(2), CallTo("k", <<>>))>>),
        Program(<<Def("k", <<>>, Begin(<<VarDecl("z", Num(1)), Sym("k")>>)),
                  CallTo("k", <<>>), VarDecl("w", Sym("k"))>>)}

(***************************************************************************)
(* Programs of the findings.                                               *)
(***************************************************************************)

\* The example of the language in README.md, its conditions as lists.
Add10 == Assign("x", Bin("+", Sym("x"), Num(10)))

ReadmeExample ==
  {Program(<<VarDecl("x", Num(15)),
             IfOnly(Bin(">", Sym("x"), Num(10)), Add10),
             While(Bin("<", Sym("x"), Num(100)), Add10)>>)}

\* Its first two lines, with a value of x that fails the condition.
ReadmeCondition ==
  {Program(<<VarDecl("x", Num(5)), IfOnly(Bin(">", Sym("x"), Num(10)), Add10)>>)}

Defining(params, body, args) ==
  {Program(<<Def("f", params, body),
             Bin("+", Num(1), Bin("+", Num(2), Bin("+", Num(3), CallTo("f", args))))>>)}

\* A block below a function body that is not a block itself.
BlockInBranch ==
  Defining(<<"a">>, If(Bin("<", Sym("a"), Num(2)), Num(7), Begin(<<Num(1), Sym("a")>>)),
           <<Num(5)>>)

\* A function without parameters and variables whose body is a block.
NoParameters == Defining(<<>>, Begin(<<Num(5)>>), <<>>)

\* A function defined in a function.
LocalFunction ==
  Defining(<<"a">>, Begin(<<Def("g", <<"b">>, Sym("b")), CallTo("g", <<Sym("a")>>)>>),
           <<Num(5)>>)

\* Three functions that return with more or less than their result.
MisfitFrames == BlockInBranch \cup NoParameters \cup LocalFunction

\* A variable declared while the first operand of + is on the stack.
PendingOperand ==
  Defining(<<"a">>,
           Begin(<<Bin("+", Sym("a"), Begin(<<VarDecl("z", Num(5)), Sym("z")>>))>>),
           <<Num(1)>>)
=============================================================================
