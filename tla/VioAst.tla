------------------------------- MODULE VioAst -------------------------------
(***************************************************************************)
(* Expressions as the parser hands them to the compiler: the struct Exp of *)
(* src/parser/VioParser.h.  An expression is the pair <<type, content>> of *)
(* its ExpType and the field that type uses: a number, the characters of a *)
(* string literal, the name of a symbol, or a list of expressions.         *)
(***************************************************************************)
EXTENDS Integers, Sequences

Num(n)     == <<"NUMBER", n>>
Str(chars) == <<"STRING", chars>>
Sym(name)  == <<"SYMBOL", name>>
List(exps) == <<"LIST", exps>>

\* Reading past the end of exp.list: there is no expression there.
Missing == <<"MISSING", "">>

ExpType(exp) == exp[1]

IsList(exp)   == ExpType(exp) = "LIST"
IsSymbol(exp) == ExpType(exp) = "SYMBOL"

\* exp.list, empty for the other types, and its element i, counted from 0.
Entries(exp) == IF IsList(exp) THEN exp[2] ELSE <<>>
Size(exp)    == Len(Entries(exp))
At(exp, i)   == IF i < Size(exp) THEN Entries(exp)[i + 1] ELSE Missing

\* exp.string: the name of a symbol or the characters of a literal, and empty
\* in a number and in a list.
Name(exp) == IF ExpType(exp) \in {"SYMBOL", "STRING"} THEN exp[2] ELSE ""

\* isTaggedList: a list that starts with the symbol tag.
IsTaggedList(exp, tag) == IsList(exp) /\ At(exp, 0) = Sym(tag)

IsVarDeclaration(exp) == IsTaggedList(exp, "var")
IsBlock(exp)          == IsTaggedList(exp, "begin")
=============================================================================
