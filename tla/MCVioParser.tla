---------------------------- MODULE MCVioParser ----------------------------
(***************************************************************************)
(* Texts for the parser: all short ones of single characters, and all      *)
(* sequences of a few words, which nest deeper and span lines.             *)
(***************************************************************************)
EXTENDS VioParsing, CommandLine

SomeLetters == {"a", "b", "e", "g", "i", "n"}

Characters == {"(", ")", "/", "*", " ", "\n", "\r", "\"", "1", "a", "?"}

Words == {<<"(">>, <<")">>, <<"a", " ">>, <<"1", "\n">>, <<"\"", "\n", "a", "\"">>,
          <<"/", "*", "\n", "\n", "*", "/">>, <<"/", "/", "a", "\n">>, <<"?">>}

Brackets == {<<"(">>, <<")">>, <<"a", " ">>}

Number(last) == <<"2", "1", "4", "7", "4", "8", "3", "6", "4", last>>

Sequences(S, n) == UNION {[1 .. k -> S] : k \in 0 .. n}

Texts1 == Sequences(Characters, 3) \cup Sequences({"/", "*", "\"", "\n", "\r", "1"}, 4)
Texts2 == {FlattenSeq(words) : words \in Sequences(Words, 4)}
Texts3 == {FlattenSeq(words) : words \in Sequences(Brackets, 7)}
Texts4 == {Number("7"), Number("8"), <<"(">> \o Number("8") \o <<")">>}

\* Programs, with what they are to be parsed as, and comments behind them.
Written(text, exp) == [text |-> text, exp |-> exp]

Programs == {Written(<<"a", " ">>, <<Sym(<<"a">>)>>),
             Written(<<"(", "1", ")", "\"", "\"">>, <<List(<<Num(1)>>), Str(<<>>)>>),
             Written(<<>>, <<>>)}

Comments == {<<>>, <<"/", "*", "e", "*", "/">>, <<"/", "/", "e">>}

FileText(p, comment) == Wrapped(ProgramText("-f", p.text \o comment))

ProgramTexts ==
  {Wrapped(ProgramText(mode, p.text \o c)) : mode \in Modes, p \in Programs, c \in Comments}

AllTexts == Texts1 \cup Texts2 \cup Texts3 \cup Texts4 \cup ProgramTexts

BEGIN == Sym(<<"b", "e", "g", "i", "n">>)

\* A comment is nothing, also at the end of a file: the parenthesis that exec()
\* puts behind the program is read, because main() ends the last line first.
FilesParse ==
  \A p \in Programs, c \in Comments :
    str = FileText(p, c) =>
      /\ status # "thrown"
      /\ status = "accepted" => result = List(<<BEGIN>> \o p.exp)
=============================================================================
