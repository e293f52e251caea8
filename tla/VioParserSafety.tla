-------------------------- MODULE VioParserSafety --------------------------
(***************************************************************************)
(* What parse() promises of the tokens it reads: where they lie in the     *)
(* text, which sequences of them it takes, and where it says that an error *)
(* is.  The grammar is that of S-expressions, said here without an         *)
(* automaton.  A token counts by what it stands for: a parenthesis, or the *)
(* atom it is.                                                             *)
(***************************************************************************)
EXTENDS VioParser

Open  == <<"OPEN", "">>
Close == <<"CLOSE", "">>
End   == <<"END", "">>

Item(t) == CASE t.type = "TOKEN_TYPE_7" -> Open
             [] t.type = "TOKEN_TYPE_8" -> Close
             [] t.type = "NUMBER" -> Num(stoi(t.text))
             [] t.type = "STRING" -> Str(SubSeq(t.text, 2, Len(t.text) - 1))
             [] t.type = "SYMBOL" -> Sym(t.text)
             [] t.type = "EOF" -> End

Items(tokens) == [i \in DOMAIN tokens |-> Item(tokens[i])]

\* Parentheses that the first n items leave open.
Depth(items, n) == Cardinality({i \in 1 .. n : items[i] = Open})
                   - Cardinality({i \in 1 .. n : items[i] = Close})

IsExpression(items) ==
  /\ items # <<>>
  /\ \A n \in 1 .. Len(items) - 1 : Depth(items, n) > 0
  /\ Depth(items, Len(items)) = 0
  /\ items[Len(items)] # End

\* The start of an expression, or the whole of one and its end.
IsBeginning(items) ==
  \/ \A n \in 1 .. Len(items) : Depth(items, n) > 0 /\ items[n] # End
  \/ IsExpression(items)
  \/ Last(items) = End /\ IsExpression(Front(items))

-----------------------------------------------------------------------------
\* What may be left out of a program: blanks, the rest of a line, or a comment
\* up to its first closing mark.
IsIgnored(piece) ==
  \/ Range(piece) \subseteq Blanks
  \/ IsPrefix(<<"/", "/">>, piece) /\ Range(piece) \cap {"\n", "\r"} = {}
  \/ /\ IsPrefix(<<"/", "*">>, piece)
     /\ Len(piece) >= 4
     /\ \A n \in 4 .. Len(piece) :
          n = Len(piece) <=> piece[n - 1] = "*" /\ piece[n] = "/"

\* Which beginnings of s can be cut into pieces to be left out.
Ignorable(s) ==
  LET fits[n \in 0 .. Len(s)] ==
        n = 0 \/ \E m \in 0 .. n - 1 : fits[m] /\ IsIgnored(SubSeq(s, m + 1, n))
  IN fits

AllIgnored(s) == Ignorable(s)[Len(s)]

\* The offset at which the i-th token ends, and the text between it and the
\* one before it.
EndOf(i)   == IF i = 0 THEN 0 ELSE read[i].start + Len(read[i].text)
Skipped(i) == SubSeq(str, EndOf(i - 1) + 1, read[i].start)

\* Between two tokens there are only blanks and comments: no comment goes on
\* over code, whatever comments come after it.
SkipsOnlyComments == \A i \in DOMAIN read : AllIgnored(Skipped(i))

\* The tokens that parse() has shifted.
Shifted == IF status = "scanning" THEN read ELSE Front(read)

\* parse() returns only for texts whose tokens are one expression.
AcceptsExpressions == status = "accepted" => IsExpression(Items(Front(read)))

\* What was shifted is the beginning of an expression, and parse() gives up
\* only at a token that cannot follow, at a character no rule takes, or at a number
\* that is no int.
GivesUpOnTime ==
  [][/\ status # "thrown" => IsBeginning(Items(Shifted))
     /\ status' = "thrown" =>
          IF status = "scanning" THEN Rest # <<>> /\ Matching(Rest) = {}
          ELSE \/ ~ IsBeginning(Items(read))
               \/ \E i \in DOMAIN read : Item(read[i]) = Num(OutOfRange)]_vars

-----------------------------------------------------------------------------
LineEnds(offset) == {i \in DOMAIN str : i <= offset /\ str[i] = "\n"}

\* The offset at which the line of an offset begins.
LineStart(offset) == IF LineEnds(offset) = {} THEN 0 ELSE Max(LineEnds(offset))

\* The place of an offset as a reader of the text counts it.
TruePlace(offset) ==
  Place(1 + Cardinality(LineEnds(offset)), offset - LineStart(offset))

\* A message names the line and column of the text that caused it, whatever
\* blanks, comments and strings of several lines came before.
ReportsTruePlace ==
  [][report' # report =>
       report' = TruePlace(IF status = "scanning" THEN cursor ELSE token.start)]_vars

-----------------------------------------------------------------------------
(***************************************************************************)
(* The inductive invariant.                                                *)
(***************************************************************************)
Tokens == [type : AnyToken, text : Seq(Range(str) \cup {"$"}), start : Nat,
           place : [line : Nat, column : Int]]

\* The tokens returned are in the text, one after the other.
TokensOK ==
  /\ read \in Seq(Tokens)
  /\ status \in {"parsing", "accepted"} => read # <<>> /\ token = Last(read)
  /\ \A i \in DOMAIN read :
       read[i].type = "EOF" => i = Len(read) /\ status # "scanning"
  /\ SkipsOnlyComments
  /\ status = "scanning" => /\ EndOf(Len(read)) <= cursor
                            /\ AllIgnored(SubSeq(str, EndOf(Len(read)) + 1, cursor))
  /\ status = "parsing" /\ token.type # "EOF" => cursor = EndOf(Len(read))

\* The cursor, and the counters that captureLocations_() keeps.
CursorOK ==
  /\ str \in Seq(Range(str))
  /\ cursor \in 0 .. Len(str) + 1
  /\ cursor = Len(str) + 1 <=> token.type = "EOF"
  /\ status = "scanning" => token.type # "EOF"
  /\ line = 1 + Cardinality(LineEnds(cursor))
  /\ lineBegin = LineStart(cursor)
  /\ token.type \in InnerTokens => token.place = TruePlace(token.start)
  /\ status # "thrown" => report = Nowhere

\* The states that may lie on a state: a list is opened by 7, its entries are
\* read in 8, and only these and the first one have anything on them.
Above(s) == CASE s = 0 -> 1 .. 7
              [] s = 7 -> {8}
              [] s = 8 -> 2 .. 7 \cup {9, 10}
              [] OTHER -> {}

StatesOK ==
  /\ statesStack \in Seq(0 .. 10)
  /\ statesStack # <<>>
  /\ statesStack[1] = 0
  /\ \A i \in 2 .. Len(statesStack) : statesStack[i] \in Above(statesStack[i - 1])

\* Lists that are open on the stack.
OpenLists == Cardinality({i \in DOMAIN statesStack : statesStack[i] = 7})
             - (IF Last(statesStack) = 9 THEN 1 ELSE 0)

\* The stack has an open list for each parenthesis that is open in what was
\* shifted, and none was complete before its last token.
NestingOK ==
  /\ Shifted = <<>> <=> statesStack = <<0>>
  /\ Depth(Items(Shifted), Len(Shifted)) = OpenLists
  /\ \A n \in 1 .. Len(Shifted) - 1 : Depth(Items(Shifted), n) > 0

\* A number on top of the stack is the token shifted last.
NumberOK ==
  Last(statesStack) = 4 => /\ Last(Shifted).type = "NUMBER"
                           /\ tokensStack # <<>>
                           /\ Last(tokensStack) = Last(Shifted).text

StacksOK ==
  /\ StatesOK
  /\ NestingOK
  /\ NumberOK
  /\ StacksAgree
  /\ tokensStack \in Seq(Range(tokensStack))
  /\ valuesStack \in Seq(Range(valuesStack))

PInv ==
  /\ TypeOK
  /\ TokensOK
  /\ CursorOK
  /\ status \in {"scanning", "parsing"} => StacksOK
  /\ AcceptsExpressions
=============================================================================
