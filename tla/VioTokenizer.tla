---------------------------- MODULE VioTokenizer ----------------------------
(***************************************************************************)
(* The Tokenizer of src/parser/VioParser.h.  A text is a sequence of       *)
(* characters.  getNextToken() tries the lexical rules in their order at   *)
(* the cursor and calls itself again after a rule for blanks or comments:  *)
(* one action is one such call.                                            *)
(***************************************************************************)
EXTENDS Integers, FiniteSetsExt, SequencesExt

CONSTANTS
  Texts,         \* the texts to parse
  Letters        \* the characters of \w that are no digits

ASSUME TextsAreSequences == \A text \in Texts : text \in Seq(Range(text))

\* No quote is a letter: those of \w are the letters of the alphabet and _.
ASSUME LettersAreNoQuotes == "\"" \notin Letters

VARIABLES
  str,           \* str_
  cursor,        \* cursor_, the characters consumed
  line,          \* currentLine_
  lineBegin,     \* currentLineBeginOffset_
  token,         \* the token returned last
  read,          \* all tokens returned, for the properties
  status,        \* "scanning" in getNextToken(), "parsing" when it has
                 \* returned, "accepted", or "thrown": nobody catches
  report         \* where the message of the exception says it is

scanner == <<str, cursor, line, lineBegin, token, read>>

Digits == <<"0", "1", "2", "3", "4", "5", "6", "7", "8", "9">>
Blanks == {" ", "\t", "\n", "\r", "\f"}      \* and the vertical tab
LineTerminators == {"\n", "\r"}              \* what . of a regex does not match
Quote  == "\""
SymbolChars == Letters \cup Range(Digits) \cup {"-", "+", "*", "=", "!", "<", ">", "/"}

Place(ln, column) == [line |-> ln, column |-> column]
Nowhere == Place(0, 0)

\* startOffset, and startLine with startColumn.
Token(type, text, start, place) ==
  [type |-> type, text |-> text, start |-> start, place |-> place]

TokenizerInit ==
  /\ str \in Texts
  /\ cursor = 0
  /\ line = 1
  /\ lineBegin = 0
  /\ token = Token("NONE", <<>>, 0, Nowhere)
  /\ read = <<>>
  /\ status = "scanning"
  /\ report = Nowhere

-----------------------------------------------------------------------------
(***************************************************************************)
(* Lexical rules: how many characters each one matches at the start of a   *)
(* text, 0 if it does not match.                                           *)
(***************************************************************************)
Rest == SubSeq(str, cursor + 1, Len(str))

\* The longest prefix of s whose characters are all in C.
Run(s, C) == Cardinality({n \in 1 .. Len(s) : \A i \in 1 .. n : s[i] \in C})

Shortest(lengths) == IF lengths = {} THEN 0 ELSE Min(lengths)

\* Mutated form of Comment: the match goes on to the last closing mark.
GreedyComment(s) ==
  LET closed == {n \in 4 .. Len(s) : s[n - 1] = "*" /\ s[n] = "/"}
  IN IF IsPrefix(<<"/", "*">>, s) /\ closed # {} THEN Max(closed) ELSE 0

Comment(s) ==
  IF IsPrefix(<<"/", "*">>, s)
  THEN Shortest({n \in 4 .. Len(s) : s[n - 1] = "*" /\ s[n] = "/"}) ELSE 0

LineComment(s) ==
  IF IsPrefix(<<"/", "/">>, s) THEN Run(s, Range(s) \ LineTerminators) ELSE 0

Quoted(s) ==
  IF IsPrefix(<<Quote>>, s) THEN Shortest({n \in 2 .. Len(s) : s[n] = Quote}) ELSE 0

\* lexRules_: the token type of each handler and the length of its match.
Rule(type, length) == [type |-> type, length |-> length]

lexRules(s) ==
  << Rule("TOKEN_TYPE_7", IF IsPrefix(<<"(">>, s) THEN 1 ELSE 0),
     Rule("TOKEN_TYPE_8", IF IsPrefix(<<")">>, s) THEN 1 ELSE 0),
     Rule("EMPTY", LineComment(s)),
     Rule("EMPTY", Comment(s)),
     Rule("EMPTY", Run(s, Blanks)),
     Rule("STRING", Quoted(s)),
     Rule("NUMBER", Run(s, Range(Digits))),
     Rule("SYMBOL", Run(s, SymbolChars)) >>

\* The rules that match; the first one is taken.
Matching(s) ==
  LET rules == lexRules(s) IN {r \in DOMAIN rules : rules[r].length > 0}

-----------------------------------------------------------------------------
\* Mutated form of captureLocations_: a match has at most one line end.
captureOneLine(n) ==
  LET lineEnds == {i \in 1 .. n : Rest[i] = "\n"}
  IN /\ line' = IF lineEnds = {} THEN line ELSE line + 1
     /\ lineBegin' = IF lineEnds = {} THEN lineBegin ELSE cursor + Max(lineEnds)

\* And here a line begins one character too late.
captureBehind(n) ==
  LET lineEnds == {i \in 1 .. n : Rest[i] = "\n"}
  IN /\ line' = line + Cardinality(lineEnds)
     /\ lineBegin' = IF lineEnds = {} THEN lineBegin ELSE cursor + Max(lineEnds) + 1

\* captureLocations_: a match of n characters.
captureLocations(n) ==
  LET lineEnds == {i \in 1 .. n : Rest[i] = "\n"}
  IN /\ line' = line + Cardinality(lineEnds)
     /\ lineBegin' = IF lineEnds = {} THEN lineBegin ELSE cursor + Max(lineEnds)

Return(t) == token' = t /\ read' = Append(read, t) /\ status' = "parsing"

\* Mutated form of Throw: the message is printed and nothing else happens.
Complain(place) == status' = status /\ report' = place

Throw(place) == status' = "thrown" /\ report' = place

Match ==
  /\ status = "scanning"
  /\ Matching(Rest) # {}
  /\ \E rule \in {lexRules(Rest)[Min(Matching(Rest))]} :
       /\ captureLocations(rule.length)
       /\ cursor' = cursor + rule.length
       /\ IF rule.type = "EMPTY" THEN UNCHANGED <<token, read, status>>
          ELSE Return(Token(rule.type, SubSeq(Rest, 1, rule.length),
                            cursor, Place(line, cursor - lineBegin)))
  /\ UNCHANGED <<str, report>>

\* At the end of the text: the cursor moves beyond it, and is left there.  The
\* code gives the token the place of the last match, which nobody asks for.
EndOfText ==
  /\ status = "scanning"
  /\ Rest = <<>>
  /\ cursor' = Len(str) + 1
  /\ Return(Token("EOF", <<"$">>, Len(str), Nowhere))
  /\ UNCHANGED <<str, line, lineBegin, report>>

UnexpectedCharacter ==
  /\ status = "scanning"
  /\ Rest # <<>> /\ Matching(Rest) = {}
  /\ Throw(Place(line, cursor - lineBegin))
  /\ UNCHANGED scanner

getNextToken == Match \/ EndOfText \/ UnexpectedCharacter

hasMoreTokens == cursor <= Len(str)
=============================================================================
