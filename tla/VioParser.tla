----------------------------- MODULE VioParser -----------------------------
(***************************************************************************)
(* The LALR(1) parser of src/parser/VioParser.h, generated by syntax-cli   *)
(* from EvaGrammar.bnf.  One action is one pass of the loop of parse(), or *)
(* one call of getNextToken().  Shift asks for the next token, so after it *)
(* the tokenizer has its turn.                                             *)
(*                                                                         *)
(* The name of a symbol is its sequence of characters here.                *)
(***************************************************************************)
EXTENDS VioTokenizer, VioAst

VARIABLES
  statesStack,   \* states of the LR automaton, the current one last
  valuesStack,   \* expressions that were read
  tokensStack,   \* texts of tokens that were shifted
  result         \* what parse() returned

stacks == <<statesStack, valuesStack, tokensStack, result>>
vars == <<scanner, status, report, stacks>>

NoResult == Missing

Init == /\ TokenizerInit
        /\ statesStack = <<0>>
        /\ valuesStack = <<>>
        /\ tokensStack = <<>>
        /\ result = NoResult

-----------------------------------------------------------------------------
(***************************************************************************)
(* table_ and productions_.                                                *)
(***************************************************************************)
Entry(type, value) == [type |-> type, value |-> value]

InnerTokens == {"NUMBER", "STRING", "SYMBOL", "TOKEN_TYPE_7", "TOKEN_TYPE_8"}
AnyToken    == InnerTokens \cup {"EOF"}

ReduceRow(p, types) == [t \in types |-> Entry("Reduce", p)]

Shifts == [NUMBER |-> Entry("Shift", 4), STRING |-> Entry("Shift", 5),
           SYMBOL |-> Entry("Shift", 6), TOKEN_TYPE_7 |-> Entry("Shift", 7)]

\* Mutated form of rowOf7: no empty list.
rowOf7WithoutEnd == ReduceRow(7, InnerTokens \ {"TOKEN_TYPE_8"})

\* An expression of a list, or its end, is to follow.
rowOf7 == ReduceRow(7, InnerTokens)

\* A list goes on, or is closed.
rowOf8 ==
  [t \in InnerTokens |-> IF t \in DOMAIN Shifts THEN Shifts[t] ELSE Entry("Shift", 9)]

table ==
  [s \in 0 .. 10 |->
     CASE s = 0 -> Shifts
       [] s = 1 -> [EOF |-> Entry("Accept", 0)]
       [] s \in 2 .. 6 -> ReduceRow(s - 1, AnyToken)
       [] s = 7 -> rowOf7
       [] s = 8 -> rowOf8
       [] s = 9 -> ReduceRow(6, AnyToken)
       [] s = 10 -> ReduceRow(8, InnerTokens)]

\* The Transit entries: from a state, over a nonterminal (0 Exp, 1 Atom,
\* 2 List, 3 ListEntries).
Transit(s, nonterminal) ==
  CASE nonterminal = 0 -> IF s = 0 THEN 1 ELSE 10
    [] nonterminal = 1 -> 2
    [] nonterminal = 2 -> 3
    [] nonterminal = 3 -> 8

Production(opcode, rhsLength) == [opcode |-> opcode, rhsLength |-> rhsLength]

productions ==
  << Production(0, 1), Production(0, 1), Production(1, 1), Production(1, 1),
     Production(1, 1), Production(2, 3), Production(3, 0), Production(3, 2) >>

-----------------------------------------------------------------------------
(***************************************************************************)
(* The constructors of Exp.                                                *)
(***************************************************************************)
INT_MAX == 2147483647

OutOfRange == -1

\* std::stoi of a text of digits; it throws std::out_of_range.
stoi(text) ==
  LET digit(i) == (CHOOSE d \in DOMAIN Digits : Digits[d] = text[i]) - 1
      n[i \in 0 .. Len(text)] ==
        IF i = 0 THEN 0
        ELSE IF n[i - 1] = OutOfRange \/ n[i - 1] > (INT_MAX - digit(i)) \div 10
             THEN OutOfRange
             ELSE 10 * n[i - 1] + digit(i)
  IN n[Len(text)]

\* Mutated form of StringOrSymbol: the closing quote stays.
StringToTheEnd(text) ==
  IF text[1] = Quote THEN Str(SubSeq(text, 2, Len(text))) ELSE Sym(text)

\* A string loses its quotes.
StringOrSymbol(text) ==
  IF text[1] = Quote THEN Str(SubSeq(text, 2, Len(text) - 1)) ELSE Sym(text)

-----------------------------------------------------------------------------
(***************************************************************************)
(* The loop of parse().                                                    *)
(***************************************************************************)
Row == table[Last(statesStack)]

Doing(type) == /\ status = "parsing"
               /\ token.type \in DOMAIN Row
               /\ Row[token.type].type = type

Shift ==
  /\ Doing("Shift")
  /\ tokensStack' = Append(tokensStack, token.text)
  /\ statesStack' = Append(statesStack, Row[token.type].value)
  /\ status' = "scanning"
  /\ UNCHANGED <<scanner, report, valuesStack, result>>

\* The n values, or tokens, below the top.
Below(stack, n) == SubSeq(stack, 1, Len(stack) - n)

Reducing(p) == Doing("Reduce") /\ Row[token.type].value = p

\* The states of the right-hand side make way for that of the left-hand side.
Reduced(p) ==
  LET popped == Below(statesStack, productions[p].rhsLength)
  IN statesStack' = Append(popped, Transit(Last(popped), productions[p].opcode))

KeepAll == UNCHANGED <<scanner, status, report, result>>

\* Exp : Atom, Exp : List.
ReduceExp ==
  /\ \E p \in {1, 2} : Reducing(p) /\ Reduced(p)
  /\ UNCHANGED <<valuesStack, tokensStack>>
  /\ KeepAll

\* Atom : NUMBER.
ReduceNumber ==
  /\ Reducing(3)
  /\ tokensStack' = Front(tokensStack)
  /\ LET number == stoi(Last(tokensStack))
     IN IF number = OutOfRange
        THEN /\ statesStack' = Below(statesStack, 1)
             /\ Throw(Nowhere)
             /\ UNCHANGED <<scanner, valuesStack, result>>
        ELSE /\ Reduced(3)
             /\ valuesStack' = Append(valuesStack, Num(number))
             /\ KeepAll

\* Atom : STRING, Atom : SYMBOL.
ReduceAtom ==
  /\ \E p \in {4, 5} : Reducing(p) /\ Reduced(p)
  /\ tokensStack' = Front(tokensStack)
  /\ valuesStack' = Append(valuesStack, StringOrSymbol(Last(tokensStack)))
  /\ KeepAll

\* Mutated form of ReduceList: one token is taken for the two.
ReduceListOnce ==
  /\ Reducing(6)
  /\ Reduced(6)
  /\ tokensStack' = Front(tokensStack)
  /\ UNCHANGED valuesStack
  /\ KeepAll

\* List : '(' ListEntries ')'.
ReduceList ==
  /\ Reducing(6)
  /\ Reduced(6)
  /\ tokensStack' = Below(tokensStack, 2)
  /\ UNCHANGED valuesStack
  /\ KeepAll

\* ListEntries : %empty.
ReduceEmpty ==
  /\ Reducing(7)
  /\ Reduced(7)
  /\ valuesStack' = Append(valuesStack, List(<<>>))
  /\ UNCHANGED tokensStack
  /\ KeepAll

\* Mutated form of ReduceEntry: the last value popped is taken for $2.
ReduceEntryInFront ==
  /\ Reducing(8)
  /\ Reduced(8)
  /\ LET exp  == Last(valuesStack)
         list == Last(Front(valuesStack))
     IN valuesStack' = Append(Below(valuesStack, 2), List(<<exp>> \o list[2]))
  /\ UNCHANGED tokensStack
  /\ KeepAll

\* ListEntries : ListEntries Exp.
ReduceEntry ==
  /\ Reducing(8)
  /\ Reduced(8)
  /\ LET exp  == Last(valuesStack)
         list == Last(Front(valuesStack))
     IN valuesStack' = Append(Below(valuesStack, 2), List(Append(list[2], exp)))
  /\ UNCHANGED tokensStack
  /\ KeepAll

Accept ==
  /\ Doing("Accept")
  /\ statesStack' = <<>>
  /\ valuesStack' = Front(valuesStack)
  /\ IF statesStack # <<0, 1>> \/ hasMoreTokens
     THEN Throw(Nowhere) /\ UNCHANGED result
     ELSE status' = "accepted" /\ result' = Last(valuesStack) /\ UNCHANGED report
  /\ UNCHANGED <<scanner, tokensStack>>

\* Mutated form of UnexpectedToken: parse() goes on without the token.
SkipUnexpectedToken ==
  /\ status = "parsing"
  /\ token.type \notin DOMAIN Row
  /\ IF token.type = "EOF" THEN Throw(Nowhere) ELSE status' = "scanning" /\ UNCHANGED report
  /\ UNCHANGED <<scanner, stacks>>

\* No entry for the token: "Unexpected end of input" or "Unexpected token".
UnexpectedToken ==
  /\ status = "parsing"
  /\ token.type \notin DOMAIN Row
  /\ Throw(IF token.type = "EOF" /\ ~ hasMoreTokens THEN Nowhere ELSE token.place)
  /\ UNCHANGED <<scanner, stacks>>

Reduce == \/ ReduceExp \/ ReduceNumber \/ ReduceAtom
          \/ ReduceList \/ ReduceEmpty \/ ReduceEntry

Parse == \/ getNextToken /\ UNCHANGED stacks
         \/ Shift \/ Reduce \/ Accept \/ UnexpectedToken

\* parse() has returned, or the exception has ended the process.
Finished == status \in {"accepted", "thrown"} /\ UNCHANGED vars

Next == Parse \/ Finished

Spec == Init /\ [][Next]_vars

\* parse() runs on the only thread of the process.
FairSpec == Spec /\ WF_vars(Parse)

-----------------------------------------------------------------------------
TokenStates == {4, 5, 6, 7, 9}

\* Positions are in the text, and the stacks made of what parse() puts there.
TypeOK ==
  /\ status \in {"scanning", "parsing", "accepted", "thrown"}
  /\ cursor \in 0 .. Len(str) + 1
  /\ line \in 1 .. Len(str) + 1
  /\ lineBegin \in 0 .. cursor
  /\ statesStack \in Seq(0 .. 10)
  /\ token.type \in AnyToken \cup {"NONE"}

\* The handlers pop values and tokens without asking whether there are any,
\* and parse() pops the states by the length of the production.  They agree:
\* each state above the first stands for one token or for one value.
StacksAgree ==
  status \in {"scanning", "parsing"} =>
    LET above  == 2 .. Len(statesStack)
        tokens == {i \in above : statesStack[i] \in TokenStates}
    IN /\ Len(tokensStack) = Cardinality(tokens)
       /\ Len(valuesStack) = Len(statesStack) - 1 - Cardinality(tokens)
=============================================================================
