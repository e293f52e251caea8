----------------------------- MODULE VioParsing -----------------------------
(***************************************************************************)
(* What parse() promises of the trees it builds: each is spelled by the    *)
(* tokens it was read from.                                                *)
(***************************************************************************)
EXTENDS VioParserSafety

\* A list stands for its entries in parentheses, anything else for itself.
Spread(exp) ==
  IF IsList(exp) THEN <<Open>> \o Entries(exp) \o <<Close>> ELSE <<exp>>

\* Expressions and parentheses, with the lists among them spelled out.
Unfolded(text) == FlattenSeq([i \in DOMAIN text |-> Spread(text[i])])

\* The same for the lists in these lists, down to a depth.
Spelling(text, depth) ==
  LET spelled[n \in Nat] == IF n = 0 THEN text ELSE Unfolded(spelled[n - 1])
  IN spelled[depth]

\* No list is nested deeper than it has tokens.
Spells(items, text) == \E n \in 0 .. Len(items) : Spelling(text, n) = items

\* What a state on the stack stands for: a token of its type, the entries of a
\* list that is not closed yet, or an expression.
TokensBelow(states, i) == Cardinality({j \in 2 .. i : states[j] \in TokenStates})

Stands(states, tokens, values, i) ==
  LET n == TokensBelow(states, i)
  IN CASE states[i] = 4 -> <<Num(stoi(tokens[n]))>>
       [] states[i] \in {5, 6} -> <<StringOrSymbol(tokens[n])>>
       [] states[i] = 7 -> <<Open>>
       [] states[i] = 9 -> <<Close>>
       [] states[i] = 8 -> Entries(values[i - 1 - n])
       [] OTHER -> <<values[i - 1 - n]>>

Held(states, tokens, values) ==
  FlattenSeq([i \in 1 .. Len(states) - 1 |-> Stands(states, tokens, values, i + 1)])

\* At any time the stacks of parse() hold all that was read so far, in order:
\* no reduction loses, repeats or swaps an expression.
NothingLost ==
  status \in {"scanning", "parsing"} =>
    Spells(Items(Shifted), Held(statesStack, tokensStack, valuesStack))

\* parse() returns the tree that the tokens of the text spell.
ReturnsTheTree == status = "accepted" => Spells(Items(Front(read)), <<result>>)

\* parse() comes to an end for every text.
Parses == <>(status \in {"accepted", "thrown"})
=============================================================================
