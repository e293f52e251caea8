--------------------------- MODULE VioCorrectness ---------------------------
(***************************************************************************)
(* What the compiler and the machine promise of a program: its meaning, and*)
(* an end.                                                                 *)
(***************************************************************************)
EXTENDS ViolangSafety

LOCAL Semantics == INSTANCE VioSemantics

\* A function is known by the name of its code object.
Denotes(v, w) ==
  IF IS_FUNCTION(v)
  THEN IS_FUNCTION(w) /\ codeObjects[Payload(v)].name = Name(At(Payload(w), 1))
  ELSE v = w

\* The value a program ends with, and the one every global is left with, are
\* those its expressions mean: the stack discipline of gen() and eval(), the
\* numbering of locals and globals, the patched jumps and the calls add up to
\* evaluation by name.
ResultIsMeaning ==
  status = "halted" =>
    LET meaning == Semantics!Meaning(program)
    IN /\ Denotes(result, meaning.val)
       /\ \A i \in DOMAIN globals :
            Denotes(globals[i].value, meaning.globals[globals[i].name])

\* Every program of the run comes to an orderly end.
Halts == <>(status = "halted")
=============================================================================
