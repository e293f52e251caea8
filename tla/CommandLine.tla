---------------------------- MODULE CommandLine ----------------------------
(***************************************************************************)
(* The text that main() of vio-vm.cpp and VioVM::exec() have parsed.       *)
(***************************************************************************)
EXTENDS Sequences

Modes == {"-e", "-f", "other"}

\* Mutated form of ProgramText: a file is taken as it is.
ProgramTextAsIs(mode, argument) == IF mode = "other" THEN <<>> ELSE argument

\* main(): the program of the second argument.  An inserted empty file leaves
\* the stream failed, so that it takes no line end either; so does a file that
\* cannot be opened.  Any other mode runs the empty program.
ProgramText(mode, argument) ==
  CASE mode = "-e" -> argument
    [] mode = "-f" -> IF argument = <<>> THEN <<>> ELSE Append(argument, "\n")
    [] OTHER       -> <<>>

\* exec() makes the program a block.
Wrapped(program) ==
  <<"(", "b", "e", "g", "i", "n", " ">> \o program \o <<")">>
=============================================================================
