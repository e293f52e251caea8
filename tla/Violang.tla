------------------------------ MODULE Violang ------------------------------
(***************************************************************************)
(* The whole interpreter, as main() of vio-vm.cpp runs it: VioVM::exec()   *)
(* has the parsed program compiled (VioCompiler), points the machine at    *)
(* the main function and evaluates the bytecode (VioVM).  The compiler and *)
(* the machine share the code objects and the table of globals.  status    *)
(* goes through "compiling", "compiled" and "running" to one of the ends   *)
(* "halted", "died" and "undefined" of the process.                        *)
(***************************************************************************)
EXTENDS VioCompiler

CONSTANTS STACK_LIMIT, NumBound      \* see VioVM

ASSUME StackLimitAssumption == STACK_LIMIT \in Nat \ {0}

VARIABLES ip, sp, bp, fn, stack, callStack, result      \* see VioVM

VM == INSTANCE VioVM WITH Images <- {}

machine == <<ip, sp, bp, fn, stack, callStack, result>>
execVars == <<vars, machine>>

ExecInit == Init /\ VM!FreshMachine

Compile == GenStep /\ UNCHANGED machine

\* exec(): the registers are set up once compile() is done.
StartEval ==
  /\ status = "compiled"
  /\ status' = "running"
  /\ ip' = 0 /\ sp' = 0 /\ bp' = 0 /\ fn' = VM!Main
  /\ UNCHANGED <<program, codeObjects, globals, co, work,
                 stack, callStack, result>>

Evaluate == VM!Eval /\ UNCHANGED <<program, co, work>>

Step == Compile \/ StartEval \/ Evaluate

Ended == {"halted", "died", "undefined"}

Exited == status \in Ended /\ UNCHANGED execVars

ExecNext == Step \/ Exited

Exec == ExecInit /\ [][ExecNext]_execVars

\* One thread runs exec() from parse() to its return.
FairExec == Exec /\ WF_execVars(Step)
=============================================================================
