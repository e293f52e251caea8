---------------------------- MODULE Activations ----------------------------
(***************************************************************************)
(* What calls and returns promise: every activation of a function has      *)
(* slots of its own.  It works on these alone; a call hands the function   *)
(* and the arguments over to a new activation, and when that returns, its  *)
(* only slot takes their place.  Nothing is said of the instructions.      *)
(***************************************************************************)
EXTENDS VioValue, SequencesExt

CONSTANT Limit         \* slots that all activations have together

VARIABLE activations   \* the running one last; none when the run is over

\* below is the number of slots that its callers hold while it runs.
Activation(f, at, below, slots) ==
  [fn |-> f, at |-> at, below |-> below, slots |-> slots]

Running == Last(activations)
Callers == Front(activations)

Init == activations = <<Activation(1, 0, 0, <<>>)>>

Work ==
  /\ activations # <<>> /\ activations' # <<>>
  /\ Front(activations') = Callers
  /\ Last(activations').fn = Running.fn
  /\ Last(activations').below = Running.below

\* A call with n arguments; the caller will go on behind it.
Invoke ==
  /\ activations # <<>>
  /\ \E n \in 0 .. Len(Running.slots) - 1 :
       LET m      == Len(Running.slots) - n - 1
           kept   == SubSeq(Running.slots, 1, m)
           handed == SubSeq(Running.slots, m + 1, Len(Running.slots))
       IN /\ IS_FUNCTION(handed[1])
          /\ activations' =
               Callers \o <<Activation(Running.fn, Running.at + 2,
                                       Running.below, kept),
                            Activation(Payload(handed[1]), 0,
                                       Running.below + m, handed)>>

Return ==
  /\ Len(activations) > 1
  /\ Len(Running.slots) = 1
  /\ activations' =
       [Callers EXCEPT ![Len(Callers)].slots = @ \o Running.slots]

\* The first activation ends the run with a value.
Halt == /\ Len(activations) = 1 /\ Running.slots # <<>>
        /\ activations' = <<>>

InUse == Running.below + Len(Running.slots)

\* No slot is free.
Overflow == activations # <<>> /\ InUse = Limit /\ activations' = <<>>

Next == Work \/ Invoke \/ Return \/ Halt \/ Overflow

Spec == Init /\ [][Next]_activations
=============================================================================
