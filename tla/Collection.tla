----------------------------- MODULE Collection -----------------------------
(***************************************************************************)
(* A mark-sweep collection of README.md:50-52 as one step.  The README     *)
(* promises that what can be reached from the roots is kept, and that the  *)
(* rest is freed.  Collect demands what the collector does of that: the    *)
(* roots stay, and what cannot be reached leaves the heap.  It does not    *)
(* demand that the objects below the roots stay (VioCollector's            *)
(* KeepsReachable, which is violated), nor that the memory of the others   *)
(* is given back (which VioCollector's delete does not do).                *)
(*                                                                         *)
(* The objects in stale were allocated with their mark set by accident:    *)
(* they survive the next collection, and only that one.                    *)
(***************************************************************************)
CONSTANT Objects

VARIABLES heap, references, stale

vars == <<heap, references, stale>>

\* Objects that refer to no object outside.
Closed(os) == \A r \in references : r[1] \in os => r[2] \in os

\* The objects that a chain of references leads to from the roots.
Reachable(roots) ==
  {o \in Objects : \A os \in SUBSET Objects : roots \subseteq os /\ Closed(os) => o \in os}

Init == heap = {} /\ references = {} /\ stale = {}

Allocate == \E o \in Objects \ heap :
              /\ heap' = heap \cup {o}
              /\ stale' \in {stale, stale \cup {o}}
              /\ UNCHANGED references

Refer == /\ \E o, p \in heap : references' = references \cup {<<o, p>>}
         /\ UNCHANGED <<heap, stale>>

Collect == \E roots \in SUBSET heap :
             /\ heap' \in SUBSET heap
             /\ roots \subseteq heap'
             /\ heap' \subseteq Reachable(roots) \cup stale
             /\ stale' = {}
             /\ UNCHANGED references

Cleanup == heap' = {} /\ stale' = {} /\ UNCHANGED references

Next == Allocate \/ Refer \/ Collect \/ Cleanup

Spec == Init /\ [][Next]_vars
=============================================================================
