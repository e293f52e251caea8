---------------------------- MODULE VioCollector ----------------------------
(***************************************************************************)
(* The mark-sweep collector of src/gc/VioCollector.h over the heap of      *)
(* Traceable (src/vm/VioValue.h).  Nothing of it is connected yet.  The    *)
(* include of the collector (VioVM.h:16) and all calls of it are comments, *)
(* as are the definitions of Traceable's two static variables              *)
(* (VioValue.h:95, :100), without which nothing that uses them links, and  *)
(* the base class that would make objects traceable (VioValue.h:107).  So  *)
(* the mutator here does what those comments would have it do: it          *)
(* allocates, it stores pointers to objects in objects, and it calls gc()  *)
(* with a set of roots.                                                    *)
(*                                                                         *)
(* One action is one turn of a loop of mark() or of sweep(), or what       *)
(* happens before and after it.                                            *)
(***************************************************************************)
EXTENDS Integers, FiniteSets, SequencesExt

CONSTANTS
  Objects,      \* the objects there may be
  size          \* how many bytes each of them takes

ASSUME SizeAssumption == size \in [Objects -> Nat]

VARIABLES
  objects,      \* Traceable::objects, a list in the order of allocation
  bytesAllocated,  \* Traceable::bytesAllocated
  memory,       \* the objects whose memory ::operator new has handed out
  references,   \* pairs of objects, the first of which points to the second
  marked,       \* the objects whose flag marked is set
  phase,        \* "mutator", "mark" or "sweep"
  roots,        \* what gc() was called with
  worklist,     \* mark()'s vector of objects to visit, the next one last
  it            \* sweep()'s place in the list

heap == <<objects, bytesAllocated, memory>>
vars == <<heap, references, marked, phase, roots, worklist, it>>

Heap == Range(objects)

Init ==
  /\ objects = <<>>
  /\ bytesAllocated = 0
  /\ memory = {}
  /\ references = {}
  /\ marked = {}
  /\ phase = "mutator"
  /\ roots = {}
  /\ worklist = <<>>
  /\ it = 1

\* The bytes that objects take, each as an object and a place in it.
Bytes(os) == UNION {{o} \X (1 .. size[o]) : o \in os}

\* Mutated form of delete: the bytes stay counted.
deleteUncounted(os) == UNCHANGED <<bytesAllocated, memory>>

\* Traceable::operator delete of each of these.  It counts their bytes off;
\* the call that would give the memory back is a comment (VioValue.h:68).
delete(os) ==
  /\ bytesAllocated' = bytesAllocated - Cardinality(Bytes(os))
  /\ UNCHANGED memory

\* Traceable::operator new does not initialize marked.
Allocate ==
  /\ phase = "mutator"
  /\ \E o \in Objects \ memory :
       /\ memory' = memory \cup {o}
       /\ objects' = Append(objects, o)
       /\ bytesAllocated' = bytesAllocated + size[o]
       /\ \/ marked' = marked
          \/ marked' = marked \cup {o}
  /\ UNCHANGED <<references, phase, roots, worklist, it>>

\* An object gets a pointer to another one, as a code object does when a
\* string or a function becomes one of its constants.
addConst ==
  /\ phase = "mutator"
  /\ \E o, p \in Heap : references' = references \cup {<<o, p>>}
  /\ UNCHANGED <<heap, marked, phase, roots, worklist, it>>

\* cleanup() deletes everything; the destructor of VioVM that would call it is
\* a comment too.
cleanup ==
  /\ phase = "mutator"
  /\ delete(Heap)
  /\ objects' = <<>>
  /\ marked' = {}
  /\ UNCHANGED <<references, phase, roots, worklist, it>>

\* gc(), up to the loop of mark(); a set of pointers is walked in the order
\* of their addresses, which may be any.
StartMark ==
  /\ phase = "mutator"
  /\ \E rs \in SUBSET Heap :
       /\ roots' = rs
       /\ \E order \in SetToSeqs(rs) : worklist' = order
  /\ phase' = "mark"
  /\ UNCHANGED <<heap, references, marked, it>>

\* getPointers() returns an empty set for every object: all it does is a
\* comment.
getPointers(o) == {}

\* Mutated form of MarkStep: an object whose mark is set is not taken off.
MarkStepAgain ==
  /\ phase = "mark"
  /\ worklist # <<>>
  /\ Last(worklist) \notin marked
  /\ marked' = marked \cup {Last(worklist)}
  /\ worklist' = Front(worklist)
  /\ UNCHANGED <<heap, references, phase, roots, it>>

MarkStep ==
  /\ phase = "mark"
  /\ worklist # <<>>
  /\ LET object == Last(worklist)
     IN IF object \notin marked
        THEN /\ marked' = marked \cup {object}
             /\ \E order \in SetToSeqs(getPointers(object)) :
                  worklist' = Front(worklist) \o order
        ELSE /\ worklist' = Front(worklist)
             /\ UNCHANGED marked
  /\ UNCHANGED <<heap, references, phase, roots, it>>

StartSweep ==
  /\ phase = "mark"
  /\ worklist = <<>>
  /\ phase' = "sweep"
  /\ it' = 1
  /\ UNCHANGED <<heap, references, marked, roots, worklist>>

\* Mutated forms of SweepStep: the iterator skips the object after an erased
\* one; the mark of an object that stays is not cleared.
SweepStepSkipping ==
  /\ phase = "sweep"
  /\ it <= Len(objects)
  /\ IF objects[it] \in marked
     THEN marked' = marked \ {objects[it]} /\ UNCHANGED heap
     ELSE objects' = RemoveAt(objects, it) /\ delete({objects[it]}) /\ UNCHANGED marked
  /\ it' = it + 1
  /\ UNCHANGED <<references, phase, roots, worklist>>

SweepStepKeepingMarks ==
  /\ phase = "sweep"
  /\ it <= Len(objects)
  /\ IF objects[it] \in marked
     THEN it' = it + 1 /\ UNCHANGED heap
     ELSE objects' = RemoveAt(objects, it) /\ delete({objects[it]}) /\ UNCHANGED it
  /\ UNCHANGED <<references, marked, phase, roots, worklist>>

\* A marked object loses its mark and stays; an unmarked one is erased from
\* the list, which leaves the iterator at the next one, and deleted.
SweepStep ==
  /\ phase = "sweep"
  /\ it <= Len(objects)
  /\ LET object == objects[it]
     IN IF object \in marked
        THEN /\ marked' = marked \ {object}
             /\ it' = it + 1
             /\ UNCHANGED heap
        ELSE /\ objects' = RemoveAt(objects, it)
             /\ delete({object})
             /\ UNCHANGED <<marked, it>>
  /\ UNCHANGED <<references, phase, roots, worklist>>

EndSweep ==
  /\ phase = "sweep"
  /\ it > Len(objects)
  /\ phase' = "mutator"
  /\ it' = 1
  /\ UNCHANGED <<heap, references, marked, roots, worklist>>

Collect == MarkStep \/ StartSweep \/ SweepStep \/ EndSweep

Next == Allocate \/ addConst \/ cleanup \/ StartMark \/ Collect

Spec == Init /\ [][Next]_vars

\* gc() runs to its end before the mutator goes on.
FairSpec == Spec /\ WF_vars(Collect)

-----------------------------------------------------------------------------
\* The list holds no object twice and only objects that were allocated,
\* mark() has no deleted object to visit, no deleted object has a mark, and
\* sweep()'s iterator is in the list or at its end.
TypeOK ==
  /\ objects \in Seq(Objects)
  /\ Cardinality(Heap) = Len(objects)
  /\ Heap \subseteq memory
  /\ memory \subseteq Objects
  /\ references \subseteq memory \X memory
  /\ marked \subseteq Heap
  /\ phase \in {"mutator", "mark", "sweep"}
  /\ roots \subseteq Objects
  /\ Range(worklist) \subseteq Heap
  /\ it \in 1 .. Len(objects) + 1

\* The counter that is to decide when to collect (VioVM.h:246) does not drift
\* from the list: whatever was allocated, swept and cleaned up, it is the
\* size of the objects that are left in it.
BytesAreCounted == bytesAllocated = Cardinality(Bytes(Heap))

\* gc() returns.
CollectionEnds == phase = "mark" ~> phase = "mutator"

(***************************************************************************)
(* A collection implements the one atomic step of Collection.  It takes    *)
(* effect when gc() is called: while it runs, the heap to be is what mark()*)
(* keeps, and then what sweep() has passed and what it will not erase.     *)
(***************************************************************************)
Kept == CASE phase = "mutator" -> Heap
          [] phase = "mark"    -> roots \cup marked
          [] phase = "sweep"   -> Range(SubSeq(objects, 1, it - 1)) \cup marked

Stale == IF phase = "mutator" THEN marked ELSE {}

Atomic == INSTANCE Collection WITH heap <- Kept, stale <- Stale

\* Whatever order the roots are visited and the list is swept in: a
\* collection keeps every root, takes out of the heap every object that
\* cannot be reached from them but those whose mark was set when they were
\* allocated, and leaves no mark behind that would save garbage from the next
\* collection.
CollectsAtomically == Atomic!Spec

\* README.md:50 says more, that the collector marks "all reachable objects" by
\* "following references": no object that the roots lead to is erased.  The
\* run collector_references violates it, because of getPointers.
KeepsReachable == phase # "mutator" => Atomic!Reachable(roots) \subseteq Heap
=============================================================================
