--------------------------- MODULE PriorityQueue ---------------------------
(***************************************************************************)
(* What lab3/heap.h promises of a heap: a set of entries from which        *)
(* heap_delmin takes one whose key is smallest.  An entry is the pair of   *)
(* pointers (key, value) handed to heap_insert.  Both point to memory the  *)
(* caller has just allocated, so two entries in a heap are never equal.    *)
(***************************************************************************)
EXTENDS Integers

CONSTANTS Entries,   \* the entries a caller can allocate
          Key,       \* the integer each entry's key points to
          Null

VARIABLES contents,  \* the entries inserted and not yet deleted
          result     \* what the last heap_delmin gave, Null for none

vars == <<contents, result>>

Init == contents = {} /\ result = Null

Insert(e) ==
  /\ e \notin contents
  /\ contents' = contents \cup {e}
  /\ UNCHANGED result

DelMin(e) ==
  /\ e \in contents
  /\ \A f \in contents : Key[e] <= Key[f]
  /\ contents' = contents \ {e}
  /\ result' = e

DelMinOfEmpty ==
  /\ contents = {}
  /\ result' = Null
  /\ UNCHANGED contents

\* heap_destroy forgets the entries without freeing what they point to.
Destroy == contents' = {} /\ UNCHANGED result

Next ==
  \/ \E e \in Entries : Insert(e) \/ DelMin(e)
  \/ DelMinOfEmpty
  \/ Destroy

Spec == Init /\ [][Next]_vars
=============================================================================
