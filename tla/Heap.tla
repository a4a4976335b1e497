-------------------------------- MODULE Heap --------------------------------
(***************************************************************************)
(* lab3/heap.c: a binary heap in an array of memory-mapped pages.          *)
(*                                                                         *)
(* One call runs at a time.  heap_insert and heap_delmin each take a first *)
(* step, one step per turn of their sift loop, and a last one, so that the *)
(* state of the table inside the loops is visible.  A heap_entry is an     *)
(* element of Entries; Key stands for compare_int_keys and cmp_node, which *)
(* order entries by the int their key points to.  Slots at active_entries  *)
(* and above keep whatever was last stored there, as in the C table.       *)
(* map_in_pages may fail at any call; its NULL is used without a check.    *)
(***************************************************************************)
EXTENDS Integers, FiniteSets

CONSTANTS Entries,       \* the (key, value) pairs callers can allocate
          Key,           \* the int an entry's key points to
          PageEntries,   \* the values PAGE_SIZE / sizeof(heap_entry) can have
          InitialSizes,  \* the initial_size callers give heap_create
          Null           \* no entry: a cleared slot, no result

ASSUME EntriesAssumption == Null \notin Entries /\ Key \in [Entries -> Int]
ASSUME PageAssumption    == PageEntries \subseteq Nat \ {0}
ASSUME SizeAssumption    == InitialSizes \subseteq Int

VARIABLES ENTRIES_PER_PAGE,  \* the static of heap.c, 0 before the first heap_create
          table, active_entries, allocated_pages, minimum_pages,
          pc,                \* where the program is: see PCs
          current_index,     \* the local of the two sift loops
          inserting,         \* heap_insert's key and value
          result             \* *key, *value of the last heap_delmin, Null if it returned 0

vars == <<ENTRIES_PER_PAGE, table, active_entries, allocated_pages,
          minimum_pages, pc, current_index, inserting, result>>

\* none: no heap; idle: no call runs; up, down: in a sift loop; crashed: an
\* assert failed or a NULL table was written.
PCs == {"none", "idle", "up", "down", "crashed"}

\* The table pointer when nothing is mapped: a table without slots.
NULL == [i \in {} |-> Null]

PARENT_ENTRY(i) == (i - 1) \div 2
LEFT_CHILD(i)   == 2 * i + 1
RIGHT_CHILD(i)  == 2 * i + 2

\* Faulty: forgets the page that is only partly used.
PagesFor_rounded_down(n) == n \div ENTRIES_PER_PAGE

\* The pages that n entries need.
PagesFor(n) ==
  n \div ENTRIES_PER_PAGE + (IF n % ENTRIES_PER_PAGE > 0 THEN 1 ELSE 0)

Slots(pages) == 0 .. pages * ENTRIES_PER_PAGE - 1

\* map_in_pages(pages), bzero'd, and the first "copied" pages of the old table.
Remapped(pages, copied) ==
  [i \in Slots(pages) |-> IF i \in Slots(copied) THEN table[i] ELSE Null]

Init ==
  /\ ENTRIES_PER_PAGE = 0
  /\ table = NULL
  /\ active_entries = 0
  /\ allocated_pages = 0
  /\ minimum_pages = 0
  /\ pc = "none"
  /\ current_index = 0
  /\ inserting = Null
  /\ result = Null

-----------------------------------------------------------------------------
heap_create(initial_size) ==
  /\ pc = "none"
  /\ ENTRIES_PER_PAGE' \in (IF ENTRIES_PER_PAGE = 0 THEN PageEntries
                                                    ELSE {ENTRIES_PER_PAGE})
  /\ active_entries' = 0
  /\ allocated_pages' = IF initial_size <= 0 THEN 1 ELSE PagesFor(initial_size)'
  /\ minimum_pages' = allocated_pages'
  /\ \/ table' = [i \in Slots(allocated_pages)' |-> Null]
     \/ table' = NULL
  /\ pc' = "idle"
  /\ UNCHANGED <<current_index, inserting, result>>

Crash ==
  /\ pc' = "crashed"
  /\ UNCHANGED <<ENTRIES_PER_PAGE, table, active_entries, allocated_pages,
                 minimum_pages, current_index, inserting, result>>

\* Faulty: tests for room one entry too late.
heap_insert_late(e) ==
  /\ pc = "idle"
  /\ table # NULL
  /\ IF active_entries > allocated_pages * ENTRIES_PER_PAGE
     THEN /\ allocated_pages' = 2 * allocated_pages
          /\ table' = Remapped(2 * allocated_pages, allocated_pages)
     ELSE UNCHANGED <<allocated_pages, table>>
  /\ current_index' = active_entries
  /\ inserting' = e
  /\ pc' = "up"
  /\ UNCHANGED <<ENTRIES_PER_PAGE, active_entries, minimum_pages, result>>

\* heap_insert up to its loop: double the table if it is full.
heap_insert(e) ==
  /\ pc = "idle"
  /\ table # NULL
  /\ IF active_entries + 1 > allocated_pages * ENTRIES_PER_PAGE
     THEN /\ allocated_pages' = 2 * allocated_pages
          /\ table' = Remapped(2 * allocated_pages, allocated_pages)
     ELSE UNCHANGED <<allocated_pages, table>>
  /\ current_index' = active_entries
  /\ inserting' = e
  /\ pc' = "up"
  /\ UNCHANGED <<ENTRIES_PER_PAGE, active_entries, minimum_pages, result>>

heap_insert_fails ==
  /\ pc = "idle"
  /\ \/ table = NULL
     \/ active_entries + 1 > allocated_pages * ENTRIES_PER_PAGE
  /\ Crash

\* Faulty: never compares with the root.
ParentIsLarger_below_root ==
  /\ PARENT_ENTRY(current_index) > 0
  /\ Key[inserting] < Key[table[PARENT_ENTRY(current_index)]]

ParentIsLarger ==
  /\ current_index > 0
  /\ Key[inserting] < Key[table[PARENT_ENTRY(current_index)]]

\* Faulty: moves the parent down but not the index up.
SiftUp_in_place ==
  /\ pc = "up"
  /\ ParentIsLarger
  /\ table' = [table EXCEPT ![current_index] = table[PARENT_ENTRY(current_index)]]
  /\ UNCHANGED <<ENTRIES_PER_PAGE, active_entries, allocated_pages,
                 minimum_pages, pc, current_index, inserting, result>>

\* One turn of heap_insert's loop: the parent moves down into the hole.
SiftUp ==
  /\ pc = "up"
  /\ ParentIsLarger
  /\ table' = [table EXCEPT ![current_index] = table[PARENT_ENTRY(current_index)]]
  /\ current_index' = PARENT_ENTRY(current_index)
  /\ UNCHANGED <<ENTRIES_PER_PAGE, active_entries, allocated_pages,
                 minimum_pages, pc, inserting, result>>

\* The end of heap_insert.
Insert ==
  /\ pc = "up"
  /\ ~ParentIsLarger
  /\ table' = [table EXCEPT ![current_index] = inserting]
  /\ active_entries' = active_entries + 1
  /\ pc' = "idle"
  /\ inserting' = Null
  /\ UNCHANGED <<ENTRIES_PER_PAGE, allocated_pages, minimum_pages,
                 current_index, result>>

-----------------------------------------------------------------------------
heap_delmin_of_empty ==
  /\ pc = "idle"
  /\ active_entries = 0
  /\ result' = Null
  /\ UNCHANGED <<ENTRIES_PER_PAGE, table, active_entries, allocated_pages,
                 minimum_pages, pc, current_index, inserting>>

\* heap_delmin up to its loop: the root is the result, the last entry takes
\* its place.
heap_delmin ==
  /\ pc = "idle"
  /\ active_entries > 0
  /\ result' = table[0]
  /\ active_entries' = active_entries - 1
  /\ table' = IF active_entries > 1
              THEN [table EXCEPT ![0] = table[active_entries - 1]]
              ELSE table
  /\ current_index' = 0
  /\ pc' = "down"
  /\ UNCHANGED <<ENTRIES_PER_PAGE, allocated_pages, minimum_pages, inserting>>

\* Faulty: always the right child when there is one.
SmallerChild_right ==
  IF RIGHT_CHILD(current_index) < active_entries
  THEN RIGHT_CHILD(current_index) ELSE LEFT_CHILD(current_index)

\* The child heap_delmin compares with the current entry: the right one only
\* when it is there and strictly smaller than the left one.
SmallerChild ==
  LET l == LEFT_CHILD(current_index)
      r == RIGHT_CHILD(current_index)
  IN IF r < active_entries /\ Key[table[r]] < Key[table[l]] THEN r ELSE l

ChildIsSmaller ==
  /\ LEFT_CHILD(current_index) < active_entries
  /\ Key[table[SmallerChild]] < Key[table[current_index]]

\* One turn of heap_delmin's loop: SWAP_ENTRIES with the smaller child.
SiftDown ==
  /\ pc = "down"
  /\ ChildIsSmaller
  /\ table' = [table EXCEPT ![current_index] = table[SmallerChild],
                            ![SmallerChild]  = table[current_index]]
  /\ current_index' = SmallerChild
  /\ UNCHANGED <<ENTRIES_PER_PAGE, active_entries, allocated_pages,
                 minimum_pages, pc, inserting, result>>

MayRelease ==
  /\ allocated_pages \div 2 > PagesFor(active_entries) + 1
  /\ allocated_pages \div 2 >= minimum_pages

\* The end of heap_delmin: halve the table when most of it is empty.
Release ==
  /\ pc = "down"
  /\ ~ChildIsSmaller
  /\ IF MayRelease
     THEN /\ allocated_pages' = allocated_pages \div 2
          /\ table' = Remapped(allocated_pages \div 2, PagesFor(active_entries))
     ELSE UNCHANGED <<allocated_pages, table>>
  /\ pc' = "idle"
  /\ UNCHANGED <<ENTRIES_PER_PAGE, active_entries, minimum_pages,
                 current_index, inserting, result>>

ReleaseFails ==
  /\ pc = "down"
  /\ ~ChildIsSmaller
  /\ MayRelease
  /\ Crash

-----------------------------------------------------------------------------
heap_destroy ==
  /\ pc = "idle"
  /\ table # NULL
  /\ active_entries' = 0
  /\ allocated_pages' = 0
  /\ table' = NULL
  /\ pc' = "none"
  /\ UNCHANGED <<ENTRIES_PER_PAGE, minimum_pages, current_index, inserting, result>>

\* map_out_pages asserts that the table is not NULL.
heap_destroy_fails == pc = "idle" /\ table = NULL /\ Crash

\* The abort is final.
Crashed == pc = "crashed" /\ UNCHANGED vars

\* The entries heap_foreach visits.
heap_foreach == {table[i] : i \in 0 .. active_entries - 1}

\* What heap_min gives: the root, or nothing.
heap_min == IF active_entries = 0 THEN Null ELSE table[0]

\* A caller never inserts an entry that is still in the heap: it has just
\* allocated it.
Call ==
  \/ \E s \in InitialSizes : heap_create(s)
  \/ \E e \in Entries : e \notin heap_foreach /\ heap_insert(e)
  \/ heap_insert_fails
  \/ heap_delmin_of_empty \/ heap_delmin
  \/ heap_destroy \/ heap_destroy_fails

Step == SiftUp \/ Insert \/ SiftDown \/ Release \/ ReleaseFails

Next == Call \/ Step \/ Crashed

Spec == Init /\ [][Next]_vars

\* A call that has begun keeps running.
FairSpec == Spec /\ WF_vars(Step)

-----------------------------------------------------------------------------
(* Properties. *)

\* The slots that hold an entry of the heap; in heap_insert's loop the slot
\* at current_index is a hole that the new entry or its parent will fill.
Occupied ==
  IF pc = "up" THEN (0 .. active_entries) \ {current_index}
               ELSE 0 .. active_entries - 1

Held == {table[i] : i \in Occupied} \cup (IF pc = "up" THEN {inserting} ELSE {})

\* The type of every variable.
TypeOK ==
  /\ ENTRIES_PER_PAGE \in PageEntries \cup {0}
  /\ active_entries \in Nat
  /\ allocated_pages \in Nat
  /\ minimum_pages \in Nat
  /\ table \in {NULL} \cup [Slots(allocated_pages) -> Entries \cup {Null}]
  /\ pc \in PCs
  /\ current_index \in Nat
  /\ inserting \in Entries \cup {Null}
  /\ result \in Entries \cup {Null}

\* The table always has room for what a call is about to store, through every
\* doubling and halving, and never shrinks below the pages heap_create took.
Fits ==
  /\ table # NULL =>
       /\ ENTRIES_PER_PAGE > 0
       /\ active_entries <= allocated_pages * ENTRIES_PER_PAGE
       /\ 0 < minimum_pages /\ minimum_pages <= allocated_pages
  /\ pc = "up" => /\ table # NULL
                  /\ inserting \in Entries
                  /\ current_index <= active_entries
                  /\ active_entries < allocated_pages * ENTRIES_PER_PAGE
  /\ pc = "down" => /\ table # NULL
                    /\ active_entries + 1 <= allocated_pages * ENTRIES_PER_PAGE
                    /\ active_entries > 0 => current_index < active_entries
  /\ table = NULL => active_entries = 0

\* No entry is lost, overwritten or held twice while entries move: every
\* occupied slot holds an entry, and no two hold the same one.
Distinct ==
  /\ \A i \in Occupied : table[i] \in Entries
  /\ \A i, j \in Occupied : table[i] = table[j] => i = j
  /\ pc = "up" => \A i \in Occupied : table[i] # inserting

\* Parents precede children everywhere but at the slot a sift loop is about
\* to settle; around that slot the grandparent precedes the grandchildren, and
\* so does the entry being inserted.
Precedes(i, j) == Key[table[i]] <= Key[table[j]]

Unsettled == IF pc \in {"up", "down"} THEN {current_index} ELSE {}

Ordered ==
  \A i \in Occupied \ {0} :
    LET p == PARENT_ENTRY(i) IN
    /\ p \notin Unsettled => Precedes(p, i)
    /\ p \in Unsettled /\ p > 0 => Precedes(PARENT_ENTRY(p), i)
    /\ p \in Unsettled /\ pc = "up" => Key[inserting] <= Key[table[i]]

\* heap_min, between calls, gives an entry no other entry of the heap precedes.
RootIsMinimum ==
  pc = "idle" /\ active_entries > 0 => \A e \in Held : Key[heap_min] <= Key[e]

\* heap.c does what heap.h promises: entries leave in order of their keys, once
\* each, whatever pages were mapped and unmapped meanwhile.
PQ == INSTANCE PriorityQueue WITH contents <- Held
ImplementsPriorityQueue == PQ!Spec

\* Both sift loops end, so a call that has begun returns (or aborts).
CallsEnd == pc \in {"up", "down"} ~> pc \in {"idle", "crashed"}
=============================================================================
