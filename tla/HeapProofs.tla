----------------------------- MODULE HeapProofs -----------------------------
(***************************************************************************)
(* Heap for every set of entries, page size and initial size: the table    *)
(* is always large enough (SafeAccess), holds every entry once             *)
(* (EntriesDistinct) and in heap order (HeapOrdered).                      *)
(***************************************************************************)
EXTENDS Heap, WellFoundedInduction, TLAPS

(***************************************************************************)
(* Arithmetic of pages and of array positions.                             *)
(***************************************************************************)

\* n / e rounded up: the pages of e entries that n entries need.
RoundUp(n, e) == n \div e + (IF n % e > 0 THEN 1 ELSE 0)

\* Rounding up to pages gives room for n entries, and a page if there is one.
LEMMA RoundedUp ==
  ASSUME NEW n \in Nat, NEW e \in Nat \ {0}
  PROVE  RoundUp(n, e) \in Nat /\ n <= RoundUp(n, e) * e /\ (n > 0 => RoundUp(n, e) > 0)
<1> DEFINE d == n \div e
           m == n % e
           q == d + (IF m > 0 THEN 1 ELSE 0)
<1>1. n = e * d + m /\ m \in 0 .. e - 1 /\ d \in Nat
  BY SMT
<1>2. (d + 1) * e = e * d + e /\ d * e = e * d
  BY <1>1, SMT
<1> HIDE DEF d, m
<1>3. n > 0 /\ m = 0 => d > 0
  BY <1>1, SMT
<1>4. q \in Nat /\ n <= q * e /\ (n > 0 => q > 0)
  <2>1. CASE m > 0
    BY <1>1, <1>2, <2>1, SMT
  <2>2. CASE ~(m > 0)
    BY <1>1, <1>2, <1>3, <2>2, SMT
  <2> QED BY <2>1, <2>2
<1> QED BY <1>4 DEF d, m, RoundUp

\* Fewer pages hold fewer entries.
LEMMA FewerPages ==
  ASSUME NEW a \in Nat, NEW b \in Nat, NEW e \in Nat, a <= b
  PROVE  a * e \in Nat /\ b * e \in Nat /\ a * e <= b * e
BY SMT

\* Doubling a table that has at least one page makes room for one more entry.
LEMMA Doubled ==
  ASSUME NEW a \in Nat \ {0}, NEW e \in Nat \ {0}, NEW n \in Nat, n <= a * e
  PROVE  n < (2 * a) * e
<1>1. (2 * a) * e = a * e + a * e /\ a * e \in Nat /\ a * e > 0
  BY SMT
<1> QED BY <1>1, SMT

\* A parent is before its children, and is the parent of both.
LEMMA Parents ==
  ASSUME NEW i \in Nat \ {0}
  PROVE  /\ PARENT_ENTRY(i) \in Nat /\ PARENT_ENTRY(i) < i
         /\ i = LEFT_CHILD(PARENT_ENTRY(i)) \/ i = RIGHT_CHILD(PARENT_ENTRY(i))
BY SMT DEF PARENT_ENTRY, LEFT_CHILD, RIGHT_CHILD

\* The two children of a slot are behind it and have it as their parent.
LEMMA Children ==
  ASSUME NEW i \in Nat
  PROVE  /\ LEFT_CHILD(i) \in Nat \ {0} /\ RIGHT_CHILD(i) \in Nat \ {0}
         /\ i < LEFT_CHILD(i) /\ RIGHT_CHILD(i) = LEFT_CHILD(i) + 1
         /\ PARENT_ENTRY(LEFT_CHILD(i)) = i /\ PARENT_ENTRY(RIGHT_CHILD(i)) = i
BY SMT DEF PARENT_ENTRY, LEFT_CHILD, RIGHT_CHILD

-----------------------------------------------------------------------------
(***************************************************************************)
(* The table is never accessed outside its pages.                          *)
(***************************************************************************)
Safe == TypeOK /\ Fits

\* Every position a call uses is in the table.
LEMMA InTable ==
  ASSUME Safe, table # NULL
  PROVE  /\ ENTRIES_PER_PAGE \in Nat \ {0}
         /\ allocated_pages \in Nat \ {0}
         /\ minimum_pages \in Nat \ {0} /\ minimum_pages <= allocated_pages
         /\ allocated_pages * ENTRIES_PER_PAGE \in Nat
         /\ table \in [Slots(allocated_pages) -> Entries \cup {Null}]
         /\ active_entries <= allocated_pages * ENTRIES_PER_PAGE
         /\ \A i \in Nat : i < active_entries => i \in Slots(allocated_pages)
         /\ pc \in {"up", "down"} =>
              \A i \in Nat : i <= active_entries => i \in Slots(allocated_pages)
<1> USE PageAssumption DEF Safe, TypeOK, Fits
<1>1. ENTRIES_PER_PAGE \in Nat \ {0} /\ allocated_pages \in Nat \ {0}
  OBVIOUS
<1>2. allocated_pages * ENTRIES_PER_PAGE \in Nat
  BY <1>1, SMT
<1> DEFINE cap == allocated_pages * ENTRIES_PER_PAGE
<1>3. cap \in Nat /\ Slots(allocated_pages) = 0 .. cap - 1
  BY <1>2 DEF Slots
<1>4. /\ active_entries \in Nat /\ active_entries <= cap
      /\ pc = "up" => active_entries < cap
      /\ pc = "down" => active_entries + 1 <= cap
  OBVIOUS
<1> HIDE DEF cap
<1>5. /\ \A i \in Nat : i < active_entries => i \in Slots(allocated_pages)
      /\ pc \in {"up", "down"} =>
           \A i \in Nat : i <= active_entries => i \in Slots(allocated_pages)
  BY <1>3, <1>4
<1> QED BY <1>1, <1>2, <1>5

\* A table of at least one page is not NULL.
LEMMA Mapped ==
  ASSUME ENTRIES_PER_PAGE \in Nat \ {0}, NEW pages \in Nat \ {0},
         NEW t \in [Slots(pages) -> Entries \cup {Null}]
  PROVE  t # NULL
<1>1. pages * ENTRIES_PER_PAGE \in Nat \ {0}
  BY SMT
<1>2. 0 \in Slots(pages)
  BY <1>1 DEF Slots
<1>3. DOMAIN NULL = {} /\ DOMAIN t = Slots(pages)
  BY DEF NULL
<1> QED BY <1>2, <1>3

\* The child heap_delmin may swap with is one of the children, and active.
LEMMA SmallerChildIsChild ==
  ASSUME Safe, pc = "down", LEFT_CHILD(current_index) < active_entries
  PROVE  /\ SmallerChild \in Nat \ {0} /\ SmallerChild < active_entries
         /\ SmallerChild > current_index
         /\ SmallerChild \in {LEFT_CHILD(current_index), RIGHT_CHILD(current_index)}
         /\ PARENT_ENTRY(SmallerChild) = current_index
<1>1. current_index \in Nat /\ active_entries \in Nat
  BY DEF Safe, TypeOK
<1>2. /\ LEFT_CHILD(current_index) \in Nat \ {0} /\ RIGHT_CHILD(current_index) \in Nat \ {0}
      /\ current_index < LEFT_CHILD(current_index)
      /\ RIGHT_CHILD(current_index) = LEFT_CHILD(current_index) + 1
      /\ PARENT_ENTRY(LEFT_CHILD(current_index)) = current_index
      /\ PARENT_ENTRY(RIGHT_CHILD(current_index)) = current_index
  BY <1>1, Children
<1>3. \/ SmallerChild = LEFT_CHILD(current_index)
      \/ SmallerChild = RIGHT_CHILD(current_index) /\ RIGHT_CHILD(current_index) < active_entries
  BY DEF SmallerChild
<1> QED BY <1>1, <1>2, <1>3

\* The types and bounds hold of an empty heap.
LEMMA SafeInit == Init => Safe
BY EntriesAssumption, PageAssumption DEF Init, Safe, TypeOK, Fits, PCs, Slots

\* Every step keeps the types and bounds.
LEMMA SafeStep == Safe /\ [Next]_vars => Safe'
<1> SUFFICES ASSUME Safe, [Next]_vars PROVE Safe'
  OBVIOUS
<1> USE EntriesAssumption, PageAssumption
<1>1. ASSUME NEW s \in InitialSizes, heap_create(s) PROVE Safe'
  <2>1. s \in Int /\ ENTRIES_PER_PAGE' \in Nat \ {0} /\ ENTRIES_PER_PAGE' \in PageEntries
    BY <1>1, SizeAssumption DEF heap_create, Safe, TypeOK
  <2>2. allocated_pages' \in Nat \ {0}
    <3>1. CASE s <= 0
      BY <1>1, <3>1 DEF heap_create
    <3>2. CASE ~(s <= 0)
      <4>1. s \in Nat /\ s > 0
        BY <2>1, <3>2
      <4>2. allocated_pages' = RoundUp(s, ENTRIES_PER_PAGE')
        BY <1>1, <3>2 DEF heap_create, PagesFor, RoundUp
      <4>3. \A e \in Nat \ {0} : RoundUp(s, e) \in Nat \ {0}
        BY <4>1, RoundedUp
      <4> QED BY <2>1, <4>2, <4>3
    <3> QED BY <3>1, <3>2
  <2>3. 0 <= allocated_pages' * ENTRIES_PER_PAGE'
    <3>1. \A a, e \in Nat : 0 <= a * e
      BY SMT
    <3> QED BY <2>1, <2>2, <3>1
  <2>4. table' \in {NULL} \cup [Slots(allocated_pages)' -> Entries \cup {Null}]
    BY <1>1 DEF heap_create
  <2>5. TypeOK'
    BY <1>1, <2>1, <2>2, <2>4 DEF heap_create, Safe, TypeOK, PCs
  <2>6. /\ active_entries' = 0 /\ pc' = "idle" /\ minimum_pages' = allocated_pages'
        /\ ENTRIES_PER_PAGE' > 0 /\ 0 < minimum_pages' /\ minimum_pages' <= allocated_pages'
    BY <1>1, <2>1, <2>2 DEF heap_create
  <2>7. Fits'
    BY <2>3, <2>6 DEF Fits
  <2> QED BY <2>5, <2>7 DEF Safe
<1>2. ASSUME NEW e \in Entries, heap_insert(e) PROVE Safe'
  <2>1. table # NULL /\ pc = "idle"
    BY <1>2 DEF heap_insert
  <2>2. /\ ENTRIES_PER_PAGE \in Nat \ {0} /\ allocated_pages \in Nat \ {0}
        /\ minimum_pages \in Nat \ {0} /\ minimum_pages <= allocated_pages
        /\ allocated_pages * ENTRIES_PER_PAGE \in Nat
        /\ table \in [Slots(allocated_pages) -> Entries \cup {Null}]
        /\ active_entries <= allocated_pages * ENTRIES_PER_PAGE
        /\ active_entries \in Nat
    BY <2>1, InTable DEF Safe, TypeOK
  <2>3. /\ active_entries' = active_entries /\ current_index' = active_entries
        /\ ENTRIES_PER_PAGE' = ENTRIES_PER_PAGE /\ minimum_pages' = minimum_pages
        /\ inserting' = e /\ pc' = "up" /\ result' = result
    BY <1>2 DEF heap_insert
  <2>4. /\ allocated_pages' \in Nat /\ minimum_pages <= allocated_pages'
        /\ table' # NULL
        /\ table' \in [Slots(allocated_pages)' -> Entries \cup {Null}]
        /\ active_entries < allocated_pages' * ENTRIES_PER_PAGE
        /\ active_entries <= allocated_pages' * ENTRIES_PER_PAGE
    <3>1. CASE active_entries + 1 > allocated_pages * ENTRIES_PER_PAGE
      <4>1. allocated_pages' = 2 * allocated_pages
            /\ table' = Remapped(2 * allocated_pages, allocated_pages)
        BY <1>2, <3>1 DEF heap_insert
      <4>2. active_entries < (2 * allocated_pages) * ENTRIES_PER_PAGE
        BY <2>2, Doubled
      <4>3. Slots(allocated_pages)' = Slots(2 * allocated_pages)
        BY <4>1, <2>3 DEF Slots
      <4>4. table' \in [Slots(2 * allocated_pages) -> Entries \cup {Null}]
        BY <4>1, <2>2 DEF Remapped
      <4>5. (2 * allocated_pages) * ENTRIES_PER_PAGE \in Int
        BY <2>2, SMT
      <4>6. table' # NULL
        BY <2>2, <4>4, Mapped
      <4> QED BY <2>2, <4>1, <4>2, <4>3, <4>4, <4>5, <4>6
    <3>2. CASE ~(active_entries + 1 > allocated_pages * ENTRIES_PER_PAGE)
      <4>1. allocated_pages' = allocated_pages /\ table' = table
        BY <1>2, <3>2 DEF heap_insert
      <4>2. Slots(allocated_pages)' = Slots(allocated_pages)
        BY <4>1, <2>3 DEF Slots
      <4> QED BY <2>1, <2>2, <3>2, <4>1, <4>2
    <3> QED BY <3>1, <3>2
  <2>5. TypeOK'
    BY <2>3, <2>4 DEF Safe, TypeOK, PCs
  <2>6. /\ active_entries' < allocated_pages' * ENTRIES_PER_PAGE'
        /\ active_entries' <= allocated_pages' * ENTRIES_PER_PAGE'
    BY <2>3, <2>4, Zenon
  <2>7. /\ ENTRIES_PER_PAGE' > 0 /\ 0 < minimum_pages' /\ minimum_pages' <= allocated_pages'
        /\ current_index' <= active_entries' /\ inserting' \in Entries
    BY <2>2, <2>3, <2>4
  <2>8. Fits'
    BY <2>3, <2>4, <2>6, <2>7 DEF Fits
  <2> QED BY <2>5, <2>8 DEF Safe
<1>3. ASSUME Crash PROVE Safe'
  BY <1>3 DEF Crash, Safe, TypeOK, Fits, PCs, Slots
<1>4. ASSUME SiftUp PROVE Safe'
  <2>1. pc = "up" /\ table # NULL /\ ParentIsLarger
    BY <1>4 DEF SiftUp, Safe, Fits
  <2>2. /\ current_index \in Nat \ {0} /\ current_index <= active_entries
        /\ active_entries \in Nat
    BY <2>1 DEF Safe, TypeOK, Fits, ParentIsLarger
  <2>3. /\ PARENT_ENTRY(current_index) \in Nat
        /\ PARENT_ENTRY(current_index) < current_index
        /\ PARENT_ENTRY(current_index) \in Slots(allocated_pages)
        /\ table \in [Slots(allocated_pages) -> Entries \cup {Null}]
    BY <2>1, <2>2, Parents, InTable
  <2>4. table' \in [Slots(allocated_pages) -> Entries \cup {Null}] /\ table' # NULL
    <3>1. table' \in [Slots(allocated_pages) -> Entries \cup {Null}]
      BY <1>4, <2>3 DEF SiftUp
    <3> QED BY <2>1, <3>1, InTable, Mapped
  <2>5. Slots(allocated_pages)' = Slots(allocated_pages)
    BY <1>4 DEF SiftUp, Slots
  <2>6. TypeOK'
    BY <1>4, <2>3, <2>4, <2>5 DEF SiftUp, Safe, TypeOK, PCs
  <2>7. Fits'
    BY <1>4, <2>1, <2>2, <2>3, <2>4 DEF SiftUp, Safe, Fits
  <2> QED BY <2>6, <2>7 DEF Safe
<1>5. ASSUME Insert PROVE Safe'
  <2>1. pc = "up" /\ table # NULL /\ inserting \in Entries
    BY <1>5 DEF Insert, Safe, Fits
  <2>2. /\ active_entries \in Nat /\ active_entries < allocated_pages * ENTRIES_PER_PAGE
        /\ allocated_pages * ENTRIES_PER_PAGE \in Nat
        /\ table \in [Slots(allocated_pages) -> Entries \cup {Null}]
    BY <2>1, InTable DEF Safe, TypeOK, Fits
  <2>3. table' \in [Slots(allocated_pages) -> Entries \cup {Null}] /\ table' # NULL
    <3>1. table' \in [Slots(allocated_pages) -> Entries \cup {Null}]
      BY <1>5, <2>1, <2>2 DEF Insert
    <3> QED BY <2>1, <3>1, InTable, Mapped
  <2>4. Slots(allocated_pages)' = Slots(allocated_pages)
    BY <1>5 DEF Insert, Slots
  <2>5. TypeOK'
    BY <1>5, <2>2, <2>3, <2>4 DEF Insert, Safe, TypeOK, PCs
  <2>6. Fits'
    BY <1>5, <2>1, <2>2, <2>3 DEF Insert, Safe, Fits
  <2> QED BY <2>5, <2>6 DEF Safe
<1>6. ASSUME heap_delmin_of_empty PROVE Safe'
  BY <1>6 DEF heap_delmin_of_empty, Safe, TypeOK, Fits, Slots
<1>7. ASSUME heap_delmin PROVE Safe'
  <2>1. /\ pc = "idle" /\ table # NULL
        /\ active_entries \in Nat \ {0}
    BY <1>7 DEF heap_delmin, Safe, TypeOK, Fits
  <2>2. /\ active_entries <= allocated_pages * ENTRIES_PER_PAGE
        /\ allocated_pages * ENTRIES_PER_PAGE \in Nat
        /\ table \in [Slots(allocated_pages) -> Entries \cup {Null}]
        /\ 0 \in Slots(allocated_pages) /\ active_entries - 1 \in Slots(allocated_pages)
    BY <2>1, InTable
  <2>3. table' \in [Slots(allocated_pages) -> Entries \cup {Null}] /\ table' # NULL
    <3>1. table' \in [Slots(allocated_pages) -> Entries \cup {Null}]
      BY <1>7, <2>1, <2>2 DEF heap_delmin
    <3> QED BY <2>1, <3>1, InTable, Mapped
  <2>4. Slots(allocated_pages)' = Slots(allocated_pages)
    BY <1>7 DEF heap_delmin, Slots
  <2>5. TypeOK'
    BY <1>7, <2>1, <2>2, <2>3, <2>4 DEF heap_delmin, Safe, TypeOK, PCs
  <2>6. Fits'
    BY <1>7, <2>1, <2>2, <2>3 DEF heap_delmin, Safe, Fits
  <2> QED BY <2>5, <2>6 DEF Safe
<1>8. ASSUME SiftDown PROVE Safe'
  <2>1. pc = "down" /\ table # NULL /\ ChildIsSmaller
    BY <1>8 DEF SiftDown, Safe, Fits
  <2>2. SmallerChild \in Nat /\ SmallerChild < active_entries
    BY <2>1, SmallerChildIsChild DEF ChildIsSmaller
  <2>3. /\ table \in [Slots(allocated_pages) -> Entries \cup {Null}]
        /\ current_index \in Nat /\ active_entries \in Nat
        /\ current_index \in Slots(allocated_pages)
        /\ SmallerChild \in Slots(allocated_pages)
    BY <2>1, <2>2, InTable DEF Safe, TypeOK, Fits
  <2>4. table' \in [Slots(allocated_pages) -> Entries \cup {Null}] /\ table' # NULL
    <3>1. table' \in [Slots(allocated_pages) -> Entries \cup {Null}]
      BY <1>8, <2>3 DEF SiftDown
    <3> QED BY <2>1, <3>1, InTable, Mapped
  <2>5. Slots(allocated_pages)' = Slots(allocated_pages)
    BY <1>8 DEF SiftDown, Slots
  <2>6. TypeOK'
    BY <1>8, <2>2, <2>4, <2>5 DEF SiftDown, Safe, TypeOK, PCs
  <2>7. Fits'
    BY <1>8, <2>1, <2>2, <2>4 DEF SiftDown, Safe, Fits
  <2> QED BY <2>6, <2>7 DEF Safe
<1>9. ASSUME Release PROVE Safe'
  <2>1. pc = "down" /\ table # NULL
    BY <1>9 DEF Release, Safe, Fits
  <2>2. /\ ENTRIES_PER_PAGE \in Nat \ {0} /\ allocated_pages \in Nat \ {0}
        /\ minimum_pages \in Nat \ {0} /\ minimum_pages <= allocated_pages
        /\ allocated_pages * ENTRIES_PER_PAGE \in Nat
        /\ table \in [Slots(allocated_pages) -> Entries \cup {Null}]
        /\ active_entries \in Nat
        /\ active_entries <= allocated_pages * ENTRIES_PER_PAGE
    BY <2>1, InTable DEF Safe, TypeOK
  <2>3. /\ active_entries' = active_entries /\ pc' = "idle"
        /\ ENTRIES_PER_PAGE' = ENTRIES_PER_PAGE /\ minimum_pages' = minimum_pages
        /\ UNCHANGED <<current_index, inserting, result>>
    BY <1>9 DEF Release
  <2>4. CASE MayRelease
    <3>1. /\ allocated_pages' = allocated_pages \div 2
          /\ table' = Remapped(allocated_pages \div 2, PagesFor(active_entries))
      BY <1>9, <2>4 DEF Release
    <3>2. PagesFor(active_entries) \in Nat
          /\ active_entries <= PagesFor(active_entries) * ENTRIES_PER_PAGE
      <4>1. PagesFor(active_entries) = RoundUp(active_entries, ENTRIES_PER_PAGE)
        BY DEF PagesFor, RoundUp
      <4> QED BY <2>2, <4>1, RoundedUp
    <3>3. /\ allocated_pages \div 2 \in Nat /\ 2 * (allocated_pages \div 2) <= allocated_pages
          /\ PagesFor(active_entries) <= allocated_pages \div 2
          /\ minimum_pages <= allocated_pages \div 2
      BY <2>2, <2>4, <3>2 DEF MayRelease
    <3>4. active_entries <= (allocated_pages \div 2) * ENTRIES_PER_PAGE
      BY <2>2, <3>2, <3>3, FewerPages
    <3>5. \A i \in Slots(PagesFor(active_entries)) : i \in Slots(allocated_pages)
      <4>1. PagesFor(active_entries) * ENTRIES_PER_PAGE <= allocated_pages * ENTRIES_PER_PAGE
            /\ PagesFor(active_entries) * ENTRIES_PER_PAGE \in Nat
        <5>1. PagesFor(active_entries) <= allocated_pages
          BY <2>2, <3>2, <3>3
        <5> QED BY <2>2, <3>2, <5>1, FewerPages
      <4> QED BY <2>2, <4>1 DEF Slots
    <3>6. /\ table' # NULL
          /\ table' \in [Slots(allocated_pages \div 2) -> Entries \cup {Null}]
      <4>1. table' \in [Slots(allocated_pages \div 2) -> Entries \cup {Null}]
        BY <2>2, <3>1, <3>5 DEF Remapped
      <4> QED BY <2>2, <3>3, <4>1, Mapped
    <3>7. Slots(allocated_pages)' = Slots(allocated_pages \div 2)
      BY <2>3, <3>1 DEF Slots
    <3>8. TypeOK'
      BY <2>2, <2>3, <3>1, <3>3, <3>6, <3>7 DEF Safe, TypeOK, PCs
    <3>9. Fits'
      BY <2>2, <2>3, <3>1, <3>3, <3>4, <3>6 DEF Fits
    <3> QED BY <3>8, <3>9 DEF Safe
  <2>5. CASE ~MayRelease
    BY <1>9, <2>1, <2>2, <2>5 DEF Release, Safe, TypeOK, Fits, PCs, Slots
  <2> QED BY <2>4, <2>5
<1>10. ASSUME heap_destroy PROVE Safe'
  BY <1>10 DEF heap_destroy, Safe, TypeOK, Fits, PCs
<1>11. ASSUME UNCHANGED vars PROVE Safe'
  BY <1>11 DEF vars, Safe, TypeOK, Fits, Slots
<1>12. QED
  BY <1>1, <1>2, <1>3, <1>4, <1>5, <1>6, <1>7, <1>8, <1>9, <1>10, <1>11
  DEF Next, Call, Step, Crashed, heap_insert_fails, ReleaseFails, heap_destroy_fails

\* Every variable keeps its type, and a call never reads or writes outside the
\* mapped pages, however the table was grown and shrunk (heap.c:174-358).
THEOREM TypeCorrect == Spec => []TypeOK
<1>1. Safe => TypeOK
  BY DEF Safe
<1> QED BY <1>1, SafeInit, SafeStep, PTL DEF Spec

\* For all pages, entries and initial sizes: the table has room for what a call is
\* about to store, through every doubling and halving of heap_insert and heap_delmin.
THEOREM SafeAccess == Spec => []Fits
<1>1. Safe => Fits
  BY DEF Safe
<1> QED BY <1>1, SafeInit, SafeStep, PTL DEF Spec

-----------------------------------------------------------------------------
(***************************************************************************)
(* No entry is lost or doubled while entries move between slots.           *)
(***************************************************************************)

\* heap_insert copies every entry when it doubles the table.
LEMMA InsertKeepsTable ==
  ASSUME Safe, NEW e \in Entries, heap_insert(e)
  PROVE  \A i \in 0 .. active_entries - 1 : table'[i] = table[i]
<1>1. table # NULL /\ active_entries \in Nat
  BY DEF heap_insert, Safe, TypeOK
<1>2. \A i \in 0 .. active_entries - 1 : i \in Slots(allocated_pages)
  BY <1>1, InTable
<1>3. CASE active_entries + 1 > allocated_pages * ENTRIES_PER_PAGE
  <2>1. table' = Remapped(2 * allocated_pages, allocated_pages)
    BY <1>3 DEF heap_insert
  <2>2. \A i \in Slots(allocated_pages) : i \in Slots(2 * allocated_pages)
    <3>1. /\ allocated_pages * ENTRIES_PER_PAGE \in Nat
          /\ (2 * allocated_pages) * ENTRIES_PER_PAGE \in Nat
          /\ allocated_pages * ENTRIES_PER_PAGE <= (2 * allocated_pages) * ENTRIES_PER_PAGE
      <4>1. allocated_pages \in Nat /\ ENTRIES_PER_PAGE \in Nat
            /\ 2 * allocated_pages \in Nat /\ allocated_pages <= 2 * allocated_pages
        BY <1>1, InTable
      <4> QED BY <4>1, FewerPages
    <3> QED BY <3>1 DEF Slots
  <2> QED BY <1>2, <2>1, <2>2 DEF Remapped
<1>4. CASE ~(active_entries + 1 > allocated_pages * ENTRIES_PER_PAGE)
  BY <1>4 DEF heap_insert
<1> QED BY <1>3, <1>4

\* heap_delmin copies every page in use when it halves the table.
LEMMA ReleaseKeepsTable ==
  ASSUME Safe, Release
  PROVE  \A i \in 0 .. active_entries - 1 : table'[i] = table[i]
<1>1. /\ table # NULL /\ active_entries \in Nat
      /\ ENTRIES_PER_PAGE \in Nat \ {0} /\ allocated_pages \in Nat \ {0}
  BY InTable DEF Release, Safe, TypeOK, Fits
<1>2. CASE MayRelease
  <2>1. table' = Remapped(allocated_pages \div 2, PagesFor(active_entries))
    BY <1>2 DEF Release
  <2>2. /\ PagesFor(active_entries) \in Nat
        /\ active_entries <= PagesFor(active_entries) * ENTRIES_PER_PAGE
    <3>1. PagesFor(active_entries) = RoundUp(active_entries, ENTRIES_PER_PAGE)
      BY DEF PagesFor, RoundUp
    <3> QED BY <1>1, <3>1, RoundedUp
  <2>3. /\ allocated_pages \div 2 \in Nat
        /\ PagesFor(active_entries) <= allocated_pages \div 2
    BY <1>1, <1>2, <2>2 DEF MayRelease
  <2>4. /\ PagesFor(active_entries) * ENTRIES_PER_PAGE \in Nat
        /\ (allocated_pages \div 2) * ENTRIES_PER_PAGE \in Nat
        /\ PagesFor(active_entries) * ENTRIES_PER_PAGE
             <= (allocated_pages \div 2) * ENTRIES_PER_PAGE
    BY <1>1, <2>2, <2>3, FewerPages
  <2>5. \A i \in 0 .. active_entries - 1 :
          i \in Slots(PagesFor(active_entries)) /\ i \in Slots(allocated_pages \div 2)
    BY <1>1, <2>2, <2>4 DEF Slots
  <2> QED BY <2>1, <2>5 DEF Remapped
<1>3. CASE ~MayRelease
  BY <1>3 DEF Release
<1> QED BY <1>2, <1>3

\* Every step leaves each entry in the heap once.
LEMMA DistinctStep == Safe /\ Distinct /\ [Next]_vars => Distinct'
<1> SUFFICES ASSUME Safe, Distinct, [Next]_vars PROVE Distinct'
  OBVIOUS
<1> USE EntriesAssumption
<1>0. active_entries \in Nat /\ current_index \in Nat
  BY DEF Safe, TypeOK
<1>1. ASSUME NEW s \in InitialSizes, heap_create(s) PROVE Distinct'
  BY <1>1 DEF heap_create, Distinct, Occupied
<1>2. ASSUME NEW e \in Entries, e \notin heap_foreach, heap_insert(e) PROVE Distinct'
  <2>1. \A i \in 0 .. active_entries - 1 : table'[i] = table[i]
    BY <1>2, InsertKeepsTable
  <2>2. /\ Occupied = 0 .. active_entries - 1 /\ Occupied' = 0 .. active_entries - 1
        /\ inserting' = e
    BY <1>0, <1>2 DEF heap_insert, Occupied
  <2> QED BY <1>2, <2>1, <2>2 DEF Distinct, heap_foreach
<1>3. ASSUME Crash, pc # "up" PROVE Distinct'
  BY <1>3 DEF Crash, Distinct, Occupied
<1>4. ASSUME SiftUp PROVE Distinct'
  <2> DEFINE c == current_index
             p == PARENT_ENTRY(current_index)
  <2>1. /\ pc = "up" /\ pc' = "up" /\ c > 0 /\ c <= active_entries /\ table # NULL
        /\ current_index' = p /\ active_entries' = active_entries /\ inserting' = inserting
        /\ table' = [table EXCEPT ![c] = table[p]]
    BY <1>4 DEF SiftUp, ParentIsLarger, Safe, Fits
  <2>2. p \in Nat /\ p < c
    BY <1>0, <2>1, Parents
  <2>3. /\ Occupied = (0 .. active_entries) \ {c}
        /\ Occupied' = (0 .. active_entries) \ {p}
    BY <2>1 DEF Occupied
  <2>4. \A i \in 0 .. active_entries : table'[i] = IF i = c THEN table[p] ELSE table[i]
    BY <1>0, <2>1, InTable
  <2>5. /\ p \in Occupied /\ c \in Occupied' /\ c \notin Occupied /\ p \notin Occupied'
        /\ \A i \in Occupied' \ {c} : i \in Occupied /\ i # p
    BY <1>0, <2>1, <2>2, <2>3
  <2>6. /\ table'[c] = table[p]
        /\ \A i \in Occupied' \ {c} : table'[i] = table[i]
    BY <1>0, <2>1, <2>2, <2>3, <2>4
  <2> HIDE DEF c, p
  <2>7. \A i \in Occupied' : table'[i] \in Entries
    BY <2>5, <2>6 DEF Distinct
  <2>8. \A i, j \in Occupied' : table'[i] = table'[j] => i = j
    BY <2>5, <2>6 DEF Distinct
  <2>9. \A i \in Occupied' : table'[i] # inserting'
    BY <2>1, <2>5, <2>6 DEF Distinct
  <2> QED BY <2>7, <2>8, <2>9 DEF Distinct
<1>5. ASSUME Insert PROVE Distinct'
  <2>1. /\ pc = "up" /\ pc' = "idle" /\ table # NULL /\ inserting \in Entries
        /\ current_index <= active_entries /\ active_entries' = active_entries + 1
        /\ table' = [table EXCEPT ![current_index] = inserting]
    BY <1>5 DEF Insert, Safe, Fits
  <2>2. /\ Occupied = (0 .. active_entries) \ {current_index}
        /\ Occupied' = 0 .. active_entries
    BY <1>0, <2>1 DEF Occupied
  <2>3. \A i \in 0 .. active_entries :
          table'[i] = IF i = current_index THEN inserting ELSE table[i]
    BY <1>0, <2>1, InTable
  <2> QED BY <2>1, <2>2, <2>3 DEF Distinct
<1>6. ASSUME heap_delmin_of_empty PROVE Distinct'
  BY <1>6 DEF heap_delmin_of_empty, Distinct, Occupied
<1>7. ASSUME heap_delmin PROVE Distinct'
  <2>1. /\ pc = "idle" /\ pc' = "down" /\ active_entries > 0 /\ table # NULL
        /\ active_entries' = active_entries - 1
        /\ table' = IF active_entries > 1
                    THEN [table EXCEPT ![0] = table[active_entries - 1]] ELSE table
    BY <1>7 DEF heap_delmin, Safe, Fits
  <2>2. Occupied = 0 .. active_entries - 1 /\ Occupied' = 0 .. active_entries - 2
    BY <1>0, <2>1 DEF Occupied
  <2>3. \A i \in 0 .. active_entries - 2 :
          table'[i] = IF i = 0 THEN table[active_entries - 1] ELSE table[i]
    BY <1>0, <2>1, InTable
  <2> QED BY <1>0, <2>1, <2>2, <2>3 DEF Distinct
<1>8. ASSUME SiftDown PROVE Distinct'
  <2> DEFINE c == current_index
             d == SmallerChild
  <2>1. /\ pc = "down" /\ pc' = "down" /\ table # NULL /\ active_entries' = active_entries
        /\ LEFT_CHILD(c) < active_entries
        /\ table' = [table EXCEPT ![c] = table[d], ![d] = table[c]]
    BY <1>8 DEF SiftDown, ChildIsSmaller, Safe, Fits
  <2>2. d \in Nat /\ d < active_entries /\ d > c
    BY <2>1, SmallerChildIsChild
  <2>3. Occupied = 0 .. active_entries - 1 /\ Occupied' = 0 .. active_entries - 1
    BY <2>1 DEF Occupied
  <2>4. \A i \in 0 .. active_entries - 1 :
          table'[i] = IF i = c THEN table[d] ELSE IF i = d THEN table[c] ELSE table[i]
    BY <1>0, <2>1, <2>2, InTable
  <2>5. c \in Occupied /\ d \in Occupied /\ c # d /\ Occupied' = Occupied
    BY <1>0, <2>1, <2>2, <2>3
  <2>6. /\ table'[c] = table[d] /\ table'[d] = table[c]
        /\ \A i \in Occupied \ {c, d} : table'[i] = table[i]
    BY <2>3, <2>4, <2>5
  <2> HIDE DEF c, d
  <2>7. \A i \in Occupied' : table'[i] \in Entries
    BY <2>5, <2>6 DEF Distinct
  <2>8. \A i, j \in Occupied' : table'[i] = table'[j] => i = j
    BY <2>5, <2>6 DEF Distinct
  <2> QED BY <2>1, <2>7, <2>8 DEF Distinct
<1>9. ASSUME Release PROVE Distinct'
  <2>1. \A i \in 0 .. active_entries - 1 : table'[i] = table[i]
    BY <1>9, ReleaseKeepsTable
  <2>2. /\ Occupied = 0 .. active_entries - 1 /\ Occupied' = 0 .. active_entries - 1
        /\ pc' = "idle"
    BY <1>9 DEF Release, Occupied
  <2> QED BY <2>1, <2>2 DEF Distinct
<1>10. ASSUME heap_destroy PROVE Distinct'
  BY <1>10 DEF heap_destroy, Distinct, Occupied
<1>11. ASSUME UNCHANGED vars PROVE Distinct'
  BY <1>11 DEF vars, Distinct, Occupied
<1>12. QED
  BY <1>1, <1>2, <1>3, <1>4, <1>5, <1>6, <1>7, <1>8, <1>9, <1>10, <1>11
  DEF Next, Call, Step, Crashed, heap_insert_fails, ReleaseFails, heap_destroy_fails

\* An empty heap has no entry twice.
LEMMA DistinctInit == Init => Distinct
BY DEF Init, Distinct, Occupied

\* heap_insert and heap_delmin neither lose an entry nor hold one twice.
THEOREM EntriesDistinct == Spec => []Distinct
BY SafeInit, SafeStep, DistinctInit, DistinctStep, PTL DEF Spec

-----------------------------------------------------------------------------
(***************************************************************************)
(* The heap order, hole and unsettled entry included.                      *)
(***************************************************************************)

\* Keys of entries in occupied slots can be compared.
LEMMA KeysAreInts ==
  ASSUME Distinct
  PROVE  \A i \in Occupied : Key[table[i]] \in Int
BY EntriesAssumption DEF Distinct

\* SmallerChild precedes both children of the unsettled entry.
LEMMA SmallerChildIsSmaller ==
  ASSUME Safe, Distinct, pc = "down", LEFT_CHILD(current_index) < active_entries,
         NEW i \in Occupied \ {0}, PARENT_ENTRY(i) = current_index
  PROVE  Precedes(SmallerChild, i)
<1> DEFINE l == LEFT_CHILD(current_index)
           r == RIGHT_CHILD(current_index)
<1>1. /\ current_index \in Nat /\ active_entries \in Nat
      /\ i \in Nat \ {0} /\ i < active_entries
  BY DEF Safe, TypeOK, Occupied
<1>2. i = l \/ i = r
  BY <1>1, Parents
<1>3. l \in Occupied /\ (r < active_entries => r \in Occupied)
  BY <1>1, Children DEF Occupied
<1>4. /\ Key[table[l]] \in Int
      /\ r < active_entries => Key[table[r]] \in Int
  BY <1>3, KeysAreInts
<1> HIDE DEF l, r
<1>5. SmallerChild = IF r < active_entries /\ Key[table[r]] < Key[table[l]] THEN r ELSE l
  BY DEF SmallerChild, l, r
<1> QED BY <1>1, <1>2, <1>4, <1>5 DEF Precedes

\* Once no child is smaller, the unsettled entry is in its place.
LEMMA Settled ==
  ASSUME Safe, Distinct, Ordered, pc = "down", ~ChildIsSmaller
  PROVE  \A i \in Occupied \ {0} : Precedes(PARENT_ENTRY(i), i)
<1> SUFFICES ASSUME NEW i \in Occupied \ {0} PROVE Precedes(PARENT_ENTRY(i), i)
  OBVIOUS
<1>1. /\ current_index \in Nat /\ active_entries \in Nat
      /\ i \in Nat \ {0} /\ i < active_entries
  BY DEF Safe, TypeOK, Occupied
<1>2. CASE PARENT_ENTRY(i) # current_index
  BY <1>2 DEF Ordered, Unsettled
<1>3. CASE PARENT_ENTRY(i) = current_index
  <2>1. LEFT_CHILD(current_index) < active_entries
    BY <1>1, <1>3, Parents, Children
  <2>2. Precedes(SmallerChild, i)
    BY <1>3, <2>1, SmallerChildIsSmaller
  <2>3. SmallerChild \in Occupied /\ current_index \in Occupied
    BY <1>1, <2>1, SmallerChildIsChild DEF Occupied, Safe, Fits
  <2>4. /\ Key[table[SmallerChild]] \in Int /\ Key[table[current_index]] \in Int
        /\ Key[table[i]] \in Int
    BY <2>3, KeysAreInts
  <2>5. ~(Key[table[SmallerChild]] < Key[table[current_index]])
    BY <2>1 DEF ChildIsSmaller
  <2> QED BY <1>3, <2>2, <2>4, <2>5 DEF Precedes
<1> QED BY <1>2, <1>3

\* Every step keeps parents before children, but around the hole.
LEMMA OrderedStep == Safe /\ Distinct /\ Ordered /\ [Next]_vars => Ordered'
<1> SUFFICES ASSUME Safe, Distinct, Ordered, [Next]_vars PROVE Ordered'
  OBVIOUS
<1> DEFINE n == active_entries
           c == current_index
           K(i) == Key[table[i]]
           L(i) == Key[table'[i]]
<1>0. n \in Nat /\ c \in Nat /\ \A i \in Occupied : K(i) \in Int
  BY KeysAreInts DEF Safe, TypeOK
<1>1. ASSUME NEW s \in InitialSizes, heap_create(s) PROVE Ordered'
  BY <1>1 DEF heap_create, Ordered, Occupied
<1>2. ASSUME NEW e \in Entries, heap_insert(e) PROVE Ordered'
  <2>1. \A i \in 0 .. n - 1 : table'[i] = table[i]
    BY <1>2, InsertKeepsTable
  <2>2. /\ Occupied = 0 .. n - 1 /\ Occupied' = 0 .. n - 1
        /\ Unsettled = {} /\ Unsettled' = {n} /\ pc' = "up"
    BY <1>0, <1>2 DEF heap_insert, Occupied, Unsettled
  <2>3. \A i \in Occupied' \ {0} :
          PARENT_ENTRY(i) \in 0 .. n - 1 /\ PARENT_ENTRY(i) \notin Unsettled'
    BY <1>0, <2>2, Parents
  <2> QED BY <2>1, <2>2, <2>3 DEF Ordered, Precedes
<1>3. ASSUME Crash, pc = "idle" PROVE Ordered'
  BY <1>3 DEF Crash, Ordered, Occupied, Unsettled, Precedes
<1>4. ASSUME SiftUp PROVE Ordered'
  <2> DEFINE p == PARENT_ENTRY(c)
  <2>1. /\ pc = "up" /\ pc' = "up" /\ c > 0 /\ c <= n /\ table # NULL
        /\ current_index' = p /\ active_entries' = n /\ inserting' = inserting
        /\ table' = [table EXCEPT ![c] = table[p]]
        /\ inserting \in Entries /\ Key[inserting] < K(p)
    BY <1>4 DEF SiftUp, ParentIsLarger, Safe, Fits
  <2>2. p \in Nat /\ p < c
    BY <1>0, <2>1, Parents
  <2>3. /\ Occupied = (0 .. n) \ {c} /\ Occupied' = (0 .. n) \ {p}
        /\ Unsettled = {c} /\ Unsettled' = {p}
    BY <2>1 DEF Occupied, Unsettled
  <2>4. \A i \in 0 .. n : table'[i] = IF i = c THEN table[p] ELSE table[i]
    BY <1>0, <2>1, InTable
  <2>5. Key[inserting] \in Int /\ K(p) \in Int /\ p \in Occupied
    BY <1>0, <2>1, <2>2, <2>3, EntriesAssumption
  <2>6. p > 0 => PARENT_ENTRY(p) \in Occupied /\ PARENT_ENTRY(p) < p /\ K(PARENT_ENTRY(p)) <= K(p)
    BY <1>0, <2>1, <2>2, <2>3, <2>5, Parents DEF Ordered, Precedes
  <2> SUFFICES ASSUME NEW i \in Occupied' \ {0}
               PROVE  /\ PARENT_ENTRY(i) # p => L(PARENT_ENTRY(i)) <= L(i)
                      /\ PARENT_ENTRY(i) = p /\ p > 0 => L(PARENT_ENTRY(p)) <= L(i)
                      /\ PARENT_ENTRY(i) = p => Key[inserting] <= L(i)
    BY <2>1, <2>3 DEF Ordered, Precedes
  <2>7. i \in Nat \ {0} /\ i <= n /\ i # p
        /\ PARENT_ENTRY(i) \in Nat /\ PARENT_ENTRY(i) < i
    BY <2>3, Parents
  <2>8. CASE i = c
    BY <1>0, <2>1, <2>2, <2>3, <2>4, <2>5, <2>6, <2>7, <2>8 DEF Precedes
  <2>9. CASE i # c
    <3>1. i \in Occupied /\ K(i) \in Int /\ table'[i] = table[i]
      BY <1>0, <2>3, <2>4, <2>7, <2>9
    <3>2. CASE PARENT_ENTRY(i) = c
      <4>1. K(p) <= K(i)
        BY <2>1, <2>3, <2>7, <3>1, <3>2 DEF Ordered, Precedes
      <4>2. table'[c] = table[p]
        BY <1>0, <2>1, <2>4
      <4> QED BY <2>2, <3>1, <3>2, <4>1, <4>2 DEF Precedes
    <3>3. CASE PARENT_ENTRY(i) # c
      <4>1. K(PARENT_ENTRY(i)) <= K(i)
        BY <2>3, <2>7, <3>1, <3>3 DEF Ordered, Precedes
      <4>2. table'[PARENT_ENTRY(i)] = table[PARENT_ENTRY(i)]
        BY <1>0, <2>4, <2>7, <3>3
      <4>3. PARENT_ENTRY(i) = p /\ p > 0 =>
              /\ table'[PARENT_ENTRY(p)] = table[PARENT_ENTRY(p)]
              /\ K(PARENT_ENTRY(p)) <= K(i)
        BY <1>0, <2>2, <2>3, <2>4, <2>5, <2>6, <3>1, <4>1
      <4>4. PARENT_ENTRY(i) = p => Key[inserting] <= K(i)
        BY <2>1, <2>5, <3>1, <4>1
      <4> QED BY <2>1, <3>1, <4>1, <4>2, <4>3, <4>4 DEF Precedes
    <3> QED BY <3>2, <3>3
  <2> QED BY <2>8, <2>9
<1>5. ASSUME Insert PROVE Ordered'
  <2>1. /\ pc = "up" /\ pc' = "idle" /\ table # NULL /\ inserting \in Entries
        /\ c <= n /\ active_entries' = n + 1 /\ ~ParentIsLarger
        /\ table' = [table EXCEPT ![c] = inserting]
    BY <1>5 DEF Insert, Safe, Fits
  <2>2. /\ Occupied = (0 .. n) \ {c} /\ Occupied' = 0 .. n
        /\ Unsettled = {c} /\ Unsettled' = {}
    BY <1>0, <2>1 DEF Occupied, Unsettled
  <2>3. \A i \in 0 .. n : table'[i] = IF i = c THEN inserting ELSE table[i]
    BY <1>0, <2>1, InTable
  <2>4. Key[inserting] \in Int
    BY <2>1, EntriesAssumption
  <2> SUFFICES ASSUME NEW i \in Occupied' \ {0} PROVE L(PARENT_ENTRY(i)) <= L(i)
    BY <2>2 DEF Ordered, Precedes
  <2>5. i \in Nat \ {0} /\ i <= n /\ PARENT_ENTRY(i) \in Nat /\ PARENT_ENTRY(i) < i
    BY <2>2, Parents
  <2>6. CASE i = c
    <3>1. PARENT_ENTRY(i) \in Occupied
      BY <1>0, <2>1, <2>2, <2>5, <2>6
    <3>2. K(PARENT_ENTRY(i)) <= Key[inserting]
      BY <1>0, <2>1, <2>4, <2>5, <2>6, <3>1 DEF ParentIsLarger
    <3> QED BY <1>0, <2>1, <2>3, <2>5, <2>6, <3>2 DEF Precedes
  <2>7. CASE i # c
    <3>1. i \in Occupied /\ table'[i] = table[i]
      BY <2>2, <2>3, <2>5, <2>7
    <3>2. CASE PARENT_ENTRY(i) = c
      BY <1>0, <2>1, <2>2, <2>3, <2>5, <3>1, <3>2 DEF Ordered, Precedes
    <3>3. CASE PARENT_ENTRY(i) # c
      BY <1>0, <2>2, <2>3, <2>5, <3>1, <3>3 DEF Ordered, Precedes
    <3> QED BY <3>2, <3>3
  <2> QED BY <2>6, <2>7
<1>6. ASSUME heap_delmin_of_empty PROVE Ordered'
  BY <1>6 DEF heap_delmin_of_empty, Ordered, Occupied, Unsettled, Precedes
<1>7. ASSUME heap_delmin PROVE Ordered'
  <2>1. /\ pc = "idle" /\ pc' = "down" /\ n > 0 /\ table # NULL
        /\ active_entries' = n - 1 /\ current_index' = 0
        /\ table' = IF n > 1 THEN [table EXCEPT ![0] = table[n - 1]] ELSE table
    BY <1>7 DEF heap_delmin, Safe, Fits
  <2>2. /\ Occupied = 0 .. n - 1 /\ Occupied' = 0 .. n - 2
        /\ Unsettled = {} /\ Unsettled' = {0}
    BY <1>0, <2>1 DEF Occupied, Unsettled
  <2>3. \A i \in 1 .. n - 2 : table'[i] = table[i]
    BY <1>0, <2>1, InTable
  <2>4. \A i \in Occupied' \ {0} :
          /\ i \in 1 .. n - 2 /\ i \in Occupied \ {0}
          /\ PARENT_ENTRY(i) # 0 => PARENT_ENTRY(i) \in 1 .. n - 2
    BY <1>0, <2>2, Parents
  <2> QED BY <2>1, <2>2, <2>3, <2>4 DEF Ordered, Precedes
<1>8. ASSUME SiftDown PROVE Ordered'
  <2> DEFINE d == SmallerChild
  <2>1. /\ pc = "down" /\ pc' = "down" /\ table # NULL
        /\ active_entries' = n /\ current_index' = d
        /\ LEFT_CHILD(c) < n /\ K(d) < K(c)
        /\ table' = [table EXCEPT ![c] = table[d], ![d] = table[c]]
    BY <1>8 DEF SiftDown, ChildIsSmaller, Safe, Fits
  <2>2. d \in Nat \ {0} /\ d < n /\ d > c /\ PARENT_ENTRY(d) = c
    BY <2>1, SmallerChildIsChild
  <2>3. /\ Occupied = 0 .. n - 1 /\ Occupied' = 0 .. n - 1
        /\ Unsettled = {c} /\ Unsettled' = {d}
    BY <2>1 DEF Occupied, Unsettled
  <2>4. \A i \in 0 .. n - 1 :
          table'[i] = IF i = c THEN table[d] ELSE IF i = d THEN table[c] ELSE table[i]
    BY <1>0, <2>1, <2>2, InTable
  <2>5. \A i \in Occupied \ {0} : PARENT_ENTRY(i) = c => K(d) <= K(i)
    BY <2>1, SmallerChildIsSmaller DEF Precedes
  <2>6. /\ K(d) <= K(c)
        /\ L(c) = K(d) /\ L(d) = K(c)
        /\ \A j \in Occupied \ {c, d} : L(j) = K(j)
    <3>1. c \in Occupied /\ d \in Occupied /\ c # d
      BY <1>0, <2>2, <2>3
    <3>2. K(d) \in Int /\ K(c) \in Int /\ K(d) < K(c)
      BY <1>0, <2>1, <3>1
    <3>3. /\ table'[c] = table[d] /\ table'[d] = table[c]
          /\ \A j \in Occupied \ {c, d} : table'[j] = table[j]
      BY <2>3, <2>4, <3>1
    <3> QED BY <3>2, <3>3
  <2> HIDE DEF d
  <2> SUFFICES ASSUME NEW i \in Occupied' \ {0}
               PROVE  /\ PARENT_ENTRY(i) # d => L(PARENT_ENTRY(i)) <= L(i)
                      /\ PARENT_ENTRY(i) = d => L(c) <= L(i)
    BY <2>1, <2>2, <2>3 DEF Ordered, Precedes
  <2>7. i \in Nat \ {0} /\ i < n /\ i \in Occupied \ {0}
        /\ PARENT_ENTRY(i) \in Nat /\ PARENT_ENTRY(i) < i
        /\ PARENT_ENTRY(i) \in Occupied
    BY <1>0, <2>3, Parents
  <2>8. CASE i = d
    BY <1>0, <2>2, <2>6, <2>8
  <2>9. CASE i = c
    <3>1. K(PARENT_ENTRY(c)) <= K(d)
      BY <1>0, <2>2, <2>3, <2>7, <2>9 DEF Ordered, Precedes
    <3>2. PARENT_ENTRY(i) # d /\ PARENT_ENTRY(i) # c
      BY <1>0, <2>2, <2>7, <2>9
    <3> QED BY <2>6, <2>7, <2>9, <3>1, <3>2
  <2>10. CASE i # c /\ i # d
    <3>1. CASE PARENT_ENTRY(i) = c
      BY <1>0, <2>2, <2>5, <2>6, <2>7, <2>10, <3>1
    <3>2. CASE PARENT_ENTRY(i) # c
      <4>1. K(PARENT_ENTRY(i)) <= K(i)
        BY <2>3, <2>7, <3>2 DEF Ordered, Precedes
      <4>2. PARENT_ENTRY(i) = d => K(d) <= K(i)
        BY <4>1
      <4> QED BY <2>6, <2>7, <2>10, <3>2, <4>1, <4>2
    <3> QED BY <3>1, <3>2
  <2> QED BY <2>8, <2>9, <2>10
<1>9. ASSUME Release PROVE Ordered'
  <2>1. \A i \in 0 .. n - 1 : table'[i] = table[i]
    BY <1>9, ReleaseKeepsTable
  <2>2. /\ Occupied = 0 .. n - 1 /\ Occupied' = 0 .. n - 1 /\ Unsettled' = {}
    BY <1>9 DEF Release, Occupied, Unsettled
  <2>3. \A i \in Occupied \ {0} : Precedes(PARENT_ENTRY(i), i)
    BY <1>9, Settled DEF Release
  <2>4. \A i \in Occupied \ {0} : PARENT_ENTRY(i) \in Occupied
    BY <1>0, <2>2, Parents
  <2> QED BY <2>1, <2>2, <2>3, <2>4 DEF Ordered, Precedes
<1>10. ASSUME ReleaseFails PROVE Ordered'
  <2>1. /\ UNCHANGED <<table, active_entries>> /\ Unsettled' = {}
        /\ Occupied' = Occupied
    BY <1>10 DEF ReleaseFails, Crash, Unsettled, Occupied
  <2>2. \A i \in Occupied \ {0} : Precedes(PARENT_ENTRY(i), i)
    BY <1>10, Settled DEF ReleaseFails
  <2> QED BY <2>1, <2>2 DEF Ordered, Precedes
<1>11. ASSUME heap_destroy PROVE Ordered'
  BY <1>11 DEF heap_destroy, Ordered, Occupied
<1>12. ASSUME UNCHANGED vars PROVE Ordered'
  BY <1>12 DEF vars, Ordered, Occupied, Unsettled, Precedes
<1>13. QED
  BY <1>1, <1>2, <1>3, <1>4, <1>5, <1>6, <1>7, <1>8, <1>9, <1>10, <1>11, <1>12
  DEF Next, Call, Step, Crashed, heap_insert_fails, heap_destroy_fails

\* An empty heap is in order.
LEMMA OrderedInit == Init => Ordered
BY DEF Init, Ordered, Occupied

IInv == Safe /\ Distinct /\ Ordered

\* The invariant holds in every state of the heap.
LEMMA Inductive == Spec => []IInv
<1>1. Init => IInv
  BY SafeInit, DistinctInit, OrderedInit DEF IInv
<1>2. IInv /\ [Next]_vars => IInv'
  BY SafeStep, DistinctStep, OrderedStep DEF IInv
<1> QED BY <1>1, <1>2, PTL DEF Spec

\* The sift loops keep the heap order around the one slot they have yet to settle.
THEOREM HeapOrdered == Spec => []Ordered
<1>1. IInv => Ordered
  BY DEF IInv
<1> QED BY <1>1, Inductive, PTL

-----------------------------------------------------------------------------
(***************************************************************************)
(* readme.txt:48 of lab3: the heap stores and extracts a line in           *)
(* logarithmic time.                                                       *)
(***************************************************************************)

\* Counted from 1, the position of a sift loop at least halves with every turn of
\* heap_insert, from behind the last entry, and at least doubles with every turn of
\* heap_delmin, from the root, without passing the last entry.
LogarithmicTurns ==
  /\ pc # "up" /\ pc' = "up" => current_index' = active_entries
  /\ pc # "down" /\ pc' = "down" => current_index' = 0
  /\ pc = "up" /\ pc' = "up" => 2 * (current_index' + 1) <= current_index + 1
  /\ pc = "down" /\ pc' = "down" =>
       2 * (current_index + 1) <= current_index' + 1 /\ current_index' < active_entries

\* So both loops end, with no more turns than the base-two logarithm of the number of
\* entries that the call leaves.
THEOREM LogarithmicTime == Spec => [][LogarithmicTurns]_vars
<1>1. Safe /\ [Next]_vars => [LogarithmicTurns]_vars
  <2> SUFFICES ASSUME Safe, Next PROVE LogarithmicTurns \/ UNCHANGED vars
    OBVIOUS
  <2>1. ASSUME NEW s \in InitialSizes, heap_create(s) PROVE LogarithmicTurns
    BY <2>1 DEF heap_create, LogarithmicTurns
  <2>2. ASSUME NEW e \in Entries, heap_insert(e) PROVE LogarithmicTurns
    BY <2>2 DEF heap_insert, LogarithmicTurns
  <2>3. CASE heap_delmin
    BY <2>3 DEF heap_delmin, LogarithmicTurns
  <2>4. CASE heap_insert_fails \/ heap_delmin_of_empty \/ heap_destroy \/ heap_destroy_fails
             \/ Insert \/ Release \/ ReleaseFails
    BY <2>4 DEF heap_insert_fails, heap_delmin_of_empty, heap_destroy, heap_destroy_fails, Insert,
                Release, ReleaseFails, Crash, LogarithmicTurns
  <2>5. CASE SiftUp
    <3>1. /\ current_index \in Nat \ {0} /\ current_index' = PARENT_ENTRY(current_index)
          /\ pc = "up" /\ pc' = "up"
      BY <2>5 DEF SiftUp, ParentIsLarger, Safe, TypeOK
    <3>2. 2 * (PARENT_ENTRY(current_index) + 1) <= current_index + 1
      BY <3>1, Parents DEF LEFT_CHILD, RIGHT_CHILD
    <3> QED BY <3>1, <3>2 DEF LogarithmicTurns
  <2>6. CASE SiftDown
    <3>1. /\ current_index \in Nat /\ current_index' = SmallerChild
          /\ pc = "down" /\ pc' = "down" /\ LEFT_CHILD(current_index) < active_entries
      BY <2>6 DEF SiftDown, ChildIsSmaller, Safe, TypeOK
    <3>2. SmallerChild < active_entries /\ 2 * (current_index + 1) <= SmallerChild + 1
      BY <3>1, SmallerChildIsChild DEF LEFT_CHILD, RIGHT_CHILD
    <3> QED BY <3>1, <3>2 DEF LogarithmicTurns
  <2>7. CASE Crashed
    BY <2>7 DEF Crashed
  <2> QED BY <2>1, <2>2, <2>3, <2>4, <2>5, <2>6, <2>7 DEF Next, Call, Step
<1>2. Safe /\ [Next]_vars => Safe'
  BY SafeStep
<1> QED BY <1>1, <1>2, SafeInit, PTL DEF Spec

-----------------------------------------------------------------------------
(***************************************************************************)
(* The root, and what the heap promises.                                   *)
(***************************************************************************)

\* When every parent precedes its children, the root precedes every entry: a
\* first slot that it does not precede would have a parent that it precedes.
LEMMA RootPrecedes ==
  ASSUME NEW n \in Nat, NEW k,
         \A i \in 0 .. n - 1 : k[i] \in Int,
         \A i \in 1 .. n - 1 : k[PARENT_ENTRY(i)] <= k[i]
  PROVE  \A i \in 0 .. n - 1 : k[0] <= k[i]
<1> DEFINE T == {i \in 0 .. n - 1 : ~(k[0] <= k[i])}
           R == OpToRel(<, Nat)
<1>1. SUFFICES ASSUME T # {} PROVE FALSE
  OBVIOUS
<1>2. PICK m \in T : \A j \in T : ~(<<j, m>> \in R)
  <2>1. T \subseteq Nat
    OBVIOUS
  <2> HIDE DEF T, R
  <2>2. IsWellFoundedOn(R, Nat)
    BY NatLessThanWellFounded DEF R
  <2> QED BY <1>1, <2>1, <2>2, WFMin
<1>3. m \in Nat /\ m <= n - 1 /\ m # 0 /\ ~(k[0] <= k[m])
  OBVIOUS
<1>4. PARENT_ENTRY(m) \in Nat /\ PARENT_ENTRY(m) < m
  BY <1>3, Parents
<1>5. <<PARENT_ENTRY(m), m>> \in R
  BY <1>3, <1>4 DEF OpToRel
<1>6. PARENT_ENTRY(m) \in 0 .. n - 1 /\ PARENT_ENTRY(m) \notin T
  <2>1. PARENT_ENTRY(m) \in 0 .. n - 1
    BY <1>3, <1>4
  <2> HIDE DEF T, R
  <2> QED BY <1>2, <1>5, <2>1
<1>7. k[0] <= k[PARENT_ENTRY(m)] /\ k[PARENT_ENTRY(m)] <= k[m]
  BY <1>3, <1>6
<1>8. k[0] \in Int /\ k[PARENT_ENTRY(m)] \in Int /\ k[m] \in Int
  BY <1>3, <1>6
<1> QED BY <1>3, <1>7, <1>8

\* Between calls no entry is smaller than the root.
LEMMA IdleRoot ==
  ASSUME IInv, pc = "idle"
  PROVE  \A i \in 0 .. active_entries - 1 : Key[table[0]] <= Key[table[i]]
<1> DEFINE n == active_entries
           k == [i \in 0 .. n - 1 |-> Key[table[i]]]
<1>1. n \in Nat
  BY DEF IInv, Safe, TypeOK
<1>2. Occupied = 0 .. n - 1 /\ Unsettled = {}
  BY DEF Occupied, Unsettled
<1>3. \A i \in 0 .. n - 1 : k[i] \in Int
  BY <1>2, KeysAreInts DEF IInv
<1>4. \A i \in 1 .. n - 1 : k[PARENT_ENTRY(i)] <= k[i]
  <2> SUFFICES ASSUME NEW i \in 1 .. n - 1 PROVE k[PARENT_ENTRY(i)] <= k[i]
    OBVIOUS
  <2>1. PARENT_ENTRY(i) \in 0 .. n - 1 /\ i \in Occupied \ {0}
    BY <1>1, <1>2, Parents
  <2>2. Key[table[PARENT_ENTRY(i)]] <= Key[table[i]]
    BY <1>2, <2>1 DEF IInv, Ordered, Precedes
  <2> QED BY <2>1, <2>2
<1>5. \A i \in 0 .. n - 1 : k[0] <= k[i]
  <2> HIDE DEF k, n
  <2> QED BY <1>1, <1>3, <1>4, RootPrecedes
<1>6. \A i \in 0 .. n - 1 : 0 \in 0 .. n - 1
  BY <1>1
<1>7. \A i \in 0 .. n - 1 : k[i] = Key[table[i]]
  OBVIOUS
<1> HIDE DEF k
<1> QED BY <1>5, <1>6, <1>7

\* heap_min gives an entry of least key whenever no call is running.
THEOREM MinimumAtRoot == Spec => []RootIsMinimum
<1>1. IInv => RootIsMinimum
  <2> SUFFICES ASSUME IInv, pc = "idle", active_entries > 0, NEW e \in Held
               PROVE  Key[heap_min] <= Key[e]
    BY DEF RootIsMinimum
  <2>1. PICK i \in 0 .. active_entries - 1 : e = table[i]
    BY DEF Held, Occupied
  <2>2. heap_min = table[0]
    BY DEF heap_min, IInv, Safe, TypeOK
  <2> QED BY <2>1, <2>2, IdleRoot
<1> QED BY <1>1, Inductive, PTL

\* Every step is one of the priority queue or changes nothing of it.
LEMMA StepRefines == IInv /\ [Next]_vars => [PQ!Next]_(PQ!vars)
<1> SUFFICES ASSUME IInv, [Next]_vars PROVE [PQ!Next]_(PQ!vars)
  OBVIOUS
<1> DEFINE n == active_entries
           c == current_index
<1>0. /\ n \in Nat /\ c \in Nat /\ Safe /\ Distinct
      /\ \A i \in Occupied : table[i] \in Entries
  BY DEF IInv, Safe, TypeOK, Distinct
<1> DEFINE Stutter == Held' = Held /\ result' = result
<1>1. ASSUME NEW s \in InitialSizes, heap_create(s) PROVE PQ!Destroy
  BY <1>1 DEF heap_create, PQ!Destroy, Held, Occupied
<1>2. ASSUME NEW e \in Entries, e \notin heap_foreach, heap_insert(e) PROVE PQ!Insert(e)
  <2>1. \A i \in 0 .. n - 1 : table'[i] = table[i]
    BY <1>0, <1>2, InsertKeepsTable
  <2>2. Held = {table[i] : i \in 0 .. n - 1} /\ Held = heap_foreach
    BY <1>2 DEF heap_insert, Held, Occupied, heap_foreach
  <2>3. Occupied' = 0 .. n - 1 /\ inserting' = e /\ pc' = "up" /\ result' = result
    BY <1>0, <1>2 DEF heap_insert, Occupied
  <2>4. Held' = {table'[i] : i \in 0 .. n - 1} \cup {e}
    BY <2>3 DEF Held
  <2> QED BY <1>2, <2>1, <2>2, <2>3, <2>4 DEF PQ!Insert
<1>3. ASSUME Crash, pc # "up" PROVE Stutter
  BY <1>3 DEF Crash, Held, Occupied
<1>4. ASSUME SiftUp PROVE Stutter
  <2> DEFINE p == PARENT_ENTRY(c)
  <2>1. /\ pc = "up" /\ pc' = "up" /\ c > 0 /\ c <= n /\ table # NULL
        /\ current_index' = p /\ active_entries' = n /\ inserting' = inserting
        /\ table' = [table EXCEPT ![c] = table[p]] /\ result' = result
    BY <1>0, <1>4 DEF SiftUp, ParentIsLarger, Safe, Fits
  <2>2. p \in Nat /\ p < c
    BY <1>0, <2>1, Parents
  <2>3. Occupied = (0 .. n) \ {c} /\ Occupied' = (0 .. n) \ {p}
    BY <2>1 DEF Occupied
  <2>4. \A i \in 0 .. n : table'[i] = IF i = c THEN table[p] ELSE table[i]
    BY <1>0, <2>1, InTable
  <2>5. /\ p \in Occupied /\ c \in Occupied' /\ table'[c] = table[p]
        /\ \A i \in Occupied \ {p} : i \in Occupied' /\ table'[i] = table[i]
        /\ \A i \in Occupied' \ {c} : i \in Occupied /\ table'[i] = table[i]
    BY <1>0, <2>1, <2>2, <2>3, <2>4
  <2> HIDE DEF p, c
  <2>6. {table'[i] : i \in Occupied'} = {table[i] : i \in Occupied}
    <3>1. \A i \in Occupied' : \E j \in Occupied : table'[i] = table[j]
      BY <2>5
    <3>2. \A j \in Occupied : \E i \in Occupied' : table'[i] = table[j]
      BY <2>5
    <3> QED BY <3>1, <3>2
  <2> QED BY <2>1, <2>6 DEF Held
<1>5. ASSUME Insert PROVE Stutter
  <2>1. /\ pc = "up" /\ pc' = "idle" /\ table # NULL /\ c <= n
        /\ active_entries' = n + 1 /\ result' = result
        /\ table' = [table EXCEPT ![c] = inserting]
    BY <1>0, <1>5 DEF Insert, Safe, Fits
  <2>2. Occupied = (0 .. n) \ {c} /\ Occupied' = 0 .. n
    BY <1>0, <2>1 DEF Occupied
  <2>3. /\ c \in Occupied' /\ table'[c] = inserting /\ Occupied' = Occupied \cup {c}
        /\ \A i \in Occupied : table'[i] = table[i]
    BY <1>0, <2>1, <2>2, InTable
  <2> HIDE DEF c
  <2>4. {table'[i] : i \in Occupied'} = {table[i] : i \in Occupied} \cup {inserting}
    BY <2>3
  <2> QED BY <2>1, <2>4 DEF Held
<1>6. ASSUME heap_delmin_of_empty PROVE PQ!DelMinOfEmpty
  BY <1>6 DEF heap_delmin_of_empty, PQ!DelMinOfEmpty, Held, Occupied
<1>7. ASSUME heap_delmin PROVE PQ!DelMin(table[0]) /\ table[0] \in Entries
  <2>1. /\ pc = "idle" /\ pc' = "down" /\ n > 0 /\ table # NULL
        /\ active_entries' = n - 1 /\ result' = table[0]
        /\ table' = IF n > 1 THEN [table EXCEPT ![0] = table[n - 1]] ELSE table
    BY <1>0, <1>7 DEF heap_delmin, Safe, Fits
  <2>2. Occupied = 0 .. n - 1 /\ Occupied' = 0 .. n - 2
    BY <1>0, <2>1 DEF Occupied
  <2>3. \A i \in 0 .. n - 2 : table'[i] = IF i = 0 THEN table[n - 1] ELSE table[i]
    BY <1>0, <2>1, InTable
  <2>4. Held = {table[i] : i \in 0 .. n - 1} /\ Held' = {table'[i] : i \in 0 .. n - 2}
    BY <2>1, <2>2 DEF Held
  <2>5. \A i, j \in 0 .. n - 1 : table[i] = table[j] => i = j
    BY <1>0, <2>2 DEF Distinct
  <2>6. Held' = Held \ {table[0]}
    <3>1. \A x \in Held' : x \in Held /\ x # table[0]
      <4> SUFFICES ASSUME NEW i \in 0 .. n - 2
                   PROVE  table'[i] \in Held /\ table'[i] # table[0]
        BY <2>4
      <4>1. CASE i = 0
        <5>1. table'[i] = table[n - 1] /\ n - 1 # 0 /\ 0 \in 0 .. n - 1 /\ n - 1 \in 0 .. n - 1
          BY <1>0, <2>3, <4>1
        <5> QED BY <2>4, <2>5, <5>1
      <4>2. CASE i # 0
        <5>1. table'[i] = table[i] /\ i \in 0 .. n - 1 /\ 0 \in 0 .. n - 1
          BY <1>0, <2>3, <4>2
        <5> QED BY <2>4, <2>5, <4>2, <5>1
      <4> QED BY <4>1, <4>2
    <3>2. \A x \in Held : x # table[0] => x \in Held'
      <4> SUFFICES ASSUME NEW i \in 0 .. n - 1, i # 0 PROVE table[i] \in Held'
        BY <2>4
      <4>1. CASE i = n - 1
        <5>1. 0 \in 0 .. n - 2 /\ table'[0] = table[i]
          BY <1>0, <2>3, <4>1
        <5> QED BY <2>4, <5>1
      <4>2. CASE i # n - 1
        <5>1. i \in 0 .. n - 2 /\ table'[i] = table[i]
          BY <1>0, <2>3, <4>2
        <5> QED BY <2>4, <5>1
      <4> QED BY <4>1, <4>2
    <3> QED BY <3>1, <3>2
  <2>7. \A f \in Held : Key[table[0]] <= Key[f]
    BY <2>1, <2>4, IdleRoot
  <2>8. table[0] \in Held /\ table[0] \in Entries
    <3>1. 0 \in 0 .. n - 1
      BY <1>0, <2>1
    <3> QED BY <1>0, <2>2, <2>4, <3>1
  <2> QED BY <2>1, <2>6, <2>7, <2>8 DEF PQ!DelMin
<1>8. ASSUME SiftDown PROVE Stutter
  <2> DEFINE d == SmallerChild
  <2>1. /\ pc = "down" /\ pc' = "down" /\ table # NULL
        /\ active_entries' = n /\ LEFT_CHILD(c) < n /\ result' = result
        /\ table' = [table EXCEPT ![c] = table[d], ![d] = table[c]]
    BY <1>0, <1>8 DEF SiftDown, ChildIsSmaller, Safe, Fits
  <2>2. d \in Nat \ {0} /\ d < n /\ d > c
    BY <1>0, <2>1, SmallerChildIsChild
  <2>3. Occupied = 0 .. n - 1 /\ Occupied' = 0 .. n - 1
    BY <2>1 DEF Occupied
  <2>4. \A i \in 0 .. n - 1 :
          table'[i] = IF i = c THEN table[d] ELSE IF i = d THEN table[c] ELSE table[i]
    BY <1>0, <2>1, <2>2, InTable
  <2>5. /\ c \in Occupied /\ d \in Occupied /\ c # d /\ Occupied' = Occupied
        /\ table'[c] = table[d] /\ table'[d] = table[c]
        /\ \A i \in Occupied \ {c, d} : table'[i] = table[i]
    <3>1. c \in Occupied /\ d \in Occupied /\ c # d
      BY <1>0, <2>2, <2>3
    <3> QED BY <2>3, <2>4, <3>1
  <2> HIDE DEF c, d
  <2>6. {table'[i] : i \in Occupied'} = {table[i] : i \in Occupied}
    <3>1. \A i \in Occupied' : \E j \in Occupied : table'[i] = table[j]
      BY <2>5
    <3>2. \A j \in Occupied : \E i \in Occupied' : table'[i] = table[j]
      BY <2>5
    <3> QED BY <3>1, <3>2
  <2> QED BY <2>1, <2>6 DEF Held
<1>9. ASSUME Release PROVE Stutter
  <2>1. \A i \in 0 .. n - 1 : table'[i] = table[i]
    BY <1>0, <1>9, ReleaseKeepsTable
  <2>2. /\ Occupied = 0 .. n - 1 /\ Occupied' = 0 .. n - 1
        /\ pc = "down" /\ pc' = "idle" /\ result' = result
    BY <1>9 DEF Release, Occupied
  <2> QED BY <2>1, <2>2 DEF Held
<1>10. ASSUME heap_destroy PROVE PQ!Destroy
  BY <1>10 DEF heap_destroy, PQ!Destroy, Held, Occupied
<1>11. ASSUME UNCHANGED vars PROVE Stutter
  BY <1>11 DEF vars, Held, Occupied
<1>12. Stutter => [PQ!Next]_(PQ!vars)
  BY DEF PQ!vars
<1>13. QED
  BY <1>1, <1>2, <1>3, <1>4, <1>5, <1>6, <1>7, <1>8, <1>9, <1>10, <1>11, <1>12
  DEF Next, Call, Step, Crashed, heap_insert_fails, ReleaseFails, heap_destroy_fails,
      PQ!Next

\* heap.c implements heap.h: a priority queue, whatever the page size, the
\* growth and the shrinking of the table, and whichever mmap fails.
THEOREM HeapImplementsPriorityQueue == Spec => ImplementsPriorityQueue
<1>1. Init => PQ!Init
  BY DEF Init, PQ!Init, Held, Occupied
<1> QED BY <1>1, Inductive, StepRefines, PTL DEF Spec, PQ!Spec, ImplementsPriorityQueue
=============================================================================
