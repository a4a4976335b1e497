# TLA+ models of os_org_work

The repository holds the labs and studios of an operating systems course:
three labs (`lab1`, `lab2`, `lab3`) and small studio programs.  This directory
models the parts that have concurrency, a data structure or a protocol to get
right, checks the models with TLC and proves the main results with TLAPS.

Run `tlc -config X.cfg M` for the model-checking runs and `tlapm M.tla` for the
proofs.  `PROJECT.json` maps every definition to the lines it models.

## The system

| part | state it keeps | operations | interacts with | what is hard | what makes it correct |
|---|---|---|---|---|---|
| lab3 heap library (`heap.c`) | a table of mmap'd pages, entries in use, pages allocated, a static page size | create, insert, delmin, min, foreach, destroy | called by lab3's server and client | doubling and halving the table, failing mmap, the last level of the tree | it is a priority queue; no access past the table |
| lab2 modules (four versions of one) | `numbers`, `counters`, `global_index` with a lock, the barrier's two guards and its state, `begin_flag` | load, `sieve_fn` on each thread (barrier, compute, barrier), unload | kernel threads over shared memory | a spinning barrier used twice, unlocked reads and writes of `numbers`, failing allocations and thread creations, unloading at any time | the barrier is one; the primes are left; the report is right; nothing freed is used; all threads end |
| lab3 server (`server.c`) | descriptors, an `rw_obj` for each connection, `con2rw_obj`, the epoll interest, the heap | set up, accept, send a file line by line, receive lines, hang up, print | clients over TCP, the kernel's epoll, the heap | short reads and writes, events in batches, descriptors used again, dead clients, a buffer at its limit | it prints all lines of its files in order, once each, and ends |
| lab3 client (`client.c`) | a socket, the current line, the heap | connect, read lines until STOP, write them back sorted, close | the server over TCP | the end of communication, a server that goes away | nothing is lost or reordered; it ends |
| lab1 modules | kernel threads, an hrtimer, module parameters | load, tick, the thread's loop, unload | the timer interrupt wakes the thread | a wake-up that comes before `set_current_state` is lost; unloading while the timer fires | unloading ends and leaves nothing running; a thread runs once for a tick; no tick reaches a thread that is gone |
| Studio16 client and server (two versions) | the connection being read, `end`; a client's two flags | send numbers in messages, send the end; accept, read, print | each other over TCP or a local socket | codes and data are the same kind of number; killed clients; an uninitialised flag | every message is printed whole; the server ends when told and only then |
| studio17 servers (poll, select, epoll) | `fds` and `nfds`; `con_fd` and a set; epoll's interest | accept and greet, read, close, quit | clients, the keyboard, the kernel's descriptors | connections that overlap, events of one batch against a state that changes, descriptors given out again | no connection is forgotten or closed too early; nothing past `fds`; each client is served; quit ends |
| Studio18 sender and receiver | the kernel's queue of real-time signals | queue n signals and an end signal; count | each other through the queue | the queue's limit | the receiver counts what was sent and ends |
| Studio13, 14, 15, 19, 20 | none to speak of | print kernel structures, copy files and pipes, burn time | the kernel | - | - |

## The modules

    PriorityQueue   what heap.h promises
    Heap            heap.c                             MCHeap
    HeapProofs      theorems about Heap

    PhaseBarrier    a reusable barrier, abstractly
    SieveThreads    what lab2's four modules share: loading, threads, barrier, unloading
    Eratosthenes    SieveThreads + compute of lab2.c, lab2_atomic.c     MCEratosthenes
    Sundaram        SieveThreads + compute of lab2_sundaram*.c          MCSundaram
    SieveProofs, EratosthenesProofs, SundaramProofs

    Wire            lab3's lines and the kernel's sockets between server and clients
    Client          client.c, any number of clients
    Server          server.c
    Sorter          what lab3's readme promises, abstractly
    DistributedSort Server and Client together         MCSort
    DistributedSortProofs  lines within a stream; descriptors, connections and
                           events; what is on its way, and that it all arrives

    TickThreads     mt_lab1_module.c, lab1_module.c
    TickThreadsProofs  theorems about TickThreads

    Signals         Studio18's sender.c and receiver.c         MCSignals

    StudioSockets   studio17's clients, the keyboard, the kernel's descriptors
    PollServer      poll-server.c
    SelectServer    select-server.c
    EpollServer     epoll-server.c
    Demultiplexers  one of the three with clients and keyboard  MCDemultiplexers
    DemultiplexersProofs  theorems about Demultiplexers

    Numbers         Studio16's server and client, both versions
    StudioProofs    theorems about Signals and Numbers (hence the long names
                    NumbersInit, NumbersNext, NumbersSpec)

### Heap

One call runs at a time.  `heap_insert` and `heap_delmin` are a first step, a
step for each turn of their loops (`SiftUp`, `SiftDown`), and a last one
(`Insert`, `Release`), so the table inside the loops is visible.  An entry is a
pointer pair; two entries of a heap are never equal, as callers allocate each
just before they insert it, but keys may be.  Slots past `active_entries` keep
their old content.  `map_in_pages` may fail at each call; its result is used
without a check, so the program may crash there (`Crash`).  A shared variable
of heap.c has its name in the model; `pc`, `inserting` and `current_index` are
the locals of the call that runs.

The abstract `PriorityQueue` has only the set of entries and the last result.
The refinement maps the set to `Held`: the occupied slots of the table, and the
entry being inserted.  So an insertion takes effect with its first step and a
deletion with the one that takes the root.

### The sieves

`pc[t]` is where thread t is, `site[t]` which of its two calls of `sbarrier` it
is in or past.  Each access to an atomic or to a variable others write is one
step: the barrier is six actions (`Enter` to `Clear`), `global_index++` a read
(`ReadIndex`) and a write (`WriteIndex`) under the lock.  A spin loop is a step
that waits for its condition.  `kthread_run` and `kmalloc` may fail; `lab2_exit`
may run at any time once loading is over, and the kernel then frees the code
(`Unload`), whatever `lab2_exit` did.  `numbers` is `Freed` before it is
allocated and after it is freed.  The atomic versions differ in the types of
numbers and index only.  The map takes what all four share from `lab2_atomic.c`,
the two algorithms from `lab2.c` and `lab2_sundaram.c`, and Sundaram's report from
`lab2_sundaram_atomic.c`.

`PhaseBarrier` is the abstract barrier: a worker arrives at its next meeting,
and passes it only when all have arrived.  The refinement counts a thread as
arrived when it has decremented `start_guard` (`Arrived`) and as past the meeting
when it has seen it complete (`Passed`).

### The distributed sort

A stream is a sequence of symbols.  A line of length n is n symbols, so it can
be cut anywhere; which bytes they are does not matter, only which line, which
part, and whether the part ends in a newline.  `Wire` has the kernel's side:
two buffers of `BufferSize` symbols for each connection, a backlog, and the two
ends' states.  A client's end is *closed* when it closed its socket normally,
*reset* when it was killed with data it had not read.

`Server` follows `main`: `epoll_wait` picks at most `EVENT_SIZE` ready descriptors,
in any order, and each event is a step: `accept`, `SendRest`/`SendLine` (with
`write_line` for each time `write` must wait for room, or a short write), `SendStop`,
`Receive`, `Hangup`.  Descriptors are numbers, given by the lowest-free rule, as
the code indexes `con2rw_obj` by them: 3 and 4 are the specification and output
files, then the input files, the listening socket and epoll.  The -1 of a
failing `write` or `read` goes into the unsigned `last_len` as in the code
(`write_lost_line`, `overrun`); SIGPIPE kills (`sigpipe`).  `Client` follows
`read_and_insert` and the write loop; a client may be killed at any step (`die`).

Both heaps are sets of texts from which any smallest is taken: that is what the
refinement of `PriorityQueue` by `Heap` shows of them, with failing mmap left out.

`Sorter` is the readme's promise: the lines of all files are printed by number,
once each, and the server says it finished only when all are.

Assumptions, all from how lab3 is built and used:
- 32 bits (the code runs on a Raspberry Pi; `getline` is given the address of an
  `unsigned int`), sockets that block, no signal handlers;
- each line has a number from 0 on and a space, and only the last of a file may
  lack its newline;
- at least one input file, and for `InBounds` two (with one, `con2rw_obj` has
  2 + 6 elements and the connection is descriptor 8: one past the end);
- `STOP`, four bytes, arrives whole; stdio in the client may take more from the
  socket than it hands out, which only makes room earlier;
- reading the specification file, memory running out in the loop, and
  `getnameinfo` or `fdopen` failing after `connect` are left out.

### The timer threads

`module` says where `lab1_init` or `lab1_exit` is, `pc[c]` where the thread of processor
c is in `workingfn`, `timer` whether the timer is off, armed or in its callback.  A
step is one kernel call, as all three run on different processors; the callback
wakes one thread a step.  What matters of the kernel is that a wake-up is not
remembered: `wake_up_process` of a thread that has not yet called `set_current_state`
does nothing.  `kthread_stop` is two steps, as it waits for the thread; after it the
task is `reaped`.  `kthread_create` may fail: its `ERR_PTR` passes the test for NULL, and
the loader ends in `oops`.  `lab1_module.c` is the instance `CPUS = 1`; the thread's
function is the same text in both, and mapped to that file.

### The signals

`queue` is what the kernel holds for the receiver, each signal with its sender and
value; it holds `soft_limit` of them and gives them out in order, one handler at a
time.  A sender's step is one `sigqueue`; a refused one ends it (`send_fails`), and
nothing then stops the receiver, which spins on.  Senders begin when the receiver
has printed its pid, after `sigaction`.  After its end the receiver takes signals
until the shell has waited for it (`reap`).

### The demultiplexers

`kind` is the server that runs, chosen at the start; `StudioSockets` has what all
three share.  A client is *away*, *reading* the greeting, *writing* its lines, and
then *closed*, or *reset* when it was killed with a greeting it had not read or
the server wrote to it after it had left.  Descriptors are numbers given out
lowest first (`desc`), as all three servers look things up by them.  The backlog of
one holds two connections, as Linux does.  The keyboard gives a line with each
read, and `eof` makes one read return 0.

Each server's step is one event of its loop.  `PollServer` keeps `fds` whole, with
the `revents` of slots that are not in use, as the loop comes to a new slot in the
pass that accepted its connection and reads them; at the start they may be
anything (`PollInit`).  A `read` that finds nothing waits: such a step is not enabled.
In `SelectServer` the second write of the greeting is a step of its own, so a client
can read between the two.  In `EpollServer` reading is commented out, and so are quit
and the end: data only keep a descriptor ready.  `overlapped` remembers whether a
connection was accepted while another was open.

What the servers get right differs, and the properties say how.  epoll-server.c
keeps its books whatever happens.  poll-server.c and select-server.c are written
for one connection at a time (the comment at poll-server.c:103), and
`NothingForgotten` and `EveryClientServed` hold of them only until connections
overlap.  But poll-server.c loses no text even then (`ReadBeforeClosed`), keeps the
keyboard and the listening socket, and writes past `fds` only with more open
connections than slots (`SlotsKept`).  The run PollOverlap shows that a backlog of
one does not keep connections from overlapping.  Two more ways for select-server.c
to go wrong are left open in `EveryClientServed`: `BothWait`, when the client got both
parts of the greeting with its first read, and `Spins`, when an end of input on
the keyboard has made it close descriptor 0, which it goes on selecting.
`SpinsOnlyOnKeyboard` says that nothing else brings this about: connections that
overwrite `con_fd` get it to close the wrong connection, but never one it selects.
`QuitEnds` is about the keyboard's quit and a client's; the latter must be all that is
left to read from that client, as the servers compare what a read returns as a whole.

### The numbers

`local` says which version runs.  A client's `Message` is the sequence of numbers
it prints; stdio keeps them until `fclose`, so they reach the socket in one step,
and a client killed before has sent nothing.  `pc` of the server is what it takes
the next number for: a code, the number after `SHORT_CODE`, an array's length, an
entry of it.  The clients of client.c that are not told to quit have an
uninitialised `quit_flag`, so the model gives it either value (`Flags`).

## What is checked

| run | instance | shows |
|---|---|---|
| Heap | 5 entries, two with equal keys; pages of 1 and 2 entries; initial sizes 0, 3 | room for each store; heap order around the hole; the minimum at the root; refinement of `PriorityQueue`; calls end |
| Eratosthenes | 2 threads, numbers to 12 | nothing freed is used; indexes are taken once; the primes are left; the report; all threads end |
| EratosthenesExit (violated) | 2 threads, numbers to 4 | `readme.txt` calls `lab2_exit` very safe; it frees the arrays with a thread still in the module |
| Sundaram | 3 threads, numbers to 7 | the barrier refines `PhaseBarrier`; the odd primes are left; the report |
| Sort | 3 clients, files of 2, 0 and 1 lines with equal numbers, sockets of 2 symbols, a line of 3, events in batches of 2 | types; `con2rw_obj` is large enough; each connection has an object of its own; nothing lost, doubled or reordered on the way out and back; no data left unread; refinement of `Sorter` |
| SortDeath | 2 files, 3 clients (one too many), one may be killed | what is printed are whole lines in order; the server ends; all clients end |
| TickThreads | 3 processors | nothing runs once the module is gone; a pass follows a tick; unloading ends; a waiting thread gets its pass |
| TickThreadsReaped (violated) | 2 processors | `readme.txt` lets the timer wake up the thread; between `kthread_stop` and `hrtimer_cancel` it wakes a task that was given up |
| Signals | 2 senders, counts from -1 to 4, a queue of 3 | no signal is lost; the end comes last; a sender is turned away only over the limit, its own end counted; the receiver ends |
| Demultiplexers | each server with 3 clients of 1, 2 (the second a quit) and 1 lines, the last of which may be killed; a line on the keyboard; `fds` of 4 slots | no open connection is forgotten; what was written is read before the connection is closed; nothing past `fds` while connections fit; each client is served; select-server.c spins on a failing `select` only for the keyboard's end; a quit, on the keyboard or a client's, ends the server |
| PollOverlap (violated) | poll-server.c, 2 clients that wait for each other to leave | the slot it gives up is not that of the connection that ended |
| Numbers | 3 clients, two of which may be killed; numbers 0 to 2, codes 1, 2 and 3; a backlog of 1 | messages are printed whole and in order; only an END_CODE sent ends the server, at once; a client that sends it ends it |

Why the bounds are enough.  Five entries on pages of one make the table grow
from one page to eight and shrink again while entries remain; five entries are
also the first number for which a last level has one child and two.  With
numbers to 12 a thread takes 4 and 6 before another has crossed them out, and 12
is crossed out from 2, 3, 4 and 6; with three threads a barrier has one to go ahead,
one to lag and one in between, and 4 and 7 are the first places (9 and 15) that the
sieve of Sundaram crosses out.
In Sort a line does not fit the socket, so writes wait and are short; a read
brings the end of one line with the start of the next; files close and their
descriptors are given out again; and a batch is smaller than what is ready.
With three processors one thread is being stopped, one has stopped and one has not,
while the callback is anywhere among them.  A count of 3 fits the soft limit of
`Signals` and its end does not; two senders fill the queue between them.
Three connections are one more than `fds` of 4 slots takes (the code has 5), so it
overruns; a backlog of one makes a third client wait.  In Numbers the length of the
array is END_CODE and its data are the other two codes, so a number taken at the
wrong place has every wrong effect it can have; numbers are read one at a time, so
more of them would show nothing new.
The theorems below do not depend on bounds at all, and the type invariants that
are proved there are checked by no run any more, but that of `DistributedSort`.

Fairness.  `Heap`: a call that has begun goes on.  The sieves: weak fairness of
loading and of each thread, which the kernel's scheduler gives; the lock is
free again and again and taken a bounded number of times, so no stronger
fairness is needed for it; nobody must unload.  `DistributedSort`: weak fairness of
the server and of each client as processes; the kernel may pick the ready
descriptors as it likes, as every event that is handled uses something up.
Nothing makes a client come: `ServerEnds` starts from all connections being there.
`TickThreads`: weak fairness of the loader, of each thread and of the timer; nobody must
unload.  `hrtimer_cancel` tries again until it finds the callback not running, which
is so between any two ticks: strong fairness.  `Signals`: weak fairness of the
receiver, of each sender and of the shell.  `Demultiplexers` and `Numbers`: weak fairness
of the server, and of each client once it is connected, as these are processes
that nothing else holds up; nobody must connect, type or be killed.

`CHECK_DEADLOCK` is on everywhere: models that may stop have an explicit
stuttering action for the states where the program really stops (`Crashed`,
`Stopped`, `Ended`) or waits for someone to come (`Quiet`), so any other stop is an error.

## What is proved

For every value of the constants, from the named assumptions of the modules
(parameters are natural numbers, `Key` maps entries to integers, `Null` is no entry,
pages have at least one entry):

**Heap** (`HeapProofs`).  `TypeCorrect` and `SafeAccess` from `Safe`, the types with the
bounds of each loop's index; then `EntriesDistinct`, `HeapOrdered`, `MinimumAtRoot` and
`HeapImplementsPriorityQueue`.  The ordering is not inductive as heap order alone:
while an entry sifts, its slot is a hole, and what must hold is that the
grandparent of its children precedes them (`Ordered`).  That the root is minimal takes
one more idea than a parent's order: a slot with the smallest index among those
smaller than the root has a parent that is smaller too.  The arithmetic of
pages (rounding up, doubling, halving) is in lemmas of its own.
`LogarithmicTime` is lab3/readme.txt:48, where `heap_insert` and `heap_delmin` are said to be
O(log n): counted from one, the index at least halves with each turn of the loop that sifts
up, at least doubles with each of the one that sifts down, and stays below `active_entries`.
That is `CallsEnd` without its fairness, and a bound on it.

**Barrier** (`SieveProofs`), for any number of threads and both algorithms: the
inductive `BInv` says which thread may be where relative to `barrier_state`, and
equates each guard with the number of threads it stands for.  Nobody is more
than one meeting ahead; while the released leave, nobody enters.  From it come
`EratosthenesImplementsBarrier`, `SundaramImplementsBarrier` and `BarrierReusable`.
`IndexTakenOnce` rests on `IndexInv`: who holds the lock, and that every number taken
is below `global_index`.  `FreedAfterUse` rests on `FlagInv`: `begin_flag` is cleared only
when all have begun the second meeting.  `TypeCorrect` needs the barrier: only the
counting shows that the guards never go below zero.

**All threads end** (`SieveProofs`, then both algorithms' modules), up to fairness.
`NobodyStuck`: when all threads run and not all have ended, one of them is not at a guard
or lock it has to wait for.  Who waits to enter waits for one that is leaving, who waits
in the meeting for one yet to come, who waits for the lock for one that computes.
It needs `BInv`, that when all have begun a meeting one of them knows that it is the last
(`LastKnows`), and that who has the lock is on its way to release it (`LockIsHeld`).
`StepsRunOut`: every step of a thread lowers its rank, in the lexicographic order of the
part of `sieve_fn` it is in, the numbers nobody has searched, the place in that part and
the turns its loop has left; and no step of another thread raises it.  So nobody goes round
for ever, and all of `EveryThreadEnds` that is left to TLC is the scheduling.

**The primes** (`EratosthenesProofs`).  `LeavesPrimes`: for any number of threads and any upper
bound, whatever the races on `numbers`, the primes are left.  It does not go by
primes: `Covered(q)` says that every multiple of q is crossed out or will be by the
thread that has taken q.  The invariant `PInv` says that every number the search has
passed, and every number crossed out, has a divisor that is covered.  A number
may be skipped, or taken, after or before another thread crosses it out: either
way it has one.  At the end nobody crosses out any more (the barrier), so every
composite is crossed out; and a prime has no proper divisor to be crossed out from.
`LeavesOddPrimes` (`SundaramProofs`) is the same argument over the products `i + j + 2ij`:
all that was crossed out is such a product (`OnlyProducts`), and every product with a
`j` below `global_index` is crossed out or will be (`AllProducts`); `2k + 1` is composite
exactly when k is one.

**The reports** (`ReportsRight` of both).  `lab2_exit` counts the primes and sums what the
threads counted.  The sum is a fold; as induction over it is out of reach, its
value is characterised by a function of partial sums, which exists because there is
no least number for which it does not (`SumsExist`, `SumIs`).  That no fewer cross outs were
counted than there are composites needs an invariant of `counters` (`Crossed`): every
number that is crossed out was counted by someone.  The Sundaram version's
count of primes is one more than that of the numbers left, for the prime 2: the odd
primes and those numbers correspond one to one.

**The timer threads** (`TickThreadsProofs`), for any number of processors: `UnloadLeavesNothing`
and `PassNeedsTick`.  The invariant follows `lab1_exit` through the threads (those before
`i` are given up, and have returned) and `lab1_init` (those from `i` on have not begun,
so the first wake-up is no pass), and says of a thread that returns from `schedule`
that a tick or a stop woke it.  `StopNeverLost` and `StopIsObeyed` are `UnloadEnds` without
its fairness.  `kthread_stop` may wake a thread that has looked at its flag
but not yet set its state, and the wake-up is lost; but the timer still ticks, as `lab1_exit`
cancels it last, so that the thread that is waited for runs or will be woken.
A thread that is told to stop then has at most three steps (`StepsLeft`), each takes it nearer to
its end, and none begins another pass.

**The distributed sort** (`DistributedSortProofs`), for any number of clients and files, any lines, and buffers and
batches of any size.  All its safety properties are proved, in three layers; each
invariant was a run's before it was proved.

`Structure` is about the server alone, with nothing assumed of
the constants but their types.  It says which descriptors are in use (`Descriptors`),
that `connections_limit` counts the connections still to be made and those open
(`Counting`), that a client waits in the backlog once or has one connection (`Peers`),
which events are watched at which stage of a connection (`Watching`), and that an event
that epoll reported is still true when its turn comes (`Pending`): between the two,
other events of the batch are handled and clients go on.  `TypeCorrect` and `OwnObjects`
are parts of it.  `DescriptorsInBounds` adds a count: when `accept` takes the lowest free
descriptor, at most `inputs_size - 1` connections, `inputs_size` files and seven more are
in use, which is within `3 * inputs_size + 5` when there are two files.  With one it
is not (server.c:279), so the theorem has the hypothesis `Len(Inputs) > 1`.

`Streams` says what is on its way on each connection: while a file goes
out, the client's heap, the part it has read, the socket, and what the server has still
to send are that file (`Outward`); while lines come back, what there is of them is whole
and in order (`InOrder`).  A client whose connection the server gave up still holds part
of some file (`Reads`), or `Outward` would not be inductive.  The two loops
over text, `insert_string` for each line end and the move of what is left over, are
`whole_lines` and `compacted`; the lemma all of it rests on is that they can be computed
piece by piece: the lines of `a \o b` are those of `a` and those of what
is left of `a` before `b`.  From it come `LinesAllGoOut`, `LinesAllComeBack` and
`PrintedInOrder`, whichever clients are killed.  The hypothesis is that all lines end
with a newline (`Unended = {}`): one that does not takes in the stop that follows it
(server.c:25), and `LinesGoOut` is then false.

`Delivery` says what has arrived: no event is stale (`Fresh`), the end of a stream is
noticed only when all its lines are in the heap (`AtEnd`), and so of each connection
that was closed all lines are in the heap or printed (`Returned`).  That
needs a client that lives (`MayDie = {}`) and lines that fit `line_buf`: one that fills
it makes `read` return 0 (server.c:350).  These are the hypotheses (`Benign`) of
`NothingIsLeftUnread` and of `ServerSorts`: every step of the server, the clients and the
kernel is a step of `Sorter` or none.

`Attention` is what of liveness is a safety property: whom the server has to
attend to, it does.  A client whose connection stands is in the backlog or at a descriptor
(`Attached`); the server stops reading from a descriptor only when its client is gone
(`EndSeen`); its loop goes round only while connections are to come or to be closed
(`Turning`).  So `NeverStandsStill`: server and clients, killed ones included, never all
wait for each other (`ServerWaits` and `ClientWaits` spell out when each has no step; TLC confirmed
that they are the negations of ENABLED), but stop only when all
clients have ended and the server has, or waits for clients that nobody starts.
`EventsStayTrue`: what epoll reported of a descriptor still holds when its turn in the batch
comes.  Clients may be killed here, but lines have to end and fit
`line_buf` (`Readable`).  This is needed: when `read` returns 0 for a full buffer, the
server watches for the hang-up alone, while the client may be waiting in `write`
for room in a full socket.

**The signals** (`StudioProofs`), for any number of senders, any counts and any limit.
`NoSignalLost` compares the receiver's count and the queue's length with a sum over the
senders, a fold characterised as above.  `EndIsLast` needs that for each sender: what it has sent is
counted or queued (`CountedOrQueued`), and nothing of it is behind its end in the
queue (`EndsLast`).  `TurnedAwayOverLimit`
compares sums: the queue is no longer than what all senders have put into it
(`AtMostTaken`), none has put more than it wants to, and one that is refused has one
left; so a full queue means that together they want more than the limit.

**The demultiplexers** (`DemultiplexersProofs`), for any finite set of clients, any texts, and
`fds` and `evlist` of any size; that clients are none of the four other things a
descriptor can be is the assumption on what stands for them.  `Kernel` says how the
descriptors and the backlog share the clients out, so that `accept` always finds a
descriptor, and one past the listening socket unless the keyboard was closed; and that is
why each server's loop comes first to a descriptor 0 that is open (`PollInv`, `SelectInv`,
`EpollInv`).  Steps fall into five kinds, by what they do to the descriptors: nothing,
connect, accept, close and the process's end.  `WatchesItsConnections`: for
epoll-server.c without a condition, though it handles a batch of events while
descriptors are given out again; for the others as long as connections do not overlap, when they
have at most one.  `KeepsItsSlots`: that poll-server.c drops the wrong slot
breaks neither its count of slots, which never exceeds that of its connections, nor
what the slots hold past the second (`fds[s].fd > server_fd`).  `ReadsBeforeClosing`:
select-server.c closes `con_fd` whatever descriptor it has read from, and with one
connection these are the same.  `SpinsForTheKeyboard` is the part of `SelectInv` about
what is selected: while `con_fd` is not 0 it is open, and while it is 0 nothing but the
keyboard and the listening socket was selected, so that only the keyboard's end can
close descriptor 0, and what is closed otherwise is no longer selected.

**The numbers** (`StudioProofs`), for any clients, any backlog, any number of data and any
codes that differ, of which END_CODE is no datum (client_local.c would be cut short by
it).  The server has no other idea of where a message is than what it takes the next
number for, so `NumbersInv` relates the two: what is in the socket of the current
connection is the rest of its client's message, and `Place` says, for each of the three
forms, which `pc` and `unread` belong to having read so much and printed `p` numbers.  That
is what makes a datum that equals a code harmless.  Around it: nobody reads from the
connections in the backlog, whose clients may come to send or die meanwhile; those that are
over printed their data whole, or nothing, and did not ask for the end.  What is printed is
a `FlattenSeq` over connections; that one more of them appends its data (`FlattenAppend`) is
proved from a function of partial results, as with the sums above.  `PrintsWhole` and `EndsWhenTold`
follow.

Only model-checked: liveness (`CallsEnd`, `EveryThreadEnds`, `UnloadEnds`, `ServerEnds`, `ClientsEnd`,
`ReceiverEnds`, `EveryClientServed`, `QuitEnds` and the like), as it needs ENABLED.  Of the
first five what does not need it is proved, as said above; of the server and its clients
what is left is also that their steps run out, which no count of them was given for.  Every
safety property of every passing run is a theorem.

## Not modelled

See `components` in `PROJECT.json`.  Studio13, 14, 15, 19 and 20 have no state
that steps of several actors could break.  `sysfs` writes to lab2's parameters while threads run
are left out, as is what the kernel does with threads whose code is gone, and
`lab1`'s interval: a tick may come at any time.  `kmalloc` failing for `counters`
(lab2.c:117) and `kthread_create` failing (mt_lab1_module.c:55, which tests for NULL and
gets ERR_PTR) end a behaviour in `oops`.  Of studio17, `select-test.c`, and texts that
fill the buffer, for which `buf[num_bytes]` is one past its end, are left out; so is
`hosttime`, to which select-server.c:119 appends 25 bytes with every connection: the tenth
writes past it.

Places noted here, as no run is about them:
- `heap.c:338` says that `heap_delmin` allows one empty page but not two; it keeps two
  or more, as it only halves the table.
- `studio17/poll-server.c:137` and `:173` compare all that a read returns with quit, so one
  that is read together with other lines is printed as a line and does not end the server;
  `poll-server.c:41-43` asks for a server that ends when it reads quit from a client.
- `studio17/poll-server.c:161` writes past `fds` with more connections open than it has slots
  for, and `select-server.c:121` and its client may wait for each other (`BothWait`): the
  models have both, and `SlotsKept` and `EveryClientServed` except them.
- `Studio18/sender.c:80`: a refused end leaves the receiver waiting (modelled; `ReceiverEnds` is
  about ends that were queued), and the end of one sender may come while signals of another
  are still queued (`EndComesLast` is about its own).
- `Studio16/client.c:164` tests a `quit_flag` that nothing has set (`Flags`): a client that was not
  told to may end the server.
- `lab2_sundaram_atomic.c:185` takes the prime 2 from the places that need to be crossed
  out, though it has none: `best_count` is one too small, and one cross out too many
  is reported as unnecessary.
- `lab3/server.c:350`: a line that fills the buffer makes `read` ask for nothing, which is
  taken for the end of the stream (`Receive` models it; the runs' lines are shorter).  Server
  and client may then wait for each other.
- `lab3/server.c:25`: `STOP` after a last line without a newline becomes part of the line,
  and the client waits for another (modelled too).
- `lab3/server.c:72`: a line without a space leaves its key uninitialised.
- `print500000.c:36` writes past `called` when a signal comes after its first loop.
- `Studio16/client.c:170`: clients still in the backlog when the server ends succeed, and
  their numbers are lost (`Send` models it).

Hazards that no property covers, or not in full, carry a note in `PROJECT.json`: where the
code does not do what one may hope for and nothing in it promises that it does, the
model shows it and the properties permit it.

## Plan

1. Done: `Heap`, the sieves, `DistributedSort`, `TickThreads`, `Signals`, `Demultiplexers`,
   `Numbers`, their runs; the theorems above.
2. Open to model: `hosttime` and the buffers' ends in studio17 as bounded counters; the
   refused end signal of Studio18 as a run of its own.
