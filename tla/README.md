# SIT315 concurrent programs: a verification project

The repository is a portfolio of small concurrent programs (Arduino interrupt
sketches, pthread and OpenMP programs, MPI and OpenCL programs) next to a
vendored copy of MPICH 3.0.2. Here the programs are modelled in TLA+,
model-checked with TLC and, in part, proved with TLAPS. File names below are
relative to `src/`; `M3T1` stands for `Module3/M3.T1P`, `S4` and `S5` for
`Module2/Seminar 4` and `Module2/Seminar 5`, `CT` for `Module2/Complex Threading`,
and `ch3` for `Module3/mpich-3.0.2/src/mpid/ch3`.

## 1. Inventory

### Modelled

| Part | State it keeps | Operations | What makes it right |
|---|---|---|---|
| Matrix product over MPI, `M3T1/mm_mpi.cpp` | per rank: `offset`, `rows`, `dest`/`source`, matrices A, B, C | rank 0 sends four messages to each worker, then takes three from each in rank order; a worker receives four, multiplies, sends three | no size disagrees, every block lands at its rows, the product is whole, nobody waits for ever |
| The same with the size read at run time, `M3T1/MatMult_MPI.cpp` | as above, and two sizes | as above | no wrong product is printed |
| Blocking sends and receives, MPICH `ch3` | messages in flight per pair of ranks, eager limit | `MPI_Send`, `MPI_Recv`, fatal errors | order per pair, rendezvous, truncation (this is what the two programs above rely on) |
| Nonblocking point-to-point communication, `ch3/src` | request objects with two counters, free handles, the posted and the unexpected queue, packets on each connection | `Isend`, `Issend`, `Irecv`, `Improbe`, `Imrecv`, `Cancel`, `Wait`, `Request_free`, and the handler of each packet of the eager, synchronous, rendezvous and cancel protocols | messages match in order, no packet finds a request that is gone, a cancel tells the truth, what is matched completes |
| Connections of the sock channel, `ch3/util/sock`, `ch3/channels/sock`, `ch3/src/ch3u_handle_connection.c` | per process: the VC and its close state, its channel state, connections and packet queue, events of the last poll, closes outstanding | connect on demand, accept, refuse, write, read, close, `MPI_Finalize` | both ends use one connection, nothing is lost or reordered, no assertion fails, finalize ends |
| Vector addition with detached threads, `S4/VectorAdd_final.cpp` (also `S4/VectorAdd_scratch.cpp`, `S5/VectorAdd_pthread.cpp`) | three shared structs with a pointer, the life of five threads | create, detach, join, exit, `malloc`, fill, add | main uses a vector only when it is there and filled |
| Matrix product with detached threads, `S5/matrixMultiply_pthread.cpp` | the same, copies of the structs, the cells of the result | the same, and the unlocked `+=` of every thread | the copies are fresh, the cells hold one product |
| Matrix product by row tickets, `S5/matrixMultiply_pthread_test.cpp`, `_test_2.cpp` | the shared counter `step_i`, the result | `step_i++` and `+=` without a lock | every row is done, by one thread |
| Parallel quicksort, `CT/quicksort_parallel.cpp`, `quicksort_parallel_new.cpp` | the array, one frame per call | `partition`, two OpenMP sections, their barrier | sections share nothing, the array is sorted at the return |
| k-means, `S5/kmean_parallel.cpp`, `kmean.cpp` | points and their cluster, centroids, `done`, `iter` | the parallel assignment with its reduction, refilling, recentring | every iteration is one of k-means, the result is a fixed point |
| Motion sensors, `Module1/task1.4D.cpp` | the pins, two LED states shared by the loop and the handlers, interrupt flags | pin change, its handler reading both pins in turn, timer handler, loop with two `digitalWrite`s | no report without a change, no rising of sensor 1 forgotten, LEDs show their states in the end |

The ranks of an MPI program interact by messages only: the calls of the programs
rest on the requests and queues of `ch3`, whose packets travel over the virtual
connections (VCs) of a channel. The threads of the
pthread and OpenMP programs interact by shared memory without any lock; what
order there is comes from `pthread_join`, from the barrier at the end of an
OpenMP construct and from the reduction of `done`. The sketch has one processor:
its handlers interrupt the loop at any instruction, but not each other.

### Not modelled

| Part | Why |
|---|---|
| OpenMP inside the MPI workers, `M3T1/mm_mpi_omp.cpp`, `mm_mpi_openmp.cpp`, `MatMult_MPI_openmp.cpp` | the first sends once, after a loop whose turns are independent, and behaves as `mm_mpi.cpp`; the other two send the three result messages from inside the parallel loop with shared loop variables, and no value they print is defined |
| `M3T1/mm_mpi_ocl.cpp`, `mm_mpi_opencl.cpp` | the messages of `mm_mpi.cpp` around a computation that is commented out |
| Scatter and gather, `Module3/M3.S3P/VectorAdd.cpp`, `Module3/M3.S2P/resources/VectorAdd.cpp` | every rank makes the same few collective calls in the same order; what goes wrong (a block length computed before `numtasks` is set, a remainder that is dropped) is arithmetic of one line and listed as a hazard |
| OpenCL hosts and kernels (`Module3/M3.S3P/vector_opencl`, `M3T1/*opencl*`, `*.cl`) | a host makes blocking calls in one order; device, driver and the order of work items are outside the repository |
| `S5/matrix_multiplication_pthread_new.cpp` | threads advance a shared row index and go on using it while others move it: the build may read it once or at every use, and nothing worth stating is left |
| `CT/kmeans_openmp.cpp` | lacks a header and does not compile as it is |
| `Module2/Activity_3.3_Code.cpp` | whether its timer ever fires is a question of real time and of one division, not of the order of events |
| The other sketches of `Module1` | no handler at all, or handlers that share nothing with the loop |
| OpenMP vector addition and matrix product in `S5` | independent turns; nothing to interleave |
| Sequential programs and hello-world programs | one thread, or pure output |
| The rest of MPICH | some 1600 files of third-party code that no program here uses, but for two collectives: one-sided communication, communicators and datatypes, the nemesis channel, the process managers, ROMIO, the language bindings |

Within `ch3`, these are left out: ready and buffered sends, persistent requests, the
messages of a process to itself and several communicators (`Ch3Pt2Pt`); the
connections of `MPI_Comm_connect`, `accept` and `spawn`, the death of a process and
threads (`SockVC`).

### Hazards

`PROJECT.json` lists, at its line, each place where a test would hardly reach
the fault, with the properties that watch it. They fall in these groups:
order of arrival and waiting cycles of the blocking sends (`mm_mpi.cpp:82,90`);
sizes that two sides compute apart (`mm_mpi.cpp:76`, `MatMult_MPI.cpp:47`);
joins that meet a detached thread and the pointers read after them
(`VectorAdd_final.cpp:90-105`); unlocked read-modify-write of counters and cells
(`matrixMultiply_pthread_test.cpp:34`, `matrixMultiply_pthread.cpp:60`);
sections that write one array (`quicksort_parallel.cpp:54`) and a return that
depends on a barrier alone; the stopping test of k-means, decided by 16
threads together (`kmean_parallel.cpp:222`); pins that change again between the
interrupt and its handler's two reads (`task1.4D.cpp:62`); handles in packets that
outlive their request, and cancels that cross what they cancel
(`ch3u_eagersync.c:341`, `mpid_cancel_send.c:261`); queues that a message and a
receive search at different times (`ch3u_recvq.c:829`); two connections opened at
once, requests read after the connection that won is closed, crossing closes, and
packets that queue before there is a connection (`ch3u_connect_sock.c:885,901`,
`ch3u_handle_connection.c:282`, `ch3_istartmsg.c:74`).

Some hazards have no property. `pirStateGreen` and `pirStateRed` stay `LOW` for ever
(`task1.4D.cpp:62,71`), so while sensor 1 is `HIGH` every change, also one of
sensor 2, is reported as sensor 1's. A VC that is not in use when a process
finalizes is marked `INACTIVE_CLOSED`, which the sock channel never looks at
(`mpidi_pg.c:1207`): it takes a program that cancels a send to a process that has
finalized, and `SockVC` has no cancels. The others are in programs listed above as not
modelled.

## 2. Modules

| Module | What it is |
|---|---|
| `RowPartition` | how rank 0 cuts the rows (`avgRow`, `reRow`, `rows`) |
| `MpiPt2Pt` | the messages: `chan[s][d]`, send, matching, rendezvous, truncation |
| `MatMulMPI` | one action per MPI call of `mm_mpi.cpp`; extends the two above |
| `MatMulMPI_inv`, `MatMulMPI_proofs` | the inductive invariant; the proofs |
| `DistributedProduct` | abstract: rows of a product arrive block by block, then it is complete |
| `MatMulEnteredSize` | `MatMult_MPI.cpp`: extends `MatMulMPI`; rank 0 takes its steps, the workers those of an instance with their own size |
| `Pthread`, `ForkJoin` | life of a thread (external library), and the create/join/detach skeleton of the pthread programs |
| `VectorAddPthread`, `MatMulPthread`, and `_proofs` of each | the two programs on that skeleton |
| `RowTicket`, `RowTicket_proofs` | the unlocked row counter |
| `SortData`, `SegmentSort` | abstract: an array and the segments still to be sorted |
| `ParallelQuicksort`, `ParallelQuicksort_proofs` | both quicksort programs, one chosen by the variable `program` |
| `Space`, `Lloyd`, `KMeans` | points and distances; abstract k-means iteration; the program |
| `TwoPirs`, `TwoPirs_proofs` | the loop, the two handlers and the interrupt flags of `task1.4D.cpp` |
| `RecvQueue` | the two queues of receives of `ch3u_recvq.c`, and which entry a search finds |
| `Ch3Pt2Pt`, `Ch3Pt2Pt_proofs` | requests, packets and their handlers; extends `RecvQueue` |
| `Ch3Order` | that `Ch3Pt2Pt` implements `MpiOrder` |
| `MCCh3Pt2Pt` | the sends and the receives of the runs |
| `MpiOrder` | abstract: what MPI promises of the matching of messages and receives |
| `SockVC`, `SockVC_proofs` | a VC of the sock channel between two processes, from the first message to `MPI_Finalize` |

### How state and actions correspond to the code

*MPI product.* A rank's `pc` names its next MPI call, so every call is an action
and all interleavings of ranks are explored; `Send` appends to the channel, and
a rank whose last message is in rendezvous cannot take its next step
(`SendReturned`). `Recv` takes the first message with its source and tag, and a
message longer than the buffer aborts the job (MPICH's default error handler).
A row of A or B is its own number; a row of C is the number `r` when it was
computed from row `r` of A and the whole of B, and `Garbage` when anything it
was computed from was uninitialised. Workers really multiply rows they never
received (line 133), and the model does so too. Printing and timing are left out.
In `MatMulEnteredSize` the variable `matrixSize` is the size rank 0 has read and
`workerSize` the compiled-in one of the others; when they differ the rows rank 0
sends are no rows of its matrices, and count as garbage.

*Pthread programs.* `ForkJoin` walks through a program given as a sequence of
create and join calls. POSIX leaves joining a detached thread undefined; the
model takes what the library does: the join returns without waiting, or, when it
came first, waits. The use of an uninitialised pointer ends the process or goes
unnoticed. Every filled element is a step of its thread. After a join that did
not wait, the build may have loaded a pointer before it was stored, so `MainAdd`
may use a stale one. `x += y` without a lock is a read step and a write step.
In `MatMulPthread` one cell stands for all: the threads run the same loops over
every cell, and cells do not influence each other.
`RowTicket` creates its threads in any order, which only adds behaviours.

*Quicksort.* A call is known by its range, since no range is sorted twice. Every
turn of the loop of `partition` is a step, so two sections interleave between
any two comparisons. `SectionRuns` says which sections have a thread:
without nested parallelism an inner region runs its sections in order, with
nesting all run at once. More threads than needed are assumed with nesting;
fewer only remove interleavings.

*k-means.* One step per turn of the parallel loop, in any order, with the
reduction of `done`; one step for the sequential rest of an iteration. All
points read centroids that do not change during the loop, and write only their
own cluster, so a turn is one step. The doubles are replaced by exact numbers
(units of `1/Scale`, where every mean is a whole number), so rounding is outside
the model; ties between clusters are broken as in the code.

*Motion sensors.* The processor is external: a pin change or compare match raises
a flag, the flag is cleared when its handler is entered, handlers do not interrupt
each other, and the pin-change handler goes first. The handler reads its two pins
in two steps, and pins may change between them. Whenever no handler runs, the
loop may take its next step; it may always be interrupted first. A `digitalWrite`
is a step that takes the state and a later one that writes the pin. The delay at
the end of the loop is just time in which handlers run. `changes`, `reports` and
`risen` are history variables, which the program does not have.

*Point-to-point communication of `ch3`.* A process is one thread, so an MPI call and
the handling of a packet are atomic; the packets of one connection stay in order,
and everything else interleaves. `request[p][h]` is the request object with the
handle `h`: its completion counter `cc`, its reference counter `ref`, and what the
code keeps of its message. A packet holds the handle of a request of
the other process, as in the code, and the handlers use it unchecked; `avail` gives a
freed handle to the next request, as the allocator does. A search of a queue takes the
first entry that matches, wildcards included (`RecvQueue`), and the queue and the
new request of a failed search are one step, as they are under the code's lock. The
data of a message is not modelled, but that it may come after its envelope is
(`reading`, `DataArrives`). Each send has a kind: `"eager"`, `"sync"`, `"rndv"`, and
`"noncontig"` for a short send of a noncontiguous datatype, whose packet has no
handle. `asked` and `fate`, and the field `msg` of a request and of a packet, are
history. A call that finds nothing to do (a probe without a message, a second cancel)
is left out as it changes no state.

*Connections of the sock channel.* `Poll` is the call of `poll()`, and takes any part
of what could be seen, since the rest may be on its way; its events are
handled one by one, in any order, before the next poll, as in `sock_wait.i`. Connection
0 is the one process 0 asks for, connection 1 that of process 1, and `wire` is what
is on its way on each. A write that is posted is done when its event is handled. The
state names are those of the code (`vc`: `MPIDI_VC_STATE_*`, `ch[p].state`:
`MPIDI_CH3I_VC_STATE_*`, `conn`: `CONN_STATE_*`, with `"CLOSING"` for a posted close
and `"CLOSED"` for its event handled). The assertions of the handlers are guards in the
actions and are watched by `AssertionsHold`. A process in `Others` has VCs
to third processes to close as well; all that is modelled of them is that it
keeps on running the progress engine. `HandleReset` is what the system
does with a request that reaches a process which has ended.

## 3. Runs

| Run | Module | Question | States |
|---|---|---|---|
| `matmul_mpi` | `MatMulMPI_inv` | does `mm_mpi.cpp` deliver the whole product, in bounds, with nothing left over, always ending; does it implement `DistributedProduct`; is the invariant of the proofs true | 15 k |
| `matmul_entered_size` | `MatMulEnteredSize` | what happens when rank 0 reads another size: no wrong product, and no hang | 25 k |
| `vector_add_pthread` | `VectorAddPthread` | as long as the joins wait, is the addition ordered and right; does main end in any case | 6 k |
| `matmul_pthread` | `MatMulPthread` | are the struct copies fresh whenever the allocations are waited for; how far can lost updates go | 970 k |
| `row_ticket` | `RowTicket` | which rows are taken and right although the counter has no lock | 53 k |
| `quicksort` | `ParallelQuicksort` | do both programs sort, without races, and implement `SegmentSort` | 19 k |
| `kmeans` | `KMeans` | fixed point, no worse clustering, convergence, refinement of `Lloyd` | 37 k |
| `two_pirs` | `TwoPirs` | are changes reported at most once and risings of sensor 1 never forgotten, do timer and reports leave the LEDs as they should, do the pins follow | 23 k |
| `ch3_pt2pt` | `MCCh3Pt2Pt` | are messages matched in the order of MPI, does no packet find a request that is gone, does a cancel tell the truth, does what is matched complete | 123 k |
| `ch3_cancel_noncontig` | `MCCh3Pt2Pt` | **violated**: a cancel drops no other message | |
| `sock_vc` | `SockVC` | do both processes use one connection, is nothing lost, does no assertion fail, does `MPI_Finalize` end | 29 k |
| `sock_late_request` | `SockVC` | **violated**: the same assertions, while one process has a third to wait for | |

### Bounds, and why they are enough

* `matmul_mpi`: up to four tasks (none, one, two and three workers), matrices of
  two and four rows, so that blocks are equal, differ by one, or are empty (three
  workers, two rows); eager limits 0 (everything by rendezvous), 20 (numbers eager,
  rows by rendezvous) and 1000 (everything eager). All of it is proved for every
  value as well, except that it ends.
* `matmul_entered_size`: default size 3 and entered sizes 1 to 3, so smaller and
  equal sizes with and without empty blocks; a larger one makes rank 0 write
  outside its arrays, which has no defined behaviour to check.
* `vector_add_pthread`: three elements, one more than the two that `randomVector`
  ever fills (the bound of its loop is `sizeof` a pointer over `sizeof` an int). The safety
  properties are proved for any size.
* `matmul_pthread`: two multiplying threads with three terms: the smallest number
  with an addition lost in the middle of a loop. Proved for any numbers.
* `row_ticket`: three threads and three rows, so the counter can be set back past
  one thread by another while a third has gone on.
* `quicksort`: six elements of three values: pivots that are the smallest, the
  greatest, and repeated, halves that are empty, and two halves that are both
  split again at the same time. All but `Terminates` is proved for any array.
* `kmeans`: four points on a line, three coordinates, three clusters: repeated
  points, clusters that lose all points, ties. The limit of eight iterations is
  never needed, which `Converges` checks.
* `two_pirs`: four changes of the pins (`MaxChanges`): one that is served, one
  that comes during the handler, and two more that are merged into one interrupt.
  The timer is not bounded.
* `ch3_pt2pt`: one sender and one receiver, three calls (sends, receives, probes) in
  any division and one cancel, of a send or of a receive, with a `MPI_Wait`, a
  `MPI_Request_free` or neither for every request. Three calls are a message, a
  receive and one more to compete with either, and let a handle be used again; the
  sends are one of each protocol, two with one tag, and a receive asks for the later tag or
  for anything. The matching (`NoMatchApart`) is proved for any numbers.
* `ch3_cancel_noncontig`: the same with two short sends of one tag, one noncontiguous.
* `sock_vc`: two processes are all that share a VC. Each sends none, one or two
  messages (`MaxMessages`), so there may be one connection, two at once or none, the second
  message may find the queue empty or not, and a process may close while the other
  has only just accepted. All but `FinalizeEnds` is proved for any number of messages.
* `sock_late_request`: one message each is enough, and one process that waits for a third.

### Fairness

Only weak fairness of whole processes, threads or sections is assumed: an
operating system or OpenMP runtime runs every runnable thread eventually, and MPI
delivers what was sent. No action inside a thread is favoured. `RowTicket` has no
liveness property and no fairness. In `TwoPirs` the processor goes on with the loop
and serves pending interrupts; pins and timer are not obliged to do anything, and
`LedsSettle` is about executions where interrupts stop. For the quicksorts this also means that a
section waiting for a thread gets one, which the runtime ensures by running
sections of a one-thread team in order. In `Ch3Pt2Pt` a process runs its progress
engine as long as there is something for it to do (`MPI_Wait` and `MPI_Finalize` call
it until nothing is outstanding), and receives what it has probed; whether it sends,
receives, waits or cancels is its own choice. In `SockVC` a process goes on with its program
and with its progress engine, each as a whole: nothing says which event a poll finds,
and a message already on the wire may be missed by any number of polls that find others.

### What the violated runs show

* `ch3_cancel_noncontig`: `MPID_Cancel_send` asks the receiver to drop the message
  with the handle of its request, but a short noncontiguous send tells the receiver
  `MPI_REQUEST_NULL` for its handle (`ch3u_eager.c:107`). When an earlier message, of
  a request that had the same handle and has been freed, still waits with
  the same tag, that one is dropped and reported as the cancelled send; the comment at
  `mpid_cancel_send.c:197` wants that never to happen. In `ch3_pt2pt`, where no send is
  noncontiguous, `CancelOutcome` holds: of several messages with one handle the last
  is dropped, and that is the one meant.
* `sock_late_request`: two processes connect to each other at once, and the
  one with the higher rank asks the lower one by connection 1, which the resolution lets
  win. The request on connection 0 is refused by comparing ranks only while the
  reader's VC still has a connection (`ch3u_connect_sock.c:885`). Read after the winning
  connection has been used and closed, it is accepted as a new one, and the lower rank,
  which reads the acceptance, fails `MPIU_Assert(vcch->conn == conn)`
  (`ch3u_connect_sock.c:794`). It takes a process that goes on running the progress
  engine after that close, because it waits for a third one; with two processes
  only (`sock_vc`) the late request meets a process that has ended, and
  `MPI_Finalize` of the other one ends with an error at worst.

Four disagreements of the small programs with what they are meant to do show in what the
passing properties must allow. Every thread of the vector addition detaches itself
while main is about to join it, and a join after the detach does not wait
(`VectorAdd_final.cpp:38`): hence the premises of `SafeWhenJoinsWait` and
`SumRightWhenJoinsWait`. Every thread of `matrixMultiply_pthread.cpp` adds the whole
product into the same cells (line 161): hence the upper bound of `LostUpdatesBounded`.
`step_i++` lets two threads take one row (`matrixMultiply_pthread_test.cpp:34`):
hence `SharedRowsBounded`. And the workers of `MatMult_MPI.cpp` never learn the
entered size (line 47): any smaller size than the compiled-in one aborts the job, and
`NoWrongResult` says no more than that.

`SumRightWhenJoinsWait` moreover records that only two elements of a vector are ever
filled, whatever its size (`VectorAdd_final.cpp:18`).

## 4. Proofs

All theorems hold for every value of the constants that satisfies the named
assumptions (`MaxTasks` at least one, sizes positive, values integers, and so on;
TLC evaluates them in the runs).

**MPI product** (`MatMulMPI_proofs`). `Inductive` proves `IInv`. Neither the size
agreement nor the completeness of the product is inductive by itself: both
depend on what is in flight. The heart of `IInv` is `ChannelInv`: the channel
from rank 0 to a worker is exactly the part of that worker's four messages that
the one has sent and the other has not taken, and how far each is can be read
off its program counter; the same for the three messages back. With `MasterInv`
and `WorkerInv` (the local variables hold what those messages say) and
`ResultInv` (C holds the delivered blocks and nothing else) each step keeps all
of it; one lemma per direction (`MasterSends`, `WorkerTakes`, ...) moves a channel
by one message. From `IInv` follow `TypeCorrect`, `NeverTruncates`,
`BlocksStayInBounds`, `NoGarbageTravelling`, `ProductIsComplete`,
`NetworkDrains`, `NoRowOverwritten` and `Implements`, that every step is one of
`DistributedProduct` or a stutter. The arithmetic of the blocks is in the first
lemmas of the module.

The last part of the module proves `EnteredSizeRight`, that `MatMult_MPI.cpp` never
prints a wrong product (`NoWrongResult` of `MatMulEnteredSize`). Where the size rank 0
has read is the workers', every step is one of `MatMulMPI` (`SameSizeMaster`,
`SameSizeWorker`) and the invariant is `IInv`. Where it is another, smaller size,
`ApartInv` follows one number only: the rows of the block of worker 1, which go to
the worker as the second message and come back as its second, while its third is that many
rows of the *worker's* size. Rank 0 collects worker 1 first, and that block is not empty
(`FirstBlock`), so the third message is longer than the buffer and the job ends
(`ApartAborts`): rank 0 never comes to the rest of its loop, let alone to the printing.
Nothing need be known of the other workers, who touch neither of the two channels.

**Quicksort** (`ParallelQuicksort_proofs`). The first part is about `SegmentSort`: when segments are disjoint and two
elements are out of order only inside a common segment, exchanging inside a
segment and splitting at a pivot keep that so; hence the array is sorted when no
segment is left (`SortedWhenSplitUp`). The second part maps the calls
that are waiting or partitioning to the segments. The invariant adds the loop
invariant of both partition functions, and says of every call with open sections
or behind its barrier where the unsorted calls can be. The same argument covers
both programs and every schedule. Results: `Implements`, `SectionsNeverRace`,
`PartitionStaysInRange`, `ReturnsSorted`, `PivotsNeverMove`.

**Row tickets** (`RowTicket_proofs`). The counter can be set back, but every row
below it, and below the row of any thread, has an owner (`IInv`); so `NoGaps`. The
owners of different rows are different threads, of which there are at most as
many as rows; so `InBounds`. `SoleOwnersRight` follows a row and its only owner through
the loop (`RowsInv`), and holds whatever the other threads lose elsewhere.
`SharedRowsKeepTwo` bounds what racing threads leave. From above: a row, and what a
thread has read of it, never holds more terms than there are `Additions` to it, a set of
pairs of a thread and a turn that grows by one at each write and ends with `MAX` per
owner (`UpperInv`). From below: a thread in its second turn has read a row that was
written before, so a row whose owners have all written twice holds two terms (`LowerInv`).

**Pthread programs** (`VectorAddPthread_proofs`, `MatMulPthread_proofs`). What is used after
the joins is safe because of where calls stand in main's program: a thread that has been
joined in time was created before and has ended (`Lives`, `Joined`), so its allocation, its
copy of the struct and its elements are there (`Allocated`, `Copied`). With this go
`SafeWhileAwaited` and `SumsFilledPart`, for vectors of any size, and `CopiesFresh`, for any
number of threads. `LostUpdates` follows the row tickets: from above a cell holds no more
terms than there have been additions, as a set of pairs of a thread and a turn; from
below a thread past its first turn has read a cell that was written before.

**Motion sensors** (`TwoPirs_proofs`). `ReportsAreCaused` counts, besides the reports
made, the one a raised flag or a running handler may still make, and
`RisingIsNotMissed` names both places where a rising waits; so each is inductive
with the types alone, for any number of changes (`EveryReportCaused`,
`NoRisingMissed`). `OppositeByReports` is inductive too: each report flips one of the two
states and the timer both (`LedsOpposite`).

**Queues of `ch3`** (first part of `Ch3Pt2Pt_proofs`). `NeverApart`: a posted receive and an
unexpected message that match never both wait, for any processes, tags, wildcards and
calls. The invariant says so of the *entries* of the two queues, as sets: appending
adds one entry, which the search that failed has compared with all of the other queue, and
every removal only takes away (`EnqueuedEntries` and its counterpart for removals). One lemma
per action that touches a queue; the others leave both alone.

**Requests and packets of `ch3`** (second part of `Ch3Pt2Pt_proofs`). `RequestsLive`: no packet,
queue or read in progress names a request that is gone or belongs to another message
by now (`NoDanglingRequest`). `WaitsForReceiveAlone` is `CompleteWhenNonePending`, the answer to
the question of `mpid_irecv.c:77`. `CancelsOwnMessage` is `CancelOutcome`, under `EverySendNamed`:
no send is of noncontiguous data, whose envelopes do not name their request; without that
`ch3_cancel_noncontig` shows `CancelOutcome` to be false. Handles are used again at once, so
only the counts keep a packet from finding a stranger, and the invariant (`PtParts`) has to say
what each of them counts:

* `RefInv`: the references of a request are those of its user, of the queue of
  unexpected messages and of the device until the request is complete; and
  `CountInv`: a send waits at least for its write, for the receiver's answer and for the answer to
  its cancel, each while it is still to come (`Unanswered`, `Cancelling`).
* `OnePlace`, `CancelOnce`: between its send and its receive a message is in one place only,
  of six, and one packet at most is about its cancellation; so what the counters wait for comes
  once.
* `PacketInv`, `QueuedInv`, `ProbedInv`, `ListedInv`, `ReadingInv`: what a packet, an entry of a queue
  or a read in progress says of a message agrees with its send, as long as there is one (`Link`), and
  with what became of it.
* `NetOrder`, `QueueOrder`, `LaterInv`: the messages of a pair of processes are in the order of
  their sends, first in the queue and then on the way; no envelope follows the request to cancel
  its message. `KeptInv` and `FirstInv`: a message that was not found is somewhere there, and one
  that was found was the first of its tag. So the entry that `IsCancelled` finds, the last
  with the handle and the envelope, is that of the message asked for.

There is one lemma per action (`IsendKeeps`, `RndvClrToSendKeeps`, ...). They rest on
lemmas for classes of steps, which take as premises what the step changes and
conclude each part of the invariant: one for the side of a send (`SendStepKeeps`), one each for an
envelope that meets a receive (`MetKeeps`) or none (`ArriveKeeps`), and one for a message
that leaves the queue (`TakenKeeps`).

**Close protocol** (`SockVC_proofs`). `ClosesNormally`: a socket is closed under a VC
only when the VC is `CLOSED`, and the counter that `MPI_Finalize` waits for is the number
of VCs within the protocol. Alone that is not inductive: a refused connection is closed
too, and must not be the VC's. So the invariant adds that what is refused or not yet
accepted is not the VC's connection (`NotTheVCs`), and that a connection is accepted
once (`AcceptsOnce`). It assumes nothing of `Others`, so it holds also where the resolution of
two connections goes wrong.

**Connections and messages** (second part of `SockVC_proofs`). `UseOneConnection`,
`HandlersFindWhatTheyAssert` and `DeliversInOrder` hold for any number of messages, under
`1 \notin Others`: process 1 does not go on polling once its VC is closed. Of two
connections that of process 1 wins, so the `Winner` is known from `conn[1][1]` alone. The
invariant `LinkInv` says, for the two ends of the winning connection and of the losing one,
which states go together (`WinnerInv`, `LoserInv`); that what a VC's channel holds is
determined by the states of the connections (`ChInv`, `Candidate`); and how far the two VCs
are in the close protocol, one against the other (`VcInv`, `CloseInv`). `StreamInv` ties
them to the packets, as `ChannelInv` does for the MPI product: a losing connection carries
nothing but its opening, and the winning one its opening, the messages sent and not yet
received in order, and then the closes, which the states of the two VCs determine
(`Closes`); the end of this may still be in the queue. One lemma per handler;
`StreamStays`, `ReadOn` and `SentOn` are what a step may do to a stream. The
assumption is used in one place, where process 1 reads the request that lost
(`ConnOpenLinks`), and `sock_late_request` shows that `AssertionsHold` is false without it.

### Only model-checked

* Everything that must eventually happen (`Termination`, `MainEnds`, `Terminates`,
  `Converges`, `Ends`, `LedsSettle`, `MatchedOrCancelledCompletes`, `FinalizeEnds`), and
  the fairness part of the refinements.
* The refinement of `MpiOrder` by `Ch3Pt2Pt` (`ImplementsMpiOrder`, in `Ch3Order`): its mapping
  filters the queues and the packets with `SelectSeq`, a recursive definition.
* What is left of `NothingLost` of `SockVC` where process 1 has a third process to wait for:
  the other connection may then be accepted late, and the invariant of the proofs is not true.
* k-means: its sums are recursive functions, and what they compute for every
  number of points needs induction over data, which the provers at hand cannot do.

## 5. What could come next

The refinement of `MpiPt2Pt`, the layer the MPI programs are modelled on, by `Ch3Pt2Pt`;
the connections that `MPI_Comm_connect` and `accept` open and the failure of a
process in `SockVC`, which would reach `INACTIVE_CLOSED` and the other ends of the
close protocol.
