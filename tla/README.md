# Formal models of TAS / YAGLE

TLA+ models of the parts of this repository whose correctness depends on the
order of events: the event scheduler of the simulator, the Monte-Carlo job farm
with its communication layer, its remote files and its report, the list of
child processes, the caches of interconnect and delays, and the fixpoint of the
stability analysis.  Each module is translated from the source; `PROJECT.json`
gives for every definition the lines it stands for.  TLC checks small instances
(`MC*.cfg`), TLAPS proves theorems for all values of the constants
(`*Proofs.tla`).

## Inventory of the system

TAS (static timing analysis) and YAGLE (transistor netlist abstraction) are two
tools over one set of C libraries, driven from a Tcl shell (`avt_shell`).

| component | state it keeps | operations | hard behaviour | what makes it correct |
|---|---|---|---|---|
| scheduler (`scheduler/`) | date, transactions by date and by object | add, next date, goto, run | callbacks that post while events are walked; wrapping date table | no transaction lost, late or doubled; time in order; runs end |
| communication (`mbk/mbk_comm.c`) | slots of connected slaves | accept, receive, read an event, answer | packets of several processes interleave; slaves die | an event is read once, by its job |
| job farm (`api/mbk/mbk_API.c`) | execs, counters, data file, flags, remote files | launch, wait, dispatch, serve | deaths at any step, answers to the dead, a FILE left in an exec | every job ends once, every result is kept, each job writes its own file, the farm ends |
| job script and report (`src/tcl/ssta_ToolBox.tcl`) | the list of results | ask, inform, post; load, select, analyse | runs in the slaves; results without delays | a result is analysed with its own delays |
| store of runs (`tas/ttv/ttv_ssta.c`) | runs, those in memory, the selected one | send, load, select, read, statistics | eviction, failed reads, ignored answers | each run counted once, memory bounded |
| child processes (`mbk/mbk_sys.c`) | list of children, free cells | register, wait, SIGCHLD | signal handler against main program; pids used again | no child lost, no status stolen, no cell lost |
| element cache (`mbk/mbk_cache.c`) | LRU list, locks, size | refresh, lock, release, resize | eviction by a reentrant callback | size agrees with content, nothing in use evicted |
| interconnect cache (`mbk/rcn_cache.c`) | loaded flags, shared couplings | refresh, lock, flush | couplings owned by two signals, a static memo | an accessed signal is loaded, a coupling is there once |
| delay cache (`tas/trc/trc_delay.c`) | delays per signal | find, store, remove by mode | lists edited under the cache | the cache's size covers its content |
| stability analysis (`tas/stb`) | windows by node and phase, marks | transfer, mask, pass | convergence, nodes left out, order of the nodes | the windows are a fixpoint and those the timing arcs give; passes end |
| netlist database (`mbk/mbk_lo*.c`, `mbk_util.c`) | netlists, hash tables, heaps | build, find | sequential | data structure invariants |
| kernel (`avt/`) | variables, messages | get, set, report | FATAL ends the program | - |
| `bdd`, `eqt` | nodes, expressions | apply, evaluate | sequential, recursive | canonical form |
| cone netlists (`cbh`, `cns`, `inf`, `efg`, `elp`, `gsp`), `yagle/` | graphs | transform, match | large sequential algorithms | - |
| `tas/tas`, the rest of `tas/ttv` | timing paths | search | - | - |
| models and formats (`stm`, `mcc`, `lib`, `tlf`, `mbkspice`, ...) | - | characterise, parse, drive | numerical or textual | - |
| pavo | cones and their values | the scheduler's three callbacks | zero-delay loops | - |

How they interact: `pavo` registers cones with the scheduler, whose
`RunSimulator` calls it back to collect patterns, update values and evaluate
cones; the callbacks post transactions.  A Tcl script that calls `runStatHiTas`
becomes the master of a farm: it starts one process per job, each of which is
the same program with a connection string as its last argument; the master is
one `select` loop over sockets, and registers each child to be acknowledged by
the SIGCHLD handler.  A job sends the timing figure and its delays as files
through the master; a later process loads them and gives `ttv` and `stb` the
delays of one run after the other.  The timing engine reads RC networks through
the interconnect cache, and delays through the delay cache; both are clients of
the element cache.  Every library reports errors through `avt_errmsg`, and a
FATAL one ends the process: the models keep that as a final state.

## Modules

| module | models | extends or instantiates |
|---|---|---|
| `EventQueue` | what the scheduler promises: a set of pending transactions and a date | |
| `MCEventQueue` | instance of the abstract scheduler | `EventQueue` |
| `Scheduler` | `Scheduler_transactions.c`, `Scheduler_simulator.c` | |
| `MCScheduler` | properties, instance, refinement to `EventQueue` | `Scheduler`, instance of `EventQueue` |
| `JobPool` | what the farm promises: jobs launched once, ended once, so many at a time | |
| `MbkComm` | the slots of `mbk_comm.c` and the packets that feed them | |
| `JobFarm` | `runStatHiTas_sub` and the slaves | `MbkComm` |
| `MCJobFarm` | properties, instances, refinement to `JobPool` | `JobFarm`, instance of `JobPool` |
| `FarmFiles` | flags and remote files of `handle_slave_data`, and the slaves that use them | |
| `SstaStore` | the report: `ttv_ssta.c` reading the files back | `FarmFiles` |
| `MCSsta` | properties of the store and the report | `SstaStore` |
| `ChildPool` | the list of children of `mbk_sys.c`, with its properties | |
| `MbkCache` | operators of `mbk_cache.c` on a cache | |
| `RcnCache` | operators of `rcn_cache.c`, and loading of a signal | `MbkCache` |
| `DelayCache` | operators of the delay cache of `trc_delay.c` | `MbkCache` |
| `TrcLoad` | the clients: accesses, `rcx_rcnload`, crosstalk analysis | `RcnCache`, `DelayCache` |
| `MCTrcLoad` | properties and instances of the caches | `TrcLoad` |
| `StbPair` | lists of windows and the clock mask of `stb_transfer.c` | |
| `StbRelaxation` | `stb_relaxation.c`, the transfer of a node, `ttv_levelise` | `StbPair` |
| `MCStbRelaxation` | properties and circuits | `StbRelaxation` |
| `EventQueueProofs`, `SchedulerProofs`, `JobFarmProofs`, `ChildPoolProofs`, `StbProofs`, `SstaProofs`, `TrcLoadProofs` | theorems | the modules they name and TLAPS |

A definition named `Mutant...` is a bug the next definition might have had.  No
behaviour of the models uses it; substituting it shows which property notices.

### Scheduler

`list` is the `HEAD`/`ObjectNext` list of each object, `table` the allocated
pages of `HIGH_OFFSET_Table` (page, bucket, chains by date), `count` the
`TransactionCount`.  A bucket is the set of its chains, as the order of chains
of different dates in a bucket does not show.  The loop of `RunSimulator` is cut where it calls back:
`Collect`, `Pattern` (any number of posts), `StepTime` (the second
`GetNextDate`, `GotoDate` and `GetTransactions`), `Update`, `Execute` (any
number of posts) and `NextEvent`.  The doubly linked lists are sequences: what
a missed link would do shows as a difference of the two indexes.  Sizes of the
table are constants (2^20 pages of 2^8 buckets of 2^4 dates in the code).

`EventQueue` forgets the table: a post is ignored, or withdraws the object's
transactions of the same date or later; time jumps to the earliest date.

### Job farm

`slot` is `comdata->tabslot`, `chan` the packets a slave has sent and the
master has not received, `backlog` the connections not accepted.  One step of
the master is one call of `recv`, `accept` or `select`, or one dispatch; the
slaves move between any two.  A message is a header and a body packet, so that
other slaves' packets, and deaths, come between them.  A slave may die at any
step named in `Faults`; its connection is then closed, or reset when an answer
it had not read was pending.  Undefined behaviour is a choice: `ScanClosed`
(`FD_ISSET` of descriptor -1) and `StrayEvent` (the variable `event` that
`mbk_commputdata` tests and never sets).

`JobPool` is a launch counter, the active jobs and the ended ones; it is only the
specification that `Implements` refers to.

### Remote files and the report

`FarmFiles` starts where `JobFarm` stops: a request and its answer are one step,
as the slave waits and the master serves one request at a time.  `mutex` is the
list of flags, `myfile` the FILE in each exec, `disk` who wrote each piece of
each file.  A slave sends the figure (`mbk_comm_send_text_file`, whose flag is
never given back) and its delays (`ttv_sendttvdelays`), then its result; it may
die at any step, its exec goes to the next job as it is, and `fclose` may lose
the last piece when the disk is full, which nobody learns.  The write goes where
the FILE of the exec stands, whatever the slave thinks: that it is the slave's
own file is a property.

`SstaStore` is another process, started when the farm is done.  `ore` is the
table of runs, `cur_run` the selected one.  `Mean` and `Variance` are the two
loops of `ttv_ssta_buildlinestat`, one step for each turn; the sums are kept as
how often each run is in them.  `CheckLoaded` reads and evicts; `FindPath` and
`Stability` are the two kinds of analysis, and differ in that only the first
makes sure that the run is in memory.  A second report frees pointers that were
never assigned: what happens then is a choice.

### Children

`ChildPool` has the program at one line of `mbksetautoackchld` or `mbkwaitpid`,
and the handler at one cell of its walk; the handler runs at any line where
SIGCHLD is pending and not blocked, and the program does not run meanwhile.
Reading a list head and writing it are two steps, so that a handler between
them would show.  The kernel keeps a child that ended until it is asked for,
then may give its pid to another.

### Caches

A cache is a record: `lru` is the list from `FIRST` to `LAST`, `locks` the
`LOCKED` counts, `size` is `CURSIZE`.  Eviction is a closed form of the loop of
`mbk_cache_update_memory`: the fewest unlocked elements from the `LAST` end
that bring the size below the maximum, or all of them; `Unlink` is what a list
is without them.  The callbacks that load
and release differ: `RcnCache` releases wires, and couplings when neither end
is loaded any more; `DelayCache` releases a list of chains.  Both are operators
on a record because clients call several functions in one step (`View` is a
flush and a refresh, `Compute` a refresh and a lock in each cache).

`TrcLoad` is the sequential program around them.  `rcx_rcnload` is `Found`, or
`Compute` and `Finish`: between these two the signal is locked in both caches
while others are accessed (`Touch`) or locked (`Hold`, `Drop`).  `View` is a
command that flushes a signal and refreshes it, run where nothing is locked; the
flushes that no refresh follows (`trc_rcx.c:1053`, `tas_util.c:1585`, the end of
a cache) are left out.  A delay is known by its crosstalk mode and its pin.  `BeginCrosstalk`, `FlushDelays` and
`EndCrosstalk` are what `stb_ctk` does to the delay cache; `Toggle` is
`ttv_RecomputeLineChain`, which changes the mode outside the analysis.

### Stability analysis

A node is an edge of a signal, a window a pair of dates, and a signal has a
list of windows for each phase, the clock edge its data left from.  `StbPair`
has the list operations of `stb_transfer.c`.  Merging is written as what it
does, the windows between the place before and the place after are fused, and
keeps the crash of the code: when the places are in the wrong order, the code
walks off the list.  `ClockMask` is `stb_clockmaskstblist` for latches and
flip-flops in the default phase.

`StbRelaxation` visits the nodes of a pass one by one, in the order of
`ttv_levelise`, which is depth first and puts a node before its input when that
closes a loop.  `Transfer` is `stb_transferstbnode` with all its arcs, `Skip`
the early return of a node whose inputs are all marked.

## Runs

| run | instance | shows |
|---|---|---|
| `event_queue` | 2 objects, delays -1 to 4, dates up to 7, 2 runs | nothing in the past, preemption in the order of posts |
| `scheduler` | 2 objects, 2 pages x 2 buckets x 2 dates, 5 posts, 2 runs | both indexes agree, next date earliest, nothing forgotten, time advances, refinement, termination |
| `job_farm` | 3 jobs, 2 slots, one message of each kind, all deaths | no protocol error, ownership of slots, accounting, results, no wait for nobody, refinement |
| `farm_live` | 3 jobs, 2 slots, deaths of running slaves | every run ends, and a slave that asks is answered |
| `farm_early` | 2 jobs, deaths before the begin is complete | the master may wait for ever (finding) |
| `child_pool` | 4 pids, 3 cells | cells, pids, statuses and ends of children; each is acknowledged |
| `ssta` | 3 jobs, 2 execs, files in 2 pieces, a disk that fills, room for 1 run | own files, stored results, one figure, statistics, values of the selected run, memory |
| `ssta_mean` | 3 jobs, deaths, room for 2 runs | a run without delays falsifies the statistics (finding) |
| `caches` | 3 signals in a chain of 2 couplings, 2 pins, 1 lock of a client | parasitics and couplings once, sizes, locks respected except after a flush of the last accessed, oldest released first, room made, nothing kept after a flush |
| `caches_held` | the same | a lock that locks nothing (finding) |
| `stability` | 6 nodes, 2 phases, 5 shapes, every placing of one slow arc, latches and flip-flops, options | fixpoint, exact windows, the passes end, idle skips, crash only after late data |
| `stb_stale` | the accumulator shape | a gate visited before its input, in a loop through a clocked node, keeps old windows (finding) |

Bounds.  Two objects are enough for the scheduler: its lists are per object,
and an object meets another one only in a chain of one date, which two already
form.  A table of two pages, two buckets and two dates per bucket has every
boundary of the real one (same date, same bucket, next bucket, next page), and
dates stay within one horizon.  `MaxPosts` and `MaxRuns` bound the exploration
only.  For the farm, three jobs on two slots reuse a slot and an exec while
another job is active; one message before the result lets each kind of message
race the others.

Three jobs on two execs make one exec serve two jobs, which is what a FILE left
behind needs; two pieces are a write before and a write at the end of a file.
With room for one run of three, every turn of the statistics evicts; in
`ssta_mean` there is room for two.  `MaxCached` bounds the counter of reads and
`MaxLoads` the reports of one process.

Four pids and three cells let the cells run out while a pid is used again: a
child registered, one being registered, one waited for and one that ended.

For the caches, three signals of which one is coupled to the two others give
every order of loading and releasing a shared coupling.  The two others are
interchangeable (`MCSymmetry`; every property treats all signals alike).  The maxima hold one
signal and a half of the interconnect cache, and two or three of the delay
cache, so that almost every access releases something; one client's lock and
the lock of the delay being computed are on one signal or on two.  Two changes
of mode outside the analysis make the list that mixes both modes in the order
that matters.

Circuits have an input, an output, two clocked nodes and two gates, in a
pipeline with a bypass, a loop of two stages, a stage that feeds itself, and
an accumulator; the two clocked nodes are latches or flip-flops of either
phase, one arc may be slow, the input has one window or two.  A fifth shape is
a ring of three stages that no connector feeds, the third a flip-flop: there a
flip-flop may lose its data after the first pass, and the bound of
`PassesBounded` is reached.  No circuit needs more than `MaxPass` passes: in
`EndingSpec` only `done` and `crashed` may stay for ever, and TLC, which looks
for deadlocks, would report a pass it may not follow.

Fairness.  `RunEnds` assumes that the sequential loop goes on, and that its
callbacks stop posting, which `MaxPosts` stands for.  `AllRunsDone` and
`Answered` assume weak fairness of the master's loop, which blocks only in
`select`, and of each slave process, which the operating system runs; a death is
never forced.  They are checked with `StrayEvent` FALSE, because a master
that dies answers nobody, and for deaths of running slaves only: a death before
the begin is `farm_early`, and one while an answer is awaited is FATAL in the
code.  `AllAcknowledged` assumes that the program leaves `mbksetautoackchld`
and the handler returns (weak fairness), and that a signal pending when it is
unblocked is delivered (strong fairness of `Handle`: the program may block the
signal again and again, and `sigprocmask` delivers it before it returns).  That
a child ends is never assumed.

Findings.  `farm_early`: a slave that dies before its begin message is complete
is never counted.  `ssta_mean`: the statistics count a run twice for every run
they could not read, because the answer of `ttv_ssta_set_run_number` is not
looked at.  `stb_stale`: the relaxation stops when no clocked node changes, and
a gate visited before its input, because a loop that passes through a clocked
node was closed there, keeps old windows.  `caches_held`: `rcn_flush_signal`
does not clear `lastlosig`; a command that flushes the signal refreshed last and
refreshes it (`avt_ViewSignal`) leaves it out of memory, and a lock that
follows locks nothing.  `LocksProtect` of the run `caches` is what remains true:
nothing else in the model makes a lock fail.  The history variable `unread` says for which
signals this has happened.

Also seen while modelling, and kept in the models: page numbers of the
scheduler wrap after 2^32 dates; removing delays of one mode loses
others, and the size of the delay cache stays too large (`SizesAgree` says what
remains true, and does not catch it); a latch with an early and a late window
does not switch at its opening (`Exact` does not ask for it); the stability analysis of a run that is not in memory sees the
figure's own delays.  `PROJECT.json` has them among the hazards.

## Proofs

Every theorem holds for all values of the constants that satisfy the named
assumptions of the modules; the hypotheses two groups of theorems add are given
with them.

### Scheduler

`EventQueueProofs` proves for every set of objects, delays and end dates that
nothing pending is in the past, that an object has one transaction at a date,
and that in the first run transactions are in the order of their posts.  The
last needs more than itself: a post date is never later than now, and the
post that counts finds the object's latest transaction, so that every other
pending one is earlier than it.

`SchedulerProofs` proves `Consistent` for every table size, every delay and
every set of dates.  `Indexed` is its inductive form: each list descends in its
dates, so that it has no transaction twice; each chain of the table has one
date, which is the one of its page and bucket; both hold the same
transactions.  The lemmas under it say what `Remaining` keeps, what
`WithTrans` and `WithoutTrans` do to the set of transactions of a table, and
that a date is found again from its page, its bucket and its chain.  For the
dates themselves the table must not wrap: `SchedulerNextDate`,
`SchedulerForgetsNothing` and the refinement `SchedulerImplements` assume
`MaxDate < Horizon`, which in the code is the 2^32 dates of the table (a hazard
says what happens beyond).  `Timely` then adds that nothing pending is earlier
than now, the walk from the bucket of now to the first bucket in use finds
nothing later than the earliest date because pages and buckets grow with dates,
and the pages freed by `GotoDate` are those before the one of now.  A step of
`Scheduler` is then a step of `EventQueue`, or leaves its state.

`SchedulerTimeAdvances` says that a turn of the loop moves time forward or fires
only what callbacks posted at that very date with no delay: a pending
transaction is at least as late as now, and the ones at now were posted now
(`Ahead`).  A run that returns sets the date back or forth to the end asked for,
which keeps this.  `RunsShorten` is what of `RunEnds` needs no fairness, for every
size of the table and whatever the dates: each step of a run but its last
decreases, lexicographically, the posts left to the callbacks, the pending
transactions and the stage of the loop with the events not yet handled.

### Job farm

`JobFarmProofs` proves, for any number of jobs and slots and whatever the slaves
send, that launched jobs are those done and those of busy execs, and that the
farm implements the pool.  A lemma first sums up every step as a launch, a
start, an end or none for the execs; `Execs`, that no two execs have one job and
none has a job that ended, is the invariant under it.

The protocol needs more, and `Inv` has it.  `Streams`: what a connection
carries is what its reader awaits, each packet one that may follow the one
before, so that what `mbk_commputdata` receives never surprises it, whatever
order it serves the slots in.  `Owned`: a slot that is not free has a job of
its own, in a busy exec whose state follows from the slot's, and no connection
waits for a job that has a slot.  `Events`: an event is handled before the next
one is looked for.  `Room`: connections that wait, slots in use and slaves that
have not connected are together no more than the busy execs, so that
`handleincomingconnection` finds a slot.  `Results`: a result is in the
connection, in the slot or in the file, and before the end of its job.  Each
kind of step of a slave or of the master keeps each part by a lemma of its own.
From `Inv` follow that there is no protocol error, that slots suffice, that
slots have owners, and that a job which ended has its result in the file once.

`NobodyIsStuck` is the absence of deadlock between the master and its slaves,
the part of `Answered` and `AllRunsDone` that needs no fairness.  `Wakes` says of
each job what may still reach the master: a busy exec that runs has a connection
or a slot, and one that waits for its begin also a slave that is about to
connect or that is dead (`Expected`); an ended or dead slave has cut its
connection with its last packet, and nobody else has (`Cut`); the question of a
slave without an answer is the last packet of its connection or the event of its
slot (`Asked`).  A step touches one job and leaves all that `Wakes` says of the
others as it is, which one lemma uses for every action.  In `select`, with
nothing to accept or receive, no connection holds a packet; so no slave that has
one is over, and none awaits an answer.  That the exception is needed is the
finding of `farm_early`: a slave dead before its begin event is one the master
waits for.

`SstaProofs` proves, for any number of runs, execs and pieces of a file, whichever
slaves die and whichever files cannot be created or closed, the three
properties of the files and `ValuesOfRun`.  `Placed` says that a running job has
one exec and a busy exec one running job, so that no other job's request can
change the `FILE` a job has put in its exec.  `Stores` follows a file from its
first piece to its last and adds that a slave's own flag is never held before it
asks for it: it is named after its seeds, so it always sends its file.  `Sent`
is about the flag of the figure, which no slave gives back: once a job that can
send the figure is past it, the flag is held, one job has sent the figure or is
at it, and no other writes there.  A report starts when every slave is gone, so
the files no longer change: `Runs` says that a run without error is the one of
its row in the data file, and a run marked as read was read whole.

For the memory of a report, a lemma says that the walk of `ttv_AddCache` always
finds a run to drop when the room is taken, because `Memory` counts the runs in
memory; `WithinLimit` follows.  For the statistics, `Sums` says which turns
each of the two loops has made, and that a run that can be read is in the sums
of its turns; `StatsCover` follows when both have ended.

### Children

`ChildPoolProofs` proves the four invariants of the list for any set of pids and
any number of cells.  They are not inductive: the invariant adds that SIGCHLD is
blocked from `Block` to `Unblock`, that the handler does not run then, so that
what the program has read of the list is still the list, that the cells the
handler has to see are registered ones, and that a child waited for is not
registered.

### Caches

`TrcLoadProofs` proves every property of the run `caches` for any signals,
couplings, pins, sizes and limits.  `NetOk` is the invariant of the
interconnect cache: the loaded signals are those of the list, and couplings and
size are functions of the loaded signals.  The second is why releases in any
order subtract what was added: the sum over the couplings that a release
deletes is the difference of two cardinalities.  The size of the delay cache is
only bounded from below, by the sum over the signals of the sizes of their
lists; `DelaysInv` has that, and what the lists may hold in each mode.
`SumFunctionOnSet` is a recursive function, so the lemmas on sums (a sum exists,
does not depend on the order, splits, grows) come first, by induction on
finite sets from the well-founded order of cardinalities; so does what `Unlink`
returns and in which order.

No theorem restricts which signal a command flushes.  `LocksHeld` says that
the locks of a signal are never more than those of its clients and of the delay
being computed, and exactly those where the signal is not in `unread`; such a
signal, if it was accessed last, is also in memory, so that the refresh before
a lock does nothing only where there is nothing to do.  `Order` says that the
list is in the order of the accesses, and that the signal of `lastlosig`, which
is not moved when it is accessed again, is first in it if it is in memory; then
what an eviction takes from the end is older than all that stays unlocked.
`RcnAssumption` says that `NoSignal`, the null `lastlosig`, is no signal.

### Stability analysis

`StbProofs` proves for every circuit, clocks and options that
`stb_event_at_input` leaves out no node that would change, and that the
relaxation, when it ends on nodes that come after their inputs, leaves no stale
window (`Converged`).  The invariant behind both: a node that would change has
an input that is not marked and that it will see, either later in this pass or,
when the input comes after it, in the next one, which is certain since that
input is a latch that changed and was counted.  A lemma says that what a node
computes depends on the windows of its inputs only; from it a transfer makes
stale the nodes it feeds and no other.

It proves two more properties of the windows themselves.  `InvertedByLateData`:
from windows in order, `stb_mergestbpairlist` meets no NULL, and the only
windows out of order that a transfer can give are those of a latch whose data
all comes before its opening or after its closing, and only when the lists are
kept, never with one window for each phase.  `Exact`: when the relaxation ends,
the windows have the dates of the data, cut and extended by the opening of a
latch.  It is `Converged`, by which the windows of a node are those its transfer
gives from the last windows of its inputs, and what a transfer gives.  The
latter is an algebra of lists, one lemma for each function of
`stb_transfer.c`: neat lists (each window ends before the next begins) stay
neat and get the union of the dates when a window is put into a list, lists are
merged, windows are moved by a delay and fused, the opening of a latch is cut
and one window is made of all.  The lists are gone through by folds; the fold of
the community modules is a recursive function of sets, whose existence is
proved here (`FoldExists`), and which takes the values of a run of the steps
(`FoldSteps`), so that induction on the steps is induction from 0 to n about a
set.

How many passes there are is `PassesBounded`: nothing in the code bounds them,
but on nodes that come after their inputs they end if every loop goes through a
flip-flop.  The window of a flip-flop is one edge or none, whatever the date of
its data, so that a pass changes it in one way only: it loses the data it was
given before the first pass.  That it never gets data again is `Flow`
(`DataDrains`): where a node has none, its transfer gives none, because that
is so of all its inputs; in the first pass it is so of the nodes visited, and
the clocked nodes not yet visited have the window `stb_initstbnode` gives them.  The
bound is then a count.  Let S be flip-flops that break every loop, and a depth
be given to each node that is at least that of its inputs outside S, and
greater than that of the inputs that come after it.  `Paced` says that there is
an a with `i <= Lost(S) * (R + 1) + a`, where R is the greatest depth, such that
the nodes less deep than a are settled, and of those as deep the ones visited
(`Reached`).  A pass in which no flip-flop of S changes settles one depth more;
one that loses its data sets a back and adds one to `Lost`.  When all depths are
settled no pass follows.

`RelaxationAssumption` says of a circuit that `Levelise` puts each node once
(`ttv_levelise` is recursive, so TLC evaluates that on the circuits of the
instance), and `CircuitOK` what an analysis is given: dates are integers; the
least delay of an arc is no more than the largest, which
`stb_transfer.c:1617-1622` makes sure of by swapping them; the earliest date of
an edge of a command is no later than its latest, being the minimum and the
maximum over the paths of the clock (the proofs use it of the edge that triggers
a flip-flop); the windows given are in order, as `stb_init.c:2456-2460` merges them,
and only nodes that are not clocked have some.  That leaves out the input
specifications on clocked nodes, which `stb_initstbnode` also takes.

### What stays with TLC

Liveness, which needs fairness: `RunEnds`, `AllRunsDone`, `Answered` and
`AllAcknowledged`.  Theorems have what they rest on besides: `RunsShorten` for
the first, `NobodyIsStuck` for the next two, `EndsAreSeen` for the last.  Every
invariant and every action property of the passing runs is stated by a theorem.

One theorem states what no run checks: an object has one transaction at a date
(`NeverTwoAtOnce`).

What no property says: a bound for the passes around a loop of latches.  There
is none that the circuit gives, because a window may move by the slack of the
loop in each pass, and the code expects it (message 048 of `stb_errmsg.xml`,
"very slow stability convergence or infinite loop").  On the circuits of the
instance they end within `MaxPass` passes.

## Plan

1. Stability: precharged nodes, several clocks on a latch, the windows of
   aggressors and the loop of `stb_ctk` around the relaxation.
2. The rest of the caches: AWE entries of the delay cache, several lofigs in
   one pool of the interconnect cache, the file cache of `mbk_cache.c`.
3. Hash table and heap of `mbk_util.c`, BDD operations; `ComKey`: keys of tokens
   and checks.
4. Proofs: a bound on the passes around loops of latches, from the delays and
   the slack of the loop, when each phase has one window.

## Not modelled

Parsers and drivers (layout of text), device models and delay computation
(floating point), graphical tools, and the large sequential algorithms of yagle
and tas, whose correctness does not lie in the order of events.  They are most
of the repository's lines, so that the share of it the models stand for is
small.
