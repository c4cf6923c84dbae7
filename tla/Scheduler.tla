------------------------------ MODULE Scheduler ------------------------------
(***************************************************************************)
(* The event scheduler of src/sources/scheduler: one list of transactions  *)
(* per object, a two-level table of the same transactions by date, and the *)
(* loop of Scheduler_RunSimulator with the client's three callbacks.       *)
(*                                                                         *)
(* A transaction is the record [obj, date, posted]; its data is the        *)
(* client's and stays abstract.  Whether an update is an event is the      *)
(* client's choice.                                                        *)
(*                                                                         *)
(* A definition named Mutant... is a bug the next definition might have    *)
(* had; no behaviour uses it.                                              *)
(***************************************************************************)
EXTENDS Integers, Sequences, FiniteSets, SequencesExt

CONSTANTS Object,      \* the indices of the registered objects
          Delay,       \* the delays a callback may ask for
          EndDate,     \* the dates a run may be asked to reach
          Pages,       \* entries of the high table, 2^20 in the code
          Buckets,     \* entries of a low table, 2^8
          Grain,       \* consecutive dates that share a bucket, 2^4
          MaxDate,     \* bound of the model: no date beyond
          MaxPosts,    \* bound of the model: calls of AddTransaction
          MaxRuns      \* bound of the model: calls of RunSimulator

Horizon == Pages * Buckets * Grain

ASSUME SizeAssumption == /\ Pages \in Nat \ {0}
                         /\ Buckets \in Nat \ {0}
                         /\ Grain \in Nat \ {0}
                         /\ MaxDate \in Nat /\ MaxPosts \in Nat /\ MaxRuns \in Nat
                         /\ Delay \subseteq Int
                         /\ EndDate \subseteq 0..MaxDate

VARIABLES now,       \* S->Date
          list,      \* the list of each object, HEAD first
          table,     \* the allocated pages: bucket -> set of chains
          count,     \* S->DS.TransactionCount
          missed,    \* what GotoDate reported as forgotten
          events,    \* the detached chain: sequence of [trans, detected]
          pc,        \* where RunSimulator is
          until,     \* its argument
          next,      \* the next date given to the pattern callback
          posts, runs

vars == <<now, list, table, count, missed, events, pc, until, next, posts, runs>>

NoDate == -1

(***************************************************************************)
(* Scheduler_get_date_location: the page and the bucket of a date.  Dates  *)
(* a horizon apart share both.                                             *)
(***************************************************************************)
Page(date) == (date \div (Buckets * Grain)) % Pages
Bucket(date) == (date \div Grain) % Buckets

EmptyPage == [b \in 0..Buckets-1 |-> {}]

Init == /\ now = 0
        /\ list = [o \in Object |-> <<>>]
        /\ table = <<>>
        /\ count = 0
        /\ missed = 0
        /\ events = <<>>
        /\ pc = "idle"
        /\ until = 0
        /\ next = NoDate
        /\ posts = 0
        /\ runs = 0

-----------------------------------------------------------------------------
(***************************************************************************)
(* The table: a bucket is a set of chains, one per date, each a sequence.  *)
(* The code links the chains of a bucket, but searches them by date.       *)
(***************************************************************************)
ChainsAt(tab, date) ==
    IF Page(date) \in DOMAIN tab THEN tab[Page(date)][Bucket(date)] ELSE {}

ChainOf(tab, date) ==
    LET found == {chain \in ChainsAt(tab, date) : Head(chain).date = date}
    IN  IF found = {} THEN <<>> ELSE CHOOSE chain \in found : TRUE

(***************************************************************************)
(* What is left of a list when transactions are unlinked from it.          *)
(***************************************************************************)
Remaining(s, gone) ==
    LET kept[i \in 0..Len(s)] ==
            IF i = 0 THEN <<>>
            ELSE IF s[i] \in gone THEN kept[i - 1] ELSE Append(kept[i - 1], s[i])
    IN  kept[Len(s)]

WithoutTrans(tab, gone) ==
    [p \in DOMAIN tab |->
        [b \in 0..Buckets-1 |-> {Remaining(chain, gone) : chain \in tab[p][b]} \ {<<>>}]]

(***************************************************************************)
(* A new transaction goes to the head of the chain of its date, or starts  *)
(* a chain in its bucket, in a page allocated on demand.                   *)
(***************************************************************************)
WithTrans(tab, t) ==
    LET page == Page(t.date)
        chain == ChainOf(tab, t.date)
        old == IF page \in DOMAIN tab THEN tab[page] ELSE EmptyPage
    IN  [p \in DOMAIN tab \cup {page} |->
            IF p = page
            THEN [old EXCEPT ![Bucket(t.date)] = (@ \ {chain}) \cup {<<t>> \o chain}]
            ELSE tab[p]]

InTable(tab) ==
    UNION {UNION {UNION {ToSet(chain) : chain \in tab[p][b]} : b \in 0..Buckets-1}
              : p \in DOMAIN tab}

MutantStillListed(lists, gone) == lists

Unlisted(lists, gone) == [o \in Object |-> Remaining(lists[o], gone)]

(***************************************************************************)
(* Scheduler_GetNextDate: the least date in the first bucket in use, from  *)
(* the bucket of the current date to the end of the table.                 *)
(***************************************************************************)
InUse ==
    LET Used(i) == /\ i \div Buckets \in DOMAIN table
                   /\ table[i \div Buckets][i % Buckets] # {}
    IN  {i \in Page(now) * Buckets + Bucket(now) .. Pages * Buckets - 1 : Used(i)}

FirstInUse == LET first == Min(InUse) IN table[first \div Buckets][first % Buckets]

MutantHeadChain == IF count = 0 \/ InUse = {} THEN NoDate
                   ELSE Head(CHOOSE chain \in FirstInUse : TRUE).date

GetNextDate ==
    IF count = 0 \/ InUse = {} THEN NoDate
    ELSE Min({Head(chain).date : chain \in FirstInUse})

-----------------------------------------------------------------------------
(***************************************************************************)
(* Scheduler_AddTransaction, called by a callback.  RemoveTransaction      *)
(* calls exit when a transaction it removes is not in the table.           *)
(***************************************************************************)
MutantUnclamped(delay) == now + delay

DateAfter(delay) == now + (IF delay < 0 THEN 0 ELSE delay)

MutantNeverYounger(obj, date) == FALSE

HasYounger(obj, date) == /\ list[obj] # <<>>
                         /\ Head(list[obj]).posted = now
                         /\ Head(list[obj]).date < date

Older(obj, date) == {u \in ToSet(list[obj]) : u.date >= date}

AddTransaction(obj, delay) ==
    LET date == DateAfter(delay)
        gone == Older(obj, date)
        kept == Remaining(list[obj], gone)
        t == [obj |-> obj, date |-> date, posted |-> now]
    IN  /\ posts < MaxPosts
        /\ date <= MaxDate
        /\ posts' = posts + 1
        /\ IF HasYounger(obj, date)
           THEN UNCHANGED <<list, table, count, pc>>
           ELSE /\ pc' = IF gone \subseteq InTable(table) THEN pc ELSE "exit"
                /\ list' = [list EXCEPT ![obj] = <<t>> \o kept]
                /\ table' = WithTrans(WithoutTrans(table, gone), t)
                /\ count' = count - (Len(list[obj]) - Len(kept)) + 1
        /\ UNCHANGED <<now, missed, events, until, next, runs>>

(***************************************************************************)
(* The effect of Scheduler_GotoDate: the pages between the two dates are   *)
(* freed and what they still hold is reported.                             *)
(***************************************************************************)
MutantPassesItsOwnPage(date) == {p \in DOMAIN table : Page(now) <= p /\ p <= Page(date)}

PagesPassed(date) == {p \in DOMAIN table : Page(now) <= p /\ p < Page(date)}

Forgotten(date) == InTable([p \in PagesPassed(date) |-> table[p]])

(***************************************************************************)
(* GotoDate and then GetTransactions: the chain of the date is detached    *)
(* from the table and from the lists of its objects.                       *)
(***************************************************************************)
MutantNotDetached(date) ==
    LET chain == ChainOf(table, date)
    IN  /\ now' = date
        /\ events' = [i \in DOMAIN chain |-> [trans |-> chain[i], detected |-> FALSE]]
        /\ UNCHANGED <<list, table, count, missed>>

Advance(date) ==
    LET lost == Forgotten(date)
        left == [p \in DOMAIN table \ PagesPassed(date) |-> table[p]]
        chain == ChainOf(left, date)
        fired == ToSet(chain)
    IN  /\ now' = date
        /\ missed' = missed + Cardinality(lost)
        /\ table' = WithoutTrans(left, fired)
        /\ list' = Unlisted(list, lost \cup fired)
        /\ count' = count - Cardinality(lost) - Len(chain)
        /\ events' = [i \in DOMAIN chain |-> [trans |-> chain[i], detected |-> FALSE]]

(***************************************************************************)
(* Scheduler_RunSimulator.                                                 *)
(***************************************************************************)
Run == /\ pc = "idle" /\ runs < MaxRuns
       /\ runs' = runs + 1
       /\ until' \in EndDate
       /\ pc' = "loop"
       /\ UNCHANGED <<now, list, table, count, missed, events, next, posts>>

Collect == /\ pc = "loop" /\ now < until
           /\ next' = GetNextDate
           /\ pc' = "patterns"
           /\ UNCHANGED <<now, list, table, count, missed, events, until, posts, runs>>

(***************************************************************************)
(* The pattern callback posts for the dates up to the next one known.      *)
(***************************************************************************)
Pattern(obj, delay) == /\ pc = "patterns"
                       /\ delay >= 0
                       /\ next = NoDate \/ now + delay <= next
                       /\ AddTransaction(obj, delay)

StepTime == /\ pc = "patterns" /\ GetNextDate # NoDate
            /\ Advance(GetNextDate)
            /\ pc' = "update"
            /\ UNCHANGED <<until, next, posts, runs>>

(***************************************************************************)
(* The update callback sees every fired transaction before any propagates. *)
(***************************************************************************)
Update == /\ pc = "update"
          /\ \E changed \in SUBSET DOMAIN events :
                events' = [i \in DOMAIN events |->
                              [events[i] EXCEPT !.detected = i \in changed]]
          /\ pc' = "execute"
          /\ UNCHANGED <<now, list, table, count, missed, until, next, posts, runs>>

(***************************************************************************)
(* The execute callback of a detected event posts for the objects it       *)
(* drives.                                                                 *)
(***************************************************************************)
Execute(obj, delay) == /\ pc = "execute"
                       /\ events # <<>> /\ Head(events).detected
                       /\ AddTransaction(obj, delay)

NextEvent == /\ pc = "execute" /\ events # <<>>
             /\ events' = Tail(events)
             /\ UNCHANGED <<now, list, table, count, missed, pc, until, next, posts, runs>>

Again == /\ pc = "execute" /\ events = <<>>
         /\ pc' = "loop"
         /\ UNCHANGED <<now, list, table, count, missed, events, until, next, posts, runs>>

(***************************************************************************)
(* Both ways out of the loop end with S->Date=Date.                        *)
(***************************************************************************)
Stop == /\ \/ pc = "loop" /\ now >= until
           \/ pc = "patterns" /\ GetNextDate = NoDate
        /\ now' = until
        /\ pc' = "idle"
        /\ UNCHANGED <<list, table, count, missed, events, until, next, posts, runs>>

Next == \/ Run \/ Collect \/ StepTime \/ Update \/ NextEvent \/ Again \/ Stop
        \/ \E obj \in Object, delay \in Delay : Pattern(obj, delay) \/ Execute(obj, delay)

Spec == Init /\ [][Next]_vars

FairSpec == Spec /\ WF_vars(Next)
=============================================================================
