----------------------------- MODULE MCScheduler -----------------------------
(***************************************************************************)
(* Properties of Scheduler and the small instance they are checked on.     *)
(***************************************************************************)
EXTENDS Scheduler

SomeDelays == {-1, 0, 1, 3}

Pending == UNION {ToSet(list[o]) : o \in Object}

Transaction == [obj : Object, date : 0..MaxDate, posted : 0..MaxDate]

TypeOK == /\ now \in 0..MaxDate
          /\ list \in [Object -> Seq(Transaction)]
          /\ DOMAIN table \subseteq 0..Pages-1
          /\ count \in Nat
          /\ missed \in Nat
          /\ events \in Seq([trans : Transaction, detected : BOOLEAN])
          /\ pc \in {"idle", "loop", "patterns", "update", "execute", "exit"}
          /\ until \in 0..MaxDate
          /\ next \in 0..MaxDate \cup {NoDate}
          /\ posts \in 0..MaxPosts /\ runs \in 0..MaxRuns

(***************************************************************************)
(* An object's list is in strictly decreasing date order, so its HEAD,     *)
(* the only one HasYoungerTransactionAlreadyPosted looks at, is the        *)
(* latest.                                                                 *)
(***************************************************************************)
ListsDescend ==
    \A o \in Object : \A i, j \in DOMAIN list[o] : i < j => list[o][i].date > list[o][j].date

(***************************************************************************)
(* The two indexes hold the same transactions, each in the chain of its    *)
(* own date, and TransactionCount counts them: RemoveTransaction and       *)
(* GetTransactions update both, at different ends.                         *)
(***************************************************************************)
TableAgrees ==
    /\ InTable(table) = Pending
    /\ count = Cardinality(Pending)
    /\ \A p \in DOMAIN table, b \in 0..Buckets-1 : \A chain \in table[p][b] :
          /\ chain # <<>>
          /\ \A t \in ToSet(chain) :
                /\ Page(t.date) = p /\ Bucket(t.date) = b
                /\ t.date = Head(chain).date
    /\ \A p \in DOMAIN table, b \in 0..Buckets-1 : \A c, d \in table[p][b] :
          Head(c).date = Head(d).date => c = d

(***************************************************************************)
(* Whatever is posted and dropped, at any point of a run, both indexes are  *)
(* well formed and hold the same transactions.                             *)
(***************************************************************************)
Consistent == TypeOK /\ ListsDescend /\ TableAgrees

(***************************************************************************)
(* GetNextDate, which scans buckets, returns the earliest pending date.    *)
(***************************************************************************)
NextDateIsEarliest ==
    IF Pending = {} THEN GetNextDate = NoDate
    ELSE /\ \E t \in Pending : t.date = GetNextDate
         /\ \A t \in Pending : GetNextDate <= t.date

(***************************************************************************)
(* GotoDate never has to report "forgotten transactions in scheduler", and *)
(* RemoveTransaction never meets its exit(6) or exit(7).                   *)
(***************************************************************************)
NothingForgotten == missed = 0 /\ pc # "exit"

(***************************************************************************)
(* The scheduler implements the event queue.                               *)
(***************************************************************************)
EQ == INSTANCE EventQueue WITH pending <- Pending, running <- pc # "idle"

Implements == EQ!Spec

(***************************************************************************)
(* Time advances with each turn of the loop, unless callbacks posted with  *)
(* no delay at the current date: then only what they posted fires.  The    *)
(* return of a run to the date asked for, before or after the last event,  *)
(* fires nothing again.                                                    *)
(***************************************************************************)
TimeAdvances ==
    [][StepTime => \/ now' > now
                   \/ now' = now /\ \A e \in ToSet(events') : e.trans.posted = now]_vars

(***************************************************************************)
(* A run ends, as long as its callbacks do not post for ever: every turn   *)
(* of the loop consumes a transaction.                                     *)
(***************************************************************************)
RunEnds == [](pc # "idle" => <>(pc = "idle"))
=============================================================================
