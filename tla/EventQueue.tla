----------------------------- MODULE EventQueue -----------------------------
(***************************************************************************)
(* What the event scheduler of the simulator (src/sources/scheduler)       *)
(* promises its client, with no buckets, chains or callbacks: a set of     *)
(* pending transactions and a current date.  Module Scheduler is shown to  *)
(* implement it.  A definition named Mutant... is a bug the next           *)
(* definition might have had; no behaviour uses it.                        *)
(***************************************************************************)
EXTENDS Integers

CONSTANTS Object,      \* the indices of the registered objects
          Delay,       \* the delays a client may ask for; negative ones count as 0
          EndDate      \* the dates a client may ask a run to reach

ASSUME DateAssumption == Delay \subseteq Int /\ EndDate \subseteq Nat

VARIABLES now,         \* S->Date
          pending,     \* the transactions posted and neither fired nor withdrawn
          running,     \* TRUE while Scheduler_RunSimulator is active
          runs         \* how many times the client has called it

vars == <<now, pending, running, runs>>

Transaction == [obj : Object, date : Nat, posted : Nat]

Init == /\ now = 0
        /\ pending = {}
        /\ running = FALSE
        /\ runs = 0

(***************************************************************************)
(* A date asked for is relative to the current one and never in the past.  *)
(***************************************************************************)
DateAfter(delay) == now + (IF delay < 0 THEN 0 ELSE delay)

Of(obj) == {t \in pending : t.obj = obj}

(***************************************************************************)
(* The transaction of obj that the code finds at the head of its list: the *)
(* one with the latest date.                                               *)
(***************************************************************************)
IsLatest(t) == \A u \in Of(t.obj) : u.date <= t.date

(***************************************************************************)
(* A post is ignored when obj already has, as its latest transaction, one  *)
(* posted at this very date for an earlier one.                            *)
(***************************************************************************)
MutantNeverPreempted(obj, date) == FALSE

Preempted(obj, date) ==
    \E t \in Of(obj) : IsLatest(t) /\ t.posted = now /\ t.date < date

Start == /\ ~running
         /\ running' = TRUE
         /\ runs' = runs + 1
         /\ UNCHANGED <<now, pending>>

Ignore(obj, delay) == /\ running
                      /\ Preempted(obj, DateAfter(delay))
                      /\ UNCHANGED vars

(***************************************************************************)
(* A post that counts withdraws every transaction of the object due at the *)
(* same date or later.                                                     *)
(***************************************************************************)
Post(obj, delay) ==
    LET date == DateAfter(delay)
    IN  /\ running
        /\ ~Preempted(obj, date)
        /\ pending' = {t \in pending : t.obj # obj \/ t.date < date}
                        \cup {[obj |-> obj, date |-> date, posted |-> now]}
        /\ UNCHANGED <<now, running, runs>>

(***************************************************************************)
(* Time jumps to the earliest pending date, and everything due then fires. *)
(***************************************************************************)
MutantFireAny == /\ running
                 /\ \E t \in pending : /\ now' = t.date
                                       /\ pending' = pending \ {t}
                 /\ UNCHANGED <<running, runs>>

Fire == /\ running
        /\ \E t \in pending :
              /\ \A u \in pending : t.date <= u.date
              /\ now' = t.date
              /\ pending' = {u \in pending : u.date # t.date}
        /\ UNCHANGED <<running, runs>>

(***************************************************************************)
(* A run ends at the date it was asked to reach, with nothing left before  *)
(* that date.  The last event fired may be later: then time moves back.    *)
(***************************************************************************)
Finish == /\ running
          /\ \E until \in EndDate : /\ now' = until
                                    /\ \A t \in pending : until <= t.date
          /\ running' = FALSE
          /\ UNCHANGED <<pending, runs>>

Next == \/ Start \/ Fire \/ Finish
        \/ \E obj \in Object, delay \in Delay : Post(obj, delay) \/ Ignore(obj, delay)

Spec == Init /\ [][Next]_vars

-----------------------------------------------------------------------------
TypeOK == /\ now \in Nat
          /\ pending \subseteq Transaction
          /\ running \in BOOLEAN
          /\ runs \in Nat

(***************************************************************************)
(* No transaction is ever left behind: whatever is pending is due now or   *)
(* later, also after the date was moved back at the end of a run.          *)
(***************************************************************************)
NothingPast == \A t \in pending : now <= t.date

(***************************************************************************)
(* An object has at most one transaction at a date: two of them would give *)
(* it two values at once, in an order nobody chose.                        *)
(***************************************************************************)
OnePerDate == \A t, u \in pending : t.obj = u.obj /\ t.date = u.date => t = u

(***************************************************************************)
(* In the first run, of two transactions of an object the later one was    *)
(* posted later, so an object never has two pending from one evaluation.   *)
(***************************************************************************)
PostedInOrder ==
    runs <= 1 => \A t, u \in pending : t.obj = u.obj /\ t.date < u.date => t.posted < u.posted
=============================================================================
