------------------------------ MODULE MCJobFarm ------------------------------
(***************************************************************************)
(* Properties of JobFarm and the instances they are checked on.            *)
(***************************************************************************)
EXTENDS JobFarm

(***************************************************************************)
(* No slave, whenever it dies, makes the master meet one of the protocol   *)
(* errors of its message catalogue: no free slot (MBK-057), an event of a  *)
(* job that is not running (AVT-051), a packet out of turn (AVT-052 to     *)
(* AVT-054), a slot without its event (MBK-054).  What may kill it is a    *)
(* socket error or the unset event of mbk_commputdata.                     *)
(***************************************************************************)
NoProtocolError == fatal \in {NoFault, "055", "send", "recv", "stray"}

(***************************************************************************)
(* A connection always finds a free slot: every used slot and every        *)
(* connection still to accept is one of the busy execs'.                   *)
(***************************************************************************)
SlotsSuffice ==
    Len(backlog) + Cardinality(Slot \ Free) <= Cardinality(Busy)

(***************************************************************************)
(* An identified slot is the only one of its job, and the job is one the   *)
(* master still counts as busy; it is RUN from its begin event on.         *)
(***************************************************************************)
SlotsAreOwned ==
    \A n \in Slot : slot[n].id # NoJob =>
        /\ SlotsOf(slot[n].id) = {n}
        /\ \E e \in Busy : /\ exec[e].job = slot[n].id
                           /\ exec[e].state = "WAIT" <=> slot[n].event = "BEGIN"

(***************************************************************************)
(* done counts every job that ended exactly once.                          *)
(***************************************************************************)
Accounting ==
    /\ launch - done = Cardinality(Busy)
    /\ done = Cardinality({j \in Job : outcome[j] # "none"})
    /\ \A n \in Busy : outcome[exec[n].job] = "none"

(***************************************************************************)
(* The result of a completed job is in the data file, and no result is     *)
(* there twice.                                                            *)
(***************************************************************************)
ResultsKept ==
    /\ \A j \in Job : outcome[j] = "completed" => j \in ToSet(file)
    /\ \A i, k \in DOMAIN file : file[i] = file[k] => i = k

(***************************************************************************)
(* The master never blocks in select with nobody to wake it: the slave of  *)
(* each busy exec can go on by itself, or it died before its begin event.  *)
(* (Deaths that early are those the code does not count.)                  *)
(***************************************************************************)
GoesOn(j) == \/ slave[j] \in {"started", "connected", "running", "posted"}
             \/ slave[j] = "asking" /\ j \in reply

NeverStuck ==
    pc = "wait" /\ backlog = <<>> /\ Readable = {} =>
        /\ Busy # {}
        /\ \A e \in Busy : \/ GoesOn(exec[e].job)
                           \/ slave[exec[e].job] = "dead" /\ exec[e].state = "WAIT"

(***************************************************************************)
(* "a total of 30 runs must be done": the master reaches its end.          *)
(***************************************************************************)
AllRunsDone == <>(pc = "end")

(***************************************************************************)
(* A slave that waits for an answer gets one: the master never waits for   *)
(* the slave that waits for it.                                            *)
(***************************************************************************)
Answered == \A j \in Job : slave[j] = "asking" ~> slave[j] # "asking"

(***************************************************************************)
(* The farm implements the pool.                                           *)
(***************************************************************************)
Pool == INSTANCE JobPool WITH Parallel <- Cardinality(Slot),
                              active <- {exec[n].job : n \in Busy},
                              ended <- {j \in Job : outcome[j] # "none"}

Implements == Pool!Spec
=============================================================================
