---------------------------- MODULE JobFarmProofs ----------------------------
(***************************************************************************)
(* The farm implements the pool, counts every job once, keeps its protocol *)
(* and loses no result, for any number of runs and of slots, whatever the  *)
(* slaves send and whenever they die.                                      *)
(***************************************************************************)
EXTENDS MCJobFarm, FiniteSetTheorems, SequenceTheorems, TLAPS

(***************************************************************************)
(* A busy exec has a job that was launched and has not ended, no two execs *)
(* have one job, and no job ends before its launch.                        *)
(***************************************************************************)
Execs == /\ exec \in [Slot -> [state : {"FREE", "WAIT", "RUN"}, job : Job \cup {NoJob}]]
         /\ launch \in 0..Jobs
         /\ done \in Nat
         /\ outcome \in [Job -> {"none", "completed", "aborted"}]
         /\ \A n \in Busy : exec[n].job \in 1..launch /\ outcome[exec[n].job] = "none"
         /\ \A n, m \in Busy : exec[n].job = exec[m].job => n = m
         /\ \A j \in Job : outcome[j] # "none" => j \in 1..launch

(***************************************************************************)
(* The master takes the lowest free exec: there is one, as the indices of  *)
(* the table are natural numbers.                                          *)
(***************************************************************************)
LEMMA LowestExists ==
  ASSUME NEW S, S \subseteq Slot, S # {}
  PROVE  Lowest(S) \in S
<1> DEFINE R == {ss \in Nat \X Nat : ss[1] < ss[2]}
<1>0. IsWellFoundedOn(R, Nat)
  BY NatLessThanWellFounded DEF OpToRel
<1>1. S \subseteq Nat
  BY CommAssumption
<1>2. \E x \in S : \A y \in S : ~(<<y, x>> \in R)
  BY <1>0, <1>1, WFMin, Zenon
<1>3. PICK x \in S : \A y \in S : ~(<<y, x>> \in R)
  BY <1>2
<1>4. ASSUME NEW y \in S PROVE x <= y
  <2>1. <<y, x>> \in Nat \X Nat /\ <<y, x>> \notin R
    BY <1>1, <1>3
  <2>2. ~(<<y, x>>[1] < <<y, x>>[2])
    BY <2>1, Zenon
  <2> QED
    BY <1>1, <2>2
<1> QED
  BY <1>4 DEF Lowest

-----------------------------------------------------------------------------
(***************************************************************************)
(* What a step does to the execs: it launches a job, starts the one that   *)
(* waited, ends one, or leaves them alone.                                 *)
(***************************************************************************)
Starts(n) == /\ exec' = [exec EXCEPT ![n].state = "RUN"]
             /\ UNCHANGED <<launch, done, outcome>>

Ends(n, how) == /\ exec' = [exec EXCEPT ![n] = [state |-> "FREE", job |-> NoJob]]
                /\ done' = done + 1
                /\ outcome' = [outcome EXCEPT ![exec[n].job] = how]
                /\ UNCHANGED launch

Idle == UNCHANGED <<exec, launch, done, outcome>>

Launches(n) == /\ launch < Jobs
               /\ launch' = launch + 1
               /\ exec' = [exec EXCEPT ![n] = [state |-> "WAIT", job |-> launch + 1]]
               /\ UNCHANGED <<done, outcome>>

Ending == \E n \in Busy, how \in {"completed", "aborted"} : Ends(n, how)

LEMMA DispatchCases ==
  ASSUME Execs, Dispatch
  PROVE  \/ Idle
         \/ \E n \in Busy : Starts(n)
         \/ Ending
<1>1. CASE ExecsOf(cur) = {} \/ SlotsOf(cur) = {}
  BY <1>1 DEF Dispatch, Die, Idle
<1>2. CASE ExecsOf(cur) # {} /\ SlotsOf(cur) # {}
  <2> DEFINE n == Lowest(ExecsOf(cur))
             s == Lowest(SlotsOf(cur))
             event == slot[s].event
  <2>1. n \in Busy
    BY <1>2, LowestExists DEF ExecsOf, Busy
  <2>2. UNCHANGED launch
    BY DEF Dispatch
  <2>4. \/ Die("054/15") \/ Begin(n) \/ Data(n, slot[s].buffer) \/ End(n) \/ Abort(n)
    BY <1>2 DEF Dispatch
  <2> HIDE DEF n, s
  <2>5. CASE Die("054/15")
    BY <2>2, <2>5 DEF Die, Idle
  <2>6. CASE Begin(n)
    BY <2>1, <2>2, <2>6 DEF Begin, Die, Idle, Starts
  <2>7. CASE Data(n, slot[s].buffer)
    BY <2>2, <2>7 DEF Data, Die, Idle
  <2>8. CASE End(n)
    BY <2>1, <2>2, <2>8 DEF End, Ended, Die, Idle, Ends, Ending
  <2>9. CASE Abort(n)
    BY <2>1, <2>2, <2>9 DEF Abort, Ended, Die, Idle, Ends, Ending
  <2> QED
    BY <2>4, <2>5, <2>6, <2>7, <2>8, <2>9
<1> QED
  BY <1>1, <1>2

LEMMA StepCases ==
  ASSUME Execs, [Next]_vars
  PROVE  \/ Idle \/ (\E n \in Slot \ Busy : Launches(n)) \/ (\E n \in Busy : Starts(n)) \/ Ending
<1>1. CASE Launch
  <2>1. Slot \ Busy # {}
    BY <1>1 DEF Launch, CanLaunch, Busy
  <2>2. Lowest(Slot \ Busy) \in Slot \ Busy
    BY <2>1, LowestExists
  <2> QED
    BY <1>1, <2>2 DEF Launch, CanLaunch, Launches
<1>2. CASE Wait \/ Terminate \/ Accept \/ Select
  BY <1>2 DEF Wait, Terminate, Accept, Select, Idle
<1>3. CASE Scan \/ ScanClosed
  BY <1>3 DEF Scan, ScanClosed, Idle
<1>4. CASE Dispatch
  BY <1>4, DispatchCases
<1>5. ASSUME NEW j \in Job, Slave(j) \/ Crash(j)
      PROVE  Idle
  BY <1>5 DEF Slave, Connect, SendBegin, Talk, ReadReply, PostData, SendEnd, Says, Crash,
              masterVars, Idle
<1>6. CASE UNCHANGED vars
  BY <1>6 DEF vars, masterVars, Idle
<1> QED
  BY <1>1, <1>2, <1>3, <1>4, <1>5, <1>6 DEF Next, Master

-----------------------------------------------------------------------------
(***************************************************************************)
(* How the set of busy execs and the set of ended jobs change.             *)
(***************************************************************************)
EndedJobs == {j \in Job : outcome[j] # "none"}

LEMMA Counted ==
  ASSUME Execs
  PROVE  /\ IsFiniteSet(Busy) /\ Cardinality(Busy) \in Nat
         /\ IsFiniteSet(EndedJobs) /\ Cardinality(EndedJobs) \in Nat
<1>1. Busy \in SUBSET Slot /\ IsFiniteSet(Slot)
  BY FarmAssumption DEF Busy
<1>2. EndedJobs \in SUBSET Job /\ IsFiniteSet(Job)
  BY FarmAssumption, FS_Interval DEF EndedJobs
<1> QED
  BY <1>1, <1>2, FS_Subset, FS_CardinalityType

LEMMA AfterLaunch ==
  ASSUME Execs, NEW n \in Slot \ Busy, Launches(n)
  PROVE  Execs' /\ Busy' = Busy \cup {n} /\ EndedJobs' = EndedJobs
<1>1. Busy' = Busy \cup {n}
  BY DEF Execs, Launches, Busy
<1>2. launch + 1 \in Job /\ launch' \in 0..Jobs
  BY FarmAssumption DEF Execs, Launches
<1>3. /\ exec' \in [Slot -> [state : {"FREE", "WAIT", "RUN"}, job : Job \cup {NoJob}]]
      /\ exec'[n].job = launch + 1
      /\ \A m \in Busy : exec'[m] = exec[m] /\ m # n
  BY <1>2 DEF Execs, Launches, Busy
<1>4. \A m \in Busy' : exec'[m].job \in 1..launch' /\ outcome'[exec'[m].job] = "none"
  <2>1. outcome[launch + 1] = "none"
    BY <1>2 DEF Execs
  <2> QED
    BY <1>1, <1>3, <2>1 DEF Execs, Launches
<1>5. \A l, m \in Busy' : exec'[l].job = exec'[m].job => l = m
  BY <1>1, <1>3 DEF Execs, Launches
<1> QED
  BY <1>1, <1>2, <1>3, <1>4, <1>5 DEF Execs, Launches, EndedJobs

LEMMA AfterStart ==
  ASSUME Execs, NEW n \in Busy, Starts(n)
  PROVE  Execs' /\ Busy' = Busy /\ EndedJobs' = EndedJobs
<1>1. Busy' = Busy
  BY DEF Execs, Starts, Busy
<1> QED
  BY <1>1 DEF Execs, Starts, EndedJobs, Busy

LEMMA AfterEnd ==
  ASSUME Execs, NEW n \in Busy, NEW how \in {"completed", "aborted"}, Ends(n, how)
  PROVE  /\ Execs'
         /\ Busy' = Busy \ {n}
         /\ EndedJobs' = EndedJobs \cup {exec[n].job}
         /\ exec[n].job \in Job \ EndedJobs
<1>1. Busy' = Busy \ {n}
  BY DEF Execs, Ends, Busy
<1>2. exec[n].job \in 1..launch /\ outcome[exec[n].job] = "none" /\ exec[n].job \in Job
  BY FarmAssumption DEF Execs
<1>3. /\ exec' \in [Slot -> [state : {"FREE", "WAIT", "RUN"}, job : Job \cup {NoJob}]]
      /\ \A m \in Busy \ {n} : exec'[m] = exec[m] /\ exec[m].job # exec[n].job
  BY DEF Execs, Ends, Busy
<1>4. \A m \in Busy' : exec'[m].job \in 1..launch' /\ outcome'[exec'[m].job] = "none"
  BY <1>1, <1>2, <1>3 DEF Execs, Ends
<1>5. \A l, m \in Busy' : exec'[l].job = exec'[m].job => l = m
  BY <1>1, <1>3 DEF Execs
<1>6. EndedJobs' = EndedJobs \cup {exec[n].job}
  BY <1>2 DEF Execs, Ends, EndedJobs
<1>7. \A j \in Job : outcome'[j] # "none" => j \in 1..launch'
  BY <1>2 DEF Execs, Ends
<1>8. /\ launch' \in 0..Jobs /\ done' \in Nat
      /\ outcome' \in [Job -> {"none", "completed", "aborted"}]
  <2>1. launch' = launch /\ done' = done + 1
    BY DEF Ends
  <2>2. outcome' \in [Job -> {"none", "completed", "aborted"}]
    BY DEF Execs, Ends
  <2> QED
    BY <2>1, <2>2 DEF Execs
<1> QED
  BY <1>1, <1>2, <1>3, <1>4, <1>5, <1>6, <1>7, <1>8 DEF Execs, EndedJobs

-----------------------------------------------------------------------------
(***************************************************************************)
(* What a step of the master loop does to the execs is kept by Execs.      *)
(***************************************************************************)
LEMMA Initially == Init => Execs /\ Busy = {} /\ EndedJobs = {}
<1> SUFFICES ASSUME Init PROVE Execs /\ Busy = {} /\ EndedJobs = {}
  OBVIOUS
<1>1. Busy = {} /\ EndedJobs = {}
  BY DEF Init, Busy, EndedJobs
<1>2. exec \in [Slot -> [state : {"FREE", "WAIT", "RUN"}, job : Job \cup {NoJob}]]
  BY DEF Init
<1>3. launch \in 0..Jobs /\ done \in Nat
  BY FarmAssumption DEF Init
<1>4. outcome \in [Job -> {"none", "completed", "aborted"}] /\ \A j \in Job : outcome[j] = "none"
  BY DEF Init
<1> QED
  BY <1>1, <1>2, <1>3, <1>4 DEF Execs

LEMMA Preserved == Execs /\ [Next]_vars => Execs'
<1> SUFFICES ASSUME Execs, [Next]_vars PROVE Execs'
  OBVIOUS
<1>1. CASE Idle
  BY <1>1 DEF Idle, Execs, Busy
<1> QED
  BY <1>1, StepCases, AfterLaunch, AfterStart, AfterEnd DEF Ending

(***************************************************************************)
(* runStatHiTas launches a job on an exec that is free, and frees the exec *)
(* in the step that counts the job: no job is on two execs or counted      *)
(* before its end.                                                         *)
(***************************************************************************)
THEOREM ExecsHold == Spec => []Execs
  BY Initially, Preserved, PTL DEF Spec

(***************************************************************************)
(* done and launch count: the jobs launched and not done are the busy      *)
(* execs, and the jobs done are those with an outcome.                     *)
(***************************************************************************)
THEOREM JobsAreAccounted == Spec => []Accounting
<1> DEFINE Sums == launch - done = Cardinality(Busy) /\ done = Cardinality(EndedJobs)
<1>1. Init => Sums
  <2> SUFFICES ASSUME Init PROVE Sums
    OBVIOUS
  <2>1. Cardinality(Busy) = 0 /\ Cardinality(EndedJobs) = 0
    BY Initially, FS_EmptySet
  <2>2. launch = 0 /\ done = 0
    BY DEF Init
  <2> QED
    BY <2>1, <2>2
<1>2. Execs /\ Sums /\ [Next]_vars => Sums'
  <2> SUFFICES ASSUME Execs, Sums, [Next]_vars PROVE Sums'
    OBVIOUS
  <2>0. /\ IsFiniteSet(Busy) /\ Cardinality(Busy) \in Nat
        /\ IsFiniteSet(EndedJobs) /\ Cardinality(EndedJobs) \in Nat
        /\ launch \in Nat /\ done \in Nat
    BY Counted DEF Execs
  <2>1. CASE Idle
    <3>1. Busy' = Busy /\ EndedJobs' = EndedJobs
      BY <2>1 DEF Idle, Busy, EndedJobs
    <3> QED
      BY <2>1, <3>1 DEF Idle
  <2>2. ASSUME NEW n \in Slot \ Busy, Launches(n) PROVE Sums'
    <3>1. Busy' = Busy \cup {n} /\ EndedJobs' = EndedJobs
      BY <2>2, AfterLaunch
    <3>2. Cardinality(Busy') = Cardinality(Busy) + 1
      BY <2>0, <3>1, FS_AddElement
    <3> QED
      BY <2>0, <2>2, <3>1, <3>2 DEF Launches
  <2>3. ASSUME NEW n \in Busy, Starts(n) PROVE Sums'
    BY <2>3, AfterStart DEF Starts
  <2>4. ASSUME NEW n \in Busy, NEW how \in {"completed", "aborted"}, Ends(n, how) PROVE Sums'
    <3>1. /\ Busy' = Busy \ {n}
          /\ EndedJobs' = EndedJobs \cup {exec[n].job}
          /\ exec[n].job \notin EndedJobs
      BY <2>4, AfterEnd
    <3>2. Cardinality(Busy') = Cardinality(Busy) - 1
      BY <2>0, <3>1, FS_RemoveElement
    <3>3. Cardinality(EndedJobs') = Cardinality(EndedJobs) + 1
      BY <2>0, <3>1, FS_AddElement
    <3> QED
      BY <2>0, <2>4, <3>2, <3>3 DEF Ends
  <2> QED
    BY <2>1, <2>2, <2>3, <2>4, StepCases DEF Ending
<1>3. Execs /\ Sums => Accounting
  BY DEF Accounting, Execs, EndedJobs
<1> QED
  BY <1>1, <1>2, <1>3, ExecsHold, PTL DEF Spec

-----------------------------------------------------------------------------
(***************************************************************************)
(* The refinement.  The pool's active jobs are those of the busy execs:    *)
(* fewer than the slots while an exec is free.                             *)
(***************************************************************************)
Active == {exec[n].job : n \in Busy}

LEMMA FreeExec ==
  ASSUME Execs, NEW n \in Slot \ Busy
  PROVE  Cardinality(Active) < Cardinality(Slot)
<1> DEFINE f == [m \in Busy |-> exec[m].job]
<1>1. f \in Surjection(Busy, Active)
  BY DEF Surjection, Active
<1>2. Cardinality(Active) <= Cardinality(Busy) /\ IsFiniteSet(Active)
  BY <1>1, Counted, FS_Surjection
<1>3. Cardinality(Busy \cup {n}) = Cardinality(Busy) + 1
  BY Counted, FS_AddElement
<1>4. Cardinality(Busy \cup {n}) <= Cardinality(Slot)
  BY FarmAssumption, FS_Subset DEF Busy
<1>5. Cardinality(Active) \in Nat /\ Cardinality(Slot) \in Nat /\ Cardinality(Busy) \in Nat
  BY <1>2, Counted, FarmAssumption, FS_CardinalityType
<1> QED
  BY <1>2, <1>3, <1>4, <1>5

LEMMA PoolStep ==
  ASSUME Execs, [Next]_vars
  PROVE  [Pool!Next]_Pool!vars
<1> DEFINE Same == launch' = launch /\ Active' = Active /\ EndedJobs' = EndedJobs
<1>0. Same => UNCHANGED Pool!vars
  BY DEF Pool!vars, Active, EndedJobs
<1>1. CASE Idle
  <2>1. Same
    BY <1>1 DEF Idle, Active, Busy, EndedJobs
  <2> QED
    BY <1>0, <2>1
<1>2. ASSUME NEW n \in Busy, Starts(n) PROVE UNCHANGED Pool!vars
  <2>1. Busy' = Busy /\ EndedJobs' = EndedJobs
    BY <1>2, AfterStart
  <2>2. \A m \in Busy : exec'[m].job = exec[m].job
    BY <1>2 DEF Starts, Busy, Execs
  <2>3. Same
    BY <1>2, <2>1, <2>2 DEF Starts, Active
  <2> QED
    BY <1>0, <2>3
<1>3. ASSUME NEW n \in Slot \ Busy, Launches(n) PROVE Pool!Launch
  <2>1. Busy' = Busy \cup {n} /\ EndedJobs' = EndedJobs
    BY <1>3, AfterLaunch
  <2>2. exec'[n].job = launch + 1 /\ \A m \in Busy : exec'[m] = exec[m]
    BY <1>3 DEF Launches, Busy, Execs
  <2>3. Active' = Active \cup {launch + 1}
    BY <2>1, <2>2 DEF Active
  <2>4. Cardinality(Active) < Cardinality(Slot)
    BY FreeExec
  <2>5. launch < Jobs /\ launch' = launch + 1
    BY <1>3 DEF Launches
  <2>6. Pool!Cardinality(Active) = Cardinality(Active)
    BY Zenon DEF Pool!Cardinality, Cardinality, Pool!IsFiniteSet, IsFiniteSet
  <2> QED
    BY <2>1, <2>3, <2>4, <2>5, <2>6, Zenon DEF Pool!Launch, Active, EndedJobs
<1>4. ASSUME NEW n \in Busy, NEW how \in {"completed", "aborted"}, Ends(n, how)
      PROVE  \E job \in Active : Pool!End(job)
  <2>1. Busy' = Busy \ {n} /\ EndedJobs' = EndedJobs \cup {exec[n].job}
    BY <1>4, AfterEnd
  <2>2. \A m \in Busy \ {n} : exec'[m] = exec[m] /\ exec[m].job # exec[n].job
    BY <1>4 DEF Ends, Busy, Execs
  <2>3. Active' = Active \ {exec[n].job} /\ exec[n].job \in Active
    BY <2>1, <2>2 DEF Active
  <2> QED
    BY <1>4, <2>1, <2>3 DEF Ends, Pool!End, Active, EndedJobs
<1> QED
  BY <1>1, <1>2, <1>3, <1>4, StepCases DEF Ending, Pool!Next, Active

(***************************************************************************)
(* Every behaviour of the farm is a behaviour of the pool: each of the     *)
(* runs asked for is launched once, ends at most once, and never are more  *)
(* active than "jobs:parajobs" authorises.                                 *)
(***************************************************************************)
THEOREM FarmImplementsPool == Spec => Implements
<1>1. Init => Pool!Init
  <2> SUFFICES ASSUME Init PROVE Pool!Init
    OBVIOUS
  <2>1. Busy = {} /\ EndedJobs = {} /\ launch = 0
    BY Initially DEF Init
  <2> QED
    BY <2>1 DEF Pool!Init, EndedJobs
<1> QED
  BY <1>1, ExecsHold, PoolStep, PTL DEF Spec, Implements, Pool!Spec

-----------------------------------------------------------------------------
(***************************************************************************)
(* What may come next on a connection: after a packet, and for a slot.     *)
(* After a header comes a body of its type, after a body another header,   *)
(* and an end of file or a reset is the last packet of all.                *)
(***************************************************************************)
Cuts == {Eof, Reset}

Heads == {Header(t) : t \in {"DATA", "TOKEN", "CHECK", "END"}}

BodiesOf(type) == CASE type = "BEGIN" -> {Body("id")}
                    [] type = "DATA" -> {Body(w) : w \in {"INFO", "ASK", "POST"}}
                    [] type \in {"TOKEN", "CHECK"} -> {Body("key")}
                    [] OTHER -> {}

After(p) == CASE p.kind = "header" -> BodiesOf(p.type) \cup Cuts
              [] p.kind = "body" -> Heads \cup Cuts
              [] OTHER -> {}

Expects(s) == Cuts \cup (IF s.part # "header" THEN BodiesOf(s.part)
                         ELSE CASE s.state = "BEGIN" -> {Header("BEGIN")}
                                [] s.state = "RUNNING" -> Heads
                                [] OTHER -> {})

(***************************************************************************)
(* What job j may send next, and what the master may receive from it next. *)
(***************************************************************************)
Awaited(j) == {p \in Packet : \/ j \in ToSet(backlog) /\ p \in Cuts \cup {Header("BEGIN")}
                              \/ \E n \in Slot : slot[n].conn = j /\ p \in Expects(slot[n])}

Tip(j) == IF chan[j] = <<>> THEN Awaited(j) ELSE After(chan[j][Len(chan[j])])

Typed == /\ slot \in [Slot -> SlotRecord]
         /\ chan \in [Job -> Seq(Packet)]
         /\ backlog \in Seq(Job)
         /\ slave \in [Job -> {"none", "started", "connected", "running", "asking",
                               "posted", "ended", "dead"}]
         /\ file \in Seq(Job)
         /\ cur \in Job \cup {NoJob}
         /\ \A j \in Job : j > launch => slave[j] = "none"

(***************************************************************************)
(* What the fields of a slot say together.                                 *)
(***************************************************************************)
Shape(s) ==
    /\ s.state = "FREE" => s.conn = NoJob /\ s.id = NoJob /\ s.event = "NONE"
    /\ s.state = "BEGIN" => s.conn # NoJob /\ s.id = NoJob /\ s.event = "NONE"
                            /\ s.part \in {"header", "BEGIN"}
    /\ s.state \in {"RUNNING", "CLOSING"} => s.conn # NoJob /\ s.id = s.conn /\ s.part # "BEGIN"
    /\ s.state = "CLOSING" => s.event = "NONE" /\ s.part = "header"
    /\ s.state = "CLOSED" => s.conn = NoJob /\ s.event \in {"END", "ABORT"}
    /\ s.event \in {"BEGIN", "DATA"} => s.state = "RUNNING"
    /\ s.event \in {"END", "ABORT"} => s.state = "CLOSED"

(***************************************************************************)
(* The master handles an event before it looks for another: the only slots *)
(* with an event are that of the job being dispatched, and those closed    *)
(* before they were identified.                                            *)
(***************************************************************************)
Events == /\ \A n \in Slot : Shape(slot[n])
          /\ \A n \in Slot : slot[n].event # "NONE" =>
                 slot[n].id = NoJob \/ (pc = "dispatch" /\ slot[n].id = cur)
          /\ pc = "dispatch" => cur # NoJob /\ \E n \in Slot : slot[n].id = cur /\ slot[n].event # "NONE"
          /\ ready \subseteq Readable
          /\ pc = "scan" => ready # {}
          /\ pc # "dead" => fatal = NoFault

OwnerOf(s) == IF s.conn # NoJob THEN s.conn ELSE s.id

Owner(n) == OwnerOf(slot[n])

(***************************************************************************)
(* The exec of a job is at WAIT until the master has handled its begin.    *)
(***************************************************************************)
Phase(s) == IF s.state = "BEGIN" \/ s.event = "BEGIN" THEN "WAIT" ELSE "RUN"

RunsIn(execs, j, state) == \E e \in Slot : execs[e].job = j /\ execs[e].state = state

Runs(j, state) == RunsIn(exec, j, state)

(***************************************************************************)
(* Every slot has a job of its own, and every connection a job that waits. *)
(***************************************************************************)
Owned ==
    /\ \A n, m \in Slot : Owner(n) = Owner(m) /\ Owner(n) # NoJob => n = m
    /\ \A n \in Slot : Owner(n) # NoJob => Owner(n) \notin ToSet(backlog)
    /\ \A i, k \in DOMAIN backlog : backlog[i] = backlog[k] => i = k
    /\ \A n \in Slot : Owner(n) # NoJob =>
           Runs(Owner(n), Phase(slot[n]))
    /\ \A j \in Job : j \in ToSet(backlog) \/ slave[j] = "started" => Runs(j, "WAIT")
    /\ \A j \in Job : slave[j] \in {"none", "started"} =>
           j \notin ToSet(backlog) /\ \A n \in Slot : Owner(n) # j

(***************************************************************************)
(* Every connection carries what its reader awaits, and its sender may go  *)
(* on where it stands.                                                     *)
(***************************************************************************)
Streams ==
    \A j \in Job :
        /\ chan[j] # <<>> => chan[j][1] \in Awaited(j)
        /\ \A i \in 1..Len(chan[j])-1 : chan[j][i + 1] \in After(chan[j][i])
        /\ slave[j] = "connected" => {Header("BEGIN")} \cup Cuts \subseteq Tip(j)
        /\ slave[j] \in {"running", "asking", "posted"} => Heads \cup Cuts \subseteq Tip(j)

(***************************************************************************)
(* A result is once in the connection, in its slot or in the file; it is   *)
(* in one of them when its slave has sent it, and it precedes the end.     *)
(***************************************************************************)
Sent(j) == \E i \in DOMAIN chan[j] : chan[j][i] = Body("POST")
Held(j) == \E n \in Slot : slot[n].id = j /\ slot[n].event = "DATA" /\ slot[n].buffer = "POST"
Kept(j) == j \in ToSet(file)

Results ==
    /\ \A j \in Job :
           /\ slave[j] \in {"none", "started", "connected", "running", "asking"} =>
                  ~Sent(j) /\ ~Held(j) /\ ~Kept(j)
           /\ slave[j] \in {"posted", "ended"} => Sent(j) \/ Held(j) \/ Kept(j)
           /\ \A i, k \in DOMAIN chan[j] :
                  chan[j][i] = Body("POST") /\ chan[j][k] = Body("POST") => i = k
           /\ ~(Sent(j) /\ Held(j)) /\ ~(Sent(j) /\ Kept(j)) /\ ~(Held(j) /\ Kept(j))
           /\ Header("END") \in ToSet(chan[j]) => slave[j] = "ended"
    /\ \A n \in Slot : slot[n].state = "CLOSING" => slave[slot[n].conn] = "ended"
    /\ \A n \in Slot : slot[n].event = "END" => slot[n].id # NoJob /\ slave[slot[n].id] = "ended"
    /\ ResultsKept

Starting == {j \in Job : slave[j] = "started"}

Room == Len(backlog) + Cardinality(Slot \ Free) + Cardinality(Starting) <= Cardinality(Busy)


Inv == Execs /\ Typed /\ Events /\ Owned /\ Streams /\ Results /\ Room

-----------------------------------------------------------------------------
LEMMA PacketKinds ==
  /\ \A t \in {"BEGIN", "DATA", "TOKEN", "CHECK", "END"} :
        Header(t) \in Packet /\ Header(t).kind = "header" /\ Header(t).type = t
  /\ \A w \in {"id", "INFO", "ASK", "POST", "key"} :
        Body(w) \in Packet /\ Body(w).kind = "body" /\ Body(w).type = w
  /\ Eof \in Packet /\ Eof.kind = "eof" /\ Reset \in Packet /\ Reset.kind = "reset"
BY DEF Packet, Header, Body, Eof, Reset

LEMMA AfterThat ==
  /\ Cuts \subseteq Packet /\ Heads \subseteq Packet
  /\ After(Header("BEGIN")) = {Body("id")} \cup Cuts
  /\ After(Header("DATA")) = {Body(w) : w \in {"INFO", "ASK", "POST"}} \cup Cuts
  /\ After(Header("TOKEN")) = {Body("key")} \cup Cuts
  /\ After(Header("CHECK")) = {Body("key")} \cup Cuts
  /\ After(Header("END")) = Cuts
  /\ \A w \in {"id", "INFO", "ASK", "POST", "key"} : After(Body(w)) = Heads \cup Cuts
  /\ After(Eof) = {} /\ After(Reset) = {}
<1>1. Cuts \subseteq Packet /\ Heads \subseteq Packet
  BY PacketKinds DEF Cuts, Heads
<1>2. After(Header("BEGIN")) = {Body("id")} \cup Cuts
  BY PacketKinds DEF After, BodiesOf
<1>3. After(Header("DATA")) = {Body(w) : w \in {"INFO", "ASK", "POST"}} \cup Cuts
  BY PacketKinds DEF After, BodiesOf
<1>4. After(Header("TOKEN")) = {Body("key")} \cup Cuts /\ After(Header("CHECK")) = {Body("key")} \cup Cuts
  BY PacketKinds DEF After, BodiesOf
<1>5. After(Header("END")) = Cuts
  BY PacketKinds DEF After, BodiesOf
<1>6. \A w \in {"id", "INFO", "ASK", "POST", "key"} : After(Body(w)) = Heads \cup Cuts
  BY PacketKinds DEF After
<1>7. After(Eof) = {} /\ After(Reset) = {}
  BY PacketKinds DEF After
<1> QED
  BY <1>1, <1>2, <1>3, <1>4, <1>5, <1>6, <1>7

(***************************************************************************)
(* Packets sent after those already there.                                 *)
(***************************************************************************)
LEMMA Sends ==
  ASSUME Typed, Streams, NEW j \in Job, NEW packets \in Seq(Packet), packets # <<>>,
         packets[1] \in Tip(j),
         \A i \in 1..Len(packets)-1 : packets[i + 1] \in After(packets[i]),
         Send(j, packets), UNCHANGED <<slot, backlog>>
  PROVE  /\ chan' \in [Job -> Seq(Packet)]
         /\ \A k \in Job : k # j => chan'[k] = chan[k] /\ Tip(k)' = Tip(k)
         /\ \A k \in Job : Awaited(k)' = Awaited(k)
         /\ chan'[j] # <<>> /\ chan'[j][1] \in Awaited(j)
         /\ \A i \in 1..Len(chan'[j])-1 : chan'[j][i + 1] \in After(chan'[j][i])
         /\ Tip(j)' = After(packets[Len(packets)])
         /\ \A i \in DOMAIN chan'[j] : \/ i \in DOMAIN chan[j] /\ chan'[j][i] = chan[j][i]
                                       \/ /\ i - Len(chan[j]) \in 1..Len(packets)
                                          /\ chan'[j][i] = packets[i - Len(chan[j])]
         /\ \A i \in DOMAIN chan[j] : i \in DOMAIN chan'[j] /\ chan'[j][i] = chan[j][i]
         /\ \A i \in 1..Len(packets) : /\ i + Len(chan[j]) \in DOMAIN chan'[j]
                                       /\ chan'[j][i + Len(chan[j])] = packets[i]
<1> DEFINE s == chan[j]
           r == chan'[j]
<1>1. /\ chan' \in [Job -> Seq(Packet)] /\ r = s \o packets
      /\ \A k \in Job : k # j => chan'[k] = chan[k]
  BY DEF Typed, Send
<1>2. \A k \in Job : Awaited(k)' = Awaited(k)
  BY DEF Awaited, Expects
<1>3. \A k \in Job : k # j => Tip(k)' = Tip(k)
  BY <1>1, <1>2 DEF Tip
<1>4. s \in Seq(Packet) /\ Len(s) \in Nat /\ Len(packets) \in Nat /\ Len(packets) >= 1
  BY DEF Typed
<1>5. /\ Len(r) = Len(s) + Len(packets)
      /\ \A i \in 1..Len(s) : r[i] = s[i]
      /\ \A i \in 1..Len(packets) : r[i + Len(s)] = packets[i]
      /\ DOMAIN r = 1..Len(s) + Len(packets) /\ DOMAIN s = 1..Len(s)
  BY <1>1, <1>4
<1>6. s # <<>> => Len(s) >= 1
  BY <1>4
<1>7. s = <<>> => Len(s) = 0
  OBVIOUS
<1>8. /\ s # <<>> => s[1] \in Awaited(j)
      /\ \A i \in 1..Len(s)-1 : s[i + 1] \in After(s[i])
      /\ packets[1] \in IF s = <<>> THEN Awaited(j) ELSE After(s[Len(s)])
  BY DEF Streams, Tip
<1> HIDE DEF s, r
<1>9. \A i \in DOMAIN r : \/ i \in DOMAIN s /\ r[i] = s[i]
                          \/ i - Len(s) \in 1..Len(packets) /\ r[i] = packets[i - Len(s)]
  <2> TAKE i \in DOMAIN r
  <2>1. CASE i <= Len(s)
    BY <1>4, <1>5, <2>1
  <2>2. CASE i > Len(s)
    <3>1. i - Len(s) \in 1..Len(packets) /\ (i - Len(s)) + Len(s) = i
      BY <1>4, <1>5, <2>2
    <3> QED
      BY <1>5, <3>1
  <2> QED
    BY <1>4, <1>5, <2>1, <2>2
<1>10. r # <<>>
  BY <1>4, <1>5
<1>11. r[1] \in Awaited(j)
  <2>1. CASE s = <<>>
    BY <1>4, <1>5, <1>7, <1>8, <2>1
  <2>2. CASE s # <<>>
    BY <1>4, <1>5, <1>6, <1>8, <2>2
  <2> QED
    BY <2>1, <2>2
<1>12. ASSUME NEW i \in 1..Len(r)-1 PROVE r[i + 1] \in After(r[i])
  <2>0. i \in Int /\ Len(s) \in Int
    BY <1>4
  <2>1. CASE i < Len(s)
    BY <1>4, <1>5, <1>8, <2>1
  <2>2. CASE i = Len(s)
    <3>1. s # <<>> /\ r[i] = s[Len(s)] /\ r[i + 1] = packets[1]
      BY <1>4, <1>5, <1>7, <2>2
    <3> QED
      BY <1>8, <3>1
  <2>3. CASE i > Len(s)
    <3> DEFINE k == i - Len(s)
    <3>1. k \in 1..Len(packets)-1 /\ k + 1 \in 1..Len(packets) /\ k \in 1..Len(packets)
          /\ k + Len(s) = i /\ (k + 1) + Len(s) = i + 1
      BY <1>4, <1>5, <2>3
    <3> HIDE DEF k
    <3>2. r[i] = packets[k] /\ r[i + 1] = packets[k + 1]
      BY <1>5, <3>1
    <3> QED
      BY <3>1, <3>2
  <2> QED
    BY <2>0, <2>1, <2>2, <2>3
<1>13. r[Len(r)] = packets[Len(packets)]
  <2>1. Len(packets) \in 1..Len(packets) /\ Len(r) = Len(packets) + Len(s)
    BY <1>4, <1>5
  <2> QED
    BY <1>5, <2>1
<1>14. Tip(j)' = After(packets[Len(packets)])
  BY <1>10, <1>13 DEF Tip, r
<1>15. \A i \in DOMAIN s : i \in DOMAIN r /\ r[i] = s[i]
  BY <1>4, <1>5
<1>16. \A i \in 1..Len(packets) : i + Len(s) \in DOMAIN r /\ r[i + Len(s)] = packets[i]
  BY <1>4, <1>5
<1> QED
  BY <1>1, <1>2, <1>3, <1>9, <1>10, <1>11, <1>12, <1>14, <1>15, <1>16 DEF r, s

-----------------------------------------------------------------------------
(***************************************************************************)
(* A slave that is connected sends packets, and goes on, ends or dies.     *)
(***************************************************************************)
Live == {"connected", "running", "asking", "posted"}

Moves(j, packets, to) ==
    /\ slave' = [slave EXCEPT ![j] = to]
    /\ Send(j, packets)
    /\ UNCHANGED <<slot, backlog, fatal, masterVars>>

LEMMA SaysKeeps ==
  ASSUME Inv, NEW j \in Job, slave[j] \in Live,
         NEW to \in {"running", "asking", "posted", "ended", "dead"},
         NEW packets \in Seq(Packet), packets # <<>>, packets[1] \in Tip(j),
         \A i \in 1..Len(packets)-1 : packets[i + 1] \in After(packets[i]),
         to \in {"running", "asking", "posted"} =>
             Heads \cup Cuts \subseteq After(packets[Len(packets)]),
         Moves(j, packets, to)
  PROVE  Execs' /\ Typed' /\ Events' /\ Owned' /\ Streams' /\ Room'
<1>1. Typed /\ Streams /\ Events /\ Owned /\ Room /\ Execs
  BY DEF Inv
<1>2. /\ slave' = [slave EXCEPT ![j] = to] /\ Send(j, packets)
      /\ UNCHANGED <<slot, backlog, fatal>>
      /\ UNCHANGED <<exec, launch, done, pc, ready, cur, file, outcome>>
  BY DEF Moves, masterVars
<1>3. /\ chan' \in [Job -> Seq(Packet)]
      /\ \A k \in Job : k # j => chan'[k] = chan[k] /\ Tip(k)' = Tip(k)
      /\ \A k \in Job : Awaited(k)' = Awaited(k)
      /\ chan'[j] # <<>> /\ chan'[j][1] \in Awaited(j)
      /\ \A i \in 1..Len(chan'[j])-1 : chan'[j][i + 1] \in After(chan'[j][i])
      /\ Tip(j)' = After(packets[Len(packets)])
  BY <1>1, <1>2, Sends
<1>4. /\ slave' \in [Job -> {"none", "started", "connected", "running", "asking",
                             "posted", "ended", "dead"}]
      /\ slave'[j] = to /\ \A k \in Job : k # j => slave'[k] = slave[k]
  BY <1>1, <1>2 DEF Typed
<1>5. Execs'
  BY <1>1, <1>2 DEF Execs, Busy
<1>6. Typed'
  <2>1. \A k \in Job : k > launch => slave'[k] = "none"
    BY <1>1, <1>4 DEF Typed, Live
  <2> QED
    BY <1>1, <1>2, <1>3, <1>4, <2>1 DEF Typed
<1>7. Events'
  <2>1. Readable \subseteq Readable'
    <3> SUFFICES ASSUME NEW n \in Readable PROVE n \in Readable'
      OBVIOUS
    <3>1. n \in Watched /\ chan[slot[n].conn] # <<>>
      BY DEF Readable
    <3>2. slot[n].conn \in Job
      BY <1>1, <3>1 DEF Watched, Events, Shape, Typed, SlotRecord
    <3>3. chan'[slot[n].conn] # <<>>
      BY <1>3, <3>1, <3>2
    <3> QED
      BY <1>2, <3>1, <3>3 DEF Readable, Watched
  <2>2. (\A n \in Slot : Shape(slot[n]))'
    BY <1>1, <1>2 DEF Events, Shape
  <2> QED
    BY <1>1, <1>2, <2>1, <2>2 DEF Events
<1>8. Owned'
  <2>1. \A k \in Job : slave'[k] \in {"none", "started"} => slave[k] = slave'[k]
    BY <1>4
  <2>2. \A k \in Job : slave'[k] = "started" => slave[k] = "started"
    BY <1>4
  <2>3. \A n \in Slot : Owner(n)' = Owner(n)
    BY <1>2 DEF Owner, OwnerOf
  <2>4. \A k, s : Runs(k, s)' <=> Runs(k, s)
    BY <1>2 DEF Runs, Busy
  <2> QED
    BY <1>1, <1>2, <2>1, <2>2, <2>3, <2>4 DEF Owned
<1>9. Streams'
  <2> SUFFICES ASSUME NEW k \in Job
               PROVE  /\ chan'[k] # <<>> => chan'[k][1] \in Awaited(k)'
                      /\ \A i \in 1..Len(chan'[k])-1 : chan'[k][i + 1] \in After(chan'[k][i])
                      /\ slave'[k] = "connected" => {Header("BEGIN")} \cup Cuts \subseteq Tip(k)'
                      /\ slave'[k] \in {"running", "asking", "posted"} => Heads \cup Cuts \subseteq Tip(k)'
    BY DEF Streams
  <2>1. CASE k = j
    BY <1>3, <1>4, <2>1
  <2>2. CASE k # j
    BY <1>1, <1>3, <1>4, <2>2 DEF Streams
  <2> QED
    BY <2>1, <2>2
<1>10. Room'
  <2>1. Starting' = Starting
    BY <1>4 DEF Starting, Live
  <2>2. Free' = Free /\ Busy' = Busy
    BY <1>2 DEF Free, Busy
  <2> QED
    BY <1>1, <1>2, <2>1, <2>2 DEF Room
<1> QED
  BY <1>5, <1>6, <1>7, <1>8, <1>9, <1>10

(***************************************************************************)
(* What a slave sends keeps the results where they are: nothing of what it *)
(* sends but its post is a result.                                         *)
(***************************************************************************)
LEMMA SaysNoResult ==
  ASSUME Inv, NEW j \in Job, slave[j] \in Live,
         NEW to \in {"running", "asking", "ended", "dead"},
         to = "ended" <=> slave[j] = "posted" /\ to # "dead",
         NEW packets \in Seq(Packet), packets # <<>>, packets[1] \in Tip(j),
         \A i \in 1..Len(packets)-1 : packets[i + 1] \in After(packets[i]),
         \A i \in DOMAIN packets : packets[i] # Body("POST")
                                   /\ (packets[i] = Header("END") => to = "ended"),
         Moves(j, packets, to)
  PROVE  Results'
<1>1. Typed /\ Streams /\ Results
  BY DEF Inv
<1>2. /\ slave' = [slave EXCEPT ![j] = to] /\ Send(j, packets)
      /\ UNCHANGED <<slot, backlog>> /\ UNCHANGED <<file, outcome>>
  BY DEF Moves, masterVars
<1>3. /\ \A k \in Job : k # j => chan'[k] = chan[k]
      /\ \A i \in DOMAIN chan'[j] : \/ i \in DOMAIN chan[j] /\ chan'[j][i] = chan[j][i]
                                    \/ /\ i - Len(chan[j]) \in 1..Len(packets)
                                       /\ chan'[j][i] = packets[i - Len(chan[j])]
      /\ \A i \in DOMAIN chan[j] : i \in DOMAIN chan'[j] /\ chan'[j][i] = chan[j][i]
  BY <1>1, <1>2, Sends
<1>4. slave'[j] = to /\ \A k \in Job : k # j => slave'[k] = slave[k]
  BY <1>1, <1>2 DEF Typed
<1>5. DOMAIN packets = 1..Len(packets)
  OBVIOUS
<1>6. \A i \in DOMAIN chan'[j] : chan'[j][i] = Body("POST") => i \in DOMAIN chan[j] /\ chan[j][i] = Body("POST")
  BY <1>3, <1>5
<1>7. \A k \in Job : Sent(k)' <=> Sent(k)
  BY <1>3, <1>6 DEF Sent
<1>8. \A k \in Job : (Held(k)' <=> Held(k)) /\ (Kept(k)' <=> Kept(k))
  BY <1>2 DEF Held, Kept
<1>9. ASSUME NEW k \in Job
      PROVE  /\ slave'[k] \in {"none", "started", "connected", "running", "asking"} =>
                    ~Sent(k) /\ ~Held(k) /\ ~Kept(k)
             /\ slave'[k] \in {"posted", "ended"} => Sent(k) \/ Held(k) \/ Kept(k)
  <2>1. CASE k = j
    BY <1>1, <1>4, <2>1 DEF Results, Live
  <2>2. CASE k # j
    BY <1>1, <1>4, <2>2 DEF Results
  <2> QED
    BY <2>1, <2>2
<1>10. ASSUME NEW k \in Job
       PROVE  \A i, l \in DOMAIN chan'[k] :
                 chan'[k][i] = Body("POST") /\ chan'[k][l] = Body("POST") => i = l
  <2>1. CASE k = j
    BY <1>1, <1>6, <2>1 DEF Results
  <2>2. CASE k # j
    BY <1>1, <1>3, <2>2 DEF Results
  <2> QED
    BY <2>1, <2>2
<1>11. ASSUME NEW k \in Job, Header("END") \in ToSet(chan'[k])
       PROVE  slave'[k] = "ended"
  <2>1. CASE k = j
    <3>1. PICK i \in DOMAIN chan'[j] : chan'[j][i] = Header("END")
      BY <1>11, <2>1 DEF ToSet
    <3>2. CASE i \in DOMAIN chan[j] /\ chan'[j][i] = chan[j][i]
      <4>1. Header("END") \in ToSet(chan[j])
        BY <3>1, <3>2 DEF ToSet
      <4> QED
        BY <1>1, <4>1 DEF Results, Live
    <3>3. CASE i - Len(chan[j]) \in 1..Len(packets) /\ chan'[j][i] = packets[i - Len(chan[j])]
      BY <1>4, <1>5, <2>1, <3>1, <3>3
    <3> QED
      BY <1>3, <3>2, <3>3
  <2>2. CASE k # j
    BY <1>1, <1>3, <1>4, <1>11, <2>2 DEF Results
  <2> QED
    BY <2>1, <2>2
<1>12. \A k \in Job : slave[k] = "ended" => slave'[k] = "ended"
  BY <1>4 DEF Live
<1>13. /\ \A n \in Slot : slot[n].state = "CLOSING" => slave'[slot[n].conn] = "ended"
       /\ \A n \in Slot : slot[n].event = "END" => slot[n].id # NoJob /\ slave'[slot[n].id] = "ended"
  <2>1. \A n \in Slot : slot[n].conn \in Job \cup {NoJob} /\ slot[n].id \in Job \cup {NoJob}
    BY <1>1 DEF Typed, SlotRecord
  <2>2. \A n \in Slot : slot[n].state = "CLOSING" => slot[n].conn # NoJob
    BY DEF Inv, Events, Shape
  <2> QED
    BY <1>1, <1>12, <2>1, <2>2 DEF Results
<1>14. ResultsKept'
  BY <1>1, <1>2 DEF Results, ResultsKept
<1> QED
  BY <1>1, <1>2, <1>7, <1>8, <1>9, <1>10, <1>11, <1>13, <1>14 DEF Results

LEMMA PostKeeps ==
  ASSUME Inv, NEW j \in Job, PostData(j)
  PROVE  Inv'
<1> DEFINE packets == <<Header("DATA"), Body("POST")>>
<1>1. Typed /\ Streams /\ Results
  BY DEF Inv
<1>2. /\ slave[j] = "running" /\ slave' = [slave EXCEPT ![j] = "posted"] /\ Send(j, packets)
      /\ UNCHANGED <<slot, backlog, fatal, masterVars>>
  BY DEF PostData, Says
<1>3. /\ packets \in Seq(Packet) /\ packets # <<>> /\ Len(packets) = 2
      /\ packets[1] = Header("DATA") /\ packets[2] = Body("POST")
  BY PacketKinds
<1> HIDE DEF packets
<1>4. packets[1] \in Tip(j)
  BY <1>1, <1>2, <1>3 DEF Streams, Heads
<1>5. /\ \A i \in 1..Len(packets)-1 : packets[i + 1] \in After(packets[i])
      /\ Heads \cup Cuts \subseteq After(packets[Len(packets)])
  <2>1. \A i \in 1..2-1 : i = 1
    OBVIOUS
  <2> QED
    BY <1>3, <2>1, AfterThat
<1>6. Moves(j, packets, "posted") /\ slave[j] \in Live
  BY <1>2 DEF Moves, Live
<1>7. Execs' /\ Typed' /\ Events' /\ Owned' /\ Streams' /\ Room'
  BY <1>3, <1>4, <1>5, <1>6, SaysKeeps
<1>8. /\ \A k \in Job : k # j => chan'[k] = chan[k]
      /\ \A i \in DOMAIN chan'[j] : \/ i \in DOMAIN chan[j] /\ chan'[j][i] = chan[j][i]
                                    \/ /\ i - Len(chan[j]) \in 1..Len(packets)
                                       /\ chan'[j][i] = packets[i - Len(chan[j])]
      /\ \A i \in DOMAIN chan[j] : i \in DOMAIN chan'[j] /\ chan'[j][i] = chan[j][i]
      /\ \A i \in 1..Len(packets) : /\ i + Len(chan[j]) \in DOMAIN chan'[j]
                                    /\ chan'[j][i + Len(chan[j])] = packets[i]
      /\ chan' \in [Job -> Seq(Packet)]
  BY <1>1, <1>2, <1>3, <1>4, <1>5, Sends
<1>9. slave'[j] = "posted" /\ \A k \in Job : k # j => slave'[k] = slave[k]
  BY <1>1, <1>2 DEF Typed
<1>10. UNCHANGED <<slot, file, outcome>>
  BY <1>2 DEF masterVars
<1>11. \A k \in Job : (Held(k)' <=> Held(k)) /\ (Kept(k)' <=> Kept(k))
  BY <1>10 DEF Held, Kept
<1>12. \A k \in Job : k # j => (Sent(k)' <=> Sent(k))
  BY <1>8 DEF Sent
<1>13. ~Sent(j) /\ ~Held(j) /\ ~Kept(j)
  BY <1>1, <1>2 DEF Results
<1>14. ASSUME NEW i \in DOMAIN chan'[j], chan'[j][i] = Body("POST") PROVE i = 2 + Len(chan[j])
  <2>1. ~(i \in DOMAIN chan[j] /\ chan'[j][i] = chan[j][i])
    BY <1>13, <1>14 DEF Sent
  <2>2. i - Len(chan[j]) \in 1..2 /\ chan'[j][i] = packets[i - Len(chan[j])]
    BY <1>3, <1>8, <2>1
  <2>3. i - Len(chan[j]) # 1
    BY <1>3, <1>14, <2>2, PacketKinds
  <2>4. Len(chan[j]) \in Nat /\ i \in Int
    BY <1>1, <1>8 DEF Typed
  <2> QED
    BY <2>2, <2>3, <2>4
<1>15. Sent(j)'
  <2>1. 2 \in 1..Len(packets)
    BY <1>3
  <2> QED
    BY <1>3, <1>8, <2>1 DEF Sent
<1>16. ASSUME NEW k \in Job
       PROVE  /\ slave'[k] \in {"none", "started", "connected", "running", "asking"} =>
                     ~Sent(k)' /\ ~Held(k)' /\ ~Kept(k)'
              /\ slave'[k] \in {"posted", "ended"} => Sent(k)' \/ Held(k)' \/ Kept(k)'
              /\ \A i, l \in DOMAIN chan'[k] :
                    chan'[k][i] = Body("POST") /\ chan'[k][l] = Body("POST") => i = l
              /\ ~(Sent(k)' /\ Held(k)') /\ ~(Sent(k)' /\ Kept(k)') /\ ~(Held(k)' /\ Kept(k)')
  <2>1. CASE k = j
    BY <1>9, <1>11, <1>13, <1>14, <1>15, <2>1
  <2>2. CASE k # j
    BY <1>1, <1>8, <1>9, <1>11, <1>12, <2>2 DEF Results
  <2> QED
    BY <2>1, <2>2
<1>17. ASSUME NEW k \in Job, Header("END") \in ToSet(chan'[k]) PROVE slave'[k] = "ended"
  <2>1. CASE k = j
    <3>1. PICK i \in DOMAIN chan'[j] : chan'[j][i] = Header("END")
      BY <1>17, <2>1 DEF ToSet
    <3>2. CASE i \in DOMAIN chan[j] /\ chan'[j][i] = chan[j][i]
      <4>1. Header("END") \in ToSet(chan[j])
        BY <3>1, <3>2 DEF ToSet
      <4> QED
        BY <1>1, <1>2, <4>1 DEF Results
    <3>3. CASE i - Len(chan[j]) \in 1..Len(packets) /\ chan'[j][i] = packets[i - Len(chan[j])]
      <4>1. i - Len(chan[j]) = 1 \/ i - Len(chan[j]) = 2
        BY <1>3, <3>3
      <4> QED
        BY <1>3, <3>1, <3>3, <4>1, PacketKinds
    <3> QED
      BY <1>8, <3>2, <3>3
  <2>2. CASE k # j
    BY <1>1, <1>8, <1>9, <1>17, <2>2 DEF Results
  <2> QED
    BY <2>1, <2>2
<1>18. /\ \A n \in Slot : slot[n].state = "CLOSING" => slave'[slot[n].conn] = "ended"
       /\ \A n \in Slot : slot[n].event = "END" => slot[n].id # NoJob /\ slave'[slot[n].id] = "ended"
  <2>1. \A n \in Slot : slot[n].conn \in Job \cup {NoJob} /\ slot[n].id \in Job \cup {NoJob}
    BY <1>1 DEF Typed, SlotRecord
  <2>2. \A n \in Slot : slot[n].state = "CLOSING" => slot[n].conn # NoJob
    BY DEF Inv, Events, Shape
  <2>3. \A k \in Job : slave[k] = "ended" => slave'[k] = "ended"
    BY <1>2, <1>9
  <2> QED
    BY <1>1, <2>1, <2>2, <2>3 DEF Results
<1>19. Results'
  <2>1. ResultsKept'
    BY <1>1, <1>10 DEF Results, ResultsKept
  <2> QED
    BY <1>10, <1>16, <1>17, <1>18, <2>1 DEF Results
<1> QED
  BY <1>7, <1>19 DEF Inv

LEMMA OtherSays ==
  ASSUME Inv, NEW j \in Job, slave[j] \in Live,
         NEW to \in {"running", "asking", "ended", "dead"},
         to = "ended" <=> slave[j] = "posted" /\ to # "dead",
         NEW packets \in Seq(Packet), packets # <<>>, packets[1] \in Tip(j),
         \A i \in 1..Len(packets)-1 : packets[i + 1] \in After(packets[i]),
         \A i \in DOMAIN packets : packets[i] # Body("POST")
                                   /\ (packets[i] = Header("END") => to = "ended"),
         to \in {"running", "asking"} => Heads \cup Cuts \subseteq After(packets[Len(packets)]),
         Moves(j, packets, to)
  PROVE  Inv'
<1>1. Execs' /\ Typed' /\ Events' /\ Owned' /\ Streams' /\ Room'
  BY SaysKeeps
<1>2. Results'
  BY SaysNoResult
<1> QED
  BY <1>1, <1>2 DEF Inv

(***************************************************************************)
(* A message of two packets.                                               *)
(***************************************************************************)
LEMMA PairKeeps ==
  ASSUME Inv, NEW j \in Job, NEW p \in Packet, NEW q \in Packet,
         slave[j] \in Live, NEW to \in {"running", "asking", "ended", "dead"},
         to = "ended" <=> slave[j] = "posted" /\ to # "dead",
         p \in Tip(j), q \in After(p), p # Body("POST"), q # Body("POST"), q # Header("END"),
         p = Header("END") => to = "ended",
         to \in {"running", "asking"} => Heads \cup Cuts \subseteq After(q),
         Moves(j, <<p, q>>, to)
  PROVE  Inv'
<1> DEFINE packets == <<p, q>>
<1>1. /\ packets \in Seq(Packet) /\ packets # <<>> /\ Len(packets) = 2
      /\ packets[1] = p /\ packets[2] = q /\ DOMAIN packets = 1..2
  OBVIOUS
<1>2. Moves(j, packets, to)
  OBVIOUS
<1> HIDE DEF packets
<1>3. \A i \in 1..Len(packets)-1 : packets[i + 1] \in After(packets[i])
  <2>1. \A i \in 1..2-1 : i = 1
    OBVIOUS
  <2> QED
    BY <1>1, <2>1
<1>4. \A i \in DOMAIN packets : packets[i] # Body("POST")
                                /\ (packets[i] = Header("END") => to = "ended")
  <2>1. \A i \in DOMAIN packets : i = 1 \/ i = 2
    BY <1>1
  <2> QED
    BY <1>1, <2>1
<1> QED
  BY <1>1, <1>2, <1>3, <1>4, OtherSays

LEMMA OneKeeps ==
  ASSUME Inv, NEW j \in Job, NEW p \in Cuts, slave[j] \in Live, p \in Tip(j), Moves(j, <<p>>, "dead")
  PROVE  Inv'
<1> DEFINE packets == <<p>>
<1>0. p \in Packet /\ p # Body("POST") /\ p # Header("END")
  BY PacketKinds DEF Cuts
<1>1. /\ packets \in Seq(Packet) /\ packets # <<>> /\ Len(packets) = 1
      /\ packets[1] = p /\ DOMAIN packets = 1..1
  BY <1>0
<1>2. Moves(j, packets, "dead")
  OBVIOUS
<1> HIDE DEF packets
<1>3. \A i \in 1..Len(packets)-1 : packets[i + 1] \in After(packets[i])
  BY <1>1
<1>4. \A i \in DOMAIN packets : packets[i] # Body("POST") /\ packets[i] # Header("END")
  BY <1>0, <1>1
<1> QED
  BY <1>1, <1>2, <1>3, <1>4, OtherSays

LEMMA SlaveSends ==
  ASSUME Inv, NEW j \in Job, SendBegin(j) \/ Talk(j) \/ SendEnd(j)
  PROVE  Inv'
<1>0. Streams
  BY DEF Inv
<1>1. CASE SendBegin(j)
  <2>1. slave[j] = "connected" /\ Moves(j, <<Header("BEGIN"), Body("id")>>, "running")
    BY <1>1 DEF SendBegin, Says, Moves
  <2>2. Header("BEGIN") \in Tip(j)
    BY <1>0, <2>1 DEF Streams
  <2>3. Body("id") \in After(Header("BEGIN")) /\ Heads \cup Cuts \subseteq After(Body("id"))
    BY AfterThat
  <2>4. Body("id") # Body("POST")
    BY PacketKinds
  <2>5. Header("BEGIN") \in Packet /\ Body("id") \in Packet /\ Header("BEGIN") # Header("END")
        /\ Body("id") # Header("END") /\ Header("BEGIN") # Body("POST")
    BY PacketKinds
  <2> QED
    BY <2>1, <2>2, <2>3, <2>4, <2>5, PairKeeps DEF Live
<1>2. CASE Talk(j)
  <2>1. PICK t \in {"DATA", "TOKEN", "CHECK"}, w \in {"INFO", "ASK", "key"}, to \in {"running", "asking"} :
           /\ Says(j, "running", to, <<Header(t), Body(w)>>)
           /\ t = "DATA" <=> w # "key"
    BY <1>2 DEF Talk
  <2>2. slave[j] = "running" /\ Moves(j, <<Header(t), Body(w)>>, to)
    BY <2>1 DEF Says, Moves
  <2>3. Header(t) \in Tip(j)
    BY <1>0, <2>2 DEF Streams, Heads
  <2>4. Body(w) \in After(Header(t))
    BY <2>1, AfterThat
  <2>5. Heads \cup Cuts \subseteq After(Body(w))
    BY AfterThat
  <2>6. Body(w) # Body("POST") /\ Body(w) # Header("END") /\ Body(w) \in Packet
    BY PacketKinds
  <2>7. Header(t) \in Packet /\ Header(t) # Header("END") /\ Header(t) # Body("POST")
    BY PacketKinds
  <2> QED
    BY <2>2, <2>3, <2>4, <2>5, <2>6, <2>7, PairKeeps DEF Live
<1>3. CASE SendEnd(j)
  <2>1. slave[j] = "posted" /\ Moves(j, <<Header("END"), Eof>>, "ended")
    BY <1>3 DEF SendEnd, Says, Moves
  <2>2. Header("END") \in Tip(j)
    BY <1>0, <2>1 DEF Streams, Heads
  <2>3. Eof \in After(Header("END"))
    BY AfterThat DEF Cuts
  <2>4. Header("END") \in Packet /\ Eof \in Packet /\ Eof # Header("END") /\ Eof # Body("POST")
        /\ Header("END") # Body("POST")
    BY PacketKinds
  <2> QED
    BY <2>1, <2>2, <2>3, <2>4, PairKeeps DEF Live
<1> QED
  BY <1>1, <1>2, <1>3

(***************************************************************************)
(* A slave that changes without the master's noticing: it dies before it   *)
(* connects, or reads the answer it waited for.                            *)
(***************************************************************************)
LEMMA QuietlyKeeps ==
  ASSUME Inv, NEW j \in Job, NEW to,
         \/ slave[j] = "started" /\ to = "dead"
         \/ slave[j] = "asking" /\ to = "running",
         slave' = [slave EXCEPT ![j] = to],
         UNCHANGED <<slot, chan, backlog, fatal, masterVars>>
  PROVE  Inv'
<1>1. Execs /\ Typed /\ Events /\ Owned /\ Streams /\ Results /\ Room
  BY DEF Inv
<1>2. /\ slave'[j] = to /\ \A k \in Job : k # j => slave'[k] = slave[k]
      /\ slave' \in [Job -> {"none", "started", "connected", "running", "asking",
                             "posted", "ended", "dead"}]
  BY <1>1 DEF Typed
<1>3. UNCHANGED <<exec, launch, done, pc, ready, cur, file, outcome>>
  BY DEF masterVars
<1>4. Execs' /\ Events'
  <2>1. Execs'
    BY <1>1, <1>3 DEF Execs, Busy
  <2>2. Events'
    BY <1>1, <1>3 DEF Events, Shape, Readable, Watched
  <2> QED
    BY <2>1, <2>2
<1>5. Typed'
  <2>1. \A k \in Job : k > launch => slave'[k] = "none"
    BY <1>1, <1>2 DEF Typed
  <2> QED
    BY <1>1, <1>2, <1>3, <2>1 DEF Typed
<1>6. Owned'
  <2>1. \A k \in Job : slave'[k] \in {"none", "started"} => slave[k] = slave'[k]
    BY <1>2
  <2>2. \A n \in Slot : Owner(n)' = Owner(n)
    BY DEF Owner, OwnerOf
  <2>3. \A k, s : Runs(k, s)' <=> Runs(k, s)
    BY <1>3 DEF Runs, Busy
  <2> QED
    BY <1>1, <2>1, <2>2, <2>3 DEF Owned
<1>7. Streams'
  <2>1. \A k \in Job : Awaited(k)' = Awaited(k)
    BY DEF Awaited, Expects
  <2>2. \A k \in Job : Tip(k)' = Tip(k)
    BY <2>1 DEF Tip
  <2>3. ASSUME NEW k \in Job
        PROVE  /\ slave'[k] = "connected" => slave[k] = "connected"
               /\ slave'[k] \in {"running", "asking", "posted"} => slave[k] \in {"running", "asking", "posted"}
    BY <1>2
  <2> QED
    BY <1>1, <2>1, <2>2, <2>3 DEF Streams
<1>8. Results'
  <2>1. \A k \in Job : (Sent(k)' <=> Sent(k)) /\ (Held(k)' <=> Held(k)) /\ (Kept(k)' <=> Kept(k))
    BY <1>3 DEF Sent, Held, Kept
  <2>2. ASSUME NEW k \in Job
        PROVE  /\ slave[k] = "ended" <=> slave'[k] = "ended"
               /\ slave'[k] \in {"posted", "ended"} => slave[k] \in {"posted", "ended"}
               /\ slave'[k] \in {"none", "started", "connected", "running", "asking"} =>
                      slave[k] \in {"none", "started", "connected", "running", "asking"}
    BY <1>2
  <2>3. \A n \in Slot : slot[n].conn \in Job \cup {NoJob} /\ slot[n].id \in Job \cup {NoJob}
    BY <1>1 DEF Typed, SlotRecord
  <2>4. \A n \in Slot : slot[n].state = "CLOSING" => slot[n].conn # NoJob
    BY <1>1 DEF Events, Shape
  <2>5. ResultsKept'
    BY <1>1, <1>3 DEF Results, ResultsKept
  <2> QED
    BY <1>1, <2>1, <2>2, <2>3, <2>4, <2>5 DEF Results
<1>9. Room'
  <2>1. Starting' \subseteq Starting
    BY <1>2 DEF Starting
  <2>2. IsFiniteSet(Starting)
    BY FarmAssumption, FS_Interval, FS_Subset DEF Starting
  <2>3. /\ Cardinality(Starting') <= Cardinality(Starting)
        /\ Cardinality(Starting') \in Nat /\ Cardinality(Starting) \in Nat
    <3>1. Starting' \in SUBSET Starting
      BY <2>1
    <3> QED
      BY <2>2, <3>1, FS_Subset, FS_CardinalityType
  <2>4. Free' = Free /\ Busy' = Busy
    BY <1>3 DEF Free, Busy
  <2>5. /\ Len(backlog) \in Nat /\ Cardinality(Busy) \in Nat /\ Cardinality(Slot \ Free) \in Nat
    <3>1. IsFiniteSet(Slot \ Free)
      BY FarmAssumption, FS_Difference
    <3> QED
      BY <1>1, <3>1, Counted, FS_CardinalityType DEF Typed
  <2> QED
    BY <1>1, <2>3, <2>4, <2>5 DEF Room
<1> QED
  BY <1>4, <1>5, <1>6, <1>7, <1>8, <1>9 DEF Inv

(***************************************************************************)
(* A slave that dies cuts its connection, or sends half of a message first.*)
(***************************************************************************)
Dies(j, cut) ==
    \/ cut \in Tip(j) /\ Moves(j, <<cut>>, "dead")
    \/ \E t \in {"BEGIN", "DATA"} : /\ Header(t) \in Tip(j) /\ cut \in After(Header(t))
                                    /\ Moves(j, <<Header(t), cut>>, "dead")

LEMMA CrashDies ==
  ASSUME Inv, NEW j \in Job, Crash(j), slave[j] \in Live
  PROVE  \E cut \in Cuts : Dies(j, cut)
<1>1. Streams
  BY DEF Inv
<1>2. PICK half \in HalfSent(j), cut \in Cuts : Moves(j, half \o <<cut>>, "dead")
  BY DEF Crash, Moves, Live, Cuts
<1>3. \/ half = <<>>
      \/ half = <<Header("BEGIN")>> /\ slave[j] = "connected"
      \/ half = <<Header("DATA")>> /\ slave[j] = "running"
  BY DEF HalfSent, Live
<1>4. cut \in Packet
  BY AfterThat
<1>5. CASE half = <<>>
  <2>1. half \o <<cut>> = <<cut>>
    BY <1>4, <1>5
  <2>2. cut \in Tip(j)
    BY <1>1 DEF Streams, Live
  <2> QED
    BY <1>2, <2>1, <2>2 DEF Dies
<1>6. ASSUME NEW t \in {"BEGIN", "DATA"}, half = <<Header(t)>>
      PROVE  Dies(j, cut)
  <2>1. half \o <<cut>> = <<Header(t), cut>>
    <3>1. Header(t) \in Packet
      BY PacketKinds
    <3> DEFINE one == <<Header(t)>> \o <<cut>>
               other == <<Header(t), cut>>
    <3>2. /\ one \in Seq(Packet) /\ other \in Seq(Packet) /\ Len(one) = 2 /\ Len(other) = 2
          /\ one[1] = other[1] /\ one[2] = other[2]
      BY <1>4, <3>1
    <3> HIDE DEF one, other
    <3>3. \A i \in 1..Len(one) : i = 1 \/ i = 2
      BY <3>2
    <3>4. one = other
      BY <3>2, <3>3, SeqEqual
    <3> QED
      BY <1>6, <3>4 DEF one, other
  <2>2. Header(t) \in Tip(j)
    <3>1. t = "BEGIN" => slave[j] = "connected"
      BY <1>3, <1>6, PacketKinds
    <3>2. t = "DATA" => slave[j] = "running"
      BY <1>3, <1>6, PacketKinds
    <3> QED
      BY <1>1, <3>1, <3>2 DEF Streams, Heads
  <2>3. cut \in After(Header(t))
    BY AfterThat
  <2> QED
    BY <1>2, <2>1, <2>2, <2>3 DEF Dies
<1> QED
  BY <1>2, <1>3, <1>5, <1>6

LEMMA CrashKeeps ==
  ASSUME Inv, NEW j \in Job, Crash(j)
  PROVE  Inv'
<1>1. slave[j] \in {"started"} \cup Live
  BY FarmAssumption DEF Crash, DeathKind, Live
<1>2. CASE slave[j] = "started"
  BY <1>2, QuietlyKeeps DEF Crash
<1>3. CASE slave[j] \in Live
  <2>1. PICK cut \in Cuts : Dies(j, cut)
    BY <1>3, CrashDies
  <2>2. CASE cut \in Tip(j) /\ Moves(j, <<cut>>, "dead")
    BY <1>3, <2>2, OneKeeps
  <2>3. ASSUME NEW t \in {"BEGIN", "DATA"}, Header(t) \in Tip(j), cut \in After(Header(t)),
               Moves(j, <<Header(t), cut>>, "dead")
        PROVE  Inv'
    <3>1. /\ Header(t) \in Packet /\ Header(t) # Body("POST") /\ Header(t) # Header("END")
          /\ cut # Body("POST") /\ cut # Header("END") /\ cut \in Packet
      BY AfterThat, PacketKinds DEF Cuts
    <3> QED
      BY <1>3, <2>3, <3>1, PairKeeps
  <2> QED
    BY <2>1, <2>2, <2>3 DEF Dies
<1> QED
  BY <1>1, <1>2, <1>3

LEMMA ConnectKeeps ==
  ASSUME Inv, NEW j \in Job, Connect(j)
  PROVE  Inv'
<1>1. Execs /\ Typed /\ Events /\ Owned /\ Streams /\ Results /\ Room
  BY DEF Inv
<1>2. /\ slave[j] = "started" /\ slave' = [slave EXCEPT ![j] = "connected"]
      /\ backlog' = Append(backlog, j)
      /\ UNCHANGED <<slot, chan, fatal, exec, launch, done, pc, ready, cur, file, outcome>>
  BY DEF Connect, masterVars
<1>3. /\ slave'[j] = "connected" /\ \A k \in Job : k # j => slave'[k] = slave[k]
      /\ slave' \in [Job -> {"none", "started", "connected", "running", "asking",
                             "posted", "ended", "dead"}]
  BY <1>1, <1>2 DEF Typed
<1>4. /\ backlog' \in Seq(Job) /\ Len(backlog') = Len(backlog) + 1 /\ Len(backlog) \in Nat
      /\ DOMAIN backlog' = DOMAIN backlog \cup {Len(backlog) + 1}
      /\ DOMAIN backlog = 1..Len(backlog)
      /\ \A i \in DOMAIN backlog : backlog'[i] = backlog[i]
      /\ backlog'[Len(backlog) + 1] = j
  BY <1>1, <1>2 DEF Typed
<1>5. ToSet(backlog') = ToSet(backlog) \cup {j}
  BY <1>4 DEF ToSet
<1>6. j \notin ToSet(backlog) /\ \A n \in Slot : Owner(n) # j
  BY <1>1, <1>2 DEF Owned
<1>7. Execs' /\ Events'
  <2>1. Execs'
    BY <1>1, <1>2 DEF Execs, Busy
  <2>2. Events'
    BY <1>1, <1>2 DEF Events, Shape, Readable, Watched
  <2> QED
    BY <2>1, <2>2
<1>8. Typed'
  <2>1. \A k \in Job : k > launch => slave'[k] = "none"
    BY <1>1, <1>2, <1>3 DEF Typed
  <2> QED
    BY <1>1, <1>2, <1>3, <1>4, <2>1 DEF Typed
<1>9. Owned'
  <2>1. \A n \in Slot : Owner(n)' = Owner(n)
    BY <1>2 DEF Owner, OwnerOf
  <2>2. \A k, s : Runs(k, s)' <=> Runs(k, s)
    BY <1>2 DEF Runs, Busy
  <2>3. \A i, k \in DOMAIN backlog' : backlog'[i] = backlog'[k] => i = k
    <3>1. \A i \in DOMAIN backlog : backlog'[i] # j
      BY <1>4, <1>6 DEF ToSet
    <3>2. \A i, k \in DOMAIN backlog : backlog'[i] = backlog'[k] => i = k
      BY <1>1, <1>4 DEF Owned
    <3> QED
      BY <1>4, <3>1, <3>2
  <2>4. \A k \in Job : k \in ToSet(backlog') \/ slave'[k] = "started" => Runs(k, "WAIT")
    BY <1>1, <1>2, <1>3, <1>5 DEF Owned
  <2>5. \A k \in Job : slave'[k] \in {"none", "started"} =>
           k \notin ToSet(backlog') /\ \A n \in Slot : Owner(n) # k
    BY <1>1, <1>3, <1>5 DEF Owned
  <2>6. \A n \in Slot : Owner(n) # NoJob => Owner(n) \notin ToSet(backlog')
    BY <1>1, <1>5, <1>6 DEF Owned
  <2>7. \A n, m \in Slot : Owner(n) = Owner(m) /\ Owner(n) # NoJob => n = m
    BY <1>1 DEF Owned
  <2>8. \A n \in Slot : Owner(n) # NoJob =>
           Runs(Owner(n), Phase(slot[n]))
    BY <1>1 DEF Owned
  <2> QED
    BY <1>2, <2>1, <2>2, <2>3, <2>4, <2>5, <2>6, <2>7, <2>8 DEF Owned
<1>10. Streams'
  <2>1. \A k \in Job : k # j => Awaited(k)' = Awaited(k)
    BY <1>2, <1>5 DEF Awaited, Expects
  <2>2. \A k \in Job : k # j => Tip(k)' = Tip(k)
    BY <1>2, <2>1 DEF Tip
  <2>3. chan[j] = <<>>
    <3>1. \A n \in Slot : slot[n].conn # j
      <4>1. j # NoJob
        BY CommAssumption DEF NoJob
      <4> QED
        BY <1>6, <4>1 DEF Owner, OwnerOf
    <3>2. Awaited(j) = {}
      BY <1>6, <3>1 DEF Awaited
    <3> QED
      BY <1>1, <3>2 DEF Streams
  <2>4. {Header("BEGIN")} \cup Cuts \subseteq Awaited(j)'
    BY <1>5, PacketKinds, AfterThat DEF Awaited
  <2>5. chan'[j] = <<>> /\ {Header("BEGIN")} \cup Cuts \subseteq Tip(j)'
    BY <1>2, <2>3, <2>4 DEF Tip
  <2> SUFFICES ASSUME NEW k \in Job
               PROVE  /\ chan'[k] # <<>> => chan'[k][1] \in Awaited(k)'
                      /\ \A i \in 1..Len(chan'[k])-1 : chan'[k][i + 1] \in After(chan'[k][i])
                      /\ slave'[k] = "connected" => {Header("BEGIN")} \cup Cuts \subseteq Tip(k)'
                      /\ slave'[k] \in {"running", "asking", "posted"} => Heads \cup Cuts \subseteq Tip(k)'
    BY DEF Streams
  <2>6. CASE k = j
    BY <1>3, <2>5, <2>6
  <2>7. CASE k # j
    BY <1>1, <1>2, <1>3, <2>1, <2>2, <2>7 DEF Streams
  <2> QED
    BY <2>6, <2>7
<1>11. Results'
  <2>1. \A k \in Job : (Sent(k)' <=> Sent(k)) /\ (Held(k)' <=> Held(k)) /\ (Kept(k)' <=> Kept(k))
    BY <1>2 DEF Sent, Held, Kept
  <2>2. ASSUME NEW k \in Job
        PROVE  /\ slave[k] = "ended" <=> slave'[k] = "ended"
               /\ slave'[k] \in {"posted", "ended"} => slave[k] \in {"posted", "ended"}
               /\ slave'[k] \in {"none", "started", "connected", "running", "asking"} =>
                      slave[k] \in {"none", "started", "connected", "running", "asking"}
    BY <1>2, <1>3
  <2>3. \A n \in Slot : slot[n].conn \in Job \cup {NoJob} /\ slot[n].id \in Job \cup {NoJob}
    BY <1>1 DEF Typed, SlotRecord
  <2>4. \A n \in Slot : slot[n].state = "CLOSING" => slot[n].conn # NoJob
    BY <1>1 DEF Events, Shape
  <2>5. ResultsKept'
    BY <1>1, <1>2 DEF Results, ResultsKept
  <2> QED
    BY <1>1, <1>2, <2>1, <2>2, <2>3, <2>4, <2>5 DEF Results
<1>12. Room'
  <2>1. Starting' = Starting \ {j} /\ j \in Starting
    BY <1>2, <1>3 DEF Starting
  <2>2. IsFiniteSet(Starting)
    BY FarmAssumption, FS_Interval, FS_Subset DEF Starting
  <2>3. Cardinality(Starting') = Cardinality(Starting) - 1 /\ Cardinality(Starting) \in Nat
    BY <2>1, <2>2, FS_RemoveElement, FS_CardinalityType
  <2>4. Free' = Free /\ Busy' = Busy
    BY <1>2 DEF Free, Busy
  <2>5. Cardinality(Busy) \in Nat /\ Cardinality(Slot \ Free) \in Nat
    <3>1. IsFiniteSet(Slot \ Free)
      BY FarmAssumption, FS_Difference
    <3> QED
      BY <1>1, <3>1, Counted, FS_CardinalityType
  <2> QED
    BY <1>1, <1>4, <2>3, <2>4, <2>5 DEF Room
<1> QED
  BY <1>7, <1>8, <1>9, <1>10, <1>11, <1>12 DEF Inv

LEMMA SlaveKeeps ==
  ASSUME Inv, NEW j \in Job, Slave(j) \/ Crash(j)
  PROVE  Inv'
<1>1. CASE ReadReply(j)
  BY <1>1, QuietlyKeeps DEF ReadReply
<1> QED
  BY <1>1, CrashKeeps, ConnectKeeps, SlaveSends, PostKeeps DEF Slave

-----------------------------------------------------------------------------
(***************************************************************************)
(* The master's steps that leave slots and connections as they are.        *)
(***************************************************************************)
LEMMA SlotFacts ==
  ASSUME Inv
  PROVE  /\ \A n \in Slot : /\ slot[n] \in SlotRecord /\ Shape(slot[n])
                            /\ slot[n].conn \in Job \cup {NoJob} /\ slot[n].id \in Job \cup {NoJob}
                            /\ slot[n].state = "CLOSING" => slot[n].conn \in Job
                            /\ slot[n].event = "END" => slot[n].id \in Job
         /\ NoJob \notin Job
         /\ \A j \in Job : chan[j] \in Seq(Packet)
<1>1. NoJob \notin Job
  BY CommAssumption DEF NoJob
<1> QED
  BY <1>1 DEF Inv, Typed, Events, Shape, SlotRecord, Results

LEMMA PauseKeeps ==
  ASSUME Inv, Wait \/ Terminate \/ Select \/ ScanClosed
  PROVE  Inv'
<1>1. Execs /\ Typed /\ Events /\ Owned /\ Streams /\ Results /\ Room
  BY DEF Inv
<1>2. /\ UNCHANGED <<slot, chan, backlog, exec, launch, done, cur, file, outcome, slave>>
      /\ pc # "dispatch" /\ pc' \in {"wait", "end", "scan", "dead"}
      /\ pc' # "dead" => pc # "dead" /\ fatal' = fatal
      /\ (ready' = Readable /\ ready' # {}) \/ (ready' = ready /\ pc' # "scan")
  BY DEF Wait, Terminate, Select, ScanClosed, commVars, masterVars, slaveVars
<1>3. Execs' /\ Typed'
  <2>1. Execs'
    BY <1>1, <1>2 DEF Execs, Busy
  <2>2. Typed'
    BY <1>1, <1>2 DEF Typed
  <2> QED
    BY <2>1, <2>2
<1>4. Events'
  <2>1. Readable' = Readable
    BY <1>2 DEF Readable, Watched
  <2>2. \A n \in Slot : slot[n].event # "NONE" => slot[n].id = NoJob
    BY <1>1, <1>2 DEF Events
  <2>3. \A n \in Slot : Shape(slot[n])'
    BY <1>1, <1>2 DEF Events, Shape
  <2>4. ready' \subseteq Readable /\ (pc' = "scan" => ready' # {})
    BY <1>1, <1>2 DEF Events
  <2>5. pc' # "dead" => fatal' = NoFault
    BY <1>1, <1>2 DEF Events
  <2> QED
    BY <1>2, <2>1, <2>2, <2>3, <2>4, <2>5 DEF Events
<1>5. Owned'
  <2>1. \A n \in Slot : Owner(n)' = Owner(n)
    BY <1>2 DEF Owner, OwnerOf
  <2>2. \A k, s : Runs(k, s)' <=> Runs(k, s)
    BY <1>2 DEF Runs, Busy
  <2> QED
    BY <1>1, <1>2, <2>1, <2>2 DEF Owned
<1>6. Streams'
  <2>1. \A k \in Job : Awaited(k)' = Awaited(k)
    BY <1>2 DEF Awaited, Expects
  <2>2. \A k \in Job : Tip(k)' = Tip(k)
    BY <1>2, <2>1 DEF Tip
  <2> QED
    BY <1>1, <1>2, <2>1, <2>2 DEF Streams
<1>7. Results'
  <2>1. \A k \in Job : (Sent(k)' <=> Sent(k)) /\ (Held(k)' <=> Held(k)) /\ (Kept(k)' <=> Kept(k))
    BY <1>2 DEF Sent, Held, Kept
  <2>2. ResultsKept'
    BY <1>1, <1>2 DEF Results, ResultsKept
  <2> QED
    BY <1>1, <1>2, <2>1, <2>2 DEF Results
<1>8. Room'
  <2>1. Starting' = Starting /\ Free' = Free /\ Busy' = Busy
    BY <1>2 DEF Starting, Free, Busy
  <2> QED
    BY <1>1, <1>2, <2>1 DEF Room
<1> QED
  BY <1>3, <1>4, <1>5, <1>6, <1>7, <1>8 DEF Inv

LEMMA LaunchKeeps ==
  ASSUME Inv, Launch
  PROVE  Inv'
<1>1. Execs /\ Typed /\ Events /\ Owned /\ Streams /\ Results /\ Room
  BY DEF Inv
<1>2. PICK n \in Slot \ Busy : n = Lowest(Slot \ Busy)
  <2>1. Slot \ Busy # {}
    BY DEF Launch, CanLaunch, Busy
  <2> QED
    BY <2>1, LowestExists
<1>3. PICK job \in Job : job = launch + 1 /\ slave[job] = "none"
  <2>1. launch + 1 \in Job /\ launch + 1 > launch
    BY <1>1, FarmAssumption DEF Execs, Launch, CanLaunch
  <2> QED
    BY <1>1, <2>1 DEF Typed
<1>4. /\ launch < Jobs /\ launch' = job
      /\ exec' = [exec EXCEPT ![n] = [state |-> "WAIT", job |-> job]]
      /\ slave' = [slave EXCEPT ![job] = "started"]
      /\ UNCHANGED <<slot, chan, backlog, fatal, done, pc, ready, cur, file, outcome>>
  BY <1>2, <1>3 DEF Launch, CanLaunch, commVars
<1>5. Launches(n)
  BY <1>3, <1>4 DEF Launches
<1>6. Execs' /\ Busy' = Busy \cup {n}
  BY <1>1, <1>5, AfterLaunch
<1>7. /\ slave'[job] = "started" /\ \A k \in Job : k # job => slave'[k] = slave[k]
      /\ slave' \in [Job -> {"none", "started", "connected", "running", "asking",
                             "posted", "ended", "dead"}]
  BY <1>1, <1>3, <1>4 DEF Typed
<1>8. Typed'
  <2>1. \A k \in Job : k > launch' => slave'[k] = "none"
    <3>1. launch \in Nat /\ Job \subseteq Nat
      BY <1>1, CommAssumption DEF Execs
    <3> QED
      BY <1>1, <1>3, <1>4, <1>7, <3>1 DEF Typed
  <2> QED
    BY <1>1, <1>4, <1>7, <2>1 DEF Typed
<1>9. Events'
  BY <1>1, <1>4 DEF Events, Shape, Readable, Watched
<1>10. Owned'
  <2>1. \A m \in Slot : Owner(m)' = Owner(m)
    BY <1>4 DEF Owner, OwnerOf
  <2>2. \A k \in Job, s \in {"WAIT", "RUN"} : Runs(k, s) => Runs(k, s)'
    <3>1. \A e \in Slot : exec[e].state \in {"WAIT", "RUN"} => exec'[e] = exec[e]
      BY <1>1, <1>4 DEF Execs, Busy
    <3> QED
      BY <3>1 DEF Runs, RunsIn
  <2>3. Runs(job, "WAIT")'
    <3>1. exec'[n] = [state |-> "WAIT", job |-> job]
      BY <1>1, <1>4 DEF Execs
    <3> QED
      BY <3>1 DEF Runs, RunsIn
  <2>4. \A k \in Job : k \in ToSet(backlog) \/ slave'[k] = "started" => Runs(k, "WAIT")'
    BY <1>1, <1>7, <2>2, <2>3 DEF Owned
  <2>5. \A k \in Job : slave'[k] \in {"none", "started"} =>
           k \notin ToSet(backlog) /\ \A m \in Slot : Owner(m) # k
    BY <1>1, <1>3, <1>7 DEF Owned
  <2>6. ASSUME NEW m \in Slot, Owner(m)' # NoJob PROVE Runs(Owner(m), Phase(slot[m]))'
    <3>1. Owner(m) \in Job /\ Phase(slot[m]) \in {"WAIT", "RUN"} /\ Runs(Owner(m), Phase(slot[m]))
      BY <1>1, <2>1, <2>6, SlotFacts DEF Owned, Owner, OwnerOf, Phase
    <3>2. \A k \in Job, s \in {"WAIT", "RUN"} : Runs(k, s) => RunsIn(exec', k, s)
      BY <2>2 DEF Runs
    <3>3. RunsIn(exec', Owner(m), Phase(slot[m]))
      BY <3>1, <3>2
    <3> QED
      BY <1>4, <2>1, <3>3 DEF Runs
  <2> QED
    BY <1>1, <1>4, <2>1, <2>4, <2>5, <2>6 DEF Owned
<1>11. Streams'
  <2>1. \A k \in Job : Awaited(k)' = Awaited(k)
    BY <1>4 DEF Awaited, Expects
  <2>2. \A k \in Job : Tip(k)' = Tip(k)
    BY <1>4, <2>1 DEF Tip
  <2>3. \A k \in Job : slave'[k] \in {"connected", "running", "asking", "posted"} => slave'[k] = slave[k]
    BY <1>7
  <2> QED
    BY <1>1, <1>4, <2>1, <2>2, <2>3 DEF Streams
<1>12. Results'
  <2>1. \A k \in Job : (Sent(k)' <=> Sent(k)) /\ (Held(k)' <=> Held(k)) /\ (Kept(k)' <=> Kept(k))
    BY <1>4 DEF Sent, Held, Kept
  <2>2. ASSUME NEW k \in Job
        PROVE  /\ slave[k] = "ended" <=> slave'[k] = "ended"
               /\ slave'[k] \in {"posted", "ended"} => slave[k] \in {"posted", "ended"}
               /\ slave'[k] \in {"none", "started", "connected", "running", "asking"} =>
                      slave[k] \in {"none", "started", "connected", "running", "asking"}
    BY <1>3, <1>7
  <2>3. ResultsKept'
    BY <1>1, <1>4 DEF Results, ResultsKept
  <2> QED
    BY <1>1, <1>4, <2>1, <2>2, <2>3, SlotFacts DEF Results
<1>13. Room'
  <2>1. Starting' = Starting \cup {job} /\ job \notin Starting
    BY <1>3, <1>7 DEF Starting
  <2>2. IsFiniteSet(Starting)
    BY FarmAssumption, FS_Interval, FS_Subset DEF Starting
  <2>3. Cardinality(Starting') = Cardinality(Starting) + 1 /\ Cardinality(Starting) \in Nat
    BY <2>1, <2>2, FS_AddElement, FS_CardinalityType
  <2>4. Cardinality(Busy') = Cardinality(Busy) + 1 /\ Cardinality(Busy) \in Nat
    BY <1>1, <1>6, Counted, FS_AddElement
  <2>5. Free' = Free
    BY <1>4 DEF Free
  <2>6. Len(backlog) \in Nat /\ Cardinality(Slot \ Free) \in Nat
    <3>1. IsFiniteSet(Slot \ Free)
      BY FarmAssumption, FS_Difference
    <3> QED
      BY <1>1, <3>1, FS_CardinalityType DEF Typed
  <2> QED
    BY <1>1, <1>4, <2>3, <2>4, <2>5, <2>6 DEF Room
<1> QED
  BY <1>6, <1>8, <1>9, <1>10, <1>11, <1>12, <1>13 DEF Inv

(***************************************************************************)
(* A connection to accept finds a free slot.                               *)
(***************************************************************************)
LEMMA FreeSlotLeft ==
  ASSUME Inv, backlog # <<>>
  PROVE  Free # {}
<1>1. Execs /\ Room /\ backlog \in Seq(Job)
  BY DEF Inv, Typed
<1>2. Cardinality(Busy) <= Cardinality(Slot) /\ Cardinality(Busy) \in Nat /\ Cardinality(Slot) \in Nat
  <2>1. Busy \in SUBSET Slot
    BY DEF Busy
  <2> QED
    BY <2>1, FarmAssumption, FS_Subset, FS_CardinalityType
<1>3. Len(backlog) \in Nat /\ Len(backlog) >= 1
  BY <1>1
<1>4. Cardinality(Starting) \in Nat
  <2>1. IsFiniteSet(Starting)
    BY FarmAssumption, FS_Interval, FS_Subset DEF Starting
  <2> QED
    BY <2>1, FS_CardinalityType
<1>5. ASSUME Free = {} PROVE FALSE
  <2>1. Slot \ Free = Slot
    BY <1>5
  <2>2. Cardinality(Slot \ Free) = Cardinality(Slot)
    BY <2>1
  <2>3. Len(backlog) + Cardinality(Slot \ Free) + Cardinality(Starting) <= Cardinality(Busy)
    BY <1>1 DEF Room
  <2> HIDE DEF Busy, Starting, Free
  <2> QED
    BY <1>2, <1>3, <1>4, <2>2, <2>3
<1> QED
  BY <1>5

(***************************************************************************)
(* A connection is accepted in the first free slot, and waits no more.     *)
(***************************************************************************)
Accepted(n, job, new) ==
    /\ slot' = [slot EXCEPT ![n] = new] /\ backlog' = Tail(backlog)
    /\ UNCHANGED <<fatal, chan, exec, launch, done, ready, cur, file, outcome, slave, reply, gone>>
    /\ pc = "wait" /\ pc' = "fill"
    /\ slot[n].state = "FREE" /\ slot[n] \in SlotRecord /\ Shape(slot[n])
    /\ backlog # <<>> /\ job = Head(backlog)
    /\ new.state = "BEGIN" /\ new.conn = job /\ new.id = NoJob
    /\ new.part = "header" /\ new.event = "NONE"

LEMMA AcceptFinds ==
  ASSUME Inv, Accept
  PROVE  \E n \in Free, job \in Job, new \in SlotRecord : Accepted(n, job, new)
<1>1. Typed /\ Events
  BY DEF Inv
<1>2. backlog # <<>> /\ Free # {}
  BY FreeSlotLeft DEF Accept
<1>3. PICK n \in Free : n = Lowest(Free)
  BY <1>2, LowestExists DEF Free
<1>4. PICK job \in Job : job = Head(backlog)
  BY <1>1, <1>2 DEF Typed
<1>5. PICK new : new = [slot[n] EXCEPT !.state = "BEGIN", !.conn = job, !.id = NoJob, !.part = "header"]
  OBVIOUS
<1>6. /\ slot' = [slot EXCEPT ![n] = new] /\ backlog' = Tail(backlog)
      /\ UNCHANGED <<fatal, chan, exec, launch, done, ready, cur, file, outcome, slave, reply, gone>>
      /\ pc = "wait" /\ pc' = "fill"
  <2>1. fatal' = fatal /\ pc = "wait" /\ fatal = NoFault
    BY <1>1, <1>2 DEF Accept, HandleIncomingConnection, Events
  <2>2. slot' = [slot EXCEPT ![n] = new] /\ backlog' = Tail(backlog)
    BY <1>2, <1>3, <1>4, <1>5 DEF Accept, HandleIncomingConnection
  <2> QED
    BY <2>1, <2>2 DEF Accept, HandleIncomingConnection, StopIfFatal, slaveVars
<1>7. n \in Slot /\ slot[n].state = "FREE" /\ slot[n] \in SlotRecord /\ Shape(slot[n])
  BY <1>3, SlotFacts DEF Free
<1>8. /\ new \in SlotRecord /\ new.state = "BEGIN" /\ new.conn = job /\ new.id = NoJob
      /\ new.part = "header" /\ new.event = "NONE"
  BY <1>4, <1>5, <1>7 DEF SlotRecord, Shape
<1>9. Accepted(n, job, new)
  BY <1>2, <1>4, <1>6, <1>7, <1>8 DEF Accepted
<1> QED
  BY <1>3, <1>4, <1>8, <1>9

LEMMA AcceptedLeaves ==
  ASSUME Inv, NEW n \in Free, NEW job \in Job, NEW new \in SlotRecord, Accepted(n, job, new)
  PROVE  /\ backlog \in Seq(Job) /\ backlog' \in Seq(Job) /\ Len(backlog) \in Nat /\ Len(backlog) >= 1
         /\ Len(backlog') = Len(backlog) - 1 /\ job = backlog[1]
         /\ DOMAIN backlog = 1..Len(backlog) /\ DOMAIN backlog' = 1..Len(backlog)-1
         /\ \A i \in 1..Len(backlog)-1 : backlog'[i] = backlog[i + 1]
         /\ slot' \in [Slot -> SlotRecord] /\ slot'[n] = new
         /\ \A m \in Slot : m # n => slot'[m] = slot[m]
         /\ ToSet(backlog') = ToSet(backlog) \ {job} /\ job \in ToSet(backlog)
         /\ Owner(n)' = job /\ Owner(n) = NoJob /\ job # NoJob
         /\ \A m \in Slot : m # n => Owner(m)' = Owner(m)
<1>1. Typed /\ Owned
  BY DEF Inv
<1>2. /\ backlog \in Seq(Job) /\ backlog' \in Seq(Job) /\ Len(backlog) \in Nat /\ Len(backlog) >= 1
      /\ Len(backlog') = Len(backlog) - 1 /\ job = backlog[1]
      /\ DOMAIN backlog = 1..Len(backlog) /\ DOMAIN backlog' = 1..Len(backlog)-1
      /\ \A i \in 1..Len(backlog)-1 : backlog'[i] = backlog[i + 1]
  BY <1>1 DEF Typed, Accepted
<1>3. /\ slot' \in [Slot -> SlotRecord] /\ slot'[n] = new
      /\ \A m \in Slot : m # n => slot'[m] = slot[m]
  BY <1>1 DEF Typed, Accepted, Free
<1>4. ToSet(backlog') = ToSet(backlog) \ {job} /\ job \in ToSet(backlog)
  <2>1. \A i \in 1..Len(backlog)-1 : i + 1 \in 1..Len(backlog) /\ i + 1 # 1
    BY <1>2
  <2>2. \A k \in 1..Len(backlog) : k = 1 \/ (k - 1 \in 1..Len(backlog)-1 /\ backlog'[k - 1] = backlog[k])
    BY <1>2
  <2>3. 1 \in 1..Len(backlog)
    BY <1>2
  <2>4. \A i, k \in DOMAIN backlog : backlog[i] = backlog[k] => i = k
    BY <1>1 DEF Owned
  <2>5. ASSUME NEW x \in ToSet(backlog') PROVE x \in ToSet(backlog) \ {job}
    <3>1. PICK i \in 1..Len(backlog)-1 : x = backlog'[i]
      BY <1>2 DEF ToSet
    <3> QED
      BY <1>2, <2>1, <2>3, <2>4, <3>1 DEF ToSet
  <2>6. ASSUME NEW x \in ToSet(backlog), x # job PROVE x \in ToSet(backlog')
    <3>1. PICK k \in 1..Len(backlog) : x = backlog[k]
      BY <1>2 DEF ToSet
    <3> QED
      BY <1>2, <2>2, <2>6, <3>1 DEF ToSet
  <2>7. job \in ToSet(backlog)
    BY <1>2, <2>3 DEF ToSet
  <2> QED
    BY <2>5, <2>6, <2>7
<1>5. Owner(n)' = job /\ Owner(n) = NoJob /\ (\A m \in Slot : m # n => Owner(m)' = Owner(m)) /\ job # NoJob
  BY <1>3, SlotFacts DEF Accepted, Owner, OwnerOf, Shape
<1> QED
  BY <1>2, <1>3, <1>4, <1>5

LEMMA AcceptKeeps ==
  ASSUME Inv, Accept
  PROVE  Inv'
<1>1. Execs /\ Typed /\ Events /\ Owned /\ Streams /\ Results /\ Room
  BY DEF Inv
<1>3. PICK n \in Free, job \in Job, new \in SlotRecord : Accepted(n, job, new)
  BY AcceptFinds
<1>4. /\ slot' = [slot EXCEPT ![n] = new] /\ backlog' = Tail(backlog)
      /\ UNCHANGED <<fatal, chan, exec, launch, done, ready, cur, file, outcome, slave>>
      /\ pc = "wait" /\ pc' = "fill"
  BY <1>3 DEF Accepted
<1>5. n \in Slot /\ slot[n].state = "FREE" /\ slot[n] \in SlotRecord /\ Shape(slot[n])
  BY <1>3 DEF Accepted, Free
<1>6. /\ backlog \in Seq(Job) /\ backlog' \in Seq(Job) /\ Len(backlog) \in Nat /\ Len(backlog) >= 1
      /\ Len(backlog') = Len(backlog) - 1 /\ job = backlog[1] /\ job \in Job
      /\ DOMAIN backlog = 1..Len(backlog) /\ DOMAIN backlog' = 1..Len(backlog)-1
      /\ \A i \in 1..Len(backlog)-1 : backlog'[i] = backlog[i + 1]
  BY <1>3, AcceptedLeaves
<1>7. /\ new \in SlotRecord /\ new.state = "BEGIN" /\ new.conn = job /\ new.id = NoJob
      /\ new.part = "header" /\ new.event = "NONE"
  BY <1>3 DEF Accepted
<1>8. /\ slot' \in [Slot -> SlotRecord] /\ slot'[n] = new
      /\ \A m \in Slot : m # n => slot'[m] = slot[m]
  BY <1>3, AcceptedLeaves
<1>9. ToSet(backlog') = ToSet(backlog) \ {job} /\ job \in ToSet(backlog)
  BY <1>3, AcceptedLeaves
<1>10. Owner(n)' = job /\ Owner(n) = NoJob /\ (\A m \in Slot : m # n => Owner(m)' = Owner(m)) /\ job # NoJob
  BY <1>3, AcceptedLeaves
<1>11. Execs' /\ Typed'
  <2>1. Execs'
    BY <1>1, <1>4 DEF Execs, Busy
  <2>2. Typed'
    BY <1>1, <1>4, <1>6, <1>8 DEF Typed
  <2> QED
    BY <2>1, <2>2
<1>12. Events'
  <2>1. Shape(new)
    BY <1>6, <1>7, <1>10 DEF Shape
  <2>2. (\A m \in Slot : Shape(slot[m]))'
    BY <1>8, <2>1, SlotFacts DEF Shape
  <2>3. ready' \subseteq Readable'
    <3> SUFFICES ASSUME NEW m \in ready PROVE m \in Readable'
      BY <1>4
    <3>1. m \in Readable
      BY <1>1 DEF Events
    <3>2. m # n
      BY <1>5, <3>1 DEF Readable, Watched
    <3> QED
      BY <1>4, <1>8, <3>1, <3>2 DEF Readable, Watched
  <2>4. \A m \in Slot : slot'[m].event # "NONE" => slot'[m].id = NoJob
    BY <1>1, <1>4, <1>7, <1>8 DEF Events
  <2>5. fatal' = NoFault
    BY <1>1, <1>4 DEF Events
  <2> QED
    BY <1>4, <2>2, <2>3, <2>4, <2>5 DEF Events
<1>13. Owned'
  <2>1. \A k, s : Runs(k, s)' <=> Runs(k, s)
    BY <1>4 DEF Runs, Busy
  <2>2. \A m \in Slot : Owner(m) # job
    BY <1>1, <1>9, <1>10 DEF Owned
  <2>3. \A l, m \in Slot : Owner(l)' = Owner(m)' /\ Owner(l)' # NoJob => l = m
    BY <1>1, <1>10, <2>2 DEF Owned
  <2>4. \A m \in Slot : Owner(m)' # NoJob => Owner(m)' \notin ToSet(backlog')
    BY <1>1, <1>9, <1>10 DEF Owned
  <2>5. \A i, k \in DOMAIN backlog' : backlog'[i] = backlog'[k] => i = k
    <3>1. \A i, k \in DOMAIN backlog : backlog[i] = backlog[k] => i = k
      BY <1>1 DEF Owned
    <3>2. \A i \in DOMAIN backlog' : i + 1 \in DOMAIN backlog /\ i \in Int
      BY <1>6
    <3> QED
      BY <1>6, <3>1, <3>2
  <2>6. ASSUME NEW m \in Slot, Owner(m)' # NoJob PROVE Runs(Owner(m), Phase(slot[m]))'
    <3>1. CASE m = n
      <4>1. Runs(job, "WAIT") /\ Phase(new) = "WAIT"
        BY <1>1, <1>6, <1>7, <1>9 DEF Owned, Phase
      <4> QED
        BY <1>4, <1>8, <1>10, <3>1, <4>1 DEF Runs
    <3>2. CASE m # n
      <4>1. Runs(Owner(m), Phase(slot[m]))
        BY <1>1, <1>10, <2>6, <3>2 DEF Owned
      <4> QED
        BY <1>4, <1>8, <1>10, <3>2, <4>1 DEF Runs
    <3> QED
      BY <3>1, <3>2
  <2>7. \A k \in Job : k \in ToSet(backlog') \/ slave'[k] = "started" => Runs(k, "WAIT")
    BY <1>1, <1>4, <1>9 DEF Owned
  <2>8. \A k \in Job : slave'[k] \in {"none", "started"} =>
           k \notin ToSet(backlog') /\ \A m \in Slot : Owner(m)' # k
    BY <1>1, <1>4, <1>9, <1>10 DEF Owned
  <2> QED
    BY <2>1, <2>3, <2>4, <2>5, <2>6, <2>7, <2>8 DEF Owned
<1>14. Streams'
  <2>1. Expects(new) = Cuts \cup {Header("BEGIN")}
    BY <1>7 DEF Expects
  <2>2. ASSUME NEW k \in Job PROVE Awaited(k)' = Awaited(k)
    <3>1. slot[n].conn # k
      BY <1>5, SlotFacts DEF Shape
    <3>2. \A m \in Slot : slot[m].conn = k => k \notin ToSet(backlog)
      BY <1>1, SlotFacts DEF Owned, Owner, OwnerOf
    <3>3. CASE k = job
      <4>1. Awaited(k) = {p \in Packet : p \in Cuts \cup {Header("BEGIN")}}
        BY <1>9, <3>2, <3>3 DEF Awaited
      <4>2. Awaited(k)' = {p \in Packet : p \in Expects(new)}
        <5>1. \A m \in Slot : slot'[m].conn = k => m = n
          BY <1>8, <1>9, <3>2, <3>3
        <5>2. slot'[n] = new /\ new.conn = k /\ n \in Slot
          BY <1>5, <1>7, <1>8, <3>3
        <5>3. k \notin ToSet(backlog')
          BY <1>9, <3>3
        <5> QED
          BY <5>1, <5>2, <5>3 DEF Awaited, Expects
      <4> QED
        BY <2>1, <4>1, <4>2
    <3>4. CASE k # job
      <4>1. k \in ToSet(backlog') <=> k \in ToSet(backlog)
        BY <1>9, <3>4
      <4>2. \A m \in Slot : slot'[m].conn = k <=> slot[m].conn = k
        BY <1>7, <1>8, <3>1, <3>4
      <4>3. \A m \in Slot : slot[m].conn = k => slot'[m] = slot[m]
        BY <1>8, <3>1
      <4> QED
        BY <4>1, <4>2, <4>3 DEF Awaited, Expects
    <3> QED
      BY <3>3, <3>4
  <2>3. \A k \in Job : Tip(k)' = Tip(k)
    BY <1>4, <2>2 DEF Tip
  <2> QED
    BY <1>1, <1>4, <2>2, <2>3 DEF Streams
<1>15. Results'
  <2>1. \A k \in Job : (Sent(k)' <=> Sent(k)) /\ (Kept(k)' <=> Kept(k))
    BY <1>4 DEF Sent, Kept
  <2>2. \A k \in Job : Held(k)' <=> Held(k)
    <3>1. slot'[n].event # "DATA" /\ slot[n].event # "DATA"
      BY <1>5, <1>7, <1>8 DEF Shape
    <3>2. \A m \in Slot : slot'[m].event = "DATA" \/ slot[m].event = "DATA" => slot'[m] = slot[m]
      BY <1>8, <3>1
    <3> QED
      BY <3>2 DEF Held
  <2>3. \A m \in Slot : slot'[m].state = "CLOSING" \/ slot'[m].event = "END" => slot'[m] = slot[m]
    BY <1>7, <1>8
  <2>4. ResultsKept'
    BY <1>1, <1>4 DEF Results, ResultsKept
  <2> QED
    BY <1>1, <1>4, <2>1, <2>2, <2>3, <2>4 DEF Results
<1>16. Room'
  <2>1. Slot \ Free' = (Slot \ Free) \cup {n} /\ n \notin Slot \ Free
    BY <1>3, <1>5, <1>7, <1>8 DEF Free
  <2>2. IsFiniteSet(Slot \ Free) /\ Cardinality(Slot \ Free) \in Nat
    BY FarmAssumption, FS_Difference, FS_CardinalityType
  <2> DEFINE used == Slot \ Free
  <2>3. Cardinality(used') = Cardinality(used) + 1
    <3>1. used' = used \cup {n} /\ n \notin used /\ IsFiniteSet(used)
      BY <2>1, <2>2
    <3> HIDE DEF used
    <3> QED
      BY <3>1, FS_AddElement
  <2>4. Starting' = Starting /\ Busy' = Busy
    BY <1>4 DEF Starting, Busy
  <2>5. Cardinality(Starting) \in Nat /\ Cardinality(Busy) \in Nat
    <3>1. IsFiniteSet(Starting)
      BY FarmAssumption, FS_Interval, FS_Subset DEF Starting
    <3> QED
      BY <1>1, <3>1, Counted, FS_CardinalityType
  <2> QED
    BY <1>1, <1>6, <2>2, <2>3, <2>4, <2>5 DEF Room
<1> QED
  BY <1>11, <1>12, <1>13, <1>14, <1>15, <1>16 DEF Inv

-----------------------------------------------------------------------------
(***************************************************************************)
(* What a packet in its turn makes of the slot that receives it.           *)
(***************************************************************************)
Turned(s, p) ==
    CASE p.kind = "reset" -> s
      [] p.kind = "eof" -> [s EXCEPT !.state = "CLOSED", !.conn = NoJob,
                                     !.event = IF s.state = "CLOSING" THEN "END" ELSE "ABORT"]
      [] p.kind = "header" -> IF p.type = "END" THEN [s EXCEPT !.state = "CLOSING"]
                              ELSE [s EXCEPT !.part = p.type]
      [] OTHER -> IF s.state = "BEGIN"
                  THEN [s EXCEPT !.state = "RUNNING", !.id = s.conn,
                                 !.event = "BEGIN", !.part = "header"]
                  ELSE IF s.part = "DATA"
                  THEN [s EXCEPT !.event = "DATA", !.buffer = p.type, !.part = "header"]
                  ELSE [s EXCEPT !.part = "header"]

(***************************************************************************)
(* The slot keeps its shape and awaits what may follow the packet; a       *)
(* result is in it exactly when the packet is one.                         *)
(***************************************************************************)
TurnsWell(s, p, t) ==
    /\ t \in SlotRecord /\ Shape(t) /\ t.state # "FREE"
    /\ t.conn \in {s.conn, NoJob} /\ t.id \in {s.conn, NoJob}
    /\ After(p) # {} => t.conn = s.conn /\ After(p) \subseteq Expects(t)
    /\ OwnerOf(t) # NoJob => OwnerOf(t) = s.conn /\ Phase(t) = Phase(s)
    /\ t.event = "DATA" /\ t.buffer = "POST" <=> p = Body("POST")
    /\ p = Body("POST") => t.id = s.conn
    /\ t.state = "CLOSING" => t.conn = s.conn /\ (s.state = "CLOSING" \/ p = Header("END"))
    /\ t.event = "END" => s.state = "CLOSING" /\ t.id = s.conn

LEMMA Turns ==
  ASSUME NEW s \in SlotRecord, Shape(s), s.state \in {"BEGIN", "RUNNING", "CLOSING"},
         s.event = "NONE", NEW p \in Expects(s)
  PROVE  TurnsWell(s, p, Turned(s, p))
<1>0. s.conn \in Job /\ NoJob \notin Job
  BY CommAssumption DEF SlotRecord, Shape, NoJob
<1>1. \/ p \in Cuts
      \/ s.state = "BEGIN" /\ s.part = "header" /\ p = Header("BEGIN")
      \/ s.state = "BEGIN" /\ s.part = "BEGIN" /\ p = Body("id")
      \/ s.state = "RUNNING" /\ s.part = "header" /\ p \in Heads
      \/ s.state = "RUNNING" /\ s.part = "DATA" /\ \E w \in {"INFO", "ASK", "POST"} : p = Body(w)
      \/ s.state = "RUNNING" /\ s.part \in {"TOKEN", "CHECK"} /\ p = Body("key")
  BY DEF Expects, BodiesOf, Shape, SlotRecord
<1>2. CASE p = Eof
  <2>1. Turned(s, p) = [s EXCEPT !.state = "CLOSED", !.conn = NoJob,
                                 !.event = IF s.state = "CLOSING" THEN "END" ELSE "ABORT"]
    BY <1>2, PacketKinds DEF Turned
  <2> QED
    BY <1>0, <1>2, <2>1, AfterThat, PacketKinds
       DEF TurnsWell, SlotRecord, Shape, OwnerOf, Phase
<1>3. CASE p = Reset
  <2>1. Turned(s, p) = s
    BY <1>3, PacketKinds DEF Turned
  <2> QED
    BY <1>0, <1>3, <2>1, AfterThat, PacketKinds
       DEF TurnsWell, SlotRecord, Shape, OwnerOf, Phase
<1>4. CASE s.state = "BEGIN" /\ s.part = "header" /\ p = Header("BEGIN")
  <2>1. Turned(s, p) = [s EXCEPT !.part = "BEGIN"]
    BY <1>4, PacketKinds DEF Turned
  <2>2. After(p) \subseteq Expects(Turned(s, p))
    BY <1>4, <2>1, AfterThat DEF Expects, BodiesOf, SlotRecord
  <2> QED
    BY <1>0, <1>4, <2>1, <2>2, PacketKinds
       DEF TurnsWell, SlotRecord, Shape, OwnerOf, Phase
<1>5. CASE s.state = "BEGIN" /\ s.part = "BEGIN" /\ p = Body("id")
  <2>1. Turned(s, p) = [s EXCEPT !.state = "RUNNING", !.id = s.conn,
                                 !.event = "BEGIN", !.part = "header"]
    BY <1>5, PacketKinds DEF Turned
  <2>2. After(p) \subseteq Expects(Turned(s, p))
    BY <1>5, <2>1, AfterThat DEF Expects, SlotRecord
  <2>3. PICK t : t = Turned(s, p)
    OBVIOUS
  <2>4. t \in SlotRecord
    BY <1>0, <2>1, <2>3 DEF SlotRecord
  <2>5. /\ t.state = "RUNNING" /\ t.event = "BEGIN" /\ t.conn = s.conn /\ t.id = s.conn
        /\ t.part = "header"
    BY <1>5, <2>1, <2>3 DEF SlotRecord
  <2>6. p # Body("POST")
    BY <1>5, PacketKinds
  <2>7. Shape(t) /\ OwnerOf(t) = s.conn /\ Phase(t) = Phase(s)
    BY <1>0, <1>5, <2>5 DEF Shape, OwnerOf, Phase
  <2>8. After(p) \subseteq Expects(t)
    BY <2>2, <2>3
  <2>9. TurnsWell(s, p, t)
    BY <2>4, <2>5, <2>6, <2>7, <2>8 DEF TurnsWell
  <2> QED
    BY <2>3, <2>9
<1>6. CASE s.state = "RUNNING" /\ s.part = "header" /\ p = Header("END")
  <2>1. Turned(s, p) = [s EXCEPT !.state = "CLOSING"]
    BY <1>6, PacketKinds DEF Turned
  <2>2. After(p) \subseteq Expects(Turned(s, p))
    BY <1>6, <2>1, AfterThat DEF Expects, SlotRecord
  <2> QED
    BY <1>0, <1>6, <2>1, <2>2, PacketKinds
       DEF TurnsWell, SlotRecord, Shape, OwnerOf, Phase
<1>7. ASSUME NEW type \in {"DATA", "TOKEN", "CHECK"}, p = Header(type),
             s.state = "RUNNING", s.part = "header"
      PROVE  TurnsWell(s, p, Turned(s, p))
  <2>1. Turned(s, p) = [s EXCEPT !.part = type]
    BY <1>7, PacketKinds DEF Turned
  <2>2. After(p) \subseteq Expects(Turned(s, p))
    BY <1>7, <2>1, AfterThat DEF Expects, BodiesOf, SlotRecord
  <2>3. PICK t : t = Turned(s, p)
    OBVIOUS
  <2>4. t \in SlotRecord
    BY <2>1, <2>3 DEF SlotRecord
  <2>5. /\ t.state = "RUNNING" /\ t.event = "NONE" /\ t.conn = s.conn /\ t.id = s.id
        /\ t.part = type
    BY <1>7, <2>1, <2>3 DEF SlotRecord
  <2>6. s.id = s.conn /\ s.conn # NoJob
    BY <1>0, <1>7 DEF Shape
  <2>7. p # Body("POST")
    BY <1>7, PacketKinds
  <2>8. Shape(t) /\ OwnerOf(t) = s.conn /\ Phase(t) = Phase(s)
    BY <1>7, <2>5, <2>6 DEF Shape, OwnerOf, Phase
  <2>9. After(p) \subseteq Expects(t)
    BY <2>2, <2>3
  <2>10. TurnsWell(s, p, t)
    BY <2>4, <2>5, <2>6, <2>7, <2>8, <2>9 DEF TurnsWell
  <2> QED
    BY <2>3, <2>10
<1>8. ASSUME NEW w \in {"INFO", "ASK", "POST"}, p = Body(w), s.state = "RUNNING", s.part = "DATA"
      PROVE  TurnsWell(s, p, Turned(s, p))
  <2>1. Turned(s, p) = [s EXCEPT !.event = "DATA", !.buffer = w, !.part = "header"]
    BY <1>8, PacketKinds DEF Turned
  <2>2. After(p) \subseteq Expects(Turned(s, p))
    BY <1>8, <2>1, AfterThat DEF Expects, SlotRecord
  <2>3. p = Body("POST") <=> w = "POST"
    BY <1>8, PacketKinds
  <2>4. Turned(s, p) \in SlotRecord
    BY <2>1 DEF SlotRecord
  <2> QED
    BY <1>0, <1>8, <2>1, <2>2, <2>3, <2>4
       DEF TurnsWell, SlotRecord, Shape, OwnerOf, Phase
<1>9. CASE s.state = "RUNNING" /\ s.part \in {"TOKEN", "CHECK"} /\ p = Body("key")
  <2>1. Turned(s, p) = [s EXCEPT !.part = "header"]
    BY <1>9, PacketKinds DEF Turned
  <2>2. After(p) \subseteq Expects(Turned(s, p))
    BY <1>9, <2>1, AfterThat DEF Expects, SlotRecord
  <2> QED
    BY <1>0, <1>9, <2>1, <2>2, PacketKinds
       DEF TurnsWell, SlotRecord, Shape, OwnerOf, Phase
<1> QED
  BY <1>1, <1>2, <1>3, <1>4, <1>5, <1>6, <1>7, <1>8, <1>9 DEF Cuts, Heads

(***************************************************************************)
(* A step of the scan receives a packet in its turn.                       *)
(***************************************************************************)
Received(n, job, new) ==
    /\ pc = "scan" /\ slot[n].conn = job /\ slot[n].event = "NONE" /\ chan[job] # <<>>
    /\ TurnsWell(slot[n], Head(chan[job]), new)
    /\ slot' = [slot EXCEPT ![n] = new]
    /\ chan' = [chan EXCEPT ![job] = Tail(@)]
    /\ ready' = IF new.event # "NONE" THEN {} ELSE ready \ {n}
    /\ cur' = IF new.event # "NONE" THEN new.id ELSE NoJob
    /\ StopIfFatal(IF new.event # "NONE" THEN IF cur' # NoJob THEN "dispatch" ELSE "fill"
                   ELSE IF ready' # {} THEN "scan" ELSE "fill")
    /\ fatal' \in {NoFault, "recv", "send"}
    /\ new.event # "NONE" => fatal' = NoFault
    /\ UNCHANGED <<backlog, exec, launch, done, file, outcome, slave>>

Heard(n, job, new) ==
    /\ Head(chan[job]) \in Expects(slot[n])
    /\ new = Turned(slot[n], Head(chan[job]))
    /\ fatal' = NoFault => Head(chan[job]) # Reset
    /\ fatal' = NoFault /\ Head(chan[job]) = Body("key") => job \in reply' \cup gone
    /\ reply \subseteq reply' /\ gone' = gone

LEMMA ScanReceives ==
  ASSUME Inv, Scan
  PROVE  \E n \in Slot, job \in Job, new \in SlotRecord :
            Received(n, job, new) /\ Heard(n, job, new)
<1>1. Execs /\ Typed /\ Events /\ Owned /\ Streams /\ Results /\ Room
  BY DEF Inv
<1>2. PICK n \in ready : n = Lowest(ready)
  <2>1. ready # {} /\ ready \subseteq Slot
    BY <1>1 DEF Scan, Events, Readable, Watched
  <2> QED
    BY <2>1, LowestExists
<1>3. n \in Slot /\ slot[n].event = "NONE" /\ slot[n].state \in {"BEGIN", "RUNNING", "CLOSING"}
      /\ chan[slot[n].conn] # <<>> /\ slot[n] \in SlotRecord /\ Shape(slot[n])
  BY <1>1, SlotFacts DEF Events, Readable, Watched
<1>4. PICK job \in Job : job = slot[n].conn
  BY <1>3, SlotFacts DEF Shape
<1>5. PICK packet \in Packet : packet = Head(chan[job]) /\ packet \in Expects(slot[n])
  <2>1. chan[job] \in Seq(Packet) /\ chan[job] # <<>>
    BY <1>3, <1>4, SlotFacts
  <2>2. Head(chan[job]) \in Packet /\ Head(chan[job]) = chan[job][1]
    BY <2>1
  <2>3. chan[job][1] \in Awaited(job)
    BY <1>1, <2>1 DEF Streams
  <2>4. \A m \in Slot : slot[m].conn = job => m = n
    BY <1>1, <1>3, <1>4, SlotFacts DEF Owned, Owner, OwnerOf
  <2>5. job \notin ToSet(backlog)
    BY <1>1, <1>3, <1>4, SlotFacts DEF Owned, Owner, OwnerOf
  <2>6. chan[job][1] \in Expects(slot[n])
    BY <2>3, <2>4, <2>5 DEF Awaited
  <2> QED
    BY <2>2, <2>6
<1>6. PICK new \in SlotRecord : new = Turned(slot[n], packet) /\ TurnsWell(slot[n], packet, new)
  <2>1. TurnsWell(slot[n], packet, Turned(slot[n], packet))
    BY <1>3, <1>5, Turns
  <2> QED
    BY <2>1 DEF TurnsWell
<1>7. /\ HandleIncomingData(n)
      /\ ready' = IF slot'[n].event # "NONE" THEN {} ELSE ready \ {n}
      /\ cur' = IF slot'[n].event # "NONE" THEN slot'[n].id ELSE NoJob
      /\ StopIfFatal(IF slot'[n].event # "NONE" THEN IF cur' # NoJob THEN "dispatch" ELSE "fill"
                     ELSE IF ready' # {} THEN "scan" ELSE "fill")
      /\ UNCHANGED <<exec, launch, done, file, outcome, slave>>
      /\ pc = "scan" /\ fatal = NoFault
  BY <1>1, <1>2 DEF Scan, slaveVars, Events
<1>8. chan' = [chan EXCEPT ![job] = Tail(@)] /\ UNCHANGED backlog
  BY <1>4, <1>7 DEF HandleIncomingData
<1>9. /\ slot' = [slot EXCEPT ![n] = new]
      /\ fatal' \in {NoFault, "recv", "send"}
      /\ new.event # "NONE" => fatal' = NoFault
  <2>1. slot \in [Slot -> SlotRecord]
    BY <1>1 DEF Typed
  <2>2. CASE packet.kind = "reset"
    <3>1. new = slot[n]
      BY <1>6, <2>2 DEF Turned
    <3>2. slot' = slot /\ fatal' = "recv"
      BY <1>4, <1>5, <1>7, <2>2 DEF HandleIncomingData
    <3> QED
      BY <1>3, <2>1, <3>1, <3>2
  <2>3. CASE packet.kind = "eof"
    <3>1. Disconnect(n) /\ UNCHANGED fatal
      BY <1>4, <1>5, <1>7, <2>3 DEF HandleIncomingData
    <3> QED
      BY <1>3, <1>6, <1>7, <2>1, <2>3, <3>1 DEF Disconnect, Turned
  <2>4. CASE packet.kind = "header"
    <3>1. HandleHeader(n, packet.type) /\ UNCHANGED fatal
      BY <1>4, <1>5, <1>7, <2>4 DEF HandleIncomingData
    <3> QED
      BY <1>3, <1>6, <1>7, <2>1, <2>4, <3>1 DEF HandleHeader, Turned
  <2>5. CASE packet.kind \notin {"reset", "eof", "header"}
    <3>1. HandleBody(n, packet.type)
      BY <1>4, <1>5, <1>7, <2>5 DEF HandleIncomingData
    <3>2. packet \notin Cuts /\ packet \notin Heads /\ packet # Header("BEGIN")
      BY <2>5, PacketKinds DEF Cuts, Heads
    <3>3. slot[n].state = "BEGIN" \/ (slot[n].state = "RUNNING" /\ slot[n].part \in {"DATA", "TOKEN", "CHECK"})
      BY <1>3, <1>5, <3>2 DEF Expects, BodiesOf, Shape, SlotRecord
    <3>4. CASE slot[n].state = "BEGIN"
      BY <1>3, <1>6, <1>7, <2>1, <2>5, <3>1, <3>4 DEF HandleBody, Turned
    <3>5. CASE slot[n].state = "RUNNING" /\ slot[n].part = "DATA"
      BY <1>3, <1>6, <1>7, <2>1, <2>5, <3>1, <3>5 DEF HandleBody, Turned
    <3>6. CASE slot[n].state = "RUNNING" /\ slot[n].part \in {"TOKEN", "CHECK"}
      <4>1. new = [slot[n] EXCEPT !.part = "header"] /\ new.event = "NONE"
        BY <1>3, <1>6, <2>5, <3>6 DEF Turned, SlotRecord
      <4>2. slot' = [slot EXCEPT ![n].part = "header"] /\ Answer(slot[n].conn)
        BY <3>1, <3>6 DEF HandleBody
      <4> QED
        BY <1>3, <1>7, <2>1, <4>1, <4>2 DEF Answer
    <3> QED
      BY <3>3, <3>4, <3>5, <3>6
  <2> QED
    BY <2>2, <2>3, <2>4, <2>5
<1>10. slot'[n] = new
  BY <1>1, <1>3, <1>9 DEF Typed
<1>11. Received(n, job, new)
  BY <1>3, <1>4, <1>5, <1>6, <1>7, <1>8, <1>9, <1>10 DEF Received, StopIfFatal
<1>12. Heard(n, job, new)
  <2>1. packet = Reset => fatal' = "recv"
    BY <1>4, <1>5, <1>7, PacketKinds DEF HandleIncomingData
  <2>2. gone' = gone
    BY <1>7 DEF HandleIncomingData
  <2>3. reply \subseteq reply'
    <3>1. \/ reply' = reply \/ HandleBody(n, packet.type)
      BY <1>4, <1>5, <1>7 DEF HandleIncomingData
    <3> QED
      BY <3>1 DEF HandleBody, Answer
  <2>4. ASSUME packet = Body("key"), fatal' = NoFault PROVE job \in reply' \cup gone
    <3>1. HandleBody(n, packet.type)
      BY <1>4, <1>5, <1>7, <2>4, PacketKinds DEF HandleIncomingData
    <3>2. packet \notin Cuts /\ packet \notin Heads /\ packet # Header("BEGIN") /\ packet # Body("id")
          /\ packet # Body("INFO") /\ packet # Body("ASK") /\ packet # Body("POST")
      BY <2>4, PacketKinds DEF Cuts, Heads
    <3>3. slot[n].state = "RUNNING" /\ slot[n].part \in {"TOKEN", "CHECK"}
      BY <1>3, <1>5, <3>2 DEF Expects, BodiesOf, Shape, SlotRecord
    <3>4. Answer(job)
      BY <1>4, <3>1, <3>3 DEF HandleBody
    <3> QED
      BY <2>4, <3>4 DEF Answer, NoFault
  <2> QED
    BY <1>5, <1>6, <2>1, <2>2, <2>3, <2>4 DEF Heard, NoFault
<1> QED
  BY <1>3, <1>11, <1>12

(***************************************************************************)
(* The rest of a connection, when its first packet is received.            *)
(***************************************************************************)
LEMMA TheRest ==
  ASSUME NEW s \in Seq(Packet), s # <<>>, NEW r, r = Tail(s)
  PROVE  /\ r \in Seq(Packet) /\ Len(s) \in Nat \ {0} /\ Len(r) = Len(s) - 1
         /\ DOMAIN s = 1..Len(s) /\ DOMAIN r = 1..Len(s)-1
         /\ \A i \in 1..Len(s)-1 : i + 1 \in 1..Len(s) /\ r[i] = s[i + 1]
         /\ \A i \in 1..Len(s) : i = 1 \/ (i - 1 \in 1..Len(s)-1 /\ r[i - 1] = s[i])
         /\ Head(s) = s[1] /\ s[1] \in Packet /\ 1 \in 1..Len(s)
  OBVIOUS

LEMMA ReceivedKeepsEvents ==
  ASSUME Inv, NEW n \in Slot, NEW job \in Job, NEW new \in SlotRecord, Received(n, job, new)
  PROVE  Execs' /\ Typed' /\ Events'
<1>1. Execs /\ Typed /\ Events /\ Owned
  BY DEF Inv
<1>2. /\ UNCHANGED <<backlog, exec, launch, done, file, outcome, slave>>
      /\ slot' \in [Slot -> SlotRecord] /\ slot'[n] = new
      /\ \A m \in Slot : m # n => slot'[m] = slot[m]
      /\ chan' \in [Job -> Seq(Packet)]
      /\ \A k \in Job : k # job => chan'[k] = chan[k]
  <2>1. chan[job] \in Seq(Packet) /\ Tail(chan[job]) \in Seq(Packet)
    BY <1>1, TheRest DEF Typed, Received
  <2> QED
    BY <1>1, <2>1 DEF Typed, Received
<1>3. Execs'
  BY <1>1, <1>2 DEF Execs, Busy
<1>4. cur' \in Job \cup {NoJob}
  BY DEF Received, SlotRecord
<1>5. Typed'
  BY <1>1, <1>2, <1>4 DEF Typed
<1>6. \A m \in Slot : slot[m].event # "NONE" => slot[m].id = NoJob /\ m # n
  BY <1>1 DEF Events, Received
<1>7. \A m \in Slot : slot[m].conn = job => m = n
  BY <1>1, SlotFacts DEF Received, Owned, Owner, OwnerOf
<1>8. (\A m \in Slot : Shape(slot[m]))'
  <2>1. Shape(new)
    BY DEF Received, TurnsWell
  <2> QED
    BY <1>2, <2>1, SlotFacts DEF Shape
<1>9. ready' \subseteq Readable'
  <2> SUFFICES ASSUME NEW m \in ready, m # n PROVE m \in Readable'
    BY DEF Received
  <2>1. m \in Readable
    BY <1>1 DEF Events
  <2>2. m \in Slot /\ slot[m].state # "FREE" /\ slot[m].conn # job /\ slot[m].conn \in Job
    BY <1>7, <2>1, SlotFacts DEF Readable, Watched, Shape
  <2> QED
    BY <1>2, <2>1, <2>2 DEF Readable, Watched
<1>10. CASE new.event = "NONE"
  <2>1. /\ ready' = ready \ {n} /\ pc' \in {"scan", "fill", "dead"}
        /\ pc' = "scan" => ready' # {}
        /\ pc' # "dead" => fatal' = NoFault
    BY <1>10 DEF Received, StopIfFatal
  <2>2. \A m \in Slot : slot'[m].event # "NONE" => slot'[m].id = NoJob
    BY <1>2, <1>6, <1>10
  <2> QED
    BY <1>3, <1>5, <1>8, <1>9, <2>1, <2>2 DEF Events
<1>11. CASE new.event # "NONE"
  <2>1. /\ ready' = {} /\ cur' = new.id /\ pc' \in {"dispatch", "fill"} /\ fatal' = NoFault
        /\ pc' = "dispatch" <=> cur' # NoJob
    BY <1>11 DEF Received, StopIfFatal
  <2>2. \A m \in Slot : slot'[m].event # "NONE" =>
                            slot'[m].id = NoJob \/ (pc' = "dispatch" /\ slot'[m].id = cur')
    BY <1>2, <1>6, <2>1
  <2>3. pc' = "dispatch" => cur' # NoJob /\ \E m \in Slot : slot'[m].id = cur' /\ slot'[m].event # "NONE"
    BY <1>2, <1>11, <2>1
  <2> QED
    BY <1>3, <1>5, <1>8, <1>9, <2>1, <2>2, <2>3 DEF Events
<1> QED
  BY <1>10, <1>11

LEMMA ReceivedKeepsOwned ==
  ASSUME Inv, NEW n \in Slot, NEW job \in Job, NEW new \in SlotRecord, Received(n, job, new)
  PROVE  Owned' /\ Room'
<1>1. Typed /\ Owned /\ Room
  BY DEF Inv
<1>2. /\ UNCHANGED <<backlog, exec, launch, done, file, outcome, slave>>
      /\ slot'[n] = new /\ \A m \in Slot : m # n => slot'[m] = slot[m]
  BY <1>1 DEF Typed, Received
<1>3. \A m \in Slot : m # n => Owner(m)' = Owner(m)
  BY <1>2 DEF Owner
<1>4. Owner(n) = job /\ job # NoJob
  BY SlotFacts DEF Received, Owner, OwnerOf
<1>5. Owner(n)' # NoJob => Owner(n)' = job /\ Phase(new) = Phase(slot[n])
  BY <1>2 DEF Owner, Received, TurnsWell
<1>6. \A m \in Slot : Owner(m)' # NoJob => Owner(m)' = Owner(m)
  BY <1>3, <1>4, <1>5
<1>7. ASSUME NEW m \in Slot, Owner(m)' # NoJob PROVE Runs(Owner(m), Phase(slot[m]))'
  <2>1. Phase(slot'[m]) = Phase(slot[m])
    BY <1>2, <1>5, <1>7
  <2>2. Runs(Owner(m), Phase(slot[m]))
    BY <1>1, <1>6, <1>7 DEF Owned
  <2> QED
    BY <1>2, <1>6, <1>7, <2>1, <2>2 DEF Runs
<1>8. Owned'
  <2>1. \A k, s : Runs(k, s)' <=> Runs(k, s)
    BY <1>2 DEF Runs
  <2>2. \A l, m \in Slot : Owner(l)' = Owner(m)' /\ Owner(l)' # NoJob => l = m
    BY <1>1, <1>6 DEF Owned
  <2>3. \A m \in Slot : Owner(m)' # NoJob => Owner(m)' \notin ToSet(backlog)
    BY <1>1, <1>6 DEF Owned
  <2>4. \A k \in Job : slave[k] \in {"none", "started"} => \A m \in Slot : Owner(m)' # k
    BY <1>1, <1>6, SlotFacts DEF Owned
  <2> QED
    BY <1>1, <1>2, <1>7, <2>1, <2>2, <2>3, <2>4 DEF Owned
<1>9. Room'
  <2>1. new.state # "FREE"
    BY DEF Received, TurnsWell
  <2>2. slot[n].state # "FREE"
    BY <1>4, SlotFacts DEF Received, Shape
  <2>3. Free' = Free
    BY <1>2, <2>1, <2>2 DEF Free
  <2>4. Starting' = Starting /\ Busy' = Busy
    BY <1>2 DEF Starting, Busy
  <2> QED
    BY <1>1, <1>2, <2>3, <2>4 DEF Room
<1> QED
  BY <1>8, <1>9

LEMMA ReceivedKeepsStreams ==
  ASSUME Inv, NEW n \in Slot, NEW job \in Job, NEW new \in SlotRecord, Received(n, job, new)
  PROVE  Streams'
<1>1. Typed /\ Owned /\ Streams
  BY DEF Inv
<1>2. /\ UNCHANGED <<backlog, slave>>
      /\ slot'[n] = new /\ \A m \in Slot : m # n => slot'[m] = slot[m]
      /\ chan'[job] = Tail(chan[job]) /\ \A k \in Job : k # job => chan'[k] = chan[k]
  BY <1>1 DEF Typed, Received
<1> DEFINE Goes(k) == /\ chan'[k] # <<>> => chan'[k][1] \in Awaited(k)'
                      /\ \A i \in 1..Len(chan'[k])-1 : chan'[k][i + 1] \in After(chan'[k][i])
                      /\ slave'[k] = "connected" => {Header("BEGIN")} \cup Cuts \subseteq Tip(k)'
                      /\ slave'[k] \in {"running", "asking", "posted"} => Heads \cup Cuts \subseteq Tip(k)'
<1>3. ASSUME NEW k \in Job, k # job PROVE Goes(k)
  <2>1. slot[n].conn # k /\ new.conn # k
    BY <1>3, SlotFacts DEF Received, TurnsWell
  <2>2. Awaited(k)' = Awaited(k)
    BY <1>2, <2>1 DEF Awaited, Expects
  <2>3. Tip(k)' = Tip(k)
    BY <1>2, <1>3, <2>2 DEF Tip
  <2> QED
    BY <1>1, <1>2, <1>3, <2>2, <2>3 DEF Streams
<1>4. Goes(job)
  <2> DEFINE s == chan[job]
             r == chan'[job]
  <2>1. s \in Seq(Packet) /\ s # <<>> /\ r = Tail(s)
    BY <1>2, SlotFacts DEF Received
  <2>2. \A i \in 1..Len(s)-1 : s[i + 1] \in After(s[i])
    BY <1>1 DEF Streams
  <2>3. After(Head(s)) # {} => new.conn = job /\ After(Head(s)) \subseteq Expects(new)
    BY DEF Received, TurnsWell
  <2>4. After(Head(s)) \cap Packet \subseteq Awaited(job)'
    <3>1. new.conn = job => Expects(new) \cap Packet \subseteq Awaited(job)'
      <4>1. slot'[n] = new
        BY <1>2
      <4> QED
        BY <4>1 DEF Awaited, Expects
    <3> QED
      BY <2>3, <3>1
  <2>5. Tip(job) = After(s[Len(s)])
    BY <2>1 DEF Tip
  <2>6. Tip(job)' = IF r = <<>> THEN Awaited(job)' ELSE After(r[Len(r)])
    BY DEF Tip
  <2> HIDE DEF s, r
  <2>7. /\ r \in Seq(Packet) /\ Len(s) \in Nat \ {0} /\ Len(r) = Len(s) - 1
        /\ \A i \in 1..Len(s)-1 : i + 1 \in 1..Len(s) /\ r[i] = s[i + 1]
        /\ Head(s) = s[1] /\ DOMAIN s = 1..Len(s)
    BY <2>1, TheRest
  <2>8. r # <<>> => r[1] \in Awaited(job)'
    <3> SUFFICES ASSUME r # <<>> PROVE r[1] \in Awaited(job)'
      OBVIOUS
    <3>1. Len(r) # 0
      BY <2>7
    <3>2. 1 \in 1..Len(s)-1
      BY <2>7, <3>1
    <3>3. r[1] = s[2] /\ s[2] \in After(s[1]) /\ s[2] \in Packet
      BY <2>1, <2>2, <2>7, <3>2
    <3> QED
      BY <2>4, <2>7, <3>3
  <2>9. \A i \in 1..Len(r)-1 : r[i + 1] \in After(r[i])
    <3> SUFFICES ASSUME NEW i \in 1..Len(r)-1 PROVE r[i + 1] \in After(r[i])
      OBVIOUS
    <3>1. i \in 1..Len(s)-1 /\ i + 1 \in 1..Len(s)-1
      BY <2>7
    <3> QED
      BY <2>2, <2>7, <3>1
  <2>10. Tip(job) \cap Packet \subseteq Tip(job)'
    <3>1. CASE Len(s) = 1
      <4>1. r = <<>>
        BY <2>7, <3>1
      <4> QED
        BY <2>4, <2>5, <2>6, <2>7, <3>1, <4>1
    <3>2. CASE Len(s) # 1
      <4>1. Len(s) - 1 \in 1..Len(s)-1 /\ Len(r) = Len(s) - 1 /\ (Len(s) - 1) + 1 = Len(s)
        BY <2>7, <3>2
      <4>2. r # <<>> /\ r[Len(r)] = s[Len(s)]
        BY <2>7, <4>1
      <4> QED
        BY <2>5, <2>6, <4>2
    <3> QED
      BY <3>1, <3>2
  <2>11. slave' = slave
    BY <1>2
  <2>12. {Header("BEGIN")} \cup Cuts \cup Heads \subseteq Packet
    BY PacketKinds, AfterThat
  <2>13. /\ slave[job] = "connected" => {Header("BEGIN")} \cup Cuts \subseteq Tip(job)
         /\ slave[job] \in {"running", "asking", "posted"} => Heads \cup Cuts \subseteq Tip(job)
    BY <1>1 DEF Streams
  <2>14. Goes(job) <=>
           /\ r # <<>> => r[1] \in Awaited(job)'
           /\ \A i \in 1..Len(r)-1 : r[i + 1] \in After(r[i])
           /\ slave'[job] = "connected" => {Header("BEGIN")} \cup Cuts \subseteq Tip(job)'
           /\ slave'[job] \in {"running", "asking", "posted"} => Heads \cup Cuts \subseteq Tip(job)'
    BY DEF r
  <2> HIDE DEF Goes
  <2> QED
    BY <2>8, <2>9, <2>10, <2>11, <2>12, <2>13, <2>14
<1> QED
  BY <1>3, <1>4 DEF Streams

LEMMA ReceivedKeepsResults ==
  ASSUME Inv, NEW n \in Slot, NEW job \in Job, NEW new \in SlotRecord, Received(n, job, new)
  PROVE  Results'
<1>1. Typed /\ Owned /\ Results
  BY DEF Inv
<1>2. /\ UNCHANGED <<backlog, file, outcome, slave>>
      /\ slot'[n] = new /\ \A m \in Slot : m # n => slot'[m] = slot[m]
      /\ chan'[job] = Tail(chan[job]) /\ \A k \in Job : k # job => chan'[k] = chan[k]
      /\ slot[n].event = "NONE" /\ slot[n].conn = job
  BY <1>1 DEF Typed, Received
<1>3. PICK p : /\ p = Head(chan[job]) /\ p = chan[job][1] /\ 1 \in DOMAIN chan[job]
               /\ \A i \in DOMAIN chan[job] : i = 1 \/ (i - 1 \in DOMAIN chan'[job] /\ chan'[job][i - 1] = chan[job][i])
               /\ \A i \in DOMAIN chan'[job] : /\ i \in Int /\ i + 1 \in DOMAIN chan[job] /\ i + 1 # 1
                                               /\ chan'[job][i] = chan[job][i + 1]
  <2>1. chan[job] \in Seq(Packet) /\ chan[job] # <<>>
    BY SlotFacts DEF Received
  <2> DEFINE s == chan[job]
             r == chan'[job]
  <2>2. s \in Seq(Packet) /\ s # <<>> /\ r = Tail(s)
    BY <1>2, <2>1
  <2> HIDE DEF s, r
  <2>3. /\ DOMAIN s = 1..Len(s) /\ DOMAIN r = 1..Len(s)-1 /\ Len(s) \in Nat
        /\ \A i \in 1..Len(s)-1 : i + 1 \in 1..Len(s) /\ r[i] = s[i + 1]
        /\ \A i \in 1..Len(s) : i = 1 \/ (i - 1 \in 1..Len(s)-1 /\ r[i - 1] = s[i])
        /\ Head(s) = s[1] /\ 1 \in 1..Len(s)
    BY <2>2, TheRest
  <2>4. \A i \in 1..Len(s)-1 : i \in Int /\ i + 1 # 1
    BY <2>3
  <2> QED
    BY <2>3, <2>4 DEF s, r
<1>4. /\ new.event = "DATA" /\ new.buffer = "POST" <=> p = Body("POST")
      /\ p = Body("POST") => new.id = job
      /\ new.state = "CLOSING" => new.conn = job /\ (slot[n].state = "CLOSING" \/ p = Header("END"))
      /\ new.event = "END" => slot[n].state = "CLOSING" /\ new.id = job
  BY <1>2, <1>3 DEF Received, TurnsWell
<1>5. \A k \in Job : Kept(k)' <=> Kept(k)
  BY <1>2 DEF Kept
<1>6. \A k \in Job : k # job => (Sent(k)' <=> Sent(k))
  BY <1>2 DEF Sent
<1>7. \A k \in Job : k # job => (Held(k)' <=> Held(k))
  BY <1>2, <1>4 DEF Held
<1>8. ASSUME NEW i \in DOMAIN chan'[job], NEW k \in DOMAIN chan'[job],
             chan'[job][i] = Body("POST"), chan'[job][k] = Body("POST")
      PROVE  i = k
  <2>1. i + 1 = k + 1
    BY <1>1, <1>3, <1>8 DEF Results
  <2> QED
    BY <1>3, <2>1
<1>9. ASSUME p = Body("POST")
      PROVE  Sent(job) /\ ~Held(job) /\ ~Kept(job) /\ ~Sent(job)' /\ Held(job)'
  <2>1. Sent(job) /\ ~Held(job) /\ ~Kept(job)
    BY <1>1, <1>3, <1>9 DEF Results, Sent
  <2>2. ~Sent(job)'
    <3>1. \A i \in DOMAIN chan'[job] : chan'[job][i] # Body("POST")
      BY <1>1, <1>3, <1>9 DEF Results
    <3> QED
      BY <3>1 DEF Sent
  <2>3. Held(job)'
    BY <1>2, <1>4, <1>9 DEF Held
  <2> QED
    BY <2>1, <2>2, <2>3
<1>10. ASSUME p # Body("POST") PROVE (Sent(job)' <=> Sent(job)) /\ (Held(job)' <=> Held(job))
  <2>1. Sent(job)' <=> Sent(job)
    BY <1>3, <1>10 DEF Sent
  <2>2. Held(job)' <=> Held(job)
    BY <1>2, <1>4, <1>10 DEF Held
  <2> QED
    BY <2>1, <2>2
<1>11. ASSUME NEW k \in Job
       PROVE  /\ slave[k] \in {"none", "started", "connected", "running", "asking"} =>
                     ~Sent(k)' /\ ~Held(k)' /\ ~Kept(k)'
              /\ slave[k] \in {"posted", "ended"} => Sent(k)' \/ Held(k)' \/ Kept(k)'
              /\ ~(Sent(k)' /\ Held(k)') /\ ~(Sent(k)' /\ Kept(k)') /\ ~(Held(k)' /\ Kept(k)')
  <2>1. /\ slave[k] \in {"none", "started", "connected", "running", "asking"} =>
               ~Sent(k) /\ ~Held(k) /\ ~Kept(k)
        /\ slave[k] \in {"posted", "ended"} => Sent(k) \/ Held(k) \/ Kept(k)
        /\ ~(Sent(k) /\ Held(k)) /\ ~(Sent(k) /\ Kept(k)) /\ ~(Held(k) /\ Kept(k))
    BY <1>1 DEF Results
  <2>2. CASE k # job
    BY <1>5, <1>6, <1>7, <2>1, <2>2
  <2>3. CASE k = job /\ p = Body("POST")
    BY <1>5, <1>9, <2>1, <2>3
  <2>4. CASE k = job /\ p # Body("POST")
    BY <1>5, <1>10, <2>1, <2>4
  <2> QED
    BY <2>2, <2>3, <2>4
<1>12. ASSUME NEW k \in Job, Header("END") \in ToSet(chan'[k]) PROVE slave[k] = "ended"
  <2>1. CASE k = job
    BY <1>1, <1>3, <1>12, <2>1 DEF Results, ToSet
  <2>2. CASE k # job
    BY <1>1, <1>2, <1>12, <2>2 DEF Results
  <2> QED
    BY <2>1, <2>2
<1>13. /\ \A m \in Slot : slot'[m].state = "CLOSING" => slave[slot'[m].conn] = "ended"
       /\ \A m \in Slot : slot'[m].event = "END" => slot'[m].id # NoJob /\ slave[slot'[m].id] = "ended"
  <2>1. slot[n].state = "CLOSING" => slave[job] = "ended"
    BY <1>1, <1>2 DEF Results
  <2>2. p = Header("END") => slave[job] = "ended"
    BY <1>1, <1>3 DEF Results, ToSet
  <2> QED
    BY <1>1, <1>2, <1>4, <2>1, <2>2, SlotFacts DEF Results
<1>14. \A k \in Job : \A i, l \in DOMAIN chan'[k] :
          chan'[k][i] = Body("POST") /\ chan'[k][l] = Body("POST") => i = l
  <2> SUFFICES ASSUME NEW k \in Job
               PROVE  \A i, l \in DOMAIN chan'[k] :
                         chan'[k][i] = Body("POST") /\ chan'[k][l] = Body("POST") => i = l
    OBVIOUS
  <2>1. CASE k = job
    BY <1>8, <2>1
  <2>2. CASE k # job
    BY <1>1, <1>2, <2>2 DEF Results
  <2> QED
    BY <2>1, <2>2
<1>15. ResultsKept'
  BY <1>1, <1>2 DEF Results, ResultsKept
<1> QED
  BY <1>2, <1>11, <1>12, <1>13, <1>14, <1>15 DEF Results

LEMMA ScanKeeps ==
  ASSUME Inv, Scan
  PROVE  Inv'
BY ScanReceives, ReceivedKeepsEvents, ReceivedKeepsOwned, ReceivedKeepsStreams,
   ReceivedKeepsResults DEF Inv

-----------------------------------------------------------------------------
(***************************************************************************)
(* The dispatch finds the one exec and the one slot of its job, and the    *)
(* exec is in the state the event calls for.                               *)
(***************************************************************************)
Handled(t) == [t EXCEPT !.event = "NONE", !.buffer = "none",
                        !.state = IF t.state = "CLOSED" THEN "FREE" ELSE t.state,
                        !.id = IF t.state = "CLOSED" THEN NoJob ELSE t.id]

Began(e, s) == /\ slot[s].event = "BEGIN"
               /\ exec' = [exec EXCEPT ![e].state = "RUN"]
               /\ pc' = "fill"
               /\ UNCHANGED <<done, file, outcome, fatal>>

Informed(s) == /\ slot[s].event = "DATA"
               /\ file' = IF slot[s].buffer = "POST" THEN Append(file, cur) ELSE file
               /\ fatal' \in {NoFault, "send", "stray"}
               /\ StopIfFatal("fill")
               /\ UNCHANGED <<exec, done, outcome>>

Broke(s) == /\ slot[s].event = "ABORT"
            /\ fatal' = "055" /\ pc' = "dead"
            /\ UNCHANGED <<exec, done, file, outcome>>

Finished(e, s, how) == /\ slot[s].event = IF how = "completed" THEN "END" ELSE "ABORT"
                       /\ Ends(e, how)
                       /\ pc' = "fill"
                       /\ UNCHANGED <<file, fatal>>

Dispatched(e, s) ==
    /\ pc = "dispatch" /\ cur \in Job /\ slot[s].id = cur /\ slot[s].event # "NONE"
    /\ exec[e].job = cur /\ exec[e].state = Phase(slot[s])
    /\ slot' = [slot EXCEPT ![s] = Handled(slot[s])]
    /\ UNCHANGED <<chan, backlog, launch, ready, cur, slave>>
    /\ \/ Began(e, s) \/ Informed(s) \/ Broke(s)
       \/ \E how \in {"completed", "aborted"} : Finished(e, s, how)

Heeded(s) ==
    /\ slot[s].event = "DATA" /\ slot[s].buffer = "ASK" /\ pc' # "dead" => cur \in reply' \cup gone
    /\ reply \subseteq reply' /\ gone' = gone

LEMMA DispatchFinds ==
  ASSUME Inv, Dispatch
  PROVE  \E e \in Busy, s \in Slot : Dispatched(e, s) /\ Heeded(s)
<1>1. Execs /\ Typed /\ Events /\ Owned
  BY DEF Inv
<1>2. pc = "dispatch" /\ fatal = NoFault /\ cur \in Job
  BY <1>1 DEF Dispatch, Events, Typed
<1>3. PICK s \in Slot : slot[s].id = cur /\ slot[s].event # "NONE"
  BY <1>1, <1>2 DEF Events
<1>4. /\ slot[s].state \in {"RUNNING", "CLOSED"} /\ slot[s] \in SlotRecord /\ Shape(slot[s])
      /\ slot[s].event \in {"BEGIN", "DATA", "END", "ABORT"}
  BY <1>3, SlotFacts DEF Shape, SlotRecord
<1>5. \A m \in Slot : slot[m].id = cur => Owner(m) = cur
  <2> SUFFICES ASSUME NEW m \in Slot, slot[m].id = cur PROVE Owner(m) = cur
    OBVIOUS
  <2>1. Shape(slot[m]) /\ slot[m] \in SlotRecord /\ cur # NoJob
    BY <1>2, SlotFacts
  <2> QED
    BY <2>1 DEF Shape, SlotRecord, Owner, OwnerOf
<1>6. SlotsOf(cur) = {s}
  <2>1. \A m \in SlotsOf(cur) : m = s
    BY <1>1, <1>2, <1>3, <1>5, SlotFacts DEF Owned, SlotsOf
  <2>2. s \in SlotsOf(cur)
    BY <1>3, <1>4 DEF SlotsOf
  <2> QED
    BY <2>1, <2>2
<1>7. Runs(cur, Phase(slot[s]))
  BY <1>1, <1>2, <1>3, <1>5, SlotFacts DEF Owned
<1>8. PICK e \in Slot : exec[e].job = cur /\ exec[e].state = Phase(slot[s])
  BY <1>7 DEF Runs, RunsIn
<1>9. e \in Busy
  BY <1>8 DEF Busy, Phase
<1>10. ExecsOf(cur) = {e}
  BY <1>1, <1>8, <1>9 DEF ExecsOf, Execs
<1>11. Lowest(ExecsOf(cur)) = e /\ Lowest(SlotsOf(cur)) = s
  <2>1. Lowest({e}) \in {e} /\ Lowest({s}) \in {s}
    BY <1>8, LowestExists
  <2> QED
    BY <1>6, <1>10, <2>1
<1>12. /\ slot' = Consumed(s)
       /\ \/ slot[s].event = "BEGIN" /\ Begin(e)
          \/ slot[s].event = "DATA" /\ Data(e, slot[s].buffer)
          \/ slot[s].event = "END" /\ End(e)
          \/ slot[s].event = "ABORT" /\ Abort(e)
  BY <1>3, <1>6, <1>10, <1>11 DEF Dispatch
<1>13. slot' = [slot EXCEPT ![s] = Handled(slot[s])]
  BY <1>12 DEF Consumed, Handled
<1>14. UNCHANGED <<chan, backlog, launch, ready, cur, slave>>
  BY DEF Dispatch, slaveVars
<1>14a. Heeded(s)
  <2>1. reply' = reply \/ (slot[s].event = "DATA" /\ Data(e, slot[s].buffer))
    BY <1>12 DEF Begin, End, Abort, Die, Ended
  <2>2. ASSUME Data(e, slot[s].buffer)
        PROVE  /\ reply \subseteq reply'
               /\ slot[s].buffer = "ASK" /\ pc' # "dead" => cur \in reply' \cup gone
    BY <1>8, <2>2 DEF Data, Die, AnswerAsk, Answer, StopIfFatal, NoFault
  <2>3. slot[s].event = "DATA" => Data(e, slot[s].buffer)
    BY <1>12
  <2>4. gone' = gone
    BY DEF Dispatch
  <2> QED
    BY <2>1, <2>2, <2>3, <2>4 DEF Heeded
<1>15. ASSUME slot[s].event = "BEGIN" PROVE Dispatched(e, s)
  <2>1. exec[e].state = "WAIT" /\ Begin(e)
    BY <1>8, <1>12, <1>15 DEF Phase
  <2>2. Began(e, s)
    BY <1>15, <2>1 DEF Begin, Began
  <2> QED
    BY <1>2, <1>3, <1>8, <1>9, <1>13, <1>14, <2>2 DEF Dispatched
<1>16. ASSUME slot[s].event = "DATA" PROVE Dispatched(e, s)
  <2>1. exec[e].state = "RUN" /\ Data(e, slot[s].buffer)
    BY <1>4, <1>8, <1>12, <1>16 DEF Phase, Shape
  <2>2. /\ fatal' \in {NoFault, "send", "stray"}
        /\ file' = IF slot[s].buffer = "POST" THEN Append(file, cur) ELSE file
        /\ StopIfFatal("fill") /\ UNCHANGED <<exec, done, outcome>>
    BY <1>2, <1>8, <2>1 DEF Data, AnswerAsk, Answer
  <2>3. Informed(s)
    BY <1>16, <2>2 DEF Informed
  <2> QED
    BY <1>2, <1>3, <1>8, <1>9, <1>13, <1>14, <2>3 DEF Dispatched
<1>17. ASSUME slot[s].event = "END" PROVE Dispatched(e, s)
  <2>1. exec[e].state = "RUN" /\ End(e)
    BY <1>4, <1>8, <1>12, <1>17 DEF Phase, Shape
  <2>2. Finished(e, s, "completed")
    BY <1>14, <1>17, <2>1 DEF End, Ended, Finished, Ends
  <2> QED
    BY <1>2, <1>3, <1>8, <1>9, <1>13, <1>14, <2>2 DEF Dispatched
<1>18. ASSUME slot[s].event = "ABORT" PROVE Dispatched(e, s)
  <2>1. Abort(e)
    BY <1>12, <1>18
  <2>2. Broke(s) \/ Finished(e, s, "aborted")
    BY <1>14, <1>18, <2>1 DEF Abort, Die, Ended, Finished, Ends, Broke
  <2> QED
    BY <1>2, <1>3, <1>8, <1>9, <1>13, <1>14, <2>2 DEF Dispatched
<1>19. Dispatched(e, s)
  BY <1>4, <1>15, <1>16, <1>17, <1>18
<1> QED
  BY <1>9, <1>14a, <1>19

LEMMA DispatchedSlot ==
  ASSUME Inv, NEW e \in Busy, NEW s \in Slot, Dispatched(e, s)
  PROVE  /\ slot' \in [Slot -> SlotRecord] /\ slot'[s] = Handled(slot[s])
         /\ \A m \in Slot : m # s => slot'[m] = slot[m]
         /\ slot'[s].event = "NONE" /\ slot'[s].conn = slot[s].conn /\ slot'[s].part = slot[s].part
         /\ Shape(slot'[s])
         /\ \/ /\ slot[s].event \in {"BEGIN", "DATA"} /\ slot'[s].id = cur /\ slot'[s].conn = cur
               /\ slot'[s].state = "RUNNING" /\ slot[s].state = "RUNNING"
            \/ /\ slot[s].event \in {"END", "ABORT"} /\ slot'[s].id = NoJob /\ slot'[s].conn = NoJob
               /\ slot'[s].state = "FREE" /\ slot[s].state = "CLOSED"
         /\ Owner(s) = cur /\ cur # NoJob
<1>1. slot \in [Slot -> SlotRecord]
  BY DEF Inv, Typed
<1>2. PICK t \in SlotRecord : t = slot[s] /\ Shape(t) /\ t.id = cur /\ t.event # "NONE"
  BY SlotFacts DEF Dispatched
<1>3. cur \in Job /\ NoJob \notin Job
  BY SlotFacts DEF Dispatched
<1>4. \/ t.state = "RUNNING" /\ t.event \in {"BEGIN", "DATA"} /\ t.conn = cur
      \/ t.state = "CLOSED" /\ t.event \in {"END", "ABORT"} /\ t.conn = NoJob
  BY <1>2 DEF Shape, SlotRecord
<1>5. PICK new : new = Handled(t)
  OBVIOUS
<1>6. new \in SlotRecord
  BY <1>5 DEF Handled, SlotRecord
<1>7. slot' \in [Slot -> SlotRecord] /\ slot'[s] = new /\ \A m \in Slot : m # s => slot'[m] = slot[m]
  BY <1>1, <1>2, <1>5, <1>6 DEF Dispatched
<1>8. /\ new.event = "NONE" /\ new.conn = t.conn /\ new.part = t.part
      /\ new.state = IF t.state = "CLOSED" THEN "FREE" ELSE t.state
      /\ new.id = IF t.state = "CLOSED" THEN NoJob ELSE t.id
  BY <1>5 DEF Handled, SlotRecord
<1>9. Shape(new)
  BY <1>2, <1>3, <1>4, <1>8 DEF Shape
<1>10. Owner(s) = cur
  BY <1>2, <1>4 DEF Owner, OwnerOf
<1> QED
  BY <1>2, <1>3, <1>4, <1>5, <1>7, <1>8, <1>9, <1>10

LEMMA DispatchedExecs ==
  ASSUME Inv, NEW e \in Busy, NEW s \in Slot, Dispatched(e, s)
  PROVE  /\ Execs'
         /\ \A m \in Slot : m # e => exec'[m] = exec[m]
         /\ slot[s].event \in {"BEGIN", "DATA"} =>
                exec'[e].job = cur /\ exec'[e].state = "RUN" /\ Busy' = Busy
         /\ Busy' = Busy \/ Busy' = Busy \ {e}
<1>1. Execs
  BY DEF Inv
<1>2. CASE Began(e, s)
  <2>1. Starts(e)
    BY <1>2 DEF Began, Starts, Dispatched
  <2>2. Execs' /\ Busy' = Busy
    BY <1>1, <2>1, AfterStart
  <2> QED
    BY <1>1, <2>1, <2>2 DEF Starts, Execs, Busy, Dispatched
<1>3. CASE Informed(s) \/ Broke(s)
  <2>1. UNCHANGED <<exec, launch, done, outcome>>
    BY <1>3 DEF Informed, Broke, Dispatched
  <2>2. Execs' /\ Busy' = Busy
    BY <1>1, <2>1 DEF Execs, Busy
  <2>3. slot[s].event = "BEGIN" => FALSE
    BY <1>3 DEF Informed, Broke
  <2>4. slot[s].event = "DATA" => exec[e].state = "RUN"
    BY SlotFacts DEF Dispatched, Phase, Shape
  <2> QED
    BY <2>1, <2>2, <2>3, <2>4 DEF Dispatched
<1>4. ASSUME NEW how \in {"completed", "aborted"}, Finished(e, s, how)
      PROVE  /\ Execs' /\ Busy' = Busy \ {e} /\ slot[s].event \in {"END", "ABORT"}
             /\ \A m \in Slot : m # e => exec'[m] = exec[m]
  <2>1. Ends(e, how) /\ slot[s].event \in {"END", "ABORT"}
    BY <1>4 DEF Finished
  <2> QED
    BY <1>1, <2>1, AfterEnd DEF Ends, Execs
<1> QED
  BY <1>2, <1>3, <1>4 DEF Dispatched

LEMMA DispatchedKeepsEvents ==
  ASSUME Inv, NEW e \in Busy, NEW s \in Slot, Dispatched(e, s)
  PROVE  Typed' /\ Events'
<1>1. Typed /\ Events
  BY DEF Inv
<1>2. /\ slot' \in [Slot -> SlotRecord]
      /\ \A m \in Slot : m # s => slot'[m] = slot[m]
      /\ slot'[s].event = "NONE" /\ Shape(slot'[s])
  BY DispatchedSlot
<1>3. UNCHANGED <<chan, backlog, launch, ready, cur, slave>> /\ cur \in Job
  BY DEF Dispatched
<1>4. /\ file' = file \/ file' = Append(file, cur)
      /\ pc' \in {"fill", "dead"}
      /\ pc' # "dead" => fatal' = NoFault
  <2>1. fatal = NoFault
    BY <1>1 DEF Events, Dispatched
  <2> QED
    BY <2>1 DEF Dispatched, Began, Informed, Broke, Finished, StopIfFatal
<1>5. Typed'
  <2>1. file' \in Seq(Job)
    <3>1. file \in Seq(Job) /\ Append(file, cur) \in Seq(Job)
      BY <1>1, <1>3 DEF Typed
    <3> QED
      BY <1>4, <3>1
  <2> QED
    BY <1>1, <1>2, <1>3, <2>1 DEF Typed
<1>6. \A m \in Slot : slot'[m].event # "NONE" => slot'[m].id = NoJob
  <2>1. \A m \in Slot : slot[m].event # "NONE" /\ slot[m].id # NoJob => m = s
    <3>1. ASSUME NEW m \in Slot, slot[m].event # "NONE", slot[m].id # NoJob PROVE m = s
      <4>1. slot[m].id = cur /\ slot[s].id = cur
        BY <1>1, <3>1 DEF Events, Dispatched
      <4>2. Shape(slot[m]) /\ slot[m] \in SlotRecord
        BY SlotFacts
      <4>3. Owner(m) = cur
        BY <3>1, <4>1, <4>2 DEF Shape, SlotRecord, Owner, OwnerOf
      <4>4. Owner(s) = cur /\ cur # NoJob
        BY DispatchedSlot
      <4> QED
        BY <4>3, <4>4 DEF Inv, Owned
    <3> QED
      BY <3>1
  <2> QED
    BY <1>2, <2>1
<1>7. ready' \subseteq Readable'
  <2> SUFFICES ASSUME NEW m \in ready PROVE m \in Readable'
    BY <1>3
  <2>1. m \in Readable
    BY <1>1 DEF Events
  <2>2. m # s
    BY <2>1 DEF Readable, Watched, Dispatched
  <2> QED
    BY <1>2, <1>3, <2>1, <2>2 DEF Readable, Watched
<1>8. (\A m \in Slot : Shape(slot[m]))'
  BY <1>2, SlotFacts DEF Shape
<1> QED
  BY <1>4, <1>5, <1>6, <1>7, <1>8 DEF Events

LEMMA DispatchedKeepsOwned ==
  ASSUME Inv, NEW e \in Busy, NEW s \in Slot, Dispatched(e, s)
  PROVE  Owned'
<1>1. Owned
  BY DEF Inv
<1>2. UNCHANGED <<backlog, slave>> /\ exec[e].job = cur
  BY DEF Dispatched
<1>3. /\ \A m \in Slot : m # s => slot'[m] = slot[m] /\ Owner(m)' = Owner(m)
      /\ Owner(s) = cur /\ cur # NoJob /\ cur \in Job
      /\ Owner(s)' # NoJob => /\ Owner(s)' = cur /\ slot[s].event \in {"BEGIN", "DATA"}
                              /\ Phase(slot'[s]) = "RUN"
  BY DispatchedSlot DEF Owner, OwnerOf, Phase, Dispatched
<1>4. \A m \in Slot : Owner(m)' # NoJob => Owner(m)' = Owner(m)
  BY <1>3
<1>5. /\ \A m \in Slot : m # e => exec'[m] = exec[m]
      /\ slot[s].event \in {"BEGIN", "DATA"} => exec'[e].job = cur /\ exec'[e].state = "RUN"
  BY DispatchedExecs
<1>6. \A k, t : k # cur /\ Runs(k, t) => Runs(k, t)'
  BY <1>2, <1>5 DEF Runs, RunsIn
<1>7. ASSUME NEW m \in Slot, Owner(m)' # NoJob PROVE RunsIn(exec', Owner(m)', Phase(slot'[m]))
  <2>1. CASE m = s
    <3>1. RunsIn(exec', cur, "RUN")
      BY <1>3, <1>5, <1>7, <2>1 DEF RunsIn, Busy
    <3> QED
      BY <1>3, <1>7, <2>1, <3>1
  <2>2. CASE m # s
    <3>1. Owner(m)' = Owner(m) /\ slot'[m] = slot[m] /\ Owner(m) # cur
      BY <1>1, <1>3, <1>7, <2>2 DEF Owned
    <3>2. Runs(Owner(m), Phase(slot[m]))
      BY <1>1, <1>7, <3>1 DEF Owned
    <3>3. RunsIn(exec', Owner(m), Phase(slot[m]))
      BY <1>6, <3>1, <3>2 DEF Runs
    <3> QED
      BY <3>1, <3>3
  <2> QED
    BY <2>1, <2>2
<1>8. \A k \in Job : k \in ToSet(backlog) \/ slave[k] = "started" => Runs(k, "WAIT")'
  <2> SUFFICES ASSUME NEW k \in Job, k \in ToSet(backlog) \/ slave[k] = "started" PROVE Runs(k, "WAIT")'
    OBVIOUS
  <2>1. k # cur /\ Runs(k, "WAIT")
    BY <1>1, <1>3 DEF Owned
  <2> QED
    BY <1>6, <2>1
<1>9. \A l, m \in Slot : Owner(l)' = Owner(m)' /\ Owner(l)' # NoJob => l = m
  BY <1>1, <1>4 DEF Owned
<1>10. \A m \in Slot : Owner(m)' # NoJob => Owner(m)' \notin ToSet(backlog)
  BY <1>1, <1>4 DEF Owned
<1>11. \A k \in Job : slave[k] \in {"none", "started"} =>
          k \notin ToSet(backlog) /\ \A m \in Slot : Owner(m)' # k
  BY <1>1, <1>4, SlotFacts DEF Owned
<1>12. \A m \in Slot : Owner(m)' # NoJob => Runs(Owner(m), Phase(slot[m]))'
  BY <1>7 DEF Runs
<1> QED
  BY <1>1, <1>2, <1>8, <1>9, <1>10, <1>11, <1>12 DEF Owned

LEMMA DispatchedKeepsStreams ==
  ASSUME Inv, NEW e \in Busy, NEW s \in Slot, Dispatched(e, s)
  PROVE  Streams'
<1>1. Streams
  BY DEF Inv
<1>2. UNCHANGED <<chan, backlog, slave>>
  BY DEF Dispatched
<1>3. /\ \A m \in Slot : m # s => slot'[m] = slot[m]
      /\ slot'[s].conn = slot[s].conn /\ slot'[s].part = slot[s].part
      /\ slot'[s].conn \in Job => slot'[s].state = slot[s].state
  BY DispatchedSlot, SlotFacts
<1>4. \A k \in Job : Awaited(k)' = Awaited(k)
  <2> SUFFICES ASSUME NEW k \in Job PROVE Awaited(k)' = Awaited(k)
    OBVIOUS
  <2>1. \A m \in Slot : slot'[m].conn = slot[m].conn
    BY <1>3
  <2>2. \A m \in Slot : slot[m].conn = k => Expects(slot'[m]) = Expects(slot[m])
    BY <1>3 DEF Expects
  <2> QED
    BY <1>2, <2>1, <2>2 DEF Awaited
<1>5. \A k \in Job : Tip(k)' = Tip(k)
  BY <1>2, <1>4 DEF Tip
<1> QED
  BY <1>1, <1>2, <1>4, <1>5 DEF Streams

(***************************************************************************)
(* When the slot of a job has its end event, nothing of it is on its way.  *)
(***************************************************************************)
LEMMA EndedIsKept ==
  ASSUME Inv, NEW e \in Busy, NEW s \in Slot, Dispatched(e, s), slot[s].event = "END"
  PROVE  Kept(cur)
<1>1. Typed /\ Owned /\ Streams /\ Results /\ cur \in Job
  BY DEF Inv, Dispatched
<1>2. Owner(s) = cur /\ cur # NoJob /\ slot[s].conn = NoJob /\ slot[s].id = cur
  BY DispatchedSlot DEF Dispatched
<1>3. \A m \in Slot : slot[m].conn # cur
  BY <1>1, <1>2 DEF Owned, Owner, OwnerOf
<1>4. cur \notin ToSet(backlog)
  BY <1>1, <1>2 DEF Owned
<1>5. chan[cur] = <<>>
  BY <1>1, <1>3, <1>4 DEF Streams, Awaited
<1>6. ~Sent(cur)
  BY <1>5 DEF Sent
<1>7. ~Held(cur)
  <2> SUFFICES ASSUME NEW m \in Slot, slot[m].id = cur, slot[m].event = "DATA" PROVE FALSE
    BY DEF Held
  <2>1. slot[m].conn = cur
    BY SlotFacts DEF Shape
  <2> QED
    BY <1>3, <2>1
<1>8. slave[cur] = "ended"
  BY <1>1, <1>2 DEF Results
<1> QED
  BY <1>1, <1>6, <1>7, <1>8 DEF Results

LEMMA DispatchedKeepsResults ==
  ASSUME Inv, NEW e \in Busy, NEW s \in Slot, Dispatched(e, s)
  PROVE  Results'
<1>0. PICK job \in Job : job = cur
  BY DEF Dispatched
<1>1. Typed /\ Owned /\ Results /\ Execs /\ file \in Seq(Job)
  BY DEF Inv, Typed
<1>2. UNCHANGED <<chan, slave>> /\ slot[s].id = job
  BY <1>0 DEF Dispatched
<1>3. /\ \A m \in Slot : m # s => slot'[m] = slot[m]
      /\ slot'[s].event = "NONE" /\ slot'[s].state # "CLOSING"
      /\ Owner(s) = job /\ job # NoJob
  BY <1>0, DispatchedSlot
<1>4. \A k \in Job : Sent(k)' <=> Sent(k)
  BY <1>2 DEF Sent
<1>5. \A k \in Job : k # job => (Held(k)' <=> Held(k))
  BY <1>2, <1>3 DEF Held
<1>6. \A m \in Slot : slot[m].id = job /\ slot[m].event = "DATA" => m = s
  <2> SUFFICES ASSUME NEW m \in Slot, slot[m].id = job, slot[m].event = "DATA" PROVE m = s
    OBVIOUS
  <2>1. Owner(m) = job
    BY <1>1, SlotFacts DEF Shape, Owner, OwnerOf
  <2> QED
    BY <1>1, <1>3, <2>1 DEF Owned
<1>7. ~Held(job)'
  BY <1>2, <1>3, <1>6 DEF Held
<1>8. \/ file' = file /\ ~Held(job)
      \/ file' = Append(file, job) /\ Held(job)
  <2>1. Held(job) <=> slot[s].event = "DATA" /\ slot[s].buffer = "POST"
    BY <1>2, <1>6 DEF Held
  <2> QED
    BY <1>0, <2>1 DEF Dispatched, Began, Informed, Broke, Finished
<1>9. CASE file' = Append(file, job) /\ Held(job)
  <2>1. /\ DOMAIN file = 1..Len(file) /\ Len(file) \in Nat
        /\ DOMAIN file' = DOMAIN file \cup {Len(file) + 1}
        /\ \A i \in DOMAIN file : file'[i] = file[i]
        /\ file'[Len(file) + 1] = job
    BY <1>1, <1>9
  <2>2. ToSet(file') = ToSet(file) \cup {job}
    BY <2>1 DEF ToSet
  <2>3. ~Sent(job) /\ ~Kept(job)
    BY <1>1, <1>9 DEF Results
  <2>4. outcome' = outcome
    BY <1>8, <1>9, <2>3, <2>2, <1>1 DEF Dispatched, Began, Informed, Broke, Finished, Kept, Held
  <2>5. ResultsKept'
    <3>1. \A j \in Job : outcome'[j] = "completed" => j \in ToSet(file')
      BY <1>1, <2>2, <2>4 DEF Results, ResultsKept
    <3>2. \A i \in DOMAIN file : file[i] # job
      BY <2>3 DEF Kept, ToSet
    <3>3. \A i, k \in DOMAIN file : file[i] = file[k] => i = k
      BY <1>1 DEF Results, ResultsKept
    <3>4. \A i, k \in DOMAIN file' : file'[i] = file'[k] => i = k
      BY <2>1, <3>2, <3>3
    <3> QED
      BY <3>1, <3>4 DEF ResultsKept
  <2>6. Kept(job)' /\ \A k \in Job : k # job => (Kept(k)' <=> Kept(k))
    BY <2>2 DEF Kept
  <2> QED
    BY <1>1, <1>2, <1>3, <1>4, <1>5, <1>7, <1>9, <2>3, <2>5, <2>6 DEF Results
<1>10. CASE file' = file /\ ~Held(job)
  <2>1. \A k \in Job : (Kept(k)' <=> Kept(k)) /\ (Held(k)' <=> Held(k))
    BY <1>5, <1>7, <1>10 DEF Kept
  <2>2. ResultsKept'
    <3>1. \A j \in Job : outcome'[j] = "completed" => outcome[j] = "completed" \/ Kept(j)
      <4>1. CASE Began(e, s) \/ Informed(s) \/ Broke(s)
        BY <4>1 DEF Began, Informed, Broke
      <4>2. ASSUME NEW how \in {"completed", "aborted"}, Finished(e, s, how)
            PROVE  \A j \in Job : outcome'[j] = "completed" => outcome[j] = "completed" \/ Kept(j)
        <5>1. outcome' = [outcome EXCEPT ![job] = how]
          BY <1>0, <4>2 DEF Finished, Ends, Dispatched
        <5>2. how = "completed" => Kept(job)
          BY <1>0, <4>2, EndedIsKept DEF Finished
        <5> QED
          BY <1>1, <5>1, <5>2 DEF Execs
      <4> QED
        BY <4>1, <4>2 DEF Dispatched
    <3> QED
      BY <1>1, <1>10, <3>1 DEF Results, ResultsKept, Kept
  <2> QED
    BY <1>1, <1>2, <1>3, <1>4, <2>1, <2>2 DEF Results
<1> QED
  BY <1>8, <1>9, <1>10

LEMMA DispatchedKeepsRoom ==
  ASSUME Inv, NEW e \in Busy, NEW s \in Slot, Dispatched(e, s)
  PROVE  Room'
<1>1. Execs /\ Room /\ backlog \in Seq(Job)
  BY DEF Inv, Typed
<1>2. UNCHANGED <<backlog, slave>>
  BY DEF Dispatched
<1>3. Starting' = Starting
  BY <1>2 DEF Starting
<1>4. PICK used, used2 : used = Slot \ Free /\ used2 = Slot \ Free'
  OBVIOUS
<1>5. /\ IsFiniteSet(used) /\ Cardinality(used) \in Nat /\ IsFiniteSet(Busy) /\ Cardinality(Busy) \in Nat
      /\ Cardinality(Starting) \in Nat /\ Len(backlog) \in Nat
  <2>1. IsFiniteSet(Starting)
    BY FarmAssumption, FS_Interval, FS_Subset DEF Starting
  <2>2. IsFiniteSet(used)
    BY <1>4, FarmAssumption, FS_Difference
  <2> QED
    BY <1>1, <2>1, <2>2, Counted, FS_CardinalityType
<1>6. CASE slot[s].event \in {"BEGIN", "DATA"}
  <2>1. used2 = used
    BY <1>4, <1>6, DispatchedSlot DEF Free
  <2>2. Busy' = Busy
    BY <1>6, DispatchedExecs
  <2> QED
    BY <1>1, <1>2, <1>3, <1>4, <2>1, <2>2 DEF Room
<1>7. CASE slot[s].event \in {"END", "ABORT"}
  <2>1. used2 = used \ {s} /\ s \in used
    BY <1>4, <1>7, DispatchedSlot DEF Free
  <2>2. Cardinality(used2) = Cardinality(used) - 1
    BY <1>5, <2>1, FS_RemoveElement
  <2>3. Cardinality(Busy') \in {Cardinality(Busy), Cardinality(Busy) - 1}
    BY <1>5, DispatchedExecs, FS_RemoveElement
  <2> QED
    BY <1>1, <1>2, <1>3, <1>4, <1>5, <2>2, <2>3 DEF Room
<1> QED
  BY <1>6, <1>7, DispatchedSlot

LEMMA DispatchKeeps ==
  ASSUME Inv, Dispatch
  PROVE  Inv'
BY DispatchFinds, DispatchedExecs, DispatchedKeepsEvents, DispatchedKeepsOwned,
   DispatchedKeepsStreams, DispatchedKeepsResults, DispatchedKeepsRoom DEF Inv

-----------------------------------------------------------------------------
(***************************************************************************)
(* The invariant of the farm.                                              *)
(***************************************************************************)
LEMMA InvInitially == Init => Inv
<1> SUFFICES ASSUME Init PROVE Inv
  OBVIOUS
<1>1. /\ slot = [n \in Slot |-> FreeSlot] /\ chan = [j \in Job |-> <<>>] /\ backlog = <<>>
      /\ fatal = NoFault /\ launch = 0 /\ pc = "fill" /\ ready = {} /\ cur = NoJob /\ file = <<>>
      /\ slave = [j \in Job |-> "none"] /\ outcome = [j \in Job |-> "none"]
  BY DEF Init, CommInit
<1>2. Execs /\ Busy = {}
  BY Initially
<1>3. /\ FreeSlot \in SlotRecord /\ Shape(FreeSlot) /\ OwnerOf(FreeSlot) = NoJob
      /\ FreeSlot.state = "FREE" /\ FreeSlot.event = "NONE"
  BY DEF FreeSlot, SlotRecord, Shape, OwnerOf
<1>4. \A n \in Slot : slot[n] = FreeSlot /\ Owner(n) = NoJob
  BY <1>1, <1>3 DEF Owner
<1>5. Typed
  BY <1>1, <1>3 DEF Typed
<1>6. Events
  BY <1>1, <1>3, <1>4 DEF Events
<1>7. Owned
  <2>1. ToSet(backlog) = {} /\ DOMAIN backlog = {}
    BY <1>1 DEF ToSet
  <2>2. NoJob \notin Job
    BY CommAssumption DEF NoJob
  <2> QED
    BY <1>1, <1>4, <2>1, <2>2 DEF Owned
<1>8. Streams
  BY <1>1 DEF Streams
<1>9. Results
  <2>1. \A j \in Job : chan[j] = <<>> /\ DOMAIN chan[j] = {} /\ ToSet(chan[j]) = {}
    BY <1>1 DEF ToSet
  <2>2. \A j \in Job : ~Sent(j) /\ ~Held(j) /\ ~Kept(j)
    BY <1>1, <1>3, <1>4, <2>1 DEF Sent, Held, Kept, ToSet
  <2>3. ResultsKept
    BY <1>1 DEF ResultsKept
  <2> QED
    BY <1>1, <1>3, <1>4, <2>1, <2>2, <2>3 DEF Results
<1>10. Room
  <2>1. Slot \ Free = {} /\ Starting = {} /\ Len(backlog) = 0
    BY <1>1, <1>3, <1>4 DEF Free, Starting
  <2> QED
    BY <1>2, <2>1, FS_EmptySet DEF Room
<1> QED
  BY <1>2, <1>5, <1>6, <1>7, <1>8, <1>9, <1>10 DEF Inv

LEMMA StutterKeeps ==
  ASSUME Inv, UNCHANGED vars
  PROVE  Inv'
<1>1. /\ UNCHANGED <<slot, chan, backlog, fatal>>
      /\ UNCHANGED <<exec, launch, done, pc, ready, cur, file, outcome, slave>>
  BY DEF vars, commVars, masterVars, slaveVars
<1>2. Execs' /\ Typed' /\ Events'
  <2>1. Execs'
    BY <1>1 DEF Inv, Execs, Busy
  <2>2. Typed'
    BY <1>1 DEF Inv, Typed
  <2>3. Events'
    BY <1>1 DEF Inv, Events, Shape, Readable, Watched
  <2> QED
    BY <2>1, <2>2, <2>3
<1>3. Owned'
  <2>1. \A n \in Slot : Owner(n)' = Owner(n)
    BY <1>1 DEF Owner
  <2>2. \A k, s : Runs(k, s)' <=> Runs(k, s)
    BY <1>1 DEF Runs
  <2> QED
    BY <1>1, <2>1, <2>2 DEF Inv, Owned
<1>4. Streams'
  <2>1. \A k \in Job : Awaited(k)' = Awaited(k)
    BY <1>1 DEF Awaited
  <2>2. \A k \in Job : Tip(k)' = Tip(k)
    BY <1>1, <2>1 DEF Tip
  <2> QED
    BY <1>1, <2>1, <2>2 DEF Inv, Streams
<1>5. Results'
  <2>1. \A k \in Job : (Sent(k)' <=> Sent(k)) /\ (Held(k)' <=> Held(k)) /\ (Kept(k)' <=> Kept(k))
    BY <1>1 DEF Sent, Held, Kept
  <2>2. ResultsKept'
    BY <1>1 DEF Inv, Results, ResultsKept
  <2> QED
    BY <1>1, <2>1, <2>2 DEF Inv, Results
<1>6. Room'
  <2>1. Starting' = Starting /\ Free' = Free /\ Busy' = Busy
    BY <1>1 DEF Starting, Free, Busy
  <2> QED
    BY <1>1, <2>1 DEF Inv, Room
<1> QED
  BY <1>2, <1>3, <1>4, <1>5, <1>6 DEF Inv

LEMMA InvPreserved == Inv /\ [Next]_vars => Inv'
<1> SUFFICES ASSUME Inv, [Next]_vars PROVE Inv'
  OBVIOUS
<1>1. CASE Launch
  BY <1>1, LaunchKeeps
<1>2. CASE Wait \/ Terminate \/ Select \/ ScanClosed
  BY <1>2, PauseKeeps
<1>3. CASE Accept
  BY <1>3, AcceptKeeps
<1>4. CASE Scan
  BY <1>4, ScanKeeps
<1>5. CASE Dispatch
  BY <1>5, DispatchKeeps
<1>6. ASSUME NEW j \in Job, Slave(j) \/ Crash(j) PROVE Inv'
  BY <1>6, SlaveKeeps
<1>7. CASE UNCHANGED vars
  BY <1>7, StutterKeeps
<1> QED
  BY <1>1, <1>2, <1>3, <1>4, <1>5, <1>6, <1>7 DEF Next, Master

(***************************************************************************)
(* Slots, execs, connections and results agree in every state, whatever    *)
(* the slaves send and whenever they die.                                  *)
(***************************************************************************)
THEOREM FarmInvariant == Spec => []Inv
  BY InvInitially, InvPreserved, PTL DEF Spec

(***************************************************************************)
(* The master of runStatHiTas never meets a protocol error: no connection  *)
(* without a slot, no packet out of turn, no event of a job it does not    *)
(* know or that is in the wrong state.                                     *)
(***************************************************************************)
THEOREM ProtocolIsKept == Spec => []NoProtocolError
<1>1. Init => NoProtocolError
  BY DEF Init, CommInit, NoProtocolError
<1>2. Inv /\ NoProtocolError /\ [Next]_vars => NoProtocolError'
  <2> SUFFICES ASSUME Inv, NoProtocolError, [Next]_vars PROVE NoProtocolError'
    OBVIOUS
  <2>1. CASE Launch \/ Wait \/ Terminate \/ Select \/ ScanClosed
    BY <2>1 DEF Launch, Wait, Terminate, Select, ScanClosed, commVars, NoProtocolError
  <2>2. CASE Accept
    BY <2>2, FreeSlotLeft DEF Accept, HandleIncomingConnection, NoProtocolError
  <2>3. CASE Scan
    BY <2>3, ScanReceives DEF Received, NoProtocolError
  <2>4. CASE Dispatch
    <3>1. PICK e \in Busy, s \in Slot : Dispatched(e, s)
      BY <2>4, DispatchFinds
    <3>2. fatal' \in {fatal, NoFault, "send", "stray", "055"}
      BY <3>1 DEF Dispatched, Began, Informed, Broke, Finished
    <3> QED
      BY <3>2 DEF NoProtocolError
  <2>5. ASSUME NEW j \in Job, Slave(j) \/ Crash(j) PROVE NoProtocolError'
    BY <2>5 DEF Slave, Connect, SendBegin, Talk, ReadReply, PostData, SendEnd, Says, Crash,
                NoProtocolError
  <2>6. CASE UNCHANGED vars
    BY <2>6 DEF vars, commVars, NoProtocolError
  <2> QED
    BY <2>1, <2>2, <2>3, <2>4, <2>5, <2>6 DEF Next, Master
<1> QED
  BY <1>1, <1>2, FarmInvariant, PTL DEF Spec

(***************************************************************************)
(* Used slots and waiting connections never outnumber the busy execs, so   *)
(* that "jobs:parajobs" slots are enough for handleincomingconnection.     *)
(***************************************************************************)
THEOREM ConnectionsFindSlots == Spec => []SlotsSuffice
<1>1. Inv => SlotsSuffice
  <2> SUFFICES ASSUME Inv PROVE SlotsSuffice
    OBVIOUS
  <2>1. Execs /\ Room /\ backlog \in Seq(Job)
    BY DEF Inv, Typed
  <2>2. Cardinality(Starting) \in Nat
    <3>1. IsFiniteSet(Starting)
      BY FarmAssumption, FS_Interval, FS_Subset DEF Starting
    <3> QED
      BY <3>1, FS_CardinalityType
  <2>3. Cardinality(Slot \ Free) \in Nat
    <3>1. IsFiniteSet(Slot \ Free)
      BY FarmAssumption, FS_Difference
    <3> QED
      BY <3>1, FS_CardinalityType
  <2>4. Cardinality(Busy) \in Nat /\ Len(backlog) \in Nat
    BY <2>1, Counted
  <2> QED
    BY <2>1, <2>2, <2>3, <2>4 DEF Room, SlotsSuffice
<1> QED
  BY <1>1, FarmInvariant, PTL

(***************************************************************************)
(* mbk_commgetdata finds the slot of an event by its id alone: no id is in *)
(* two slots, and its job is the one of a busy exec in the state that the  *)
(* event calls for.                                                        *)
(***************************************************************************)
THEOREM SlotsHaveOwners == Spec => []SlotsAreOwned
<1>1. Inv => SlotsAreOwned
  <2> SUFFICES ASSUME Inv, NEW n \in Slot, slot[n].id # NoJob
               PROVE  /\ SlotsOf(slot[n].id) = {n}
                      /\ \E e \in Busy : /\ exec[e].job = slot[n].id
                                         /\ exec[e].state = "WAIT" <=> slot[n].event = "BEGIN"
    BY DEF SlotsAreOwned
  <2>1. Owned
    BY DEF Inv
  <2>2. \A m \in Slot : slot[m].id # NoJob =>
            Owner(m) = slot[m].id /\ slot[m].state # "FREE" /\ slot[m].state # "BEGIN"
    <3> SUFFICES ASSUME NEW m \in Slot, slot[m].id # NoJob
                 PROVE  Owner(m) = slot[m].id /\ slot[m].state # "FREE" /\ slot[m].state # "BEGIN"
      OBVIOUS
    <3>1. slot[m] \in SlotRecord /\ Shape(slot[m])
      BY SlotFacts
    <3> QED
      BY <3>1 DEF Shape, SlotRecord, Owner, OwnerOf
  <2>3. SlotsOf(slot[n].id) = {n}
    BY <2>1, <2>2 DEF Owned, SlotsOf
  <2>4. Runs(slot[n].id, Phase(slot[n]))
    BY <2>1, <2>2 DEF Owned
  <2>5. PICK e \in Slot : exec[e].job = slot[n].id /\ exec[e].state = Phase(slot[n])
    BY <2>4 DEF Runs, RunsIn
  <2>6. e \in Busy /\ (exec[e].state = "WAIT" <=> slot[n].event = "BEGIN")
    BY <2>2, <2>5 DEF Phase, Busy
  <2> QED
    BY <2>3, <2>5, <2>6
<1> QED
  BY <1>1, FarmInvariant, PTL

(***************************************************************************)
(* The data file has the result of every job logged as completed, and has  *)
(* no result twice, although slaves die and messages wait in connections.  *)
(***************************************************************************)
THEOREM ResultsAreKept == Spec => []ResultsKept
<1>1. Inv => ResultsKept
  BY DEF Inv, Results
<1> QED
  BY <1>1, FarmInvariant, PTL
-----------------------------------------------------------------------------
(***************************************************************************)
(* Who may wake the master: a busy job whose exec runs has a connection or *)
(* a slot, and before that its slave may also be about to connect or dead. *)
(***************************************************************************)
Linked(j) == j \in ToSet(backlog) \/ \E n \in Slot : slot[n].conn = j

Attached(j) == j \in ToSet(backlog) \/ \E n \in Slot : Owner(n) = j

Expected(j) == /\ Runs(j, "RUN") => Attached(j)
               /\ Runs(j, "WAIT") => slave[j] \in {"started", "dead"} \/ Attached(j)

(***************************************************************************)
(* A process that ended or died has cut its connection, with its last      *)
(* packet and for no other reason; one that ended has said so before.      *)
(***************************************************************************)
Over(j) == slave[j] \in {"ended", "dead"}

Closing(j) == \E n \in Slot : slot[n].conn = j /\ slot[n].state = "CLOSING"

Final(j) == chan[j][Len(chan[j])]

Cut(j) == /\ Linked(j) /\ Over(j) => chan[j] # <<>> /\ Final(j) \in Cuts
          /\ ~Over(j) => \A i \in DOMAIN chan[j] : chan[j][i] \notin Cuts
          /\ slave[j] = "ended" /\ Linked(j) =>
                 Closing(j) \/ \E i \in DOMAIN chan[j] : chan[j][i] = Header("END")

(***************************************************************************)
(* The question of a slave that has no answer is the last packet of its    *)
(* connection, or what the master has just taken out of it.                *)
(***************************************************************************)
Questions == {Body("ASK"), Body("key")}

Asks(j) == \E n \in Slot : slot[n].id = j /\ slot[n].event = "DATA" /\ slot[n].buffer = "ASK"

Asked(j) == /\ j \in gone => slave[j] = "dead"
            /\ slave[j] = "asking" /\ j \notin reply =>
                   Asks(j) \/ (chan[j] # <<>> /\ Final(j) \in Questions)

Wakes(j) == Expected(j) /\ Cut(j) /\ Asked(j)

Awake == pc # "dead" => \A j \in Job : Wakes(j)

(***************************************************************************)
(* A step that changes nothing of a job but adds an answer for it.         *)
(***************************************************************************)
Untouched(j) ==
    /\ slave'[j] = slave[j] /\ chan'[j] = chan[j]
    /\ Linked(j)' = Linked(j) /\ Attached(j)' = Attached(j)
    /\ Closing(j)' = Closing(j) /\ Asks(j)' = Asks(j)
    /\ Runs(j, "WAIT")' = Runs(j, "WAIT") /\ Runs(j, "RUN")' = Runs(j, "RUN")
    /\ j \in gone' => j \in gone
    /\ j \in reply => j \in reply'

LEMMA UntouchedWakes ==
  ASSUME NEW j \in Job, Wakes(j), Untouched(j)
  PROVE  Wakes(j)'
<1>1. Expected(j)'
  BY Zenon DEF Expected, Untouched, Wakes
<1>2. Final(j)' = Final(j)
  BY DEF Final, Untouched
<1>3. Cut(j)'
  BY <1>2, Zenon DEF Cut, Over, Untouched, Wakes
<1>4. Asked(j)'
  BY <1>2, Zenon DEF Asked, Untouched, Wakes
<1> QED
  BY <1>1, <1>3, <1>4 DEF Wakes

(***************************************************************************)
(* When slots and execs stay, so does all that is said of a job's.         *)
(***************************************************************************)
LEMMA SameSlots ==
  ASSUME NEW j \in Job, UNCHANGED <<slot, exec>>, j \in ToSet(backlog)' <=> j \in ToSet(backlog)
  PROVE  /\ Linked(j)' = Linked(j) /\ Attached(j)' = Attached(j)
         /\ Closing(j)' = Closing(j) /\ Asks(j)' = Asks(j)
         /\ Runs(j, "WAIT")' = Runs(j, "WAIT") /\ Runs(j, "RUN")' = Runs(j, "RUN")
<1>1. \A n \in Slot : Owner(n)' = Owner(n)
  BY DEF Owner
<1>2. Linked(j)' = Linked(j) /\ Attached(j)' = Attached(j)
  BY <1>1 DEF Linked, Attached
<1>3. Closing(j)' = Closing(j) /\ Asks(j)' = Asks(j)
  BY DEF Closing, Asks
<1>4. Runs(j, "WAIT")' = Runs(j, "WAIT") /\ Runs(j, "RUN")' = Runs(j, "RUN")
  BY DEF Runs
<1> QED
  BY <1>2, <1>3, <1>4

(***************************************************************************)
(* The master's steps that handle no packet and no event.                  *)
(***************************************************************************)
LEMMA PauseWakes ==
  ASSUME Wait \/ Terminate \/ Select \/ ScanClosed \/ UNCHANGED vars, NEW j \in Job
  PROVE  Untouched(j)
<1>1. UNCHANGED <<slot, exec, backlog, chan, slave, gone, reply>>
  BY DEF Wait, Terminate, Select, ScanClosed, vars, commVars, masterVars, slaveVars
<1>2. j \in ToSet(backlog)' <=> j \in ToSet(backlog)
  BY <1>1
<1> QED
  BY <1>1, <1>2, SameSlots DEF Untouched

LEMMA AcceptWakes ==
  ASSUME Inv, Accept, NEW j \in Job
  PROVE  Untouched(j)
<1>1. PICK n \in Free, job \in Job, new \in SlotRecord : Accepted(n, job, new)
  BY AcceptFinds
<1>2. /\ n \in Slot /\ slot[n].state = "FREE" /\ Shape(slot[n])
      /\ new.state = "BEGIN" /\ new.conn = job /\ new.id = NoJob /\ new.event = "NONE"
      /\ UNCHANGED <<chan, exec, slave, reply, gone>>
  BY <1>1 DEF Accepted, Free
<1>3. /\ slot'[n] = new /\ \A m \in Slot : m # n => slot'[m] = slot[m]
      /\ ToSet(backlog)' = ToSet(backlog) \ {job} /\ job \in ToSet(backlog)
      /\ Owner(n)' = job /\ Owner(n) = NoJob /\ job # NoJob
      /\ \A m \in Slot : m # n => Owner(m)' = Owner(m)
  BY <1>1, AcceptedLeaves
<1>4. slot[n].conn = NoJob /\ slot[n].id = NoJob /\ slot[n].event = "NONE"
  BY <1>2 DEF Shape
<1>5. j # NoJob
  BY SlotFacts
<1>6. Linked(j)' = Linked(j)
  BY <1>2, <1>3, <1>4, <1>5 DEF Linked
<1>7. Attached(j)' = Attached(j)
  BY <1>2, <1>3, <1>5 DEF Attached
<1>8. Closing(j)' = Closing(j) /\ Asks(j)' = Asks(j)
  BY <1>2, <1>3, <1>4, <1>5 DEF Closing, Asks
<1>9. Runs(j, "WAIT")' = Runs(j, "WAIT") /\ Runs(j, "RUN")' = Runs(j, "RUN")
  BY <1>2 DEF Runs
<1> QED
  BY <1>2, <1>6, <1>7, <1>8, <1>9 DEF Untouched

LEMMA LaunchWakes ==
  ASSUME Inv, Launch, NEW j \in Job, Wakes(j)
  PROVE  Wakes(j)'
<1>1. Execs /\ Typed /\ Owned
  BY DEF Inv
<1>2. PICK n \in Slot \ Busy : n = Lowest(Slot \ Busy)
  <2>1. Slot \ Busy # {}
    BY DEF Launch, CanLaunch, Busy
  <2> QED
    BY <2>1, LowestExists
<1>3. /\ exec' = [exec EXCEPT ![n] = [state |-> "WAIT", job |-> launch + 1]]
      /\ slave' = [slave EXCEPT ![launch + 1] = "started"]
      /\ UNCHANGED <<slot, chan, backlog, reply, gone>>
      /\ launch + 1 \in Job /\ launch + 1 > launch /\ slave[launch + 1] = "none"
  BY <1>1, <1>2, FarmAssumption DEF Launch, CanLaunch, commVars, Execs, Typed
<1>4. exec[n].state = "FREE" /\ exec'[n].job = launch + 1 /\ exec'[n].state = "WAIT"
      /\ \A m \in Slot : m # n => exec'[m] = exec[m]
  BY <1>1, <1>2, <1>3 DEF Busy, Execs
<1>5. /\ \A m \in Slot : Owner(m)' = Owner(m)
      /\ Linked(j)' = Linked(j) /\ Attached(j)' = Attached(j)
      /\ Closing(j)' = Closing(j) /\ Asks(j)' = Asks(j)
  <2>1. \A m \in Slot : Owner(m)' = Owner(m)
    BY <1>3 DEF Owner
  <2> QED
    BY <1>3, <2>1 DEF Linked, Attached, Closing, Asks
<1>6. CASE j # launch + 1
  <2>1. slave'[j] = slave[j]
    BY <1>1, <1>3, <1>6 DEF Typed
  <2>2. Runs(j, "WAIT")' = Runs(j, "WAIT") /\ Runs(j, "RUN")' = Runs(j, "RUN")
    BY <1>4, <1>6 DEF Runs, RunsIn
  <2>3. Untouched(j)
    BY <1>3, <1>5, <2>1, <2>2 DEF Untouched
  <2> QED
    BY <2>3, UntouchedWakes
<1>7. CASE j = launch + 1
  <2>1. slave'[j] = "started" /\ slave[j] = "none"
    BY <1>1, <1>3, <1>7 DEF Typed
  <2>2. \A m \in Busy : exec[m].job \in 1..launch
    BY <1>1 DEF Execs
  <2>3. ~Runs(j, "RUN")'
    <3>1. ~Runs(j, "RUN")
      BY <1>1, <1>7, <2>2 DEF Runs, RunsIn, Busy, Execs
    <3> QED
      BY <1>4, <3>1 DEF Runs, RunsIn
  <2>4. Expected(j)'
    BY <2>1, <2>3 DEF Expected
  <2>5. Cut(j)'
    BY <1>3, <2>1 DEF Cut, Over, Wakes
  <2>6. Asked(j)'
    BY <1>3, <2>1 DEF Asked, Wakes
  <2> QED
    BY <2>4, <2>5, <2>6 DEF Wakes
<1> QED
  BY <1>6, <1>7

-----------------------------------------------------------------------------
(***************************************************************************)
(* A slave that is connected sends packets: the last is its question when  *)
(* it asks, and a cut when it ends or dies.                                *)
(***************************************************************************)
LEMMA MovesWake ==
  ASSUME Inv, NEW j \in Job, Wakes(j), slave[j] \in Live,
         NEW to \in {"running", "asking", "posted", "ended", "dead"},
         NEW packets \in Seq(Packet), packets # <<>>, packets[1] \in Tip(j),
         \A i \in 1..Len(packets)-1 : packets[i + 1] \in After(packets[i]),
         to \notin {"ended", "dead"} => \A i \in 1..Len(packets) : packets[i] \notin Cuts,
         to \in {"ended", "dead"} => packets[Len(packets)] \in Cuts,
         to = "ended" => packets[1] = Header("END"),
         to = "asking" => packets[Len(packets)] \in Questions,
         j \in gone' => to = "dead" \/ j \in gone,
         Moves(j, packets, to)
  PROVE  Wakes(j)'
<1>1. Typed /\ Streams /\ Owned
  BY DEF Inv
<1>2. /\ slave' = [slave EXCEPT ![j] = to] /\ Send(j, packets)
      /\ UNCHANGED <<slot, backlog, exec>>
  BY DEF Moves, masterVars
<1>3. slave'[j] = to
  BY <1>1, <1>2 DEF Typed
<1>4. /\ chan'[j] # <<>> /\ chan' \in [Job -> Seq(Packet)]
      /\ \A i \in DOMAIN chan'[j] : \/ i \in DOMAIN chan[j] /\ chan'[j][i] = chan[j][i]
                                    \/ /\ i - Len(chan[j]) \in 1..Len(packets)
                                       /\ chan'[j][i] = packets[i - Len(chan[j])]
      /\ \A i \in 1..Len(packets) : /\ i + Len(chan[j]) \in DOMAIN chan'[j]
                                    /\ chan'[j][i + Len(chan[j])] = packets[i]
  BY <1>1, <1>2, Sends
<1>5. Final(j)' = packets[Len(packets)]
  <2>1. chan'[j] = chan[j] \o packets /\ chan[j] \in Seq(Packet)
    BY <1>1, <1>2 DEF Send, Typed
  <2>2. /\ Len(packets) \in 1..Len(packets) /\ Len(chan[j]) \in Nat /\ Len(packets) \in Nat
        /\ Len(chan'[j]) = Len(packets) + Len(chan[j])
    BY <2>1
  <2> QED
    BY <1>4, <2>2 DEF Final
<1>6. /\ Linked(j)' = Linked(j) /\ Attached(j)' = Attached(j) /\ Closing(j)' = Closing(j)
      /\ Runs(j, "WAIT")' = Runs(j, "WAIT") /\ Runs(j, "RUN")' = Runs(j, "RUN")
  BY <1>2, SameSlots
<1>7. Expected(j)'
  BY <1>3, <1>6 DEF Expected, Wakes, Live
<1>8. Cut(j)'
  <2>1. Over(j)' => Final(j)' \in Cuts
    BY <1>3, <1>5 DEF Over
  <2>2. ASSUME ~Over(j)', NEW i \in DOMAIN chan'[j] PROVE chan'[j][i] \notin Cuts
    <3>1. \A l \in DOMAIN chan[j] : chan[j][l] \notin Cuts
      BY DEF Wakes, Cut, Over, Live
    <3>2. \A l \in 1..Len(packets) : packets[l] \notin Cuts
      BY <1>3, <2>2 DEF Over
    <3> QED
      BY <1>4, <3>1, <3>2
  <2>3. to = "ended" => \E i \in DOMAIN chan'[j] : chan'[j][i] = Header("END")
    <3>1. 1 \in 1..Len(packets)
      OBVIOUS
    <3> QED
      BY <1>4, <3>1
  <2> QED
    BY <1>3, <1>4, <2>1, <2>2, <2>3 DEF Cut, Over
<1>9. Asked(j)'
  BY <1>3, <1>4, <1>5 DEF Asked, Wakes, Live
<1> QED
  BY <1>7, <1>8, <1>9 DEF Wakes

LEMMA PairWakes ==
  ASSUME Inv, NEW j \in Job, Wakes(j), slave[j] \in Live, NEW p \in Packet, NEW q \in Packet,
         NEW to \in {"running", "asking", "posted", "ended", "dead"},
         p \in Tip(j), q \in After(p), p \notin Cuts,
         to \in {"ended", "dead"} <=> q \in Cuts,
         to = "ended" => p = Header("END"),
         to = "asking" => q \in Questions,
         j \in gone' => to = "dead" \/ j \in gone,
         Moves(j, <<p, q>>, to)
  PROVE  Wakes(j)'
<1> DEFINE packets == <<p, q>>
<1>1. /\ packets \in Seq(Packet) /\ packets # <<>> /\ Len(packets) = 2
      /\ packets[1] = p /\ packets[2] = q
  OBVIOUS
<1>2. Moves(j, packets, to)
  OBVIOUS
<1> HIDE DEF packets
<1>3. \A i \in 1..Len(packets)-1 : packets[i + 1] \in After(packets[i])
  <2>1. \A i \in 1..2-1 : i = 1
    OBVIOUS
  <2> QED
    BY <1>1, <2>1
<1>4. to \notin {"ended", "dead"} => \A i \in 1..Len(packets) : packets[i] \notin Cuts
  <2>1. \A i \in 1..Len(packets) : i = 1 \/ i = 2
    BY <1>1
  <2> QED
    BY <1>1, <2>1
<1> QED
  BY <1>1, <1>2, <1>3, <1>4, MovesWake

LEMMA CutWakes ==
  ASSUME Inv, NEW j \in Job, Wakes(j), slave[j] \in Live, NEW p \in Cuts, p \in Tip(j),
         Moves(j, <<p>>, "dead")
  PROVE  Wakes(j)'
<1> DEFINE packets == <<p>>
<1>1. p \in Packet
  BY AfterThat
<1>2. packets \in Seq(Packet) /\ packets # <<>> /\ Len(packets) = 1 /\ packets[1] = p
  BY <1>1
<1>3. Moves(j, packets, "dead")
  OBVIOUS
<1> HIDE DEF packets
<1>4. \A i \in 1..Len(packets)-1 : packets[i + 1] \in After(packets[i])
  BY <1>2
<1> QED
  BY <1>2, <1>3, <1>4, MovesWake

LEMMA NoCut ==
  /\ \A t \in {"BEGIN", "DATA", "TOKEN", "CHECK", "END"} : Header(t) \notin Cuts
  /\ \A w \in {"id", "INFO", "ASK", "POST", "key"} : Body(w) \notin Cuts
  /\ Eof \in Cuts
BY PacketKinds DEF Cuts

LEMMA SaysWakes ==
  ASSUME Inv, NEW j \in Job, Wakes(j), SendBegin(j) \/ Talk(j) \/ PostData(j) \/ SendEnd(j)
  PROVE  Wakes(j)'
<1>0. Streams /\ gone' = gone
  BY DEF Inv, SendBegin, Talk, PostData, SendEnd, Says
<1>1. CASE SendBegin(j)
  <2>1. slave[j] = "connected" /\ Moves(j, <<Header("BEGIN"), Body("id")>>, "running")
    BY <1>1 DEF SendBegin, Says, Moves
  <2>2. Header("BEGIN") \in Tip(j) /\ Body("id") \in After(Header("BEGIN"))
    BY <1>0, <2>1, AfterThat DEF Streams
  <2>3. Header("BEGIN") \in Packet /\ Body("id") \in Packet
    BY PacketKinds
  <2> QED
    BY <1>0, <2>1, <2>2, <2>3, NoCut, PairWakes DEF Live
<1>2. CASE Talk(j)
  <2>1. PICK t \in {"DATA", "TOKEN", "CHECK"}, w \in {"INFO", "ASK", "key"}, to \in {"running", "asking"} :
           /\ Says(j, "running", to, <<Header(t), Body(w)>>)
           /\ t = "DATA" <=> w # "key"
           /\ to = "asking" => w # "INFO"
    BY <1>2 DEF Talk
  <2>2. slave[j] = "running" /\ Moves(j, <<Header(t), Body(w)>>, to)
    BY <2>1 DEF Says, Moves
  <2>3. Header(t) \in Tip(j) /\ Body(w) \in After(Header(t))
    BY <1>0, <2>1, <2>2, AfterThat DEF Streams, Heads
  <2>4. Header(t) \in Packet /\ Body(w) \in Packet
    BY PacketKinds
  <2>5. to = "asking" => Body(w) \in Questions
    BY <2>1 DEF Questions
  <2>6. Header(t) \notin Cuts /\ Body(w) \notin Cuts
    BY NoCut
  <2> QED
    BY <1>0, <2>2, <2>3, <2>4, <2>5, <2>6, PairWakes DEF Live
<1>3. CASE PostData(j)
  <2>1. slave[j] = "running" /\ Moves(j, <<Header("DATA"), Body("POST")>>, "posted")
    BY <1>3 DEF PostData, Says, Moves
  <2>2. Header("DATA") \in Tip(j) /\ Body("POST") \in After(Header("DATA"))
    BY <1>0, <2>1, AfterThat DEF Streams, Heads
  <2>3. Header("DATA") \in Packet /\ Body("POST") \in Packet
    BY PacketKinds
  <2> QED
    BY <1>0, <2>1, <2>2, <2>3, NoCut, PairWakes DEF Live
<1>4. CASE SendEnd(j)
  <2>1. slave[j] = "posted" /\ Moves(j, <<Header("END"), Eof>>, "ended")
    BY <1>4 DEF SendEnd, Says, Moves
  <2>2. Header("END") \in Tip(j) /\ Eof \in After(Header("END"))
    BY <1>0, <2>1, AfterThat DEF Streams, Heads, Cuts
  <2>3. Header("END") \in Packet /\ Eof \in Packet
    BY PacketKinds
  <2> QED
    BY <1>0, <2>1, <2>2, <2>3, NoCut, PairWakes DEF Live
<1> QED
  BY <1>1, <1>2, <1>3, <1>4

LEMMA CrashWakes ==
  ASSUME Inv, NEW j \in Job, Wakes(j), Crash(j)
  PROVE  Wakes(j)'
<1>1. Typed /\ Owned
  BY DEF Inv
<1>2. slave[j] \in {"started"} \cup Live /\ slave' = [slave EXCEPT ![j] = "dead"]
      /\ UNCHANGED <<slot, backlog, exec>>
  BY FarmAssumption DEF Crash, DeathKind, Live, masterVars
<1>3. slave'[j] = "dead"
  BY <1>1, <1>2 DEF Typed
<1>4. CASE slave[j] = "started"
  <2>1. /\ Linked(j)' = Linked(j) /\ Attached(j)' = Attached(j)
        /\ Runs(j, "WAIT")' = Runs(j, "WAIT") /\ Runs(j, "RUN")' = Runs(j, "RUN")
    BY <1>2, SameSlots
  <2>2. j \notin ToSet(backlog) /\ \A n \in Slot : Owner(n) # j
    BY <1>1, <1>4 DEF Owned
  <2>3. ~Linked(j)
    BY <2>2, SlotFacts DEF Linked, Owner, OwnerOf
  <2>4. Expected(j)'
    BY <1>3, <2>1 DEF Expected, Wakes
  <2>5. Cut(j)'
    BY <1>3, <2>1, <2>3 DEF Cut, Over
  <2>6. Asked(j)'
    BY <1>3 DEF Asked
  <2> QED
    BY <2>4, <2>5, <2>6 DEF Wakes
<1>5. CASE slave[j] \in Live
  <2>1. PICK cut \in Cuts : Dies(j, cut)
    BY <1>5, CrashDies
  <2>2. CASE cut \in Tip(j) /\ Moves(j, <<cut>>, "dead")
    BY <1>5, <2>2, CutWakes
  <2>3. ASSUME NEW t \in {"BEGIN", "DATA"}, Header(t) \in Tip(j), cut \in After(Header(t)),
               Moves(j, <<Header(t), cut>>, "dead")
        PROVE  Wakes(j)'
    <3>1. Header(t) \in Packet /\ cut \in Packet /\ Header(t) \notin Cuts
      BY AfterThat, PacketKinds, NoCut
    <3> QED
      BY <1>5, <2>3, <3>1, PairWakes
  <2> QED
    BY <2>1, <2>2, <2>3 DEF Dies
<1> QED
  BY <1>2, <1>4, <1>5

LEMMA ConnectWakes ==
  ASSUME Inv, NEW j \in Job, Wakes(j), Connect(j)
  PROVE  Wakes(j)'
<1>1. Typed
  BY DEF Inv
<1>2. /\ slave[j] = "started" /\ slave' = [slave EXCEPT ![j] = "connected"]
      /\ backlog' = Append(backlog, j)
      /\ UNCHANGED <<slot, exec, chan, gone>>
  BY DEF Connect, masterVars
<1>3. slave'[j] = "connected"
  BY <1>1, <1>2 DEF Typed
<1>4. j \in ToSet(backlog)'
  <2>1. /\ backlog \in Seq(Job) /\ Len(backlog) + 1 \in DOMAIN backlog'
        /\ backlog'[Len(backlog) + 1] = j
    BY <1>1, <1>2 DEF Typed
  <2> QED
    BY <2>1 DEF ToSet
<1>5. Expected(j)'
  BY <1>4 DEF Expected, Attached
<1>6. Cut(j)'
  BY <1>2, <1>3 DEF Cut, Over, Wakes
<1>7. Asked(j)'
  BY <1>2, <1>3 DEF Asked, Wakes
<1> QED
  BY <1>5, <1>6, <1>7 DEF Wakes

LEMMA ReadReplyWakes ==
  ASSUME Inv, NEW j \in Job, Wakes(j), ReadReply(j)
  PROVE  Wakes(j)'
<1>1. Typed
  BY DEF Inv
<1>2. /\ slave[j] = "asking" /\ slave' = [slave EXCEPT ![j] = "running"]
      /\ UNCHANGED <<slot, exec, backlog, chan, gone>>
  BY DEF ReadReply, masterVars
<1>3. slave'[j] = "running"
  BY <1>1, <1>2 DEF Typed
<1>4. /\ Attached(j)' = Attached(j)
      /\ Runs(j, "WAIT")' = Runs(j, "WAIT") /\ Runs(j, "RUN")' = Runs(j, "RUN")
  BY <1>2, SameSlots
<1>5. Expected(j)'
  BY <1>2, <1>3, <1>4 DEF Expected, Wakes
<1>6. Cut(j)'
  BY <1>2, <1>3 DEF Cut, Over, Wakes
<1>7. Asked(j)'
  BY <1>2, <1>3 DEF Asked, Wakes
<1> QED
  BY <1>5, <1>6, <1>7 DEF Wakes

(***************************************************************************)
(* What a slave does leaves the jobs of the others alone.                  *)
(***************************************************************************)
LEMMA OthersUntouched ==
  ASSUME Inv, NEW j \in Job, Slave(j) \/ Crash(j), NEW k \in Job, k # j
  PROVE  Untouched(k)
<1>1. Typed
  BY DEF Inv
<1>2. /\ UNCHANGED <<slot, exec>>
      /\ \E to : slave' = [slave EXCEPT ![j] = to]
      /\ UNCHANGED chan \/ \E packets : Send(j, packets)
      /\ UNCHANGED backlog \/ backlog' = Append(backlog, j)
      /\ gone' \in {gone, gone \cup {j}} /\ reply' \in {reply, reply \ {j}}
  BY DEF Slave, Connect, SendBegin, Talk, ReadReply, PostData, SendEnd, Says, Crash, masterVars
<1>3. slave'[k] = slave[k] /\ chan'[k] = chan[k]
  BY <1>1, <1>2 DEF Typed, Send
<1>4. k \in ToSet(backlog)' <=> k \in ToSet(backlog)
  <2>1. CASE backlog' = Append(backlog, j)
    <3>1. /\ backlog \in Seq(Job) /\ Len(backlog) \in Nat
          /\ DOMAIN backlog = 1..Len(backlog) /\ DOMAIN backlog' = 1..Len(backlog)+1
          /\ \A i \in 1..Len(backlog) : i \in 1..Len(backlog)+1 /\ backlog'[i] = backlog[i]
          /\ backlog'[Len(backlog) + 1] = j
          /\ \A i \in 1..Len(backlog)+1 : i \in 1..Len(backlog) \/ i = Len(backlog) + 1
      BY <1>1, <2>1 DEF Typed
    <3> QED
      BY <3>1 DEF ToSet
  <2> QED
    BY <1>2, <2>1
<1> QED
  BY <1>2, <1>3, <1>4, SameSlots DEF Untouched

LEMMA SlaveWakes ==
  ASSUME Inv, NEW j \in Job, Slave(j) \/ Crash(j), NEW k \in Job, Wakes(k)
  PROVE  Wakes(k)'
<1>1. CASE k = j
  BY <1>1, ConnectWakes, SaysWakes, ReadReplyWakes, CrashWakes DEF Slave
<1>2. CASE k # j
  BY <1>2, OthersUntouched, UntouchedWakes
<1> QED
  BY <1>1, <1>2

-----------------------------------------------------------------------------
(***************************************************************************)
(* The master receives a packet: of other jobs nothing changes.            *)
(***************************************************************************)
LEMMA ReceivedSlots ==
  ASSUME Inv, NEW n \in Slot, NEW job \in Job, NEW new \in SlotRecord, Received(n, job, new)
  PROVE  /\ slot'[n] = new /\ \A m \in Slot : m # n => slot'[m] = slot[m]
         /\ chan'[job] = Tail(chan[job]) /\ \A k \in Job : k # job => chan'[k] = chan[k]
         /\ chan[job] \in Seq(Packet) /\ chan[job] # <<>>
         /\ \A m \in Slot : Owner(m) = job => m = n
         /\ job \notin ToSet(backlog) /\ slave[job] \notin {"none", "started"}
         /\ Runs(job, Phase(slot[n]))
         /\ UNCHANGED <<backlog, exec, slave>>
<1>1. Typed /\ Owned
  BY DEF Inv
<1>2. Owner(n) = job /\ job # NoJob
  BY SlotFacts DEF Received, Owner, OwnerOf
<1> QED
  BY <1>1, <1>2 DEF Typed, Owned, Received

LEMMA ReceivedOthers ==
  ASSUME Inv, NEW n \in Slot, NEW job \in Job, NEW new \in SlotRecord,
         Received(n, job, new), Heard(n, job, new), NEW k \in Job, k # job
  PROVE  Untouched(k)
<1>1. /\ slot'[n] = new /\ \A m \in Slot : m # n => slot'[m] = slot[m]
      /\ chan'[k] = chan[k] /\ UNCHANGED <<backlog, exec, slave>>
  BY ReceivedSlots
<1>2. /\ slot[n].conn = job /\ slot[n].id \in {job, NoJob}
      /\ new.conn \in {job, NoJob} /\ new.id \in {job, NoJob} /\ k # NoJob
  <2>1. Shape(slot[n]) /\ slot[n] \in SlotRecord /\ slot[n].conn = job /\ job # NoJob
    BY SlotFacts DEF Received
  <2>2. slot[n].id \in {job, NoJob}
    BY <2>1 DEF Shape, SlotRecord
  <2>3. new.conn \in {job, NoJob} /\ new.id \in {job, NoJob}
    BY <2>1 DEF Received, TurnsWell
  <2> QED
    BY <2>1, <2>2, <2>3, SlotFacts
<1>3. /\ Owner(n) # k /\ Owner(n)' # k /\ \A m \in Slot : m # n => Owner(m)' = Owner(m)
  BY <1>1, <1>2 DEF Owner, OwnerOf
<1>4. Linked(k)' = Linked(k)
  BY <1>1, <1>2 DEF Linked
<1>5. Attached(k)' = Attached(k)
  BY <1>1, <1>3 DEF Attached
<1>6. Closing(k)' = Closing(k) /\ Asks(k)' = Asks(k)
  BY <1>1, <1>2 DEF Closing, Asks
<1>7. Runs(k, "WAIT")' = Runs(k, "WAIT") /\ Runs(k, "RUN")' = Runs(k, "RUN")
  BY <1>1 DEF Runs
<1> QED
  BY <1>1, <1>4, <1>5, <1>6, <1>7 DEF Untouched, Heard

(***************************************************************************)
(* The end of a connection is its last packet: the slot closes.            *)
(***************************************************************************)
LEMMA EofWakes ==
  ASSUME Inv, NEW n \in Slot, NEW job \in Job, NEW new \in SlotRecord,
         Received(n, job, new), Heard(n, job, new), Wakes(job), Head(chan[job]) = Eof
  PROVE  Wakes(job)'
<1>1. /\ slot'[n] = new /\ \A m \in Slot : m # n => slot'[m] = slot[m]
      /\ chan'[job] = Tail(chan[job]) /\ chan[job] \in Seq(Packet) /\ chan[job] # <<>>
      /\ \A m \in Slot : Owner(m) = job => m = n
      /\ job \notin ToSet(backlog) /\ Runs(job, Phase(slot[n]))
      /\ UNCHANGED <<backlog, exec, slave>>
  BY ReceivedSlots
<1>2. /\ slot[n].conn = job /\ slot[n].event = "NONE" /\ Shape(slot[n]) /\ slot[n] \in SlotRecord
      /\ job # NoJob
  BY SlotFacts DEF Received
<1>3. PICK s \in Seq(Packet) : s = chan[job] /\ s # <<>> /\ s[1] = Eof
                               /\ Len(s) \in Nat \ {0} /\ DOMAIN s = 1..Len(s)
  <2>1. PICK s \in Seq(Packet) : s = chan[job] /\ s # <<>>
    BY <1>1
  <2> QED
    BY <2>1, TheRest
<1>4. Len(s) = 1
  <2>1. \A i \in 1..Len(s)-1 : s[i + 1] \in After(s[i])
    BY <1>3 DEF Inv, Streams
  <2>2. CASE Len(s) > 1
    <3>1. 1 \in 1..Len(s)-1 /\ 1 + 1 = 2
      BY <1>3, <2>2
    <3>2. s[2] \in After(Eof)
      BY <1>3, <2>1, <3>1
    <3> QED
      BY <3>2, AfterThat
  <2>3. Len(s) > 1 \/ Len(s) = 1
    <3>1. PICK m \in Nat \ {0} : m = Len(s)
      BY <1>3
    <3>2. m > 1 \/ m = 1
      OBVIOUS
    <3> QED
      BY <3>1, <3>2
  <2> QED
    BY <2>2, <2>3
<1>5. chan'[job] = <<>>
  <2>1. PICK r \in Seq(Packet) : r = chan'[job] /\ Len(r) = Len(s) - 1
    <3>1. PICK r : r = chan'[job] /\ r = Tail(s)
      BY <1>1, <1>3
    <3> QED
      BY <1>3, <3>1, TheRest
  <2> QED
    BY <1>4, <2>1
<1>6. Over(job)
  <2>1. 1 \in DOMAIN s /\ s[1] \in Cuts
    BY <1>3, NoCut
  <2> QED
    BY <1>3, <2>1 DEF Wakes, Cut
<1>7. new.conn = NoJob /\ new.id = slot[n].id
  <2>1. new = [slot[n] EXCEPT !.state = "CLOSED", !.conn = NoJob,
                              !.event = IF slot[n].state = "CLOSING" THEN "END" ELSE "ABORT"]
    BY PacketKinds DEF Heard, Turned
  <2> QED
    BY <1>2, <2>1 DEF SlotRecord
<1>8. ~Linked(job)'
  <2>1. \A m \in Slot : m # n => slot[m].conn # job
    BY <1>1, <1>2 DEF Owner, OwnerOf
  <2> QED
    BY <1>1, <1>2, <1>7, <2>1 DEF Linked
<1>9. Runs(job, "WAIT")' = Runs(job, "WAIT") /\ Runs(job, "RUN")' = Runs(job, "RUN")
  BY <1>1 DEF Runs
<1>10. Expected(job)'
  <2>1. CASE slot[n].state = "BEGIN"
    <3>1. Runs(job, "WAIT")
      BY <1>1, <2>1 DEF Phase
    <3>2. ~Runs(job, "RUN")
      BY <3>1 DEF Inv, Execs, Runs, RunsIn, Busy
    <3>3. slave[job] # "ended"
      <4>1. ~Closing(job)
        BY <1>1, <1>2, <2>1 DEF Closing, Owner, OwnerOf
      <4>2. \A i \in DOMAIN chan[job] : chan[job][i] # Header("END")
        <5>1. \A i \in DOMAIN s : i = 1
          BY <1>3, <1>4
        <5> QED
          BY <1>3, <5>1, PacketKinds
      <4>3. Linked(job)
        BY <1>2 DEF Linked
      <4> QED
        BY <4>1, <4>2, <4>3 DEF Wakes, Cut
    <3> QED
      BY <1>1, <1>6, <1>9, <3>2, <3>3 DEF Expected, Over
  <2>2. CASE slot[n].state # "BEGIN"
    <3>1. slot[n].id = job
      BY <1>2, <2>2 DEF Shape, SlotRecord
    <3>2. Attached(job)'
      BY <1>1, <1>7, <3>1 DEF Attached, Owner, OwnerOf
    <3> QED
      BY <3>2 DEF Expected
  <2> QED
    BY <2>1, <2>2
<1>11. Cut(job)'
  BY <1>1, <1>6, <1>8 DEF Cut, Over
<1>12. Asked(job)'
  BY <1>1, <1>6 DEF Asked, Over, Wakes, Heard
<1> QED
  BY <1>10, <1>11, <1>12 DEF Wakes

(***************************************************************************)
(* Any other packet leaves the connection open; the one that was a         *)
(* question is the event of the slot, or is answered at once.              *)
(***************************************************************************)
LEMMA PacketWakes ==
  ASSUME Inv, NEW n \in Slot, NEW job \in Job, NEW new \in SlotRecord, fatal' = NoFault,
         Received(n, job, new), Heard(n, job, new), Wakes(job), Head(chan[job]) # Eof
  PROVE  Wakes(job)'
<1>1. /\ slot'[n] = new /\ \A m \in Slot : m # n => slot'[m] = slot[m]
      /\ chan'[job] = Tail(chan[job]) /\ chan[job] \in Seq(Packet) /\ chan[job] # <<>>
      /\ \A m \in Slot : Owner(m) = job => m = n
      /\ UNCHANGED <<backlog, exec, slave>>
  BY ReceivedSlots
<1>2. /\ slot[n].conn = job /\ slot[n].event = "NONE" /\ Shape(slot[n]) /\ slot[n] \in SlotRecord
      /\ job # NoJob
  BY SlotFacts DEF Received
<1>3. PICK p \in Packet : p = Head(chan[job]) /\ p = chan[job][1]
  BY <1>1, TheRest
<1>4. p \in Expects(slot[n]) /\ new = Turned(slot[n], p) /\ TurnsWell(slot[n], p, new)
      /\ p \notin Cuts
  BY <1>3 DEF Heard, Received, Cuts
<1>5. new.conn = job
  <2>1. After(p) # {}
    BY <1>4 DEF After, Packet, Header, Body, Eof, Reset, Cuts
  <2> QED
    BY <1>2, <1>4, <2>1 DEF TurnsWell
<1>6. Linked(job)' /\ Attached(job)'
  BY <1>1, <1>2, <1>5 DEF Linked, Attached, Owner, OwnerOf
<1>7. PICK s \in Seq(Packet), r \in Seq(Packet) :
           /\ s = chan[job] /\ s # <<>> /\ r = chan'[job]
           /\ Len(s) \in Nat \ {0} /\ Len(r) = Len(s) - 1
           /\ DOMAIN s = 1..Len(s) /\ DOMAIN r = 1..Len(s)-1
           /\ \A i \in 1..Len(s)-1 : i + 1 \in 1..Len(s) /\ r[i] = s[i + 1]
           /\ \A i \in 1..Len(s) : i = 1 \/ (i - 1 \in 1..Len(s)-1 /\ r[i - 1] = s[i])
  <2>1. PICK s \in Seq(Packet) : s = chan[job] /\ s # <<>>
    BY <1>1
  <2>2. PICK r : r = chan'[job] /\ r = Tail(s)
    BY <1>1, <2>1
  <2> QED
    BY <2>1, <2>2, TheRest
<1>8. Final(job) # p => r # <<>> /\ Final(job)' = Final(job)
  <2> SUFFICES ASSUME s[Len(s)] # p PROVE r # <<>> /\ r[Len(r)] = s[Len(s)]
    BY <1>7 DEF Final
  <2>1. Len(s) # 1
    BY <1>3, <1>7
  <2>2. Len(r) \in 1..Len(s)-1 /\ Len(r) + 1 = Len(s)
    <3>1. PICK m \in Nat \ {0} : m = Len(s) /\ m # 1 /\ Len(r) = m - 1
      BY <1>7, <2>1
    <3>2. m - 1 \in 1..m-1 /\ (m - 1) + 1 = m
      BY <3>1
    <3> QED
      BY <3>1, <3>2
  <2>3. r[Len(r)] = s[Len(r) + 1]
    BY <1>7, <2>2
  <2>4. r # <<>>
    <3>1. Len(r) # 0
      BY <2>2
    <3>2. r = <<>> => Len(r) = 0
      OBVIOUS
    <3> QED
      BY <3>1, <3>2
  <2> QED
    BY <2>2, <2>3, <2>4
<1>9. Expected(job)'
  BY <1>6 DEF Expected
<1>10. Cut(job)'
  <2>0. Linked(job)
    BY <1>2 DEF Linked
  <2>1. ASSUME Over(job)' PROVE r # <<>> /\ Final(job)' \in Cuts
    BY <1>1, <1>4, <1>8, <2>0, <2>1 DEF Wakes, Cut, Over
  <2>2. ASSUME ~Over(job)' PROVE \A i \in DOMAIN r : r[i] \notin Cuts
    BY <1>1, <1>7, <2>2 DEF Wakes, Cut, Over
  <2>3. ASSUME slave[job] = "ended"
        PROVE  Closing(job)' \/ \E i \in DOMAIN r : r[i] = Header("END")
    <3>1. ~Closing(job)
      <4> SUFFICES ASSUME NEW m \in Slot, slot[m].conn = job, slot[m].state = "CLOSING"
                   PROVE  FALSE
        BY DEF Closing
      <4>1. m = n
        BY <1>1, <1>2 DEF Owner, OwnerOf
      <4> QED
        BY <1>2, <1>4, <4>1 DEF Expects, Shape
    <3>2. PICK i \in DOMAIN chan[job] : chan[job][i] = Header("END")
      BY <2>0, <2>3, <3>1 DEF Wakes, Cut
    <3>3. CASE i = 1
      <4>1. new = [slot[n] EXCEPT !.state = "CLOSING"]
        BY <1>3, <1>4, <3>2, <3>3, PacketKinds DEF Turned
      <4>2. new.state = "CLOSING"
        BY <1>2, <4>1 DEF SlotRecord
      <4> QED
        BY <1>1, <1>5, <4>2 DEF Closing
    <3>4. CASE i # 1
      <4>1. i \in 1..Len(s) /\ s[i] = Header("END")
        BY <1>7, <3>2
      <4>2. i - 1 \in DOMAIN r /\ r[i - 1] = s[i]
        BY <1>7, <3>4, <4>1
      <4> QED
        BY <4>1, <4>2
    <3> QED
      BY <3>3, <3>4
  <2> QED
    BY <1>1, <1>7, <2>1, <2>2, <2>3 DEF Cut
<1>11. Asked(job)'
  <2>1. gone' = gone /\ reply \subseteq reply' /\ (p = Body("key") => job \in reply' \cup gone)
    BY <1>3 DEF Heard
  <2>2. job \in gone' => slave'[job] = "dead"
    BY <1>1, <2>1 DEF Wakes, Asked
  <2>3. ASSUME slave'[job] = "asking", job \notin reply'
        PROVE  Asks(job)' \/ (r # <<>> /\ Final(job)' \in Questions)
    <3>1. slave[job] = "asking" /\ job \notin reply /\ job \notin gone
      BY <1>1, <2>1, <2>3 DEF Wakes, Asked
    <3>2. ~Asks(job)
      <4> SUFFICES ASSUME NEW m \in Slot, slot[m].id = job, slot[m].event = "DATA"
                   PROVE  FALSE
        BY DEF Asks
      <4>1. slot[m].conn = job
        BY SlotFacts DEF Shape
      <4>2. m = n
        BY <1>1, <1>2, <4>1 DEF Owner, OwnerOf
      <4> QED
        BY <1>2, <4>2
    <3>3. Final(job) \in Questions
      BY <3>1, <3>2 DEF Wakes, Asked
    <3>4. CASE Final(job) # p
      BY <1>8, <3>3, <3>4
    <3>5. CASE p = Body("ASK")
      <4>1. slot[n].state = "RUNNING" /\ slot[n].part = "DATA"
        BY <1>2, <1>4, <3>5, PacketKinds DEF Expects, BodiesOf, Heads, Shape, SlotRecord
      <4>2. new = [slot[n] EXCEPT !.event = "DATA", !.buffer = "ASK", !.part = "header"]
        BY <1>4, <3>5, <4>1, PacketKinds DEF Turned
      <4>3. new.event = "DATA" /\ new.buffer = "ASK" /\ new.id = job
        BY <1>2, <4>1, <4>2 DEF Shape, SlotRecord
      <4> QED
        BY <1>1, <4>3 DEF Asks
    <3>6. p # Body("key")
      BY <2>1, <2>3, <3>1
    <3> QED
      BY <3>3, <3>4, <3>5, <3>6 DEF Questions
  <2> QED
    BY <1>7, <2>2, <2>3 DEF Asked
<1> QED
  BY <1>9, <1>10, <1>11 DEF Wakes

LEMMA ScanWakes ==
  ASSUME Inv, Scan, pc' # "dead", NEW k \in Job, Wakes(k)
  PROVE  Wakes(k)'
<1>1. PICK n \in Slot, job \in Job, new \in SlotRecord : Received(n, job, new) /\ Heard(n, job, new)
  BY ScanReceives
<1>2. fatal' = NoFault
  BY <1>1 DEF Received, StopIfFatal
<1> QED
  BY <1>1, <1>2, ReceivedOthers, UntouchedWakes, EofWakes, PacketWakes

-----------------------------------------------------------------------------
(***************************************************************************)
(* The master handles an event: of other jobs nothing changes.             *)
(***************************************************************************)
LEMMA DispatchedOthers ==
  ASSUME Inv, NEW e \in Busy, NEW s \in Slot, Dispatched(e, s), Heeded(s), NEW k \in Job, k # cur
  PROVE  Untouched(k)
<1>1. /\ exec[e].job = cur /\ slot[s].id = cur
      /\ UNCHANGED <<chan, backlog, slave>> /\ k # NoJob
  BY SlotFacts DEF Dispatched
<1>2. /\ slot'[s].conn = slot[s].conn /\ slot'[s].id \in {cur, NoJob}
      /\ slot[s].conn \in {cur, NoJob} /\ Owner(s) = cur
      /\ \A m \in Slot : m # s => slot'[m] = slot[m]
  BY DispatchedSlot
<1>3. Owner(s)' # k /\ \A m \in Slot : m # s => Owner(m)' = Owner(m)
  BY <1>1, <1>2 DEF Owner, OwnerOf
<1>4. Linked(k)' = Linked(k)
  BY <1>1, <1>2 DEF Linked
<1>5. Attached(k)' = Attached(k)
  BY <1>1, <1>2, <1>3 DEF Attached
<1>6. Closing(k)' = Closing(k) /\ Asks(k)' = Asks(k)
  BY <1>1, <1>2 DEF Closing, Asks
<1>7. exec'[e].job \in {cur, NoJob} /\ \A m \in Slot : m # e => exec'[m] = exec[m]
  <2>1. Execs /\ e \in Slot
    BY DEF Inv, Busy
  <2>2. \/ exec' = exec \/ exec' = [exec EXCEPT ![e].state = "RUN"]
        \/ exec' = [exec EXCEPT ![e] = [state |-> "FREE", job |-> NoJob]]
    BY DEF Dispatched, Began, Informed, Broke, Finished, Ends
  <2> QED
    BY <1>1, <2>1, <2>2 DEF Execs
<1>8. Runs(k, "WAIT")' = Runs(k, "WAIT") /\ Runs(k, "RUN")' = Runs(k, "RUN")
  BY <1>1, <1>7 DEF Runs, RunsIn
<1> QED
  BY <1>1, <1>4, <1>5, <1>6, <1>8 DEF Untouched, Heeded

LEMMA DispatchedWakes ==
  ASSUME Inv, NEW e \in Busy, NEW s \in Slot, Dispatched(e, s), Heeded(s), pc' # "dead", Wakes(cur)
  PROVE  Wakes(cur)'
<1>1. /\ UNCHANGED <<chan, backlog, slave, cur>> /\ cur \in Job /\ gone' = gone /\ reply \subseteq reply'
      /\ exec[e].job = cur
  BY DEF Dispatched, Heeded
<1>2. /\ slot'[s].conn = slot[s].conn
      /\ \A m \in Slot : m # s => slot'[m] = slot[m]
      /\ slot'[s].state = "CLOSING" <=> slot[s].state = "CLOSING"
      /\ \/ slot[s].event \in {"BEGIN", "DATA"} /\ slot'[s].conn = cur
         \/ slot[s].event \in {"END", "ABORT"}
      /\ Owner(s) = cur /\ cur # NoJob
  BY DispatchedSlot
<1>3. Linked(cur)' = Linked(cur) /\ Closing(cur)' = Closing(cur)
  BY <1>1, <1>2 DEF Linked, Closing
<1>4. Expected(cur)'
  <2>1. CASE slot[s].event \in {"BEGIN", "DATA"}
    <3>1. Attached(cur)'
      BY <1>1, <1>2, <2>1 DEF Attached, Owner, OwnerOf
    <3> QED
      BY <3>1 DEF Expected
  <2>2. CASE slot[s].event \in {"END", "ABORT"}
    <3>1. PICK how \in {"completed", "aborted"} : Ends(e, how)
      BY <2>2 DEF Dispatched, Began, Informed, Broke, Finished
    <3>2. Execs /\ e \in Slot /\ exec[e].state # "FREE"
      BY DEF Inv, Busy
    <3>3. /\ exec'[e].state = "FREE" /\ \A m \in Slot : m # e => exec'[m] = exec[m]
      BY <3>1, <3>2 DEF Ends, Execs
    <3>4. \A m \in Slot : m # e /\ exec[m].job = cur => exec[m].state = "FREE"
      BY <1>1, <3>2 DEF Execs, Busy
    <3>5. ~Runs(cur, "WAIT")' /\ ~Runs(cur, "RUN")'
      BY <1>1, <3>3, <3>4 DEF Runs, RunsIn
    <3> QED
      BY <3>5 DEF Expected
  <2> QED
    BY <1>2, <2>1, <2>2
<1>5. Cut(cur)'
  BY <1>1, <1>3 DEF Cut, Over, Final, Wakes
<1>6. Asked(cur)'
  <2>1. ASSUME slave[cur] = "asking", cur \notin reply'
        PROVE  chan[cur] # <<>> /\ Final(cur) \in Questions
    <3>1. cur \notin reply /\ cur \notin gone
      BY <1>1, <2>1 DEF Wakes, Asked
    <3>2. ~Asks(cur)
      <4> SUFFICES ASSUME NEW m \in Slot, slot[m].id = cur, slot[m].event = "DATA", slot[m].buffer = "ASK"
                   PROVE  FALSE
        BY DEF Asks
      <4>1. slot[m].conn = cur
        BY SlotFacts DEF Shape
      <4>2. m = s
        BY <1>2, <4>1 DEF Inv, Owned, Owner, OwnerOf
      <4> QED
        BY <2>1, <3>1, <4>2 DEF Heeded
    <3> QED
      BY <2>1, <3>1, <3>2 DEF Wakes, Asked
  <2> QED
    BY <1>1, <2>1 DEF Asked, Final, Wakes
<1> QED
  BY <1>4, <1>5, <1>6 DEF Wakes

LEMMA DispatchWakes ==
  ASSUME Inv, Dispatch, pc' # "dead", NEW k \in Job, Wakes(k)
  PROVE  Wakes(k)'
<1>1. PICK e \in Busy, s \in Slot : Dispatched(e, s) /\ Heeded(s)
  BY DispatchFinds
<1>2. CASE k # cur
  BY <1>1, <1>2, DispatchedOthers, UntouchedWakes
<1>3. CASE k = cur
  <2>1. Wakes(cur)'
    BY <1>1, <1>3, DispatchedWakes
  <2>2. cur' = cur
    BY <1>1 DEF Dispatched
  <2>3. k = cur'
    BY <1>3, <2>2
  <2> QED
    BY <2>1, <2>3 DEF Wakes, Expected, Cut, Asked, Linked, Attached, Closing, Asks, Over, Final
<1> QED
  BY <1>2, <1>3

-----------------------------------------------------------------------------
(***************************************************************************)
(* While it waits the master has busy execs, and each has somebody to wake *)
(* it.                                                                     *)
(***************************************************************************)
LEMMA AwakeInitially == Init => Awake
<1> SUFFICES ASSUME Init, NEW j \in Job PROVE Wakes(j)
  BY DEF Awake
<1>1. /\ \A n \in Slot : exec[n].state = "FREE" /\ slot[n].conn = NoJob
      /\ chan[j] = <<>> /\ backlog = <<>> /\ gone = {} /\ slave[j] = "none"
  BY DEF Init, CommInit, FreeSlot
<1>2. Expected(j)
  BY <1>1 DEF Expected, Runs, RunsIn
<1>3. Cut(j)
  BY <1>1 DEF Cut, Over
<1>4. Asked(j)
  BY <1>1 DEF Asked
<1> QED
  BY <1>2, <1>3, <1>4 DEF Wakes

LEMMA AwakePreserved == Inv /\ Awake /\ [Next]_vars => Awake'
<1> SUFFICES ASSUME Inv, Awake, [Next]_vars, pc' # "dead", NEW k \in Job PROVE Wakes(k)'
  BY DEF Awake
<1>1. pc # "dead" => Wakes(k)
  BY DEF Awake
<1>2. CASE Launch
  BY <1>1, <1>2, LaunchWakes DEF Launch
<1>3. CASE Wait \/ Terminate \/ Select \/ ScanClosed \/ UNCHANGED vars
  <2>1. pc # "dead"
    BY <1>3 DEF Wait, Terminate, Select, ScanClosed, vars, masterVars
  <2> QED
    BY <1>1, <1>3, <2>1, PauseWakes, UntouchedWakes
<1>4. CASE Accept
  BY <1>1, <1>4, AcceptWakes, UntouchedWakes DEF Accept
<1>5. CASE Scan
  BY <1>1, <1>5, ScanWakes DEF Scan
<1>6. CASE Dispatch
  BY <1>1, <1>6, DispatchWakes DEF Dispatch
<1>7. ASSUME NEW j \in Job, pc # "dead", Slave(j) \/ Crash(j) PROVE Wakes(k)'
  BY <1>1, <1>7, SlaveWakes
<1> QED
  BY <1>2, <1>3, <1>4, <1>5, <1>6, <1>7 DEF Next, Master

Waits == pc = "wait" => Busy # {}

LEMMA WaitsPreserved == Execs /\ Accounting /\ Waits /\ [Next]_vars => Waits'
<1> SUFFICES ASSUME Execs, Accounting, Waits, [Next]_vars, pc' = "wait" PROVE Busy' # {}
  BY DEF Waits
<1>1. CASE Wait
  <2>1. exec' = exec /\ (launch >= Jobs \/ Busy = Slot) /\ done < Jobs
    BY <1>1, FarmAssumption DEF Wait, CanLaunch, Execs
  <2>2. launch - done = Cardinality(Busy)
    BY DEF Accounting
  <2>3. Busy # {}
    <3>1. CASE Busy = Slot
      BY <3>1, FarmAssumption
    <3>2. CASE launch >= Jobs
      <4>1. launch - done # 0
        BY <2>1, <3>2, FarmAssumption DEF Execs
      <4> QED
        BY <2>2, <4>1, FS_EmptySet
    <3> QED
      BY <2>1, <3>1, <3>2
  <2> QED
    BY <2>1, <2>3 DEF Busy
<1>2. CASE Launch \/ Terminate \/ Accept \/ Select \/ Scan \/ ScanClosed \/ Dispatch
  BY <1>2 DEF Launch, Terminate, Accept, Select, Scan, ScanClosed, Dispatch, StopIfFatal,
              Die, Begin, Data, End, Abort, Ended
<1>3. ASSUME NEW j \in Job, Slave(j) \/ Crash(j) PROVE Busy' # {}
  <2>1. UNCHANGED <<exec, pc>>
    BY <1>3 DEF Slave, Connect, SendBegin, Talk, ReadReply, PostData, SendEnd, Says, Crash, masterVars
  <2> QED
    BY <2>1 DEF Waits, Busy
<1>4. CASE UNCHANGED vars
  BY <1>4 DEF vars, masterVars, Waits, Busy
<1> QED
  BY <1>1, <1>2, <1>3, <1>4 DEF Next, Master

LEMMA AwakeIsNotStuck ==
  ASSUME Inv, Awake, Waits
  PROVE  NeverStuck
<1> SUFFICES ASSUME pc = "wait", backlog = <<>>, Readable = {}, NEW e \in Busy
             PROVE  \/ GoesOn(exec[e].job)
                    \/ slave[exec[e].job] = "dead" /\ exec[e].state = "WAIT"
  BY DEF Waits, NeverStuck
<1>1. Typed /\ Execs /\ Events /\ Owned
  BY DEF Inv
<1>2. PICK j \in Job : j = exec[e].job
  BY <1>1, FarmAssumption DEF Execs
<1>3. Wakes(j) /\ j # NoJob
  BY <1>2, SlotFacts DEF Awake
<1>4. Runs(j, exec[e].state) /\ exec[e].state \in {"WAIT", "RUN"}
  BY <1>1, <1>2 DEF Runs, RunsIn, Busy, Execs
<1>5. \A n \in Slot : slot[n].event # "NONE" => slot[n].id = NoJob
  BY <1>1 DEF Events
<1>6. j \notin ToSet(backlog)
  BY DEF ToSet
<1>7. CASE Attached(j)
  <2>1. PICK n \in Slot : Owner(n) = j
    BY <1>6, <1>7 DEF Attached
  <2>2. slot[n].conn = j /\ slot[n].state \in {"BEGIN", "RUNNING", "CLOSING"} /\ slot[n].event = "NONE"
    BY <1>3, <1>5, <2>1, SlotFacts DEF Owner, OwnerOf, Shape, SlotRecord
  <2>3. chan[j] = <<>>
    BY <2>2 DEF Readable, Watched
  <2>4. ~Over(j)
    BY <1>3, <2>2, <2>3 DEF Wakes, Cut, Linked
  <2>5. slave[j] \in Live
    BY <1>1, <2>1, <2>4 DEF Owned, Typed, Over, Live
  <2>6. ~Asks(j)
    BY <1>3, <1>5 DEF Asks
  <2>7. slave[j] = "asking" => j \in reply
    BY <1>3, <2>3, <2>6 DEF Wakes, Asked
  <2> QED
    BY <1>2, <2>5, <2>7 DEF GoesOn, Live
<1>8. CASE ~Attached(j)
  <2>1. ~Runs(j, "RUN") /\ slave[j] \in {"started", "dead"}
    BY <1>3, <1>4, <1>8 DEF Wakes, Expected
  <2> QED
    BY <1>2, <1>4, <2>1 DEF GoesOn
<1> QED
  BY <1>7, <1>8

(***************************************************************************)
(* The master of runStatHiTas never waits in select for nobody: whatever   *)
(* the slaves ask and whenever they die, each busy exec has a slave that   *)
(* can go on without it, unless the slave died before its begin event.     *)
(***************************************************************************)
THEOREM NobodyIsStuck == Spec => []NeverStuck
<1>1. Init => Waits
  BY DEF Init, Waits
<1>2. Inv => Execs
  BY DEF Inv
<1> QED
  BY <1>1, <1>2, AwakeInitially, AwakePreserved, WaitsPreserved, AwakeIsNotStuck,
     FarmInvariant, JobsAreAccounted, PTL DEF Spec
=============================================================================
