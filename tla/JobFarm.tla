------------------------------- MODULE JobFarm -------------------------------
(***************************************************************************)
(* The Monte-Carlo job farm: the master loop of runStatHiTas_sub           *)
(* (src/sources/api/mbk/mbk_API.c) over the slots of MbkComm, and the      *)
(* slave processes it launches, each of which may die at any moment.       *)
(*                                                                         *)
(* Job number j is the j-th launched; at most Cardinality(Slot) are        *)
(* authorised at a time (the argument "jobs:parajobs").                    *)
(*                                                                         *)
(* A definition named Mutant... is a bug the next definition might have    *)
(* had; no behaviour uses it.                                              *)
(***************************************************************************)
EXTENDS MbkComm, FiniteSets

CONSTANTS Jobs,          \* how many runs are asked for
          MaxTalk,       \* bound of the model: messages of a run before its result
          Talks,         \* which messages: "INFO", "ASK", "TOKEN", "CHECK"
          Faults,        \* when a slave may die: "early", "running", "waiting"
          BreakOnError,  \* __TAS_STAT_HITAS_BREAK_ON_ERROR
          StrayEvent     \* mbk_commputdata's unset event may read as MBK_COM_NONE

ASSUME FarmAssumption == /\ Jobs \in Nat /\ Job = 1..Jobs
                         /\ IsFiniteSet(Slot) /\ Slot # {}
                         /\ Faults \subseteq {"early", "running", "waiting"}
                         /\ BreakOnError \in BOOLEAN /\ StrayEvent \in BOOLEAN

VARIABLES exec,          \* the execslot of each slot: its state and job
          launch, done,  \* jobs started, jobs ended one way or the other
          pc,            \* where the master loop is
          ready,         \* what select reported and the scan has not handled
          cur,           \* the id mbk_comwaiteventfromnet returned
          file,          \* the results written to the data file
          outcome,       \* the end logged for each job
          slave,         \* where each slave process is
          talk           \* messages sent by each slave before its result

masterVars == <<exec, launch, done, pc, ready, cur, file, outcome>>
slaveVars == <<slave, talk>>
vars == <<commVars, masterVars, slaveVars>>

Init == /\ CommInit
        /\ exec = [n \in Slot |-> [state |-> "FREE", job |-> NoJob]]
        /\ launch = 0 /\ done = 0
        /\ pc = "fill"
        /\ ready = {}
        /\ cur = NoJob
        /\ file = <<>>
        /\ outcome = [j \in Job |-> "none"]
        /\ slave = [j \in Job |-> "none"]
        /\ talk = [j \in Job |-> 0]

Busy == {n \in Slot : exec[n].state # "FREE"}

-----------------------------------------------------------------------------
(***************************************************************************)
(* The master fills its free execs, then waits for one event.              *)
(***************************************************************************)
CanLaunch == launch < Jobs /\ Busy # Slot

Launch == /\ pc = "fill" /\ CanLaunch
          /\ launch' = launch + 1
          /\ exec' = [exec EXCEPT ![Lowest(Slot \ Busy)] =
                         [state |-> "WAIT", job |-> launch + 1]]
          /\ slave' = [slave EXCEPT ![launch + 1] = "started"]
          /\ UNCHANGED <<commVars, done, pc, ready, cur, file, outcome, talk>>

Wait == /\ pc = "fill" /\ ~CanLaunch /\ done < Jobs
        /\ pc' = "wait"
        /\ UNCHANGED <<commVars, exec, launch, done, ready, cur, file, outcome, slaveVars>>

Terminate == /\ pc = "fill" /\ done = Jobs
             /\ pc' = "end"
             /\ UNCHANGED <<commVars, exec, launch, done, ready, cur, file, outcome, slaveVars>>

(***************************************************************************)
(* mbk_comwaiteventfromnet.  A pending connection is taken first and alone *)
(* (the call then reports no event); otherwise the readable slots are      *)
(* handled in order up to the first event.                                 *)
(***************************************************************************)
StopIfFatal(otherwise) == pc' = IF fatal' # NoFault THEN "dead" ELSE otherwise

Accept == /\ pc = "wait" /\ backlog # <<>>
          /\ HandleIncomingConnection
          /\ StopIfFatal("fill")
          /\ UNCHANGED <<exec, launch, done, ready, cur, file, outcome, slaveVars>>

Select == /\ pc = "wait" /\ backlog = <<>> /\ Readable # {}
          /\ ready' = Readable
          /\ pc' = "scan"
          /\ UNCHANGED <<commVars, exec, launch, done, cur, file, outcome, slaveVars>>

Scan == /\ pc = "scan"
        /\ LET n == Lowest(ready)
               event == slot'[n].event # "NONE"
           IN  /\ HandleIncomingData(n)
               /\ ready' = IF event THEN {} ELSE ready \ {n}
               /\ cur' = IF event THEN slot'[n].id ELSE NoJob
               /\ StopIfFatal(IF event THEN IF cur' # NoJob THEN "dispatch" ELSE "fill"
                              ELSE IF ready' # {} THEN "scan" ELSE "fill")
        /\ UNCHANGED <<exec, launch, done, file, outcome, slaveVars>>

(***************************************************************************)
(* The scan also tests the descriptor of a CLOSED slot, which is -1: the   *)
(* test is undefined and may send the master to recv on a bad descriptor.  *)
(***************************************************************************)
ScanClosed == /\ pc = "scan"
              /\ \E n \in Slot : slot[n].state = "CLOSED"
              /\ fatal' = "recv"
              /\ pc' = "dead"
              /\ UNCHANGED <<slot, chan, backlog, reply, gone>>
              /\ UNCHANGED <<exec, launch, done, ready, cur, file, outcome, slaveVars>>

(***************************************************************************)
(* The master loop handles the event of job cur.                           *)
(***************************************************************************)
ExecsOf(job) == {n \in Busy : exec[n].job = job}

Die(error) == /\ fatal' = error
              /\ pc' = "dead"
              /\ UNCHANGED <<reply, exec, done, file, outcome>>

Begin(n) ==
    IF exec[n].state # "WAIT" THEN Die("052")
    ELSE /\ exec' = [exec EXCEPT ![n].state = "RUN"]
         /\ pc' = "fill"
         /\ UNCHANGED <<reply, fatal, done, file, outcome>>

(***************************************************************************)
(* handle_slave_data: INFO is logged, ASK is answered, POST is written.    *)
(* mbk_commputdata, which answers, tests a variable event it never sets.   *)
(***************************************************************************)
MutantUnanswered(job) == UNCHANGED <<reply, fatal>>

AnswerAsk(job) == \/ Answer(job)
                  \/ /\ StrayEvent
                     /\ fatal' = "stray"
                     /\ UNCHANGED reply

Data(n, what) ==
    IF exec[n].state # "RUN" THEN Die("053")
    ELSE /\ IF what = "ASK" THEN AnswerAsk(exec[n].job) ELSE UNCHANGED <<reply, fatal>>
         /\ file' = IF what = "POST" THEN Append(file, exec[n].job) ELSE file
         /\ StopIfFatal("fill")
         /\ UNCHANGED <<exec, done, outcome>>

MutantAbortUncounted(n, how) ==
    /\ exec' = [exec EXCEPT ![n] = [state |-> "FREE", job |-> NoJob]]
    /\ done' = IF how = "completed" THEN done + 1 ELSE done
    /\ outcome' = [outcome EXCEPT ![exec[n].job] = how]
    /\ pc' = "fill"
    /\ UNCHANGED <<reply, fatal, file>>

MutantStillBusy(n, how) == /\ done' = done + 1
                           /\ outcome' = [outcome EXCEPT ![exec[n].job] = how]
                           /\ pc' = "fill"
                           /\ UNCHANGED <<exec, reply, fatal, file>>

Ended(n, how) == /\ exec' = [exec EXCEPT ![n] = [state |-> "FREE", job |-> NoJob]]
                 /\ done' = done + 1
                 /\ outcome' = [outcome EXCEPT ![exec[n].job] = how]
                 /\ pc' = "fill"
                 /\ UNCHANGED <<reply, fatal, file>>

End(n) == IF exec[n].state # "RUN" THEN Die("054") ELSE Ended(n, "completed")

Abort(n) == IF BreakOnError THEN Die("055") ELSE Ended(n, "aborted")

Dispatch ==
    /\ pc = "dispatch"
    /\ IF ExecsOf(cur) = {} THEN Die("051") /\ UNCHANGED slot
       ELSE IF SlotsOf(cur) = {} THEN Die("054/14") /\ UNCHANGED slot
       ELSE LET n == Lowest(ExecsOf(cur))
                s == Lowest(SlotsOf(cur))
                event == slot[s].event
            IN  /\ slot' = Consumed(s)
                /\ \/ event = "NONE" /\ Die("054/15")
                   \/ event = "BEGIN" /\ Begin(n)
                   \/ event = "DATA" /\ Data(n, slot[s].buffer)
                   \/ event = "END" /\ End(n)
                   \/ event = "ABORT" /\ Abort(n)
    /\ UNCHANGED <<chan, backlog, gone, launch, ready, cur, slaveVars>>

-----------------------------------------------------------------------------
(***************************************************************************)
(* A slave: mbk_activatecomslave connects and sends BEGIN, the script asks *)
(* and informs, avt_McPostData sends the result, END, and closes.          *)
(***************************************************************************)
Connect(j) == /\ slave[j] = "started"
              /\ slave' = [slave EXCEPT ![j] = "connected"]
              /\ backlog' = Append(backlog, j)
              /\ UNCHANGED <<slot, chan, reply, gone, fatal, masterVars, talk>>

Says(j, from, to, packets) ==
    /\ slave[j] = from
    /\ slave' = [slave EXCEPT ![j] = to]
    /\ Send(j, packets)
    /\ UNCHANGED <<slot, backlog, reply, gone, fatal, masterVars>>

SendBegin(j) == /\ Says(j, "connected", "running", <<Header("BEGIN"), Body("id")>>)
                /\ UNCHANGED talk

Talk(j) == /\ talk[j] < MaxTalk
           /\ \/ /\ "INFO" \in Talks
                 /\ Says(j, "running", "running", <<Header("DATA"), Body("INFO")>>)
              \/ /\ "ASK" \in Talks
                 /\ Says(j, "running", "asking", <<Header("DATA"), Body("ASK")>>)
              \/ \E t \in Talks \cap {"TOKEN", "CHECK"} :
                    Says(j, "running", "asking", <<Header(t), Body("key")>>)
           /\ talk' = [talk EXCEPT ![j] = @ + 1]

ReadReply(j) == /\ slave[j] = "asking" /\ j \in reply
                /\ slave' = [slave EXCEPT ![j] = "running"]
                /\ reply' = reply \ {j}
                /\ UNCHANGED <<slot, chan, backlog, gone, fatal, masterVars, talk>>

PostData(j) == /\ Says(j, "running", "posted", <<Header("DATA"), Body("POST")>>)
               /\ UNCHANGED talk

SendEnd(j) == /\ Says(j, "posted", "ended", <<Header("END"), Eof>>)
              /\ UNCHANGED talk

(***************************************************************************)
(* The process dies, possibly between the two packets of a message.  The   *)
(* connection is closed, or reset when an answer had not been read.        *)
(***************************************************************************)
DeathKind(j) == CASE slave[j] \in {"started", "connected"} -> "early"
                  [] slave[j] \in {"running", "posted"} -> "running"
                  [] slave[j] = "asking" -> "waiting"
                  [] OTHER -> "none"

HalfSent(j) == {<<>>} \cup (CASE slave[j] = "connected" -> {<<Header("BEGIN")>>}
                              [] slave[j] = "running" -> {<<Header("DATA")>>}
                              [] OTHER -> {})

Crash(j) == /\ DeathKind(j) \in Faults
            /\ slave' = [slave EXCEPT ![j] = "dead"]
            /\ gone' = gone \cup {j}
            /\ reply' = reply \ {j}
            /\ IF slave[j] = "started" THEN UNCHANGED chan
               ELSE \E half \in HalfSent(j) :
                       Send(j, half \o <<IF j \in reply THEN Reset ELSE Eof>>)
            /\ UNCHANGED <<slot, backlog, fatal, masterVars, talk>>

-----------------------------------------------------------------------------
Master == \/ Launch \/ Wait \/ Terminate
          \/ Accept \/ Select \/ Scan \/ ScanClosed \/ Dispatch

Slave(j) == \/ Connect(j) \/ SendBegin(j) \/ Talk(j) \/ ReadReply(j)
            \/ PostData(j) \/ SendEnd(j)

(***************************************************************************)
(* What a dead master's slaves do is not modelled: they meet an end of     *)
(* file, FATAL for them too.                                               *)
(***************************************************************************)
Next == Master \/ \E j \in Job : pc # "dead" /\ (Slave(j) \/ Crash(j))

Spec == Init /\ [][Next]_vars

(***************************************************************************)
(* The master never stops on its own in its loop, and the operating system *)
(* runs every slave.  A crash is never forced.                             *)
(***************************************************************************)
FairSpec == Spec /\ WF_vars(Master) /\ \A j \in Job : WF_vars(pc # "dead" /\ Slave(j))
=============================================================================
