------------------------------- MODULE ChildPool -------------------------------
(***************************************************************************)
(* The children of the program (src/sources/mbk/mbk_sys.c, mbk_util.c).    *)
(* Those nobody waits for, the jobs of the farm and the filters of         *)
(* mbkpopen, are registered with mbksetautoackchld, and the handler of     *)
(* SIGCHLD, mbkackchld, acknowledges them when they end.  The others,      *)
(* sdc2stb, a simulator or tas, are waited for with mbkwaitpid.            *)
(*                                                                         *)
(* The kernel keeps a process that ended, a zombie, until it is            *)
(* acknowledged, and may then give its pid to another.  Signals of one     *)
(* kind do not queue: one is pending or none.                              *)
(*                                                                         *)
(* A definition named Mutant... is a bug the next definition might have    *)
(* had; no behaviour uses it.                                              *)
(***************************************************************************)
EXTENDS Integers, FiniteSets

CONSTANTS Pid,               \* the process identifiers
          AUTOACKCHLD_MAX    \* the cells of the list, 1024 in the code

ASSUME ChildAssumption == /\ IsFiniteSet(Pid) /\ Pid \subseteq Nat \ {0}
                         /\ AUTOACKCHLD_MAX \in Nat

VARIABLES proc,      \* "none", "alive" or "zombie" for each pid
          pending,   \* SIGCHLD is pending
          blocked,   \* the program blocks SIGCHLD
          pc,        \* where the program is
          pid,       \* the child the program has just created
          HEAD,      \* HEAD_AUTOACKCHLD: the pids registered
          FREE,      \* the length of HEAD_AUTOACKCHLD_FREE
          seen,      \* what the program has read of the list it is changing
          handling,  \* mbkackchld runs
          left       \* the cells it has still to look at

listVars == <<HEAD, FREE, seen>>
handlerVars == <<handling, left>>
vars == <<proc, pending, blocked, pc, pid, listVars, handlerVars>>

NoPid == 0
NothingSeen == [free |-> 0, head |-> {}]

(***************************************************************************)
(* mbkinitautoackchld; sigaction in mbkenv.                                *)
(***************************************************************************)
Init == /\ proc = [p \in Pid |-> "none"]
        /\ pending = FALSE
        /\ blocked = FALSE
        /\ pc = "idle"
        /\ pid = NoPid
        /\ HEAD = {} /\ FREE = AUTOACKCHLD_MAX
        /\ seen = NothingSeen
        /\ handling = FALSE /\ left = {}

(***************************************************************************)
(* The program runs when the handler does not, and goes from one line to   *)
(* the next.                                                               *)
(***************************************************************************)
Goes(from, to) == ~handling /\ pc = from /\ pc' = to

Acknowledge(p) == proc' = [proc EXCEPT ![p] = "none"]

-----------------------------------------------------------------------------
(***************************************************************************)
(* runjob and mbkpopen create a child to register, sim_exec, stb_parse and *)
(* mcc_runtas one to wait for.                                             *)
(***************************************************************************)
Create == /\ \E next \in {"block", "wait"} : Goes("idle", next)
          /\ \E p \in Pid : /\ proc[p] = "none"
                            /\ proc' = [proc EXCEPT ![p] = "alive"]
                            /\ pid' = p
          /\ UNCHANGED <<pending, blocked, listVars, handlerVars>>

(***************************************************************************)
(* mbkwaitpid: asks without waiting, sleeps and asks again.                *)
(***************************************************************************)
Wait == /\ Goes("wait", "idle")
        /\ proc[pid] # "alive"
        /\ Acknowledge(pid)
        /\ pid' = NoPid
        /\ UNCHANGED <<pending, blocked, listVars, handlerVars>>

(***************************************************************************)
(* mbksetautoackchld, with SIGCHLD blocked.  A child that has already      *)
(* ended is acknowledged at once; another takes the first free cell, which *)
(* is put at the head of the list.                                         *)
(***************************************************************************)
MutantBlock == /\ Goes("block", "check")
               /\ UNCHANGED <<proc, pending, blocked, pid, listVars, handlerVars>>

Block == /\ Goes("block", "check")
         /\ blocked' = TRUE
         /\ UNCHANGED <<proc, pending, pid, listVars, handlerVars>>

Ended == /\ Goes("check", "unblock")
         /\ proc[pid] # "alive"
         /\ Acknowledge(pid)
         /\ UNCHANGED <<pending, blocked, pid, listVars, handlerVars>>

MutantRegister == /\ Goes("check", "get")
                  /\ UNCHANGED <<proc, pending, blocked, pid, listVars, handlerVars>>

Register == /\ Goes("check", "get")
            /\ proc[pid] = "alive"
            /\ UNCHANGED <<proc, pending, blocked, pid, listVars, handlerVars>>

(***************************************************************************)
(* mbkgetautoackchld exits the program when no cell is left.               *)
(***************************************************************************)
Exhausted == /\ Goes("get", "exit")
             /\ FREE = 0
             /\ UNCHANGED <<proc, pending, blocked, pid, listVars, handlerVars>>

GetCell == /\ Goes("get", "take")
           /\ FREE > 0
           /\ seen' = [seen EXCEPT !.free = FREE]
           /\ UNCHANGED <<proc, pending, blocked, pid, HEAD, FREE, handlerVars>>

TakeCell == /\ Goes("take", "link")
            /\ FREE' = seen.free - 1
            /\ UNCHANGED <<proc, pending, blocked, pid, HEAD, seen, handlerVars>>

LinkCell == /\ Goes("link", "push")
            /\ seen' = [seen EXCEPT !.head = HEAD]
            /\ UNCHANGED <<proc, pending, blocked, pid, HEAD, FREE, handlerVars>>

PushCell == /\ Goes("push", "unblock")
            /\ HEAD' = seen.head \cup {pid}
            /\ seen' = NothingSeen
            /\ UNCHANGED <<proc, pending, blocked, pid, FREE, handlerVars>>

Unblock == /\ Goes("unblock", "idle")
           /\ blocked' = FALSE
           /\ pid' = NoPid
           /\ UNCHANGED <<proc, pending, listVars, handlerVars>>

-----------------------------------------------------------------------------
(***************************************************************************)
(* mbkackchld asks, for each child registered, whether it has ended.  It   *)
(* is not interrupted by the signal it handles.                            *)
(***************************************************************************)
MutantHandle == /\ pending /\ ~blocked /\ ~handling /\ pc # "exit"
                /\ pending' = FALSE
                /\ handling' = TRUE
                /\ left' = Pid
                /\ UNCHANGED <<proc, blocked, pc, pid, listVars>>

Handle == /\ pending /\ ~blocked /\ ~handling /\ pc # "exit"
          /\ pending' = FALSE
          /\ handling' = TRUE
          /\ left' = HEAD
          /\ UNCHANGED <<proc, blocked, pc, pid, listVars>>

MutantAcknowledgeOne(p) ==
    /\ handling /\ p \in left
    /\ IF proc[p] = "zombie"
       THEN /\ Acknowledge(p)
            /\ HEAD' = HEAD \ {p}
            /\ FREE' = FREE + 1
            /\ left' = {}
       ELSE /\ left' = left \ {p}
            /\ UNCHANGED <<proc, HEAD, FREE>>
    /\ UNCHANGED <<pending, blocked, pc, pid, seen, handling>>

AcknowledgeCell(p) ==
    /\ handling /\ p \in left
    /\ left' = left \ {p}
    /\ IF proc[p] = "zombie"
       THEN /\ Acknowledge(p)
            /\ HEAD' = HEAD \ {p}
            /\ FREE' = FREE + 1
       ELSE UNCHANGED <<proc, HEAD, FREE>>
    /\ UNCHANGED <<pending, blocked, pc, pid, seen, handling>>

Return == /\ handling /\ left = {}
          /\ handling' = FALSE
          /\ UNCHANGED <<proc, pending, blocked, pc, pid, listVars, left>>

(***************************************************************************)
(* A child ends, at any moment.                                            *)
(***************************************************************************)
End(p) == /\ proc[p] = "alive"
          /\ proc' = [proc EXCEPT ![p] = "zombie"]
          /\ pending' = TRUE
          /\ UNCHANGED <<blocked, pc, pid, listVars, handlerVars>>

-----------------------------------------------------------------------------
Registration == \/ Block \/ Ended \/ Register \/ Exhausted
                \/ GetCell \/ TakeCell \/ LinkCell \/ PushCell \/ Unblock

Handler == Handle \/ Return \/ \E p \in Pid : AcknowledgeCell(p)

Next == Create \/ Wait \/ Registration \/ Handler \/ \E p \in Pid : End(p)

Spec == Init /\ [][Next]_vars

(***************************************************************************)
(* The program goes on once it has created a child, and its handler once   *)
(* it is called; a signal that is pending when sigprocmask unblocks it is  *)
(* delivered before sigprocmask returns.  A child may run for ever.        *)
(***************************************************************************)
FairSpec == Spec /\ WF_vars(Wait \/ Registration) /\ WF_vars(Handler) /\ SF_vars(Handle)

-----------------------------------------------------------------------------
TypeOK == /\ proc \in [Pid -> {"none", "alive", "zombie"}]
          /\ pending \in BOOLEAN /\ blocked \in BOOLEAN
          /\ pc \in {"idle", "wait", "block", "check", "get", "take", "link", "push",
                     "unblock", "exit"}
          /\ pid \in Pid \cup {NoPid}
          /\ HEAD \subseteq Pid
          /\ FREE \in 0..AUTOACKCHLD_MAX
          /\ seen \in [free : 0..AUTOACKCHLD_MAX, head : SUBSET Pid]
          /\ handling \in BOOLEAN
          /\ left \subseteq Pid

(***************************************************************************)
(* No cell is lost or in both lists, whatever the handler does between two *)
(* lines of the program: each is free, registered, or being linked.        *)
(***************************************************************************)
CellsAccounted ==
    FREE + Cardinality(HEAD) + (IF pc \in {"link", "push"} THEN 1 ELSE 0) = AUTOACKCHLD_MAX

(***************************************************************************)
(* A registered pid is that of a child not acknowledged yet: no cell is    *)
(* left for a pid the kernel may give to another child, whose end the      *)
(* handler would then take.                                                *)
(***************************************************************************)
NoStaleCell == \A p \in HEAD : proc[p] # "none"

(***************************************************************************)
(* The end of a child that mbkwaitpid waits for is left to it: otherwise   *)
(* waitpid would fail and the status read would be one nobody wrote.       *)
(***************************************************************************)
StatusKept == pc = "wait" => proc[pid] # "none" /\ pid \notin HEAD

(***************************************************************************)
(* A child that has ended is not forgotten: the program is about to ask    *)
(* for it, or it is registered, or about to be, and the signal that makes  *)
(* the handler ask is pending or the handler has it still to see.          *)
(***************************************************************************)
NotForgotten ==
    \A p \in Pid : proc[p] = "zombie" =>
        \/ p = pid /\ pc \in {"wait", "block", "check"}
        \/ /\ p \in HEAD \/ (p = pid /\ pc \in {"get", "take", "link", "push", "exit"})
           /\ pending \/ p \in left

(***************************************************************************)
(* Every child that ends is acknowledged, unless the cells run out and the *)
(* program exits.                                                          *)
(***************************************************************************)
AllAcknowledged == \A p \in Pid : proc[p] = "zombie" ~> proc[p] = "none" \/ pc = "exit"
=============================================================================
