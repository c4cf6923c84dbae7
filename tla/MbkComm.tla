------------------------------- MODULE MbkComm -------------------------------
(***************************************************************************)
(* The communication layer of src/sources/mbk/mbk_comm.c, as the master    *)
(* process sees it: a table of slots, one per connected slave, and the TCP *)
(* connections that feed it.                                               *)
(*                                                                         *)
(* A message is a header packet and, for all types but END, a body packet. *)
(* recv returns one packet at a time; a packet received in pieces is       *)
(* taken when its last piece arrives.  The body of a DATA message is INFO, *)
(* ASK (the slave waits for an answer) or POST (the result of the run).    *)
(*                                                                         *)
(* A definition named Mutant... is a bug the next definition might have    *)
(* had; no behaviour uses it.                                              *)
(***************************************************************************)
EXTENDS Integers, Sequences, SequencesExt

CONSTANTS Job,       \* the identifiers of the slaves, positive
          Slot       \* the indices of comdata->tabslot

ASSUME CommAssumption == Job \subseteq Nat \ {0} /\ Slot \subseteq Nat

VARIABLES slot,      \* comdata->tabslot
          chan,      \* packets sent by each slave and not received
          backlog,   \* connections not accepted, oldest first
          reply,     \* slaves with an answer they have not read
          gone,      \* slaves whose process has died
          fatal      \* the FATAL error that stopped the master

commVars == <<slot, chan, backlog, reply, gone, fatal>>

NoJob == 0
NoFault == "none"

Header(type) == [kind |-> "header", type |-> type]
Body(what) == [kind |-> "body", type |-> what]
Eof == [kind |-> "eof", type |-> "FIN"]
Reset == [kind |-> "reset", type |-> "RST"]

Packet == {Header(t) : t \in {"BEGIN", "DATA", "TOKEN", "CHECK", "END"}}
            \cup {Body(w) : w \in {"id", "INFO", "ASK", "POST", "key"}} \cup {Eof, Reset}

FreeSlot == [state |-> "FREE", event |-> "NONE", conn |-> NoJob, id |-> NoJob,
             part |-> "header", buffer |-> "none"]

SlotRecord == [state : {"FREE", "BEGIN", "RUNNING", "CLOSING", "CLOSED"},
               event : {"NONE", "BEGIN", "DATA", "END", "ABORT"},
               conn : Job \cup {NoJob},
               id : Job \cup {NoJob},
               part : {"header", "BEGIN", "DATA", "TOKEN", "CHECK"},
               buffer : {"none", "INFO", "ASK", "POST"}]

(***************************************************************************)
(* mbk_activatecommaster.                                                  *)
(***************************************************************************)
CommInit == /\ slot = [n \in Slot |-> FreeSlot]
            /\ chan = [j \in Job |-> <<>>]
            /\ backlog = <<>>
            /\ reply = {}
            /\ gone = {}
            /\ fatal = NoFault

Send(job, packets) == chan' = [chan EXCEPT ![job] = @ \o packets]

Lowest(S) == CHOOSE n \in S : \A m \in S : n <= m

-----------------------------------------------------------------------------
(***************************************************************************)
(* handleincomingconnection: the first free slot takes the connection.     *)
(***************************************************************************)
Free == {n \in Slot : slot[n].state = "FREE"}

HandleIncomingConnection ==
    /\ IF Free = {}
       THEN fatal' = "057" /\ UNCHANGED <<slot, backlog>>
       ELSE /\ slot' = [slot EXCEPT ![Lowest(Free)] =
                           [@ EXCEPT !.state = "BEGIN", !.conn = Head(backlog),
                                     !.id = NoJob, !.part = "header"]]
            /\ backlog' = Tail(backlog)
            /\ UNCHANGED fatal
    /\ UNCHANGED <<chan, reply, gone>>

(***************************************************************************)
(* The slots select waits for, and those with something to receive.        *)
(***************************************************************************)
Watched == {n \in Slot : /\ slot[n].state \in {"BEGIN", "RUNNING", "CLOSING"}
                         /\ slot[n].event = "NONE"}

Readable == {n \in Watched : chan[slot[n].conn] # <<>>}

(***************************************************************************)
(* A send to a slave that has died may still succeed, or kill the master:  *)
(* SIGPIPE is not caught, and mbk_comsend is FATAL on any other error.     *)
(***************************************************************************)
Answer(job) == \/ /\ reply' = reply \cup ({job} \ gone)
                  /\ UNCHANGED fatal
               \/ /\ job \in gone
                  /\ fatal' = "send"
                  /\ UNCHANGED reply

-----------------------------------------------------------------------------
(***************************************************************************)
(* handleincomingdataslot, by what recv returns.  Each alternative says    *)
(* what the slot becomes; the packet is consumed by HandleIncomingData.    *)
(***************************************************************************)
MutantAlwaysEnd(n) ==
    slot' = [slot EXCEPT ![n] = [@ EXCEPT !.state = "CLOSED", !.conn = NoJob, !.event = "END"]]

Disconnect(n) ==
    slot' = [slot EXCEPT ![n] =
                [@ EXCEPT !.state = "CLOSED", !.conn = NoJob,
                          !.event = IF slot[n].state = "CLOSING" THEN "END" ELSE "ABORT"]]

HandleHeader(n, type) ==
    slot' = IF type = "END" THEN [slot EXCEPT ![n].state = "CLOSING"]
            ELSE [slot EXCEPT ![n].part = type]

HandleBody(n, what) ==
    LET s == slot[n]
    IN  CASE s.state = "BEGIN" ->
               /\ slot' = [slot EXCEPT ![n] = [s EXCEPT !.state = "RUNNING", !.id = s.conn,
                                                        !.event = "BEGIN", !.part = "header"]]
               /\ UNCHANGED <<reply, fatal>>
          [] s.state = "RUNNING" /\ s.part = "DATA" ->
               /\ slot' = [slot EXCEPT ![n] = [s EXCEPT !.event = "DATA", !.buffer = what,
                                                        !.part = "header"]]
               /\ UNCHANGED <<reply, fatal>>
          [] s.state = "RUNNING" /\ s.part \in {"TOKEN", "CHECK"} ->
               /\ slot' = [slot EXCEPT ![n].part = "header"]
               /\ Answer(s.conn)
          [] OTHER ->
               /\ fatal' = IF s.state = "RUNNING" THEN "054/11" ELSE "054/12"
               /\ UNCHANGED <<slot, reply>>

HandleIncomingData(n) ==
    LET job == slot[n].conn
        packet == Head(chan[job])
    IN  /\ CASE packet.kind = "reset" ->
                  fatal' = "recv" /\ UNCHANGED <<slot, reply>>
             [] packet.kind = "eof" -> Disconnect(n) /\ UNCHANGED <<reply, fatal>>
             [] packet.kind = "header" ->
                  HandleHeader(n, packet.type) /\ UNCHANGED <<reply, fatal>>
             [] OTHER -> HandleBody(n, packet.type)
        /\ chan' = [chan EXCEPT ![job] = Tail(@)]
        /\ UNCHANGED <<backlog, gone>>

-----------------------------------------------------------------------------
(***************************************************************************)
(* mbk_commgetdata: the slot it reads, and what it leaves there.           *)
(***************************************************************************)
SlotsOf(id) == {n \in Slot : slot[n].state # "FREE" /\ slot[n].id = id}

MutantKeepsClosed(n) ==
    LET closed == slot[n].state = "CLOSED"
    IN  [slot EXCEPT ![n] = [@ EXCEPT !.event = "NONE", !.buffer = "none",
                                      !.id = IF closed THEN NoJob ELSE @]]

MutantKeepsId(n) ==
    LET closed == slot[n].state = "CLOSED"
    IN  [slot EXCEPT ![n] = [@ EXCEPT !.event = "NONE", !.buffer = "none",
                                      !.state = IF closed THEN "FREE" ELSE @]]

Consumed(n) ==
    LET s == slot[n]
        closed == s.state = "CLOSED"
    IN  [slot EXCEPT ![n] = [s EXCEPT !.event = "NONE", !.buffer = "none",
                                      !.state = IF closed THEN "FREE" ELSE s.state,
                                      !.id = IF closed THEN NoJob ELSE s.id]]
=============================================================================
