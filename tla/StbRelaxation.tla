----------------------------- MODULE StbRelaxation -----------------------------
(***************************************************************************)
(* The relaxation of the stability analysis                                *)
(* (src/sources/tas/stb/stb_relaxation.c): switching windows are           *)
(* propagated from node to node, pass after pass, until no latch changes.  *)
(*                                                                         *)
(* A node is an edge of a signal.  Its windows are kept by phase: the      *)
(* clock edge the data left from, in whose period its dates are counted.   *)
(*                                                                         *)
(* A definition named Mutant... is a bug the next definition might have    *)
(* had; no behaviour uses it.                                              *)
(***************************************************************************)
EXTENDS StbPair, FiniteSets

CONSTANTS Nodes,         \* the number of nodes
          Phases,        \* the number of phases
          Circuits,      \* the circuits analysed, each with its options
          MaxPass        \* bound of the model: passes followed

Node == 1..Nodes
Phase == 1..Phases

(***************************************************************************)
(* A circuit: for each node the sequence of timing arcs that reach it,     *)
(* [from, min, max], its clock record or NoClock, the windows given for it *)
(* (SPECIN, the input connectors); the date of each phase; the options of  *)
(* the analysis.                                                           *)
(***************************************************************************)
NoClock == [type |-> "NONE"]

VARIABLES circuit,
          NODE,          \* the nodes in the order of stb_levelise
          STBTAB,        \* the windows of each node and phase
          mark,          \* the nodes marked TTV_NODE_MARK_1
          CHANGEFLAG,    \* latch windows changed in this pass
          i,             \* the pass
          todo,          \* the nodes of the pass still to visit
          pc

vars == <<circuit, NODE, STBTAB, mark, CHANGEFLAG, i, todo, pc>>

Clocked(n) == circuit.clock[n].type # "NONE"
From(n) == {circuit.inputs[n][k].from : k \in DOMAIN circuit.inputs[n]}

-----------------------------------------------------------------------------
(***************************************************************************)
(* ttv_levelise: depth first from the connectors, the latches, then the    *)
(* other nodes; a node comes after its inputs, except the one that closes  *)
(* a loop.                                                                 *)
(***************************************************************************)
DepthFirst(c, roots) ==
    LET visit[x \in Node \X [marked : SUBSET Node, chain : Seq(Node)]] ==
            LET n == x[1]
                at == x[2]
                enter == [at EXCEPT !.marked = @ \cup {n}]
                arc(s, a) == visit[<<a.from, s>>]
            IN  IF n \in at.marked THEN at
                ELSE LET below == FoldLeft(arc, enter, c.inputs[n])
                     IN  [below EXCEPT !.chain = Append(@, n)]
        root(s, n) == visit[<<n, s>>]
    IN  FoldLeft(root, [marked |-> {}, chain |-> <<>>], roots).chain

Levelise(c) ==
    LET latch(n) == c.clock[n].type # "NONE"
        internal(n) == ~latch(n) /\ n \notin c.connectors
    IN  DepthFirst(c, SelectSeq([n \in Node |-> n], LAMBDA n : n \in c.connectors)
                      \o SelectSeq([n \in Node |-> n], latch)
                      \o SelectSeq([n \in Node |-> n], internal))

(***************************************************************************)
(* What an analysis is given: delays and dates with their earliest before  *)
(* their latest, and, for nodes that are not clocked, windows in order.    *)
(***************************************************************************)
MinMax == {x \in [min : Int, max : Int] : x.min <= x.max}

CommandOK(ck) ==
    \/ ck = NoClock
    \/ /\ ck.type \in {"LATCH", "FLIPFLOP"} /\ ck.index \in Phase /\ ck.period \in Int
       /\ ck.opens \in MinMax /\ ck.closes \in MinMax /\ ck.access \in MinMax

CircuitOK(c) ==
    /\ c.mono \in BOOLEAN /\ c.worst \in BOOLEAN
    /\ \A p \in Phase : c.dates[p] \in Int
    /\ \A n \in Node :
         /\ c.inputs[n] \in Seq([from : Node, min : Int, max : Int])
         /\ \A k \in DOMAIN c.inputs[n] : c.inputs[n][k].min <= c.inputs[n][k].max
         /\ CommandOK(c.clock[n])
         /\ \A p \in Phase : /\ c.specin[n][p] \in Seq(Window) /\ Ordered(c.specin[n][p])
                             /\ c.clock[n] = NoClock \/ c.specin[n][p] = <<>>

(***************************************************************************)
(* Each node is once in the order of its circuit.                          *)
(***************************************************************************)
ASSUME RelaxationAssumption ==
    /\ Nodes \in Nat /\ Phases \in Nat /\ MaxPass \in Nat
    /\ \A c \in Circuits :
         LET order == Levelise(c)
         IN  /\ CircuitOK(c)
             /\ order \in Seq(Node)
             /\ \A n \in Node : \E k \in DOMAIN order : order[k] = n
             /\ \A k, l \in DOMAIN order : order[k] = order[l] => k = l

-----------------------------------------------------------------------------
(***************************************************************************)
(* stb_transferstbline.  Data that left on phase p is captured by the next *)
(* edge of the clock: in the period of p, or in the following one when p   *)
(* is not before it.  A latch on the phase its data left from is left to   *)
(* stbMonoPhase.                                                           *)
(***************************************************************************)
SamePhase(c, ck, p) == ck.type = "LATCH" /\ c.dates[p] = c.dates[ck.index]

Refused(c, ck, p) == SamePhase(c, ck, p) /\ c.monophase = "errors"

Periode(c, ck, p) ==
    IF \/ c.dates[p] < c.dates[ck.index]
       \/ SamePhase(c, ck, p) /\ c.monophase = "transparent"
    THEN 0 ELSE ck.period

Takes(c, n, p, j) ==
    IF c.clock[n].type = "NONE" THEN p = j
    ELSE c.clock[n].index = j /\ ~Refused(c, c.clock[n], p)

Shift(c, n, p) == IF c.clock[n].type = "NONE" THEN 0 ELSE Periode(c, c.clock[n], p)

(***************************************************************************)
(* The windows that arc a brings to phase j of node n of circuit c, whose  *)
(* windows are tab: one list for each phase they left from.                *)
(***************************************************************************)
Brought(c, tab, n, a, j) ==
    [p \in Phase |-> IF Takes(c, n, p, j)
                     THEN AddDelay(tab[a.from][p], a.max, a.min, Shift(c, n, p))
                     ELSE <<>>]

MergeAll(lists, m) == FoldLeft(LAMBDA r, list : Merge(list, r), m, lists)

Arrivals(c, tab, n, j) ==
    LET data == FoldLeft(LAMBDA r, lists : MergeAll(lists, r), [ok |-> TRUE, list |-> <<>>],
                         [k \in DOMAIN c.inputs[n] |-> Brought(c, tab, n, c.inputs[n][k], j)])
    IN  Merge(data.list, [data EXCEPT !.list = c.specin[n][j]])

(***************************************************************************)
(* What stb_transferstbnode computes for phase j of a node.                *)
(***************************************************************************)
Transferred(c, tab, n, j) ==
    LET m == Arrivals(c, tab, n, j)
        masked == IF c.clock[n].type # "NONE" /\ m.ok THEN ClockMask(m.list, c.clock[n]) ELSE m.list
    IN  [m EXCEPT !.list = IF c.mono /\ masked # <<>> THEN <<Hull(masked)>> ELSE masked]

Result(n, j) == Transferred(circuit, STBTAB, n, j)

-----------------------------------------------------------------------------
(***************************************************************************)
(* stb_initstbnode: the windows given, and those the latches start with.   *)
(***************************************************************************)
InitialTab(c) ==
    [n \in Node |-> [p \in Phase |->
        IF c.clock[n].type # "NONE" /\ c.clock[n].index = p
        THEN InitialWindow(c.clock[n], c.worst)
        ELSE c.specin[n][p]]]

Init == /\ circuit \in Circuits
        /\ NODE = Levelise(circuit)
        /\ STBTAB = InitialTab(circuit)
        /\ mark = {}
        /\ CHANGEFLAG = 0
        /\ i = 0
        /\ todo = NODE
        /\ pc = "pass"

(***************************************************************************)
(* stb_event_at_input: once the first pass is over, a node none of whose   *)
(* inputs is unmarked is not computed again, and is marked in turn.  (A    *)
(* connector is marked before that, with the same effect: it has no        *)
(* inputs.)                                                                *)
(***************************************************************************)
MutantEventAtInput(n) == \A m \in From(n) : m \notin mark

EventAtInput(n) == ~(From(n) \subseteq mark)

Visit(n) == pc = "pass" /\ todo # <<>> /\ n = Head(todo) /\ todo' = Tail(todo)

Skip(n) == /\ Visit(n)
           /\ i > 0 /\ ~EventAtInput(n)
           /\ mark' = mark \cup {n}
           /\ UNCHANGED <<circuit, NODE, STBTAB, CHANGEFLAG, i, pc>>

MutantMarked(n, changed) == i > 0 /\ Clocked(n)

Marked(n, changed) == i > 0 /\ Clocked(n) /\ ~changed

Transfer(n) ==
    /\ Visit(n)
    /\ i = 0 \/ EventAtInput(n)
    /\ \A p \in Phase : Result(n, p).ok
    /\ LET new == [p \in Phase |-> Result(n, p).list]
           changes == {p \in Phase : new[p] # STBTAB[n][p]}
       IN  /\ STBTAB' = [STBTAB EXCEPT ![n] = new]
           /\ CHANGEFLAG' = CHANGEFLAG + IF Clocked(n) THEN Cardinality(changes) ELSE 0
           /\ mark' = IF Marked(n, changes # {}) THEN mark \cup {n} ELSE mark \ {n}
    /\ UNCHANGED <<circuit, NODE, i, pc>>

(***************************************************************************)
(* The program is killed by the NULL of stb_mergestbpairlist.              *)
(***************************************************************************)
Crash(n) == /\ Visit(n)
            /\ i = 0 \/ EventAtInput(n)
            /\ \E p \in Phase : ~Result(n, p).ok
            /\ pc' = "crashed"
            /\ UNCHANGED <<circuit, NODE, STBTAB, mark, CHANGEFLAG, i>>

NextPass == /\ pc = "pass" /\ todo = <<>> /\ CHANGEFLAG # 0
            /\ i < MaxPass
            /\ CHANGEFLAG' = 0
            /\ i' = i + 1
            /\ todo' = NODE
            /\ UNCHANGED <<circuit, NODE, STBTAB, mark, pc>>

Finish == /\ pc = "pass" /\ todo = <<>> /\ CHANGEFLAG = 0
          /\ mark' = {}
          /\ pc' = "done"
          /\ UNCHANGED <<circuit, NODE, STBTAB, CHANGEFLAG, i, todo>>

Next == NextPass \/ Finish \/ \E n \in Node : Skip(n) \/ Transfer(n) \/ Crash(n)

Spec == Init /\ [][Next]_vars
=============================================================================
