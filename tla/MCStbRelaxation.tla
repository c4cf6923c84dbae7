---------------------------- MODULE MCStbRelaxation ----------------------------
(***************************************************************************)
(* Properties of StbRelaxation and the circuits they are checked on.       *)
(***************************************************************************)
EXTENDS StbRelaxation

(***************************************************************************)
(* Two phases in a period of 10, the edges that close the two latches: the *)
(* first is open from 0 to 4, the second from 5 to 9.                      *)
(***************************************************************************)
CONSTANTS Shapes, Monos, Options, Clocks

MCDefaults == {<<"flip_flop", FALSE>>}

MCOptions == {"flip_flop", "transparent", "errors"} \X {FALSE} \cup {<<"flip_flop", TRUE>>}

MCClocks == {"LATCH", "FLIPFLOP"} \X Phase

Edges(up, down) == [opens |-> [min |-> up, max |-> up], closes |-> [min |-> down, max |-> down],
                    access |-> [min |-> 1, max |-> 2], period |-> 10]

ClockRecord(kind, p) == [type |-> kind, index |-> p]
                        @@ (IF kind = "FLIPFLOP" THEN Edges(IF p = 1 THEN 4 ELSE 9, 0)
                            ELSE Edges(IF p = 1 THEN 0 ELSE 5, IF p = 1 THEN 4 ELSE 9))

(***************************************************************************)
(* Which nodes feed which; node 1 is the input connector, 2 and 3 are      *)
(* clocked, 6 is the output connector.                                     *)
(*   pipe   two stages with a gate between them, and a bypass              *)
(*   loop   the second stage comes back to the first                       *)
(*   self   a stage comes back to itself, through a gate                   *)
(*   front  an accumulator: the output is taken before the adder           *)
(*   ring   three stages in a loop that no connector feeds; the third, 4,  *)
(*          is a flip-flop                                                 *)
(***************************************************************************)
Fanin(shape) ==
    CASE shape = "pipe"  -> <<{}, {1}, {4}, {2, 1}, {3}, {5}>>
      [] shape = "loop"  -> <<{}, {4}, {5}, {1, 3}, {2}, {3}>>
      [] shape = "self"  -> <<{}, {5}, {5}, {1, 2}, {4, 3}, {5}>>
      [] shape = "front" -> <<{}, {5}, {1}, {1, 2}, {4, 3}, {4}>>
      [] shape = "ring"  -> <<{}, {5}, {2}, {3}, {4}, {4}>>

Delay(slow) == IF slow THEN [min |-> 3, max |-> 6] ELSE [min |-> 1, max |-> 1]

Circuit(shape, slow, given, kinds, mono, monophase, worst) ==
    [inputs |-> [n \in Node |->
        LET from == SetToSortSeq(Fanin(shape)[n], <)
        IN  [k \in DOMAIN from |-> [from |-> from[k]] @@ Delay(<<from[k], n>> \in slow)]],
     clock |-> [n \in Node |-> IF n \in DOMAIN kinds THEN ClockRecord(kinds[n][1], kinds[n][2])
                               ELSE NoClock],
     connectors |-> {1, 6},
     specin |-> [n \in Node |-> [p \in Phase |-> IF n = 1 /\ p = 1 THEN given ELSE <<>>]],
     dates |-> <<4, 9>>,
     mono |-> mono, monophase |-> monophase, worst |-> worst]

Arcs(shape) == {x \in Node \X Node : x[1] \in Fanin(shape)[x[2]]}
SlowArcs(shape) == {S \in SUBSET Arcs(shape) : Cardinality(S) <= 1}

Kinds(shape) ==
    LET third == IF shape = "ring" THEN 4 :> <<"FLIPFLOP", 1>> ELSE <<>>
    IN  {kinds @@ third : kinds \in [{2, 3} -> Clocks]}

MCCircuits ==
    UNION {{Circuit(shape, slow, given, kinds, mono, option[1], option[2]) :
              slow \in SlowArcs(shape),
              given \in {<<Pair(0, 2)>>, <<Pair(0, 1), Pair(7, 8)>>},
              kinds \in Kinds(shape),
              mono \in Monos, option \in Options} : shape \in Shapes}

-----------------------------------------------------------------------------
Inverted == {n \in Node : \E p \in Phase : ~Ordered(STBTAB[n][p])}

Dates(list) == UNION {p.D..p.U : p \in ToSet(list)}

Span(S) == IF S = {} THEN {} ELSE Smallest(S)..Largest(S)

Fixpoint(n) == \A p \in Phase : Result(n, p).ok /\ Result(n, p).list = STBTAB[n][p]

Position(n) == CHOOSE k \in DOMAIN NODE : NODE[k] = n

Levelled == \A n \in Node : \A m \in From(n) : Clocked(m) \/ Position(m) < Position(n)

(***************************************************************************)
(* The dates at which, by the windows of its inputs, data may reach phase  *)
(* j of node n, in the period of that phase.                               *)
(***************************************************************************)
Captured(n, j) ==
    IF ~Clocked(n) THEN {[arc |-> a, phase |-> j, periode |-> 0] : a \in ToSet(circuit.inputs[n])}
    ELSE {[arc |-> a, phase |-> p, periode |-> Periode(circuit, circuit.clock[n], p)] :
             a \in ToSet(circuit.inputs[n]),
             p \in {q \in Phase : /\ circuit.clock[n].index = j
                                  /\ ~Refused(circuit, circuit.clock[n], q)}}

Arrive(n, j) ==
    Dates(circuit.specin[n][j]) \cup
    UNION {UNION {(w.D + x.arc.min - x.periode)..(w.U + x.arc.max - x.periode) :
                     w \in ToSet(STBTAB[x.arc.from][x.phase])} : x \in Captured(n, j)}

Late(n, j) == /\ Clocked(n) /\ circuit.clock[n].type = "LATCH"
              /\ \A t \in Arrive(n, j) :
                    t < SlopeOpen(circuit.clock[n]) \/ t > SlopeClose(circuit.clock[n])

-----------------------------------------------------------------------------
TypeOK == /\ NODE \in Seq(Node) /\ Len(NODE) = Nodes
          /\ STBTAB \in [Node -> [Phase -> Seq(Window)]]
          /\ mark \subseteq Node
          /\ CHANGEFLAG \in Nat /\ i \in 0..MaxPass
          /\ todo \in Seq(Node)
          /\ pc \in {"pass", "done", "crashed"}

(***************************************************************************)
(* When stb_relaxation stops, every node has the windows that              *)
(* stb_transferstbnode would give it again, if the nodes are in an order   *)
(* where each follows its inputs: the marks and the count of the changes   *)
(* of latches have left nothing stale.                                     *)
(***************************************************************************)
Converged == pc = "done" /\ Levelled => \A n \in Node : Fixpoint(n)

(***************************************************************************)
(* The same whatever the order of the nodes.                               *)
(***************************************************************************)
Settled == pc = "done" => \A n \in Node : Fixpoint(n)

(***************************************************************************)
(* A node that stb_event_at_input leaves out is one whose windows would    *)
(* not have changed.                                                       *)
(***************************************************************************)
SkipsAreIdle == [][\A n \in Node : Skip(n) => Fixpoint(n)]_vars

(***************************************************************************)
(* Windows found are the windows there are: a node that is not clocked may *)
(* switch when data arrives and at no other date, a latch when data        *)
(* arrives while it is open and, besides, when it opens; data that comes   *)
(* after the closing makes one window of it all, up to the closing.        *)
(***************************************************************************)
Exact ==
    pc = "done" /\ Levelled /\ Inverted = {} =>
      \A n \in Node, j \in Phase :
        LET windows == Dates(STBTAB[n][j])
            arrive == Arrive(n, j)
            ck == circuit.clock[n]
            seen == {t \in arrive : SlopeOpen(ck) <= t /\ t <= SlopeClose(ck)}
        IN  IF ~Clocked(n)
            THEN windows = IF circuit.mono THEN Span(arrive) ELSE arrive
            ELSE (j = ck.index /\ ck.type = "LATCH") =>
                   /\ seen \subseteq windows
                   /\ arrive # {} => windows # {}
                   /\ windows \subseteq
                        LET first == Smallest({SlopeOpen(ck), SlopeOpenMax(ck)})
                            may == seen \cup first..SlopeOpenMax(ck)
                            over == {t \in arrive : t >= SlopeClose(ck)}
                        IN  IF over # {} THEN Span(may \cup {SlopeClose(ck)})
                            ELSE IF circuit.mono THEN Span(may) ELSE may

(***************************************************************************)
(* Two windows of a list never meet and none ends before it begins, until  *)
(* all the data of a latch comes after its closing; the merge of lists     *)
(* meets no NULL before that.                                              *)
(***************************************************************************)
InvertedByLateData ==
    [][Inverted = {} =>
         /\ pc' # "crashed"
         /\ \A n \in Node, p \in Phase :
              ~Ordered(STBTAB'[n][p]) => ~circuit.mono /\ Late(n, p)]_vars

(***************************************************************************)
(* S breaks the loops of the circuit to depth R: but for the arcs that     *)
(* leave S, a node is as deep as its inputs, and deeper than those that it *)
(* comes before in NODE.                                                   *)
(***************************************************************************)
Breaks(S, R) ==
    \E depth \in [Node -> 0..R] :
      \A n \in Node : \A m \in From(n) \ S :
        IF Position(m) < Position(n) THEN depth[m] <= depth[n] ELSE depth[m] < depth[n]

FlipFlops == {n \in Node : circuit.clock[n].type = "FLIPFLOP"}

(***************************************************************************)
(* Nothing in the code bounds the passes: a loop of latches may make as    *)
(* many as its delays allow.  Where flip-flops break every loop they end.  *)
(* A pass settles the nodes one deeper, so that R + 1 passes settle all;   *)
(* but each of the flip-flops may begin that again, once, by losing its    *)
(* data.  Without a loop the first pass is all there is, and the one that  *)
(* finds no change.                                                        *)
(***************************************************************************)
PassesBounded ==
    Levelled =>
      \A S \in SUBSET FlipFlops, R \in 0..Cardinality({n \in Node : Clocked(n)}) :
        i <= (Cardinality(S) + 1) * (R + 1) \/ ~Breaks(S, R)

-----------------------------------------------------------------------------
(***************************************************************************)
(* stb_relaxation has returned, or the program is killed.  Nothing else    *)
(* stops: TLC would report as a deadlock a circuit that asks for more than *)
(* MaxPass passes.                                                         *)
(***************************************************************************)
Ended == pc \in {"done", "crashed"} /\ UNCHANGED vars

EndingSpec == Init /\ [][Next \/ Ended]_vars
=============================================================================
