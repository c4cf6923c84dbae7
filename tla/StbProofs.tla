------------------------------ MODULE StbProofs ------------------------------
(***************************************************************************)
(* Proofs about the relaxation of the stability analysis, for every        *)
(* circuit and every option.                                               *)
(*                                                                         *)
(* First, the relaxation leaves no window stale: what it skips would not   *)
(* have changed, and when it ends on a circuit whose nodes come after      *)
(* their inputs, all windows are those their transfers give.               *)
(*                                                                         *)
(* Then, what a transfer gives.  The lists of windows are dealt with one   *)
(* function after the other: the lists that stb_mergestbpairlist and       *)
(* stb_fusestbpair go through are folds, and the values a fold goes        *)
(* through are told by a function on 0..n, about which one can reason by   *)
(* induction.  Windows in order stay in order but for latches whose data   *)
(* is all late, and the dates of the windows found are those of the data.  *)
(*                                                                         *)
(* Last, how many passes there are: the data of a flip-flop is lost once,  *)
(* and where it is no longer lost each pass settles one more arc back.     *)
(***************************************************************************)
EXTENDS MCStbRelaxation, FiniteSetTheorems, SequenceTheorems, WellFoundedInduction, TLAPS

-----------------------------------------------------------------------------
(***************************************************************************)
(* Visited(n): this pass has passed n.  Behind(n, m): m has been visited   *)
(* after n, or is not to be visited before n; n will see what m has.       *)
(***************************************************************************)
Done == Len(NODE) - Len(todo)

Visited(n) == Position(n) <= Done

Behind(n, m) == IF Visited(n)
                THEN /\ Visited(m) /\ Position(n) <= Position(m)
                     /\ Clocked(m) => CHANGEFLAG > 0
                ELSE Visited(m) \/ Position(n) <= Position(m)

(***************************************************************************)
(* A node that would change has an input that is not marked and that it    *)
(* will see; in the first pass, this is asked of the nodes visited.        *)
(***************************************************************************)
StaleSeen ==
    \A n \in Node : pc # "crashed" /\ (i > 0 \/ Visited(n)) /\ ~Fixpoint(n) =>
        \E m \in From(n) : m \notin mark /\ Behind(n, m)

Shape == /\ circuit \in Circuits /\ NODE = Levelise(circuit)
         /\ todo \in Seq(Node) /\ Len(todo) <= Len(NODE)
         /\ \A k \in 1..Len(todo) : todo[k] = NODE[Done + k]
         /\ DOMAIN STBTAB = Node
         /\ \A n \in Node : STBTAB[n] = [p \in Phase |-> STBTAB[n][p]]
         /\ CHANGEFLAG \in Nat /\ i \in Nat
         /\ pc = "done" => CHANGEFLAG = 0 /\ todo = <<>>

Invariant == Shape /\ StaleSeen

-----------------------------------------------------------------------------
(***************************************************************************)
(* What a node computes depends on the circuit and on the windows of its   *)
(* inputs.                                                                 *)
(***************************************************************************)
LEMMA TransferDepends ==
  ASSUME NEW c, NEW t1, NEW t2, NEW n, NEW j,
         \A k \in DOMAIN c.inputs[n] : t1[c.inputs[n][k].from] = t2[c.inputs[n][k].from]
  PROVE  Transferred(c, t1, n, j) = Transferred(c, t2, n, j)
<1>1. ASSUME NEW k \in DOMAIN c.inputs[n]
      PROVE  Brought(c, t1, n, c.inputs[n][k], j) = Brought(c, t2, n, c.inputs[n][k], j)
  BY <1>1 DEF Brought
<1>2. [k \in DOMAIN c.inputs[n] |-> Brought(c, t1, n, c.inputs[n][k], j)]
        = [k \in DOMAIN c.inputs[n] |-> Brought(c, t2, n, c.inputs[n][k], j)]
  BY <1>1
<1>3. Arrivals(c, t1, n, j) = Arrivals(c, t2, n, j)
  BY <1>2 DEF Arrivals
<1> QED
  BY <1>3 DEF Transferred

(***************************************************************************)
(* A result stays while the windows of the inputs do.                      *)
(***************************************************************************)
LEMMA ResultKept ==
  ASSUME NEW n, UNCHANGED circuit, \A m \in From(n) : STBTAB'[m] = STBTAB[m]
  PROVE  \A p \in Phase : Result(n, p)' = Result(n, p)
<1>1. \A k \in DOMAIN circuit.inputs[n] :
        STBTAB'[circuit.inputs[n][k].from] = STBTAB[circuit.inputs[n][k].from]
  BY DEF From
<1>2. \A p \in Phase : Transferred(circuit, STBTAB', n, p) = Transferred(circuit, STBTAB, n, p)
  BY <1>1, TransferDepends
<1> QED
  BY <1>2 DEF Result

-----------------------------------------------------------------------------
(***************************************************************************)
(* Each node has its place in the order of the circuit.                    *)
(***************************************************************************)
LEMMA Places ==
  ASSUME Shape
  PROVE  /\ \A n \in Node : Position(n) \in 1..Len(NODE) /\ NODE[Position(n)] = n
         /\ \A n, m \in Node : Position(n) = Position(m) => n = m
         /\ \A n \in Node : From(n) \subseteq Node
         /\ NODE \in Seq(Node)
<1>1. NODE \in Seq(Node) /\ \A n \in Node : \E k \in DOMAIN NODE : NODE[k] = n
  BY RelaxationAssumption DEF Shape
<1>2. \A n \in Node : Position(n) \in DOMAIN NODE /\ NODE[Position(n)] = n
  BY <1>1 DEF Position
<1>3. \A n \in Node : From(n) \subseteq Node
  <2>1. CircuitOK(circuit)
    BY RelaxationAssumption DEF Shape
  <2>2. ASSUME NEW n \in Node, NEW k \in DOMAIN circuit.inputs[n]
        PROVE  circuit.inputs[n][k].from \in Node
    <3>1. circuit.inputs[n] \in Seq([from : Node, min : Int, max : Int])
      BY <2>1 DEF CircuitOK
    <3>2. circuit.inputs[n][k] \in [from : Node, min : Int, max : Int]
      <4>1. k \in 1..Len(circuit.inputs[n])
        BY <3>1, LenProperties
      <4> QED
        BY <3>1, <4>1, ElementOfSeq
    <3> QED
      BY <3>2
  <2> QED
    BY <2>2 DEF From
<1> QED
  BY <1>1, <1>2, <1>3

LEMMA DoneType ==
  ASSUME Shape
  PROVE  Done \in Nat /\ Len(NODE) \in Nat
<1>1. NODE \in Seq(Node) /\ todo \in Seq(Node) /\ Len(todo) <= Len(NODE)
  BY Places DEF Shape
<1>2. Len(NODE) \in Nat /\ Len(todo) \in Nat
  BY <1>1
<1> QED
  BY <1>1, <1>2 DEF Done

(***************************************************************************)
(* The node visited is the first that is not.                              *)
(***************************************************************************)
LEMMA VisitNext ==
  ASSUME Shape, NEW x \in Node, Visit(x), UNCHANGED NODE
  PROVE  /\ Position(x) = Done + 1 /\ Done' = Done + 1
         /\ todo' \in Seq(Node) /\ Len(todo') <= Len(NODE)
         /\ \A k \in 1..Len(todo') : todo'[k] = NODE[Done' + k]
         /\ pc = "pass"
<1>1. /\ todo # <<>> /\ x = Head(todo) /\ todo' = Tail(todo) /\ todo \in Seq(Node)
      /\ NODE \in Seq(Node)
  BY Places DEF Visit, Shape
<1>2. Len(todo) \in Nat \ {0} /\ x = todo[1] /\ Len(todo') = Len(todo) - 1 /\ Len(NODE) \in Nat
  BY <1>1
<1>3. Done + 1 \in DOMAIN NODE /\ x = NODE[Done + 1]
  BY <1>1, <1>2 DEF Shape, Done
<1>4. Position(x) = Done + 1
  <2>1. Position(x) \in DOMAIN NODE /\ NODE[Position(x)] = x
    BY Places, <1>1
  <2> QED
    BY <2>1, <1>3, RelaxationAssumption DEF Shape
<1>5. Done' = Done + 1
  BY <1>2 DEF Done
<1>6. \A k \in 1..Len(todo') : todo'[k] = todo[k + 1]
  BY <1>1, <1>2
<1>7. todo' \in Seq(Node) /\ Len(todo') <= Len(NODE)
  BY <1>1, <1>2 DEF Shape
<1>8. ASSUME NEW k \in 1..Len(todo') PROVE todo'[k] = NODE[Done' + k]
  <2>1. k + 1 \in 1..Len(todo) /\ Done \in Int
    BY <1>2 DEF Done
  <2>2. todo[k + 1] = NODE[Done + (k + 1)]
    BY <2>1 DEF Shape
  <2>3. Done + (k + 1) = Done' + k
    BY <2>1, <1>5
  <2> QED
    BY <2>2, <2>3, <1>6
<1> QED
  BY <1>4, <1>5, <1>7, <1>8 DEF Visit

(***************************************************************************)
(* A node visited later sees what an earlier node waits for: the input a   *)
(* node is behind of is never the one that is visited next, unless it is   *)
(* the node itself.                                                        *)
(***************************************************************************)
LEMMA StillBehind ==
  ASSUME Shape, NEW x \in Node, NEW n \in Node, NEW m \in Node,
         Visit(x), UNCHANGED <<circuit, NODE>>, CHANGEFLAG' \in Nat, CHANGEFLAG' >= CHANGEFLAG,
         n # x, Behind(n, m)
  PROVE  m # x /\ Behind(n, m)'
<1>1. /\ Position(x) = Done + 1 /\ Done' = Done + 1 /\ Done \in Int
      /\ Position(n) \in Int /\ Position(m) \in Int /\ Position(n) # Position(x)
  <2>1. UNCHANGED NODE
    OBVIOUS
  <2>2. Position(x) = Done + 1 /\ Done' = Done + 1
    BY <2>1, VisitNext
  <2>3. Position(n) # Position(x)
    BY Places
  <2>4. \A y \in Node : Position(y) \in 1..Len(NODE)
    BY Places
  <2>5. Position(n) \in Int /\ Position(m) \in Int
    BY <2>4
  <2> QED
    BY <2>2, <2>3, <2>5, DoneType
<1>2. Position(n)' = Position(n) /\ Position(m)' = Position(m) /\ Clocked(m)' = Clocked(m)
  BY DEF Position, Clocked
<1>3. Visited(n)' <=> Visited(n)
  BY <1>1, <1>2 DEF Visited
<1>4. m # x
  BY <1>1 DEF Behind, Visited
<1>5. CHANGEFLAG \in Nat
  BY DEF Shape
<1> QED
  BY <1>1, <1>2, <1>3, <1>4, <1>5 DEF Behind, Visited

(***************************************************************************)
(* A node left out is marked: those that waited for it saw its windows,    *)
(* which have not changed.                                                 *)
(***************************************************************************)
LEMMA SkipKeeps ==
  ASSUME Invariant, NEW x \in Node, Skip(x)
  PROVE  Invariant'
<1>1. /\ Visit(x) /\ i > 0 /\ From(x) \subseteq mark /\ mark' = mark \cup {x}
      /\ UNCHANGED <<circuit, NODE, STBTAB, CHANGEFLAG, i, pc>> /\ pc = "pass"
  BY DEF Skip, EventAtInput, Visit
<1>2. Shape'
  BY <1>1, VisitNext DEF Invariant, Shape
<1>3. ASSUME NEW n \in Node, ~Fixpoint(n)'
      PROVE  \E m \in From(n)' : m \notin mark' /\ Behind(n, m)'
  <2>1. ~Fixpoint(n) /\ From(n)' = From(n)
    BY <1>1, <1>3 DEF Fixpoint, Result, From
  <2>2. PICK m \in From(n) : m \notin mark /\ Behind(n, m)
    BY <1>1, <2>1 DEF Invariant, StaleSeen
  <2>3. n # x /\ m \in Node
    BY <1>1, <2>2, Places DEF Invariant
  <2>4. m # x /\ Behind(n, m)'
    BY <1>1, <2>2, <2>3, StillBehind DEF Invariant, Shape
  <2> QED
    BY <1>1, <2>1, <2>2, <2>4
<1> QED
  BY <1>2, <1>3 DEF Invariant, StaleSeen

(***************************************************************************)
(* A node computed again: when its windows change it is not marked, and    *)
(* the nodes it reaches are behind it.                                     *)
(***************************************************************************)
LEMMA TransferKeeps ==
  ASSUME Invariant, NEW x \in Node, Transfer(x)
  PROVE  Invariant'
<1> DEFINE new == [p \in Phase |-> Result(x, p).list]
           changes == {p \in Phase : new[p] # STBTAB[x][p]}
<1>1. /\ Visit(x) /\ UNCHANGED <<circuit, NODE, i, pc>>
      /\ STBTAB' = [STBTAB EXCEPT ![x] = new]
      /\ CHANGEFLAG' = CHANGEFLAG + IF Clocked(x) THEN Cardinality(changes) ELSE 0
      /\ mark' = IF Marked(x, changes # {}) THEN mark \cup {x} ELSE mark \ {x}
      /\ \A p \in Phase : Result(x, p).ok
      /\ pc = "pass"
  BY DEF Transfer, Visit
<1>2. /\ CHANGEFLAG' \in Nat /\ CHANGEFLAG' >= CHANGEFLAG
      /\ Clocked(x) /\ changes # {} => CHANGEFLAG' > 0
  <2>1. IsFiniteSet(changes)
    <3>1. 1 \in Int /\ Phases \in Int
      BY RelaxationAssumption
    <3>2. IsFiniteSet(Phase)
      BY <3>1, FS_Interval DEF Phase
    <3>3. changes \subseteq Phase
      OBVIOUS
    <3> HIDE DEF changes
    <3> QED
      BY <3>2, <3>3, FS_Subset
  <2>2. Cardinality(changes) \in Nat /\ (changes # {} => Cardinality(changes) # 0)
    BY <2>1, FS_CardinalityType, FS_EmptySet
  <2> HIDE DEF changes
  <2> QED
    BY <1>1, <2>2 DEF Invariant, Shape
<1>3. Shape'
  BY <1>1, <1>2, VisitNext DEF Invariant, Shape
<1>4. STBTAB'[x] = new /\ \A n \in Node \ {x} : STBTAB'[n] = STBTAB[n]
  BY <1>1 DEF Invariant, Shape
<1>5. changes = {} => \A n \in Node : STBTAB'[n] = STBTAB[n]
  <2> SUFFICES ASSUME changes = {} PROVE STBTAB'[x] = STBTAB[x]
    BY <1>4
  <2>1. \A p \in Phase : Result(x, p).list = STBTAB[x][p]
    OBVIOUS
  <2>2. new = [p \in Phase |-> STBTAB[x][p]]
    BY <2>1
  <2>3. STBTAB[x] = [p \in Phase |-> STBTAB[x][p]]
    BY DEF Invariant, Shape
  <2> QED
    BY <1>4, <2>2, <2>3
<1> HIDE DEF changes
<1>6. ASSUME NEW n \in Node, (i > 0 \/ Visited(n)') /\ ~Fixpoint(n)'
      PROVE  \E m \in From(n)' : m \notin mark' /\ Behind(n, m)'
  <2>0. /\ From(n)' = From(n) /\ From(n) \subseteq Node
        /\ Position(x) = Done + 1 /\ Done' = Done + 1 /\ Done \in Int
        /\ Position(n) \in Int /\ (Position(n) = Position(x) => n = x)
        /\ Position(n)' = Position(n) /\ Position(x)' = Position(x) /\ Clocked(x)' = Clocked(x)
    <3>1. /\ From(n)' = From(n) /\ Position(n)' = Position(n)
          /\ Position(x)' = Position(x) /\ Clocked(x)' = Clocked(x)
      BY <1>1 DEF From, Position, Clocked
    <3>2. From(n) \subseteq Node /\ (Position(n) = Position(x) => n = x)
      BY Places DEF Invariant
    <3>3. \A y \in Node : Position(y) \in 1..Len(NODE)
      BY Places DEF Invariant
    <3>4. Position(n) \in Int
      BY <3>3
    <3>5. Position(x) = Done + 1 /\ Done' = Done + 1
      BY <1>1, VisitNext DEF Invariant
    <3> QED
      BY <3>1, <3>2, <3>4, <3>5, DoneType DEF Invariant
  <2>1. CASE x \in From(n) /\ changes # {}
    <3>1. x \notin mark'
      BY <1>1, <2>1 DEF Marked
    <3>2. Behind(n, x)'
      BY <1>2, <2>0, <2>1 DEF Behind, Visited
    <3> QED
      BY <2>0, <2>1, <3>1, <3>2
  <2>2. CASE ~(x \in From(n) /\ changes # {})
    <3>1. \A m \in From(n) : STBTAB'[m] = STBTAB[m]
      BY <1>4, <1>5, <2>0, <2>2
    <3>2. \A p \in Phase : Result(n, p)' = Result(n, p)
      BY <1>1, <3>1, ResultKept
    <3>3. n # x
      <4> SUFFICES ASSUME n = x PROVE FALSE
        OBVIOUS
      <4>1. \A p \in Phase : Result(x, p)'.ok /\ Result(x, p)'.list = STBTAB'[x][p]
        BY <1>1, <1>4, <3>2
      <4> QED
        BY <1>6, <4>1 DEF Fixpoint
    <3>4. ~Fixpoint(n) /\ (i > 0 \/ Visited(n))
      BY <1>4, <1>6, <2>0, <3>2, <3>3 DEF Fixpoint, Visited
    <3>5. PICK m \in From(n) : m \notin mark /\ Behind(n, m)
      BY <1>1, <3>4 DEF Invariant, StaleSeen
    <3>6. m # x /\ Behind(n, m)'
      BY <1>1, <1>2, <2>0, <3>3, <3>5, StillBehind DEF Invariant
    <3> QED
      BY <1>1, <2>0, <3>5, <3>6
  <2> QED
    BY <2>1, <2>2
<1> QED
  BY <1>1, <1>3, <1>6 DEF Invariant, StaleSeen

(***************************************************************************)
(* The program that is killed leaves its tables as they are.               *)
(***************************************************************************)
LEMMA CrashKeeps ==
  ASSUME Invariant, NEW x \in Node, Crash(x)
  PROVE  Invariant'
<1>1. /\ Visit(x) /\ pc' = "crashed"
      /\ UNCHANGED <<circuit, NODE, STBTAB, CHANGEFLAG, i>>
  BY DEF Crash
<1>2. Shape'
  BY <1>1, VisitNext DEF Invariant, Shape
<1> QED
  BY <1>1, <1>2 DEF Invariant, StaleSeen

(***************************************************************************)
(* A new pass: what a node was behind of is still to come when it is       *)
(* visited again.                                                          *)
(***************************************************************************)
LEMMA NextPassKeeps ==
  ASSUME Invariant, NextPass
  PROVE  Invariant'
<1>1. /\ pc = "pass" /\ todo = <<>> /\ CHANGEFLAG' = 0 /\ i' = i + 1 /\ todo' = NODE
      /\ UNCHANGED <<circuit, NODE, STBTAB, mark, pc>>
  BY DEF NextPass
<1>2. NODE \in Seq(Node) /\ Len(NODE) \in Nat
  BY Places, DoneType DEF Invariant
<1>3. Done = Len(NODE) /\ Done' = 0
  BY <1>1, <1>2 DEF Done
<1>4. Shape'
  BY <1>1, <1>2, <1>3 DEF Invariant, Shape
<1>5. \A n \in Node : Position(n) \in 1..Len(NODE)
  BY Places DEF Invariant
<1>6. ASSUME NEW n \in Node, ~Fixpoint(n)'
      PROVE  \E m \in From(n)' : m \notin mark' /\ Behind(n, m)'
  <2>1. /\ ~Fixpoint(n) /\ From(n)' = From(n)
        /\ Position(n)' = Position(n) /\ \A m \in Node : Position(m)' = Position(m)
    BY <1>1, <1>6 DEF Fixpoint, Result, From, Position
  <2>2. Visited(n)
    BY <1>2, <1>3, <1>5 DEF Visited
  <2>3. PICK m \in From(n) : m \notin mark /\ Behind(n, m)
    BY <1>1, <2>1, <2>2 DEF Invariant, StaleSeen
  <2>4. m \in Node /\ Position(n) <= Position(m)
    BY <2>2, <2>3, Places DEF Invariant, Behind
  <2>5. Behind(n, m)'
    BY <1>2, <1>3, <1>5, <2>1, <2>4 DEF Behind, Visited
  <2> QED
    BY <1>1, <2>1, <2>3, <2>5
<1> QED
  BY <1>4, <1>6 DEF Invariant, StaleSeen

(***************************************************************************)
(* What the invariant speaks of, when the tables do not change.            *)
(***************************************************************************)
LEMMA SameTables ==
  ASSUME NEW n, UNCHANGED <<circuit, NODE, STBTAB, CHANGEFLAG, todo>>
  PROVE  /\ From(n)' = From(n)
         /\ Visited(n)' = Visited(n)
         /\ Fixpoint(n)' = Fixpoint(n)
         /\ \A m : Behind(n, m)' = Behind(n, m)
<1>1. From(n)' = From(n)
  BY DEF From
<1>2. Fixpoint(n)' = Fixpoint(n)
  BY DEF Fixpoint, Result
<1>3. Done' = Done /\ \A m : Position(m)' = Position(m) /\ Clocked(m)' = Clocked(m)
  BY DEF Done, Position, Clocked
<1>4. \A m : Visited(m)' = Visited(m)
  BY <1>3 DEF Visited
<1>5. ASSUME NEW m PROVE Behind(n, m)' = Behind(n, m)
  BY <1>3, <1>4 DEF Behind
<1> QED
  BY <1>1, <1>2, <1>4, <1>5

(***************************************************************************)
(* The end takes the marks away, and changes no table.                     *)
(***************************************************************************)
LEMMA FinishKeeps ==
  ASSUME Invariant, Finish
  PROVE  Invariant'
<1>1. /\ pc = "pass" /\ todo = <<>> /\ CHANGEFLAG = 0 /\ mark' = {} /\ pc' = "done"
      /\ UNCHANGED <<circuit, NODE, STBTAB, CHANGEFLAG, i, todo>>
  BY DEF Finish
<1>2. Shape'
  BY <1>1 DEF Invariant, Shape, Done
<1>3. ASSUME NEW n \in Node, i > 0 \/ Visited(n), ~Fixpoint(n)
      PROVE  \E m \in From(n) : m \notin mark' /\ Behind(n, m)
  BY <1>1, <1>3 DEF Invariant, StaleSeen
<1>4. ASSUME NEW n \in Node, i' > 0 \/ Visited(n)', ~Fixpoint(n)'
      PROVE  \E m \in From(n)' : m \notin mark' /\ Behind(n, m)'
  BY <1>1, <1>3, <1>4, SameTables
<1> QED
  BY <1>2, <1>4 DEF Invariant, StaleSeen

LEMMA Initially ==
  ASSUME Init
  PROVE  Invariant
<1>1. /\ circuit \in Circuits /\ NODE = Levelise(circuit) /\ todo = NODE
      /\ STBTAB = InitialTab(circuit) /\ CHANGEFLAG = 0 /\ i = 0 /\ pc = "pass"
  BY DEF Init
<1>2. NODE \in Seq(Node) /\ Len(NODE) \in Nat
  BY <1>1, RelaxationAssumption
<1>3. Done = 0
  BY <1>1, <1>2 DEF Done
<1>4. /\ DOMAIN STBTAB = Node
      /\ \A n \in Node : STBTAB[n] = [p \in Phase |-> STBTAB[n][p]]
  BY <1>1 DEF InitialTab
<1>5. Shape
  BY <1>1, <1>2, <1>3, <1>4 DEF Shape
<1>6. \A n \in Node : Position(n) \in 1..Len(NODE)
  BY <1>5, Places
<1>7. \A n \in Node : ~Visited(n)
  BY <1>2, <1>3, <1>6 DEF Visited
<1> QED
  BY <1>1, <1>5, <1>7 DEF Invariant, StaleSeen

-----------------------------------------------------------------------------
(***************************************************************************)
(* In every state of stb_relaxation a node whose windows are stale has an  *)
(* input that is not marked and that it will see.                          *)
(***************************************************************************)
THEOREM Inductive == Spec => []Invariant
<1>1. Init => Invariant
  BY Initially
<1>2. Invariant /\ [Next]_vars => Invariant'
  <2> SUFFICES ASSUME Invariant, [Next]_vars PROVE Invariant'
    OBVIOUS
  <2>1. CASE NextPass
    BY <2>1, NextPassKeeps
  <2>2. CASE Finish
    BY <2>2, FinishKeeps
  <2>3. ASSUME NEW n \in Node, Skip(n) PROVE Invariant'
    BY <2>3, SkipKeeps
  <2>4. ASSUME NEW n \in Node, Transfer(n) PROVE Invariant'
    BY <2>4, TransferKeeps
  <2>5. ASSUME NEW n \in Node, Crash(n) PROVE Invariant'
    BY <2>5, CrashKeeps
  <2>6. CASE UNCHANGED vars
    <3>1. UNCHANGED <<circuit, NODE, STBTAB, CHANGEFLAG, todo>> /\ UNCHANGED <<mark, i, pc>>
      BY <2>6 DEF vars
    <3>2. Shape'
      BY <3>1 DEF Invariant, Shape, Done
    <3>3. ASSUME NEW n \in Node, pc' # "crashed", i' > 0 \/ Visited(n)', ~Fixpoint(n)'
          PROVE  \E m \in From(n)' : m \notin mark' /\ Behind(n, m)'
      BY <3>1, <3>3, SameTables DEF Invariant, StaleSeen
    <3> QED
      BY <3>2, <3>3 DEF Invariant, StaleSeen
  <2> QED
    BY <2>1, <2>2, <2>3, <2>4, <2>5, <2>6 DEF Next
<1> QED
  BY <1>1, <1>2, PTL DEF Spec

(***************************************************************************)
(* stb_event_at_input leaves out no node whose windows would change.       *)
(***************************************************************************)
THEOREM OnlyIdleSkipped == Spec => SkipsAreIdle
<1>1. Invariant /\ [Next]_vars => [\A n \in Node : Skip(n) => Fixpoint(n)]_vars
  <2> SUFFICES ASSUME Invariant, NEW n \in Node, Skip(n) PROVE Fixpoint(n)
    OBVIOUS
  <2>1. pc = "pass" /\ i > 0 /\ From(n) \subseteq mark
    BY DEF Skip, Visit, EventAtInput
  <2> QED
    BY <2>1 DEF Invariant, StaleSeen
<1> QED
  BY <1>1, Inductive, PTL DEF Spec, SkipsAreIdle

(***************************************************************************)
(* When stb_relaxation ends on nodes that come after their inputs, the     *)
(* windows of every node are those stb_transferstbnode would give again.   *)
(***************************************************************************)
THEOREM EndsConverged == Spec => []Converged
<1>1. Invariant => Converged
  <2> SUFFICES ASSUME Invariant, pc = "done", Levelled, NEW n \in Node, ~Fixpoint(n)
               PROVE  FALSE
    BY DEF Converged
  <2>1. /\ CHANGEFLAG = 0 /\ todo = <<>> /\ Len(NODE) \in Nat
        /\ \A y \in Node : Position(y) \in 1..Len(NODE)
    BY Places, DoneType DEF Invariant, Shape
  <2>2. Visited(n)
    BY <2>1 DEF Visited, Done
  <2>3. PICK m \in From(n) : Behind(n, m)
    BY <2>2 DEF Invariant, StaleSeen
  <2>4. m \in Node /\ Position(n) <= Position(m) /\ ~Clocked(m)
    BY <2>1, <2>2, <2>3, Places DEF Invariant, Behind
  <2>5. Position(m) < Position(n)
    BY <2>3, <2>4 DEF Levelled
  <2> QED
    BY <2>1, <2>4, <2>5
<1> QED
  BY <1>1, Inductive, PTL

-----------------------------------------------------------------------------
(***************************************************************************)
(* Sets of integers, and the values a fold goes through.                   *)
(***************************************************************************)
LEMMA Least ==
  ASSUME NEW S, S \subseteq Nat, S # {}
  PROVE  \E x \in S : \A y \in S : x <= y
<1> DEFINE R == OpToRel(<, Nat)
<1>1. \A x, y \in Nat : y < x => <<y, x>> \in R
  BY DEF OpToRel
<1>2. IsWellFoundedOn(R, Nat)
  BY NatLessThanWellFounded
<1> HIDE DEF R
<1>3. \E x \in S : \A y \in S : <<y, x>> \notin R
  BY <1>2, WFMin
<1>4. PICK x \in S : \A y \in S : <<y, x>> \notin R
  BY <1>3
<1>5. \A y \in S : ~(y < x)
  BY <1>1, <1>4
<1> QED
  BY <1>5

(***************************************************************************)
(* Induction from 0 to n, about a set.                                     *)
(***************************************************************************)
LEMMA UpTo ==
  ASSUME NEW n \in Nat, NEW S, 0 \in S, \A k \in 1..n : k - 1 \in S => k \in S
  PROVE  \A k \in 0..n : k \in S
<1> DEFINE Bad == {k \in 0..n : k \notin S}
<1> SUFFICES ASSUME Bad # {} PROVE FALSE
  OBVIOUS
<1>1. Bad \subseteq Nat
  OBVIOUS
<1> HIDE DEF Bad
<1>2. PICK x \in Bad : \A y \in Bad : x <= y
  BY <1>1, Least
<1>3. x \in 0..n /\ x \notin S
  BY <1>2 DEF Bad
<1>4. x \in 1..n /\ x - 1 \in 0..n /\ x - 1 \notin Bad
  BY <1>2, <1>3
<1> QED
  BY <1>3, <1>4 DEF Bad

(***************************************************************************)
(* The least and the greatest date of a set that has bounds.               *)
(***************************************************************************)
LEMMA SmallestIs ==
  ASSUME NEW lo \in Int, NEW S, S \subseteq Int, S # {}, \A x \in S : lo <= x
  PROVE  Smallest(S) \in S /\ \A x \in S : Smallest(S) <= x
<1> DEFINE T == {x - lo : x \in S}
<1>1. T \subseteq Nat /\ T # {}
  <2>1. \A x \in S : x - lo \in Nat
    OBVIOUS
  <2> QED
    BY <2>1
<1> HIDE DEF T
<1>2. PICK t \in T : \A y \in T : t <= y
  BY <1>1, Least
<1>3. PICK x \in S : t = x - lo
  BY <1>2 DEF T
<1>4. ASSUME NEW y \in S PROVE x <= y
  <2>1. y - lo \in T
    BY DEF T
  <2>2. x - lo <= y - lo
    BY <1>2, <1>3, <2>1
  <2>3. x \in Int /\ y \in Int
    BY <1>3, <1>4
  <2> QED
    BY <2>2, <2>3
<1>5. \E z \in S : \A y \in S : z <= y
  BY <1>3, <1>4
<1> QED
  BY <1>5 DEF Smallest

(***************************************************************************)
(* The same for the largest.                                               *)
(***************************************************************************)
LEMMA LargestIs ==
  ASSUME NEW hi \in Int, NEW S, S \subseteq Int, S # {}, \A x \in S : x <= hi
  PROVE  Largest(S) \in S /\ \A x \in S : x <= Largest(S)
<1> DEFINE T == {hi - x : x \in S}
<1>1. T \subseteq Nat /\ T # {}
  <2>1. \A x \in S : hi - x \in Nat
    OBVIOUS
  <2> QED
    BY <2>1
<1> HIDE DEF T
<1>2. PICK t \in T : \A y \in T : t <= y
  BY <1>1, Least
<1>3. PICK x \in S : t = hi - x
  BY <1>2 DEF T
<1>4. ASSUME NEW y \in S PROVE y <= x
  <2>1. hi - y \in T
    BY DEF T
  <2>2. hi - x <= hi - y
    BY <1>2, <1>3, <2>1
  <2>3. x \in Int /\ y \in Int
    BY <1>3, <1>4
  <2> QED
    BY <2>2, <2>3
<1>5. \E z \in S : \A y \in S : y <= z
  BY <1>3, <1>4
<1> QED
  BY <1>5 DEF Largest

LEMMA TopIs ==
  ASSUME NEW n \in Nat, NEW T, T \subseteq 1..n, T # {}
  PROVE  Max(T) \in T /\ \A x \in T : x <= Max(T)
<1>1. T \subseteq Int /\ n \in Int /\ \A x \in T : x <= n
  OBVIOUS
<1>2. Largest(T) \in T /\ \A x \in T : x <= Largest(T)
  BY <1>1, LargestIs
<1>3. \E x \in T : \A y \in T : x >= y
  BY <1>1, <1>2
<1> QED
  BY <1>1, <1>3 DEF Max

(***************************************************************************)
(* A finite family of numbers has bounds.                                  *)
(***************************************************************************)
LEMMA Bounded ==
  ASSUME NEW n \in Nat, NEW f, \A k \in 1..n : f[k] \in Int
  PROVE  \E lo, hi \in Int : \A k \in 1..n : lo <= f[k] /\ f[k] <= hi
<1> DEFINE S == {m \in 0..n : \E lo, hi \in Int : \A k \in 1..m : lo <= f[k] /\ f[k] <= hi}
<1>1. 0 \in S
  OBVIOUS
<1>2. ASSUME NEW m \in 1..n, m - 1 \in S PROVE m \in S
  <2>1. PICK lo, hi \in Int : \A k \in 1..(m - 1) : lo <= f[k] /\ f[k] <= hi
    BY <1>2
  <2>2. PICK x \in Int : x = f[m]
    BY <1>2
  <2>3. PICK l, h \in Int : l <= x /\ l <= lo /\ x <= h /\ hi <= h
    <3>1. CASE x < lo
      <4>1. x <= x /\ x <= lo /\ x <= IF hi < x THEN x ELSE hi
        BY <3>1
      <4> QED
        BY <3>1, <4>1
    <3>2. CASE ~(x < lo)
      <4>1. lo <= x /\ lo <= lo
        BY <3>2
      <4> QED
        BY <4>1
    <3> QED
      BY <3>1, <3>2
  <2>4. \A k \in 1..m : l <= f[k] /\ f[k] <= h
    <3>1. \A k \in 1..m : k = m \/ k \in 1..(m - 1)
      BY <1>2
    <3> QED
      BY <2>1, <2>2, <2>3, <3>1
  <2>5. \E lo_, hi_ \in Int : \A k \in 1..m : lo_ <= f[k] /\ f[k] <= hi_
    BY <2>4
  <2>6. m \in 0..n
    BY <1>2
  <2> QED
    BY <2>5, <2>6
<1> HIDE DEF S
<1>3. n \in S
  BY <1>1, <1>2, UpTo
<1> QED
  BY <1>3 DEF S

(***************************************************************************)
(* The recursive function a fold is made of exists, when every step stays  *)
(* in the set A.                                                           *)
(***************************************************************************)
FoldGoes(A, base, n, F, g) ==
    /\ g \in [SUBSET (1..n) -> A]
    /\ \A T \in SUBSET (1..n) : g[T] = IF T = {} THEN base ELSE F[<<g[T \ {Max(T)}], Max(T)>>]

(***************************************************************************)
(* A function of the intervals 1..k that takes the values of a fold        *)
(* exists, whatever the step.                                              *)
(***************************************************************************)
LEMMA FoldExists ==
  ASSUME NEW A, NEW base \in A, NEW n \in Nat, NEW F \in [A \X (1..n) -> A]
  PROVE  \E g : FoldGoes(A, base, n, F, g)
<1> DEFINE S == {m \in 0..n : \E g : FoldGoes(A, base, m, F, g)}
<1>1. 0 \in S
  <2> DEFINE g == [T \in SUBSET (1..0) |-> base]
  <2>1. \A T \in SUBSET (1..0) : T = {}
    OBVIOUS
  <2>2. FoldGoes(A, base, 0, F, g)
    BY <2>1 DEF FoldGoes
  <2> QED
    BY <2>2
<1>2. ASSUME NEW m \in 1..n, m - 1 \in S PROVE m \in S
  <2>1. PICK g : FoldGoes(A, base, m - 1, F, g)
    BY <1>2
  <2> DEFINE step(T) == IF T = {} THEN base ELSE F[<<g[T \ {Max(T)}], Max(T)>>]
             h == [T \in SUBSET (1..m) |-> step(T)]
  <2>2. ASSUME NEW T \in SUBSET (1..m), T # {}
        PROVE  Max(T) \in 1..m /\ T \ {Max(T)} \in SUBSET (1..(m - 1))
    <3>1. Max(T) \in T /\ \A x \in T : x <= Max(T)
      <4>1. m \in Nat /\ T \subseteq 1..m
        BY <1>2, <2>2
      <4> QED
        BY <2>2, <4>1, TopIs
    <3>2. Max(T) \in 1..m
      BY <2>2, <3>1
    <3>3. \A x \in T \ {Max(T)} : x \in 1..(m - 1)
      BY <3>1, <3>2
    <3> QED
      BY <3>1, <3>3
  <2>3. g \in [SUBSET (1..(m - 1)) -> A]
    BY <2>1 DEF FoldGoes
  <2>4. \A T \in SUBSET (1..m) : step(T) \in A
    BY <2>2, <2>3
  <2>5. h \in [SUBSET (1..m) -> A]
    BY <2>4
  <2>6. \A T \in SUBSET (1..(m - 1)) : T \in SUBSET (1..m) /\ h[T] = g[T]
    BY <2>1 DEF FoldGoes
  <2>7. ASSUME NEW T \in SUBSET (1..m)
        PROVE  h[T] = IF T = {} THEN base ELSE F[<<h[T \ {Max(T)}], Max(T)>>]
    BY <2>2, <2>6
  <2> HIDE DEF h
  <2>8. FoldGoes(A, base, m, F, h)
    BY <2>5, <2>7 DEF FoldGoes
  <2> QED
    BY <2>8
<1> HIDE DEF S
<1>3. n \in S
  BY <1>1, <1>2, UpTo
<1> QED
  BY <1>3 DEF S

LEMMA TopOf ==
  ASSUME NEW k \in Nat, k # 0
  PROVE  Max(1..k) = k /\ (1..k) \ {k} = 1..(k - 1)
<1>1. Max(1..k) \in 1..k /\ \A x \in 1..k : x <= Max(1..k)
  <2>1. 1..k # {}
    OBVIOUS
  <2> QED
    BY <2>1, TopIs
<1> QED
  BY <1>1

(***************************************************************************)
(* MapThenFoldSet chooses one function of sets that obeys its equation     *)
(* (FoldRuns); on the sets 1..k its values are those of a run of the steps *)
(* (FoldRun).                                                              *)
(***************************************************************************)
FoldRuns(A, base, n, F, h) ==
    /\ h[{}] = base
    /\ \A T \in SUBSET (1..n) :
          T # {} /\ h[T \ {Max(T)}] \in A => h[T] = F[<<h[T \ {Max(T)}], Max(T)>>]

FoldOK(A, base, n, F) == base \in A /\ n \in Nat /\ F \in [A \X (1..n) -> A]

FoldRun(A, base, n, F, h, r) == /\ r \in [0..n -> A] /\ r[0] = base /\ r[n] = h[1..n]
                                /\ \A k \in 1..n : r[k] = F[<<r[k - 1], k>>]

LEMMA FoldSteps ==
  ASSUME NEW A, NEW base, NEW n, NEW F, NEW h,
         FoldOK(A, base, n, F), FoldRuns(A, base, n, F, h)
  PROVE  \E r : FoldRun(A, base, n, F, h, r)
<1>0. base \in A /\ n \in Nat /\ F \in [A \X (1..n) -> A]
  BY DEF FoldOK
<1> DEFINE S == {k \in 0..n : h[1..k] \in A}
<1>1. 0 \in S
  <2>1. 1..0 = {}
    OBVIOUS
  <2> QED
    BY <1>0, <2>1 DEF FoldRuns
<1>2. ASSUME NEW k \in 1..n, h[1..(k - 1)] \in A
      PROVE  h[1..k] = F[<<h[1..(k - 1)], k>>] /\ h[1..k] \in A
  <2>1. Max(1..k) = k /\ (1..k) \ {k} = 1..(k - 1)
    BY <1>0, TopOf
  <2>2. 1..k \in SUBSET (1..n) /\ 1..k # {}
    BY <1>0
  <2>3. h[1..k] = F[<<h[1..(k - 1)], k>>]
    BY <1>2, <2>1, <2>2 DEF FoldRuns
  <2> QED
    BY <1>0, <1>2, <2>3
<1>3. ASSUME NEW k \in 1..n, k - 1 \in S PROVE k \in S
  <2>1. h[1..(k - 1)] \in A /\ k \in 0..n
    BY <1>0, <1>3
  <2> QED
    BY <1>2, <2>1
<1> HIDE DEF S
<1>4. \A k \in 0..n : k \in S
  BY <1>0, <1>1, <1>3, UpTo
<1>5. \A k \in 0..n : h[1..k] \in A
  BY <1>4 DEF S
<1> DEFINE q == [k \in 0..n |-> h[1..k]]
<1>6. q \in [0..n -> A]
  BY <1>5
<1>7. q[0] = base /\ q[n] = h[1..n]
  <2>1. 1..0 = {}
    OBVIOUS
  <2> QED
    BY <1>0, <2>1 DEF FoldRuns
<1>8. ASSUME NEW k \in 1..n PROVE q[k] = F[<<q[k - 1], k>>]
  <2>1. k - 1 \in 0..n /\ k \in 0..n
    BY <1>0
  <2> QED
    BY <1>2, <1>5, <2>1
<1>9. \A k \in 1..n : q[k] = F[<<q[k - 1], k>>]
  BY <1>8
<1> HIDE DEF q
<1>10. FoldRun(A, base, n, F, h, q)
  BY <1>6, <1>7, <1>9 DEF FoldRun
<1> QED
  BY <1>10

-----------------------------------------------------------------------------
(***************************************************************************)
(* Lists of windows.                                                       *)
(***************************************************************************)
Lists == Seq(Window)

(***************************************************************************)
(* What a merge carries: the list, and whether no NULL was met.  A list is *)
(* neat when each window ends before the next begins.                      *)
(***************************************************************************)
Accs == [ok : BOOLEAN, list : Lists]

Neat(list) == /\ list \in Lists
              /\ \A k \in 1..Len(list) : list[k].D <= list[k].U
              /\ \A k, l \in 1..Len(list) : k < l => list[k].U < list[l].D

Within(t, w) == w.D <= t /\ t <= w.U

(***************************************************************************)
(* What is known of the windows of a list.                                 *)
(***************************************************************************)
LEMMA Listed ==
  ASSUME NEW list \in Lists
  PROVE  /\ Len(list) \in Nat /\ DOMAIN list = 1..Len(list)
         /\ \A k \in 1..Len(list) : /\ list[k] \in Window
                                    /\ list[k].D \in Int /\ list[k].U \in Int
         /\ (list = <<>> <=> Len(list) = 0)
<1>1. Len(list) \in Nat /\ DOMAIN list = 1..Len(list) /\ list \in [1..Len(list) -> Window]
  BY LenProperties DEF Lists
<1>2. \A k \in 1..Len(list) : list[k] \in Window
  BY <1>1
<1>3. list = <<>> <=> Len(list) = 0
  BY EmptySeq DEF Lists
<1> QED
  BY <1>1, <1>2, <1>3 DEF Window

LEMMA OrderedNeat ==
  ASSUME NEW list \in Lists
  PROVE  Ordered(list) <=> Neat(list)
<1> DEFINE n == Len(list)
<1>0. n \in Nat /\ DOMAIN list = 1..n
      /\ \A k \in 1..n : list[k].D \in Int /\ list[k].U \in Int
  BY Listed
<1> HIDE DEF n
<1>1. ASSUME Ordered(list), NEW k \in 1..n
      PROVE  \A l \in 1..n : k < l => list[k].U < list[l].D
  <2> DEFINE S == {l \in 0..n : k < l => list[k].U < list[l].D}
  <2>1. 0 \in S
    BY <1>0
  <2>2. ASSUME NEW l \in 1..n, l - 1 \in S PROVE l \in S
    <3> SUFFICES ASSUME k < l PROVE list[k].U < list[l].D
      BY <1>0
    <3>1. l - 1 \in 1..n /\ l - 1 \in 1..(n - 1)
      BY <1>0
    <3>2. list[l - 1].U < list[l].D
      <4>1. \A y \in 1..(n - 1) : list[y].U < list[y + 1].D
        BY <1>1 DEF Ordered, n
      <4>2. (l - 1) + 1 = l
        OBVIOUS
      <4> QED
        BY <3>1, <4>1, <4>2
    <3>3. list[l - 1].D <= list[l - 1].U
      BY <1>0, <1>1, <3>1 DEF Ordered
    <3>4. CASE k = l - 1
      BY <3>2, <3>4
    <3>5. CASE k # l - 1
      <4>1. list[k].U < list[l - 1].D
        BY <2>2, <3>5
      <4> QED
        BY <1>0, <3>1, <3>2, <3>3, <4>1
    <3> QED
      BY <3>4, <3>5
  <2> HIDE DEF S
  <2>3. \A l \in 0..n : l \in S
    BY <1>0, <2>1, <2>2, UpTo
  <2> QED
    BY <2>3 DEF S
<1>2. ASSUME Neat(list), NEW k \in 1..(n - 1) PROVE list[k].U < list[k + 1].D
  <2>1. k \in 1..n /\ k + 1 \in 1..n /\ k < k + 1
    BY <1>0
  <2> QED
    BY <1>2, <2>1 DEF Neat, n
<1> QED
  BY <1>0, <1>1, <1>2 DEF Neat, Ordered, n

(***************************************************************************)
(* A date is one of a list when it is within one of its windows.           *)
(***************************************************************************)
LEMMA DatesAre ==
  ASSUME NEW list \in Lists
  PROVE  /\ Dates(list) \subseteq Int
         /\ \A t \in Int : t \in Dates(list) <=> \E k \in 1..Len(list) : Within(t, list[k])
<1>1. DOMAIN list = 1..Len(list)
      /\ \A k \in 1..Len(list) : list[k].D \in Int /\ list[k].U \in Int
  BY Listed
<1>2. \A t : t \in Dates(list) <=> \E k \in 1..Len(list) : t \in list[k].D..list[k].U
  BY <1>1 DEF Dates, ToSet
<1>3. \A k \in 1..Len(list) : \A t : t \in list[k].D..list[k].U <=> t \in Int /\ Within(t, list[k])
  BY <1>1 DEF Within
<1> QED
  BY <1>2, <1>3

LEMMA NoDates ==
  Dates(<<>>) = {} /\ <<>> \in Lists /\ Neat(<<>>)
<1>1. <<>> \in Lists /\ Len(<<>>) = 0
  BY EmptySeq DEF Lists
<1>2. \A t \in Int : t \notin Dates(<<>>)
  BY <1>1, DatesAre
<1>3. Dates(<<>>) \subseteq Int
  BY <1>1, DatesAre
<1> QED
  BY <1>1, <1>2, <1>3 DEF Neat

LEMMA OneWindow ==
  ASSUME NEW w \in Window
  PROVE  /\ <<w>> \in Lists /\ <<w>> # <<>> /\ Dates(<<w>>) = w.D..w.U
         /\ (w.D <= w.U => Neat(<<w>>))
<1>1. <<w>> \in Lists /\ Len(<<w>>) = 1 /\ <<w>>[1] = w
  BY DEF Lists
<1>2. \A t \in Int : t \in Dates(<<w>>) <=> Within(t, w)
  BY <1>1, DatesAre
<1>3. Dates(<<w>>) \subseteq Int
  BY <1>1, DatesAre
<1>4. w.D \in Int /\ w.U \in Int
  BY DEF Window
<1>5. Dates(<<w>>) = w.D..w.U
  <2>1. \A t : t \in w.D..w.U <=> t \in Int /\ Within(t, w)
    BY <1>4 DEF Within
  <2> QED
    BY <1>2, <1>3, <2>1
<1> QED
  BY <1>1, <1>4, <1>5 DEF Neat

-----------------------------------------------------------------------------
(***************************************************************************)
(* A list whose windows between the b-th and the t-th give way to one.     *)
(***************************************************************************)
Joined(s, b, w, t) == SubSeq(s, 1, b) \o <<w>> \o SubSeq(s, t, Len(s))

(***************************************************************************)
(* Where the windows of the list have gone.                                *)
(***************************************************************************)
LEMMA JoinedIs ==
  ASSUME NEW s \in Lists, NEW b \in 0..Len(s), NEW t \in (b + 1)..(Len(s) + 1), NEW w \in Window
  PROVE  LET r == Joined(s, b, w, t)
         IN  /\ r \in Lists /\ Len(r) = Len(s) + b + 2 - t
             /\ r[b + 1] = w
             /\ \A k \in 1..b : r[k] = s[k]
             /\ \A k \in t..Len(s) : r[k - t + b + 2] = s[k]
<1> DEFINE n == Len(s)
<1>0. n \in Nat /\ DOMAIN s = 1..n /\ \A k \in 1..n : s[k] \in Window
  BY Listed
<1> HIDE DEF n
<1>1. PICK x : x = SubSeq(s, 1, b)
  OBVIOUS
<1>2. x \in Lists /\ Len(x) = b /\ \A k \in 1..b : x[k] = s[k]
  <2>1. b \in 0..n
    BY DEF n
  <2>2. \A k \in 1..b : s[k] \in Window
    BY <1>0, <2>1
  <2>3. b \in Int /\ 1 \in Int
    BY <2>1
  <2>4. /\ SubSeq(s, 1, b) \in Seq(Window)
        /\ Len(SubSeq(s, 1, b)) = IF 1 <= b THEN b - 1 + 1 ELSE 0
        /\ \A k \in 1..(b - 1 + 1) : SubSeq(s, 1, b)[k] = s[1 + k - 1]
    BY <2>2, <2>3, SubSeqProperties
  <2> QED
    BY <1>1, <2>1, <2>4 DEF Lists
<1>3. PICK z : z = SubSeq(s, t, n)
  OBVIOUS
<1>4. z \in Lists /\ Len(z) = n + 1 - t /\ \A k \in 1..(n + 1 - t) : z[k] = s[t + k - 1]
  <2>1. b \in 0..n /\ t \in (b + 1)..(n + 1)
    BY DEF n
  <2>2. \A k \in t..n : s[k] \in Window
    BY <1>0, <2>1
  <2>3. t \in Int /\ n \in Int
    BY <1>0, <2>1
  <2>4. /\ SubSeq(s, t, n) \in Seq(Window)
        /\ Len(SubSeq(s, t, n)) = IF t <= n THEN n - t + 1 ELSE 0
        /\ \A k \in 1..(n - t + 1) : SubSeq(s, t, n)[k] = s[t + k - 1]
    BY <2>2, <2>3, SubSeqProperties
  <2> QED
    BY <1>0, <1>3, <2>1, <2>3, <2>4 DEF Lists
<1>5. PICK y : y = x \o <<w>>
  OBVIOUS
<1>6. y \in Lists /\ Len(y) = b + 1 /\ y[b + 1] = w /\ \A k \in 1..b : y[k] = s[k]
  <2>1. <<w>> \in Seq(Window) /\ Len(<<w>>) = 1 /\ <<w>>[1] = w
    OBVIOUS
  <2>2. /\ x \o <<w>> \in Seq(Window)
        /\ Len(x \o <<w>>) = b + 1
        /\ \A k \in 1..(b + 1) : (x \o <<w>>)[k] = IF k <= b THEN x[k] ELSE <<w>>[k - b]
    BY <1>2, <2>1, ConcatProperties DEF Lists
  <2>3. b \in Nat
    BY <1>0 DEF n
  <2> QED
    BY <1>2, <1>5, <2>1, <2>2, <2>3 DEF Lists
<1>7. PICK r : r = y \o z
  OBVIOUS
<1>8. /\ r \in Lists /\ Len(r) = b + 1 + (n + 1 - t)
      /\ \A k \in 1..(b + 1 + (n + 1 - t)) : r[k] = IF k <= b + 1 THEN y[k] ELSE z[k - (b + 1)]
  <2>1. y \in Seq(Window) /\ z \in Seq(Window)
    BY <1>4, <1>6 DEF Lists
  <2>2. /\ y \o z \in Seq(Window)
        /\ Len(y \o z) = Len(y) + Len(z)
        /\ \A k \in 1..(Len(y) + Len(z)) : (y \o z)[k] = IF k <= Len(y) THEN y[k]
                                                        ELSE z[k - Len(y)]
    BY <2>1, ConcatProperties
  <2> QED
    BY <1>4, <1>6, <1>7, <2>2 DEF Lists
<1>9. b \in 0..n /\ t \in (b + 1)..(n + 1)
  BY DEF n
<1>10. r[b + 1] = w /\ \A k \in 1..b : r[k] = s[k]
  BY <1>0, <1>6, <1>8, <1>9
<1>11. ASSUME NEW k \in t..n PROVE r[k - t + b + 2] = s[k]
  <2>1. PICK m : m = k - t + b + 2
    OBVIOUS
  <2>2. m \in 1..(b + 1 + (n + 1 - t)) /\ ~(m <= b + 1) /\ m - (b + 1) \in 1..(n + 1 - t)
        /\ t + (m - (b + 1)) - 1 = k
    BY <1>0, <1>9, <2>1
  <2>3. r[m] = z[m - (b + 1)]
    BY <1>8, <2>2
  <2>4. z[m - (b + 1)] = s[t + (m - (b + 1)) - 1]
    BY <1>4, <2>2
  <2> QED
    BY <2>1, <2>2, <2>3, <2>4
<1>12. b + 1 + (n + 1 - t) = n + b + 2 - t
  BY <1>0, <1>9
<1>13. r = Joined(s, b, w, t)
  BY <1>1, <1>3, <1>5, <1>7 DEF Joined, n
<1> QED
  BY <1>8, <1>10, <1>11, <1>12, <1>13 DEF n

(***************************************************************************)
(* The list stays neat when the window fits between its neighbours.        *)
(***************************************************************************)
LEMMA JoinedNeat ==
  ASSUME NEW s, Neat(s), NEW b \in 0..Len(s), NEW t \in (b + 1)..(Len(s) + 1),
         NEW w \in Window, w.D <= w.U,
         b >= 1 => s[b].U < w.D, t <= Len(s) => w.U < s[t].D
  PROVE  Neat(Joined(s, b, w, t))
<1> DEFINE n == Len(s)
<1>0. /\ s \in Lists /\ n \in Nat /\ b \in 0..n /\ t \in (b + 1)..(n + 1)
      /\ \A k \in 1..n : s[k].D \in Int /\ s[k].U \in Int
      /\ w.D \in Int /\ w.U \in Int
      /\ \A k \in 1..n : s[k].D <= s[k].U
      /\ \A k, l \in 1..n : k < l => s[k].U < s[l].D
      /\ (b >= 1 => s[b].U < w.D) /\ (t <= n => w.U < s[t].D)
  BY Listed DEF Neat, Window
<1>1. PICK r : r = Joined(s, b, w, t)
  OBVIOUS
<1>2. /\ r \in Lists /\ Len(r) = n + b + 2 - t
      /\ r[b + 1] = w
      /\ \A k \in 1..b : r[k] = s[k]
      /\ \A k \in t..n : r[k - t + b + 2] = s[k]
  BY <1>0, <1>1, JoinedIs
<1> HIDE DEF n
<1>3. ASSUME NEW k \in 1..Len(r), k > b + 1
      PROVE  \E l \in t..n : l = k + t - b - 2 /\ r[k] = s[l]
  <2>1. k + t - b - 2 \in t..n /\ (k + t - b - 2) - t + b + 2 = k
    <3>1. n \in Int /\ b \in Int /\ t \in Int /\ k \in Int /\ k <= n + b + 2 - t /\ k >= b + 2
      BY <1>0, <1>2, <1>3
    <3> QED
      BY <3>1
  <2>2. r[(k + t - b - 2) - t + b + 2] = s[k + t - b - 2]
    BY <1>2, <2>1
  <2> QED
    BY <2>1, <2>2
<1>4. \A k \in 1..b : s[k].U < w.D
  <2>1. ASSUME NEW k \in 1..b PROVE s[k].U < w.D
    <3>1. k \in 1..n /\ b \in 1..n /\ b >= 1
      BY <1>0
    <3>2. s[b].D <= s[b].U /\ s[b].U < w.D
      BY <1>0, <3>1
    <3>3. k = b \/ s[k].U < s[b].D
      BY <1>0, <3>1
    <3> QED
      BY <1>0, <3>1, <3>2, <3>3
  <2> QED
    BY <2>1
<1>5. ASSUME NEW k \in t..n PROVE w.U < s[k].D
  <2>1. k \in 1..n /\ t \in 1..n /\ t <= n
    BY <1>0
  <2>2. w.U < s[t].D /\ s[t].D <= s[t].U
    BY <1>0, <2>1
  <2>3. k = t \/ s[t].U < s[k].D
    BY <1>0, <2>1
  <2> QED
    BY <1>0, <2>1, <2>2, <2>3
<1>6. ASSUME NEW k \in 1..Len(r) PROVE r[k].D <= r[k].U
  <2>1. CASE k <= b
    BY <1>0, <1>2, <2>1
  <2>2. CASE k = b + 1
    BY <1>2, <2>2
  <2>3. CASE k > b + 1
    <3>1. PICK l \in t..n : r[k] = s[l]
      BY <1>3, <2>3
    <3> QED
      BY <1>0, <3>1
  <2>4. k \in Int /\ b \in Int
    BY <1>0
  <2> QED
    BY <2>1, <2>2, <2>3, <2>4
<1>7. ASSUME NEW k \in 1..Len(r), NEW l \in 1..Len(r), k < l PROVE r[k].U < r[l].D
  <2>0. k \in Int /\ l \in Int /\ b \in Int
    BY <1>0
  <2>1. CASE l <= b
    <3>1. k \in 1..b /\ l \in 1..b /\ k \in 1..n /\ l \in 1..n
      BY <1>0, <1>7, <2>1
    <3> QED
      BY <1>0, <1>2, <1>7, <3>1
  <2>2. CASE l = b + 1
    <3>1. k \in 1..b
      BY <1>0, <1>7, <2>2
    <3> QED
      BY <1>2, <1>4, <2>2, <3>1
  <2>3. CASE l > b + 1
    <3>1. PICK y \in t..n : y = l + t - b - 2 /\ r[l] = s[y]
      BY <1>3, <2>3
    <3>2. w.U < s[y].D /\ y \in 1..n
      BY <1>0, <1>5
    <3>3. CASE k <= b
      <4>1. k \in 1..b /\ k \in 1..n
        BY <1>0, <3>3
      <4>2. s[k].U < w.D /\ r[k] = s[k]
        BY <1>2, <1>4, <4>1
      <4>3. s[k].U \in Int /\ s[y].D \in Int
        BY <1>0, <3>2, <4>1
      <4> QED
        BY <1>0, <3>1, <3>2, <4>2, <4>3
    <3>4. CASE k = b + 1
      BY <1>2, <3>1, <3>2, <3>4
    <3>5. CASE k > b + 1
      <4>1. PICK x \in t..n : x = k + t - b - 2 /\ r[k] = s[x]
        BY <1>3, <3>5
      <4>2. x < y /\ x \in 1..n
        BY <1>0, <1>7, <3>1, <4>1
      <4> QED
        BY <1>0, <3>1, <3>2, <4>1, <4>2
    <3> QED
      BY <2>0, <3>3, <3>4, <3>5
  <2> QED
    BY <2>0, <2>1, <2>2, <2>3
<1> QED
  BY <1>1, <1>2, <1>6, <1>7 DEF Neat

(***************************************************************************)
(* Its dates are those of the window and of the windows left.              *)
(***************************************************************************)
LEMMA JoinedDates ==
  ASSUME NEW s \in Lists, NEW b \in 0..Len(s), NEW t \in (b + 1)..(Len(s) + 1),
         NEW w \in Window, NEW x \in Int
  PROVE  x \in Dates(Joined(s, b, w, t)) <=> \/ Within(x, w)
                                             \/ \E k \in 1..b : Within(x, s[k])
                                             \/ \E k \in t..Len(s) : Within(x, s[k])
<1> DEFINE n == Len(s)
<1>0. n \in Nat /\ b \in 0..n /\ t \in (b + 1)..(n + 1)
  BY Listed
<1>1. PICK r : r = Joined(s, b, w, t)
  OBVIOUS
<1>2. /\ r \in Lists /\ Len(r) = n + b + 2 - t
      /\ r[b + 1] = w
      /\ \A k \in 1..b : r[k] = s[k]
      /\ \A k \in t..n : r[k - t + b + 2] = s[k]
  BY <1>0, <1>1, JoinedIs
<1> HIDE DEF n
<1>3. x \in Dates(r) <=> \E k \in 1..Len(r) : Within(x, r[k])
  BY <1>2, DatesAre
<1>4. ASSUME NEW k \in 1..Len(r), Within(x, r[k])
      PROVE  Within(x, w) \/ (\E l \in 1..b : Within(x, s[l])) \/ (\E l \in t..n : Within(x, s[l]))
  <2>1. CASE k <= b
    <3>1. k \in 1..b
      BY <1>0, <2>1
    <3> QED
      BY <1>2, <1>4, <3>1
  <2>2. CASE k = b + 1
    BY <1>2, <1>4, <2>2
  <2>3. CASE k > b + 1
    <3>1. k + t - b - 2 \in t..n /\ (k + t - b - 2) - t + b + 2 = k
      BY <1>0, <1>2, <2>3
    <3>2. r[(k + t - b - 2) - t + b + 2] = s[k + t - b - 2]
      BY <1>2, <3>1
    <3> QED
      BY <1>4, <3>1, <3>2
  <2>4. k \in Int /\ b \in Int
    BY <1>0
  <2> QED
    BY <2>1, <2>2, <2>3, <2>4
<1>5. Within(x, w) => \E k \in 1..Len(r) : Within(x, r[k])
  <2>1. b + 1 \in 1..Len(r)
    BY <1>0, <1>2
  <2> QED
    BY <1>2, <2>1
<1>6. ASSUME NEW k \in 1..b, Within(x, s[k]) PROVE \E l \in 1..Len(r) : Within(x, r[l])
  <2>1. k \in 1..Len(r)
    BY <1>0, <1>2
  <2> QED
    BY <1>2, <1>6, <2>1
<1>7. ASSUME NEW k \in t..n, Within(x, s[k]) PROVE \E l \in 1..Len(r) : Within(x, r[l])
  <2>1. k - t + b + 2 \in 1..Len(r)
    BY <1>0, <1>2
  <2> QED
    BY <1>2, <1>7, <2>1
<1>8. x \in Dates(r) <=> \/ Within(x, w)
                         \/ \E k \in 1..b : Within(x, s[k])
                         \/ \E k \in t..n : Within(x, s[k])
  BY <1>3, <1>4, <1>5, <1>6, <1>7
<1> QED
  BY <1>1, <1>8 DEF n

-----------------------------------------------------------------------------
LEMMA FirstIs ==
  ASSUME NEW n \in Nat, NEW S, S \subseteq 1..n
  PROVE  /\ First(S, n + 1) \in 1..(n + 1)
         /\ \A k \in S : First(S, n + 1) <= k
         /\ First(S, n + 1) <= n => First(S, n + 1) \in S
<1>1. CASE S = {}
  BY <1>1 DEF First
<1>2. CASE S # {}
  <2>1. S \subseteq Nat
    OBVIOUS
  <2>2. \E x \in S : \A y \in S : x <= y
    BY <1>2, <2>1, Least
  <2>3. PICK f : f = First(S, n + 1)
    OBVIOUS
  <2>4. f \in S /\ \A k \in S : f <= k
    BY <1>2, <2>2, <2>3 DEF First
  <2>5. f \in 1..(n + 1)
    BY <2>4
  <2> QED
    BY <2>3, <2>4, <2>5
<1> QED
  BY <1>1, <1>2

(***************************************************************************)
(* The ends of stb_globalstbpair are those of windows of the list.         *)
(***************************************************************************)
LEMMA HullIs ==
  ASSUME NEW list \in Lists, list # <<>>
  PROVE  \E d, u \in Int :
            /\ \E k \in 1..Len(list) : list[k].D = d
            /\ \E k \in 1..Len(list) : list[k].U = u
            /\ \A k \in 1..Len(list) : d <= list[k].D /\ list[k].U <= u
            /\ Hull(list) = Pair(IF d > u THEN u ELSE d, u)
<1> DEFINE n == Len(list)
           SD == {p.D : p \in ToSet(list)}
           SU == {p.U : p \in ToSet(list)}
<1>0. /\ n \in Nat /\ n # 0 /\ DOMAIN list = 1..n
      /\ \A k \in 1..n : list[k].D \in Int /\ list[k].U \in Int
  BY Listed
<1> HIDE DEF n
<1>1. /\ \A k \in 1..n : list[k].D \in SD /\ list[k].U \in SU
      /\ \A x \in SD : \E k \in 1..n : list[k].D = x
      /\ \A x \in SU : \E k \in 1..n : list[k].U = x
  BY <1>0 DEF ToSet
<1> HIDE DEF SD, SU
<1>2. SD \subseteq Int /\ SU \subseteq Int /\ SD # {} /\ SU # {}
  <2>1. 1 \in 1..n
    BY <1>0
  <2> QED
    BY <1>0, <1>1, <2>1
<1>3. PICK lo, lohi \in Int : \A k \in 1..n : lo <= list[k].D
  <2> DEFINE f == [k \in 1..n |-> list[k].D]
  <2>1. \A k \in 1..n : f[k] \in Int
    BY <1>0
  <2> HIDE DEF f
  <2>2. \E x, y \in Int : \A k \in 1..n : x <= f[k] /\ f[k] <= y
    BY <1>0, <2>1, Bounded
  <2> QED
    BY <2>2 DEF f
<1>4. PICK hi \in Int : \A k \in 1..n : list[k].U <= hi
  <2> DEFINE f == [k \in 1..n |-> list[k].U]
  <2>1. \A k \in 1..n : f[k] \in Int
    BY <1>0
  <2> HIDE DEF f
  <2>2. \E x, y \in Int : \A k \in 1..n : x <= f[k] /\ f[k] <= y
    BY <1>0, <2>1, Bounded
  <2> QED
    BY <2>2 DEF f
<1>5. \A x \in SD : lo <= x
  BY <1>1, <1>3
<1>6. \A x \in SU : x <= hi
  BY <1>1, <1>4
<1>7. PICK d : d = Smallest(SD)
  OBVIOUS
<1>8. d \in SD /\ \A x \in SD : d <= x
  BY <1>2, <1>5, <1>7, SmallestIs
<1>9. PICK u : u = Largest(SU)
  OBVIOUS
<1>10. u \in SU /\ \A x \in SU : x <= u
  BY <1>2, <1>6, <1>9, LargestIs
<1>11. Hull(list) = Pair(IF d > u THEN u ELSE d, u)
  BY <1>7, <1>9 DEF Hull, SD, SU
<1>12. d \in Int /\ u \in Int
  BY <1>2, <1>8, <1>10
<1>13. /\ \E k \in 1..n : list[k].D = d
       /\ \E k \in 1..n : list[k].U = u
       /\ \A k \in 1..n : d <= list[k].D /\ list[k].U <= u
  BY <1>1, <1>8, <1>10
<1> QED
  BY <1>11, <1>12, <1>13 DEF n

LEMMA HullType ==
  ASSUME NEW list \in Lists, list # <<>>
  PROVE  /\ Hull(list) \in Window /\ Hull(list).D <= Hull(list).U
<1>1. PICK d, u \in Int : Hull(list) = Pair(IF d > u THEN u ELSE d, u)
  BY HullIs
<1>2. PICK x \in Int : x = (IF d > u THEN u ELSE d) /\ x <= u
  OBVIOUS
<1>3. Hull(list) = [D |-> x, U |-> u]
  BY <1>1, <1>2 DEF Pair
<1> QED
  BY <1>2, <1>3 DEF Window

-----------------------------------------------------------------------------
(***************************************************************************)
(* stb_mergestbpairlist.                                                   *)
(***************************************************************************)
Met(list, elm, b, t) == <<elm>> \o SubSeq(list, b + 1, t - 1)

LEMMA MetIs ==
  ASSUME NEW s \in Lists, NEW b \in 0..Len(s), NEW t \in (b + 1)..(Len(s) + 1), NEW elm \in Window
  PROVE  LET q == Met(s, elm, b, t)
         IN  /\ q \in Lists /\ Len(q) = t - b /\ q # <<>> /\ q[1] = elm
             /\ \A k \in 2..(t - b) : q[k] = s[b + k - 1]
<1> DEFINE n == Len(s)
<1>0. n \in Nat /\ b \in 0..n /\ t \in (b + 1)..(n + 1) /\ \A k \in 1..n : s[k] \in Window
  BY Listed
<1>1. PICK z : z = SubSeq(s, b + 1, t - 1)
  OBVIOUS
<1>2. z \in Lists /\ Len(z) = t - 1 - b /\ \A k \in 1..(t - 1 - b) : z[k] = s[b + k]
  <2>1. \A k \in (b + 1)..(t - 1) : s[k] \in Window
    BY <1>0
  <2>2. b + 1 \in Int /\ t - 1 \in Int
    BY <1>0
  <2>3. /\ z \in Seq(Window)
        /\ Len(z) = IF b + 1 <= t - 1 THEN (t - 1) - (b + 1) + 1 ELSE 0
        /\ \A k \in 1..((t - 1) - (b + 1) + 1) : z[k] = s[(b + 1) + k - 1]
    BY <1>1, <2>1, <2>2, SubSeqProperties
  <2> QED
    BY <1>0, <2>3 DEF Lists
<1>3. PICK q : q = <<elm>> \o z
  OBVIOUS
<1>4. /\ q \in Lists /\ Len(q) = t - b /\ q[1] = elm
      /\ \A k \in 2..(t - b) : q[k] = s[b + k - 1]
  <2>1. <<elm>> \in Seq(Window) /\ Len(<<elm>>) = 1 /\ <<elm>>[1] = elm /\ z \in Seq(Window)
    BY <1>2 DEF Lists
  <2>2. /\ <<elm>> \o z \in Seq(Window)
        /\ Len(<<elm>> \o z) = Len(<<elm>>) + Len(z)
        /\ \A k \in 1..(Len(<<elm>>) + Len(z)) :
              (<<elm>> \o z)[k] = IF k <= Len(<<elm>>) THEN <<elm>>[k] ELSE z[k - Len(<<elm>>)]
    BY <2>1, ConcatProperties
  <2>3. /\ q \in Seq(Window) /\ Len(q) = 1 + (t - 1 - b)
        /\ \A k \in 1..(1 + (t - 1 - b)) : q[k] = IF k <= 1 THEN <<elm>>[k] ELSE z[k - 1]
    BY <1>2, <1>3, <2>1, <2>2
  <2>4. ASSUME NEW k \in 2..(t - b) PROVE q[k] = s[b + k - 1]
    <3>1. /\ k - 1 \in 1..(t - 1 - b) /\ k \in 1..(1 + (t - 1 - b)) /\ ~(k <= 1)
          /\ b + (k - 1) = b + k - 1
      BY <1>0
    <3> QED
      BY <1>2, <2>3, <3>1
  <2>5. q[1] = elm
    <3>1. 1 \in 1..(1 + (t - 1 - b))
      BY <1>0
    <3> QED
      BY <2>1, <2>3, <3>1
  <2>6. Len(q) = t - b
    BY <1>0, <2>3
  <2> QED
    BY <2>3, <2>4, <2>5, <2>6 DEF Lists
<1>5. q # <<>>
  <2>1. Len(q) # 0
    BY <1>0, <1>4
  <2> QED
    BY <1>4, <2>1, Listed
<1>6. q = Met(s, elm, b, t)
  BY <1>1, <1>3 DEF Met
<1> QED
  BY <1>4, <1>5, <1>6

(***************************************************************************)
(* Where the list is cut.                                                  *)
(***************************************************************************)
LEMMA PlacesOf ==
  ASSUME NEW s \in Lists, NEW elm \in Window
  PROVE  /\ Before(s, elm) \in 0..Len(s) /\ After(s, elm) \in 1..(Len(s) + 1)
         /\ \A k \in 1..Len(s) : k <= Before(s, elm) => s[k].U < elm.D
         /\ \A k \in 1..Len(s) : k < After(s, elm) => elm.U >= s[k].D
         /\ Before(s, elm) < Len(s) => ~(s[Before(s, elm) + 1].U < elm.D)
         /\ After(s, elm) <= Len(s) => ~(elm.U >= s[After(s, elm)].D)
<1> DEFINE n == Len(s)
           S == {k \in DOMAIN s : ~(s[k].U < elm.D)}
           T == {k \in DOMAIN s : ~(elm.U >= s[k].D)}
<1>0. n \in Nat /\ DOMAIN s = 1..n
  BY Listed
<1>1. S \subseteq 1..n /\ T \subseteq 1..n
  BY <1>0
<1>2. PICK f : f = First(S, n + 1)
  OBVIOUS
<1>3. PICK g : g = First(T, n + 1)
  OBVIOUS
<1>4. Before(s, elm) = f - 1 /\ After(s, elm) = g
  BY <1>2, <1>3 DEF Before, After
<1> HIDE DEF n, S, T
<1>5. f \in 1..(n + 1) /\ (\A k \in S : f <= k) /\ (f <= n => f \in S)
  BY <1>0, <1>1, <1>2, FirstIs
<1>6. g \in 1..(n + 1) /\ (\A k \in T : g <= k) /\ (g <= n => g \in T)
  BY <1>0, <1>1, <1>3, FirstIs
<1>7. ASSUME NEW k \in 1..n, k <= f - 1 PROVE s[k].U < elm.D
  <2>1. k \notin S
    BY <1>5, <1>7
  <2> QED
    BY <1>0, <2>1 DEF S
<1>8. ASSUME NEW k \in 1..n, k < g PROVE elm.U >= s[k].D
  <2>1. k \notin T
    BY <1>6, <1>8
  <2> QED
    BY <1>0, <2>1 DEF T
<1>9. f - 1 < n => ~(s[(f - 1) + 1].U < elm.D)
  <2>1. f - 1 < n => f <= n
    BY <1>0, <1>5
  <2>2. (f - 1) + 1 = f
    BY <1>5
  <2> QED
    BY <1>5, <2>1, <2>2 DEF S
<1>10. g <= n => ~(elm.U >= s[g].D)
  BY <1>6 DEF T
<1>11. f - 1 \in 0..n
  BY <1>0, <1>5
<1> QED
  BY <1>4, <1>6, <1>7, <1>8, <1>9, <1>10, <1>11 DEF n

(***************************************************************************)
(* What Insert does with the places.                                       *)
(***************************************************************************)
LEMMA InsertGives ==
  ASSUME NEW m \in Accs, NEW elm \in Window
  PROVE  LET b == Before(m.list, elm)
             t == After(m.list, elm)
         IN  /\ Insert(m, elm) \in Accs
             /\ m.ok /\ b < t =>
                  /\ Insert(m, elm).ok
                  /\ Insert(m, elm).list = Joined(m.list, b, Hull(Met(m.list, elm, b, t)), t)
<1>0. m.list \in Lists /\ m.ok \in BOOLEAN
  BY DEF Accs
<1>1. PICK b : b = Before(m.list, elm)
  OBVIOUS
<1>2. PICK t : t = After(m.list, elm)
  OBVIOUS
<1>3. b \in 0..Len(m.list) /\ t \in 1..(Len(m.list) + 1)
  BY <1>0, <1>1, <1>2, PlacesOf
<1>4. CASE ~m.ok \/ t <= b
  <2>1. Insert(m, elm) = [m EXCEPT !.ok = FALSE]
    BY <1>1, <1>2, <1>4 DEF Insert
  <2>2. Insert(m, elm) \in Accs
    BY <2>1 DEF Accs
  <2> QED
    BY <1>1, <1>2, <1>3, <1>4, <2>2
<1>5. CASE ~(~m.ok \/ t <= b)
  <2>1. PICK h : h = Hull(Met(m.list, elm, b, t))
    OBVIOUS
  <2>2. Insert(m, elm) = [m EXCEPT !.list = Joined(m.list, b, h, t)]
    BY <1>1, <1>2, <1>5, <2>1 DEF Insert, Joined, Met
  <2>3. t \in (b + 1)..(Len(m.list) + 1)
    BY <1>3, <1>5
  <2>4. h \in Window
    <3>1. PICK q : q = Met(m.list, elm, b, t)
      OBVIOUS
    <3>2. q \in Lists /\ q # <<>>
      BY <1>0, <1>3, <2>3, <3>1, MetIs
    <3>3. Hull(q) \in Window
      BY <3>2, HullType
    <3> QED
      BY <2>1, <3>1, <3>3
  <2>5. Joined(m.list, b, h, t) \in Lists
    BY <1>0, <1>3, <2>3, <2>4, JoinedIs
  <2>6. /\ Insert(m, elm) \in Accs /\ Insert(m, elm).ok
        /\ Insert(m, elm).list = Joined(m.list, b, h, t)
    BY <1>5, <2>2, <2>5 DEF Accs
  <2> QED
    BY <1>1, <1>2, <2>1, <2>6
<1> QED
  BY <1>4, <1>5

(***************************************************************************)
(* A window put into windows in order leaves them in order, and adds its   *)
(* own dates only.                                                         *)
(***************************************************************************)
LEMMA InsertKeeps ==
  ASSUME NEW m \in Accs, m.ok, Neat(m.list), NEW elm \in Window, elm.D <= elm.U
  PROVE  LET r == Insert(m, elm)
         IN  /\ r \in Accs /\ r.ok /\ Neat(r.list) /\ r.list # <<>>
             /\ \A x \in Int : x \in Dates(r.list) <=> x \in Dates(m.list) \/ Within(x, elm)
<1>1. PICK s : s = m.list
  OBVIOUS
<1>2. PICK n : n = Len(s)
  OBVIOUS
<1>3. /\ s \in Lists /\ n \in Nat
      /\ \A k \in 1..n : s[k].D \in Int /\ s[k].U \in Int
      /\ elm.D \in Int /\ elm.U \in Int
      /\ \A k \in 1..n : s[k].D <= s[k].U
      /\ \A k, l \in 1..n : k < l => s[k].U < s[l].D
  BY <1>1, <1>2, Listed DEF Neat, Window
<1>4. PICK b : b = Before(s, elm)
  OBVIOUS
<1>5. PICK t : t = After(s, elm)
  OBVIOUS
<1>6. /\ b \in 0..n /\ t \in 1..(n + 1)
      /\ \A k \in 1..n : k <= b => s[k].U < elm.D
      /\ \A k \in 1..n : k < t => elm.U >= s[k].D
      /\ b < n => ~(s[b + 1].U < elm.D)
      /\ t <= n => ~(elm.U >= s[t].D)
  BY <1>2, <1>3, <1>4, <1>5, PlacesOf
<1>7. b < t
  <2> SUFFICES ASSUME t <= b PROVE FALSE
    BY <1>3, <1>6
  <2>1. t \in 1..n /\ t <= n
    BY <1>3, <1>6
  <2>2. s[t].U < elm.D /\ ~(elm.U >= s[t].D) /\ s[t].D <= s[t].U
    BY <1>3, <1>6, <2>1
  <2> QED
    BY <1>3, <2>1, <2>2
<1>8. t \in (b + 1)..(n + 1)
  BY <1>3, <1>6, <1>7
<1>9. PICK q : q = Met(s, elm, b, t)
  OBVIOUS
<1>10. /\ q \in Lists /\ Len(q) = t - b /\ q # <<>> /\ q[1] = elm
       /\ \A k \in 2..(t - b) : q[k] = s[b + k - 1]
  <2>1. b \in 0..Len(s) /\ t \in (b + 1)..(Len(s) + 1)
    BY <1>2, <1>6, <1>8
  <2> QED
    BY <1>3, <1>9, <2>1, MetIs
<1>11. PICK d, u \in Int :
         /\ \E k \in 1..Len(q) : q[k].D = d
         /\ \E k \in 1..Len(q) : q[k].U = u
         /\ \A k \in 1..Len(q) : d <= q[k].D /\ q[k].U <= u
         /\ Hull(q) = Pair(IF d > u THEN u ELSE d, u)
  BY <1>10, HullIs
<1>12. d <= elm.D /\ elm.U <= u
  <2>1. 1 \in 1..Len(q)
    BY <1>8, <1>10, <1>6
  <2> QED
    BY <1>10, <1>11, <2>1
<1>13. ASSUME NEW l \in (b + 1)..(t - 1)
       PROVE  /\ l \in 1..n /\ d <= s[l].D /\ s[l].U <= u
              /\ elm.D <= s[l].U /\ s[l].D <= elm.U
  <2>1. l \in 1..n /\ b + 1 \in 1..n /\ l < t /\ b < n
    BY <1>3, <1>6, <1>8
  <2>2. l + 1 - b \in 2..(t - b) /\ l + 1 - b \in 1..Len(q) /\ b + (l + 1 - b) - 1 = l
    BY <1>3, <1>6, <1>8, <1>10
  <2>3. q[l + 1 - b] = s[l]
    BY <1>10, <2>2
  <2>4. d <= s[l].D /\ s[l].U <= u
    BY <1>11, <2>2, <2>3
  <2>5. ~(s[b + 1].U < elm.D) /\ elm.U >= s[l].D
    BY <1>6, <2>1
  <2>6. elm.D <= s[l].U
    <3>1. l = b + 1 \/ s[b + 1].U < s[l].D
      BY <1>3, <1>6, <2>1
    <3>2. s[l].D <= s[l].U
      BY <1>3, <2>1
    <3> QED
      BY <1>3, <2>1, <2>5, <3>1, <3>2
  <2> QED
    BY <1>3, <2>1, <2>4, <2>5, <2>6
<1>14. ASSUME NEW k \in 1..Len(q) PROVE q[k] = elm \/ \E l \in (b + 1)..(t - 1) : q[k] = s[l]
  <2>1. CASE k = 1
    BY <1>10, <2>1
  <2>2. CASE k # 1
    <3>1. k \in 2..(t - b) /\ b + k - 1 \in (b + 1)..(t - 1)
      BY <1>6, <1>8, <1>10, <2>2
    <3> QED
      BY <1>10, <3>1
  <2> QED
    BY <2>1, <2>2
<1>15. PICK h : h = Hull(q)
  OBVIOUS
<1>16. h = Pair(d, u) /\ h \in Window /\ h.D = d /\ h.U = u /\ d <= u
  <2>1. d <= u
    BY <1>3, <1>12
  <2>2. (IF d > u THEN u ELSE d) = d
    BY <2>1
  <2> QED
    BY <1>11, <1>15, <2>1, <2>2 DEF Pair, Window
<1>17. \A x \in Int : Within(x, h) <=> \/ Within(x, elm)
                                       \/ \E l \in (b + 1)..(t - 1) : Within(x, s[l])
  <2>1. ASSUME NEW x \in Int, Within(x, elm) PROVE Within(x, h)
    BY <1>3, <1>12, <1>16, <2>1 DEF Within
  <2>2. ASSUME NEW x \in Int, NEW l \in (b + 1)..(t - 1), Within(x, s[l]) PROVE Within(x, h)
    <3>1. d <= s[l].D /\ s[l].U <= u /\ s[l].D \in Int /\ s[l].U \in Int
      BY <1>3, <1>13
    <3> QED
      BY <1>16, <2>2, <3>1 DEF Within
  <2>3. ASSUME NEW x \in Int, Within(x, h), ~Within(x, elm)
        PROVE  \E l \in (b + 1)..(t - 1) : Within(x, s[l])
    <3>1. d <= x /\ x <= u
      BY <1>16, <2>3 DEF Within
    <3>2. CASE x < elm.D
      <4>1. PICK k \in 1..Len(q) : q[k].D = d
        BY <1>11
      <4>2. q[k] # elm
        BY <1>3, <3>1, <3>2, <4>1
      <4>3. PICK l \in (b + 1)..(t - 1) : q[k] = s[l]
        BY <1>14, <4>2
      <4>4. elm.D <= s[l].U /\ s[l].U \in Int /\ s[l].D = d
        BY <1>3, <1>13, <4>1, <4>3
      <4>5. Within(x, s[l])
        BY <1>3, <3>1, <3>2, <4>4 DEF Within
      <4> QED
        BY <4>5
    <3>3. CASE elm.U < x
      <4>1. PICK k \in 1..Len(q) : q[k].U = u
        BY <1>11
      <4>2. q[k] # elm
        BY <1>3, <3>1, <3>3, <4>1
      <4>3. PICK l \in (b + 1)..(t - 1) : q[k] = s[l]
        BY <1>14, <4>2
      <4>4. s[l].D <= elm.U /\ s[l].D \in Int /\ s[l].U = u
        BY <1>3, <1>13, <4>1, <4>3
      <4>5. Within(x, s[l])
        BY <1>3, <3>1, <3>3, <4>4 DEF Within
      <4> QED
        BY <4>5
    <3> QED
      BY <1>3, <2>3, <3>2, <3>3 DEF Within
  <2> QED
    BY <2>1, <2>2, <2>3
<1>18. b >= 1 => s[b].U < h.D
  <2> SUFFICES ASSUME b >= 1 PROVE s[b].U < d
    BY <1>16
  <2>1. b \in 1..n /\ s[b].U < elm.D /\ s[b].U \in Int
    BY <1>3, <1>6
  <2>2. PICK k \in 1..Len(q) : q[k].D = d
    BY <1>11
  <2>3. CASE q[k] = elm
    BY <2>1, <2>2, <2>3
  <2>4. ASSUME NEW l \in (b + 1)..(t - 1), q[k] = s[l] PROVE s[b].U < d
    <3>1. l \in 1..n /\ b < l
      BY <1>6, <1>13
    <3> QED
      BY <1>3, <2>1, <2>2, <2>4, <3>1
  <2> QED
    BY <1>14, <2>3, <2>4
<1>19. t <= n => h.U < s[t].D
  <2> SUFFICES ASSUME t <= n PROVE u < s[t].D
    BY <1>16
  <2>1. t \in 1..n /\ elm.U < s[t].D /\ s[t].D \in Int
    BY <1>3, <1>6
  <2>2. PICK k \in 1..Len(q) : q[k].U = u
    BY <1>11
  <2>3. CASE q[k] = elm
    BY <2>1, <2>2, <2>3
  <2>4. ASSUME NEW l \in (b + 1)..(t - 1), q[k] = s[l] PROVE u < s[t].D
    <3>1. l \in 1..n /\ l < t
      BY <1>6, <1>13
    <3> QED
      BY <1>3, <2>1, <2>2, <2>4, <3>1
  <2> QED
    BY <1>14, <2>3, <2>4
<1>20. PICK r : r = Insert(m, elm)
  OBVIOUS
<1>21. r \in Accs /\ r.ok /\ r.list = Joined(s, b, h, t)
  BY <1>1, <1>4, <1>5, <1>7, <1>9, <1>15, <1>20, InsertGives
<1>22. Neat(r.list)
  <2>1. Neat(s) /\ h.D <= h.U
    BY <1>1, <1>16
  <2>2. Neat(Joined(s, b, h, t))
    BY <1>2, <1>6, <1>8, <1>16, <1>18, <1>19, <2>1, JoinedNeat
  <2> QED
    BY <1>21, <2>2
<1>23. r.list # <<>>
  <2>1. Len(r.list) = n + b + 2 - t
    BY <1>2, <1>3, <1>6, <1>8, <1>16, <1>21, JoinedIs
  <2>2. Len(r.list) # 0 /\ r.list \in Lists
    BY <1>3, <1>6, <1>8, <1>22, <2>1 DEF Neat
  <2> QED
    BY <2>2, Listed
<1>24. ASSUME NEW x \in Int
       PROVE  x \in Dates(r.list) <=> x \in Dates(m.list) \/ Within(x, elm)
  <2>1. x \in Dates(r.list) <=> \/ Within(x, h)
                                \/ \E k \in 1..b : Within(x, s[k])
                                \/ \E k \in t..n : Within(x, s[k])
    <3>1. b \in 0..Len(s) /\ t \in (b + 1)..(Len(s) + 1) /\ h \in Window /\ s \in Lists
      BY <1>2, <1>3, <1>6, <1>8, <1>16
    <3>2. x \in Dates(Joined(s, b, h, t)) <=> \/ Within(x, h)
                                              \/ \E k \in 1..b : Within(x, s[k])
                                              \/ \E k \in t..Len(s) : Within(x, s[k])
      BY <3>1, JoinedDates
    <3> QED
      BY <1>2, <1>21, <3>2
  <2>2. x \in Dates(s) <=> \E k \in 1..n : Within(x, s[k])
    BY <1>2, <1>3, DatesAre
  <2>3. \A k : k \in 1..n <=> k \in 1..b \/ k \in (b + 1)..(t - 1) \/ k \in t..n
    BY <1>3, <1>6, <1>8
  <2> QED
    BY <1>1, <1>17, <2>1, <2>2, <2>3
<1> QED
  BY <1>20, <1>21, <1>22, <1>23, <1>24

InsertGoes(list, m, h) ==
    h = [T \in SUBSET DOMAIN list |->
            IF T = {} THEN m ELSE Insert(h[T \ {Max(T)}], list[Max(T)])]

InsertOf(list, m) == CHOOSE h : InsertGoes(list, m, h)

(***************************************************************************)
(* FoldLeft(Insert, m, list) as a run of insertions.                       *)
(***************************************************************************)
LEMMA InsertFold ==
  ASSUME NEW list \in Lists, NEW m \in Accs
  PROVE  \E r \in [0..Len(list) -> Accs] :
            /\ r[0] = m /\ r[Len(list)] = FoldLeft(Insert, m, list)
            /\ \A k \in 1..Len(list) : r[k] = Insert(r[k - 1], list[k])
<1>1. PICK n \in Nat : n = Len(list) /\ DOMAIN list = 1..n /\ \A k \in 1..n : list[k] \in Window
  BY Listed
<1>2. PICK F : F = [x \in Accs \X (1..n) |-> Insert(x[1], list[x[2]])]
  OBVIOUS
<1>3. F \in [Accs \X (1..n) -> Accs]
  <2>1. \A x \in Accs \X (1..n) : Insert(x[1], list[x[2]]) \in Accs
    BY <1>1, InsertGives
  <2> QED
    BY <1>2, <2>1
<1>4. \A q \in Accs, k \in 1..n : F[<<q, k>>] = Insert(q, list[k])
  BY <1>2
<1>5. \E h : InsertGoes(list, m, h)
  <2>1. PICK g : FoldGoes(Accs, m, n, F, g)
    BY <1>3, FoldExists
  <2>2. g \in [SUBSET (1..n) -> Accs]
    BY <2>1 DEF FoldGoes
  <2>3. ASSUME NEW T \in SUBSET (1..n)
        PROVE  g[T] = IF T = {} THEN m ELSE Insert(g[T \ {Max(T)}], list[Max(T)])
    <3>1. CASE T = {}
      BY <2>1, <3>1 DEF FoldGoes
    <3>2. CASE T # {}
      <4>1. Max(T) \in 1..n
        BY <3>2, TopIs
      <4>2. g[T \ {Max(T)}] \in Accs
        BY <2>2
      <4> QED
        BY <1>4, <2>1, <3>2, <4>1, <4>2 DEF FoldGoes
    <3> QED
      BY <3>1, <3>2
  <2>4. InsertGoes(list, m, g)
    BY <1>1, <2>2, <2>3 DEF InsertGoes
  <2> QED
    BY <2>4
<1>6. PICK h : h = InsertOf(list, m)
  OBVIOUS
<1>7. InsertGoes(list, m, h)
  BY <1>5, <1>6 DEF InsertOf
<1>8. FoldLeft(Insert, m, list) = h[1..n]
  <2>1. FoldLeft(Insert, m, list) = InsertOf(list, m)[DOMAIN list]
    BY DEF FoldLeft, MapThenFoldSet, InsertOf, InsertGoes
  <2> QED
    BY <1>1, <1>6, <2>1
<1>9. \A T \in SUBSET (1..n) :
        h[T] = IF T = {} THEN m ELSE Insert(h[T \ {Max(T)}], list[Max(T)])
  BY <1>1, <1>7 DEF InsertGoes
<1>10. h[{}] = m
  BY <1>9
<1>11. ASSUME NEW T \in SUBSET (1..n), T # {}, h[T \ {Max(T)}] \in Accs
       PROVE  h[T] = F[<<h[T \ {Max(T)}], Max(T)>>]
  <2>1. Max(T) \in 1..n
    BY <1>11, TopIs
  <2> QED
    BY <1>4, <1>9, <1>11, <2>1
<1>12. PICK r : FoldRun(Accs, m, n, F, h, r)
  <2>1. FoldRuns(Accs, m, n, F, h)
    BY <1>10, <1>11 DEF FoldRuns
  <2>2. FoldOK(Accs, m, n, F)
    BY <1>3 DEF FoldOK
  <2> QED
    BY <2>1, <2>2, FoldSteps
<1>13. ASSUME NEW k \in 1..n PROVE r[k] = Insert(r[k - 1], list[k])
  <2>1. k - 1 \in 0..n
    OBVIOUS
  <2>2. r[k - 1] \in Accs
    BY <1>12, <2>1 DEF FoldRun
  <2> QED
    BY <1>4, <1>12, <2>2 DEF FoldRun
<1>14. r \in [0..n -> Accs] /\ r[0] = m /\ r[n] = h[1..n]
  BY <1>12 DEF FoldRun
<1> QED
  BY <1>1, <1>8, <1>13, <1>14

-----------------------------------------------------------------------------
(***************************************************************************)
(* What a merge holds: windows in order, whose dates are those of S.       *)
(***************************************************************************)
Holds(m, S) == m \in Accs /\ m.ok /\ Neat(m.list) /\ Dates(m.list) = S

Extent(w) == w.D..w.U

(***************************************************************************)
(* A window put into a neat list adds its dates.                           *)
(***************************************************************************)
LEMMA InsertHolds ==
  ASSUME NEW m, NEW S, Holds(m, S), NEW elm \in Window, elm.D <= elm.U
  PROVE  Holds(Insert(m, elm), S \cup Extent(elm))
<1>1. PICK r : r = Insert(m, elm)
  OBVIOUS
<1>2. /\ r \in Accs /\ r.ok /\ Neat(r.list)
      /\ \A x \in Int : x \in Dates(r.list) <=> x \in Dates(m.list) \/ Within(x, elm)
  BY <1>1, InsertKeeps DEF Holds
<1>3. Dates(r.list) \subseteq Int /\ Dates(m.list) \subseteq Int
  BY <1>2, DatesAre DEF Holds, Neat
<1>4. \A x : x \in Extent(elm) <=> x \in Int /\ Within(x, elm)
  BY DEF Extent, Within, Window
<1>5. Dates(r.list) = S \cup Extent(elm)
  BY <1>2, <1>3, <1>4 DEF Holds
<1> QED
  BY <1>1, <1>2, <1>5 DEF Holds

LEMMA MergeType ==
  ASSUME NEW list \in Lists, NEW m \in Accs
  PROVE  Merge(list, m) \in Accs
<1>1. CASE list = <<>>
  BY <1>1 DEF Merge
<1>2. CASE list # <<>> /\ m.list = <<>>
  BY <1>2 DEF Merge, Accs
<1>3. CASE list # <<>> /\ m.list # <<>>
  <2>1. FoldLeft(Insert, m, list) \in Accs
    <3>1. PICK n \in Nat : n = Len(list)
      BY Listed
    <3>2. PICK r \in [0..n -> Accs] : r[n] = FoldLeft(Insert, m, list)
      BY <3>1, InsertFold
    <3>3. n \in 0..n
      BY <3>1
    <3> QED
      BY <3>2, <3>3
  <2> QED
    BY <1>3, <2>1 DEF Merge
<1> QED
  BY <1>1, <1>2, <1>3

(***************************************************************************)
(* stb_mergestbpairlist of neat lists gives a neat list with the dates of  *)
(* both.                                                                   *)
(***************************************************************************)
LEMMA MergeHolds ==
  ASSUME NEW list, Neat(list), NEW m, NEW S, Holds(m, S)
  PROVE  Holds(Merge(list, m), S \cup Dates(list))
<1>0. list \in Lists /\ m \in Accs
  BY DEF Neat, Holds
<1>1. CASE list = <<>>
  <2>1. S \cup Dates(list) = S /\ Merge(list, m) = m
    BY <1>1, NoDates DEF Merge
  <2> QED
    BY <2>1
<1>2. CASE list # <<>> /\ m.list = <<>>
  <2>1. S = {} /\ Merge(list, m) = [m EXCEPT !.list = list]
    BY <1>2, NoDates DEF Merge, Holds
  <2>2. PICK r : r = [m EXCEPT !.list = list]
    OBVIOUS
  <2>3. r \in Accs /\ r.ok /\ r.list = list
    BY <1>0, <2>2 DEF Holds, Accs
  <2> QED
    BY <2>1, <2>2, <2>3 DEF Holds
<1>3. CASE list # <<>> /\ m.list # <<>>
  <2>1. PICK n \in Nat : n = Len(list) /\ DOMAIN list = 1..n /\ \A k \in 1..n : list[k] \in Window
    BY <1>0, Listed
  <2>2. PICK r \in [0..n -> Accs] : /\ r[0] = m /\ r[n] = FoldLeft(Insert, m, list)
                                    /\ \A k \in 1..n : r[k] = Insert(r[k - 1], list[k])
    BY <1>0, <2>1, InsertFold
  <2> DEFINE Seen(k) == S \cup UNION {Extent(list[l]) : l \in 1..k}
             Q == {k \in 0..n : Holds(r[k], Seen(k))}
  <2>3. 0 \in Q
    <3>1. Seen(0) = S
      OBVIOUS
    <3> QED
      BY <2>1, <2>2, <3>1
  <2>4. ASSUME NEW k \in 1..n, k - 1 \in Q PROVE k \in Q
    <3>1. Holds(r[k - 1], Seen(k - 1))
      BY <2>4
    <3>2. list[k] \in Window /\ list[k].D <= list[k].U
      BY <2>1 DEF Neat
    <3>3. Holds(r[k], Seen(k - 1) \cup Extent(list[k]))
      <4>1. PICK w : w = list[k]
        OBVIOUS
      <4>2. PICK q, T : q = r[k - 1] /\ T = Seen(k - 1)
        OBVIOUS
      <4>3. Holds(Insert(q, w), T \cup Extent(w))
        BY <3>1, <3>2, <4>1, <4>2, InsertHolds
      <4> QED
        BY <2>2, <4>1, <4>2, <4>3
    <3>4. Seen(k) = Seen(k - 1) \cup Extent(list[k])
      <4>1. \A l : l \in 1..k <=> l \in 1..(k - 1) \/ l = k
        BY <2>1, <2>4
      <4> QED
        BY <4>1
    <3>5. k \in 0..n
      BY <2>1
    <3> QED
      BY <3>3, <3>4, <3>5
  <2> HIDE DEF Q
  <2>5. n \in Q
    <3>1. \A k \in 0..n : k \in Q
      BY <2>1, <2>3, <2>4, UpTo
    <3> QED
      BY <2>1, <3>1
  <2>6. Holds(r[n], Seen(n))
    BY <2>5 DEF Q
  <2>7. Seen(n) = S \cup Dates(list)
    BY <2>1 DEF Dates, ToSet, Extent
  <2>8. Merge(list, m) = r[n]
    BY <1>3, <2>2 DEF Merge
  <2> QED
    BY <2>6, <2>7, <2>8
<1> QED
  BY <1>1, <1>2, <1>3

-----------------------------------------------------------------------------
(***************************************************************************)
(* stb_fusestbpair.                                                        *)
(***************************************************************************)
FuseStep(acc, p) == IF acc # <<>> /\ Last(acc).U >= p.D
                    THEN ReplaceAt(acc, Len(acc), Pair(Last(acc).D, p.U))
                    ELSE Append(acc, p)

LEMMA AppendJoins ==
  ASSUME NEW s \in Lists, NEW w \in Window
  PROVE  Append(s, w) = Joined(s, Len(s), w, Len(s) + 1)
<1>1. PICK n \in Nat : n = Len(s)
  BY Listed
<1>2. PICK r : r = Append(s, w)
  OBVIOUS
<1>3. PICK j : j = Joined(s, n, w, n + 1)
  OBVIOUS
<1>4. /\ r \in Seq(Window) /\ Len(r) = n + 1 /\ \A k \in 1..n : r[k] = s[k]
      /\ r[n + 1] = w
  BY <1>1, <1>2, AppendProperties DEF Lists
<1>5. j \in Lists /\ Len(j) = n + n + 2 - (n + 1) /\ j[n + 1] = w /\ \A k \in 1..n : j[k] = s[k]
  <2>1. n \in 0..Len(s) /\ n + 1 \in (n + 1)..(Len(s) + 1)
    BY <1>1
  <2> QED
    BY <1>1, <1>3, <2>1, JoinedIs
<1>6. Len(j) = n + 1 /\ \A k \in 1..(n + 1) : r[k] = j[k]
  <2>1. \A k \in 1..(n + 1) : k \in 1..n \/ k = n + 1
    OBVIOUS
  <2> QED
    BY <1>4, <1>5, <2>1
<1>7. r = j
  BY <1>4, <1>5, <1>6, SeqEqual DEF Lists
<1> QED
  BY <1>1, <1>2, <1>3, <1>7

LEMMA ReplaceJoins ==
  ASSUME NEW s \in Lists, s # <<>>, NEW w \in Window
  PROVE  ReplaceAt(s, Len(s), w) = Joined(s, Len(s) - 1, w, Len(s) + 1)
<1>1. PICK n \in Nat : n = Len(s) /\ n # 0
  BY Listed
<1>2. PICK r : r = ReplaceAt(s, n, w)
  OBVIOUS
<1>3. PICK j : j = Joined(s, n - 1, w, n + 1)
  OBVIOUS
<1>4. /\ r \in Seq(Window) /\ Len(r) = n
      /\ \A k \in 1..n : r[k] = IF k = n THEN w ELSE s[k]
  <2>1. n \in 1..Len(s) /\ s \in Seq(Window)
    BY <1>1 DEF Lists
  <2> QED
    BY <1>1, <1>2, <2>1, ExceptSeq DEF ReplaceAt
<1>5. j \in Lists /\ Len(j) = n + (n - 1) + 2 - (n + 1) /\ j[(n - 1) + 1] = w
      /\ \A k \in 1..(n - 1) : j[k] = s[k]
  <2>1. n - 1 \in 0..Len(s) /\ n + 1 \in ((n - 1) + 1)..(Len(s) + 1)
    BY <1>1
  <2> QED
    BY <1>1, <1>3, <2>1, JoinedIs
<1>6. Len(j) = n /\ \A k \in 1..n : r[k] = j[k]
  <2>1. \A k \in 1..n : k \in 1..(n - 1) \/ k = n
    OBVIOUS
  <2>2. (n - 1) + 1 = n /\ n + (n - 1) + 2 - (n + 1) = n
    OBVIOUS
  <2> QED
    BY <1>4, <1>5, <2>1, <2>2
<1>7. r = j
  BY <1>4, <1>5, <1>6, SeqEqual DEF Lists
<1> QED
  BY <1>1, <1>2, <1>3, <1>7

(***************************************************************************)
(* A step of the fusion keeps a list a list.                               *)
(***************************************************************************)
LEMMA FuseStepType ==
  ASSUME NEW acc \in Lists, NEW p \in Window
  PROVE  FuseStep(acc, p) \in Lists
<1>1. CASE acc # <<>> /\ Last(acc).U >= p.D
  <2>1. PICK n \in Nat : n = Len(acc) /\ n # 0 /\ acc[n] \in Window
    BY <1>1, Listed
  <2>2. PICK w : w = Pair(Last(acc).D, p.U)
    OBVIOUS
  <2>3. w \in Window
    BY <2>1, <2>2 DEF Pair, Last, Window
  <2>4. n - 1 \in 0..Len(acc) /\ n + 1 \in ((n - 1) + 1)..(Len(acc) + 1)
    BY <2>1
  <2>5. Joined(acc, n - 1, w, n + 1) \in Lists
    BY <2>3, <2>4, JoinedIs
  <2> QED
    BY <1>1, <2>1, <2>2, <2>3, <2>5, ReplaceJoins DEF FuseStep
<1>2. CASE ~(acc # <<>> /\ Last(acc).U >= p.D)
  <2>1. Append(acc, p) \in Lists
    BY AppendProperties DEF Lists
  <2> QED
    BY <1>2, <2>1 DEF FuseStep
<1> QED
  BY <1>1, <1>2

FuseGoes(list, h) ==
    h = [T \in SUBSET DOMAIN list |->
            IF T = {} THEN <<>> ELSE FuseStep(h[T \ {Max(T)}], list[Max(T)])]

FuseOf(list) == CHOOSE h : FuseGoes(list, h)

(***************************************************************************)
(* Fuse(list) as a run of its steps.                                       *)
(***************************************************************************)
LEMMA FuseFold ==
  ASSUME NEW list \in Lists
  PROVE  \E r \in [0..Len(list) -> Lists] :
            /\ r[0] = <<>> /\ r[Len(list)] = Fuse(list)
            /\ \A k \in 1..Len(list) : r[k] = FuseStep(r[k - 1], list[k])
<1>1. PICK n \in Nat : n = Len(list) /\ DOMAIN list = 1..n /\ \A k \in 1..n : list[k] \in Window
  BY Listed
<1>2. PICK F : F = [x \in Lists \X (1..n) |-> FuseStep(x[1], list[x[2]])]
  OBVIOUS
<1>3. F \in [Lists \X (1..n) -> Lists]
  <2>1. \A x \in Lists \X (1..n) : FuseStep(x[1], list[x[2]]) \in Lists
    BY <1>1, FuseStepType
  <2> QED
    BY <1>2, <2>1
<1>4. \A q \in Lists, k \in 1..n : F[<<q, k>>] = FuseStep(q, list[k])
  BY <1>2
<1>0. <<>> \in Lists
  BY NoDates
<1>5. \E h : FuseGoes(list, h)
  <2>1. PICK g : FoldGoes(Lists, <<>>, n, F, g)
    BY <1>0, <1>3, FoldExists
  <2>2. g \in [SUBSET (1..n) -> Lists]
    BY <2>1 DEF FoldGoes
  <2>3. ASSUME NEW T \in SUBSET (1..n)
        PROVE  g[T] = IF T = {} THEN <<>> ELSE FuseStep(g[T \ {Max(T)}], list[Max(T)])
    <3>1. CASE T = {}
      BY <2>1, <3>1 DEF FoldGoes
    <3>2. CASE T # {}
      <4>1. Max(T) \in 1..n
        BY <3>2, TopIs
      <4>2. g[T \ {Max(T)}] \in Lists
        BY <2>2
      <4> QED
        BY <1>4, <2>1, <3>2, <4>1, <4>2 DEF FoldGoes
    <3> QED
      BY <3>1, <3>2
  <2>4. FuseGoes(list, g)
    BY <1>1, <2>2, <2>3 DEF FuseGoes
  <2> QED
    BY <2>4
<1>6. PICK h : h = FuseOf(list)
  OBVIOUS
<1>7. FuseGoes(list, h)
  BY <1>5, <1>6 DEF FuseOf
<1>8. Fuse(list) = h[1..n]
  <2>1. Fuse(list) = FuseOf(list)[DOMAIN list]
    BY DEF Fuse, FoldLeft, MapThenFoldSet, FuseOf, FuseGoes, FuseStep
  <2> QED
    BY <1>1, <1>6, <2>1
<1>9. \A T \in SUBSET (1..n) :
        h[T] = IF T = {} THEN <<>> ELSE FuseStep(h[T \ {Max(T)}], list[Max(T)])
  BY <1>1, <1>7 DEF FuseGoes
<1>10. h[{}] = <<>>
  BY <1>9
<1>11. ASSUME NEW T \in SUBSET (1..n), T # {}, h[T \ {Max(T)}] \in Lists
       PROVE  h[T] = F[<<h[T \ {Max(T)}], Max(T)>>]
  <2>1. Max(T) \in 1..n
    BY <1>11, TopIs
  <2> QED
    BY <1>4, <1>9, <1>11, <2>1
<1>12. PICK r : FoldRun(Lists, <<>>, n, F, h, r)
  <2>1. FoldRuns(Lists, <<>>, n, F, h)
    BY <1>10, <1>11 DEF FoldRuns
  <2>2. FoldOK(Lists, <<>>, n, F)
    BY <1>0, <1>3 DEF FoldOK
  <2> QED
    BY <2>1, <2>2, FoldSteps
<1>13. ASSUME NEW k \in 1..n PROVE r[k] = FuseStep(r[k - 1], list[k])
  <2>1. k - 1 \in 0..n
    OBVIOUS
  <2>2. r[k - 1] \in Lists
    BY <1>12, <2>1 DEF FoldRun
  <2> QED
    BY <1>4, <1>12, <2>2 DEF FoldRun
<1>14. r \in [0..n -> Lists] /\ r[0] = <<>> /\ r[n] = h[1..n]
  BY <1>12 DEF FoldRun
<1> QED
  BY <1>1, <1>8, <1>13, <1>14

(***************************************************************************)
(* A step of the fusion keeps the list neat and loses no date.             *)
(***************************************************************************)
LEMMA FuseStepKeeps ==
  ASSUME NEW acc, Neat(acc), NEW p \in Window, p.D <= p.U,
         acc # <<>> => Last(acc).U < p.U /\ Last(acc).D < p.D
  PROVE  LET r == FuseStep(acc, p)
         IN  /\ Neat(r) /\ r # <<>> /\ Last(r).U = p.U /\ Last(r).D <= p.D
             /\ Dates(r) = Dates(acc) \cup Extent(p)
<1>1. acc \in Lists
  BY DEF Neat
<1>2. PICK n \in Nat : /\ n = Len(acc) /\ (acc = <<>> <=> n = 0)
                       /\ \A k \in 1..n : acc[k].D \in Int /\ acc[k].U \in Int
  BY <1>1, Listed
<1>3. p.D \in Int /\ p.U \in Int
  BY DEF Window
<1>4. PICK r : r = FuseStep(acc, p)
  OBVIOUS
<1> DEFINE joins == acc # <<>> /\ Last(acc).U >= p.D
<1>5. PICK b, w : /\ b = (IF joins THEN n - 1 ELSE n)
                  /\ w = (IF joins THEN Pair(Last(acc).D, p.U) ELSE p)
  OBVIOUS
<1>6. joins => n \in 1..n /\ Last(acc) = acc[n] /\ acc[n].D \in Int /\ acc[n].U \in Int
               /\ acc[n].U >= p.D /\ acc[n].U < p.U /\ acc[n].D < p.D
  BY <1>2 DEF Last
<1>7. /\ b \in 0..n /\ n + 1 \in (b + 1)..(n + 1) /\ w \in Window
      /\ w.U = p.U /\ w.D \in Int /\ w.D <= p.D
  <2>1. CASE joins
    <3>1. w = [D |-> acc[n].D, U |-> p.U] /\ b = n - 1
      BY <1>5, <1>6, <2>1 DEF Pair
    <3> QED
      BY <1>2, <1>3, <1>6, <2>1, <3>1 DEF Window
  <2>2. CASE ~joins
    BY <1>2, <1>3, <1>5, <2>2
  <2> QED
    BY <2>1, <2>2
<1>8. r = Joined(acc, b, w, n + 1)
  <2>1. CASE joins
    BY <1>2, <1>4, <1>5, <1>7, <2>1, <1>1, ReplaceJoins DEF FuseStep
  <2>2. CASE ~joins
    BY <1>2, <1>4, <1>5, <2>2, <1>1, AppendJoins DEF FuseStep
  <2> QED
    BY <2>1, <2>2
<1>9. w.D <= w.U
  BY <1>3, <1>7
<1>10. b >= 1 => acc[b].U < w.D
  <2> SUFFICES ASSUME b >= 1 PROVE acc[b].U < w.D
    OBVIOUS
  <2>1. CASE joins
    <3>1. b \in 1..n /\ n \in 1..n /\ b < n /\ w.D = acc[n].D
      BY <1>2, <1>5, <1>6, <1>7, <2>1 DEF Pair
    <3> QED
      BY <1>2, <3>1 DEF Neat
  <2>2. CASE ~joins
    <3>1. b = n /\ w = p /\ n \in 1..n /\ acc # <<>>
      BY <1>2, <1>5, <1>7, <2>2
    <3>2. ~(acc[n].U >= p.D)
      BY <1>2, <2>2, <3>1 DEF Last
    <3> QED
      BY <1>2, <1>3, <3>1, <3>2
  <2> QED
    BY <2>1, <2>2
<1>11. b \in 0..Len(acc) /\ n + 1 \in (b + 1)..(Len(acc) + 1) /\ ~(n + 1 <= Len(acc))
  BY <1>2, <1>7
<1>12. Neat(Joined(acc, b, w, n + 1))
  <2>1. n + 1 <= Len(acc) => w.U < acc[n + 1].D
    BY <1>11
  <2> QED
    BY <1>7, <1>9, <1>10, <1>11, <2>1, JoinedNeat
<1>13. Len(r) = b + 1 /\ r[b + 1] = w
  <2>1. Len(r) = n + b + 2 - (n + 1) /\ r[b + 1] = w
    <3>1. w \in Window
      BY <1>7
    <3>2. PICK t : t = n + 1
      OBVIOUS
    <3>3. acc \in Lists /\ b \in 0..Len(acc) /\ t \in (b + 1)..(Len(acc) + 1)
      BY <1>1, <1>11, <3>2
    <3>4. Len(Joined(acc, b, w, t)) = Len(acc) + b + 2 - t /\ Joined(acc, b, w, t)[b + 1] = w
      BY <3>1, <3>3, JoinedIs
    <3> QED
      BY <1>2, <1>8, <3>2, <3>4
  <2> QED
    BY <1>2, <1>7, <2>1
<1>14. Last(r) = w /\ r # <<>>
  <2>1. Len(r) # 0 /\ r \in Lists
    BY <1>7, <1>8, <1>12, <1>13 DEF Neat
  <2> QED
    BY <1>13, <2>1, Listed DEF Last
<1>15. ASSUME NEW x \in Int PROVE x \in Dates(r) <=> x \in Dates(acc) \/ Within(x, p)
  <2>1. x \in Dates(r) <=> Within(x, w) \/ \E k \in 1..b : Within(x, acc[k])
    <3>1. x \in Dates(Joined(acc, b, w, n + 1)) <=>
            \/ Within(x, w)
            \/ \E k \in 1..b : Within(x, acc[k])
            \/ \E k \in (n + 1)..Len(acc) : Within(x, acc[k])
      BY <1>1, <1>7, <1>11, JoinedDates
    <3>2. (n + 1)..Len(acc) = {}
      BY <1>2
    <3> QED
      BY <1>8, <3>1, <3>2
  <2>2. x \in Dates(acc) <=> \E k \in 1..n : Within(x, acc[k])
    BY <1>1, <1>2, DatesAre
  <2>3. CASE joins
    <3>1. \A k : k \in 1..n <=> k \in 1..b \/ k = n
      BY <1>2, <1>5, <1>6, <2>3
    <3>2. w.D = acc[n].D
      BY <1>5, <1>6, <2>3 DEF Pair
    <3>3. Within(x, w) <=> Within(x, acc[n]) \/ Within(x, p)
      BY <1>3, <1>6, <1>7, <2>3, <3>2 DEF Within
    <3> QED
      BY <2>1, <2>2, <3>1, <3>3
  <2>4. CASE ~joins
    BY <1>5, <2>1, <2>2, <2>4
  <2> QED
    BY <2>3, <2>4
<1>16. Dates(r) = Dates(acc) \cup Extent(p)
  <2>1. Dates(r) \subseteq Int /\ Dates(acc) \subseteq Int
    BY <1>1, <1>8, <1>12, DatesAre DEF Neat
  <2>2. \A x : x \in Extent(p) <=> x \in Int /\ Within(x, p)
    BY <1>3 DEF Extent, Within
  <2> QED
    BY <1>15, <2>1, <2>2
<1> QED
  BY <1>4, <1>7, <1>8, <1>12, <1>14, <1>16

(***************************************************************************)
(* Windows whose two ends come in order, which may meet: those of a neat   *)
(* list moved by a delay.                                                  *)
(***************************************************************************)
Rising(list) == /\ list \in Lists
                /\ \A k \in 1..Len(list) : list[k].D <= list[k].U
                /\ \A k, l \in 1..Len(list) :
                      k < l => list[k].D < list[l].D /\ list[k].U < list[l].U

LEMMA FuseType ==
  ASSUME NEW list \in Lists
  PROVE  Fuse(list) \in Lists
<1>1. PICK n \in Nat : n = Len(list)
  BY Listed
<1>2. PICK r \in [0..n -> Lists] : r[n] = Fuse(list)
  BY <1>1, FuseFold
<1>3. n \in 0..n
  BY <1>1
<1> QED
  BY <1>2, <1>3

LEMMA FuseKeeps ==
  ASSUME NEW list, Rising(list)
  PROVE  Neat(Fuse(list)) /\ Dates(Fuse(list)) = Dates(list)
<1>0. list \in Lists
  BY DEF Rising
<1>1. PICK n \in Nat : n = Len(list) /\ DOMAIN list = 1..n /\ \A k \in 1..n : list[k] \in Window
  BY <1>0, Listed
<1>2. PICK r \in [0..n -> Lists] : /\ r[0] = <<>> /\ r[n] = Fuse(list)
                                   /\ \A k \in 1..n : r[k] = FuseStep(r[k - 1], list[k])
  BY <1>0, <1>1, FuseFold
<1> DEFINE Seen(k) == UNION {Extent(list[l]) : l \in 1..k}
           Tip(k) == k > 0 => /\ r[k] # <<>> /\ Last(r[k]).U = list[k].U
                              /\ Last(r[k]).D <= list[k].D /\ Last(r[k]).D \in Int
           Q == {k \in 0..n : Neat(r[k]) /\ Dates(r[k]) = Seen(k) /\ Tip(k)}
<1>3. 0 \in Q
  <2>1. Seen(0) = {}
    OBVIOUS
  <2> QED
    BY <1>1, <1>2, <2>1, NoDates
<1>4. ASSUME NEW k \in 1..n, k - 1 \in Q PROVE k \in Q
  <2>1. Neat(r[k - 1]) /\ Dates(r[k - 1]) = Seen(k - 1) /\ Tip(k - 1) /\ k \in 0..n
    BY <1>1, <1>4
  <2>2. PICK acc : acc = r[k - 1]
    OBVIOUS
  <2>3. PICK p : p = list[k]
    OBVIOUS
  <2>4. p \in Window /\ p.D <= p.U /\ p.D \in Int /\ p.U \in Int
    BY <1>0, <1>1, <2>3, Listed DEF Rising
  <2>5. acc # <<>> => Last(acc).U < p.U /\ Last(acc).D < p.D
    <3>1. CASE k = 1
      BY <1>2, <2>2, <3>1
    <3>2. CASE k # 1
      <4>1. k - 1 \in 1..n /\ k - 1 < k /\ k - 1 > 0
        BY <1>1, <3>2
      <4>2. list[k - 1].D < p.D /\ list[k - 1].U < p.U
        BY <1>1, <2>3, <4>1 DEF Rising
      <4>3. Last(acc).U = list[k - 1].U /\ Last(acc).D <= list[k - 1].D /\ Last(acc).D \in Int
        BY <2>1, <2>2, <4>1
      <4>4. list[k - 1].D \in Int
        BY <1>0, <1>1, <4>1, Listed
      <4> QED
        BY <2>4, <4>2, <4>3, <4>4
    <3> QED
      BY <3>1, <3>2
  <2>6. PICK s : s = FuseStep(acc, p)
    OBVIOUS
  <2>7. /\ Neat(s) /\ s # <<>> /\ Last(s).U = p.U /\ Last(s).D <= p.D
        /\ Dates(s) = Dates(acc) \cup Extent(p)
    BY <2>1, <2>2, <2>4, <2>5, <2>6, FuseStepKeeps
  <2>8. Last(s).D \in Int
    <3>1. s \in Lists
      BY <2>7 DEF Neat
    <3>2. Len(s) \in 1..Len(s)
      BY <2>7, <3>1, Listed
    <3> QED
      BY <3>1, <3>2, Listed DEF Last
  <2>9. r[k] = s
    BY <1>2, <2>2, <2>3, <2>6
  <2>10. Seen(k) = Seen(k - 1) \cup Extent(p)
    <3>1. \A l : l \in 1..k <=> l \in 1..(k - 1) \/ l = k
      BY <1>1, <1>4
    <3> QED
      BY <2>3, <3>1
  <2>11. Dates(r[k]) = Seen(k)
    BY <2>1, <2>2, <2>7, <2>9, <2>10
  <2>12. Tip(k)
    BY <2>3, <2>7, <2>8, <2>9
  <2> HIDE DEF Seen, Tip
  <2> QED
    BY <2>1, <2>7, <2>9, <2>11, <2>12
<1> HIDE DEF Q
<1>5. n \in Q
  <2>1. \A k \in 0..n : k \in Q
    BY <1>1, <1>3, <1>4, UpTo
  <2> QED
    BY <1>1, <2>1
<1>6. Neat(r[n]) /\ Dates(r[n]) = Seen(n)
  BY <1>5 DEF Q
<1>7. Seen(n) = Dates(list)
  BY <1>1 DEF Dates, ToSet, Extent
<1> QED
  BY <1>2, <1>6, <1>7

(***************************************************************************)
(* stb_adddelaystbpair.                                                    *)
(***************************************************************************)
Moved(list, delaymax, delaymin, periode) ==
    UNION {(w.D + delaymin - periode)..(w.U + delaymax - periode) : w \in ToSet(list)}

(***************************************************************************)
(* stb_adddelaystbpair moves each window of a neat list; the list found is *)
(* neat and has the dates of the windows moved.                            *)
(***************************************************************************)
LEMMA AddDelayIs ==
  ASSUME NEW list \in Lists, NEW hi \in Int, NEW lo \in Int, NEW periode \in Int
  PROVE  /\ AddDelay(list, hi, lo, periode) \in Lists
         /\ Neat(list) /\ lo <= hi =>
              /\ Neat(AddDelay(list, hi, lo, periode))
              /\ Dates(AddDelay(list, hi, lo, periode)) = Moved(list, hi, lo, periode)
<1>1. PICK n \in Nat : /\ n = Len(list) /\ DOMAIN list = 1..n
                       /\ \A k \in 1..n : list[k].D \in Int /\ list[k].U \in Int
  BY Listed
<1>2. PICK s : s = [k \in 1..n |-> Pair(list[k].D + lo - periode, list[k].U + hi - periode)]
  OBVIOUS
<1>3. /\ s \in Lists /\ Len(s) = n /\ DOMAIN s = 1..n
      /\ \A k \in 1..n : /\ s[k] = Pair(list[k].D + lo - periode, list[k].U + hi - periode)
                         /\ s[k].D = list[k].D + lo - periode
                         /\ s[k].U = list[k].U + hi - periode
  <2>1. \A k \in 1..n : Pair(list[k].D + lo - periode, list[k].U + hi - periode) \in Window
    BY <1>1 DEF Pair, Window
  <2>2. s \in [1..n -> Window]
    BY <1>2, <2>1
  <2>3. s \in Lists /\ Len(s) = n
    BY <1>1, <2>2 DEF Lists
  <2> QED
    BY <1>2, <2>3 DEF Pair
<1>4. AddDelay(list, hi, lo, periode) = Fuse(s)
  BY <1>1, <1>2 DEF AddDelay
<1>5. ASSUME Neat(list), lo <= hi PROVE Rising(s) /\ Dates(s) = Moved(list, hi, lo, periode)
  <2>1. \A k \in 1..n : list[k].D <= list[k].U
    BY <1>1, <1>5 DEF Neat
  <2>2. ASSUME NEW k \in 1..n, NEW l \in 1..n, k < l
        PROVE  s[k].D < s[l].D /\ s[k].U < s[l].U
    <3>1. list[k].U < list[l].D
      BY <1>1, <1>5, <2>2 DEF Neat
    <3>2. list[k].D < list[l].D /\ list[k].U < list[l].U
      BY <1>1, <2>1, <3>1
    <3> QED
      BY <1>1, <1>3, <3>2
  <2>3. \A k \in 1..n : s[k].D <= s[k].U
    BY <1>1, <1>3, <1>5, <2>1
  <2>4. Dates(s) = Moved(list, hi, lo, periode)
    <3>1. Dates(s) = UNION {s[k].D..s[k].U : k \in 1..n}
      BY <1>3 DEF Dates, ToSet
    <3>2. Moved(list, hi, lo, periode)
            = UNION {(list[k].D + lo - periode)..(list[k].U + hi - periode) : k \in 1..n}
      BY <1>1 DEF Moved, ToSet
    <3>3. \A k \in 1..n : s[k].D..s[k].U
                            = (list[k].D + lo - periode)..(list[k].U + hi - periode)
      BY <1>3
    <3> QED
      BY <3>1, <3>2, <3>3
  <2> QED
    BY <1>3, <2>2, <2>3, <2>4 DEF Rising
<1>6. Fuse(s) \in Lists
  BY <1>3, FuseType
<1> QED
  BY <1>4, <1>5, <1>6, FuseKeeps

-----------------------------------------------------------------------------
(***************************************************************************)
(* The merges of stb_transferstbline: the lists an arc brings, one for     *)
(* each phase, and those of all the arcs.                                  *)
(***************************************************************************)

MergeGoes(lists, m, h) ==
    h = [T \in SUBSET DOMAIN lists |->
            IF T = {} THEN m ELSE Merge(lists[Max(T)], h[T \ {Max(T)}])]

MergeOf(lists, m) == CHOOSE h : MergeGoes(lists, m, h)

(***************************************************************************)
(* MergeAll as a run of merges.                                            *)
(***************************************************************************)
LEMMA MergeFold ==
  ASSUME NEW n \in Nat, NEW lists \in [1..n -> Lists], NEW m \in Accs
  PROVE  \E r \in [0..n -> Accs] :
            /\ r[0] = m /\ r[n] = MergeAll(lists, m)
            /\ \A k \in 1..n : r[k] = Merge(lists[k], r[k - 1])
<1>1. DOMAIN lists = 1..n /\ \A k \in 1..n : lists[k] \in Lists
  OBVIOUS
<1>2. PICK F : F = [x \in Accs \X (1..n) |-> Merge(lists[x[2]], x[1])]
  OBVIOUS
<1>3. F \in [Accs \X (1..n) -> Accs]
  <2>1. \A x \in Accs \X (1..n) : Merge(lists[x[2]], x[1]) \in Accs
    BY <1>1, MergeType
  <2> QED
    BY <1>2, <2>1
<1>4. \A q \in Accs, k \in 1..n : F[<<q, k>>] = Merge(lists[k], q)
  BY <1>2
<1>5. \E h : MergeGoes(lists, m, h)
  <2>1. PICK g : FoldGoes(Accs, m, n, F, g)
    BY <1>3, FoldExists
  <2>2. g \in [SUBSET (1..n) -> Accs]
    BY <2>1 DEF FoldGoes
  <2>3. ASSUME NEW T \in SUBSET (1..n)
        PROVE  g[T] = IF T = {} THEN m ELSE Merge(lists[Max(T)], g[T \ {Max(T)}])
    <3>1. CASE T = {}
      BY <2>1, <3>1 DEF FoldGoes
    <3>2. CASE T # {}
      <4>1. Max(T) \in 1..n
        BY <3>2, TopIs
      <4>2. g[T \ {Max(T)}] \in Accs
        BY <2>2
      <4> QED
        BY <1>4, <2>1, <3>2, <4>1, <4>2 DEF FoldGoes
    <3> QED
      BY <3>1, <3>2
  <2>4. MergeGoes(lists, m, g)
    BY <1>1, <2>2, <2>3 DEF MergeGoes
  <2> QED
    BY <2>4
<1>6. PICK h : h = MergeOf(lists, m)
  OBVIOUS
<1>7. MergeGoes(lists, m, h)
  BY <1>5, <1>6 DEF MergeOf
<1>8. MergeAll(lists, m) = h[1..n]
  <2>1. MergeAll(lists, m) = MergeOf(lists, m)[DOMAIN lists]
    BY DEF MergeAll, FoldLeft, MapThenFoldSet, MergeOf, MergeGoes
  <2> QED
    BY <1>1, <1>6, <2>1
<1>9. \A T \in SUBSET (1..n) :
        h[T] = IF T = {} THEN m ELSE Merge(lists[Max(T)], h[T \ {Max(T)}])
  BY <1>1, <1>7 DEF MergeGoes
<1>10. h[{}] = m
  BY <1>9
<1>11. ASSUME NEW T \in SUBSET (1..n), T # {}, h[T \ {Max(T)}] \in Accs
       PROVE  h[T] = F[<<h[T \ {Max(T)}], Max(T)>>]
  <2>1. Max(T) \in 1..n
    BY <1>11, TopIs
  <2> QED
    BY <1>4, <1>9, <1>11, <2>1
<1>12. PICK r : FoldRun(Accs, m, n, F, h, r)
  <2>1. FoldRuns(Accs, m, n, F, h)
    BY <1>10, <1>11 DEF FoldRuns
  <2>2. FoldOK(Accs, m, n, F)
    BY <1>3 DEF FoldOK
  <2> QED
    BY <2>1, <2>2, FoldSteps
<1>13. ASSUME NEW k \in 1..n PROVE r[k] = Merge(lists[k], r[k - 1])
  <2>1. k - 1 \in 0..n
    OBVIOUS
  <2>2. r[k - 1] \in Accs
    BY <1>12, <2>1 DEF FoldRun
  <2> QED
    BY <1>4, <1>12, <2>2 DEF FoldRun
<1>14. r \in [0..n -> Accs] /\ r[0] = m /\ r[n] = h[1..n]
  BY <1>12 DEF FoldRun
<1> QED
  BY <1>8, <1>13, <1>14

LEMMA MergeAllType ==
  ASSUME NEW n \in Nat, NEW lists \in [1..n -> Lists], NEW m \in Accs
  PROVE  MergeAll(lists, m) \in Accs
<1>1. PICK r \in [0..n -> Accs] : r[n] = MergeAll(lists, m)
  BY MergeFold
<1> QED
  BY <1>1

(***************************************************************************)
(* One list for each phase.                                                *)
(***************************************************************************)
AllNeat(lists, n) == \A k \in 1..n : Neat(lists[k])

AllDates(lists, n) == UNION {Dates(lists[k]) : k \in 1..n}

(***************************************************************************)
(* Neat lists merged one after the other.                                  *)
(***************************************************************************)
LEMMA MergeAllHolds ==
  ASSUME NEW n \in Nat, NEW lists \in [1..n -> Lists], NEW m, NEW S, Holds(m, S),
         AllNeat(lists, n)
  PROVE  Holds(MergeAll(lists, m), S \cup AllDates(lists, n))
<1>0. m \in Accs
  BY DEF Holds
<1>1. PICK r \in [0..n -> Accs] : /\ r[0] = m /\ r[n] = MergeAll(lists, m)
                                  /\ \A k \in 1..n : r[k] = Merge(lists[k], r[k - 1])
  BY <1>0, MergeFold
<1> DEFINE Seen(l) == S \cup UNION {Dates(lists[k]) : k \in 1..l}
           Q == {k \in 0..n : Holds(r[k], Seen(k))}
<1>2. 0 \in Q
  <2>1. Seen(0) = S
    OBVIOUS
  <2> HIDE DEF Seen
  <2>2. Holds(r[0], Seen(0)) /\ 0 \in 0..n
    BY <1>1, <2>1
  <2> QED
    BY <2>2
<1>3. ASSUME NEW k \in 1..n, k - 1 \in Q PROVE k \in Q
  <2>1. Holds(r[k - 1], Seen(k - 1)) /\ k \in 0..n
    BY <1>3
  <2>2. PICK x : x = lists[k]
    OBVIOUS
  <2>3. PICK q, T : q = r[k - 1] /\ T = Seen(k - 1)
    OBVIOUS
  <2>4. Holds(Merge(x, q), T \cup Dates(x))
    <3>1. Holds(q, T) /\ x \in Lists /\ Neat(x)
      BY <2>1, <2>2, <2>3 DEF AllNeat
    <3> QED
      BY <3>1, MergeHolds
  <2>5. Seen(k) = T \cup Dates(x)
    <3>1. \A l : l \in 1..k <=> l \in 1..(k - 1) \/ l = k
      OBVIOUS
    <3> QED
      BY <2>2, <2>3, <3>1
  <2> HIDE DEF Seen
  <2>6. Holds(r[k], Seen(k))
    BY <1>1, <2>2, <2>3, <2>4, <2>5
  <2> QED
    BY <2>1, <2>6
<1> HIDE DEF Q
<1>4. \A k \in 0..n : k \in Q
  BY <1>2, <1>3, UpTo
<1>5. n \in Q
  BY <1>4
<1>6. Holds(r[n], Seen(n))
  BY <1>5 DEF Q
<1> QED
  BY <1>1, <1>6 DEF AllDates

(***************************************************************************)
(* The lists of all the arcs.                                              *)
(***************************************************************************)
Gathered(lists, m) == FoldLeft(LAMBDA r, brought : MergeAll(brought, r), m, lists)

GatherGoes(lists, m, h) ==
    h = [T \in SUBSET DOMAIN lists |->
            IF T = {} THEN m ELSE MergeAll(lists[Max(T)], h[T \ {Max(T)}])]

GatherOf(lists, m) == CHOOSE h : GatherGoes(lists, m, h)

(***************************************************************************)
(* Gathered as a run of merges.                                            *)
(***************************************************************************)
LEMMA GatherFold ==
  ASSUME NEW n \in Nat, NEW p \in Nat, NEW lists \in [1..n -> [1..p -> Lists]], NEW m \in Accs
  PROVE  \E r \in [0..n -> Accs] :
            /\ r[0] = m /\ r[n] = Gathered(lists, m)
            /\ \A k \in 1..n : r[k] = MergeAll(lists[k], r[k - 1])
<1>1. DOMAIN lists = 1..n /\ \A k \in 1..n : lists[k] \in [1..p -> Lists]
  OBVIOUS
<1>2. PICK F : F = [x \in Accs \X (1..n) |-> MergeAll(lists[x[2]], x[1])]
  OBVIOUS
<1>3. F \in [Accs \X (1..n) -> Accs]
  <2>1. \A x \in Accs \X (1..n) : MergeAll(lists[x[2]], x[1]) \in Accs
    BY <1>1, MergeAllType
  <2> QED
    BY <1>2, <2>1
<1>4. \A q \in Accs, k \in 1..n : F[<<q, k>>] = MergeAll(lists[k], q)
  BY <1>2
<1>5. \E h : GatherGoes(lists, m, h)
  <2>1. PICK g : FoldGoes(Accs, m, n, F, g)
    BY <1>3, FoldExists
  <2>2. g \in [SUBSET (1..n) -> Accs]
    BY <2>1 DEF FoldGoes
  <2>3. ASSUME NEW T \in SUBSET (1..n)
        PROVE  g[T] = IF T = {} THEN m ELSE MergeAll(lists[Max(T)], g[T \ {Max(T)}])
    <3>1. CASE T = {}
      BY <2>1, <3>1 DEF FoldGoes
    <3>2. CASE T # {}
      <4>1. Max(T) \in 1..n
        BY <3>2, TopIs
      <4>2. g[T \ {Max(T)}] \in Accs
        BY <2>2
      <4> QED
        BY <1>4, <2>1, <3>2, <4>1, <4>2 DEF FoldGoes
    <3> QED
      BY <3>1, <3>2
  <2>4. GatherGoes(lists, m, g)
    BY <1>1, <2>2, <2>3 DEF GatherGoes
  <2> QED
    BY <2>4
<1>6. PICK h : h = GatherOf(lists, m)
  OBVIOUS
<1>7. GatherGoes(lists, m, h)
  BY <1>5, <1>6 DEF GatherOf
<1>8. Gathered(lists, m) = h[1..n]
  <2>1. Gathered(lists, m) = GatherOf(lists, m)[DOMAIN lists]
    BY DEF Gathered, FoldLeft, MapThenFoldSet, GatherOf, GatherGoes
  <2> QED
    BY <1>1, <1>6, <2>1
<1>9. \A T \in SUBSET (1..n) :
        h[T] = IF T = {} THEN m ELSE MergeAll(lists[Max(T)], h[T \ {Max(T)}])
  BY <1>1, <1>7 DEF GatherGoes
<1>10. h[{}] = m
  BY <1>9
<1>11. ASSUME NEW T \in SUBSET (1..n), T # {}, h[T \ {Max(T)}] \in Accs
       PROVE  h[T] = F[<<h[T \ {Max(T)}], Max(T)>>]
  <2>1. Max(T) \in 1..n
    BY <1>11, TopIs
  <2> QED
    BY <1>4, <1>9, <1>11, <2>1
<1>12. PICK r : FoldRun(Accs, m, n, F, h, r)
  <2>1. FoldRuns(Accs, m, n, F, h)
    BY <1>10, <1>11 DEF FoldRuns
  <2>2. FoldOK(Accs, m, n, F)
    BY <1>3 DEF FoldOK
  <2> QED
    BY <2>1, <2>2, FoldSteps
<1>13. ASSUME NEW k \in 1..n PROVE r[k] = MergeAll(lists[k], r[k - 1])
  <2>1. k - 1 \in 0..n
    OBVIOUS
  <2>2. r[k - 1] \in Accs
    BY <1>12, <2>1 DEF FoldRun
  <2> QED
    BY <1>4, <1>12, <2>2 DEF FoldRun
<1>14. r \in [0..n -> Accs] /\ r[0] = m /\ r[n] = h[1..n]
  BY <1>12 DEF FoldRun
<1> QED
  BY <1>8, <1>13, <1>14

LEMMA GatheredType ==
  ASSUME NEW n \in Nat, NEW p \in Nat, NEW lists \in [1..n -> [1..p -> Lists]], NEW m \in Accs
  PROVE  Gathered(lists, m) \in Accs
<1>1. PICK r \in [0..n -> Accs] : /\ r[0] = m /\ r[n] = Gathered(lists, m)
                                  /\ \A k \in 1..n : r[k] = MergeAll(lists[k], r[k - 1])
  BY GatherFold
<1> QED
  BY <1>1

(***************************************************************************)
(* Neat lists of all the arcs merged.                                      *)
(***************************************************************************)
LEMMA GatheredHolds ==
  ASSUME NEW n \in Nat, NEW p \in Nat, NEW lists \in [1..n -> [1..p -> Lists]],
         NEW m, NEW S, Holds(m, S),
         \A k \in 1..n : AllNeat(lists[k], p)
  PROVE  Holds(Gathered(lists, m), S \cup UNION {AllDates(lists[k], p) : k \in 1..n})
<1>0. m \in Accs
  BY DEF Holds
<1>1. PICK r \in [0..n -> Accs] : /\ r[0] = m /\ r[n] = Gathered(lists, m)
                                  /\ \A k \in 1..n : r[k] = MergeAll(lists[k], r[k - 1])
  BY <1>0, GatherFold
<1> DEFINE Seen(l) == S \cup UNION {AllDates(lists[k], p) : k \in 1..l}
           Q == {k \in 0..n : Holds(r[k], Seen(k))}
<1>2. 0 \in Q
  <2>1. Seen(0) = S
    OBVIOUS
  <2> HIDE DEF Seen
  <2>2. Holds(r[0], Seen(0)) /\ 0 \in 0..n
    BY <1>1, <2>1
  <2> QED
    BY <2>2
<1>3. ASSUME NEW k \in 1..n, k - 1 \in Q PROVE k \in Q
  <2>1. Holds(r[k - 1], Seen(k - 1)) /\ k \in 0..n
    BY <1>3
  <2>2. PICK x : x = lists[k]
    OBVIOUS
  <2>3. PICK q, T : q = r[k - 1] /\ T = Seen(k - 1)
    OBVIOUS
  <2>4. Holds(MergeAll(x, q), T \cup AllDates(x, p))
    <3>1. Holds(q, T) /\ x \in [1..p -> Lists] /\ AllNeat(x, p)
      BY <2>1, <2>2, <2>3
    <3> QED
      BY <3>1, MergeAllHolds
  <2>5. Seen(k) = T \cup AllDates(x, p)
    <3>1. \A l : l \in 1..k <=> l \in 1..(k - 1) \/ l = k
      OBVIOUS
    <3> QED
      BY <2>2, <2>3, <3>1
  <2> HIDE DEF Seen
  <2>6. Holds(r[k], Seen(k))
    BY <1>1, <2>2, <2>3, <2>4, <2>5
  <2> QED
    BY <2>1, <2>6
<1> HIDE DEF Q
<1>4. \A k \in 0..n : k \in Q
  BY <1>2, <1>3, UpTo
<1>5. n \in Q
  BY <1>4
<1>6. Holds(r[n], Seen(n))
  BY <1>5 DEF Q
<1> QED
  BY <1>1, <1>6

-----------------------------------------------------------------------------
(***************************************************************************)
(* What reaches a node, from tables of windows.                            *)
(***************************************************************************)
Tables == [Node -> [Phase -> Lists]]

NeatTables(tab) == \A m \in Node : AllNeat(tab[m], Phases)

(***************************************************************************)
(* The dates that an arc brings, and all those that reach a node.          *)
(***************************************************************************)
BroughtDates(c, tab, n, a, j) ==
    UNION {IF Takes(c, n, p, j) THEN Moved(tab[a.from][p], a.max, a.min, Shift(c, n, p))
           ELSE {} : p \in Phase}

ArrivalDates(c, tab, n, j) ==
    Dates(c.specin[n][j])
      \cup UNION {BroughtDates(c, tab, n, c.inputs[n][k], j) : k \in 1..Len(c.inputs[n])}

LEMMA ShiftType ==
  ASSUME NEW c, CircuitOK(c), NEW n \in Node, NEW p \in Phase
  PROVE  Shift(c, n, p) \in Int
<1>1. CommandOK(c.clock[n])
  BY DEF CircuitOK
<1>2. CASE c.clock[n].type = "NONE"
  BY <1>2 DEF Shift
<1>3. CASE c.clock[n].type # "NONE"
  <2>1. c.clock[n].period \in Int
    BY <1>1, <1>3 DEF CommandOK, NoClock
  <2> QED
    BY <1>3, <2>1 DEF Shift, Periode
<1> QED
  BY <1>2, <1>3

(***************************************************************************)
(* What an arc brings is neat, with the dates of the windows moved.        *)
(***************************************************************************)
LEMMA BroughtIs ==
  ASSUME NEW c, CircuitOK(c), NEW tab \in Tables, NEW n \in Node, NEW j \in Phase,
         NEW k \in 1..Len(c.inputs[n])
  PROVE  LET b == Brought(c, tab, n, c.inputs[n][k], j)
         IN  /\ b \in [1..Phases -> Lists]
             /\ NeatTables(tab) =>
                  /\ AllNeat(b, Phases)
                  /\ AllDates(b, Phases) = BroughtDates(c, tab, n, c.inputs[n][k], j)
<1>1. PICK a : a = c.inputs[n][k]
  OBVIOUS
<1>2. a.from \in Node /\ a.min \in Int /\ a.max \in Int /\ a.min <= a.max
  <2>1. c.inputs[n] \in Seq([from : Node, min : Int, max : Int])
    BY DEF CircuitOK
  <2>2. DOMAIN c.inputs[n] = 1..Len(c.inputs[n])
    BY <2>1, LenProperties
  <2>3. a \in [from : Node, min : Int, max : Int]
    BY <1>1, <2>1, ElementOfSeq
  <2>4. a.min <= a.max
    BY <1>1, <2>2 DEF CircuitOK
  <2> QED
    BY <2>3, <2>4
<1>3. PICK b : b = Brought(c, tab, n, a, j)
  OBVIOUS
<1>4. ASSUME NEW p \in Phase
      PROVE  /\ b[p] \in Lists
             /\ NeatTables(tab) =>
                  /\ Neat(b[p])
                  /\ Dates(b[p]) = IF Takes(c, n, p, j)
                                   THEN Moved(tab[a.from][p], a.max, a.min, Shift(c, n, p))
                                   ELSE {}
  <2>1. b[p] = IF Takes(c, n, p, j) THEN AddDelay(tab[a.from][p], a.max, a.min, Shift(c, n, p))
               ELSE <<>>
    BY <1>3 DEF Brought
  <2>2. CASE Takes(c, n, p, j)
    <3>1. PICK list, s : list = tab[a.from][p] /\ s = Shift(c, n, p)
      OBVIOUS
    <3>2. list \in Lists /\ s \in Int /\ (NeatTables(tab) => Neat(list))
      BY <1>2, <3>1, ShiftType DEF Tables, NeatTables, AllNeat, Phase
    <3>3. b[p] = AddDelay(list, a.max, a.min, s)
      BY <2>1, <2>2, <3>1
    <3> QED
      BY <1>2, <2>2, <3>1, <3>2, <3>3, AddDelayIs
  <2>3. CASE ~Takes(c, n, p, j)
    BY <2>1, <2>3, NoDates
  <2> QED
    BY <2>2, <2>3
<1>5. b \in [1..Phases -> Lists]
  <2>1. b = [p \in Phase |-> b[p]]
    BY <1>3 DEF Brought
  <2> QED
    BY <1>4, <2>1 DEF Phase
<1>6. ASSUME NeatTables(tab)
      PROVE  AllNeat(b, Phases) /\ AllDates(b, Phases) = BroughtDates(c, tab, n, a, j)
  <2>1. AllNeat(b, Phases)
    BY <1>4, <1>6 DEF AllNeat, Phase
  <2>2. \A p \in Phase : Dates(b[p]) = IF Takes(c, n, p, j)
                                       THEN Moved(tab[a.from][p], a.max, a.min, Shift(c, n, p))
                                       ELSE {}
    BY <1>4, <1>6
  <2>3. AllDates(b, Phases) = BroughtDates(c, tab, n, a, j)
    BY <2>2 DEF AllDates, BroughtDates, Phase
  <2> QED
    BY <2>1, <2>3
<1> QED
  BY <1>1, <1>3, <1>5, <1>6

(***************************************************************************)
(* Merges of windows in order meet no NULL, and give windows in order      *)
(* whose dates are all those that arrive.                                  *)
(***************************************************************************)
LEMMA ArrivalsAre ==
  ASSUME NEW c, CircuitOK(c), NEW tab \in Tables, NEW n \in Node, NEW j \in Phase
  PROVE  /\ Arrivals(c, tab, n, j) \in Accs
         /\ NeatTables(tab) => Holds(Arrivals(c, tab, n, j), ArrivalDates(c, tab, n, j))
<1>1. PICK l \in Nat : l = Len(c.inputs[n]) /\ DOMAIN c.inputs[n] = 1..l
  <2>1. c.inputs[n] \in Seq([from : Node, min : Int, max : Int])
    BY DEF CircuitOK
  <2> QED
    BY <2>1, LenProperties
<1>2. Phases \in Nat
  BY RelaxationAssumption
<1>3. PICK lots : lots = [k \in 1..l |-> Brought(c, tab, n, c.inputs[n][k], j)]
  OBVIOUS
<1>4. ASSUME NEW k \in 1..l
      PROVE  /\ lots[k] \in [1..Phases -> Lists]
             /\ NeatTables(tab) =>
                  /\ AllNeat(lots[k], Phases)
                  /\ AllDates(lots[k], Phases) = BroughtDates(c, tab, n, c.inputs[n][k], j)
  <2>1. k \in 1..Len(c.inputs[n]) /\ lots[k] = Brought(c, tab, n, c.inputs[n][k], j)
    BY <1>1, <1>3
  <2> QED
    BY <2>1, BroughtIs
<1>5. lots \in [1..l -> [1..Phases -> Lists]]
  <2>1. lots = [k \in 1..l |-> lots[k]]
    BY <1>3
  <2> QED
    BY <1>4, <2>1
<1>6. PICK none : none = [ok |-> TRUE, list |-> <<>>]
  OBVIOUS
<1>7. none \in Accs /\ Holds(none, {})
  BY <1>6, NoDates DEF Accs, Holds
<1>8. PICK data : data = Gathered(lots, none)
  OBVIOUS
<1>9. data \in Accs
  BY <1>2, <1>5, <1>7, <1>8, GatheredType
<1>10. PICK given : given = c.specin[n][j]
  OBVIOUS
<1>11. given \in Lists /\ Neat(given)
  <2>1. given \in Lists /\ Ordered(given)
    BY <1>10 DEF CircuitOK, Lists
  <2> QED
    BY <2>1, OrderedNeat
<1>12. PICK m : m = [data EXCEPT !.list = given]
  OBVIOUS
<1>13. m \in Accs /\ m.list = given /\ m.ok = data.ok /\ data.list \in Lists
  BY <1>9, <1>11, <1>12 DEF Accs
<1>14. Arrivals(c, tab, n, j) = Merge(data.list, m)
  BY <1>1, <1>3, <1>6, <1>8, <1>10, <1>12 DEF Arrivals, Gathered
<1>15. ASSUME NeatTables(tab)
       PROVE  Holds(Merge(data.list, m), ArrivalDates(c, tab, n, j))
  <2>1. \A k \in 1..l : AllNeat(lots[k], Phases)
    BY <1>4, <1>15
  <2>2. PICK S : S = UNION {AllDates(lots[k], Phases) : k \in 1..l}
    OBVIOUS
  <2>3. Holds(data, {} \cup S)
    BY <1>2, <1>5, <1>7, <1>8, <2>1, <2>2, GatheredHolds
  <2>4. data.ok /\ Neat(data.list) /\ Dates(data.list) = S
    BY <2>3 DEF Holds
  <2>5. Holds(m, Dates(given))
    BY <1>11, <1>13, <2>4 DEF Holds
  <2>6. Holds(Merge(data.list, m), Dates(given) \cup S)
    BY <2>4, <2>5, MergeHolds
  <2>7. S = UNION {BroughtDates(c, tab, n, c.inputs[n][k], j) : k \in 1..l}
    <3>1. \A k \in 1..l : AllDates(lots[k], Phases) = BroughtDates(c, tab, n, c.inputs[n][k], j)
      BY <1>4, <1>15
    <3> QED
      BY <2>2, <3>1
  <2>8. ArrivalDates(c, tab, n, j) = Dates(given) \cup S
    BY <1>1, <1>10, <2>7 DEF ArrivalDates
  <2> QED
    BY <2>6, <2>8
<1>16. Merge(data.list, m) \in Accs
  BY <1>13, MergeType
<1> QED
  BY <1>14, <1>15, <1>16

-----------------------------------------------------------------------------
(***************************************************************************)
(* The command of a latch.                                                 *)
(***************************************************************************)
LEMMA EitherOf ==
  ASSUME NEW x \in Int, NEW y \in Int
  PROVE  /\ Smallest({x, y}) = IF x <= y THEN x ELSE y
         /\ Largest({x, y}) = IF x <= y THEN y ELSE x
<1> DEFINE S == {x, y}
<1>1. S \subseteq Int /\ S # {} /\ x \in S /\ y \in S /\ \A t \in S : t = x \/ t = y
  OBVIOUS
<1> HIDE DEF S
<1>2. PICK lo \in Int : lo = IF x <= y THEN x ELSE y
  OBVIOUS
<1>3. PICK hi \in Int : hi = IF x <= y THEN y ELSE x
  OBVIOUS
<1>4. \A t \in S : lo <= t
  BY <1>1, <1>2
<1>5. \A t \in S : t <= hi
  BY <1>1, <1>3
<1>6. Smallest(S) \in S /\ \A t \in S : Smallest(S) <= t
  BY <1>1, <1>4, SmallestIs
<1>7. Largest(S) \in S /\ \A t \in S : t <= Largest(S)
  BY <1>1, <1>5, LargestIs
<1>8. Smallest(S) = lo
  <2>1. PICK t : t = Smallest(S)
    OBVIOUS
  <2>2. (t = x \/ t = y) /\ t <= x /\ t <= y
    BY <1>1, <1>6, <2>1
  <2> QED
    BY <1>2, <2>1, <2>2
<1>9. Largest(S) = hi
  <2>1. PICK t : t = Largest(S)
    OBVIOUS
  <2>2. (t = x \/ t = y) /\ x <= t /\ y <= t
    BY <1>1, <1>7, <2>1
  <2> QED
    BY <1>3, <2>1, <2>2
<1> QED
  BY <1>2, <1>3, <1>8, <1>9 DEF S

(***************************************************************************)
(* The dates of a command.                                                 *)
(***************************************************************************)
LEMMA CommandDates ==
  ASSUME NEW ck, CommandOK(ck), ck.type # "NONE"
  PROVE  /\ SlopeOpen(ck) \in Int /\ SlopeClose(ck) \in Int /\ SlopeOpenMax(ck) \in Int
         /\ SlopeOpenMax(ck) <= SlopeClose(ck)
         /\ Opening(ck, "max") \in Int
         /\ Edge(ck) \in Window /\ Edge(ck).D <= Edge(ck).U
<1>1. /\ ck.period \in Int /\ ck.opens \in MinMax /\ ck.closes \in MinMax /\ ck.access \in MinMax
  BY DEF CommandOK, NoClock
<1>2. \A r \in MinMax : r["min"] \in Int /\ r["max"] \in Int /\ r["min"] <= r["max"]
  BY DEF MinMax
<1>3. Opening(ck, "min") \in Int /\ Opening(ck, "max") \in Int /\ SlopeClose(ck) \in Int
  BY <1>1, <1>2 DEF Opening, SlopeClose
<1>4. SlopeOpenMax(ck) = IF Opening(ck, "max") <= SlopeClose(ck) THEN Opening(ck, "max")
                         ELSE SlopeClose(ck)
  BY <1>3, EitherOf DEF SlopeOpenMax
<1>5. SlopeOpenMax(ck) \in Int /\ SlopeOpenMax(ck) <= SlopeClose(ck)
  BY <1>3, <1>4
<1>6. PICK d, u \in Int : /\ d = ck.opens["min"] + ck.access["min"]
                          /\ u = ck.opens["max"] + ck.access["max"] /\ d <= u
  BY <1>1, <1>2
<1>7. Edge(ck) = [D |-> d, U |-> u]
  BY <1>6 DEF Edge, Pair
<1> QED
  BY <1>3, <1>5, <1>6, <1>7 DEF SlopeOpen, Window

(***************************************************************************)
(* The window a latch starts with is in order.                             *)
(***************************************************************************)
LEMMA InitialWindowType ==
  ASSUME NEW ck, CommandOK(ck), ck.type # "NONE", NEW worst \in BOOLEAN
  PROVE  Neat(InitialWindow(ck, worst))
<1>1. CASE ck.type = "FLIPFLOP"
  BY <1>1, CommandDates, OneWindow DEF InitialWindow
<1>2. CASE ck.type # "FLIPFLOP"
  <2>1. PICK u, d \in Int : /\ u = (IF worst THEN SlopeClose(ck) ELSE Opening(ck, "max"))
                            /\ d = SlopeOpen(ck)
    BY CommandDates
  <2>2. PICK x \in Int : x = (IF d > u THEN u ELSE d) /\ x <= u
    OBVIOUS
  <2>3. InitialWindow(ck, worst) = <<[D |-> x, U |-> u]>>
    BY <1>2, <2>1, <2>2 DEF InitialWindow, Pair
  <2>4. PICK w : w = [D |-> x, U |-> u]
    OBVIOUS
  <2>5. w \in Window /\ w.D <= w.U
    BY <2>2, <2>4 DEF Window
  <2> QED
    BY <2>3, <2>4, <2>5, OneWindow
<1> QED
  BY <1>1, <1>2

(***************************************************************************)
(* The end of a list.                                                      *)
(***************************************************************************)
LEMMA EndOf ==
  ASSUME NEW list \in Lists, NEW f \in 1..(Len(list) + 1)
  PROVE  LET z == SubSeq(list, f, Len(list))
         IN  /\ z \in Lists /\ Len(z) = Len(list) + 1 - f
             /\ \A k \in 1..(Len(list) + 1 - f) : z[k] = list[k + f - 1]
             /\ Neat(list) => Neat(z)
<1> DEFINE n == Len(list)
<1>0. n \in Nat /\ f \in 1..(n + 1) /\ \A k \in 1..n : list[k] \in Window
  BY Listed
<1>1. PICK z : z = SubSeq(list, f, n)
  OBVIOUS
<1> HIDE DEF n
<1>2. z \in Lists /\ Len(z) = n + 1 - f /\ \A k \in 1..(n + 1 - f) : z[k] = list[k + f - 1]
  <2>1. \A k \in f..n : list[k] \in Window
    BY <1>0
  <2>2. f \in Int /\ n \in Int
    BY <1>0
  <2>3. /\ SubSeq(list, f, n) \in Seq(Window)
        /\ Len(SubSeq(list, f, n)) = IF f <= n THEN n - f + 1 ELSE 0
        /\ \A k \in 1..(n - f + 1) : SubSeq(list, f, n)[k] = list[f + k - 1]
    BY <2>1, <2>2, SubSeqProperties
  <2>4. \A k \in 1..(n + 1 - f) : f + k - 1 = k + f - 1 /\ k \in 1..(n - f + 1)
    BY <2>2
  <2> QED
    BY <1>0, <1>1, <2>2, <2>3, <2>4 DEF Lists
<1>3. ASSUME Neat(list) PROVE Neat(z)
  <2>1. /\ \A k \in 1..n : list[k].D <= list[k].U
        /\ \A k, l \in 1..n : k < l => list[k].U < list[l].D
    BY <1>3 DEF Neat, n
  <2>2. \A k \in 1..(n + 1 - f) : k + f - 1 \in 1..n
    BY <1>0
  <2>3. \A k \in 1..Len(z) : z[k].D <= z[k].U
    BY <1>2, <2>1, <2>2
  <2>4. ASSUME NEW k \in 1..(n + 1 - f), NEW l \in 1..(n + 1 - f), k < l PROVE z[k].U < z[l].D
    <3>1. k + f - 1 \in 1..n /\ l + f - 1 \in 1..n /\ k + f - 1 < l + f - 1
      BY <1>0, <2>2, <2>4
    <3>2. list[k + f - 1].U < list[l + f - 1].D
      BY <2>1, <3>1
    <3> QED
      BY <1>2, <3>2
  <2> QED
    BY <1>2, <2>3, <2>4 DEF Neat
<1> QED
  BY <1>1, <1>2, <1>3 DEF n

(***************************************************************************)
(* A window in the place of those before the t-th.                         *)
(***************************************************************************)
LEMMA FrontIs ==
  ASSUME NEW s \in Lists, NEW w \in Window, NEW t
  PROVE  Joined(s, 0, w, t) = <<w>> \o SubSeq(s, t, Len(s))
<1>1. SubSeq(s, 1, 0) = <<>>
  BY SubSeqEmpty
<1>2. <<w>> \in Seq(Window)
  OBVIOUS
<1>3. <<>> \o <<w>> = <<w>>
  BY <1>2, ConcatEmptySeq
<1> QED
  BY <1>1, <1>3 DEF Joined

(***************************************************************************)
(* Where the opening of a latch ends in a list.                            *)
(***************************************************************************)
OpensAt(s, n, openmax, t, w) ==
    /\ \A k \in 1..n : k < t => s[k].U < openmax \/ (k = t - 1 /\ s[k].U = w.U)
    /\ \/ t = 1 /\ Opened(s, openmax) = s
       \/ /\ t > 1 /\ Opened(s, openmax) = Joined(s, 0, w, t) /\ w.D = s[1].D
          /\ s[1].U < openmax
          /\ \/ w.U = openmax /\ (t <= n => openmax < s[t].D)
             \/ t > 2 /\ w.U = s[t - 1].U /\ s[t - 1].D <= openmax /\ openmax <= w.U

(***************************************************************************)
(* It ends in one place of the list.                                       *)
(***************************************************************************)
LEMMA OpenedIs ==
  ASSUME NEW s \in Lists, s # <<>>, NEW openmax \in Int
  PROVE  \E t \in 1..(Len(s) + 1), w \in Window : OpensAt(s, Len(s), openmax, t, w)
<1> DEFINE n == Len(s)
           S == {k \in DOMAIN s : s[k].U >= openmax}
<1>0. /\ n \in Nat /\ n # 0 /\ DOMAIN s = 1..n
      /\ \A k \in 1..n : s[k] \in Window /\ s[k].D \in Int /\ s[k].U \in Int
  BY Listed
<1>1. S \subseteq 1..n
  BY <1>0
<1>2. PICK f : f = First(S, n + 1)
  OBVIOUS
<1>3. f \in 1..(n + 1) /\ (\A k \in S : f <= k) /\ (f <= n => f \in S)
  <2> HIDE DEF n, S
  <2> QED
    BY <1>0, <1>1, <1>2, FirstIs
<1>4. (\A k \in 1..n : k < f => s[k].U < openmax) /\ (f <= n => s[f].U >= openmax)
  <2>1. \A k \in 1..n : k < f => k \notin S
    BY <1>0, <1>3
  <2> QED
    BY <1>0, <1>3, <2>1
<1>5. Opened(s, openmax) =
        IF f = 1 THEN s
        ELSE IF f <= n /\ s[f].D <= openmax
        THEN <<Pair(s[1].D, s[f].U)>> \o SubSeq(s, f + 1, n)
        ELSE <<Pair(s[1].D, openmax)>> \o SubSeq(s, f, n)
  BY <1>2 DEF Opened
<1> HIDE DEF n, S
<1>6. 1 \in 1..n
  BY <1>0
<1>7. CASE f = 1
  <2>1. s[1] \in Window /\ f \in 1..(n + 1) /\ Opened(s, openmax) = s
    BY <1>0, <1>3, <1>5, <1>6, <1>7
  <2>2. \A k \in 1..n : k < f => s[k].U < openmax
    BY <1>4
  <2> QED
    BY <1>7, <2>1, <2>2 DEF n, OpensAt
<1>8. CASE f # 1 /\ f <= n /\ s[f].D <= openmax
  <2>1. PICK w : w = [D |-> s[1].D, U |-> s[f].U]
    OBVIOUS
  <2>2. f \in 1..n /\ f + 1 \in 1..(n + 1) /\ f + 1 > 2 /\ (f + 1) - 1 = f
    BY <1>0, <1>3, <1>8
  <2>3. w \in Window /\ w.D = s[1].D /\ w.U = s[f].U
    BY <1>0, <1>6, <2>1, <2>2 DEF Window
  <2>4. Opened(s, openmax) = Joined(s, 0, w, f + 1)
    <3>1. w = Pair(s[1].D, s[f].U)
      BY <2>1 DEF Pair
    <3>2. Opened(s, openmax) = <<w>> \o SubSeq(s, f + 1, n)
      BY <1>5, <1>8, <3>1
    <3> QED
      BY <2>3, <3>2, FrontIs DEF n
  <2>5. s[1].U < openmax
    BY <1>0, <1>4, <1>6, <1>8, <2>2
  <2>6. \A k \in 1..n : k < f + 1 => s[k].U < openmax \/ (k = (f + 1) - 1 /\ s[k].U = w.U)
    BY <1>0, <1>4, <2>2, <2>3
  <2>7. s[(f + 1) - 1].D <= openmax /\ openmax <= w.U /\ w.U = s[(f + 1) - 1].U
    BY <1>0, <1>4, <1>8, <2>2, <2>3
  <2>8. PICK t : t = f + 1
    OBVIOUS
  <2>9. /\ t \in 1..(Len(s) + 1) /\ t > 2 /\ t > 1
        /\ \A k \in 1..Len(s) : k < t => s[k].U < openmax \/ (k = t - 1 /\ s[k].U = w.U)
        /\ Opened(s, openmax) = Joined(s, 0, w, t)
        /\ s[t - 1].D <= openmax /\ openmax <= w.U /\ w.U = s[t - 1].U
    BY <2>2, <2>4, <2>6, <2>7, <2>8 DEF n
  <2> QED
    BY <2>3, <2>5, <2>9 DEF OpensAt
<1>9. CASE f # 1 /\ ~(f <= n /\ s[f].D <= openmax)
  <2>1. PICK w : w = [D |-> s[1].D, U |-> openmax]
    OBVIOUS
  <2>2. w \in Window /\ w.D = s[1].D /\ w.U = openmax
    BY <1>0, <1>6, <2>1 DEF Window
  <2>3. Opened(s, openmax) = Joined(s, 0, w, f)
    <3>1. w = Pair(s[1].D, openmax)
      BY <2>1 DEF Pair
    <3>2. Opened(s, openmax) = <<w>> \o SubSeq(s, f, n)
      BY <1>5, <1>9, <3>1
    <3> QED
      BY <2>2, <3>2, FrontIs DEF n
  <2>4. f > 1 /\ s[1].U < openmax
    BY <1>3, <1>4, <1>6, <1>9
  <2>5. f <= n => openmax < s[f].D
    BY <1>0, <1>3, <1>9
  <2> QED
    BY <1>3, <1>4, <2>2, <2>3, <2>4, <2>5 DEF n, OpensAt
<1> QED
  BY <1>7, <1>8, <1>9

(***************************************************************************)
(* Some window is left.                                                    *)
(***************************************************************************)
LEMMA OpenedType ==
  ASSUME NEW s \in Lists, s # <<>>, NEW openmax \in Int
  PROVE  Opened(s, openmax) \in Lists /\ Opened(s, openmax) # <<>>
<1>1. PICK t \in 1..(Len(s) + 1), w \in Window : OpensAt(s, Len(s), openmax, t, w)
  BY OpenedIs
<1>2. PICK n \in Nat : n = Len(s)
  BY Listed
<1>4. \/ t = 1 /\ Opened(s, openmax) = s
      \/ t > 1 /\ Opened(s, openmax) = Joined(s, 0, w, t)
  BY <1>1 DEF OpensAt
<1>3. CASE t > 1 /\ Opened(s, openmax) = Joined(s, 0, w, t)
  <2>1. 0 \in 0..n /\ t \in (0 + 1)..(n + 1)
    BY <1>2
  <2>2. PICK r : r = Joined(s, 0, w, t)
    OBVIOUS
  <2>3. r \in Lists /\ Len(r) = n + 0 + 2 - t
    BY <1>2, <2>1, <2>2, JoinedIs
  <2>4. Len(r) # 0
    BY <1>2, <2>3
  <2>5. r # <<>>
    BY <2>3, <2>4, Listed
  <2> QED
    BY <1>3, <2>2, <2>3, <2>5
<1> QED
  BY <1>3, <1>4

(***************************************************************************)
(* Windows within the opening are taken in by one that lasts until its     *)
(* end; no date is lost, and none is found but between the first of the    *)
(* list and the end of the opening.                                        *)
(***************************************************************************)
LEMMA OpenedKeeps ==
  ASSUME NEW s, Neat(s), s # <<>>, NEW openmax \in Int
  PROVE  LET r == Opened(s, openmax)
         IN  /\ Neat(r)
             /\ \A x \in Int :
                  /\ x \in Dates(s) => x \in Dates(r)
                  /\ x \in Dates(r) => x \in Dates(s) \/ (s[1].D <= x /\ x <= openmax)
<1>0. PICK n \in Nat : /\ n = Len(s) /\ n # 0 /\ s \in Lists
                       /\ \A k \in 1..n : s[k].D \in Int /\ s[k].U \in Int /\ s[k].D <= s[k].U
                       /\ \A k, l \in 1..n : k < l => s[k].U < s[l].D
  BY Listed DEF Neat
<1>1. PICK t \in 1..(n + 1), w \in Window : OpensAt(s, n, openmax, t, w)
  BY <1>0, OpenedIs
<1>2. CASE t = 1
  BY <1>1, <1>2 DEF OpensAt
<1>3. CASE t > 1
  <2>0. /\ Opened(s, openmax) = Joined(s, 0, w, t) /\ w.D = s[1].D
        /\ s[1].U < openmax /\ w.D \in Int /\ w.U \in Int
        /\ \/ w.U = openmax /\ (t <= n => openmax < s[t].D)
           \/ t > 2 /\ w.U = s[t - 1].U /\ s[t - 1].D <= openmax /\ openmax <= w.U
    BY <1>1, <1>3 DEF Window, OpensAt
  <2>1. 1 \in 1..n /\ t - 1 \in 1..n /\ t \in (0 + 1)..(Len(s) + 1) /\ 0 \in 0..Len(s)
    BY <1>0, <1>3
  <2>2. w.D <= w.U
    BY <1>0, <2>0, <2>1
  <2>3. t <= Len(s) => w.U < s[t].D
    <3>1. CASE t <= n
      <4>1. t \in 1..n /\ t - 1 < t
        BY <3>1
      <4>2. s[t - 1].U < s[t].D
        BY <1>0, <2>1, <4>1
      <4> QED
        BY <2>0, <3>1, <4>2
    <3> QED
      BY <1>0, <3>1
  <2>4. 0 >= 1 => s[0].U < w.D
    OBVIOUS
  <2>5. Neat(Joined(s, 0, w, t))
    BY <2>1, <2>2, <2>3, <2>4, JoinedNeat
  <2>6. ASSUME NEW x \in Int
        PROVE  /\ x \in Dates(s) => x \in Dates(Joined(s, 0, w, t))
               /\ x \in Dates(Joined(s, 0, w, t)) =>
                    x \in Dates(s) \/ (s[1].D <= x /\ x <= openmax)
    <3>1. x \in Dates(Joined(s, 0, w, t)) <=> \/ Within(x, w)
                                              \/ \E k \in 1..0 : Within(x, s[k])
                                              \/ \E k \in t..Len(s) : Within(x, s[k])
      BY <1>0, <2>1, JoinedDates
    <3>2. x \in Dates(Joined(s, 0, w, t)) <=> Within(x, w) \/ \E k \in t..n : Within(x, s[k])
      BY <1>0, <3>1
    <3>3. x \in Dates(s) <=> \E k \in 1..n : Within(x, s[k])
      BY <1>0, DatesAre
    <3>4. ASSUME NEW k \in 1..n, Within(x, s[k]), k < t PROVE Within(x, w)
      <4>1. s[1].D <= s[k].D
        <5>1. k = 1 \/ s[1].U < s[k].D
          BY <1>0, <2>1
        <5> QED
          BY <1>0, <2>1, <5>1
      <4>2. s[k].U <= w.U
        BY <1>0, <1>1, <2>0, <3>4 DEF OpensAt
      <4> QED
        BY <1>0, <2>0, <2>1, <3>4, <4>1, <4>2 DEF Within
    <3>5. \A k \in 1..n : k < t \/ k \in t..n
      BY <1>0
    <3>6. ASSUME Within(x, w)
          PROVE  (\E k \in 1..n : Within(x, s[k])) \/ (s[1].D <= x /\ x <= openmax)
      <4>1. CASE x <= openmax
        BY <2>0, <3>6, <4>1 DEF Within
      <4>2. CASE ~(x <= openmax)
        <5>1. Within(x, s[t - 1])
          BY <1>0, <2>0, <2>1, <3>6, <4>2 DEF Within
        <5> QED
          BY <2>1, <5>1
      <4> QED
        BY <4>1, <4>2
    <3>7. \A k \in t..n : k \in 1..n
      BY <1>0
    <3> QED
      BY <3>2, <3>3, <3>4, <3>5, <3>6, <3>7
  <2> QED
    BY <2>0, <2>5, <2>6
<1>4. t = 1 \/ t > 1
  BY <1>0
<1> QED
  BY <1>2, <1>3, <1>4

-----------------------------------------------------------------------------
(***************************************************************************)
(* stb_clockmaskstblist: the windows that do not end before a date, and    *)
(* those with the first begun no earlier than it.                          *)
(***************************************************************************)
Kept(list, open) ==
    SubSeq(list, First({k \in DOMAIN list : ~(list[k].U < open)}, Len(list) + 1), Len(list))

Raised(kept, open) == <<Pair(Largest({open, kept[1].D}), kept[1].U)>> \o Tail(kept)

(***************************************************************************)
(* No date from the opening on is lost.                                    *)
(***************************************************************************)
LEMMA KeptIs ==
  ASSUME NEW list \in Lists, NEW open \in Int
  PROVE  LET z == Kept(list, open)
         IN  /\ z \in Lists /\ (Neat(list) => Neat(z))
             /\ z # <<>> => z[1].U >= open
             /\ \A x \in Int : /\ x \in Dates(z) => x \in Dates(list)
                               /\ x \in Dates(list) /\ x >= open => x \in Dates(z)
<1> DEFINE n == Len(list)
           S == {k \in DOMAIN list : ~(list[k].U < open)}
<1>0. n \in Nat /\ DOMAIN list = 1..n /\ \A k \in 1..n : list[k].D \in Int /\ list[k].U \in Int
  BY Listed
<1>1. S \subseteq 1..n
  BY <1>0
<1>2. PICK f : f = First(S, n + 1)
  OBVIOUS
<1>3. f \in 1..(n + 1) /\ (\A k \in S : f <= k) /\ (f <= n => f \in S)
  <2> HIDE DEF n, S
  <2> QED
    BY <1>0, <1>1, <1>2, FirstIs
<1>4. (\A k \in 1..n : k < f => list[k].U < open) /\ (f <= n => list[f].U >= open)
  <2>1. \A k \in 1..n : k < f => k \notin S
    BY <1>0, <1>3
  <2> QED
    BY <1>0, <1>3, <2>1
<1>5. PICK z : z = SubSeq(list, f, n)
  OBVIOUS
<1>6. z = Kept(list, open)
  BY <1>2, <1>5 DEF Kept
<1>7. /\ z \in Lists /\ Len(z) = n + 1 - f /\ (Neat(list) => Neat(z))
      /\ \A k \in 1..(n + 1 - f) : z[k] = list[k + f - 1]
  BY <1>3, <1>5, EndOf
<1> HIDE DEF n, S
<1>8. ASSUME z # <<>> PROVE z[1].U >= open
  <2>1. Len(z) # 0 /\ Len(z) \in Nat
    BY <1>7, <1>8, Listed
  <2>2. 1 \in 1..(n + 1 - f) /\ 1 + f - 1 = f /\ f <= n
    BY <1>0, <1>3, <1>7, <2>1
  <2>3. z[1] = list[1 + f - 1]
    BY <1>7, <2>2
  <2> QED
    BY <1>4, <2>2, <2>3
<1>9. ASSUME NEW x \in Int
      PROVE  /\ x \in Dates(z) => x \in Dates(list)
             /\ x \in Dates(list) /\ x >= open => x \in Dates(z)
  <2>1. /\ x \in Dates(z) <=> \E k \in 1..Len(z) : Within(x, z[k])
        /\ x \in Dates(list) <=> \E k \in 1..n : Within(x, list[k])
    BY <1>7, DatesAre DEF n
  <2>2. ASSUME NEW k \in 1..Len(z), Within(x, z[k]) PROVE \E l \in 1..n : Within(x, list[l])
    <3>1. k + f - 1 \in 1..n /\ z[k] = list[k + f - 1]
      BY <1>0, <1>3, <1>7
    <3> QED
      BY <2>2, <3>1
  <2>3. ASSUME NEW k \in 1..n, Within(x, list[k]), x >= open
        PROVE  \E l \in 1..Len(z) : Within(x, z[l])
    <3>1. ~(list[k].U < open)
      BY <1>0, <2>3 DEF Within
    <3>2. k >= f
      BY <1>3, <1>4, <3>1
    <3>3. k - f + 1 \in 1..(n + 1 - f) /\ (k - f + 1) + f - 1 = k
      BY <1>0, <1>3, <3>2
    <3>4. z[k - f + 1] = list[(k - f + 1) + f - 1]
      BY <1>7, <3>3
    <3> QED
      BY <1>7, <2>3, <3>3, <3>4
  <2> QED
    BY <2>1, <2>2, <2>3
<1> QED
  BY <1>6, <1>7, <1>8, <1>9

(***************************************************************************)
(* Nor any but those before the opening.                                   *)
(***************************************************************************)
LEMMA RaisedIs ==
  ASSUME NEW z \in Lists, z # <<>>, NEW open \in Int
  PROVE  LET r == Raised(z, open)
         IN  /\ r \in Lists /\ r # <<>>
             /\ Neat(z) /\ z[1].U >= open =>
                  /\ Neat(r) /\ r[1].D >= open
                  /\ \A x \in Int : x \in Dates(r) <=> x \in Dates(z) /\ x >= open
<1>0. PICK n \in Nat : /\ n = Len(z) /\ n # 0
                       /\ \A k \in 1..n : z[k].D \in Int /\ z[k].U \in Int
  BY Listed
<1>1. 1 \in 1..n
  BY <1>0
<1>2. PICK d \in Int : /\ d = Largest({open, z[1].D}) /\ d >= open /\ d >= z[1].D
                       /\ (d = open \/ d = z[1].D)
  <2>1. PICK y \in Int : y = z[1].D
    BY <1>0, <1>1
  <2>2. Largest({open, y}) = IF open <= y THEN y ELSE open
    BY EitherOf
  <2>3. PICK d : d = Largest({open, y})
    OBVIOUS
  <2>4. d \in Int /\ d >= open /\ d >= y /\ (d = open \/ d = y)
    BY <2>2, <2>3
  <2> QED
    BY <2>1, <2>3, <2>4
<1>3. PICK w : w = [D |-> d, U |-> z[1].U]
  OBVIOUS
<1>4. w \in Window /\ w.D = d /\ w.U = z[1].U
  BY <1>0, <1>1, <1>3 DEF Window
<1>5. Raised(z, open) = Joined(z, 0, w, 2)
  <2>1. w = Pair(Largest({open, z[1].D}), z[1].U)
    BY <1>2, <1>3 DEF Pair
  <2>2. Tail(z) = SubSeq(z, 2, Len(z))
    BY TailIsSubSeq DEF Lists
  <2>3. Raised(z, open) = <<w>> \o SubSeq(z, 2, Len(z))
    BY <2>1, <2>2 DEF Raised
  <2> QED
    BY <1>4, <2>3, FrontIs
<1>6. PICK r : r = Joined(z, 0, w, 2)
  OBVIOUS
<1>7. 0 \in 0..Len(z) /\ 2 \in (0 + 1)..(Len(z) + 1)
  BY <1>0
<1>8. r \in Lists /\ Len(r) = n + 0 + 2 - 2 /\ r[0 + 1] = w
  BY <1>0, <1>4, <1>6, <1>7, JoinedIs
<1>9. r # <<>>
  <2>1. Len(r) # 0
    BY <1>0, <1>8
  <2> QED
    BY <1>8, <2>1, Listed
<1>10. ASSUME Neat(z), z[1].U >= open
       PROVE  /\ Neat(r) /\ r[1].D >= open
              /\ \A x \in Int : x \in Dates(r) <=> x \in Dates(z) /\ x >= open
  <2>1. /\ \A k \in 1..n : z[k].D <= z[k].U
        /\ \A k, l \in 1..n : k < l => z[k].U < z[l].D
    BY <1>0, <1>10 DEF Neat
  <2>2. w.D <= w.U
    BY <1>0, <1>1, <1>2, <1>4, <1>10, <2>1
  <2>3. 2 <= Len(z) => w.U < z[2].D
    <3>1. 2 <= n => 2 \in 1..n
      OBVIOUS
    <3> QED
      BY <1>0, <1>1, <1>4, <2>1, <3>1
  <2>4. 0 >= 1 => z[0].U < w.D
    OBVIOUS
  <2>5. Neat(r)
    BY <1>4, <1>6, <1>7, <1>10, <2>2, <2>3, <2>4, JoinedNeat
  <2>6. ASSUME NEW x \in Int PROVE x \in Dates(r) <=> x \in Dates(z) /\ x >= open
    <3>1. x \in Dates(r) <=> \/ Within(x, w)
                             \/ \E k \in 1..0 : Within(x, z[k])
                             \/ \E k \in 2..Len(z) : Within(x, z[k])
      BY <1>4, <1>6, <1>7, JoinedDates
    <3>2. x \in Dates(r) <=> Within(x, w) \/ \E k \in 2..n : Within(x, z[k])
      BY <1>0, <3>1
    <3>3. x \in Dates(z) <=> \E k \in 1..n : Within(x, z[k])
      BY <1>0, DatesAre
    <3>4. Within(x, w) <=> Within(x, z[1]) /\ x >= open
      BY <1>0, <1>1, <1>2, <1>4 DEF Within
    <3>5. ASSUME NEW k \in 2..n, Within(x, z[k]) PROVE x >= open
      <4>1. k \in 1..n /\ 1 < k
        OBVIOUS
      <4>2. z[1].U < z[k].D
        BY <1>1, <2>1, <4>1
      <4> QED
        BY <1>0, <1>1, <1>10, <3>5, <4>1, <4>2 DEF Within
    <3>6. \A k : k \in 1..n <=> k = 1 \/ k \in 2..n
      BY <1>1
    <3> QED
      BY <3>2, <3>3, <3>4, <3>5, <3>6
  <2>7. r[1].D >= open
    BY <1>2, <1>4, <1>8
  <2> QED
    BY <2>5, <2>6, <2>7
<1> QED
  BY <1>5, <1>6, <1>8, <1>9, <1>10

(***************************************************************************)
(* The dates of a neat list go from its first to its last.                 *)
(***************************************************************************)
LEMMA NeatBounds ==
  ASSUME NEW z, Neat(z), z # <<>>
  PROVE  /\ Len(z) \in Nat \ {0} /\ z[1].D \in Int /\ Last(z).U \in Int
         /\ z[1].D \in Dates(z) /\ Last(z).U \in Dates(z)
         /\ \A x \in Dates(z) : x \in Int /\ z[1].D <= x /\ x <= Last(z).U
<1>0. PICK n \in Nat : /\ n = Len(z) /\ n # 0 /\ z \in Lists
                       /\ \A k \in 1..n : z[k].D \in Int /\ z[k].U \in Int /\ z[k].D <= z[k].U
                       /\ \A k, l \in 1..n : k < l => z[k].U < z[l].D
  BY Listed DEF Neat
<1>1. 1 \in 1..n /\ n \in 1..n
  BY <1>0
<1>2. Last(z) = z[n]
  BY <1>0 DEF Last
<1>3. Dates(z) \subseteq Int /\ \A x \in Int : x \in Dates(z) <=> \E k \in 1..n : Within(x, z[k])
  BY <1>0, DatesAre
<1>4. Within(z[1].D, z[1]) /\ Within(z[n].U, z[n])
  BY <1>0, <1>1 DEF Within
<1>5. z[1].D \in Dates(z) /\ z[n].U \in Dates(z)
  BY <1>0, <1>1, <1>3, <1>4
<1>6. ASSUME NEW x \in Dates(z) PROVE x \in Int /\ z[1].D <= x /\ x <= z[n].U
  <2>1. PICK k \in 1..n : Within(x, z[k])
    BY <1>3
  <2>2. z[1].D <= z[k].D
    <3>1. k = 1 \/ z[1].U < z[k].D
      BY <1>0, <1>1
    <3> QED
      BY <1>0, <1>1, <3>1
  <2>3. z[k].U <= z[n].U
    <3>1. k = n \/ z[k].U < z[n].D
      BY <1>0, <1>1
    <3> QED
      BY <1>0, <1>1, <3>1
  <2>4. x \in Int /\ z[k].D \in Int /\ z[k].U \in Int /\ z[1].D \in Int /\ z[n].U \in Int
    BY <1>0, <1>1, <1>3
  <2> QED
    BY <2>1, <2>2, <2>3, <2>4 DEF Within
<1> QED
  BY <1>0, <1>1, <1>2, <1>5, <1>6

(***************************************************************************)
(* What is left of the dates S of the data of a latch: those at which it   *)
(* is open, besides its opening, in windows in order; or one window, that  *)
(* ends before it begins, of data that all comes after the closing.        *)
(***************************************************************************)
Earliest(ck) == Smallest({SlopeOpen(ck), SlopeOpenMax(ck)})

WhileOpen(ck, S, t) == t \in S /\ SlopeOpen(ck) <= t /\ t <= SlopeClose(ck)

Beyond(ck, S) == \E t \in S : t >= SlopeClose(ck)

Latched(ck, S, r) ==
    /\ Neat(r) /\ r # <<>>
    /\ \A t \in Int : WhileOpen(ck, S, t) => t \in Dates(r)
    /\ \A t \in Int : t \in Dates(r) => Earliest(ck) <= t /\ t <= SlopeClose(ck)
    /\ \/ Beyond(ck, S)
       \/ \A t \in Int : t \in Dates(r) => \/ WhileOpen(ck, S, t)
                                           \/ Earliest(ck) <= t /\ t <= SlopeOpenMax(ck)

AllLate(ck, S) == \A t \in S : t < SlopeOpen(ck) \/ t > SlopeClose(ck)

Missed(ck, S, r) ==
    /\ \E w \in Window : r = <<w>> /\ w.U = SlopeClose(ck) /\ w.U < w.D
    /\ AllLate(ck, S) /\ Beyond(ck, S)

(***************************************************************************)
(* A latch switches no earlier than the earliest of its opening dates.     *)
(***************************************************************************)
LEMMA FirstDate ==
  ASSUME NEW ck, CommandOK(ck), ck.type # "NONE"
  PROVE  /\ Earliest(ck) \in Int
         /\ Earliest(ck) <= SlopeOpen(ck) /\ Earliest(ck) <= SlopeOpenMax(ck)
         /\ Earliest(ck) = SlopeOpen(ck) \/ Earliest(ck) = SlopeOpenMax(ck)
<1>1. PICK x, y \in Int : x = SlopeOpen(ck) /\ y = SlopeOpenMax(ck)
  BY CommandDates
<1>2. Smallest({x, y}) = IF x <= y THEN x ELSE y
  BY EitherOf
<1>3. Earliest(ck) = Smallest({x, y})
  BY <1>1 DEF Earliest
<1> QED
  BY <1>1, <1>2, <1>3

(***************************************************************************)
(* The three cases of a list that is not empty.                            *)
(***************************************************************************)
LEMMA LatchMaskIs ==
  ASSUME NEW list \in Lists, list # <<>>, NEW ck
  PROVE  LET z == Kept(list, SlopeOpen(ck))
             r == LatchMask(list, ck)
         IN  /\ z = <<>> => r = <<Pair(Earliest(ck), SlopeOpenMax(ck))>>
             /\ z # <<>> /\ Last(z).U >= SlopeClose(ck) =>
                  r = <<Pair(Largest({Smallest({SlopeOpen(ck), SlopeClose(ck)}), z[1].D}),
                             SlopeClose(ck))>>
             /\ z # <<>> /\ ~(Last(z).U >= SlopeClose(ck)) =>
                  r = Opened(Raised(z, SlopeOpen(ck)), SlopeOpenMax(ck))
<1> DEFINE z == Kept(list, SlopeOpen(ck))
<1>1. LatchMask(list, ck) =
        CASE list = <<>> -> <<>>
          [] list # <<>> /\ z = <<>> -> <<Pair(Earliest(ck), SlopeOpenMax(ck))>>
          [] z # <<>> /\ Last(z).U >= SlopeClose(ck) ->
                 <<Pair(Largest({Smallest({SlopeOpen(ck), SlopeClose(ck)}), z[1].D}),
                        SlopeClose(ck))>>
          [] OTHER -> Opened(Raised(z, SlopeOpen(ck)), SlopeOpenMax(ck))
  BY DEF LatchMask, Kept, Raised, Earliest
<1> HIDE DEF z
<1> QED
  BY <1>1 DEF z

LEMMA PairType ==
  ASSUME NEW d \in Int, NEW u \in Int
  PROVE  Pair(d, u) \in Window /\ Pair(d, u).D = d /\ Pair(d, u).U = u
BY DEF Pair, Window

(***************************************************************************)
(* The window that ends at the closing begins no earlier than the opening  *)
(* and than the data.                                                      *)
(***************************************************************************)
LEMMA MissedFrom ==
  ASSUME NEW ck, CommandOK(ck), ck.type # "NONE", NEW d \in Int
  PROVE  LET x == Largest({Smallest({SlopeOpen(ck), SlopeClose(ck)}), d})
         IN  /\ x \in Int /\ x >= d
             /\ Earliest(ck) <= x
             /\ x <= SlopeOpen(ck) \/ x = d
             /\ x <= SlopeClose(ck) \/ x = d
<1>1. PICK open, close \in Int : open = SlopeOpen(ck) /\ close = SlopeClose(ck)
  BY CommandDates
<1>2. PICK m \in Int : m = Smallest({open, close}) /\ m <= open /\ m <= close
                       /\ (m = open \/ m = close)
  <2>1. PICK m : m = Smallest({open, close})
    OBVIOUS
  <2>2. m = IF open <= close THEN open ELSE close
    BY <2>1, EitherOf
  <2>3. m \in Int /\ m <= open /\ m <= close /\ (m = open \/ m = close)
    BY <2>2
  <2> QED
    BY <2>1, <2>3
<1>3. PICK x \in Int : x = Largest({m, d}) /\ x >= d /\ x >= m /\ (x = m \/ x = d)
  <2>1. PICK x : x = Largest({m, d})
    OBVIOUS
  <2>2. x = IF m <= d THEN d ELSE m
    BY <2>1, EitherOf
  <2>3. x \in Int /\ x >= d /\ x >= m /\ (x = m \/ x = d)
    BY <2>2
  <2> QED
    BY <2>1, <2>3
<1>4. Earliest(ck) \in Int /\ Earliest(ck) <= m
  <2>1. PICK f \in Int, top \in Int : /\ f = Earliest(ck) /\ top = SlopeOpenMax(ck)
                                      /\ f <= open /\ f <= top /\ top <= close
    BY <1>1, FirstDate, CommandDates
  <2> QED
    BY <1>2, <2>1
<1>5. x = Largest({Smallest({SlopeOpen(ck), SlopeClose(ck)}), d})
  BY <1>1, <1>2, <1>3
<1>6. Earliest(ck) <= x /\ (x <= open \/ x = d) /\ (x <= close \/ x = d)
  BY <1>2, <1>3, <1>4
<1> QED
  BY <1>1, <1>3, <1>5, <1>6

(***************************************************************************)
(* A latch that has data has a window.                                     *)
(***************************************************************************)
LEMMA LatchMaskType ==
  ASSUME NEW list \in Lists, list # <<>>, NEW ck, CommandOK(ck), ck.type # "NONE"
  PROVE  LatchMask(list, ck) \in Lists /\ LatchMask(list, ck) # <<>>
<1> DEFINE one(w) == <<w>> \in Lists /\ <<w>> # <<>>
<1>1. PICK z : z = Kept(list, SlopeOpen(ck))
  OBVIOUS
<1>2. z \in Lists /\ SlopeOpen(ck) \in Int /\ SlopeClose(ck) \in Int /\ SlopeOpenMax(ck) \in Int
  BY <1>1, CommandDates, KeptIs
<1>3. CASE z = <<>>
  <2>1. Pair(Earliest(ck), SlopeOpenMax(ck)) \in Window
    BY <1>2, FirstDate, PairType
  <2> QED
    BY <1>1, <1>3, <2>1, LatchMaskIs, OneWindow
<1>4. CASE z # <<>> /\ Last(z).U >= SlopeClose(ck)
  <2>1. z[1].D \in Int
    <3>1. 1 \in 1..Len(z) /\ \A k \in 1..Len(z) : z[k].D \in Int
      BY <1>2, <1>4, Listed
    <3> QED
      BY <3>1
  <2>2. PICK x : x = Largest({Smallest({SlopeOpen(ck), SlopeClose(ck)}), z[1].D})
    OBVIOUS
  <2>3. x \in Int
    BY <2>1, <2>2, MissedFrom
  <2>4. Pair(x, SlopeClose(ck)) \in Window
    BY <1>2, <2>3, PairType
  <2> QED
    BY <1>1, <1>4, <2>2, <2>4, LatchMaskIs, OneWindow
<1>5. CASE z # <<>> /\ ~(Last(z).U >= SlopeClose(ck))
  <2>1. PICK r : r = Raised(z, SlopeOpen(ck))
    OBVIOUS
  <2>2. r \in Lists /\ r # <<>>
    BY <1>2, <1>5, <2>1, RaisedIs
  <2>3. Opened(r, SlopeOpenMax(ck)) \in Lists /\ Opened(r, SlopeOpenMax(ck)) # <<>>
    BY <1>2, <2>2, OpenedType
  <2> QED
    BY <1>1, <1>5, <2>1, <2>3, LatchMaskIs
<1> QED
  BY <1>3, <1>4, <1>5

(***************************************************************************)
(* stb_clockmaskstblist of windows in order.                               *)
(***************************************************************************)
LEMMA LatchMaskKeeps ==
  ASSUME NEW list, Neat(list), list # <<>>, NEW ck, CommandOK(ck), ck.type # "NONE"
  PROVE  \/ Latched(ck, Dates(list), LatchMask(list, ck))
         \/ Missed(ck, Dates(list), LatchMask(list, ck))
<1>1. PICK z : z = Kept(list, SlopeOpen(ck))
  OBVIOUS
<1>2. PICK open, close, openmax, first \in Int :
        /\ open = SlopeOpen(ck) /\ close = SlopeClose(ck) /\ openmax = SlopeOpenMax(ck)
        /\ first = Earliest(ck) /\ openmax <= close /\ first <= open /\ first <= openmax
  BY CommandDates, FirstDate
<1>3. PICK S : S = Dates(list) /\ S \subseteq Int /\ list \in Lists
  BY DatesAre DEF Neat
<1>4. /\ z \in Lists /\ Neat(z) /\ (z # <<>> => z[1].U >= open)
      /\ \A x \in Int : /\ x \in Dates(z) => x \in S
                        /\ x \in S /\ x >= open => x \in Dates(z)
  BY <1>1, <1>2, <1>3, KeptIs
<1>5. PICK r : r = LatchMask(list, ck)
  OBVIOUS
<1>6. CASE z = <<>>
  <2>1. PICK w : w = Pair(first, openmax)
    OBVIOUS
  <2>2. w \in Window /\ w.D = first /\ w.U = openmax
    BY <2>1, PairType
  <2>3. r = <<w>>
    BY <1>1, <1>2, <1>3, <1>5, <1>6, <2>1, LatchMaskIs
  <2>4. r # <<>> /\ Neat(r) /\ Dates(r) = first..openmax
    BY <1>2, <2>2, <2>3, OneWindow
  <2>5. \A x \in S : x < open
    BY <1>2, <1>3, <1>4, <1>6, NoDates
  <2>6. \A t \in Int : ~WhileOpen(ck, S, t)
    BY <1>2, <1>3, <2>5 DEF WhileOpen
  <2>7. \A t \in Int : t \in Dates(r) => first <= t /\ t <= openmax /\ t <= close
    BY <1>2, <2>4
  <2> QED
    BY <1>2, <1>3, <1>5, <2>4, <2>6, <2>7 DEF Latched
<1>7. CASE z # <<>> /\ Last(z).U >= close
  <2>1. /\ z[1].D \in Int /\ Last(z).U \in S
        /\ \A x \in Dates(z) : z[1].D <= x
    BY <1>4, <1>7, NeatBounds
  <2>2. Beyond(ck, S)
    BY <1>2, <1>7, <2>1 DEF Beyond
  <2>3. PICK d \in Int : /\ d = Largest({Smallest({open, close}), z[1].D}) /\ d >= z[1].D
                         /\ first <= d
                         /\ d <= open \/ d = z[1].D
                         /\ d <= close \/ d = z[1].D
    BY <1>2, <2>1, MissedFrom
  <2>4. PICK w : w = Pair(d, close)
    OBVIOUS
  <2>5. w \in Window /\ w.D = d /\ w.U = close
    BY <1>2, <2>4, PairType
  <2>6. r = <<w>>
    BY <1>1, <1>2, <1>3, <1>5, <1>7, <2>3, <2>4, LatchMaskIs
  <2>7. \A t \in S : t < open \/ z[1].D <= t
    BY <1>2, <1>3, <1>4, <2>1
  <2>8. CASE d <= close
    <3>1. r # <<>> /\ Neat(r) /\ Dates(r) = d..close
      BY <2>5, <2>6, <2>8, OneWindow
    <3>2. ASSUME NEW t \in Int, WhileOpen(ck, S, t) PROVE t \in Dates(r)
      <4>1. t \in S /\ open <= t /\ t <= close
        BY <1>2, <3>2 DEF WhileOpen
      <4>2. z[1].D <= t
        BY <1>2, <2>7, <4>1
      <4>3. d <= t
        BY <1>2, <2>1, <2>3, <4>1, <4>2
      <4> QED
        BY <1>2, <3>1, <4>1, <4>3
    <3>3. \A t \in Int : t \in Dates(r) => first <= t /\ t <= close
      BY <1>2, <2>3, <3>1
    <3> QED
      BY <1>2, <1>3, <1>5, <2>2, <3>1, <3>2, <3>3 DEF Latched
  <2>9. CASE ~(d <= close)
    <3>1. d = z[1].D /\ close < d
      BY <1>2, <2>3, <2>9
    <3>2. AllLate(ck, S)
      BY <1>2, <1>3, <2>7, <3>1 DEF AllLate
    <3>3. \E x \in Window : r = <<x>> /\ x.U = SlopeClose(ck) /\ x.U < x.D
      BY <1>2, <2>5, <2>6, <3>1
    <3> QED
      BY <1>3, <1>5, <2>2, <3>2, <3>3 DEF Missed
  <2> QED
    BY <2>8, <2>9
<1>8. CASE z # <<>> /\ ~(Last(z).U >= close)
  <2>1. \A x \in Dates(z) : x \in Int /\ x < close
    <3>1. Last(z).U \in Int /\ \A x \in Dates(z) : x \in Int /\ x <= Last(z).U
      BY <1>4, <1>8, NeatBounds
    <3> QED
      BY <1>2, <1>8, <3>1
  <2>2. PICK q : q = Raised(z, open)
    OBVIOUS
  <2>3. /\ q # <<>> /\ Neat(q) /\ q[1].D >= open
        /\ \A x \in Int : x \in Dates(q) <=> x \in Dates(z) /\ x >= open
    BY <1>2, <1>4, <1>8, <2>2, RaisedIs
  <2>4. r = Opened(q, openmax)
    BY <1>1, <1>2, <1>3, <1>5, <1>8, <2>2, LatchMaskIs
  <2>5. /\ Neat(r)
        /\ \A x \in Int : /\ x \in Dates(q) => x \in Dates(r)
                          /\ x \in Dates(r) => x \in Dates(q) \/ (q[1].D <= x /\ x <= openmax)
    BY <1>2, <2>3, <2>4, OpenedKeeps
  <2>6. r # <<>>
    BY <1>2, <2>3, <2>4, OpenedType DEF Neat
  <2>7. q[1].D \in Int
    BY <2>3, NeatBounds
  <2>8. ASSUME NEW t \in Int, WhileOpen(ck, S, t) PROVE t \in Dates(r)
    <3>1. t \in S /\ t >= open
      BY <1>2, <2>8 DEF WhileOpen
    <3> QED
      BY <1>4, <2>3, <2>5, <3>1
  <2>9. ASSUME NEW t \in Int, t \in Dates(r)
        PROVE  first <= t /\ t <= close /\ (WhileOpen(ck, S, t) \/ t <= openmax)
    <3>1. CASE t \in Dates(q)
      <4>1. t \in S /\ t >= open /\ t < close
        BY <1>4, <2>1, <2>3, <3>1
      <4>2. first <= t /\ t <= close /\ open <= t
        BY <1>2, <4>1
      <4> QED
        BY <1>2, <4>1, <4>2 DEF WhileOpen
    <3>2. CASE q[1].D <= t /\ t <= openmax
      BY <1>2, <2>3, <2>7, <3>2
    <3> QED
      BY <2>5, <2>9, <3>1, <3>2
  <2> QED
    BY <1>2, <1>3, <1>5, <2>5, <2>6, <2>8, <2>9 DEF Latched
<1> QED
  BY <1>2, <1>6, <1>7, <1>8

-----------------------------------------------------------------------------
(***************************************************************************)
(* The span of a set with a first and a last date, and what it holds of    *)
(* any set with bounds.                                                    *)
(***************************************************************************)
LEMMA SpanIs ==
  ASSUME NEW S, S \subseteq Int, NEW lo \in S, NEW hi \in S,
         \A t \in S : lo <= t /\ t <= hi
  PROVE  Span(S) = lo..hi
<1>1. lo \in Int /\ hi \in Int /\ S # {}
  OBVIOUS
<1>2. \A t \in S : lo <= t
  OBVIOUS
<1>3. \A t \in S : t <= hi
  OBVIOUS
<1>4. PICK a : a = Smallest(S)
  OBVIOUS
<1>5. a \in S /\ \A t \in S : a <= t
  BY <1>1, <1>2, <1>4, SmallestIs
<1>6. PICK b : b = Largest(S)
  OBVIOUS
<1>7. b \in S /\ \A t \in S : t <= b
  BY <1>1, <1>3, <1>6, LargestIs
<1>8. a = lo /\ b = hi
  BY <1>1, <1>2, <1>3, <1>5, <1>7
<1> QED
  BY <1>1, <1>4, <1>6, <1>8 DEF Span

LEMMA SpanHas ==
  ASSUME NEW S, S \subseteq Int, NEW lo \in Int, NEW hi \in Int,
         \A t \in S : lo <= t /\ t <= hi,
         NEW x \in S, NEW y \in S, NEW t \in Int, x <= t, t <= y
  PROVE  t \in Span(S)
<1>1. S # {}
  OBVIOUS
<1>2. \A u \in S : lo <= u
  OBVIOUS
<1>3. \A u \in S : u <= hi
  OBVIOUS
<1>4. PICK a : a = Smallest(S)
  OBVIOUS
<1>5. a \in S /\ a <= x
  BY <1>1, <1>2, <1>4, SmallestIs
<1>6. PICK b : b = Largest(S)
  OBVIOUS
<1>7. b \in S /\ y <= b
  BY <1>1, <1>3, <1>6, LargestIs
<1>8. Span(S) = a..b
  BY <1>1, <1>4, <1>6 DEF Span
<1>9. a \in Int /\ b \in Int /\ x \in Int /\ y \in Int
  BY <1>5, <1>7
<1> QED
  BY <1>5, <1>7, <1>8, <1>9

(***************************************************************************)
(* stb_globalstbpair of windows in order.                                  *)
(***************************************************************************)
LEMMA HullDates ==
  ASSUME NEW z, Neat(z), z # <<>>
  PROVE  Neat(<<Hull(z)>>) /\ Dates(<<Hull(z)>>) = Span(Dates(z))
<1>0. z \in Lists
  BY DEF Neat
<1>1. PICK lo, hi \in Int : /\ lo = z[1].D /\ hi = Last(z).U
                            /\ lo \in Dates(z) /\ hi \in Dates(z)
                            /\ \A x \in Dates(z) : x \in Int /\ lo <= x /\ x <= hi
  BY NeatBounds
<1>2. Span(Dates(z)) = lo..hi
  <2>1. PICK S : S = Dates(z)
    OBVIOUS
  <2>2. S \subseteq Int /\ lo \in S /\ hi \in S /\ \A x \in S : lo <= x /\ x <= hi
    BY <1>1, <2>1
  <2>3. Span(S) = lo..hi
    BY <2>2, SpanIs
  <2> QED
    BY <2>1, <2>3
<1>3. PICK d, u \in Int :
        /\ \E k \in 1..Len(z) : z[k].D = d
        /\ \E k \in 1..Len(z) : z[k].U = u
        /\ \A k \in 1..Len(z) : d <= z[k].D /\ z[k].U <= u
        /\ Hull(z) = Pair(IF d > u THEN u ELSE d, u)
  BY <1>0, HullIs
<1>4. /\ Len(z) \in Nat \ {0} /\ Last(z) = z[Len(z)]
      /\ \A k \in 1..Len(z) : z[k].D \in Int /\ z[k].U \in Int /\ z[k].D <= z[k].U
  BY <1>0, Listed, NeatBounds DEF Neat, Last
<1>5. 1 \in 1..Len(z) /\ Len(z) \in 1..Len(z)
  BY <1>4
<1>6. d <= lo /\ hi <= u
  BY <1>1, <1>3, <1>4, <1>5
<1>7. \A k \in 1..Len(z) : z[k].D \in Dates(z) /\ z[k].U \in Dates(z)
  <2>1. ASSUME NEW k \in 1..Len(z) PROVE z[k].D \in Dates(z) /\ z[k].U \in Dates(z)
    <3>1. Within(z[k].D, z[k]) /\ Within(z[k].U, z[k]) /\ z[k].D \in Int /\ z[k].U \in Int
      BY <1>4 DEF Within
    <3> QED
      BY <1>0, <3>1, DatesAre
  <2> QED
    BY <2>1
<1>8. d = lo /\ u = hi
  <2>1. lo <= d /\ u <= hi
    BY <1>1, <1>3, <1>7
  <2> QED
    BY <1>1, <1>3, <1>6, <2>1
<1>9. lo <= hi
  BY <1>1
<1>10. Hull(z) \in Window /\ Hull(z).D = lo /\ Hull(z).U = hi
  BY <1>1, <1>3, <1>8, <1>9, PairType
<1> QED
  BY <1>2, <1>9, <1>10, OneWindow

(***************************************************************************)
(* stb_globalstbpair of a window that ends before it begins.               *)
(***************************************************************************)
LEMMA HullOne ==
  ASSUME NEW w \in Window, w.U < w.D
  PROVE  /\ ~Neat(<<w>>)
         /\ Neat(<<Hull(<<w>>)>>) /\ Dates(<<Hull(<<w>>)>>) = {w.U}
<1>1. PICK z : z = <<w>>
  OBVIOUS
<1>2. z \in Lists /\ z # <<>> /\ Len(z) = 1 /\ z[1] = w /\ w.D \in Int /\ w.U \in Int
  BY <1>1, OneWindow DEF Window
<1>3. PICK d, u \in Int :
        /\ \E k \in 1..Len(z) : z[k].D = d
        /\ \E k \in 1..Len(z) : z[k].U = u
        /\ Hull(z) = Pair(IF d > u THEN u ELSE d, u)
  BY <1>2, HullIs
<1>4. d = w.D /\ u = w.U
  BY <1>2, <1>3
<1>5. Hull(z) = Pair(w.U, w.U)
  BY <1>2, <1>3, <1>4
<1>6. Hull(z) \in Window /\ Hull(z).D = w.U /\ Hull(z).U = w.U
  BY <1>2, <1>5, PairType
<1>7. Neat(<<Hull(z)>>) /\ Dates(<<Hull(z)>>) = w.U..w.U
  BY <1>2, <1>6, OneWindow
<1>8. w.U..w.U = {w.U}
  BY <1>2
<1>9. ~Neat(z)
  BY <1>2 DEF Neat
<1> QED
  BY <1>1, <1>7, <1>8, <1>9

-----------------------------------------------------------------------------
(***************************************************************************)
(* stb_transferstbnode: the lists of a node are typed, and there is one    *)
(* window, in order, for each phase when one is asked for.                 *)
(***************************************************************************)
LEMMA ClockMaskType ==
  ASSUME NEW list \in Lists, NEW ck, CommandOK(ck), ck.type # "NONE"
  PROVE  /\ ClockMask(list, ck) \in Lists
         /\ ClockMask(list, ck) = <<>> <=> list = <<>>
<1>1. CASE list = <<>>
  BY <1>1 DEF ClockMask
<1>2. CASE list # <<>> /\ ck.type = "FLIPFLOP"
  <2>1. <<Edge(ck)>> \in Lists /\ <<Edge(ck)>> # <<>>
    BY CommandDates, OneWindow
  <2> QED
    BY <1>2, <2>1 DEF ClockMask
<1>3. CASE list # <<>> /\ ck.type # "FLIPFLOP"
  BY <1>3, LatchMaskType DEF ClockMask
<1> QED
  BY <1>1, <1>2, <1>3

Masked(ck, m) == IF ck.type # "NONE" /\ m.ok THEN ClockMask(m.list, ck) ELSE m.list

(***************************************************************************)
(* The parts of a transfer.                                                *)
(***************************************************************************)
LEMMA TransferredForm ==
  ASSUME NEW c, CircuitOK(c), NEW tab \in Tables, NEW n \in Node, NEW j \in Phase
  PROVE  LET m == Arrivals(c, tab, n, j)
             z == Masked(c.clock[n], m)
             r == Transferred(c, tab, n, j)
         IN  /\ m \in Accs /\ z \in Lists /\ (z = <<>> <=> m.list = <<>>)
             /\ r \in Accs /\ r.ok = m.ok
             /\ r.list = IF c.mono /\ z # <<>> THEN <<Hull(z)>> ELSE z
<1>1. PICK m : m = Arrivals(c, tab, n, j)
  OBVIOUS
<1>2. m \in Accs /\ m.list \in Lists /\ m.ok \in BOOLEAN
  <2>1. m \in Accs
    BY <1>1, ArrivalsAre
  <2> QED
    BY <2>1 DEF Accs
<1>3. PICK ck : ck = c.clock[n] /\ CommandOK(ck)
  BY DEF CircuitOK
<1>4. PICK z : z = Masked(ck, m)
  OBVIOUS
<1>5. z \in Lists /\ (z = <<>> <=> m.list = <<>>)
  <2>1. CASE ck.type # "NONE" /\ m.ok
    BY <1>2, <1>3, <1>4, <2>1, ClockMaskType DEF Masked
  <2>2. CASE ~(ck.type # "NONE" /\ m.ok)
    BY <1>2, <1>4, <2>2 DEF Masked
  <2> QED
    BY <2>1, <2>2
<1>6. PICK q : q = IF c.mono /\ z # <<>> THEN <<Hull(z)>> ELSE z
  OBVIOUS
<1>7. q \in Lists
  <2>1. CASE c.mono /\ z # <<>>
    BY <1>5, <1>6, <2>1, HullType, OneWindow
  <2>2. CASE ~(c.mono /\ z # <<>>)
    BY <1>5, <1>6, <2>2
  <2> QED
    BY <2>1, <2>2
<1>8. Transferred(c, tab, n, j) = [m EXCEPT !.list = q]
  BY <1>1, <1>3, <1>4, <1>6 DEF Transferred, Masked
<1>9. PICK r : r = [m EXCEPT !.list = q]
  OBVIOUS
<1>10. r \in Accs /\ r.ok = m.ok /\ r.list = q
  BY <1>2, <1>7, <1>9 DEF Accs
<1> QED
  BY <1>1, <1>2, <1>3, <1>4, <1>5, <1>6, <1>8, <1>9, <1>10

(***************************************************************************)
(* One window for each phase is always in order.                           *)
(***************************************************************************)
LEMMA MonoNeat ==
  ASSUME NEW c, CircuitOK(c), NEW tab \in Tables, NEW n \in Node, NEW j \in Phase, c.mono
  PROVE  Neat(Transferred(c, tab, n, j).list)
<1>1. PICK z \in Lists :
        Transferred(c, tab, n, j).list = IF c.mono /\ z # <<>> THEN <<Hull(z)>> ELSE z
  BY TransferredForm
<1>2. CASE z = <<>>
  BY <1>1, <1>2, NoDates
<1>3. CASE z # <<>>
  BY <1>1, <1>3, HullType, OneWindow
<1> QED
  BY <1>2, <1>3

(***************************************************************************)
(* The dates at which a latch may switch, from those of its data.          *)
(***************************************************************************)
LatchExact(ck, mono, S, windows) ==
    /\ {t \in S : SlopeOpen(ck) <= t /\ t <= SlopeClose(ck)} \subseteq windows
    /\ S # {} => windows # {}
    /\ windows \subseteq
         LET seen == {t \in S : SlopeOpen(ck) <= t /\ t <= SlopeClose(ck)}
             first == Smallest({SlopeOpen(ck), SlopeOpenMax(ck)})
             may == seen \cup first..SlopeOpenMax(ck)
             over == {t \in S : t >= SlopeClose(ck)}
         IN  IF over # {} THEN Span(may \cup {SlopeClose(ck)})
             ELSE IF mono THEN Span(may) ELSE may

(***************************************************************************)
(* The dates of the opening, and of the data while the latch is open.      *)
(***************************************************************************)
May(ck, S) == {t \in S : SlopeOpen(ck) <= t /\ t <= SlopeClose(ck)}
              \cup Earliest(ck)..SlopeOpenMax(ck)

LEMMA MayIs ==
  ASSUME NEW ck, CommandOK(ck), ck.type # "NONE", NEW S, S \subseteq Int
  PROVE  /\ May(ck, S) \subseteq Int
         /\ Earliest(ck) \in May(ck, S)
         /\ \A t \in Int : t \in May(ck, S) <=>
                WhileOpen(ck, S, t) \/ (Earliest(ck) <= t /\ t <= SlopeOpenMax(ck))
         /\ \A t \in May(ck, S) : Earliest(ck) <= t /\ t <= SlopeClose(ck)
<1>1. PICK open, close, openmax, first \in Int :
        /\ open = SlopeOpen(ck) /\ close = SlopeClose(ck) /\ openmax = SlopeOpenMax(ck)
        /\ first = Earliest(ck) /\ openmax <= close /\ first <= open /\ first <= openmax
  BY CommandDates, FirstDate
<1>2. May(ck, S) = {t \in S : open <= t /\ t <= close} \cup first..openmax
  BY <1>1 DEF May
<1>3. \A t \in Int : WhileOpen(ck, S, t) <=> t \in S /\ open <= t /\ t <= close
  BY <1>1 DEF WhileOpen
<1>4. \A t : t \in May(ck, S) <=> \/ t \in S /\ open <= t /\ t <= close
                                  \/ t \in Int /\ first <= t /\ t <= openmax
  <2>1. \A t : t \in first..openmax <=> t \in Int /\ first <= t /\ t <= openmax
    BY <1>1
  <2> QED
    BY <1>2, <2>1
<1>5. May(ck, S) \subseteq Int /\ first \in May(ck, S)
  <2>1. \A t \in May(ck, S) : t \in Int
    BY <1>4
  <2>2. first \in May(ck, S)
    BY <1>1, <1>4
  <2> QED
    BY <2>1, <2>2
<1>6. \A t \in Int : t \in May(ck, S) <=> WhileOpen(ck, S, t) \/ (first <= t /\ t <= openmax)
  BY <1>3, <1>4
<1>7. ASSUME NEW t \in May(ck, S) PROVE first <= t /\ t <= close
  <2>1. t \in Int /\ ((open <= t /\ t <= close) \/ (first <= t /\ t <= openmax))
    BY <1>4
  <2> QED
    BY <1>1, <2>1
<1> QED
  BY <1>1, <1>5, <1>6, <1>7

(***************************************************************************)
(* Bounds from which the dates of a latch are those Exact asks for.        *)
(***************************************************************************)
LEMMA ExactFrom ==
  ASSUME NEW ck, CommandOK(ck), ck.type # "NONE", NEW mono,
         NEW S, S \subseteq Int, NEW W, W \subseteq Int, W # {},
         \A t \in Int : WhileOpen(ck, S, t) => t \in W,
         \A t \in W : Earliest(ck) <= t /\ t <= SlopeClose(ck),
         Beyond(ck, S) \/ W \subseteq (IF mono THEN Span(May(ck, S)) ELSE May(ck, S))
  PROVE  LatchExact(ck, mono, S, W)
<1>1. {t \in S : SlopeOpen(ck) <= t /\ t <= SlopeClose(ck)} \subseteq W
  BY DEF WhileOpen
<1>2. PICK first, close \in Int : /\ first = Earliest(ck) /\ close = SlopeClose(ck)
                                  /\ first <= close
  BY CommandDates, FirstDate
<1>3. PICK may : may = May(ck, S)
  OBVIOUS
<1>4. may \subseteq Int /\ first \in may /\ \A t \in may : first <= t /\ t <= close
  BY <1>2, <1>3, MayIs
<1>5. ASSUME Beyond(ck, S) PROVE W \subseteq Span(may \cup {close})
  <2>1. PICK A : A = may \cup {close}
    OBVIOUS
  <2>2. A \subseteq Int /\ first \in A /\ close \in A /\ \A t \in A : first <= t /\ t <= close
    <3>1. \A t : t \in A <=> t \in may \/ t = close
      BY <2>1
    <3>2. A \subseteq Int /\ first \in A /\ close \in A
      BY <1>2, <1>4, <3>1
    <3>3. ASSUME NEW t \in A PROVE first <= t /\ t <= close
      <4>1. CASE t \in may
        BY <1>4, <4>1
      <4>2. CASE t = close
        BY <1>2, <4>2
      <4> QED
        BY <3>1, <4>1, <4>2
    <3> QED
      BY <3>2, <3>3
  <2>3. ASSUME NEW t \in W PROVE t \in Span(A)
    <3>1. t \in Int /\ first <= t /\ t <= close
      BY <1>2
    <3> QED
      BY <1>2, <2>2, <3>1, SpanHas
  <2> QED
    BY <2>1, <2>3
<1>6. Beyond(ck, S) <=> {t \in S : t >= SlopeClose(ck)} # {}
  BY DEF Beyond
<1>7. may = {t \in S : SlopeOpen(ck) <= t /\ t <= SlopeClose(ck)}
            \cup Smallest({SlopeOpen(ck), SlopeOpenMax(ck)})..SlopeOpenMax(ck)
  BY <1>3 DEF May, Earliest
<1>8. W \subseteq IF {t \in S : t >= SlopeClose(ck)} # {} THEN Span(may \cup {SlopeClose(ck)})
                  ELSE IF mono THEN Span(may) ELSE may
  BY <1>2, <1>3, <1>5, <1>6
<1> QED
  BY <1>1, <1>7, <1>8 DEF LatchExact

(***************************************************************************)
(* A latch that has seen data, with all its windows or with one.           *)
(***************************************************************************)
LEMMA LatchedDates ==
  ASSUME NEW ck, CommandOK(ck), ck.type # "NONE", NEW S, S \subseteq Int,
         NEW z, Latched(ck, S, z)
  PROVE  /\ LatchExact(ck, FALSE, S, Dates(z))
         /\ LatchExact(ck, TRUE, S, Dates(<<Hull(z)>>))
<1>1. PICK W : W = Dates(z)
  OBVIOUS
<1>2. PICK lo, hi \in Int : /\ lo \in W /\ hi \in W
                            /\ \A x \in W : x \in Int /\ lo <= x /\ x <= hi
  BY <1>1, NeatBounds DEF Latched
<1>3. W \subseteq Int /\ W # {}
  BY <1>2
<1>4. PICK first, close \in Int : first = Earliest(ck) /\ close = SlopeClose(ck)
  BY CommandDates, FirstDate
<1>5. /\ \A t \in Int : WhileOpen(ck, S, t) => t \in W
      /\ \A t \in W : first <= t /\ t <= close
  BY <1>1, <1>3, <1>4 DEF Latched
<1>6. Beyond(ck, S) \/ W \subseteq May(ck, S)
  BY <1>1, <1>3, MayIs DEF Latched
<1>7. LatchExact(ck, FALSE, S, W)
  BY <1>3, <1>4, <1>5, <1>6, ExactFrom
<1>8. Dates(<<Hull(z)>>) = lo..hi
  <2>1. Dates(<<Hull(z)>>) = Span(W)
    BY <1>1, HullDates DEF Latched
  <2>2. Span(W) = lo..hi
    BY <1>2, <1>3, SpanIs
  <2> QED
    BY <2>1, <2>2
<1>9. PICK V : V = lo..hi
  OBVIOUS
<1>10. V \subseteq Int /\ \A t \in Int : t \in V <=> lo <= t /\ t <= hi
  BY <1>2, <1>9
<1>11. V # {} /\ W \subseteq V
  BY <1>2, <1>10
<1>12. \A t \in Int : WhileOpen(ck, S, t) => t \in V
  BY <1>5, <1>11
<1>13. \A t \in V : first <= t /\ t <= close
  BY <1>2, <1>4, <1>5, <1>10
<1>14. ASSUME W \subseteq May(ck, S) PROVE V \subseteq Span(May(ck, S))
  <2>1. PICK A : A = May(ck, S)
    OBVIOUS
  <2>2. A \subseteq Int /\ \A t \in A : first <= t /\ t <= close
    BY <1>4, <2>1, MayIs
  <2>3. lo \in A /\ hi \in A
    BY <1>2, <1>14, <2>1
  <2>4. ASSUME NEW t \in V PROVE t \in Span(A)
    <3>1. t \in Int /\ lo <= t /\ t <= hi
      BY <1>10
    <3> QED
      BY <1>4, <2>2, <2>3, <3>1, SpanHas
  <2> QED
    BY <2>1, <2>4
<1>15. LatchExact(ck, TRUE, S, V)
  <2>1. Beyond(ck, S) \/ V \subseteq (IF TRUE THEN Span(May(ck, S)) ELSE May(ck, S))
    BY <1>6, <1>14
  <2> QED
    BY <1>4, <1>10, <1>11, <1>12, <1>13, <2>1, ExactFrom
<1> QED
  BY <1>1, <1>7, <1>8, <1>9, <1>15

(***************************************************************************)
(* A latch whose data is all late, with one window.                        *)
(***************************************************************************)
LEMMA MissedDates ==
  ASSUME NEW ck, CommandOK(ck), ck.type # "NONE", NEW S, S \subseteq Int,
         NEW z, Missed(ck, S, z)
  PROVE  /\ ~Neat(z)
         /\ LatchExact(ck, TRUE, S, Dates(<<Hull(z)>>))
<1>1. PICK w \in Window : z = <<w>> /\ w.U = SlopeClose(ck) /\ w.U < w.D
  BY DEF Missed
<1>2. PICK first, close \in Int : /\ first = Earliest(ck) /\ close = SlopeClose(ck)
                                  /\ first <= close
  BY CommandDates, FirstDate
<1>3. ~Neat(z) /\ Dates(<<Hull(z)>>) = {close}
  BY <1>1, <1>2, HullOne
<1>4. PICK W : W = {close}
  OBVIOUS
<1>5. W \subseteq Int /\ W # {} /\ \A t \in W : first <= t /\ t <= close
  BY <1>2, <1>4
<1>6. \A t \in Int : WhileOpen(ck, S, t) => t \in W
  <2>1. SlopeOpen(ck) \in Int /\ SlopeClose(ck) \in Int
    BY CommandDates
  <2>2. \A t \in S : t < SlopeOpen(ck) \/ t > SlopeClose(ck)
    BY DEF Missed, AllLate
  <2> QED
    BY <2>1, <2>2 DEF WhileOpen
<1>7. LatchExact(ck, TRUE, S, W)
  BY <1>2, <1>5, <1>6, ExactFrom DEF Missed
<1> QED
  BY <1>3, <1>4, <1>7

LEMMA NoLatchDates ==
  ASSUME NEW ck, CommandOK(ck), ck.type # "NONE", NEW mono
  PROVE  LatchExact(ck, mono, {}, {})
BY DEF LatchExact

(***************************************************************************)
(* From windows in order, stb_mergestbpairlist meets no NULL; the windows  *)
(* found are in order, unless the data of a latch is all late; and they    *)
(* are those of the data.                                                  *)
(***************************************************************************)
LEMMA TransferredIs ==
  ASSUME NEW c, CircuitOK(c), NEW tab \in Tables, NeatTables(tab), NEW n \in Node, NEW j \in Phase
  PROVE  LET r == Transferred(c, tab, n, j)
             S == ArrivalDates(c, tab, n, j)
             ck == c.clock[n]
         IN  /\ r.ok
             /\ ~Neat(r.list) => ~c.mono /\ ck.type = "LATCH" /\ AllLate(ck, S)
             /\ ck.type = "NONE" => Dates(r.list) = IF c.mono THEN Span(S) ELSE S
             /\ ck.type = "LATCH" /\ Neat(r.list) => LatchExact(ck, c.mono, S, Dates(r.list))
<1>1. PICK m : m = Arrivals(c, tab, n, j)
  OBVIOUS
<1>2. PICK S : S = ArrivalDates(c, tab, n, j)
  OBVIOUS
<1>3. m.ok /\ Neat(m.list) /\ Dates(m.list) = S
  BY <1>1, <1>2, ArrivalsAre DEF Holds
<1>4. PICK ck : ck = c.clock[n] /\ CommandOK(ck)
  BY DEF CircuitOK
<1>5. PICK z : z = Masked(ck, m)
  OBVIOUS
<1>6. PICK r : r = Transferred(c, tab, n, j)
  OBVIOUS
<1>7. PICK mono \in BOOLEAN : mono = c.mono
  BY DEF CircuitOK
<1>8. /\ r.ok /\ r.list = IF mono /\ z # <<>> THEN <<Hull(z)>> ELSE z
      /\ (z = <<>> <=> m.list = <<>>)
  BY <1>1, <1>3, <1>4, <1>5, <1>6, <1>7, TransferredForm
<1>9. S \subseteq Int /\ m.list \in Lists
  BY <1>3, DatesAre DEF Neat
<1>10. mono => Neat(r.list)
  BY <1>6, <1>7, MonoNeat
<1>11. CASE z = <<>>
  <2>1. r.list = <<>> /\ S = {} /\ Neat(r.list) /\ Dates(r.list) = {}
    BY <1>3, <1>8, <1>11, NoDates
  <2>2. Dates(r.list) = IF mono THEN Span(S) ELSE S
    BY <2>1 DEF Span
  <2>3. ck.type = "LATCH" => LatchExact(ck, mono, S, Dates(r.list))
    BY <1>4, <2>1, NoLatchDates
  <2> QED
    BY <1>2, <1>4, <1>6, <1>7, <1>8, <2>1, <2>2, <2>3
<1>12. CASE z # <<>> /\ ck.type = "NONE"
  <2>1. z = m.list
    BY <1>5, <1>12 DEF Masked
  <2>2. CASE mono
    <3>1. Dates(r.list) = Span(S)
      BY <1>3, <1>8, <1>12, <2>1, <2>2, HullDates
    <3> QED
      BY <1>2, <1>4, <1>6, <1>7, <1>8, <1>10, <1>12, <2>2, <3>1
  <2>3. CASE ~mono
    <3>1. Dates(r.list) = S /\ Neat(r.list)
      BY <1>3, <1>8, <2>1, <2>3
    <3> QED
      BY <1>2, <1>4, <1>6, <1>7, <1>8, <1>12, <2>3, <3>1
  <2> QED
    BY <2>2, <2>3
<1>13. CASE z # <<>> /\ ck.type = "FLIPFLOP"
  <2>1. z = <<Edge(ck)>>
    BY <1>3, <1>5, <1>8, <1>13 DEF Masked, ClockMask
  <2>2. Neat(z)
    BY <1>4, <1>13, <2>1, CommandDates, OneWindow
  <2>3. Neat(r.list)
    BY <1>8, <1>10, <2>2
  <2> QED
    BY <1>2, <1>4, <1>6, <1>7, <1>8, <1>13, <2>3
<1>14. CASE z # <<>> /\ ck.type = "LATCH"
  <2>1. z = LatchMask(m.list, ck) /\ m.list # <<>>
    BY <1>3, <1>5, <1>8, <1>14 DEF Masked, ClockMask
  <2>2. Latched(ck, S, z) \/ Missed(ck, S, z)
    BY <1>3, <1>4, <1>14, <2>1, LatchMaskKeeps
  <2>3. CASE Latched(ck, S, z)
    <3>1. LatchExact(ck, FALSE, S, Dates(z)) /\ LatchExact(ck, TRUE, S, Dates(<<Hull(z)>>))
      BY <1>4, <1>9, <1>14, <2>3, LatchedDates
    <3>2. Neat(r.list)
      BY <1>8, <1>10, <2>3 DEF Latched
    <3>3. LatchExact(ck, mono, S, Dates(r.list))
      <4>1. CASE mono
        <5>1. r.list = <<Hull(z)>> /\ mono = TRUE
          BY <1>8, <1>14, <4>1
        <5> QED
          BY <3>1, <5>1
      <4>2. CASE ~mono
        <5>1. r.list = z /\ mono = FALSE
          BY <1>8, <4>2
        <5> QED
          BY <3>1, <5>1
      <4> QED
        BY <4>1, <4>2
    <3> QED
      BY <1>2, <1>4, <1>6, <1>7, <1>8, <1>14, <3>2, <3>3
  <2>4. CASE Missed(ck, S, z)
    <3>1. ~Neat(z) /\ LatchExact(ck, TRUE, S, Dates(<<Hull(z)>>))
      BY <1>4, <1>9, <1>14, <2>4, MissedDates
    <3>2. AllLate(ck, S)
      BY <2>4 DEF Missed
    <3>3. CASE mono
      <4>1. r.list = <<Hull(z)>> /\ mono = TRUE
        BY <1>8, <1>14, <3>3
      <4>2. LatchExact(ck, mono, S, Dates(r.list))
        BY <3>1, <4>1
      <4> QED
        BY <1>2, <1>4, <1>6, <1>7, <1>8, <1>10, <1>14, <3>3, <4>2
    <3>4. CASE ~mono
      <4>1. ~Neat(r.list)
        BY <1>8, <3>1, <3>4
      <4> QED
        BY <1>2, <1>4, <1>6, <1>7, <1>8, <1>14, <3>2, <3>4, <4>1
    <3> QED
      BY <3>3, <3>4
  <2> QED
    BY <2>2, <2>3, <2>4
<1>15. ck.type \in {"NONE", "LATCH", "FLIPFLOP"}
  BY <1>4 DEF CommandOK, NoClock
<1> QED
  BY <1>11, <1>12, <1>13, <1>14, <1>15

-----------------------------------------------------------------------------
(***************************************************************************)
(* The dates that reach a node are those Exact speaks of.                  *)
(***************************************************************************)
LEMMA ArriveIs ==
  ASSUME CircuitOK(circuit), NEW n \in Node, NEW j \in Phase
  PROVE  ArrivalDates(circuit, STBTAB, n, j) = Arrive(n, j)
<1> DEFINE c == circuit
           l == Len(c.inputs[n])
           Dated(a, p, s) == UNION {(w.D + a.min - s)..(w.U + a.max - s) :
                                       w \in ToSet(STBTAB[a.from][p])}
<1>1. ToSet(c.inputs[n]) = {c.inputs[n][k] : k \in 1..l}
  <2>1. c.inputs[n] \in Seq([from : Node, min : Int, max : Int])
    BY DEF CircuitOK
  <2>2. DOMAIN c.inputs[n] = 1..l
    BY <2>1, LenProperties
  <2> QED
    BY <2>2 DEF ToSet
<1>2. \A t : t \in ArrivalDates(c, STBTAB, n, j) <=>
        \/ t \in Dates(c.specin[n][j])
        \/ \E a \in ToSet(c.inputs[n]), p \in Phase :
              Takes(c, n, p, j) /\ t \in Dated(a, p, Shift(c, n, p))
  <2>1. \A a, p : Moved(STBTAB[a.from][p], a.max, a.min, Shift(c, n, p))
                    = Dated(a, p, Shift(c, n, p))
    BY DEF Moved
  <2> HIDE DEF Dated
  <2>2. \A a, t : t \in BroughtDates(c, STBTAB, n, a, j) <=>
                    \E p \in Phase : Takes(c, n, p, j) /\ t \in Dated(a, p, Shift(c, n, p))
    BY <2>1 DEF BroughtDates
  <2>3. \A t : t \in ArrivalDates(c, STBTAB, n, j) <=>
          \/ t \in Dates(c.specin[n][j])
          \/ \E k \in 1..l : t \in BroughtDates(c, STBTAB, n, c.inputs[n][k], j)
    BY DEF ArrivalDates
  <2> QED
    BY <1>1, <2>2, <2>3
<1>3. \A t : t \in Arrive(n, j) <=>
        \/ t \in Dates(c.specin[n][j])
        \/ \E x \in Captured(n, j) : t \in Dated(x.arc, x.phase, x.periode)
  BY DEF Arrive
<1> HIDE DEF Dated
<1>4. CASE ~Clocked(n)
  <2>1. \A p \in Phase : (Takes(c, n, p, j) <=> p = j) /\ Shift(c, n, p) = 0
    BY <1>4 DEF Takes, Shift, Clocked
  <2>2. Captured(n, j) = {[arc |-> a, phase |-> j, periode |-> 0] : a \in ToSet(c.inputs[n])}
    BY <1>4 DEF Captured
  <2>3. \A t : (\E x \in Captured(n, j) : t \in Dated(x.arc, x.phase, x.periode))
                 <=> \E a \in ToSet(c.inputs[n]) : t \in Dated(a, j, 0)
    <3>1. ASSUME NEW x \in Captured(n, j)
          PROVE  \E a \in ToSet(c.inputs[n]) : x.arc = a /\ x.phase = j /\ x.periode = 0
      BY <2>2
    <3>2. ASSUME NEW a \in ToSet(c.inputs[n])
          PROVE  \E x \in Captured(n, j) : x.arc = a /\ x.phase = j /\ x.periode = 0
      <4>1. PICK x : x = [arc |-> a, phase |-> j, periode |-> 0]
        OBVIOUS
      <4>2. x \in Captured(n, j)
        BY <2>2, <4>1
      <4> QED
        BY <4>1, <4>2
    <3> QED
      BY <3>1, <3>2
  <2> QED
    BY <1>2, <1>3, <2>1, <2>3
<1>5. CASE Clocked(n)
  <2> DEFINE Q == {q \in Phase : c.clock[n].index = j /\ ~Refused(c, c.clock[n], q)}
  <2>1. \A p \in Phase : /\ Takes(c, n, p, j) <=> p \in Q
                         /\ Shift(c, n, p) = Periode(c, c.clock[n], p)
    BY <1>5 DEF Takes, Shift, Clocked
  <2>2. Captured(n, j) = {[arc |-> a, phase |-> p, periode |-> Periode(c, c.clock[n], p)] :
                             a \in ToSet(c.inputs[n]), p \in Q}
    BY <1>5 DEF Captured
  <2>3. Q \subseteq Phase
    OBVIOUS
  <2> HIDE DEF Q
  <2>4. \A t : (\E x \in Captured(n, j) : t \in Dated(x.arc, x.phase, x.periode))
                 <=> \E a \in ToSet(c.inputs[n]), p \in Q :
                        t \in Dated(a, p, Periode(c, c.clock[n], p))
    <3>1. ASSUME NEW x \in Captured(n, j)
          PROVE  \E a \in ToSet(c.inputs[n]), p \in Q :
                   x.arc = a /\ x.phase = p /\ x.periode = Periode(c, c.clock[n], p)
      BY <2>2
    <3>2. ASSUME NEW a \in ToSet(c.inputs[n]), NEW p \in Q
          PROVE  \E x \in Captured(n, j) :
                   x.arc = a /\ x.phase = p /\ x.periode = Periode(c, c.clock[n], p)
      <4>1. PICK x : x = [arc |-> a, phase |-> p, periode |-> Periode(c, c.clock[n], p)]
        OBVIOUS
      <4>2. x \in Captured(n, j)
        BY <2>2, <4>1
      <4> QED
        BY <4>1, <4>2
    <3> QED
      BY <3>1, <3>2
  <2> QED
    BY <1>2, <1>3, <2>1, <2>3, <2>4
<1> QED
  BY <1>4, <1>5

-----------------------------------------------------------------------------
(***************************************************************************)
(* The tables of the windows hold lists of windows.                        *)
(***************************************************************************)
Typed == circuit \in Circuits /\ STBTAB \in Tables

LEMMA GivenOK ==
  ASSUME Typed
  PROVE  CircuitOK(circuit)
BY RelaxationAssumption DEF Typed

(***************************************************************************)
(* stb_initstbnode.                                                        *)
(***************************************************************************)
LEMMA InitTyped ==
  ASSUME Init
  PROVE  Typed
<1>1. circuit \in Circuits /\ STBTAB = InitialTab(circuit)
  BY DEF Init
<1>2. CircuitOK(circuit)
  BY <1>1, RelaxationAssumption
<1>3. ASSUME NEW n \in Node, NEW p \in Phase PROVE STBTAB[n][p] \in Lists
  <2>1. PICK ck : ck = circuit.clock[n] /\ CommandOK(ck)
    BY <1>2 DEF CircuitOK
  <2>2. circuit.specin[n][p] \in Lists /\ circuit.worst \in BOOLEAN
    BY <1>2 DEF CircuitOK, Lists
  <2>3. STBTAB[n][p] = IF ck.type # "NONE" /\ ck.index = p
                       THEN InitialWindow(ck, circuit.worst) ELSE circuit.specin[n][p]
    BY <1>1, <2>1 DEF InitialTab
  <2>4. CASE ck.type # "NONE" /\ ck.index = p
    <3>1. InitialWindow(ck, circuit.worst) \in Lists
      BY <2>1, <2>2, <2>4, InitialWindowType DEF Neat
    <3> QED
      BY <2>3, <2>4, <3>1
  <2>5. CASE ~(ck.type # "NONE" /\ ck.index = p)
    BY <2>2, <2>3, <2>5
  <2> QED
    BY <2>4, <2>5
<1>4. STBTAB = [n \in Node |-> [p \in Phase |-> STBTAB[n][p]]]
  BY <1>1 DEF InitialTab
<1>5. STBTAB \in Tables
  BY <1>3, <1>4 DEF Tables
<1> QED
  BY <1>1, <1>5 DEF Typed

(***************************************************************************)
(* What stb_transferstbnode would give a node, while all windows are in    *)
(* order.                                                                  *)
(***************************************************************************)
LEMMA ResultIs ==
  ASSUME Typed, NEW n \in Node, NEW j \in Phase
  PROVE  /\ Result(n, j).list \in Lists
         /\ Inverted = {} =>
              /\ Result(n, j).ok
              /\ ~Neat(Result(n, j).list) => ~circuit.mono /\ Late(n, j)
              /\ ~Clocked(n) => Dates(Result(n, j).list) = IF circuit.mono THEN Span(Arrive(n, j))
                                                            ELSE Arrive(n, j)
              /\ circuit.clock[n].type = "LATCH" /\ Neat(Result(n, j).list) =>
                   LatchExact(circuit.clock[n], circuit.mono, Arrive(n, j),
                              Dates(Result(n, j).list))
<1>1. CircuitOK(circuit) /\ STBTAB \in Tables
  BY GivenOK DEF Typed
<1>2. PICK r : r = Transferred(circuit, STBTAB, n, j)
  OBVIOUS
<1>3. Result(n, j) = r
  BY <1>2 DEF Result
<1>4. r.list \in Lists
  <2>1. r \in Accs
    BY <1>1, <1>2, TransferredForm
  <2> QED
    BY <2>1 DEF Accs
<1>5. PICK S : S = ArrivalDates(circuit, STBTAB, n, j)
  OBVIOUS
<1>6. S = Arrive(n, j)
  BY <1>1, <1>5, ArriveIs
<1>7. ASSUME Inverted = {} PROVE NeatTables(STBTAB)
  <2>1. ASSUME NEW m \in Node, NEW p \in Phase PROVE Neat(STBTAB[m][p])
    <3>1. PICK list : list = STBTAB[m][p]
      OBVIOUS
    <3>2. list \in Lists
      BY <1>1, <3>1 DEF Tables
    <3>3. Ordered(list)
      BY <1>7, <3>1 DEF Inverted
    <3> QED
      BY <3>1, <3>2, <3>3, OrderedNeat
  <2> QED
    BY <2>1 DEF NeatTables, AllNeat, Phase
<1>8. ASSUME NeatTables(STBTAB)
      PROVE  /\ r.ok
             /\ ~Neat(r.list) => ~circuit.mono /\ circuit.clock[n].type = "LATCH"
                                 /\ AllLate(circuit.clock[n], S)
             /\ circuit.clock[n].type = "NONE" =>
                  Dates(r.list) = IF circuit.mono THEN Span(S) ELSE S
             /\ circuit.clock[n].type = "LATCH" /\ Neat(r.list) =>
                  LatchExact(circuit.clock[n], circuit.mono, S, Dates(r.list))
  BY <1>1, <1>2, <1>5, <1>8, TransferredIs
<1>9. circuit.clock[n].type = "LATCH" /\ AllLate(circuit.clock[n], S) => Late(n, j)
  BY <1>6 DEF Late, AllLate, Clocked
<1> QED
  BY <1>3, <1>4, <1>6, <1>7, <1>8, <1>9 DEF Clocked

(***************************************************************************)
(* A transfer changes the windows of its node only.                        *)
(***************************************************************************)
LEMMA TransferGives ==
  ASSUME Typed, NEW x \in Node, Transfer(x)
  PROVE  /\ \A n \in Node, p \in Phase :
              STBTAB'[n][p] = IF n = x THEN Result(x, p).list ELSE STBTAB[n][p]
         /\ Typed'
<1> DEFINE new == [p \in Phase |-> Result(x, p).list]
<1>1. STBTAB' = [STBTAB EXCEPT ![x] = new] /\ circuit' = circuit
  BY DEF Transfer
<1>2. \A p \in Phase : new[p] = Result(x, p).list
  OBVIOUS
<1>3. new \in [Phase -> Lists]
  BY ResultIs
<1> HIDE DEF new
<1>4. STBTAB' \in Tables
  BY <1>1, <1>3 DEF Typed, Tables
<1>5. \A n \in Node : STBTAB'[n] = IF n = x THEN new ELSE STBTAB[n]
  BY <1>1 DEF Typed, Tables
<1> QED
  BY <1>1, <1>2, <1>4, <1>5 DEF Typed

(***************************************************************************)
(* In every state of stb_relaxation the tables hold lists of windows.      *)
(***************************************************************************)
THEOREM TablesTyped == Spec => []Typed
<1>1. Init => Typed
  BY InitTyped
<1>2. Typed /\ [Next]_vars => Typed'
  <2> SUFFICES ASSUME Typed, [Next]_vars PROVE Typed'
    OBVIOUS
  <2>1. CASE NextPass
    BY <2>1 DEF NextPass, Typed
  <2>2. CASE Finish
    BY <2>2 DEF Finish, Typed
  <2>3. ASSUME NEW n \in Node, Skip(n) PROVE Typed'
    BY <2>3 DEF Skip, Typed
  <2>4. ASSUME NEW n \in Node, Transfer(n) PROVE Typed'
    BY <2>4, TransferGives
  <2>5. ASSUME NEW n \in Node, Crash(n) PROVE Typed'
    BY <2>5 DEF Crash, Typed
  <2>6. CASE UNCHANGED vars
    BY <2>6 DEF vars, Typed
  <2> QED
    BY <2>1, <2>2, <2>3, <2>4, <2>5, <2>6 DEF Next
<1> QED
  BY <1>1, <1>2, PTL DEF Spec

(***************************************************************************)
(* What one step of stb_relaxation may do to windows that are in order.    *)
(***************************************************************************)
LateOnly ==
    Inverted = {} =>
       /\ pc' # "crashed"
       /\ \A n \in Node, p \in Phase : ~Ordered(STBTAB'[n][p]) => ~circuit.mono /\ Late(n, p)

LEMMA OthersInOrder ==
  ASSUME UNCHANGED STBTAB, Inverted = {}
  PROVE  \A n \in Node, p \in Phase : Ordered(STBTAB'[n][p])
BY DEF Inverted

(***************************************************************************)
(* Windows in order stay in order and are merged without a NULL, until all *)
(* the data of a latch comes after its closing; and then only if more than *)
(* one window is kept for each phase.                                      *)
(***************************************************************************)
THEOREM LateDataInverts == Spec => InvertedByLateData
<1>1. Typed /\ [Next]_vars => [LateOnly]_vars
  <2> SUFFICES ASSUME Typed, Next, Inverted = {}
               PROVE  /\ pc' # "crashed"
                      /\ \A n \in Node, p \in Phase :
                           ~Ordered(STBTAB'[n][p]) => ~circuit.mono /\ Late(n, p)
    BY DEF LateOnly
  <2>1. CASE NextPass
    BY <2>1, OthersInOrder DEF NextPass
  <2>2. CASE Finish
    BY <2>2, OthersInOrder DEF Finish
  <2>3. CASE \E n \in Node : Skip(n)
    BY <2>3, OthersInOrder DEF Skip, Visit
  <2>4. ASSUME NEW x \in Node, Transfer(x)
        PROVE  /\ pc' # "crashed"
               /\ \A n \in Node, p \in Phase :
                    ~Ordered(STBTAB'[n][p]) => ~circuit.mono /\ Late(n, p)
    <3>1. pc' # "crashed"
      BY <2>4 DEF Transfer, Visit
    <3>2. ASSUME NEW n \in Node, NEW p \in Phase, ~Ordered(STBTAB'[n][p])
          PROVE  ~circuit.mono /\ Late(n, p)
      <4>1. PICK list : list = Result(x, p).list
        OBVIOUS
      <4>2. list \in Lists /\ (~Neat(list) => ~circuit.mono /\ Late(x, p))
        BY <4>1, ResultIs
      <4>3. n = x
        BY <2>4, <3>2, TransferGives DEF Inverted
      <4>4. ~Ordered(list)
        BY <2>4, <3>2, <4>1, <4>3, TransferGives
      <4> QED
        BY <4>2, <4>3, <4>4, OrderedNeat
    <3> QED
      BY <3>1, <3>2
  <2>5. ASSUME NEW x \in Node, Crash(x) PROVE FALSE
    <3>1. \E p \in Phase : ~Result(x, p).ok
      BY <2>5 DEF Crash
    <3> QED
      BY <3>1, ResultIs
  <2> QED
    BY <2>1, <2>2, <2>3, <2>4, <2>5 DEF Next
<1>2. InvertedByLateData <=> [][LateOnly]_vars
  BY DEF InvertedByLateData, LateOnly
<1> QED
  BY <1>1, <1>2, TablesTyped, PTL DEF Spec

(***************************************************************************)
(* Windows that are what a transfer would give have the dates of the data. *)
(***************************************************************************)
LEMMA ConvergedExact ==
  ASSUME Typed, Converged
  PROVE  Exact
<1> SUFFICES ASSUME pc = "done", Levelled, Inverted = {}, NEW n \in Node, NEW j \in Phase
             PROVE  /\ ~Clocked(n) => Dates(STBTAB[n][j]) = IF circuit.mono THEN Span(Arrive(n, j))
                                                            ELSE Arrive(n, j)
                    /\ circuit.clock[n].type = "LATCH" =>
                         LatchExact(circuit.clock[n], circuit.mono, Arrive(n, j),
                                    Dates(STBTAB[n][j]))
  BY DEF Exact, LatchExact
<1>1. PICK list : list = Result(n, j).list
  OBVIOUS
<1>2. list = STBTAB[n][j]
  BY <1>1 DEF Converged, Fixpoint
<1>3. list \in Lists
  BY <1>1, ResultIs
<1>4. Ordered(list)
  BY <1>2 DEF Inverted
<1>5. Neat(list)
  BY <1>3, <1>4, OrderedNeat
<1> QED
  BY <1>1, <1>2, <1>5, ResultIs

(***************************************************************************)
(* The windows found are those of the data.                                *)
(***************************************************************************)
THEOREM WindowsExact == Spec => []Exact
<1>1. Typed /\ Converged => Exact
  BY ConvergedExact
<1> QED
  BY <1>1, TablesTyped, EndsConverged, PTL

-----------------------------------------------------------------------------
(***************************************************************************)
(* Data is never lost on its way: a merge, a fusion or a mask gives no     *)
(* window only when it is given none.  (Whether the windows are in order   *)
(* does not matter here.)                                                  *)
(***************************************************************************)
LEMMA InsertEmpty ==
  ASSUME NEW m \in Accs, m.list # <<>>, NEW elm \in Window
  PROVE  Insert(m, elm) \in Accs /\ Insert(m, elm).list # <<>>
<1>0. m.list \in Lists /\ m.ok \in BOOLEAN
  BY DEF Accs
<1>1. PICK b : b = Before(m.list, elm)
  OBVIOUS
<1>2. PICK t : t = After(m.list, elm)
  OBVIOUS
<1>3. b \in 0..Len(m.list) /\ t \in 1..(Len(m.list) + 1)
  BY <1>0, <1>1, <1>2, PlacesOf
<1>4. CASE ~m.ok \/ t <= b
  <2>1. Insert(m, elm) = [m EXCEPT !.ok = FALSE]
    BY <1>1, <1>2, <1>4 DEF Insert
  <2>2. Insert(m, elm).list = m.list
    BY <2>1 DEF Accs
  <2> QED
    BY <2>2, InsertGives
<1>5. CASE m.ok /\ ~(t <= b)
  <2>1. b < t /\ t \in (b + 1)..(Len(m.list) + 1)
    BY <1>3, <1>5
  <2>2. PICK q : q = Met(m.list, elm, b, t)
    OBVIOUS
  <2>3. PICK h : h = Hull(q)
    OBVIOUS
  <2>4. h \in Window
    <3>1. q \in Lists /\ q # <<>>
      BY <1>0, <1>3, <2>1, <2>2, MetIs
    <3> QED
      BY <2>3, <3>1, HullType
  <2>5. PICK r : r = Joined(m.list, b, h, t)
    OBVIOUS
  <2>6. r \in Lists /\ Len(r) = Len(m.list) + b + 2 - t
    <3>1. PICK s : s = m.list
      OBVIOUS
    <3>2. s \in Lists /\ b \in 0..Len(s) /\ t \in (b + 1)..(Len(s) + 1)
      BY <1>0, <1>3, <2>1, <3>1
    <3>3. Joined(s, b, h, t) \in Lists /\ Len(Joined(s, b, h, t)) = Len(s) + b + 2 - t
      BY <2>4, <3>2, JoinedIs
    <3> QED
      BY <2>5, <3>1, <3>3
  <2>7. Len(r) # 0
    <3>1. Len(m.list) \in Nat
      BY <1>0, Listed
    <3> QED
      BY <1>3, <2>6, <3>1
  <2>8. r # <<>>
    BY <2>6, <2>7, Listed
  <2>9. Insert(m, elm).list = r
    BY <1>1, <1>2, <1>5, <2>1, <2>2, <2>3, <2>5, InsertGives
  <2> QED
    BY <2>8, <2>9, InsertGives
<1> QED
  BY <1>0, <1>4, <1>5

LEMMA MergeEmpty ==
  ASSUME NEW list \in Lists, NEW m \in Accs
  PROVE  Merge(list, m).list = <<>> <=> list = <<>> /\ m.list = <<>>
<1>1. CASE list = <<>>
  BY <1>1 DEF Merge
<1>2. CASE list # <<>> /\ m.list = <<>>
  <2>1. Merge(list, m) = [m EXCEPT !.list = list]
    BY <1>2 DEF Merge
  <2>2. Merge(list, m).list = list
    BY <2>1 DEF Accs
  <2> QED
    BY <1>2, <2>2
<1>3. CASE list # <<>> /\ m.list # <<>>
  <2>1. PICK n \in Nat : n = Len(list) /\ \A k \in 1..n : list[k] \in Window
    BY Listed
  <2>2. PICK r \in [0..n -> Accs] : /\ r[0] = m /\ r[n] = FoldLeft(Insert, m, list)
                                    /\ \A k \in 1..n : r[k] = Insert(r[k - 1], list[k])
    BY <2>1, InsertFold
  <2> DEFINE Q == {k \in 0..n : r[k].list # <<>>}
  <2>3. 0 \in Q
    BY <1>3, <2>1, <2>2
  <2>4. ASSUME NEW k \in 1..n, k - 1 \in Q PROVE k \in Q
    <3>1. PICK q, w : q = r[k - 1] /\ w = list[k]
      OBVIOUS
    <3>2. q \in Accs /\ q.list # <<>> /\ w \in Window /\ k \in 0..n
      BY <2>1, <2>2, <2>4, <3>1
    <3>3. Insert(q, w).list # <<>>
      BY <3>2, InsertEmpty
    <3> QED
      BY <2>2, <3>1, <3>2, <3>3
  <2> HIDE DEF Q
  <2>5. n \in Q
    <3>1. \A k \in 0..n : k \in Q
      BY <2>1, <2>3, <2>4, UpTo
    <3> QED
      BY <2>1, <3>1
  <2>6. r[n].list # <<>>
    BY <2>5 DEF Q
  <2>7. Merge(list, m) = r[n]
    BY <1>3, <2>2 DEF Merge
  <2> QED
    BY <1>3, <2>6, <2>7
<1> QED
  BY <1>1, <1>2, <1>3

LEMMA MergeAllEmpty ==
  ASSUME NEW n \in Nat, NEW lists \in [1..n -> Lists], NEW m \in Accs
  PROVE  MergeAll(lists, m).list = <<>> <=> m.list = <<>> /\ \A k \in 1..n : lists[k] = <<>>
<1>1. PICK r \in [0..n -> Accs] : /\ r[0] = m /\ r[n] = MergeAll(lists, m)
                                  /\ \A k \in 1..n : r[k] = Merge(lists[k], r[k - 1])
  BY MergeFold
<1> DEFINE Q == {l \in 0..n : r[l].list = <<>> <=>
                                m.list = <<>> /\ \A k \in 1..l : lists[k] = <<>>}
<1>2. 0 \in Q
  BY <1>1
<1>3. ASSUME NEW k \in 1..n, k - 1 \in Q PROVE k \in Q
  <2>1. PICK x, q : x = lists[k] /\ q = r[k - 1]
    OBVIOUS
  <2>2. x \in Lists /\ q \in Accs /\ k \in 0..n
    BY <2>1
  <2>3. q.list = <<>> <=> m.list = <<>> /\ \A l \in 1..(k - 1) : lists[l] = <<>>
    BY <1>3, <2>1
  <2>4. Merge(x, q).list = <<>> <=> x = <<>> /\ q.list = <<>>
    BY <2>2, MergeEmpty
  <2>5. r[k] = Merge(x, q)
    BY <1>1, <2>1
  <2>6. \A l : l \in 1..k <=> l \in 1..(k - 1) \/ l = k
    OBVIOUS
  <2> QED
    BY <2>1, <2>2, <2>3, <2>4, <2>5, <2>6
<1> HIDE DEF Q
<1>4. \A k \in 0..n : k \in Q
  BY <1>2, <1>3, UpTo
<1>5. n \in Q
  BY <1>4
<1> QED
  BY <1>1, <1>5 DEF Q

LEMMA GatheredEmpty ==
  ASSUME NEW n \in Nat, NEW p \in Nat, NEW lists \in [1..n -> [1..p -> Lists]], NEW m \in Accs
  PROVE  Gathered(lists, m).list = <<>> <=>
           m.list = <<>> /\ \A k \in 1..n, q \in 1..p : lists[k][q] = <<>>
<1>1. PICK r \in [0..n -> Accs] : /\ r[0] = m /\ r[n] = Gathered(lists, m)
                                  /\ \A k \in 1..n : r[k] = MergeAll(lists[k], r[k - 1])
  BY GatherFold
<1> DEFINE Q == {l \in 0..n : r[l].list = <<>> <=>
                                m.list = <<>> /\ \A k \in 1..l, s \in 1..p : lists[k][s] = <<>>}
<1>2. 0 \in Q
  BY <1>1
<1>3. ASSUME NEW k \in 1..n, k - 1 \in Q PROVE k \in Q
  <2>1. PICK x, q : x = lists[k] /\ q = r[k - 1]
    OBVIOUS
  <2>2. x \in [1..p -> Lists] /\ q \in Accs /\ k \in 0..n
    BY <2>1
  <2>3. q.list = <<>> <=> m.list = <<>> /\ \A l \in 1..(k - 1), s \in 1..p : lists[l][s] = <<>>
    BY <1>3, <2>1
  <2>4. MergeAll(x, q).list = <<>> <=> q.list = <<>> /\ \A s \in 1..p : x[s] = <<>>
    BY <2>2, MergeAllEmpty
  <2>5. r[k] = MergeAll(x, q)
    BY <1>1, <2>1
  <2>6. \A l : l \in 1..k <=> l \in 1..(k - 1) \/ l = k
    OBVIOUS
  <2> QED
    BY <2>1, <2>2, <2>3, <2>4, <2>5, <2>6
<1> HIDE DEF Q
<1>4. \A k \in 0..n : k \in Q
  BY <1>2, <1>3, UpTo
<1>5. n \in Q
  BY <1>4
<1> QED
  BY <1>1, <1>5 DEF Q

LEMMA AddDelayEmpty ==
  ASSUME NEW list \in Lists, NEW hi \in Int, NEW lo \in Int, NEW periode \in Int
  PROVE  AddDelay(list, hi, lo, periode) = <<>> <=> list = <<>>
<1>1. PICK n \in Nat : /\ n = Len(list) /\ DOMAIN list = 1..n /\ (list = <<>> <=> n = 0)
                       /\ \A k \in 1..n : list[k].D \in Int /\ list[k].U \in Int
  BY Listed
<1>2. PICK s : s = [k \in 1..n |-> Pair(list[k].D + lo - periode, list[k].U + hi - periode)]
  OBVIOUS
<1>3. s \in Lists /\ Len(s) = n /\ \A k \in 1..n : s[k] \in Window
  <2>1. \A k \in 1..n : Pair(list[k].D + lo - periode, list[k].U + hi - periode) \in Window
    BY <1>1 DEF Pair, Window
  <2>2. s \in [1..n -> Window]
    BY <1>2, <2>1
  <2> QED
    BY <1>1, <2>2 DEF Lists
<1>4. AddDelay(list, hi, lo, periode) = Fuse(s)
  BY <1>1, <1>2 DEF AddDelay
<1>5. PICK r \in [0..n -> Lists] : /\ r[0] = <<>> /\ r[n] = Fuse(s)
                                   /\ \A k \in 1..n : r[k] = FuseStep(r[k - 1], s[k])
  BY <1>3, FuseFold
<1>6. CASE n = 0
  BY <1>1, <1>4, <1>5, <1>6
<1>7. CASE n # 0
  <2>1. PICK acc, w : acc = r[n - 1] /\ w = s[n]
    OBVIOUS
  <2>2. acc \in Lists /\ w \in Window /\ r[n] = FuseStep(acc, w)
    <3>1. n \in 1..n /\ n - 1 \in 0..n
      BY <1>7
    <3> QED
      BY <1>3, <1>5, <2>1, <3>1
  <2>3. FuseStep(acc, w) # <<>>
    <3>1. CASE acc # <<>> /\ Last(acc).U >= w.D
      <4>1. PICK l \in Nat : l = Len(acc) /\ l # 0 /\ acc[l] \in Window
        BY <2>2, <3>1, Listed
      <4>2. PICK v : v = Pair(Last(acc).D, w.U)
        OBVIOUS
      <4>3. v \in Window
        BY <2>2, <4>1, <4>2 DEF Pair, Last, Window
      <4>4. PICK j : j = Joined(acc, l - 1, v, l + 1)
        OBVIOUS
      <4>5. j \in Lists /\ Len(j) = l
        <5>1. PICK b, t \in Int : b = l - 1 /\ t = l + 1
          OBVIOUS
        <5>2. b \in 0..Len(acc) /\ t \in (b + 1)..(Len(acc) + 1)
          BY <4>1, <5>1
        <5>3. Joined(acc, b, v, t) \in Lists /\ Len(Joined(acc, b, v, t)) = Len(acc) + b + 2 - t
          BY <2>2, <4>3, <5>2, JoinedIs
        <5> QED
          BY <4>1, <4>4, <5>1, <5>3
      <4>6. j # <<>>
        BY <4>1, <4>5, Listed
      <4> QED
        BY <2>2, <3>1, <4>1, <4>2, <4>3, <4>4, <4>6, ReplaceJoins DEF FuseStep
    <3>2. CASE ~(acc # <<>> /\ Last(acc).U >= w.D)
      <4>1. PICK a : a = Append(acc, w)
        OBVIOUS
      <4>2. a \in Lists /\ Len(a) = Len(acc) + 1 /\ Len(acc) \in Nat
        BY <2>2, <4>1, AppendProperties, Listed DEF Lists
      <4>3. a # <<>>
        BY <4>2, Listed
      <4> QED
        BY <3>2, <4>1, <4>3 DEF FuseStep
    <3> QED
      BY <3>1, <3>2
  <2> QED
    BY <1>1, <1>4, <1>5, <1>7, <2>2, <2>3
<1> QED
  BY <1>6, <1>7

(***************************************************************************)
(* No data reaches phase j of node n.                                      *)
(***************************************************************************)
NoData(c, tab, n, j) ==
    /\ c.specin[n][j] = <<>>
    /\ \A k \in 1..Len(c.inputs[n]), p \in Phase :
          Takes(c, n, p, j) => tab[c.inputs[n][k].from][p] = <<>>

(***************************************************************************)
(* A transfer gives no window only when no data reaches the node.          *)
(***************************************************************************)
LEMMA TransferredEmpty ==
  ASSUME NEW c, CircuitOK(c), NEW tab \in Tables, NEW n \in Node, NEW j \in Phase
  PROVE  Transferred(c, tab, n, j).list = <<>> <=> NoData(c, tab, n, j)
<1>1. PICK l \in Nat : l = Len(c.inputs[n]) /\ DOMAIN c.inputs[n] = 1..l
  <2>1. c.inputs[n] \in Seq([from : Node, min : Int, max : Int])
    BY DEF CircuitOK
  <2> QED
    BY <2>1, LenProperties
<1>2. Phases \in Nat
  BY RelaxationAssumption
<1>3. PICK lots : lots = [k \in 1..l |-> Brought(c, tab, n, c.inputs[n][k], j)]
  OBVIOUS
<1>4. lots \in [1..l -> [1..Phases -> Lists]]
  <2>1. ASSUME NEW k \in 1..l PROVE lots[k] \in [1..Phases -> Lists]
    <3>1. k \in 1..Len(c.inputs[n]) /\ lots[k] = Brought(c, tab, n, c.inputs[n][k], j)
      BY <1>1, <1>3, <2>1
    <3> QED
      BY <3>1, BroughtIs
  <2> QED
    BY <1>3, <2>1
<1>5. ASSUME NEW k \in 1..l, NEW p \in Phase
      PROVE  lots[k][p] = <<>> <=> (Takes(c, n, p, j) => tab[c.inputs[n][k].from][p] = <<>>)
  <2>1. PICK a : a = c.inputs[n][k]
    OBVIOUS
  <2>2. a.from \in Node /\ a.min \in Int /\ a.max \in Int
    <3>1. c.inputs[n] \in Seq([from : Node, min : Int, max : Int]) /\ k \in 1..Len(c.inputs[n])
      BY <1>1 DEF CircuitOK
    <3>2. a \in [from : Node, min : Int, max : Int]
      BY <2>1, <3>1, ElementOfSeq
    <3> QED
      BY <3>2
  <2>3. lots[k][p] = IF Takes(c, n, p, j)
                     THEN AddDelay(tab[a.from][p], a.max, a.min, Shift(c, n, p)) ELSE <<>>
    BY <1>3, <2>1 DEF Brought
  <2>4. tab[a.from][p] \in Lists /\ Shift(c, n, p) \in Int
    BY <2>2, ShiftType DEF Tables
  <2>5. AddDelay(tab[a.from][p], a.max, a.min, Shift(c, n, p)) = <<>> <=> tab[a.from][p] = <<>>
    BY <2>2, <2>4, AddDelayEmpty
  <2> QED
    BY <2>1, <2>3, <2>5
<1>6. PICK none : none = [ok |-> TRUE, list |-> <<>>]
  OBVIOUS
<1>7. none \in Accs /\ none.list = <<>>
  BY <1>6, NoDates DEF Accs
<1>8. PICK data : data = Gathered(lots, none)
  OBVIOUS
<1>9. data \in Accs
  BY <1>2, <1>4, <1>7, <1>8, GatheredType
<1>10. data.list = <<>> <=> \A k \in 1..l, p \in 1..Phases : lots[k][p] = <<>>
  BY <1>2, <1>4, <1>7, <1>8, GatheredEmpty
<1>11. PICK given : given = c.specin[n][j] /\ given \in Lists
  BY DEF CircuitOK, Lists
<1>12. PICK m : m = [data EXCEPT !.list = given]
  OBVIOUS
<1>13. m \in Accs /\ m.list = given /\ data.list \in Lists
  BY <1>9, <1>11, <1>12 DEF Accs
<1>14. Arrivals(c, tab, n, j) = Merge(data.list, m)
  BY <1>1, <1>3, <1>6, <1>8, <1>11, <1>12 DEF Arrivals, Gathered
<1>15. Arrivals(c, tab, n, j).list = <<>> <=> data.list = <<>> /\ given = <<>>
  BY <1>13, <1>14, MergeEmpty
<1>16. Transferred(c, tab, n, j).list = <<>> <=> Arrivals(c, tab, n, j).list = <<>>
  <2>1. PICK r, z : r = Transferred(c, tab, n, j)
                    /\ z = Masked(c.clock[n], Arrivals(c, tab, n, j))
    OBVIOUS
  <2>2. /\ z = <<>> <=> Arrivals(c, tab, n, j).list = <<>>
        /\ r.list = IF c.mono /\ z # <<>> THEN <<Hull(z)>> ELSE z
    BY <2>1, TransferredForm
  <2>3. <<Hull(z)>> # <<>>
    OBVIOUS
  <2> QED
    BY <2>1, <2>2, <2>3
<1>17. data.list = <<>> <=>
         \A k \in 1..l, p \in Phase : Takes(c, n, p, j) => tab[c.inputs[n][k].from][p] = <<>>
  BY <1>5, <1>10 DEF Phase
<1> QED
  BY <1>1, <1>11, <1>15, <1>16, <1>17 DEF NoData

(***************************************************************************)
(* Without the data of its inputs a node does not get any.                 *)
(***************************************************************************)
LEMMA EmptierTables ==
  ASSUME NEW c, CircuitOK(c), NEW t1 \in Tables, NEW t2 \in Tables, NEW n \in Node, NEW j \in Phase,
         \A m \in Node, p \in Phase : t1[m][p] = <<>> => t2[m][p] = <<>>,
         Transferred(c, t1, n, j).list = <<>>
  PROVE  Transferred(c, t2, n, j).list = <<>>
<1>1. NoData(c, t1, n, j)
  BY TransferredEmpty
<1>2. \A k \in 1..Len(c.inputs[n]) : c.inputs[n][k].from \in Node
  <2>1. c.inputs[n] \in Seq([from : Node, min : Int, max : Int])
    BY DEF CircuitOK
  <2>2. \A k \in 1..Len(c.inputs[n]) : c.inputs[n][k] \in [from : Node, min : Int, max : Int]
    BY <2>1, ElementOfSeq
  <2> QED
    BY <2>2
<1>3. NoData(c, t2, n, j)
  BY <1>1, <1>2 DEF NoData
<1> QED
  BY <1>3, TransferredEmpty

(***************************************************************************)
(* The data of a clocked node is kept in the phase of its clock.           *)
(***************************************************************************)
LEMMA OwnPhase ==
  ASSUME NEW c, CircuitOK(c), NEW tab \in Tables, NEW n \in Node, NEW j \in Phase,
         c.clock[n].type # "NONE", j # c.clock[n].index
  PROVE  Transferred(c, tab, n, j).list = <<>>
<1>1. c.clock[n] # NoClock
  BY DEF NoClock
<1>2. c.specin[n][j] = <<>>
  BY <1>1 DEF CircuitOK
<1>3. NoData(c, tab, n, j)
  BY <1>2 DEF NoData, Takes
<1> QED
  BY <1>3, TransferredEmpty

LEMMA HullSame ==
  ASSUME NEW w \in Window, w.D <= w.U
  PROVE  Hull(<<w>>) = w
<1>1. PICK z : z = <<w>>
  OBVIOUS
<1>2. z \in Lists /\ z # <<>> /\ Len(z) = 1 /\ z[1] = w /\ w.D \in Int /\ w.U \in Int
  BY <1>1, OneWindow DEF Window
<1>3. PICK d, u \in Int :
        /\ \E k \in 1..Len(z) : z[k].D = d
        /\ \E k \in 1..Len(z) : z[k].U = u
        /\ Hull(z) = Pair(IF d > u THEN u ELSE d, u)
  BY <1>2, HullIs
<1>4. d = w.D /\ u = w.U
  BY <1>2, <1>3
<1>5. Hull(z) = [D |-> w.D, U |-> w.U]
  BY <1>2, <1>3, <1>4 DEF Pair
<1>6. w = [D |-> w.D, U |-> w.U]
  BY DEF Window
<1> QED
  BY <1>1, <1>5, <1>6

(***************************************************************************)
(* A flip-flop that gets data switches on its edge, and at no other date.  *)
(***************************************************************************)
LEMMA FlipFlopGives ==
  ASSUME NEW c, CircuitOK(c), NEW tab \in Tables, NEW n \in Node, NEW j \in Phase,
         c.clock[n].type = "FLIPFLOP", Transferred(c, tab, n, j).ok
  PROVE  Transferred(c, tab, n, j).list \in {<<>>, <<Edge(c.clock[n])>>}
<1>1. PICK ck : ck = c.clock[n] /\ CommandOK(ck)
  BY DEF CircuitOK
<1>2. Edge(ck) \in Window /\ Edge(ck).D <= Edge(ck).U
  BY <1>1, CommandDates
<1>3. PICK m : m = Arrivals(c, tab, n, j)
  OBVIOUS
<1>4. PICK z : z = Masked(ck, m)
  OBVIOUS
<1>5. PICK r : r = Transferred(c, tab, n, j)
  OBVIOUS
<1>6. r.ok = m.ok /\ r.list = IF c.mono /\ z # <<>> THEN <<Hull(z)>> ELSE z
  <2>1. z = Masked(c.clock[n], Arrivals(c, tab, n, j))
    BY <1>1, <1>3, <1>4
  <2> QED
    BY <1>3, <1>5, <2>1, TransferredForm
<1>7. z = IF m.list = <<>> THEN <<>> ELSE <<Edge(ck)>>
  BY <1>1, <1>4, <1>5, <1>6 DEF Masked, ClockMask
<1>8. Hull(<<Edge(ck)>>) = Edge(ck)
  BY <1>2, HullSame
<1> QED
  BY <1>1, <1>5, <1>6, <1>7, <1>8

-----------------------------------------------------------------------------
(***************************************************************************)
(* How the data of a circuit drains away.  A node drained would get no     *)
(* data where it has none; but in the first pass a gate may still wait for *)
(* its first data.                                                         *)
(***************************************************************************)
Drained(n) == \A p \in Phase : STBTAB[n][p] = <<>> => Result(n, p).list = <<>>

Draining == \A n \in Node : Clocked(n) \/ i > 0 \/ Visited(n) => Drained(n)

Fresh == \A n \in Node : Clocked(n) /\ i = 0 /\ ~Visited(n) =>
            STBTAB[n][circuit.clock[n].index] # <<>>

EdgesOnly ==
    \A n \in FlipFlops, p \in Phase :
       \/ STBTAB[n][p] = <<>>
       \/ p = circuit.clock[n].index /\ STBTAB[n][p] = <<Edge(circuit.clock[n])>>

Flow == EdgesOnly /\ (Levelled /\ pc = "pass" => Fresh /\ Draining)

LEMMA FlowBegins ==
  ASSUME Init
  PROVE  Flow
<1>1. Typed /\ Invariant
  BY InitTyped, Initially
<1>2. circuit \in Circuits /\ STBTAB = InitialTab(circuit) /\ i = 0 /\ todo = NODE
  BY DEF Init
<1>3. CircuitOK(circuit) /\ STBTAB \in Tables
  BY <1>1, GivenOK DEF Typed
<1>4. ASSUME NEW n \in Node, circuit.clock[n].type # "NONE"
      PROVE  /\ STBTAB[n][circuit.clock[n].index] # <<>>
             /\ circuit.clock[n].type = "FLIPFLOP" =>
                  STBTAB[n][circuit.clock[n].index] = <<Edge(circuit.clock[n])>>
             /\ \A p \in Phase : p # circuit.clock[n].index => STBTAB[n][p] = <<>>
  <2>1. PICK ck : ck = circuit.clock[n] /\ CommandOK(ck)
    BY <1>3 DEF CircuitOK
  <2>2. ck.type # "NONE" /\ ck # NoClock /\ ck.index \in Phase
    BY <1>4, <2>1 DEF CommandOK, NoClock
  <2>3. \A p \in Phase : STBTAB[n][p] = IF ck.index = p THEN InitialWindow(ck, circuit.worst)
                                        ELSE circuit.specin[n][p]
    BY <1>2, <2>1, <2>2 DEF InitialTab
  <2>4. \A p \in Phase : circuit.specin[n][p] = <<>>
    BY <1>3, <2>1, <2>2 DEF CircuitOK
  <2>5. InitialWindow(ck, circuit.worst) # <<>>
    BY DEF InitialWindow
  <2>6. ck.type = "FLIPFLOP" => InitialWindow(ck, circuit.worst) = <<Edge(ck)>>
    BY DEF InitialWindow
  <2> QED
    BY <2>1, <2>2, <2>3, <2>4, <2>5, <2>6
<1>5. EdgesOnly
  <2>1. ASSUME NEW n \in FlipFlops PROVE circuit.clock[n].type = "FLIPFLOP" /\ n \in Node
    BY DEF FlipFlops
  <2> QED
    BY <1>4, <2>1 DEF EdgesOnly
<1>6. Fresh
  BY <1>4 DEF Fresh, Clocked
<1>7. Draining
  <2>1. ASSUME NEW n \in Node, Clocked(n) \/ i > 0 \/ Visited(n) PROVE Drained(n)
    <3>1. ~Visited(n)
      <4>1. Len(NODE) \in Nat /\ Position(n) \in 1..Len(NODE)
        BY <1>1, Places, DoneType DEF Invariant
      <4> QED
        BY <1>2, <4>1 DEF Visited, Done
    <3>2. circuit.clock[n].type # "NONE"
      BY <1>2, <2>1, <3>1 DEF Clocked
    <3>3. ASSUME NEW p \in Phase, STBTAB[n][p] = <<>> PROVE Result(n, p).list = <<>>
      <4>1. p # circuit.clock[n].index
        BY <1>4, <3>2, <3>3
      <4> QED
        BY <1>3, <3>2, <4>1, OwnPhase DEF Result
    <3> QED
      BY <3>3 DEF Drained
  <2> QED
    BY <2>1 DEF Draining
<1> QED
  BY <1>5, <1>6, <1>7 DEF Flow

(***************************************************************************)
(* A transfer lets no data come back.                                      *)
(***************************************************************************)
LEMMA TransferFlows ==
  ASSUME Invariant, Typed, Flow, NEW x \in Node, Transfer(x)
  PROVE  Flow'
<1>1. /\ UNCHANGED <<circuit, NODE, i, pc>> /\ Visit(x) /\ pc = "pass"
      /\ \A p \in Phase : Result(x, p).ok
  BY DEF Transfer, Visit
<1>2. CircuitOK(circuit) /\ STBTAB \in Tables /\ STBTAB' \in Tables
  <2>1. Typed'
    BY TransferGives
  <2> QED
    BY <2>1, GivenOK DEF Typed
<1>3. \A n \in Node, p \in Phase :
        STBTAB'[n][p] = IF n = x THEN Result(x, p).list ELSE STBTAB[n][p]
  BY TransferGives
<1>4. \A n \in Node, p \in Phase : Result(n, p)' = Transferred(circuit, STBTAB', n, p)
  BY <1>1 DEF Result
<1>5. /\ \A n \in Node : Clocked(n)' = Clocked(n) /\ Position(n)' = Position(n)
      /\ \A n : From(n)' = From(n)
      /\ FlipFlops' = FlipFlops /\ (Levelled' <=> Levelled)
  BY <1>1 DEF Clocked, Position, From, FlipFlops, Levelled
<1>6. /\ Done \in Nat /\ Done' = Done + 1 /\ Position(x) = Done + 1
      /\ \A n \in Node : Position(n) \in Int /\ (Position(n) = Position(x) => n = x)
  <2>1. /\ Done' = Done + 1 /\ Position(x) = Done + 1 /\ Done \in Nat
    BY <1>1, VisitNext, DoneType DEF Invariant
  <2>2. \A n \in Node : Position(n) \in 1..Len(NODE) /\ (Position(n) = Position(x) => n = x)
    BY Places DEF Invariant
  <2>3. \A n \in Node : Position(n) \in Int
    BY <2>2
  <2> QED
    BY <2>1, <2>2, <2>3
<1>7. /\ \A n \in Node : n # x => (Visited(n)' <=> Visited(n))
      /\ Visited(x)' /\ ~Visited(x)
  BY <1>5, <1>6 DEF Visited
<1>8. EdgesOnly'
  <2>1. ASSUME NEW n \in FlipFlops, NEW p \in Phase
        PROVE  \/ STBTAB'[n][p] = <<>>
               \/ p = circuit.clock[n].index /\ STBTAB'[n][p] = <<Edge(circuit.clock[n])>>
    <3>1. n \in Node /\ circuit.clock[n].type = "FLIPFLOP"
      BY DEF FlipFlops
    <3>2. CASE n # x
      BY <1>3, <3>1, <3>2 DEF Flow, EdgesOnly
    <3>3. CASE n = x
      <4>1. Result(x, p).list \in {<<>>, <<Edge(circuit.clock[x])>>}
        BY <1>1, <1>2, <3>1, <3>3, FlipFlopGives DEF Result
      <4>2. p # circuit.clock[x].index => Result(x, p).list = <<>>
        BY <1>2, <3>1, <3>3, OwnPhase DEF Result
      <4> QED
        BY <1>3, <3>1, <3>3, <4>1, <4>2
    <3> QED
      BY <3>2, <3>3
  <2> QED
    BY <1>1, <1>5, <2>1 DEF EdgesOnly
<1>9. ASSUME Levelled PROVE Fresh'
  <2>1. ASSUME NEW n \in Node, Clocked(n), i = 0, ~Visited(n)'
        PROVE  STBTAB'[n][circuit.clock[n].index] # <<>>
    <3>1. n # x /\ ~Visited(n)
      BY <1>7, <2>1
    <3>2. STBTAB[n][circuit.clock[n].index] # <<>>
      BY <1>1, <1>9, <2>1, <3>1 DEF Flow, Fresh
    <3>3. circuit.clock[n].index \in Phase
      <4>1. CommandOK(circuit.clock[n]) /\ circuit.clock[n] # NoClock
        BY <1>2, <2>1 DEF CircuitOK, Clocked, NoClock
      <4> QED
        BY <4>1 DEF CommandOK
    <3> QED
      BY <1>3, <3>1, <3>2, <3>3
  <2> QED
    BY <1>1, <1>5, <2>1 DEF Fresh
<1>10. ASSUME Levelled, NEW n \in Node, Clocked(n) \/ i > 0 \/ Visited(n)'
       PROVE  Drained(n)'
  <2>0. Fresh /\ Draining
    BY <1>1, <1>10 DEF Flow
  <2>1. CASE Clocked(x) \/ i > 0
    <3>1. Drained(x)
      BY <2>0, <2>1 DEF Draining
    <3>2. \A m \in Node, p \in Phase : STBTAB[m][p] = <<>> => STBTAB'[m][p] = <<>>
      BY <1>3, <3>1 DEF Drained
    <3>3. ASSUME NEW p \in Phase, Result(n, p).list = <<>> PROVE Result(n, p)'.list = <<>>
      BY <1>2, <1>4, <3>2, <3>3, EmptierTables DEF Result
    <3>4. ASSUME NEW p \in Phase, STBTAB'[n][p] = <<>> PROVE Result(n, p).list = <<>>
      <4>1. CASE n = x
        BY <1>3, <3>4, <4>1
      <4>2. CASE n # x
        <5>1. Drained(n)
          BY <1>7, <1>10, <2>0, <4>2 DEF Draining
        <5> QED
          BY <1>3, <3>4, <4>2, <5>1 DEF Drained
      <4> QED
        BY <4>1, <4>2
    <3> QED
      BY <3>3, <3>4 DEF Drained
  <2>2. CASE ~(Clocked(x) \/ i > 0) /\ x \in From(n)
    <3>1. Position(x) < Position(n)
      BY <1>10, <2>2 DEF Levelled
    <3>2. n # x /\ ~Visited(n) /\ ~Visited(n)'
      BY <1>5, <1>6, <1>7, <3>1 DEF Visited
    <3>3. Clocked(n) /\ i = 0
      <4>1. i \in Nat
        BY DEF Invariant, Shape
      <4> QED
        BY <1>10, <2>2, <3>2, <4>1
    <3>4. STBTAB[n][circuit.clock[n].index] # <<>>
      BY <2>0, <3>2, <3>3 DEF Fresh
    <3>5. ASSUME NEW p \in Phase, STBTAB'[n][p] = <<>> PROVE Result(n, p)'.list = <<>>
      <4>1. p # circuit.clock[n].index
        BY <1>3, <3>2, <3>4, <3>5
      <4> QED
        BY <1>2, <1>4, <3>3, <4>1, OwnPhase DEF Clocked
    <3> QED
      BY <3>5 DEF Drained
  <2>3. CASE ~(Clocked(x) \/ i > 0) /\ x \notin From(n)
    <3>1. \A m \in From(n) : STBTAB'[m] = STBTAB[m]
      <4>1. From(n) \subseteq Node \ {x}
        BY <2>3, Places DEF Invariant
      <4> QED
        BY <4>1 DEF Transfer, Typed, Tables
    <3>2. \A p \in Phase : Result(n, p)' = Result(n, p)
      BY <1>1, <3>1, ResultKept
    <3>3. CASE n = x
      BY <1>3, <3>2, <3>3 DEF Drained
    <3>4. CASE n # x
      <4>1. Drained(n)
        BY <1>7, <1>10, <2>0, <3>4 DEF Draining
      <4> QED
        BY <1>3, <3>2, <3>4, <4>1 DEF Drained
    <3> QED
      BY <3>3, <3>4
  <2> QED
    BY <2>1, <2>2, <2>3
<1>11. Levelled => Draining'
  BY <1>1, <1>5, <1>10 DEF Draining
<1> QED
  BY <1>5, <1>8, <1>9, <1>11 DEF Flow

(***************************************************************************)
(* The other steps change no table.                                        *)
(***************************************************************************)
LEMMA FlowStays ==
  ASSUME Invariant, Flow,
         UNCHANGED <<circuit, NODE, STBTAB>>, i' \in Nat, i' >= i,
         pc' = "pass" => pc = "pass",
         \A n \in Node : i' = 0 => (Visited(n)' <=> Visited(n)),
         \A n \in Node : i' > 0 => i > 0 \/ Visited(n)
  PROVE  Flow'
<1>1. /\ \A n \in Node : Clocked(n)' = Clocked(n)
      /\ FlipFlops' = FlipFlops /\ (Levelled' <=> Levelled)
      /\ \A n \in Node : Drained(n)' <=> Drained(n)
  BY DEF Clocked, FlipFlops, Levelled, Position, From, Drained, Result
<1>2. EdgesOnly'
  BY <1>1 DEF Flow, EdgesOnly
<1>3. i \in Nat
  BY DEF Invariant, Shape
<1>4. ASSUME Levelled, pc' = "pass" PROVE Fresh' /\ Draining'
  <2>0. Fresh /\ Draining
    BY <1>4 DEF Flow
  <2>1. Fresh'
    BY <1>1, <1>3, <2>0 DEF Fresh
  <2>2. ASSUME NEW n \in Node, Clocked(n) \/ i' > 0 \/ Visited(n)' PROVE Drained(n)'
    <3>1. Clocked(n) \/ i > 0 \/ Visited(n)
      BY <1>3, <2>2
    <3> QED
      BY <1>1, <2>0, <3>1 DEF Draining
  <2> QED
    BY <1>1, <2>1, <2>2 DEF Draining
<1> QED
  BY <1>1, <1>2, <1>4 DEF Flow

(***************************************************************************)
(* In every state of stb_relaxation on nodes that come after their inputs, *)
(* a node without data would not get any, once it has been computed.       *)
(***************************************************************************)
THEOREM DataDrains == Spec => []Flow
<1>1. Init => Flow
  BY FlowBegins
<1>2. Invariant /\ Typed /\ Flow /\ [Next]_vars => Flow'
  <2> SUFFICES ASSUME Invariant, Typed, Flow, [Next]_vars PROVE Flow'
    OBVIOUS
  <2>0. /\ i \in Nat /\ Len(NODE) \in Nat
        /\ \A n \in Node : Position(n) \in 1..Len(NODE)
    BY Places, DoneType DEF Invariant, Shape
  <2>1. CASE NextPass
    <3>1. /\ UNCHANGED <<circuit, NODE, STBTAB, pc>> /\ i' = i + 1 /\ todo = <<>>
      BY <2>1 DEF NextPass
    <3>2. \A n \in Node : Visited(n)
      BY <2>0, <3>1 DEF Visited, Done
    <3> QED
      BY <2>0, <3>1, <3>2, FlowStays
  <2>2. CASE Finish
    <3>1. UNCHANGED <<circuit, NODE, STBTAB, i, todo, CHANGEFLAG>> /\ pc' = "done"
      BY <2>2 DEF Finish
    <3>2. \A n \in Node : Visited(n)' = Visited(n)
      BY <3>1, SameTables
    <3> QED
      BY <2>0, <3>1, <3>2, FlowStays
  <2>3. ASSUME NEW n \in Node, Skip(n) PROVE Flow'
    <3>1. UNCHANGED <<circuit, NODE, STBTAB, i, pc>> /\ i > 0
      BY <2>3 DEF Skip
    <3> QED
      BY <2>0, <3>1, FlowStays
  <2>4. ASSUME NEW n \in Node, Transfer(n) PROVE Flow'
    BY <2>4, TransferFlows
  <2>5. ASSUME NEW n \in Node, Crash(n) PROVE Flow'
    <3>1. UNCHANGED <<circuit, NODE, STBTAB, i>> /\ pc' = "crashed"
      BY <2>5 DEF Crash
    <3>2. (Levelled' <=> Levelled) /\ FlipFlops' = FlipFlops
      BY <3>1 DEF Levelled, From, Clocked, Position, FlipFlops
    <3> QED
      BY <3>1, <3>2 DEF Flow, EdgesOnly
  <2>6. CASE UNCHANGED vars
    <3>1. UNCHANGED <<circuit, NODE, STBTAB, i, todo, CHANGEFLAG, pc>>
      BY <2>6 DEF vars
    <3>2. \A n \in Node : Visited(n)' = Visited(n)
      BY <3>1, SameTables
    <3> QED
      BY <2>0, <3>1, <3>2, FlowStays
  <2> QED
    BY <2>1, <2>2, <2>3, <2>4, <2>5, <2>6 DEF Next
<1> QED
  BY <1>1, <1>2, Inductive, TablesTyped, PTL DEF Spec

-----------------------------------------------------------------------------
(***************************************************************************)
(* The passes.  Once no flip-flop of S loses its data any more, what is    *)
(* settled reaches one depth further with each pass; a flip-flop loses its *)
(* data once.                                                              *)
(*                                                                         *)
(* a tells how far that has come: the nodes less deep, and of those as     *)
(* deep the ones visited, have the windows their transfers would give.     *)
(***************************************************************************)
Deep(S, R, depth) ==
    /\ depth \in [Node -> 0..R]
    /\ \A n \in Node : \A m \in From(n) \ S :
        IF Position(m) < Position(n) THEN depth[m] <= depth[n] ELSE depth[m] < depth[n]

Passing(S) == {n \in S : STBTAB[n][circuit.clock[n].index] # <<>>}

Lost(S) == Cardinality(S) - Cardinality(Passing(S))

Reached(S, R, depth, a) ==
    /\ -1 <= a /\ a <= R + 1
    /\ i <= Lost(S) * (R + 1) + a
    /\ a = R + 1 => CHANGEFLAG = 0
    /\ pc = "pass" =>
         \A n \in Node : depth[n] < a \/ (depth[n] = a /\ Visited(n)) => Fixpoint(n)

Paced(S, R, depth) ==
    Levelled /\ S \subseteq FlipFlops /\ Deep(S, R, depth) => \E a \in Int : Reached(S, R, depth, a)

LEMMA Finite ==
  ASSUME NEW S \in SUBSET Node
  PROVE  IsFiniteSet(S) /\ Cardinality(S) \in Nat
<1>1. 1 \in Int /\ Nodes \in Int
  BY RelaxationAssumption
<1>2. IsFiniteSet(Node)
  BY <1>1, FS_Interval DEF Node
<1> QED
  BY <1>2, FS_Subset, FS_CardinalityType

LEMMA LostType ==
  ASSUME NEW S \in SUBSET FlipFlops
  PROVE  /\ S \in SUBSET Node /\ IsFiniteSet(Passing(S))
         /\ Cardinality(S) \in Nat /\ Cardinality(Passing(S)) \in Nat /\ Lost(S) \in Nat
         /\ Lost(S) <= Cardinality(S)
<1>1. S \in SUBSET Node /\ Passing(S) \subseteq S
  BY DEF FlipFlops, Passing
<1>2. IsFiniteSet(S) /\ Cardinality(S) \in Nat /\ IsFiniteSet(Passing(S))
      /\ Cardinality(Passing(S)) \in Nat
  BY <1>1, Finite
<1>3. Cardinality(Passing(S)) <= Cardinality(S)
  BY <1>1, <1>2, FS_Subset
<1> QED
  BY <1>1, <1>2, <1>3 DEF Lost

(***************************************************************************)
(* A flip-flop whose windows change has lost its data.                     *)
(***************************************************************************)
LEMMA FlipFlopLoses ==
  ASSUME Invariant, Typed, Flow, Levelled, NEW S \in SUBSET FlipFlops, NEW x \in S, Transfer(x),
         NEW p \in Phase, STBTAB'[x][p] # STBTAB[x][p]
  PROVE  Lost(S)' >= Lost(S) + 1
<1>0. x \in Node /\ circuit.clock[x].type = "FLIPFLOP" /\ Clocked(x) /\ UNCHANGED circuit
      /\ pc = "pass"
  BY DEF FlipFlops, Clocked, Transfer, Visit
<1>1. STBTAB'[x][p] = Result(x, p).list /\ Result(x, p).ok
  BY <1>0, TransferGives DEF Transfer
<1>2. CircuitOK(circuit) /\ STBTAB \in Tables
  BY GivenOK DEF Typed
<1>3. Drained(x) /\ EdgesOnly
  BY <1>0 DEF Flow, Draining
<1>4. STBTAB[x][p] # <<>>
  <2> SUFFICES ASSUME STBTAB[x][p] = <<>> PROVE FALSE
    OBVIOUS
  <2> QED
    BY <1>1, <1>3 DEF Drained
<1>5. p = circuit.clock[x].index /\ STBTAB[x][p] = <<Edge(circuit.clock[x])>>
  BY <1>3, <1>4 DEF EdgesOnly
<1>6. STBTAB'[x][p] = <<>>
  <2>1. Result(x, p).list \in {<<>>, <<Edge(circuit.clock[x])>>}
    BY <1>0, <1>1, <1>2, FlipFlopGives DEF Result
  <2> QED
    BY <1>1, <1>5, <2>1
<1>7. Passing(S)' = Passing(S) \ {x} /\ x \in Passing(S)
  <2>1. \A n \in S : n # x => STBTAB'[n] = STBTAB[n]
    BY DEF Transfer, Typed, Tables, FlipFlops
  <2> QED
    BY <1>0, <1>4, <1>5, <1>6, <2>1 DEF Passing
<1>8. Cardinality(Passing(S) \ {x}) = Cardinality(Passing(S)) - 1
  BY <1>7, LostType, FS_RemoveElement
<1>9. Lost(S)' = Cardinality(S) - Cardinality(Passing(S)')
  BY DEF Lost
<1> QED
  BY <1>7, <1>8, <1>9, LostType DEF Lost

(***************************************************************************)
(* A node computed again: when it has not changed it is settled; when it   *)
(* has, it was not, and neither was what it reaches.                       *)
(***************************************************************************)
LEMMA TransferPaces ==
  ASSUME Invariant, Typed, Flow, Levelled, NEW S \in SUBSET FlipFlops, NEW R \in Nat, NEW depth,
         Deep(S, R, depth), NEW a \in Int, Reached(S, R, depth, a), NEW x \in Node, Transfer(x)
  PROVE  \E b \in Int : Reached(S, R, depth, b)'
<1> DEFINE same == \A p \in Phase : STBTAB'[x][p] = STBTAB[x][p]
<1>0. /\ UNCHANGED <<circuit, NODE, i, pc>> /\ Visit(x) /\ pc = "pass" /\ i \in Nat
      /\ \A p \in Phase : Result(x, p).ok
  BY DEF Transfer, Visit, Invariant, Shape
<1>1. /\ \A n \in Node, p \in Phase :
           STBTAB'[n][p] = IF n = x THEN Result(x, p).list ELSE STBTAB[n][p]
      /\ \A n \in Node : n # x => STBTAB'[n] = STBTAB[n]
  <2>1. \A n \in Node : n # x => STBTAB'[n] = STBTAB[n]
    BY DEF Transfer, Typed, Tables
  <2> QED
    BY <2>1, TransferGives
<1>2. /\ \A n \in Node : Position(n)' = Position(n)
      /\ \A n : From(n)' = From(n)
  BY <1>0 DEF Position, From
<1>3. /\ Done \in Nat /\ Done' = Done + 1 /\ Position(x) = Done + 1
      /\ \A n \in Node : Position(n) \in Int /\ (Position(n) = Position(x) => n = x)
      /\ \A n \in Node : From(n) \subseteq Node
  <2>1. /\ Done' = Done + 1 /\ Position(x) = Done + 1 /\ Done \in Nat
    BY <1>0, VisitNext, DoneType DEF Invariant
  <2>2. /\ \A n \in Node : Position(n) \in 1..Len(NODE) /\ (Position(n) = Position(x) => n = x)
        /\ \A n \in Node : From(n) \subseteq Node
    BY Places DEF Invariant
  <2>3. \A n \in Node : Position(n) \in Int
    BY <2>2
  <2> QED
    BY <2>1, <2>2, <2>3
<1>4. \A n \in Node : n # x => (Visited(n)' <=> Visited(n))
  BY <1>2, <1>3 DEF Visited
<1>5. /\ S \in SUBSET Node /\ Lost(S) \in Nat /\ Lost(S)' \in Nat
  <2>1. S \in SUBSET Node /\ Lost(S) \in Nat /\ IsFiniteSet(S)
    BY LostType, Finite
  <2>2. PICK P : P = Passing(S)'
    OBVIOUS
  <2>3. P \in SUBSET S
    BY <2>2 DEF Passing
  <2>4. Cardinality(P) \in Nat /\ Cardinality(P) <= Cardinality(S) /\ Cardinality(S) \in Nat
    BY <2>1, <2>3, FS_Subset, FS_CardinalityType
  <2>5. Lost(S)' = Cardinality(S) - Cardinality(P)
    BY <2>2 DEF Lost
  <2> QED
    BY <2>1, <2>4, <2>5
<1>6. /\ -1 <= a /\ a <= R + 1
      /\ i <= Lost(S) * (R + 1) + a
      /\ a = R + 1 => CHANGEFLAG = 0
      /\ \A n \in Node : depth[n] < a \/ (depth[n] = a /\ Visited(n)) => Fixpoint(n)
      /\ \A n \in Node : depth[n] \in 0..R
  BY <1>0 DEF Reached, Deep
<1>7. ASSUME NEW n \in Node, x \notin From(n) PROVE \A p \in Phase : Result(n, p)' = Result(n, p)
  <2>1. \A m \in From(n) : STBTAB'[m] = STBTAB[m]
    BY <1>1, <1>3, <1>7
  <2> QED
    BY <1>0, <2>1, ResultKept
<1>8. CASE same
  <2>1. \A n \in Node : STBTAB'[n] = STBTAB[n]
    <3>1. STBTAB'[x] = STBTAB[x]
      <4>1. STBTAB'[x] = [p \in Phase |-> STBTAB'[x][p]]
            /\ STBTAB[x] = [p \in Phase |-> STBTAB[x][p]]
        <5>1. STBTAB' \in Tables /\ STBTAB \in Tables
          BY TransferGives DEF Typed
        <5> QED
          BY <5>1 DEF Tables
      <4> QED
        BY <1>8, <4>1
    <3> QED
      BY <1>1, <3>1
  <2>2. \A n \in Node, p \in Phase : Result(n, p)' = Result(n, p)
    BY <1>0, <1>3, <2>1, ResultKept
  <2>3. \A n \in Node : Fixpoint(n)' <=> Fixpoint(n)
    BY <2>1, <2>2 DEF Fixpoint
  <2>4. Fixpoint(x)
    BY <1>0, <1>1, <1>8 DEF Fixpoint
  <2>5. Lost(S)' = Lost(S)
    BY <1>0, <1>5, <2>1 DEF Lost, Passing
  <2>6. CHANGEFLAG' = CHANGEFLAG
    <3>1. {p \in Phase : [q \in Phase |-> Result(x, q).list][p] # STBTAB[x][p]} = {}
      BY <1>1, <1>8
    <3>2. CHANGEFLAG' = CHANGEFLAG + IF Clocked(x) THEN Cardinality({}) ELSE 0
      BY <3>1 DEF Transfer
    <3> QED
      BY <3>2, FS_EmptySet DEF Invariant, Shape
  <2>7. \A n \in Node : depth[n] < a \/ (depth[n] = a /\ Visited(n)') => Fixpoint(n)'
    BY <1>4, <1>6, <2>3, <2>4
  <2>8. Reached(S, R, depth, a)'
    BY <1>0, <1>6, <2>5, <2>6, <2>7 DEF Reached
  <2> QED
    BY <2>8
<1>9. ~same => ~Fixpoint(x)
  BY <1>1 DEF Fixpoint
<1>10. ~same => a <= R
  BY <1>6, <1>9
<1>11. CASE ~same /\ x \in S
  <2>1. Lost(S)' >= Lost(S) + 1
    BY <1>11, FlipFlopLoses
  <2>2. i <= Lost(S)' * (R + 1) - 1
    <3>1. Lost(S)' * (R + 1) >= (Lost(S) + 1) * (R + 1)
      <4>1. \A y, z \in Nat : y >= z => y * (R + 1) >= z * (R + 1)
        OBVIOUS
      <4> QED
        BY <1>5, <2>1, <4>1
    <3>2. (Lost(S) + 1) * (R + 1) = Lost(S) * (R + 1) + R + 1
      BY <1>5
    <3>3. PICK y, z \in Int : y = Lost(S) * (R + 1) /\ z = Lost(S)' * (R + 1)
      BY <1>5
    <3>4. i <= y + a /\ z >= y + R + 1
      BY <1>6, <3>1, <3>2, <3>3
    <3>5. i <= z - 1
      BY <1>0, <1>10, <1>11, <3>4
    <3> QED
      BY <3>3, <3>5
  <2>3. \A n \in Node : ~(depth[n] < -1) /\ depth[n] # -1
    BY <1>6
  <2>4. Reached(S, R, depth, -1)'
    <3>1. i <= Lost(S)' * (R + 1) + (-1)
      BY <1>0, <1>5, <2>2
    <3> QED
      BY <1>0, <2>3, <3>1 DEF Reached
  <2> QED
    BY <2>4
<1>12. CASE ~same /\ x \notin S
  <2>1. depth[x] >= a
    BY <1>6, <1>9, <1>12
  <2>2. ASSUME NEW n \in Node, depth[n] < a \/ (depth[n] = a /\ Visited(n)')
        PROVE  Fixpoint(n)'
    <3>1. x \notin From(n)
      <4> SUFFICES ASSUME x \in From(n) PROVE FALSE
        OBVIOUS
      <4>1. IF Position(x) < Position(n) THEN depth[x] <= depth[n] ELSE depth[x] < depth[n]
        BY <1>12 DEF Deep
      <4>2. Position(x) < Position(n) /\ depth[n] = a
        BY <1>6, <2>1, <2>2, <4>1
      <4>3. ~Visited(n)'
        BY <1>2, <1>3, <4>2 DEF Visited
      <4> QED
        BY <1>6, <2>2, <4>2, <4>3
    <3>2. CASE n = x
      BY <1>0, <1>1, <1>7, <3>1, <3>2 DEF Fixpoint
    <3>3. CASE n # x
      <4>1. Fixpoint(n)
        BY <1>4, <1>6, <2>2, <3>3
      <4> QED
        BY <1>1, <1>7, <3>1, <3>3, <4>1 DEF Fixpoint
    <3> QED
      BY <3>2, <3>3
  <2>3. Lost(S)' = Lost(S)
    <3>1. \A n \in S : STBTAB'[n] = STBTAB[n]
      BY <1>1, <1>5, <1>12
    <3> QED
      BY <1>0, <3>1 DEF Lost, Passing
  <2>4. Reached(S, R, depth, a)'
    BY <1>0, <1>6, <1>10, <1>12, <2>2, <2>3 DEF Reached
  <2> QED
    BY <2>4
<1> HIDE DEF same
<1> QED
  BY <1>8, <1>11, <1>12

(***************************************************************************)
(* A new pass: all the nodes visited have those one deeper to settle.      *)
(***************************************************************************)
LEMMA NextPassPaces ==
  ASSUME Invariant, NEW S \in SUBSET FlipFlops, NEW R \in Nat, NEW depth,
         Deep(S, R, depth), NEW a \in Int, Reached(S, R, depth, a), NextPass
  PROVE  Reached(S, R, depth, a + 1)'
<1>1. /\ pc = "pass" /\ todo = <<>> /\ CHANGEFLAG # 0 /\ CHANGEFLAG' = 0 /\ i' = i + 1
      /\ todo' = NODE /\ UNCHANGED <<circuit, NODE, STBTAB, pc>> /\ i \in Nat
  BY DEF NextPass, Invariant, Shape
<1>2. /\ Len(NODE) \in Nat /\ \A n \in Node : Position(n) \in 1..Len(NODE)
  BY Places, DoneType DEF Invariant
<1>3. /\ -1 <= a /\ a <= R
      /\ i <= Lost(S) * (R + 1) + a
      /\ \A n \in Node : depth[n] < a \/ (depth[n] = a /\ Visited(n)) => Fixpoint(n)
      /\ \A n \in Node : depth[n] \in 0..R
  <2>1. a # R + 1
    BY <1>1 DEF Reached
  <2> QED
    BY <1>1, <2>1 DEF Reached, Deep
<1>4. \A n \in Node : Visited(n) /\ ~Visited(n)'
  <2>1. Done = Len(NODE) /\ Done' = 0
    BY <1>1, <1>2 DEF Done
  <2>2. \A n \in Node : Position(n)' = Position(n)
    BY <1>1 DEF Position
  <2> QED
    BY <1>2, <2>1, <2>2 DEF Visited
<1>5. Lost(S)' = Lost(S) /\ Lost(S) \in Nat
  <2>1. Lost(S)' = Lost(S)
    BY <1>1 DEF Lost, Passing
  <2> QED
    BY <2>1, LostType
<1>6. \A n \in Node : Fixpoint(n)' <=> Fixpoint(n)
  BY <1>1 DEF Fixpoint, Result
<1>7. \A n \in Node : depth[n] < a + 1 \/ (depth[n] = a + 1 /\ Visited(n)') => Fixpoint(n)'
  BY <1>3, <1>4, <1>6
<1>8. i' <= Lost(S)' * (R + 1) + (a + 1)
  <2>1. PICK y \in Int : y = Lost(S) * (R + 1)
    BY <1>5
  <2>2. i + 1 <= y + (a + 1)
    BY <1>1, <1>3, <2>1
  <2> QED
    BY <1>1, <1>5, <2>1, <2>2
<1> QED
  BY <1>1, <1>3, <1>7, <1>8 DEF Reached

(***************************************************************************)
(* The other steps go on with the same pass, whose windows are the same.   *)
(***************************************************************************)
LEMMA SamePace ==
  ASSUME NEW S, NEW R, NEW depth, NEW a, Reached(S, R, depth, a),
         UNCHANGED <<circuit, NODE, STBTAB, CHANGEFLAG, i>>,
         pc' = "pass" => pc = "pass" /\ \A n \in Node : Visited(n)' => Visited(n) \/ Fixpoint(n)
  PROVE  Reached(S, R, depth, a)'
<1>1. Lost(S)' = Lost(S)
  BY DEF Lost, Passing
<1>2. \A n \in Node : Fixpoint(n)' <=> Fixpoint(n)
  BY DEF Fixpoint, Result
<1> QED
  BY <1>1, <1>2 DEF Reached

LEMMA PaceBegins ==
  ASSUME Init, NEW S \in SUBSET FlipFlops, NEW R \in Nat, NEW depth, Deep(S, R, depth)
  PROVE  Reached(S, R, depth, 0)
<1>1. Invariant /\ i = 0 /\ todo = NODE
  BY Initially DEF Init
<1>2. \A n \in Node : ~Visited(n)
  <2>1. Len(NODE) \in Nat /\ \A n \in Node : Position(n) \in 1..Len(NODE)
    BY <1>1, Places, DoneType DEF Invariant
  <2> QED
    BY <1>1, <2>1 DEF Visited, Done
<1>3. Lost(S) \in Nat
  BY LostType
<1>4. 0 <= Lost(S) * (R + 1)
  BY <1>3
<1>5. \A n \in Node : ~(depth[n] < 0)
  BY DEF Deep
<1> QED
  BY <1>1, <1>2, <1>3, <1>4, <1>5 DEF Reached

(***************************************************************************)
(* In every state of stb_relaxation, for every set S of flip-flops that    *)
(* breaks the loops to depth R.                                            *)
(***************************************************************************)
InPace == \A S \in SUBSET Node, R \in Nat : \A depth : Paced(S, R, depth)

LEMMA PaceKept ==
  ASSUME Invariant, Typed, Flow, InPace, [Next]_vars
  PROVE  InPace'
<1> SUFFICES ASSUME NEW S \in SUBSET Node, NEW R \in Nat, NEW depth,
                    Levelled', S \subseteq FlipFlops', Deep(S, R, depth)'
             PROVE  \E b \in Int : Reached(S, R, depth, b)'
  BY DEF InPace, Paced
<1>0. UNCHANGED <<circuit, NODE>>
  BY DEF Next, NextPass, Finish, Skip, Transfer, Crash, vars
<1>1. Levelled /\ S \in SUBSET FlipFlops /\ Deep(S, R, depth)
  BY <1>0 DEF Levelled, From, Clocked, Position, FlipFlops, Deep
<1>2. PICK a \in Int : Reached(S, R, depth, a)
  BY <1>1 DEF InPace, Paced
<1>3. CASE NextPass
  BY <1>1, <1>2, <1>3, NextPassPaces
<1>4. CASE Finish
  <2>1. UNCHANGED <<circuit, NODE, STBTAB, CHANGEFLAG, i>> /\ pc' = "done"
    BY <1>4 DEF Finish
  <2> QED
    BY <1>2, <2>1, SamePace
<1>5. ASSUME NEW x \in Node, Skip(x) PROVE \E b \in Int : Reached(S, R, depth, b)'
  <2>1. /\ UNCHANGED <<circuit, NODE, STBTAB, CHANGEFLAG, i, pc>> /\ pc = "pass" /\ Visit(x)
        /\ i > 0 /\ From(x) \subseteq mark
    BY <1>5 DEF Skip, Visit, EventAtInput
  <2>2. Fixpoint(x)
    BY <2>1 DEF Invariant, StaleSeen
  <2>3. \A n \in Node : n # x /\ Visited(n)' => Visited(n)
    <3>1. Done' = Done + 1 /\ Position(x) = Done + 1 /\ Done \in Nat
      BY <2>1, VisitNext, DoneType DEF Invariant
    <3>2. /\ \A n \in Node : Position(n) \in 1..Len(NODE)
          /\ \A n \in Node : Position(n) = Position(x) => n = x
      BY Places DEF Invariant
    <3>3. \A n \in Node : Position(n) \in Int /\ Position(n)' = Position(n)
      BY <2>1, <3>2 DEF Position
    <3> QED
      BY <3>1, <3>2, <3>3 DEF Visited
  <2> QED
    BY <1>2, <2>1, <2>2, <2>3, SamePace
<1>6. ASSUME NEW x \in Node, Transfer(x) PROVE \E b \in Int : Reached(S, R, depth, b)'
  BY <1>1, <1>2, <1>6, TransferPaces
<1>7. ASSUME NEW x \in Node, Crash(x) PROVE \E b \in Int : Reached(S, R, depth, b)'
  <2>1. UNCHANGED <<circuit, NODE, STBTAB, CHANGEFLAG, i>> /\ pc' = "crashed"
    BY <1>7 DEF Crash
  <2> QED
    BY <1>2, <2>1, SamePace
<1>8. CASE UNCHANGED vars
  <2>1. UNCHANGED <<circuit, NODE, STBTAB, CHANGEFLAG, i, todo, pc>>
    BY <1>8 DEF vars
  <2>2. \A n \in Node : Visited(n)' = Visited(n)
    BY <2>1, SameTables
  <2> QED
    BY <1>2, <2>1, <2>2, SamePace
<1> QED
  BY <1>3, <1>4, <1>5, <1>6, <1>7, <1>8 DEF Next

(***************************************************************************)
(* Where flip-flops break every loop, the passes of stb_relaxation end:    *)
(* how many there are is known before they begin.                          *)
(***************************************************************************)
THEOREM PassesEnd == Spec => []PassesBounded
<1>1. Init => InPace
  <2> SUFFICES ASSUME Init, NEW S \in SUBSET Node, NEW R \in Nat, NEW depth,
                      S \subseteq FlipFlops, Deep(S, R, depth)
               PROVE  \E a \in Int : Reached(S, R, depth, a)
    BY DEF InPace, Paced
  <2>1. Reached(S, R, depth, 0)
    BY PaceBegins
  <2> QED
    BY <2>1
<1>2. Invariant /\ Typed /\ Flow /\ InPace /\ [Next]_vars => InPace'
  BY PaceKept
<1>3. Invariant /\ InPace => PassesBounded
  <2> SUFFICES ASSUME Invariant, InPace, Levelled, NEW S \in SUBSET FlipFlops,
                      NEW R \in 0..Cardinality({n \in Node : Clocked(n)}), Breaks(S, R)
               PROVE  i <= (Cardinality(S) + 1) * (R + 1)
    BY DEF PassesBounded
  <2>1. R \in Nat
    BY Finite
  <2>2. PICK depth : Deep(S, R, depth)
    BY DEF Breaks, Deep
  <2>3. S \in SUBSET Node /\ Lost(S) \in Nat /\ Cardinality(S) \in Nat /\ Lost(S) <= Cardinality(S)
    BY LostType
  <2>4. PICK a \in Int : Reached(S, R, depth, a)
    BY <2>1, <2>2, <2>3 DEF InPace, Paced
  <2>5. a <= R + 1 /\ i <= Lost(S) * (R + 1) + a /\ i \in Nat
    BY <2>4 DEF Reached, Invariant, Shape
  <2>6. Lost(S) * (R + 1) <= Cardinality(S) * (R + 1)
    <3>1. \A y, z \in Nat : y <= z => y * (R + 1) <= z * (R + 1)
      BY <2>1
    <3> QED
      BY <2>3, <3>1
  <2>7. (Cardinality(S) + 1) * (R + 1) = Cardinality(S) * (R + 1) + (R + 1)
    BY <2>1, <2>3
  <2>8. PICK y, z \in Int : y = Lost(S) * (R + 1) /\ z = Cardinality(S) * (R + 1)
    BY <2>1, <2>3
  <2>9. i <= z + (R + 1)
    BY <2>1, <2>5, <2>6, <2>8
  <2> QED
    BY <2>7, <2>8, <2>9
<1> QED
  BY <1>1, <1>2, <1>3, Inductive, TablesTyped, DataDrains, PTL DEF Spec

(***************************************************************************)
(* That a behaviour may stay for ever where it has ended adds nothing.     *)
(***************************************************************************)
LEMMA EndingAlike == EndingSpec <=> Spec
<1>1. [Next \/ Ended]_vars <=> [Next]_vars
  BY DEF Ended
<1> QED
  BY <1>1, PTL DEF EndingSpec, Spec
=============================================================================
