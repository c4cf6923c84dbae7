--------------------------- MODULE ChildPoolProofs ---------------------------
(***************************************************************************)
(* Proofs of the safety properties of ChildPool, for any number of         *)
(* children and of cells.                                                  *)
(***************************************************************************)
EXTENDS ChildPool, FiniteSetTheorems, TLAPS

(***************************************************************************)
(* Where the program holds a child that is in no cell yet, and where it    *)
(* has the signal blocked.                                                 *)
(***************************************************************************)
Held == {"wait", "block", "check", "get", "take", "link", "push", "exit"}
Inside == {"check", "get", "take", "link", "push", "unblock", "exit"}

(***************************************************************************)
(* The signal is blocked from one end of mbksetautoackchld to the other,   *)
(* so the handler never runs between two of its lines: what the program    *)
(* has read of the lists is still what they hold.                          *)
(***************************************************************************)
Exclusion == /\ blocked <=> pc \in Inside
             /\ handling => ~blocked
             /\ pc = "take" => FREE > 0 /\ seen.free = FREE
             /\ pc = "push" => seen.head = HEAD

(***************************************************************************)
(* Every child there is is either the one the program holds or in a cell,  *)
(* never both.                                                             *)
(***************************************************************************)
Tracked == /\ pc \in Held => pid \in Pid /\ pid \notin HEAD /\ proc[pid] # "none"
           /\ pc = "unblock" => pid \in Pid
           /\ left \subseteq HEAD
           /\ \A p \in Pid : proc[p] # "none" => p \in HEAD \/ (p = pid /\ pc \in Held)

Invariant == TypeOK /\ Exclusion /\ Tracked /\ NoStaleCell /\ CellsAccounted /\ NotForgotten
-----------------------------------------------------------------------------
(***************************************************************************)
(* The registered cells can be counted.                                    *)
(***************************************************************************)
LEMMA RegisteredFinite ==
  ASSUME TypeOK
  PROVE  IsFiniteSet(HEAD) /\ Cardinality(HEAD) \in Nat
  BY FS_Subset, FS_CardinalityType, ChildAssumption DEF TypeOK

LEMMA CellsKept ==
  ASSUME Invariant, [Next]_vars
  PROVE  CellsAccounted'
<1> USE DEF Invariant
<1>1. IsFiniteSet(HEAD) /\ Cardinality(HEAD) \in Nat
  BY RegisteredFinite
<1>2. CASE UNCHANGED <<HEAD, FREE>> /\ (pc' \in {"link", "push"} <=> pc \in {"link", "push"})
  BY <1>2 DEF CellsAccounted
<1>3. CASE TakeCell
  BY <1>1, <1>3 DEF TakeCell, Goes, CellsAccounted, Exclusion, TypeOK
<1>4. CASE PushCell
  <2>1. HEAD' = HEAD \cup {pid} /\ pid \notin HEAD
    BY <1>4 DEF PushCell, Goes, Exclusion, Tracked, Held
  <2>2. Cardinality(HEAD') = Cardinality(HEAD) + 1
    BY <1>1, <2>1, FS_AddElement
  <2> QED
    BY <1>1, <1>4, <2>2 DEF PushCell, Goes, CellsAccounted, TypeOK
<1>5. ASSUME NEW p \in Pid, AcknowledgeCell(p), proc[p] = "zombie"
      PROVE  CellsAccounted'
  <2>1. p \in HEAD
    BY <1>5 DEF AcknowledgeCell, Tracked
  <2>2. HEAD' = HEAD \ {p} /\ FREE' = FREE + 1 /\ pc' = pc
    BY <1>5 DEF AcknowledgeCell
  <2>3. Cardinality(HEAD') = Cardinality(HEAD) - 1
    BY <1>1, <2>1, <2>2, FS_RemoveElement
  <2> QED
    BY <1>1, <2>2, <2>3 DEF CellsAccounted, TypeOK
<1>6. CASE Create \/ Wait
  BY <1>2, <1>6 DEF Create, Wait, Goes, listVars
<1>7. CASE Block \/ Ended \/ Register \/ Exhausted \/ GetCell \/ LinkCell \/ Unblock
  BY <1>2, <1>7 DEF Block, Ended, Register, Exhausted, GetCell, LinkCell, Unblock, Goes, listVars
<1>8. CASE Handle \/ Return \/ (\E p \in Pid : End(p)) \/ UNCHANGED vars
  BY <1>2, <1>8 DEF Handle, Return, End, vars, listVars
<1>9. ASSUME NEW p \in Pid, AcknowledgeCell(p), proc[p] # "zombie"
      PROVE  CellsAccounted'
  BY <1>2, <1>9 DEF AcknowledgeCell
<1> QED
  BY <1>3, <1>4, <1>5, <1>6, <1>7, <1>8, <1>9 DEF Next, Registration, Handler

-----------------------------------------------------------------------------
(***************************************************************************)
(* The invariant is inductive.                                             *)
(***************************************************************************)
LEMMA Initially == Init => Invariant
<1> SUFFICES ASSUME Init PROVE Invariant
  OBVIOUS
<1>1. CellsAccounted
  BY FS_EmptySet, ChildAssumption DEF Init, CellsAccounted
<1>2. TypeOK
  <2>1. proc \in [Pid -> {"none", "alive", "zombie"}]
    BY DEF Init
  <2>2. seen \in [free : 0..AUTOACKCHLD_MAX, head : SUBSET Pid]
    BY ChildAssumption DEF Init, NothingSeen
  <2>3. FREE \in 0..AUTOACKCHLD_MAX /\ HEAD \subseteq Pid /\ left \subseteq Pid
    BY ChildAssumption DEF Init
  <2> QED
    BY <2>1, <2>2, <2>3 DEF Init, TypeOK
<1>3. Exclusion /\ Tracked
  <2>1. ~(pc \in Inside) /\ ~(pc \in Held) /\ pc = "idle"
    BY DEF Init, Held, Inside
  <2>2. blocked = FALSE /\ handling = FALSE /\ left = {}
    BY DEF Init
  <2>3. \A p \in Pid : proc[p] = "none"
    BY DEF Init
  <2> QED
    BY <2>1, <2>2, <2>3 DEF Exclusion, Tracked
<1>4. NoStaleCell /\ NotForgotten
  BY DEF Init, NoStaleCell, NotForgotten
<1> QED
  BY <1>1, <1>2, <1>3, <1>4 DEF Invariant

LEMMA Preserved == Invariant /\ [Next]_vars => Invariant'
<1> SUFFICES ASSUME Invariant, [Next]_vars PROVE Invariant'
  OBVIOUS
<1> USE ChildAssumption DEF Invariant, TypeOK, Exclusion, Tracked, NoStaleCell, NotForgotten,
                            Held, Inside, Goes, listVars, handlerVars
<1>0. CellsAccounted'
  BY CellsKept
<1>1. CASE Create
  BY <1>0, <1>1 DEF Create, NoPid
<1>2. CASE Wait
  BY <1>0, <1>2 DEF Wait, Acknowledge, NoPid
<1>3. CASE Block
  BY <1>0, <1>3 DEF Block
<1>4. CASE Ended
  BY <1>0, <1>4 DEF Ended, Acknowledge
<1>5. CASE Register
  BY <1>0, <1>5 DEF Register
<1>6. CASE Exhausted
  BY <1>0, <1>6 DEF Exhausted
<1>7. CASE GetCell
  BY <1>0, <1>7 DEF GetCell
<1>8. CASE TakeCell
  BY <1>0, <1>8 DEF TakeCell
<1>9. CASE LinkCell
  BY <1>0, <1>9 DEF LinkCell
<1>10. CASE PushCell
  BY <1>0, <1>10 DEF PushCell, NothingSeen
<1>11. CASE Unblock
  BY <1>0, <1>11 DEF Unblock, NoPid
<1>12. CASE Handle
  BY <1>0, <1>12 DEF Handle
<1>13. CASE Return
  BY <1>0, <1>13 DEF Return
<1>14. ASSUME NEW p \in Pid, AcknowledgeCell(p) PROVE Invariant'
  <2>1. FREE' \in 0..AUTOACKCHLD_MAX
    <3>1. HEAD' \subseteq Pid
      BY <1>14 DEF AcknowledgeCell
    <3>2. Cardinality(HEAD') \in Nat
      BY <3>1, FS_Subset, FS_CardinalityType
    <3>3. FREE' \in Nat
      BY <1>14 DEF AcknowledgeCell
    <3> QED
      BY <1>0, <3>2, <3>3 DEF CellsAccounted
  <2> QED
    BY <1>0, <1>14, <2>1 DEF AcknowledgeCell, Acknowledge
<1>15. ASSUME NEW p \in Pid, End(p) PROVE Invariant'
  BY <1>0, <1>15 DEF End
<1>16. CASE UNCHANGED vars
  BY <1>0, <1>16 DEF vars
<1> QED
  BY <1>1, <1>2, <1>3, <1>4, <1>5, <1>6, <1>7, <1>8, <1>9, <1>10, <1>11, <1>12, <1>13, <1>14, <1>15, <1>16 DEF Next, Registration, Handler

-----------------------------------------------------------------------------
(***************************************************************************)
(* The properties, for any number of children and of cells.                *)
(***************************************************************************)
THEOREM Inductive == Spec => []Invariant
  BY Initially, Preserved, PTL DEF Spec

(***************************************************************************)
(* The lists and the program's place are what they should be, and a cell   *)
(* is taken only when there is one.                                        *)
(***************************************************************************)
THEOREM TypeCorrect == Spec => []TypeOK
  BY Inductive, PTL DEF Invariant

(***************************************************************************)
(* The handler never changes the lists under the program.                  *)
(***************************************************************************)
THEOREM CellsAreAccounted == Spec => []CellsAccounted
  BY Inductive, PTL DEF Invariant

(***************************************************************************)
(* A pid the kernel may give away is in no cell.                           *)
(***************************************************************************)
THEOREM CellsAreFresh == Spec => []NoStaleCell
  BY Inductive, PTL DEF Invariant

(***************************************************************************)
(* mbkwaitpid always finds the child it waits for.                         *)
(***************************************************************************)
THEOREM StatusIsKept == Spec => []StatusKept
<1>1. Invariant => StatusKept
  BY DEF Invariant, Tracked, Held, StatusKept
<1> QED
  BY <1>1, Inductive, PTL

(***************************************************************************)
(* No end of a child is missed, though signals do not queue.               *)
(***************************************************************************)
THEOREM EndsAreSeen == Spec => []NotForgotten
  BY Inductive, PTL DEF Invariant
=============================================================================
