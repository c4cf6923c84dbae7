-------------------------- MODULE EventQueueProofs --------------------------
(***************************************************************************)
(* Invariance proofs about EventQueue, for every set of objects, delays    *)
(* and end dates.                                                          *)
(***************************************************************************)
EXTENDS EventQueue, TLAPS

(***************************************************************************)
(* Every date AddTransaction computes is the current one or a later one,   *)
(* whatever the sign of the delay.                                         *)
(***************************************************************************)
LEMMA DateAfterNow ==
  ASSUME now \in Nat, NEW delay \in Delay
  PROVE  DateAfter(delay) \in Nat /\ now <= DateAfter(delay)
BY DateAssumption DEF DateAfter

(***************************************************************************)
(* The variables of the event queue keep their types in every behaviour.   *)
(***************************************************************************)
THEOREM TypeCorrect == Spec => []TypeOK
<1>1. Init => TypeOK
  <2>1. Init => now \in Nat /\ pending \subseteq Transaction /\ runs \in Nat
    BY DEF Init
  <2>2. Init => running \in BOOLEAN
    BY Zenon DEF Init
  <2>3. QED
    BY <2>1, <2>2 DEF TypeOK
<1>2. TypeOK /\ [Next]_vars => TypeOK'
  <2> SUFFICES ASSUME TypeOK, [Next]_vars
               PROVE  TypeOK'
    OBVIOUS
  <2>1. CASE Start
    BY <2>1 DEF Start, TypeOK
  <2>2. CASE Fire
    BY <2>2 DEF Fire, TypeOK, Transaction
  <2>3. CASE Finish
    BY <2>3, DateAssumption DEF Finish, TypeOK
  <2>4. ASSUME NEW obj \in Object, NEW delay \in Delay, Post(obj, delay)
        PROVE  TypeOK'
    <3>1. DateAfter(delay) \in Nat
      BY DateAfterNow DEF TypeOK
    <3>2. [obj |-> obj, date |-> DateAfter(delay), posted |-> now] \in Transaction
      BY <3>1 DEF Transaction, TypeOK
    <3>3. QED
      BY <2>4, <3>2 DEF Post, TypeOK
  <2>5. ASSUME NEW obj \in Object, NEW delay \in Delay, Ignore(obj, delay)
        PROVE  TypeOK'
    BY <2>5 DEF Ignore, TypeOK, vars
  <2>6. CASE UNCHANGED vars
    BY <2>6 DEF TypeOK, vars
  <2>7. QED
    BY <2>1, <2>2, <2>3, <2>4, <2>5, <2>6 DEF Next
<1>3. QED
  BY <1>1, <1>2, PTL DEF Spec

-----------------------------------------------------------------------------
(***************************************************************************)
(* Nothing pending is ever in the past: a post is never dated before now,  *)
(* time advances to the earliest date only, and a run ends at a date that  *)
(* nothing pending precedes.                                               *)
(***************************************************************************)
THEOREM NeverPast == Spec => []NothingPast
<1>1. Init => NothingPast
  BY DEF Init, NothingPast
<1>2. TypeOK /\ NothingPast /\ [Next]_vars => NothingPast'
  <2> SUFFICES ASSUME TypeOK, NothingPast, [Next]_vars
               PROVE  NothingPast'
    OBVIOUS
  <2>1. CASE Start
    BY <2>1 DEF Start, NothingPast
  <2>2. CASE Fire
    BY <2>2 DEF Fire, NothingPast
  <2>3. CASE Finish
    BY <2>3 DEF Finish, NothingPast
  <2>4. ASSUME NEW obj \in Object, NEW delay \in Delay, Post(obj, delay)
        PROVE  NothingPast'
    <3>1. now <= DateAfter(delay)
      BY DateAfterNow DEF TypeOK
    <3>2. QED
      BY <2>4, <3>1 DEF Post, NothingPast
  <2>5. ASSUME NEW obj \in Object, NEW delay \in Delay, Ignore(obj, delay)
        PROVE  NothingPast'
    BY <2>5 DEF Ignore, NothingPast, vars
  <2>6. CASE UNCHANGED vars
    BY <2>6 DEF NothingPast, vars
  <2>7. QED
    BY <2>1, <2>2, <2>3, <2>4, <2>5, <2>6 DEF Next
<1>3. QED
  BY <1>1, <1>2, TypeCorrect, PTL DEF Spec

(***************************************************************************)
(* An object never has two transactions at one date: a post that counts    *)
(* first withdraws those of the object due at its date or later.           *)
(***************************************************************************)
THEOREM NeverTwoAtOnce == Spec => []OnePerDate
<1>1. Init => OnePerDate
  BY DEF Init, OnePerDate
<1>2. TypeOK /\ OnePerDate /\ [Next]_vars => OnePerDate'
  <2> SUFFICES ASSUME TypeOK, OnePerDate, [Next]_vars
               PROVE  OnePerDate'
    OBVIOUS
  <2>1. CASE Start
    BY <2>1 DEF Start, OnePerDate
  <2>2. CASE Fire
    BY <2>2 DEF Fire, OnePerDate
  <2>3. CASE Finish
    BY <2>3 DEF Finish, OnePerDate
  <2>4. ASSUME NEW obj \in Object, NEW delay \in Delay, Post(obj, delay)
        PROVE  OnePerDate'
    <3> DEFINE t == [obj |-> obj, date |-> DateAfter(delay), posted |-> now]
    <3>1. \A u \in pending : u.obj = t.obj /\ u \in pending' /\ u # t => u.date < t.date
      BY <2>4 DEF Post
    <3>2. pending' \subseteq pending \cup {t}
      BY <2>4 DEF Post
    <3>3. \A u \in pending : u.date \in Nat
      BY DEF TypeOK, Transaction
    <3>4. t.date \in Nat
      BY DateAfterNow DEF TypeOK
    <3> HIDE DEF t
    <3>5. QED
      BY <3>1, <3>2, <3>3, <3>4 DEF OnePerDate
  <2>5. ASSUME NEW obj \in Object, NEW delay \in Delay, Ignore(obj, delay)
        PROVE  OnePerDate'
    BY <2>5 DEF Ignore, OnePerDate, vars
  <2>6. CASE UNCHANGED vars
    BY <2>6 DEF OnePerDate, vars
  <2>7. QED
    BY <2>1, <2>2, <2>3, <2>4, <2>5, <2>6 DEF Next
<1>3. QED
  BY <1>1, <1>2, TypeCorrect, PTL DEF Spec
-----------------------------------------------------------------------------
(***************************************************************************)
(* PostedInOrder is not inductive: a post must also know that nothing      *)
(* pending was posted later than the current date, which holds during the  *)
(* first run because time only moves back at its end.                      *)
(***************************************************************************)
PostedInv == /\ runs = 0 => ~running /\ pending = {}
             /\ runs <= 1 /\ running => \A t \in pending : t.posted <= now
             /\ PostedInOrder

(***************************************************************************)
(* During the first run an object's transactions were posted in the order  *)
(* of their dates: of the posts of one instant only the earliest survives. *)
(***************************************************************************)
THEOREM OrderOfPosts == Spec => []PostedInOrder
<1>1. Init => PostedInv
  BY DEF Init, PostedInv, PostedInOrder
<1>2. TypeOK /\ NothingPast /\ PostedInv /\ [Next]_vars => PostedInv'
  <2> SUFFICES ASSUME TypeOK, NothingPast, PostedInv, [Next]_vars
               PROVE  PostedInv'
    OBVIOUS
  <2> USE DEF TypeOK
  <2>1. CASE Start
    BY <2>1 DEF Start, PostedInv, PostedInOrder
  <2>2. CASE Fire
    <3>1. now <= now'
      BY <2>2 DEF Fire, NothingPast
    <3>2. pending' \subseteq pending /\ running /\ UNCHANGED <<running, runs>>
      BY <2>2 DEF Fire
    <3>3. \A t \in pending : t.posted \in Nat
      BY DEF Transaction
    <3>4. now' \in Nat
      BY <2>2 DEF Fire, Transaction
    <3>5. QED
      BY <3>1, <3>2, <3>3, <3>4 DEF PostedInv, PostedInOrder
  <2>3. CASE Finish
    BY <2>3 DEF Finish, PostedInv, PostedInOrder
  <2>4. ASSUME NEW obj \in Object, NEW delay \in Delay, Post(obj, delay)
        PROVE  PostedInv'
    <3> DEFINE t == [obj |-> obj, date |-> DateAfter(delay), posted |-> now]
    <3>1. /\ running /\ ~Preempted(obj, t.date)
          /\ pending' = {u \in pending : u.obj # obj \/ u.date < t.date} \cup {t}
          /\ UNCHANGED <<now, running, runs>>
      BY <2>4 DEF Post
    <3>2. t.obj = obj /\ t.posted = now /\ t.date \in Nat
      BY DateAfterNow
    <3>3. \A u \in pending : u.date \in Nat /\ u.posted \in Nat
      BY DEF Transaction
    <3> HIDE DEF t
    <3>4. ASSUME runs <= 1, NEW u \in pending, u.obj = obj, u.date < t.date
          PROVE  u.posted < now
      <4>1. u.posted <= now
        BY <3>1, <3>4 DEF PostedInv
      <4>2. ASSUME u.posted = now
            PROVE  FALSE
        <5>1. ASSUME NEW v \in pending, v.obj = obj, u.date < v.date
              PROVE  FALSE
          BY <3>1, <3>3, <3>4, <4>2, <5>1 DEF PostedInv, PostedInOrder
        <5>2. u \in Of(obj) /\ IsLatest(u)
          BY <3>3, <3>4, <5>1 DEF Of, IsLatest
        <5>3. QED
          BY <3>1, <3>4, <4>2, <5>2 DEF Preempted
      <4>3. QED
        BY <3>3, <4>1, <4>2
    <3>5. PostedInOrder'
      BY <3>1, <3>2, <3>3, <3>4 DEF PostedInv, PostedInOrder
    <3>6. QED
      BY <3>1, <3>2, <3>5 DEF PostedInv
  <2>5. ASSUME NEW obj \in Object, NEW delay \in Delay, Ignore(obj, delay)
        PROVE  PostedInv'
    BY <2>5 DEF Ignore, PostedInv, PostedInOrder, vars
  <2>6. CASE UNCHANGED vars
    BY <2>6 DEF PostedInv, PostedInOrder, vars
  <2>7. QED
    BY <2>1, <2>2, <2>3, <2>4, <2>5, <2>6 DEF Next
<1>3. PostedInv => PostedInOrder
  BY DEF PostedInv
<1>4. QED
  BY <1>1, <1>2, <1>3, TypeCorrect, NeverPast, PTL DEF Spec
=============================================================================
