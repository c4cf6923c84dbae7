----------------------------- MODULE TrcLoadProofs -----------------------------
(***************************************************************************)
(* The caches of parasitics and of delays, for any signals, couplings,     *)
(* pins, sizes and limits, and any order of accesses, locks, analyses and  *)
(* flushes.                                                                *)
(***************************************************************************)
EXTENDS MCTrcLoad, FiniteSetTheorems, WellFoundedInduction, TLAPS

LEMMA Least ==
  ASSUME NEW S, S \subseteq Nat, S # {}
  PROVE  \E x \in S : \A y \in S : x <= y
<1> DEFINE R == OpToRel(<, Nat)
<1>1. \A x, y \in Nat : y < x => <<y, x>> \in R
  BY DEF OpToRel
<1>2. IsWellFoundedOn(R, Nat)
  BY NatLessThanWellFounded
<1> HIDE DEF R
<1>3. \E x \in S : \A y \in S : <<y, x>> \notin R
  BY <1>2, WFMin
<1>4. PICK x \in S : \A y \in S : <<y, x>> \notin R
  BY <1>3
<1>5. \A y \in S : ~(y < x)
  BY <1>1, <1>4
<1> QED
  BY <1>5

-----------------------------------------------------------------------------
(***************************************************************************)
(* What Unlink returns: the recursive function it is made of exists, and   *)
(* after i elements it has those that are not gone.                        *)
(***************************************************************************)
Turn(s, gone, f, i) == IF i = 0 THEN <<>>
                       ELSE IF s[i] \in gone THEN f[i - 1] ELSE Append(f[i - 1], s[i])

Goes(s, gone, f, n) == f = [i \in 0..n |-> Turn(s, gone, f, i)]

LEMMA LeftExists ==
  ASSUME NEW s, NEW gone, NEW m \in Nat
  PROVE  \E f : Goes(s, gone, f, m)
<1> DEFINE None == {n \in Nat : ~ \E f : Goes(s, gone, f, n)}
<1>1. SUFFICES ASSUME None # {} PROVE FALSE
  OBVIOUS
<1>2. PICK n \in None : \A k \in None : n <= k
  <2> HIDE DEF None
  <2>1. None \subseteq Nat
    BY DEF None
  <2> QED
    BY <2>1, <1>1, Least
<1>3. n # 0
  <2> DEFINE f == [i \in 0..0 |-> <<>>]
  <2>1. Goes(s, gone, f, 0)
    BY DEF Goes, Turn
  <2> QED
    BY <2>1
<1>4. n \in Nat \ {0} /\ n - 1 \in Nat /\ n - 1 \notin None
  <2> HIDE DEF None
  <2>1. n \in Nat
    BY DEF None
  <2> QED
    BY <1>2, <1>3, <2>1
<1>5. PICK f : Goes(s, gone, f, n - 1)
  BY <1>4
<1> DEFINE g == [i \in 0..n |-> IF i = n THEN Turn(s, gone, f, n) ELSE f[i]]
<1>6. \A i \in 0..n-1 : f[i] = Turn(s, gone, f, i)
  BY <1>5 DEF Goes
<1>7. \A i \in 0..n : g[i] = Turn(s, gone, g, i)
  BY <1>4, <1>6 DEF Turn
<1>8. Goes(s, gone, g, n)
  <2> HIDE DEF g
  <2>1. g = [i \in 0..n |-> g[i]]
    BY DEF g
  <2> QED
    BY <1>7, <2>1 DEF Goes
<1> QED
  BY <1>2, <1>8

Some(S, s, gone, n, r) == r \in Seq(S) /\ ToSet(r) = {s[k] : k \in 1..n} \ gone

LEMMA Unlinked ==
  ASSUME NEW S, NEW s \in Seq(S), NEW gone
  PROVE  Unlink(s, gone) \in Seq(S) /\ ToSet(Unlink(s, gone)) = ToSet(s) \ gone
<1> DEFINE g == CHOOSE f : Goes(s, gone, f, Len(s))
           Bad == {n \in 0..Len(s) : ~Some(S, s, gone, n, g[n])}
<1>1. Unlink(s, gone) = g[Len(s)]
  BY DEF Unlink, Goes, Turn
<1>2. Goes(s, gone, g, Len(s))
  BY LeftExists
<1> HIDE DEF g
<1>3. \A i \in 0..Len(s) : g[i] = Turn(s, gone, g, i)
  BY <1>2 DEF Goes
<1>4. Bad = {}
  <2>1. SUFFICES ASSUME Bad # {} PROVE FALSE
    OBVIOUS
  <2>2. PICK n \in Bad : \A k \in Bad : n <= k
    <3> HIDE DEF Bad
    <3>1. Bad \subseteq Nat
      BY DEF Bad
    <3> QED
      BY <3>1, <2>1, Least
  <2>3. n # 0
    <3>1. 0 \in 0..Len(s) /\ g[0] = <<>>
      BY <1>3 DEF Turn
    <3>2. Some(S, s, gone, 0, g[0])
      BY <3>1 DEF Some, ToSet
    <3> QED
      BY <3>2
  <2>4. n \in 1..Len(s) /\ Some(S, s, gone, n - 1, g[n - 1])
    BY <2>2, <2>3
  <2>5. g[n] = IF s[n] \in gone THEN g[n - 1] ELSE Append(g[n - 1], s[n])
    BY <1>3, <2>4 DEF Turn
  <2>6. {s[k] : k \in 1..n} = {s[k] : k \in 1..n-1} \cup {s[n]} /\ s[n] \in S
    BY <2>4
  <2>7. CASE s[n] \in gone
    BY <2>4, <2>5, <2>6, <2>7 DEF Some
  <2>8. CASE s[n] \notin gone
    <3> DEFINE q == g[n - 1]
    <3>1. q \in Seq(S) /\ g[n] = Append(q, s[n])
      BY <2>4, <2>5, <2>8 DEF Some
    <3> HIDE DEF q
    <3>2. g[n] \in Seq(S) /\ ToSet(g[n]) = ToSet(q) \cup {s[n]}
      BY <2>6, <3>1 DEF ToSet
    <3> QED
      BY <2>4, <2>6, <2>8, <3>2 DEF Some, q
  <2> QED
    BY <2>7, <2>8
<1>5. Some(S, s, gone, Len(s), g[Len(s)])
  BY <1>4
<1>6. ToSet(s) = {s[k] : k \in 1..Len(s)}
  BY DEF ToSet
<1> QED
  BY <1>1, <1>5, <1>6 DEF Some

LEMMA Elements ==
  ASSUME NEW S, NEW s \in Seq(S)
  PROVE  ToSet(s) \subseteq S /\ (ToSet(s) = {} => s = <<>>)
<1>1. Len(s) \in Nat /\ DOMAIN s = 1..Len(s) /\ s \in [1..Len(s) -> S]
  OBVIOUS
<1>2. ToSet(s) \subseteq S
  BY <1>1 DEF ToSet
<1>3. ASSUME ToSet(s) = {} PROVE s = <<>>
  <2>1. Len(s) = 0
    <3> SUFFICES ASSUME Len(s) # 0 PROVE FALSE
      OBVIOUS
    <3>1. 1 \in 1..Len(s)
      BY <1>1
    <3>2. s[1] \in ToSet(s)
      BY <1>1, <3>1 DEF ToSet
    <3> QED
      BY <1>3, <3>2
  <2> QED
    BY <2>1
<1> QED
  BY <1>2, <1>3

LEMMA Linked ==
  ASSUME NEW S, NEW s \in Seq(S), NEW e \in S
  PROVE  <<e>> \o s \in Seq(S) /\ ToSet(<<e>> \o s) = {e} \cup ToSet(s)
<1> DEFINE r == <<e>> \o s
<1>1. r \in Seq(S) /\ Len(r) = Len(s) + 1 /\ r[1] = e /\ \A i \in 1..Len(s) : r[i + 1] = s[i]
  OBVIOUS
<1> HIDE DEF r
<1>2. ASSUME NEW x \in ToSet(r) PROVE x \in {e} \cup ToSet(s)
  <2>1. PICK i \in 1..Len(r) : x = r[i]
    BY <1>1, <1>2 DEF ToSet
  <2>2. CASE i = 1
    BY <1>1, <2>1, <2>2
  <2>3. CASE i # 1
    <3>1. i - 1 \in 1..Len(s) /\ i = (i - 1) + 1
      BY <1>1, <2>1, <2>3
    <3>2. x = s[i - 1]
      BY <1>1, <2>1, <3>1
    <3> QED
      BY <3>1, <3>2 DEF ToSet
  <2> QED
    BY <2>2, <2>3
<1>3. ASSUME NEW x \in ToSet(s) PROVE x \in ToSet(r)
  <2>1. PICK i \in 1..Len(s) : x = s[i]
    BY <1>3 DEF ToSet
  <2>2. i + 1 \in 1..Len(r) /\ r[i + 1] = x
    BY <1>1, <2>1
  <2> QED
    BY <1>1, <2>2 DEF ToSet
<1>4. e \in ToSet(r)
  <2>1. 1 \in 1..Len(r)
    BY <1>1
  <2> QED
    BY <1>1, <2>1 DEF ToSet
<1> QED
  BY <1>1, <1>2, <1>3, <1>4 DEF r

-----------------------------------------------------------------------------
(***************************************************************************)
(* Sums over finite sets.  SumFunctionOnSet is a recursive function over   *)
(* the subsets, which exists and does not depend on the order in which     *)
(* elements are picked.                                                    *)
(***************************************************************************)
LEMMA SetInduction ==
  ASSUME NEW S, IsFiniteSet(S), NEW P, {} \in P,
         \A T \in SUBSET S : \A x \in S \ T : T \in P => T \cup {x} \in P
  PROVE  S \in P
<1> DEFINE Bad == {n \in Nat : \E T \in SUBSET S : Cardinality(T) = n /\ T \notin P}
<1>1. SUFFICES ASSUME Bad # {} PROVE FALSE
  <2>1. Cardinality(S) \in Nat
    BY FS_CardinalityType
  <2> QED
    BY <2>1
<1>2. PICK n \in Bad : \A k \in Bad : n <= k
  <2> HIDE DEF Bad
  <2>1. Bad \subseteq Nat
    BY DEF Bad
  <2> QED
    BY <2>1, <1>1, Least
<1>3. PICK T \in SUBSET S : Cardinality(T) = n /\ T \notin P
  OBVIOUS
<1>4. IsFiniteSet(T)
  BY FS_Subset
<1>5. PICK x \in T : TRUE
  BY <1>3
<1>6. Cardinality(T \ {x}) = n - 1 /\ n \in Nat /\ n # 0
  <2>1. n \in Nat
    OBVIOUS
  <2>2. Cardinality(T \ {x}) = n - 1 /\ IsFiniteSet(T \ {x})
    BY <1>3, <1>4, <1>5, FS_RemoveElement
  <2>3. n # 0
    BY <1>3, <1>4, <1>5, FS_EmptySet
  <2> QED
    BY <2>1, <2>2, <2>3
<1>7. T \ {x} \in P
  <2>1. n - 1 \in Nat /\ ~(n <= n - 1)
    BY <1>6
  <2>2. n - 1 \notin Bad
    <3> HIDE DEF Bad
    <3> QED
      BY <1>2, <2>1
  <2> QED
    BY <1>6, <2>1, <2>2
<1>8. T = (T \ {x}) \cup {x} /\ x \in S \ (T \ {x}) /\ T \ {x} \in SUBSET S
  BY <1>5
<1> QED
  BY <1>3, <1>7, <1>8

Pick(T) == CHOOSE x \in T : TRUE

Sum(f, g, T) == IF T = {} THEN 0 ELSE f[Pick(T)] + g[T \ {Pick(T)}]

SumGoes(f, S, g) == g = [T \in SUBSET S |-> Sum(f, g, T)]

SumOf(f, S) == CHOOSE g : SumGoes(f, S, g)

Small(S, n) == {T \in SUBSET S : Cardinality(T) <= n}

SumsSmall(f, S, n, g) == g = [T \in Small(S, n) |-> Sum(f, g, T)]

LEMMA SumExists ==
  ASSUME NEW f, NEW S, IsFiniteSet(S)
  PROVE  SumGoes(f, S, SumOf(f, S))
<1> DEFINE None == {n \in Nat : ~ \E g : SumsSmall(f, S, n, g)}
<1>0. \A T \in SUBSET S : IsFiniteSet(T) /\ Cardinality(T) \in Nat
                         /\ (Cardinality(T) = 0 <=> T = {})
                         /\ \A x \in T : Cardinality(T \ {x}) = Cardinality(T) - 1
  BY FS_Subset, FS_CardinalityType, FS_EmptySet, FS_RemoveElement
<1>1. None = {}
  <2>1. SUFFICES ASSUME None # {} PROVE FALSE
    OBVIOUS
  <2>2. PICK n \in None : \A k \in None : n <= k
    <3> HIDE DEF None
    <3>1. None \subseteq Nat
      BY DEF None
    <3> QED
      BY <3>1, <2>1, Least
  <2>3. n # 0
    <3>1. Small(S, 0) = {{}}
      <4>1. \A T \in SUBSET S : Cardinality(T) <= 0 <=> T = {}
        BY <1>0
      <4> QED
        BY <4>1 DEF Small
    <3> DEFINE g == [T \in Small(S, 0) |-> 0]
    <3>2. SumsSmall(f, S, 0, g)
      BY <3>1 DEF SumsSmall, Sum
    <3> QED
      BY <3>2
  <2>4. n \in Nat \ {0} /\ n - 1 \in Nat /\ n - 1 \notin None
    <3> HIDE DEF None
    <3>1. n \in Nat
      BY DEF None
    <3> QED
      BY <2>2, <2>3, <3>1
  <2>5. PICK g : SumsSmall(f, S, n - 1, g)
    BY <2>4
  <2> DEFINE h == [T \in Small(S, n) |-> Sum(f, g, T)]
  <2>6. \A T \in Small(S, n - 1) : g[T] = Sum(f, g, T)
    BY <2>5 DEF SumsSmall
  <2>7. Small(S, n - 1) \subseteq Small(S, n)
        /\ \A T \in Small(S, n) : T # {} => T \ {Pick(T)} \in Small(S, n - 1)
    <3>1. Small(S, n - 1) \subseteq Small(S, n)
      BY <1>0, <2>4 DEF Small
    <3>2. ASSUME NEW T \in Small(S, n), T # {} PROVE T \ {Pick(T)} \in Small(S, n - 1)
      <4>1. Pick(T) \in T /\ T \in SUBSET S /\ Cardinality(T) <= n
        BY <3>2 DEF Pick, Small
      <4>2. Cardinality(T \ {Pick(T)}) = Cardinality(T) - 1 /\ Cardinality(T) \in Nat
        BY <1>0, <4>1
      <4>3. Cardinality(T \ {Pick(T)}) <= n - 1
        BY <2>4, <4>1, <4>2
      <4> QED
        BY <4>1, <4>3 DEF Small
    <3> QED
      BY <3>1, <3>2
  <2>8. \A T \in Small(S, n - 1) : h[T] = g[T]
    BY <2>6, <2>7
  <2>9. \A T \in Small(S, n) : h[T] = Sum(f, h, T)
    BY <2>7, <2>8 DEF Sum
  <2>10. SumsSmall(f, S, n, h)
    <3>1. h = [T \in Small(S, n) |-> h[T]]
      OBVIOUS
    <3> HIDE DEF h
    <3> QED
      BY <2>9, <3>1 DEF SumsSmall
  <2> QED
    BY <2>2, <2>10
<1>2. Cardinality(S) \in Nat
  BY FS_CardinalityType
<1>3. PICK g : SumsSmall(f, S, Cardinality(S), g)
  BY <1>1, <1>2
<1>4. Small(S, Cardinality(S)) = SUBSET S
  BY FS_Subset DEF Small
<1>5. SumGoes(f, S, g)
  BY <1>3, <1>4 DEF SumsSmall, SumGoes
<1> QED
  BY <1>5 DEF SumOf

LEMMA SumIs ==
  ASSUME NEW f, NEW S, IsFiniteSet(S)
  PROVE  /\ SumFunctionOnSet(f, S) = SumOf(f, S)[S]
         /\ \A T \in SUBSET S : SumOf(f, S)[T] = Sum(f, SumOf(f, S), T)
<1>1. SumFunctionOnSet(f, S) = SumOf(f, S)[S]
  BY DEF SumFunctionOnSet, FoldFunctionOnSet, MapThenFoldSet, SumOf, SumGoes, Sum, Pick
<1>2. SumGoes(f, S, SumOf(f, S))
  BY SumExists
<1> DEFINE g == SumOf(f, S)
<1> HIDE DEF g
<1>3. \A T \in SUBSET S : g[T] = Sum(f, g, T)
  BY <1>2 DEF SumGoes, g
<1> QED
  BY <1>1, <1>3 DEF g

(***************************************************************************)
(* The sum of a subset does not depend on the set it is a subset of.       *)
(***************************************************************************)
LEMMA SumOfSubset ==
  ASSUME NEW f, NEW S, IsFiniteSet(S), NEW T \in SUBSET S
  PROVE  SumOf(f, S)[T] = SumFunctionOnSet(f, T)
<1> DEFINE Bad == {n \in Nat : \E Q \in SUBSET S : \E R \in SUBSET Q :
                       Cardinality(R) = n /\ SumOf(f, Q)[R] # SumFunctionOnSet(f, R)}
<1>1. \A Q \in SUBSET S : IsFiniteSet(Q) /\ Cardinality(Q) \in Nat
                         /\ \A x \in Q : Cardinality(Q \ {x}) = Cardinality(Q) - 1
  BY FS_Subset, FS_CardinalityType, FS_RemoveElement
<1>2. SUFFICES ASSUME Bad # {} PROVE FALSE
  BY <1>1
<1>3. PICK n \in Bad : \A k \in Bad : n <= k
  <2> HIDE DEF Bad
  <2>1. Bad \subseteq Nat
    BY DEF Bad
  <2> QED
    BY <2>1, <1>2, Least
<1>4. PICK Q \in SUBSET S : \E R \in SUBSET Q :
          Cardinality(R) = n /\ SumOf(f, Q)[R] # SumFunctionOnSet(f, R)
  OBVIOUS
<1>5. PICK R \in SUBSET Q : Cardinality(R) = n /\ SumOf(f, Q)[R] # SumFunctionOnSet(f, R)
  BY <1>4
<1>6. /\ SumOf(f, Q)[R] = Sum(f, SumOf(f, Q), R)
      /\ SumFunctionOnSet(f, R) = Sum(f, SumOf(f, R), R)
  BY <1>1, <1>5, SumIs
<1>7. R # {}
  BY <1>5, <1>6 DEF Sum
<1> DEFINE P == R \ {Pick(R)}
<1>8. Pick(R) \in R /\ P \in SUBSET R /\ P \in SUBSET Q /\ R \in SUBSET S
  BY <1>7 DEF Pick
<1>9. n - 1 \in Nat /\ Cardinality(P) = n - 1 /\ n \in Nat
  <2>1. Cardinality(P) = Cardinality(R) - 1 /\ Cardinality(P) \in Nat /\ Cardinality(R) \in Nat
    BY <1>1, <1>8
  <2> QED
    BY <1>5, <2>1
<1>10. n - 1 \notin Bad
  <2>1. ~(n <= n - 1)
    BY <1>9
  <2> HIDE DEF Bad
  <2> QED
    BY <1>3, <2>1
<1>11. SumOf(f, Q)[P] = SumFunctionOnSet(f, P) /\ SumOf(f, R)[P] = SumFunctionOnSet(f, P)
  BY <1>8, <1>9, <1>10
<1> QED
  BY <1>5, <1>6, <1>7, <1>11 DEF Sum

LEMMA SumPicks ==
  ASSUME NEW f, NEW S, IsFiniteSet(S)
  PROVE  SumFunctionOnSet(f, S) =
             IF S = {} THEN 0 ELSE f[Pick(S)] + SumFunctionOnSet(f, S \ {Pick(S)})
<1>1. SumFunctionOnSet(f, S) = Sum(f, SumOf(f, S), S)
  BY SumIs
<1>2. SumOf(f, S)[S \ {Pick(S)}] = SumFunctionOnSet(f, S \ {Pick(S)})
  BY SumOfSubset
<1> QED
  BY <1>1, <1>2 DEF Sum

(***************************************************************************)
(* Sums of integers: element by element, over disjoint sets, ordered, and  *)
(* of ones.                                                                *)
(***************************************************************************)
LEMMA SumIsInt ==
  ASSUME NEW f, NEW S, IsFiniteSet(S), \A x \in S : f[x] \in Int
  PROVE  SumFunctionOnSet(f, S) \in Int
<1> DEFINE Bad == {n \in Nat : \E T \in SUBSET S :
                       Cardinality(T) = n /\ SumFunctionOnSet(f, T) \notin Int}
<1>1. \A T \in SUBSET S : IsFiniteSet(T) /\ Cardinality(T) \in Nat
                         /\ \A x \in T : Cardinality(T \ {x}) = Cardinality(T) - 1
  BY FS_Subset, FS_CardinalityType, FS_RemoveElement
<1>2. SUFFICES ASSUME Bad # {} PROVE FALSE
  BY <1>1
<1>3. PICK n \in Bad : \A k \in Bad : n <= k
  <2> HIDE DEF Bad
  <2>1. Bad \subseteq Nat
    BY DEF Bad
  <2> QED
    BY <2>1, <1>2, Least
<1>4. PICK T \in SUBSET S : Cardinality(T) = n /\ SumFunctionOnSet(f, T) \notin Int
  OBVIOUS
<1>5. T # {} /\ SumFunctionOnSet(f, T) = f[Pick(T)] + SumFunctionOnSet(f, T \ {Pick(T)})
  <2>1. SumFunctionOnSet(f, T) =
            IF T = {} THEN 0 ELSE f[Pick(T)] + SumFunctionOnSet(f, T \ {Pick(T)})
    BY <1>1, SumPicks
  <2>2. SumFunctionOnSet(f, T) # 0
    BY <1>4
  <2> QED
    BY <2>1, <2>2
<1>6. Pick(T) \in T /\ T \ {Pick(T)} \in SUBSET S /\ f[Pick(T)] \in Int
  BY <1>5 DEF Pick
<1>7. n - 1 \in Nat /\ Cardinality(T \ {Pick(T)}) = n - 1 /\ ~(n <= n - 1)
  <2>1. Cardinality(T \ {Pick(T)}) = Cardinality(T) - 1
        /\ Cardinality(T \ {Pick(T)}) \in Nat /\ Cardinality(T) \in Nat
    BY <1>1, <1>6
  <2> QED
    BY <1>4, <2>1
<1>8. n - 1 \notin Bad
  <2> HIDE DEF Bad
  <2> QED
    BY <1>3, <1>7
<1>9. SumFunctionOnSet(f, T \ {Pick(T)}) \in Int
  BY <1>6, <1>7, <1>8
<1> QED
  BY <1>4, <1>5, <1>6, <1>9

LEMMA SumAdds ==
  ASSUME NEW f, NEW S, IsFiniteSet(S), \A x \in S : f[x] \in Int,
         NEW U \in SUBSET S, NEW e \in S \ U
  PROVE  SumFunctionOnSet(f, U \cup {e}) = f[e] + SumFunctionOnSet(f, U)
<1> DEFINE Wrong(T, y) == SumFunctionOnSet(f, T \cup {y}) # f[y] + SumFunctionOnSet(f, T)
           Bad == {n \in Nat : \E T \in SUBSET S : \E y \in S \ T :
                       Cardinality(T) = n /\ Wrong(T, y)}
<1>1. \A T \in SUBSET S : IsFiniteSet(T) /\ Cardinality(T) \in Nat
                         /\ \A x \in T : Cardinality(T \ {x}) = Cardinality(T) - 1
  BY FS_Subset, FS_CardinalityType, FS_RemoveElement
<1>2. \A T \in SUBSET S : SumFunctionOnSet(f, T) \in Int
  <2> TAKE T \in SUBSET S
  <2>1. IsFiniteSet(T) /\ \A x \in T : f[x] \in Int
    BY <1>1
  <2> QED
    BY <2>1, SumIsInt
<1>3. SUFFICES ASSUME Bad # {} PROVE FALSE
  BY <1>1
<1>4. PICK n \in Bad : \A k \in Bad : n <= k
  <2> HIDE DEF Bad
  <2>1. Bad \subseteq Nat
    BY DEF Bad
  <2> QED
    BY <2>1, <1>3, Least
<1>5. PICK T \in SUBSET S : \E y \in S \ T : Cardinality(T) = n /\ Wrong(T, y)
  OBVIOUS
<1>6. PICK y \in S \ T : Cardinality(T) = n /\ Wrong(T, y)
  BY <1>5
<1> DEFINE B == T \cup {y}
           p == Pick(B)
<1>7. p \in B /\ SumFunctionOnSet(f, B) = f[p] + SumFunctionOnSet(f, B \ {p})
  <2>1. IsFiniteSet(B) /\ B # {}
    BY <1>1
  <2>2. p \in B
    BY <2>1 DEF Pick
  <2> HIDE DEF B
  <2> QED
    BY <2>1, <2>2, SumPicks
<1> HIDE DEF p
<1>8. p # y
  <2>1. p = y => B \ {p} = T
    OBVIOUS
  <2> QED
    BY <1>6, <1>7, <2>1
<1> DEFINE R == T \ {p}
<1>9. /\ p \in T /\ R \in SUBSET S /\ y \in S \ R /\ p \in S \ R
      /\ B \ {p} = R \cup {y} /\ T = R \cup {p}
  BY <1>7, <1>8
<1>10. n - 1 \in Nat /\ Cardinality(R) = n - 1 /\ ~(n <= n - 1)
  <2>1. Cardinality(R) = Cardinality(T) - 1 /\ Cardinality(R) \in Nat /\ Cardinality(T) \in Nat
    BY <1>1, <1>9
  <2> QED
    BY <1>6, <2>1
<1>11. n - 1 \notin Bad
  <2> HIDE DEF Bad
  <2> QED
    BY <1>4, <1>10
<1>12. ~Wrong(R, y) /\ ~Wrong(R, p)
  BY <1>9, <1>10, <1>11
<1>13. /\ SumFunctionOnSet(f, B \ {p}) = f[y] + SumFunctionOnSet(f, R)
       /\ SumFunctionOnSet(f, T) = f[p] + SumFunctionOnSet(f, R)
       /\ SumFunctionOnSet(f, R) \in Int /\ f[p] \in Int /\ f[y] \in Int
  BY <1>2, <1>9, <1>12
<1>14. SumFunctionOnSet(f, B) = f[y] + SumFunctionOnSet(f, T)
  BY <1>7, <1>13
<1> QED
  BY <1>6, <1>14

LEMMA SumEmpty ==
  ASSUME NEW f
  PROVE  SumFunctionOnSet(f, {}) = 0
BY SumPicks, FS_EmptySet

LEMMA SumSame ==
  ASSUME NEW f, NEW g, NEW S, IsFiniteSet(S), \A x \in S : f[x] \in Int /\ g[x] = f[x]
  PROVE  SumFunctionOnSet(g, S) = SumFunctionOnSet(f, S)
<1> DEFINE P == {T \in SUBSET S : SumFunctionOnSet(g, T) = SumFunctionOnSet(f, T)}
<1>1. {} \in P
  BY SumEmpty
<1>2. ASSUME NEW T \in P, NEW x \in S \ T PROVE T \cup {x} \in P
  <2>1. /\ SumFunctionOnSet(f, T \cup {x}) = f[x] + SumFunctionOnSet(f, T)
        /\ SumFunctionOnSet(g, T \cup {x}) = g[x] + SumFunctionOnSet(g, T)
    BY SumAdds
  <2> QED
    BY <2>1
<1>3. S \in P
  <2> HIDE DEF P
  <2> QED
    BY <1>1, <1>2, SetInduction
<1> QED
  BY <1>3

LEMMA SumUnion ==
  ASSUME NEW f, NEW A, NEW S, IsFiniteSet(A), IsFiniteSet(S), A \cap S = {},
         \A x \in A \cup S : f[x] \in Int
  PROVE  SumFunctionOnSet(f, A \cup S) = SumFunctionOnSet(f, A) + SumFunctionOnSet(f, S)
<1> DEFINE P == {T \in SUBSET S : SumFunctionOnSet(f, A \cup T)
                                    = SumFunctionOnSet(f, A) + SumFunctionOnSet(f, T)}
<1>1. \A T \in SUBSET (A \cup S) : IsFiniteSet(T) /\ SumFunctionOnSet(f, T) \in Int
  <2> TAKE T \in SUBSET (A \cup S)
  <2>1. IsFiniteSet(A \cup S)
    BY FS_Union
  <2>2. IsFiniteSet(T) /\ \A x \in T : f[x] \in Int
    BY <2>1, FS_Subset
  <2> QED
    BY <2>2, SumIsInt
<1>2. {} \in P
  BY <1>1, SumEmpty
<1>3. ASSUME NEW T \in P, NEW x \in S \ T PROVE T \cup {x} \in P
  <2>1. SumFunctionOnSet(f, T \cup {x}) = f[x] + SumFunctionOnSet(f, T)
    BY SumAdds
  <2>2. SumFunctionOnSet(f, A \cup T \cup {x}) = f[x] + SumFunctionOnSet(f, A \cup T)
    <3>1. IsFiniteSet(A \cup S) /\ A \cup T \in SUBSET (A \cup S)
          /\ x \in (A \cup S) \ (A \cup T)
      BY <1>1
    <3> QED
      BY <3>1, SumAdds
  <2>3. /\ SumFunctionOnSet(f, A) \in Int /\ SumFunctionOnSet(f, T) \in Int /\ f[x] \in Int
        /\ A \cup (T \cup {x}) = A \cup T \cup {x}
    BY <1>1
  <2>4. SumFunctionOnSet(f, A \cup T) = SumFunctionOnSet(f, A) + SumFunctionOnSet(f, T)
    OBVIOUS
  <2>5. SumFunctionOnSet(f, A \cup (T \cup {x})) = f[x] + SumFunctionOnSet(f, A \cup T)
    <3>1. A \cup (T \cup {x}) = A \cup T \cup {x}
      OBVIOUS
    <3> QED
      BY <2>2, <3>1
  <2>6. f[x] + (SumFunctionOnSet(f, A) + SumFunctionOnSet(f, T))
            = SumFunctionOnSet(f, A) + (f[x] + SumFunctionOnSet(f, T))
    BY <2>3
  <2>7. SumFunctionOnSet(f, A \cup (T \cup {x}))
            = SumFunctionOnSet(f, A) + SumFunctionOnSet(f, T \cup {x})
    BY <2>1, <2>4, <2>5, <2>6
  <2> QED
    BY <2>7
<1>4. S \in P
  <2> HIDE DEF P
  <2> QED
    BY <1>2, <1>3, SetInduction
<1> QED
  BY <1>4

LEMMA SumOrder ==
  ASSUME NEW f, NEW g, NEW S, IsFiniteSet(S),
         \A x \in S : f[x] \in Int /\ g[x] \in Int /\ f[x] <= g[x]
  PROVE  SumFunctionOnSet(f, S) <= SumFunctionOnSet(g, S)
<1> DEFINE P == {T \in SUBSET S : SumFunctionOnSet(f, T) <= SumFunctionOnSet(g, T)}
<1>1. {} \in P
  BY SumEmpty
<1>2. ASSUME NEW T \in P, NEW x \in S \ T PROVE T \cup {x} \in P
  <2>1. /\ SumFunctionOnSet(f, T \cup {x}) = f[x] + SumFunctionOnSet(f, T)
        /\ SumFunctionOnSet(g, T \cup {x}) = g[x] + SumFunctionOnSet(g, T)
    BY SumAdds
  <2>2. SumFunctionOnSet(f, T) \in Int /\ SumFunctionOnSet(g, T) \in Int
    <3>1. IsFiniteSet(T)
      BY FS_Subset
    <3> QED
      BY <3>1, SumIsInt
  <2> QED
    BY <2>1, <2>2
<1>3. S \in P
  <2> HIDE DEF P
  <2> QED
    BY <1>1, <1>2, SetInduction
<1> QED
  BY <1>3

LEMMA SumOnes ==
  ASSUME NEW f, NEW S, IsFiniteSet(S), \A x \in S : f[x] \in {0, 1}
  PROVE  SumFunctionOnSet(f, S) = Cardinality({x \in S : f[x] = 1})
<1> DEFINE Ones(T) == {y \in T : f[y] = 1}
           P == {T \in SUBSET S : SumFunctionOnSet(f, T) = Cardinality(Ones(T))}
<1>1. {} \in P
  BY SumEmpty, FS_EmptySet
<1>2. ASSUME NEW T \in P, NEW x \in S \ T PROVE T \cup {x} \in P
  <2>1. SumFunctionOnSet(f, T \cup {x}) = f[x] + SumFunctionOnSet(f, T)
    BY SumAdds
  <2>2. IsFiniteSet(Ones(T)) /\ Cardinality(Ones(T)) \in Nat
    <3>1. IsFiniteSet(Ones(T))
      BY FS_Subset
    <3> QED
      BY <3>1, FS_CardinalityType
  <2>3. CASE f[x] = 0
    <3>1. Ones(T \cup {x}) = Ones(T)
      BY <2>3
    <3> QED
      BY <2>1, <2>2, <2>3, <3>1
  <2>4. CASE f[x] = 1
    <3>1. Ones(T \cup {x}) = Ones(T) \cup {x} /\ x \notin Ones(T)
      BY <2>4
    <3>2. Cardinality(Ones(T) \cup {x}) = Cardinality(Ones(T)) + 1
      <4> HIDE DEF Ones
      <4> QED
        BY <2>2, <3>1, FS_AddElement
    <3>3. SumFunctionOnSet(f, T) = Cardinality(Ones(T))
      OBVIOUS
    <3>4. SumFunctionOnSet(f, T \cup {x}) = Cardinality(Ones(T \cup {x}))
      BY <2>1, <2>2, <2>4, <3>1, <3>2, <3>3
    <3> QED
      BY <3>4
  <2> QED
    BY <2>3, <2>4
<1>3. S \in P
  <2> HIDE DEF P
  <2> QED
    BY <1>1, <1>2, SetInduction
<1> QED
  BY <1>3

-----------------------------------------------------------------------------
(***************************************************************************)
(* The list and the locks of a cache: only elements of the list are        *)
(* locked, and only elements that are not are taken out of it.             *)
(***************************************************************************)
CacheRec == [lru : Seq(Signal), locks : [Signal -> Nat], size : Int]

Sound(u) == u \in CacheRec /\ \A e \in Signal : u.locks[e] > 0 => Has(u, e)

Members(u) == ToSet(u.lru)

Free(u) == {e \in Members(u) : u.locks[e] = 0}

Takes(u, gone) == gone \subseteq Free(u)

LEMMA MembersOf ==
  ASSUME NEW u, Sound(u)
  PROVE  Members(u) \subseteq Signal /\ IsFiniteSet(Members(u))
<1>1. Members(u) \subseteq Signal
  BY DEF Sound, CacheRec, Members, ToSet
<1> QED
  BY <1>1, SignalAssumption, FS_Subset

LEMMA EmptySound == Sound(EmptyCache) /\ Members(EmptyCache) = {}
BY DEF Sound, EmptyCache, CacheRec, Members, ToSet

LEMMA MadeFirst ==
  ASSUME NEW u, Sound(u), NEW e \in Signal, Has(u, e), NEW v, v = MakeItFirst(u, e)
  PROVE  Sound(v) /\ Members(v) = Members(u) /\ v.locks = u.locks /\ v.size = u.size
<1> DEFINE rest == Unlink(u.lru, {e})
<1>1. u \in CacheRec
  BY DEF Sound
<1>2. rest \in Seq(Signal) /\ ToSet(rest) = ToSet(u.lru) \ {e}
  BY <1>1, Unlinked DEF CacheRec
<1> HIDE DEF rest
<1>3. <<e>> \o rest \in Seq(Signal) /\ ToSet(<<e>> \o rest) = {e} \cup ToSet(rest)
  BY <1>2, Linked
<1>4. v = [u EXCEPT !.lru = <<e>> \o rest]
  BY DEF MakeItFirst, rest
<1>5. v \in CacheRec /\ v.lru = <<e>> \o rest /\ v.locks = u.locks /\ v.size = u.size
  BY <1>1, <1>3, <1>4 DEF CacheRec
<1>6. Members(v) = Members(u)
  BY <1>2, <1>3, <1>5 DEF Members, Has
<1> QED
  BY <1>5, <1>6 DEF Sound, Has, Members

LEMMA Added ==
  ASSUME NEW u, Sound(u), NEW e \in Signal, ~Has(u, e), NEW n \in Int, NEW v, v = Add(u, e, n)
  PROVE  Sound(v) /\ Members(v) = Members(u) \cup {e} /\ v.locks = u.locks /\ v.size = u.size + n
<1>1. u \in CacheRec /\ u.locks[e] = 0
  BY DEF Sound, CacheRec
<1>2. <<e>> \o u.lru \in Seq(Signal) /\ ToSet(<<e>> \o u.lru) = {e} \cup ToSet(u.lru)
  BY <1>1, Linked DEF CacheRec
<1>3. v = [u EXCEPT !.lru = <<e>> \o @, !.locks[e] = 0, !.size = @ + n]
  BY DEF Add
<1>4. [u.locks EXCEPT ![e] = 0] = u.locks
  BY <1>1 DEF CacheRec
<1>5. v = [lru |-> <<e>> \o u.lru, locks |-> [u.locks EXCEPT ![e] = 0], size |-> u.size + n]
  BY <1>1, <1>3 DEF CacheRec
<1>6. u.size + n \in Int
  BY <1>1 DEF CacheRec
<1>7. v \in CacheRec /\ v.lru = <<e>> \o u.lru /\ v.locks = u.locks /\ v.size = u.size + n
  BY <1>1, <1>2, <1>4, <1>5, <1>6 DEF CacheRec
<1> QED
  BY <1>2, <1>7 DEF Sound, Has, Members

LEMMA TakenOut ==
  ASSUME NEW u, Sound(u), NEW gone, Takes(u, gone), NEW n \in Int,
         NEW v, v = Without(u, gone, n)
  PROVE  Sound(v) /\ Members(v) = Members(u) \ gone /\ v.locks = u.locks /\ v.size = n
<1>1. u \in CacheRec
  BY DEF Sound
<1>2. Unlink(u.lru, gone) \in Seq(Signal) /\ ToSet(Unlink(u.lru, gone)) = ToSet(u.lru) \ gone
  BY <1>1, Unlinked DEF CacheRec
<1>3. v = [lru |-> Unlink(u.lru, gone),
           locks |-> [e \in Signal |-> IF e \in gone THEN 0 ELSE u.locks[e]], size |-> n]
  BY DEF Without
<1>4. [e \in Signal |-> IF e \in gone THEN 0 ELSE u.locks[e]] = u.locks
  BY <1>1 DEF CacheRec, Free, Takes
<1>5. v \in CacheRec /\ v.lru = Unlink(u.lru, gone) /\ v.locks = u.locks /\ v.size = n
  BY <1>1, <1>2, <1>3, <1>4 DEF CacheRec
<1> QED
  BY <1>2, <1>5 DEF Sound, Has, Members, Free, Takes

LEMMA Locked ==
  ASSUME NEW u, Sound(u), NEW e \in Signal, Has(u, e), NEW v, v = Lock(u, e)
  PROVE  /\ Sound(v) /\ v.lru = u.lru /\ v.size = u.size
         /\ v.locks = [u.locks EXCEPT ![e] = @ + 1]
<1>1. u \in CacheRec /\ [u.locks EXCEPT ![e] = @ + 1] \in [Signal -> Nat]
  BY DEF Sound, CacheRec
<1>2. v = [lru |-> u.lru, locks |-> [u.locks EXCEPT ![e] = @ + 1], size |-> u.size]
  BY <1>1 DEF Lock, CacheRec
<1>3. v \in CacheRec
  BY <1>1, <1>2 DEF CacheRec
<1>4. \A f \in Signal : v.locks[f] > 0 => Has(v, f)
  BY <1>1, <1>2 DEF Sound, CacheRec, Has
<1> QED
  BY <1>2, <1>3, <1>4 DEF Sound

LEMMA Unlocked ==
  ASSUME NEW u, Sound(u), NEW e \in Signal, u.locks[e] > 0, NEW v, v = Unlock(u, e)
  PROVE  /\ Sound(v) /\ v.lru = u.lru /\ v.size = u.size
         /\ v.locks = [u.locks EXCEPT ![e] = @ - 1]
<1>1. IsLock(u, e)
  BY DEF IsLock, Sound
<1>2. u \in CacheRec /\ [u.locks EXCEPT ![e] = @ - 1] \in [Signal -> Nat]
  BY DEF Sound, CacheRec
<1>3. v = [lru |-> u.lru, locks |-> [u.locks EXCEPT ![e] = @ - 1], size |-> u.size]
  BY <1>1, <1>2 DEF Unlock, CacheRec
<1>4. v \in CacheRec
  BY <1>2, <1>3 DEF CacheRec
<1>5. \A f \in Signal : v.locks[f] > 0 => Has(v, f)
  BY <1>2, <1>3 DEF Sound, CacheRec, Has
<1> QED
  BY <1>3, <1>4, <1>5 DEF Sound

(***************************************************************************)
(* mbk_cache_update_memory finds none but unlocked elements.               *)
(***************************************************************************)
LEMMA Greatest ==
  ASSUME NEW n \in Nat, NEW S \in SUBSET (1..n), S # {}
  PROVE  Max(S) \in S /\ \A y \in S : Max(S) >= y
<1> DEFINE T == {n - x : x \in S}
<1>0. \A x \in S : x \in Int /\ n - x \in Nat
  OBVIOUS
<1>1. T \subseteq Nat /\ T # {}
  BY <1>0
<1> HIDE DEF T
<1>2. PICK z \in T : \A y \in T : z <= y
  BY <1>1, Least
<1>3. PICK x \in S : z = n - x
  BY DEF T
<1>4. \A y \in S : x >= y
  <2> TAKE y \in S
  <2>1. n - y \in T
    BY DEF T
  <2>2. n - x <= n - y
    BY <1>2, <1>3, <2>1
  <2> QED
    BY <1>0, <2>2
<1> QED
  BY <1>4 DEF Max

LEMMA FoundFree ==
  ASSUME NEW u, Sound(u), NEW enough \in SUBSET (1..Len(u.lru) + 1)
  PROVE  Takes(u, FromPosition(u, IF enough = {} THEN 1 ELSE Max(enough)))
<1>1. u \in CacheRec /\ u.lru \in Seq(Signal) /\ Len(u.lru) \in Nat
  BY DEF Sound, CacheRec
<1> DEFINE i == IF enough = {} THEN 1 ELSE Max(enough)
<1>2. i \in Nat /\ i >= 1
  <2>1. Len(u.lru) + 1 \in Nat
    BY <1>1
  <2>2. enough # {} => Max(enough) \in enough
    BY <2>1, Greatest
  <2>3. \A x \in enough : x \in Nat /\ x >= 1
    BY <2>1
  <2>4. CASE enough = {}
    BY <2>4
  <2>5. CASE enough # {}
    <3>1. i = Max(enough)
      BY <2>5
    <3> HIDE DEF i
    <3> QED
      BY <2>2, <2>3, <2>5, <3>1
  <2> QED
    BY <2>4, <2>5
<1> HIDE DEF i
<1>3. ASSUME NEW k \in i..Len(u.lru), ~IsLock(u, u.lru[k]) PROVE u.lru[k] \in Free(u)
  <2>1. u.lru[k] \in Members(u) /\ u.lru[k] \in Signal
    BY <1>1, <1>2 DEF Members, ToSet
  <2>2. u.locks[u.lru[k]] = 0
    BY <1>1, <1>3, <2>1 DEF IsLock, Has, Members, CacheRec
  <2> QED
    BY <2>1, <2>2 DEF Free
<1> QED
  BY <1>3 DEF FromPosition, i, Takes

-----------------------------------------------------------------------------
(***************************************************************************)
(* The interconnect cache: what is in memory follows from the signals that *)
(* are loaded, and so does its size.                                       *)
(***************************************************************************)
Links(loaded) == {p \in Coupling : p \cap loaded # {}}

SizeFor(loaded) == WireSize * Cardinality(loaded) + CtcSize * Cardinality(Links(loaded))

NetRec == [cache : CacheRec, loaded : SUBSET Signal, wired : SUBSET Signal,
           coupled : [Coupling -> {0, 1}], memo : Signal \cup {NoSignal}]

NetOk(n) ==
    /\ n \in NetRec /\ Sound(n.cache)
    /\ n.loaded = Members(n.cache) /\ n.wired = n.loaded
    /\ \A p \in Coupling : n.coupled[p] = IF p \cap n.loaded = {} THEN 0 ELSE 1
    /\ n.cache.size = SizeFor(n.loaded)

LEMMA LinksFinite ==
  /\ IsFiniteSet(Coupling)
  /\ \A A \in SUBSET Signal : /\ IsFiniteSet(A) /\ Cardinality(A) \in Nat
                              /\ IsFiniteSet(Links(A)) /\ Cardinality(Links(A)) \in Nat
                              /\ SizeFor(A) \in Int
<1>1. IsFiniteSet(SUBSET Signal)
  BY SignalAssumption, FS_SUBSET
<1>2. IsFiniteSet(Coupling)
  BY <1>1, RcnAssumption, FS_Subset
<1>3. ASSUME NEW A \in SUBSET Signal
      PROVE  /\ IsFiniteSet(A) /\ Cardinality(A) \in Nat
             /\ IsFiniteSet(Links(A)) /\ Cardinality(Links(A)) \in Nat
  <2>1. IsFiniteSet(A) /\ IsFiniteSet(Links(A))
    BY <1>2, SignalAssumption, FS_Subset DEF Links
  <2> QED
    BY <2>1, FS_CardinalityType
<1>4. ASSUME NEW A \in SUBSET Signal PROVE SizeFor(A) \in Int
  BY <1>3, RcnAssumption DEF SizeFor
<1> QED
  BY <1>2, <1>3, <1>4

LEMMA LinksCounted ==
  ASSUME NEW n, NetOk(n)
  PROVE  SumFunction(n.coupled) = Cardinality(Links(n.loaded))
<1>1. DOMAIN n.coupled = Coupling /\ \A p \in Coupling : n.coupled[p] \in {0, 1}
  BY DEF NetOk, NetRec
<1>2. {p \in Coupling : n.coupled[p] = 1} = Links(n.loaded)
  BY DEF NetOk, Links
<1>3. SumFunctionOnSet(n.coupled, Coupling) = Cardinality({p \in Coupling : n.coupled[p] = 1})
  BY <1>1, LinksFinite, SumOnes
<1> QED
  BY <1>1, <1>2, <1>3 DEF SumFunction

LEMMA EmptyNetOk == NetOk(EmptyNet)
<1>1. EmptyNet \in NetRec
  BY EmptySound DEF EmptyNet, NetRec, Sound
<1>2. Cardinality({}) = 0 /\ Links({}) = {}
  BY FS_EmptySet DEF Links
<1>3. EmptyCache.size = 0 /\ SizeFor({}) = 0
  <2>1. \A w \in Nat : w * 0 = 0
    OBVIOUS
  <2>2. WireSize * 0 = 0 /\ CtcSize * 0 = 0
    BY <2>1, RcnAssumption
  <2>3. EmptyCache.size = 0
    BY DEF EmptyCache
  <2> QED
    BY <1>2, <2>2, <2>3 DEF SizeFor
<1>4. /\ EmptyNet.cache = EmptyCache /\ EmptyNet.loaded = {} /\ EmptyNet.wired = {}
      /\ \A p \in Coupling : EmptyNet.coupled[p] = 0
  BY DEF EmptyNet
<1> QED
  BY <1>1, <1>3, <1>4, EmptySound DEF NetOk

(***************************************************************************)
(* rcn_cache_release takes signals that are not locked, and leaves the     *)
(* couplings of those that stay.                                           *)
(***************************************************************************)
LEMMA SizeLeft ==
  ASSUME NEW n, NetOk(n), NEW gone, gone \subseteq n.loaded
  PROVE  SizeWithout(n, gone) = SizeFor(n.loaded \ gone)
<1> DEFINE loaded == n.loaded
           lost == Uncoupled(n, gone)
<1>1. loaded \in SUBSET Signal /\ n.wired = loaded /\ n.cache.size = SizeFor(loaded)
  BY DEF NetOk, NetRec
<1>2. lost = Links(loaded) \ Links(loaded \ gone) /\ Links(loaded \ gone) \subseteq Links(loaded)
  BY DEF Uncoupled, Links
<1>3. Cardinality(gone) = Cardinality(loaded) - Cardinality(loaded \ gone)
  <2>1. Cardinality(loaded \ gone) = Cardinality(loaded) - Cardinality(loaded \cap gone)
    BY <1>1, LinksFinite, FS_Difference
  <2>2. loaded \cap gone = gone /\ gone \in SUBSET Signal /\ loaded \ gone \in SUBSET Signal
    BY <1>1
  <2>3. Cardinality(loaded) \in Nat /\ Cardinality(gone) \in Nat
        /\ Cardinality(loaded \ gone) \in Nat
    BY <1>1, <2>2, LinksFinite
  <2>4. Cardinality(loaded \ gone) = Cardinality(loaded) - Cardinality(gone)
    BY <2>1, <2>2
  <2> HIDE DEF loaded
  <2> QED
    BY <2>3, <2>4
<1>4. Cardinality(lost) = Cardinality(Links(loaded)) - Cardinality(Links(loaded \ gone))
  <2> DEFINE A == Links(loaded)
             B == Links(loaded \ gone)
  <2>1. IsFiniteSet(A)
    BY <1>1, LinksFinite
  <2>2. A \cap B = B /\ lost = A \ B
    BY <1>2
  <2> HIDE DEF A, B, lost
  <2>3. Cardinality(A \ B) = Cardinality(A) - Cardinality(A \cap B)
    BY <2>1, FS_Difference
  <2> QED
    BY <2>2, <2>3 DEF A, B
<1>5. SumFunctionOnSet(n.coupled, lost) = Cardinality(lost)
  <2>1. lost \subseteq Coupling /\ \A p \in lost : n.coupled[p] = 1
    BY DEF Uncoupled, NetOk
  <2>2. IsFiniteSet(lost)
    BY <2>1, LinksFinite, FS_Subset
  <2>3. {p \in lost : n.coupled[p] = 1} = lost
    BY <2>1
  <2> HIDE DEF lost
  <2> QED
    BY <2>1, <2>2, <2>3, SumOnes
<1>6. n.wired \cap gone = gone
  BY <1>1
<1>7. SizeWithout(n, gone) = SizeFor(loaded) - WireSize * Cardinality(gone) - CtcSize * Cardinality(lost)
  BY <1>1, <1>5, <1>6 DEF SizeWithout
<1>8. /\ WireSize \in Nat /\ CtcSize \in Nat
      /\ Cardinality(loaded) \in Nat /\ Cardinality(loaded \ gone) \in Nat
      /\ Cardinality(Links(loaded)) \in Nat /\ Cardinality(Links(loaded \ gone)) \in Nat
  <2>1. loaded \ gone \in SUBSET Signal
    BY <1>1
  <2> QED
    BY <1>1, <2>1, RcnAssumption, LinksFinite
<1>9. ASSUME NEW w \in Nat, NEW x \in Nat, NEW y \in Nat
      PROVE  w * (x - y) = w * x - w * y
  BY <1>9
<1>10. /\ WireSize * Cardinality(gone)
              = WireSize * Cardinality(loaded) - WireSize * Cardinality(loaded \ gone)
       /\ CtcSize * Cardinality(lost)
              = CtcSize * Cardinality(Links(loaded)) - CtcSize * Cardinality(Links(loaded \ gone))
  BY <1>3, <1>4, <1>8, <1>9
<1>11. PICK w \in Int, x \in Int, y \in Int, z \in Int :
           /\ w = WireSize * Cardinality(loaded) /\ x = WireSize * Cardinality(loaded \ gone)
           /\ y = CtcSize * Cardinality(Links(loaded))
           /\ z = CtcSize * Cardinality(Links(loaded \ gone))
  BY <1>8
<1>12. SizeWithout(n, gone) = (w + y) - (w - x) - (y - z)
  BY <1>7, <1>10, <1>11 DEF SizeFor
<1>13. SizeFor(loaded \ gone) = x + z
  BY <1>11 DEF SizeFor
<1> QED
  BY <1>11, <1>12, <1>13

LEMMA ReleasedOk ==
  ASSUME NEW n, NetOk(n), NEW gone, Takes(n.cache, gone), NEW r, r = Released(n, gone)
  PROVE  /\ NetOk(r) /\ r.loaded = n.loaded \ gone /\ r.memo = n.memo
         /\ r.cache.locks = n.cache.locks
<1> DEFINE size == SizeWithout(n, gone)
           out == Without(n.cache, gone, size)
           coupled == [p \in Coupling |-> IF p \in Uncoupled(n, gone) THEN 0 ELSE n.coupled[p]]
<1>1. n \in NetRec /\ gone \subseteq n.loaded
  BY DEF NetOk, Free, Takes
<1>2. size = SizeFor(n.loaded \ gone) /\ size \in Int
  <2>1. n.loaded \ gone \in SUBSET Signal
    BY <1>1 DEF NetRec
  <2> QED
    BY <1>1, <2>1, SizeLeft, LinksFinite
<1>3. /\ Sound(out) /\ Members(out) = Members(n.cache) \ gone
      /\ out.locks = n.cache.locks /\ out.size = size
  <2>1. Sound(n.cache)
    BY DEF NetOk
  <2>2. PICK u : u = n.cache
    OBVIOUS
  <2>3. PICK k \in Int : k = size
    BY <1>2
  <2>4. PICK v : v = Without(u, gone, k)
    OBVIOUS
  <2>5. Sound(v) /\ Members(v) = Members(u) \ gone /\ v.locks = u.locks /\ v.size = k
    <3>1. Sound(u) /\ Takes(u, gone)
      BY <2>1, <2>2
    <3> QED
      BY <3>1, <2>4, TakenOut
  <2> QED
    BY <2>2, <2>3, <2>4, <2>5
<1>4. r = [cache |-> out, loaded |-> n.loaded \ gone, wired |-> n.wired \ gone,
           coupled |-> coupled, memo |-> n.memo]
  BY <1>1 DEF Released, NetRec
<1>5. coupled \in [Coupling -> {0, 1}]
      /\ \A p \in Coupling : coupled[p] = IF p \cap (n.loaded \ gone) = {} THEN 0 ELSE 1
  BY <1>1 DEF NetOk, NetRec, Uncoupled
<1> HIDE DEF out, coupled, size
<1>6. r \in NetRec
  BY <1>1, <1>3, <1>4, <1>5 DEF NetRec, Sound
<1> QED
  BY <1>2, <1>3, <1>4, <1>5, <1>6 DEF NetOk

LEMMA RoomOk ==
  ASSUME NEW n, NetOk(n), NEW r, r = MakeRoom(n)
  PROVE  /\ NetOk(r) /\ r.loaded \subseteq n.loaded /\ r.memo = n.memo
         /\ r.cache.locks = n.cache.locks
<1>1. PICK gone : r = Released(n, gone) /\ Takes(n.cache, gone)
  <2> DEFINE enough == {i \in 1..Len(n.cache.lru) + 1 :
                           SizeWithout(n, FromPosition(n.cache, i)) < RcnMax}
             gone == FromPosition(n.cache, IF enough = {} THEN 1 ELSE Max(enough))
  <2>1. r = Released(n, gone)
    BY DEF MakeRoom, Victims
  <2>2. Sound(n.cache) /\ enough \in SUBSET (1..Len(n.cache.lru) + 1)
    BY DEF NetOk
  <2> HIDE DEF enough
  <2>3. Takes(n.cache, gone)
    BY <2>2, FoundFree
  <2> QED
    BY <2>1, <2>3
<1> QED
  BY <1>1, ReleasedOk

(***************************************************************************)
(* rcxparsesignalparasitics, of a signal that is not loaded.               *)
(***************************************************************************)
LEMMA SizeGrows ==
  ASSUME NEW n, NetOk(n), NEW s \in Signal, s \notin n.loaded
  PROVE  /\ n.cache.size + (WireSize + CtcSize * Cardinality(Addable(n, s)))
                = SizeFor(n.loaded \cup {s})
         /\ WireSize + CtcSize * Cardinality(Addable(n, s)) \in Int
<1> DEFINE loaded == n.loaded
           A == Links(loaded)
           B == Addable(n, s)
<1>1. loaded \in SUBSET Signal /\ loaded \cup {s} \in SUBSET Signal
      /\ n.cache.size = SizeFor(loaded)
  BY DEF NetOk, NetRec
<1>2. Links(loaded \cup {s}) = A \cup B /\ A \cap B = {}
  BY DEF Links, Addable
<1>3. IsFiniteSet(A) /\ IsFiniteSet(B)
  <2>1. B \subseteq Coupling
    BY DEF Addable
  <2> HIDE DEF B
  <2> QED
    BY <1>1, <2>1, LinksFinite, FS_Subset
<1>4. Cardinality(A \cup B) = Cardinality(A) + Cardinality(B)
      /\ Cardinality(A) \in Nat /\ Cardinality(B) \in Nat
  <2> HIDE DEF A, B
  <2>1. Cardinality(A) \in Nat /\ Cardinality(B) \in Nat
    BY <1>3, FS_CardinalityType
  <2>2. Cardinality(A \cup B) = Cardinality(A) + Cardinality(B) - Cardinality(A \cap B)
    BY <1>3, FS_Union
  <2>3. Cardinality(A \cap B) = 0
    BY <1>2, FS_EmptySet
  <2> QED
    BY <2>1, <2>2, <2>3
<1>5. Cardinality(loaded \cup {s}) = Cardinality(loaded) + 1 /\ Cardinality(loaded) \in Nat
  <2>1. IsFiniteSet(loaded) /\ s \notin loaded
    BY <1>1, LinksFinite
  <2> HIDE DEF loaded
  <2> QED
    BY <2>1, FS_AddElement, FS_CardinalityType
<1> HIDE DEF A, B, loaded
<1>6. ASSUME NEW w \in Nat, NEW x \in Nat, NEW y \in Nat
      PROVE  w * (x + y) = w * x + w * y /\ w * 1 = w
  BY <1>6
<1>7. PICK w \in Int, x \in Int, y \in Int, z \in Int :
         /\ w = WireSize /\ x = WireSize * Cardinality(loaded)
         /\ y = CtcSize * Cardinality(A) /\ z = CtcSize * Cardinality(B)
  BY <1>4, <1>5, RcnAssumption
<1>8. /\ WireSize * Cardinality(loaded \cup {s}) = x + w
      /\ CtcSize * Cardinality(Links(loaded \cup {s})) = y + z
  <2>1. /\ WireSize * (Cardinality(loaded) + 1) = WireSize * Cardinality(loaded) + WireSize * 1
        /\ WireSize * 1 = WireSize
        /\ CtcSize * (Cardinality(A) + Cardinality(B))
               = CtcSize * Cardinality(A) + CtcSize * Cardinality(B)
    BY <1>4, <1>5, <1>6, RcnAssumption
  <2> QED
    BY <1>2, <1>4, <1>5, <1>7, <2>1
<1>9. SizeFor(loaded \cup {s}) = (x + w) + (y + z) /\ n.cache.size = x + y
  BY <1>1, <1>7, <1>8 DEF SizeFor, A
<1>10. n.loaded = loaded /\ Addable(n, s) = B
  BY DEF loaded, B
<1> QED
  BY <1>7, <1>9, <1>10

Accessed(l, s) == [l EXCEPT !.loaded = @ \cup {s}, !.memo = s]

LEMMA LoadedOk ==
  ASSUME NEW n, NetOk(n), NEW s \in Signal, s \notin n.loaded,
         NEW r, r = Accessed(Loaded(n, s), s)
  PROVE  /\ NetOk(r) /\ r.loaded = n.loaded \cup {s} /\ r.memo = s
         /\ r.cache.locks = n.cache.locks
<1>1. PICK size \in Int : size = WireSize + CtcSize * Cardinality(Addable(n, s))
                          /\ n.cache.size + size = SizeFor(n.loaded \cup {s})
  BY SizeGrows
<1>2. PICK u : u = n.cache
  OBVIOUS
<1>3. PICK v : v = Add(u, s, size)
  OBVIOUS
<1>4. Sound(u) /\ ~Has(u, s) /\ Members(u) = n.loaded
  BY <1>2 DEF NetOk, Has, Members
<1>5. Sound(v) /\ Members(v) = Members(u) \cup {s} /\ v.locks = u.locks /\ v.size = u.size + size
  BY <1>3, <1>4, Added
<1>6. PICK coupled : coupled = [p \in Coupling |-> IF p \in Addable(n, s) THEN n.coupled[p] + 1
                                                   ELSE n.coupled[p]]
  OBVIOUS
<1>7. n \in NetRec
  BY DEF NetOk
<1>8. PICK l : l = Loaded(n, s)
  OBVIOUS
<1>9. l = [cache |-> v, loaded |-> n.loaded, wired |-> n.wired \cup {s},
            coupled |-> coupled, memo |-> n.memo]
  <2>1. l = [n EXCEPT !.cache = v, !.wired = n.wired \cup {s}, !.coupled = coupled]
    BY <1>1, <1>2, <1>3, <1>6, <1>7, <1>8 DEF Loaded, NetRec
  <2> QED
    BY <1>7, <2>1 DEF NetRec
<1>10. r = [l EXCEPT !.loaded = @ \cup {s}, !.memo = s]
  BY <1>8 DEF Accessed
<1>11. r = [cache |-> v, loaded |-> n.loaded \cup {s}, wired |-> n.wired \cup {s},
            coupled |-> coupled, memo |-> s]
  BY ONLY <1>9, <1>10
<1>12. /\ r.cache = v /\ r.loaded = n.loaded \cup {s} /\ r.wired = n.wired \cup {s}
       /\ r.coupled = coupled /\ r.memo = s
  BY ONLY <1>11
<1>13. coupled \in [Coupling -> {0, 1}]
      /\ \A p \in Coupling : coupled[p] = IF p \cap (n.loaded \cup {s}) = {} THEN 0 ELSE 1
  <2>1. \A p \in Coupling : n.coupled[p] = IF p \cap n.loaded = {} THEN 0 ELSE 1
    BY DEF NetOk
  <2> QED
    BY <1>6, <2>1 DEF Addable
<1>14. r \in NetRec
  BY <1>5, <1>7, <1>11, <1>12, <1>13 DEF NetRec, Sound
<1>15. Sound(r.cache) /\ r.loaded = Members(r.cache) /\ r.wired = r.loaded
  <2>1. n.wired = n.loaded
    BY DEF NetOk
  <2> QED
    BY <1>4, <1>5, <1>11, <1>12, <2>1
<1>16. r.cache.size = SizeFor(r.loaded) /\ r.cache.locks = n.cache.locks
  BY <1>1, <1>2, <1>5, <1>11, <1>12
<1>17. \A p \in Coupling : r.coupled[p] = IF p \cap r.loaded = {} THEN 0 ELSE 1
  BY <1>11, <1>12, <1>13
<1>18. NetOk(r)
  BY <1>14, <1>15, <1>16, <1>17 DEF NetOk
<1> QED
  BY <1>11, <1>12, <1>16, <1>18

(***************************************************************************)
(* rcn_refresh_signal: whatever it is called for, the cache stays sound    *)
(* and no lock moves.  The signal is in memory afterwards, but for the one *)
(* accessed last, for which nothing is done.                               *)
(***************************************************************************)
LEMMA CacheRefreshOk ==
  ASSUME NEW n, NetOk(n), NEW s \in Signal,
         NEW r, r = Accessed(CacheRefresh(n, s), s)
  PROVE  /\ NetOk(r) /\ s \in r.loaded /\ r.memo = s /\ r.cache.locks = n.cache.locks
<1>1. CASE Has(n.cache, s)
  <2>1. PICK u : u = n.cache
    OBVIOUS
  <2>2. PICK v : v = MakeItFirst(u, s)
    OBVIOUS
  <2>3. Sound(u) /\ Has(u, s) /\ Members(u) = n.loaded /\ s \in n.loaded /\ n \in NetRec
    BY <1>1, <2>1 DEF NetOk, Has, Members
  <2>4. Sound(v) /\ Members(v) = Members(u) /\ v.locks = u.locks /\ v.size = u.size
    BY <2>2, <2>3, MadeFirst
  <2>5. PICK l : l = CacheRefresh(n, s)
    OBVIOUS
  <2>6. l = [cache |-> v, loaded |-> n.loaded, wired |-> n.wired, coupled |-> n.coupled,
             memo |-> n.memo]
    BY <1>1, <2>1, <2>2, <2>3, <2>5 DEF CacheRefresh, NetRec
  <2>7. r = [l EXCEPT !.loaded = @ \cup {s}, !.memo = s]
    BY <2>5 DEF Accessed
  <2>8. r = [cache |-> v, loaded |-> n.loaded \cup {s}, wired |-> n.wired,
             coupled |-> n.coupled, memo |-> s]
    BY ONLY <2>6, <2>7
  <2>9. /\ r.cache = v /\ r.loaded = n.loaded \cup {s} /\ r.wired = n.wired
        /\ r.coupled = n.coupled /\ r.memo = s
    BY ONLY <2>8
  <2>10. n.loaded \cup {s} = n.loaded
    BY <2>3
  <2>11. r \in NetRec
    BY <2>3, <2>4, <2>8, <2>10 DEF NetRec, Sound
  <2>12. NetOk(r)
    BY <2>1, <2>3, <2>4, <2>9, <2>10, <2>11 DEF NetOk
  <2> QED
    BY <2>1, <2>3, <2>4, <2>9, <2>10, <2>12
<1>2. CASE ~Has(n.cache, s)
  <2>1. PICK m : m = MakeRoom(n)
    OBVIOUS
  <2>2. /\ NetOk(m) /\ m.loaded \subseteq n.loaded /\ m.memo = n.memo
        /\ m.cache.locks = n.cache.locks
    BY <2>1, RoomOk
  <2>3. s \notin m.loaded
    BY <1>2, <2>2 DEF NetOk, Has, Members
  <2>4. r = Accessed(Loaded(m, s), s)
    BY <1>2, <2>1 DEF CacheRefresh
  <2>5. /\ NetOk(r) /\ r.loaded = m.loaded \cup {s} /\ r.memo = s
        /\ r.cache.locks = m.cache.locks
    BY <2>2, <2>3, <2>4, LoadedOk
  <2> QED
    BY <2>2, <2>5
<1> QED
  BY <1>1, <1>2

LEMMA RefreshOk ==
  ASSUME NEW n, NetOk(n), NEW s \in Signal, NEW r, r = RefreshSignal(n, s)
  PROVE  /\ NetOk(r) /\ r.cache.locks = n.cache.locks /\ r.memo = s
         /\ s \in r.loaded \/ (n.memo = s /\ r = n)
<1>1. CASE n.memo = s
  <2>1. r = n
    BY <1>1 DEF RefreshSignal
  <2> QED
    BY <1>1, <2>1
<1>2. CASE n.memo # s
  <2>1. r = Accessed(CacheRefresh(n, s), s)
    BY <1>2 DEF RefreshSignal, Accessed
  <2>2. NetOk(r) /\ s \in r.loaded /\ r.memo = s /\ r.cache.locks = n.cache.locks
    BY <2>1, CacheRefreshOk
  <2> QED
    BY <2>2
<1> QED
  BY <1>1, <1>2

(***************************************************************************)
(* rcn_lock_signal, rcn_unlock_signal and rcn_flush_signal.                *)
(***************************************************************************)
LEMMA RecacheOk ==
  ASSUME NEW n, NetOk(n), NEW v, Sound(v), v.lru = n.cache.lru, v.size = n.cache.size,
         NEW r, r = [n EXCEPT !.cache = v]
  PROVE  NetOk(r) /\ r.loaded = n.loaded /\ r.memo = n.memo /\ r.cache = v
<1>1. n \in NetRec
  BY DEF NetOk
<1>2. r = [cache |-> v, loaded |-> n.loaded, wired |-> n.wired, coupled |-> n.coupled,
           memo |-> n.memo]
  BY <1>1 DEF NetRec
<1>3. /\ r.cache = v /\ r.loaded = n.loaded /\ r.wired = n.wired
      /\ r.coupled = n.coupled /\ r.memo = n.memo
  BY ONLY <1>2
<1>4. r \in NetRec
  BY <1>1, <1>2 DEF NetRec, Sound
<1>5. Members(v) = Members(n.cache)
  BY DEF Members
<1>6. NetOk(r)
  BY <1>3, <1>4, <1>5 DEF NetOk
<1> QED
  BY <1>3, <1>6

LEMMA LockOk ==
  ASSUME NEW n, NetOk(n), NEW s \in Signal, NEW r, r = LockSignal(n, s)
  PROVE  /\ NetOk(r) /\ r.memo = s
         /\ s \in r.loaded \/ (n.memo = s /\ s \notin n.loaded)
         /\ r.cache.locks = IF s \in r.loaded THEN [n.cache.locks EXCEPT ![s] = @ + 1]
                            ELSE n.cache.locks
<1>1. PICK m : m = RefreshSignal(n, s)
  OBVIOUS
<1>2. /\ NetOk(m) /\ m.cache.locks = n.cache.locks /\ m.memo = s
      /\ s \in m.loaded \/ (n.memo = s /\ m = n)
  BY <1>1, RefreshOk
<1>3. PICK u : u = m.cache
  OBVIOUS
<1>4. PICK v : v = Lock(u, s)
  OBVIOUS
<1>5. Sound(u) /\ (Has(u, s) <=> s \in m.loaded)
  BY <1>2, <1>3 DEF NetOk, Has, Members
<1>6. /\ Sound(v) /\ v.lru = u.lru /\ v.size = u.size
      /\ v.locks = IF Has(u, s) THEN [u.locks EXCEPT ![s] = @ + 1] ELSE u.locks
  <2>1. CASE Has(u, s)
    BY <1>4, <1>5, <2>1, Locked
  <2>2. CASE ~Has(u, s)
    BY <1>4, <1>5, <2>2 DEF Lock
  <2> QED
    BY <2>1, <2>2
<1>7. r = [m EXCEPT !.cache = v]
  BY <1>1, <1>2, <1>3, <1>4 DEF LockSignal
<1>8. NetOk(r) /\ r.cache = v /\ r.loaded = m.loaded /\ r.memo = m.memo
  BY <1>2, <1>3, <1>6, <1>7, RecacheOk
<1> QED
  BY <1>2, <1>3, <1>5, <1>6, <1>8

LEMMA UnlockOk ==
  ASSUME NEW n, NetOk(n), NEW s \in Signal, NEW r, r = UnlockSignal(n, s)
  PROVE  /\ NetOk(r) /\ r.loaded = n.loaded /\ r.memo = n.memo
         /\ r.cache.locks = IF n.cache.locks[s] > 0 THEN [n.cache.locks EXCEPT ![s] = @ - 1]
                            ELSE n.cache.locks
<1>1. PICK u : u = n.cache
  OBVIOUS
<1>2. PICK v : v = Unlock(u, s)
  OBVIOUS
<1>3. Sound(u)
  BY <1>1 DEF NetOk
<1>4. /\ Sound(v) /\ v.lru = u.lru /\ v.size = u.size
      /\ v.locks = IF u.locks[s] > 0 THEN [u.locks EXCEPT ![s] = @ - 1] ELSE u.locks
  <2>1. CASE u.locks[s] > 0
    BY <1>2, <1>3, <2>1, Unlocked
  <2>2. CASE ~(u.locks[s] > 0)
    BY <1>2, <1>3, <2>2 DEF Unlock, IsLock
  <2> QED
    BY <2>1, <2>2
<1>5. r = [n EXCEPT !.cache = v]
  BY <1>1, <1>2 DEF UnlockSignal
<1>6. NetOk(r) /\ r.cache = v /\ r.loaded = n.loaded /\ r.memo = n.memo
  BY <1>1, <1>4, <1>5, RecacheOk
<1> QED
  BY <1>1, <1>4, <1>6

LEMMA FlushOk ==
  ASSUME NEW n, NetOk(n), NEW s \in Signal, NEW r, r = FlushSignal(n, s)
  PROVE  NetOk(r) /\ r.cache.locks = n.cache.locks /\ r.memo = n.memo
<1>1. CASE Releasable(n.cache, s)
  <2>4. PICK gone : gone = {s}
    OBVIOUS
  <2>1. r = Released(n, gone)
    BY <1>1, <2>4 DEF FlushSignal
  <2>2. Takes(n.cache, gone)
    <3>1. n.cache \in CacheRec
      BY DEF NetOk, Sound
    <3> QED
      BY <1>1, <2>4, <3>1 DEF Takes, Free, Releasable, IsLock, Has, Members, CacheRec
  <2>3. /\ NetOk(r) /\ r.loaded = n.loaded \ gone /\ r.memo = n.memo
        /\ r.cache.locks = n.cache.locks
    BY <2>1, <2>2, ReleasedOk
  <2> QED
    BY <2>3
<1>2. CASE ~Releasable(n.cache, s)
  BY <1>2 DEF FlushSignal
<1> QED
  BY <1>1, <1>2

-----------------------------------------------------------------------------
(***************************************************************************)
(* A delay is computed for a signal, of one of its pins.                   *)
(***************************************************************************)
LoadOk == load = NoLoad \/ load \in [sig : Signal, pin : Pin, cached : BOOLEAN]

NetSound == NetOk(net) /\ LoadOk

LEMMA NetSoundInit ==
  ASSUME Init
  PROVE  NetSound
BY EmptyNetOk DEF Init, NetSound, LoadOk

LEMMA NetSoundStep ==
  ASSUME NetSound, [Next]_vars
  PROVE  NetSound'
<1>1. NetOk(net) /\ LoadOk
  BY DEF NetSound
<1>2. ASSUME NEW s \in Signal, Touch(s) PROVE NetSound'
  <2>1. net' = RefreshSignal(net, s) /\ load' = load
    BY <1>2 DEF Touch, Access
  <2> QED
    BY <1>1, <2>1, RefreshOk DEF NetSound, LoadOk, NoLoad
<1>3. ASSUME NEW s \in Signal, Hold(s) PROVE NetSound'
  <2>1. net' = LockSignal(net, s) /\ load' = load
    BY <1>3 DEF Hold, Access
  <2> QED
    BY <1>1, <2>1, LockOk DEF NetSound, LoadOk, NoLoad
<1>4. ASSUME NEW s \in Signal, Drop(s) PROVE NetSound'
  <2>1. net' = UnlockSignal(net, s) /\ load' = load
    BY <1>4 DEF Drop
  <2> QED
    BY <1>1, <2>1, UnlockOk DEF NetSound, LoadOk, NoLoad
<1>5. ASSUME NEW s \in Signal, View(s) PROVE NetSound'
  <2>1. PICK m : m = FlushSignal(net, s)
    OBVIOUS
  <2>2. NetOk(m)
    BY <1>1, <2>1, FlushOk
  <2>3. net' = RefreshSignal(m, s) /\ load' = load
    BY <1>5, <2>1 DEF View, Access
  <2> QED
    BY <1>1, <2>2, <2>3, RefreshOk DEF NetSound, LoadOk, NoLoad
<1>6. ASSUME NEW s \in Signal, NEW pin \in Pin, Compute(s, pin) PROVE NetSound'
  <2>1. /\ net' = LockSignal(net, s)
        /\ load' = [sig |-> s, pin |-> pin, cached |-> DelayCacheActive]
    BY <1>6 DEF Compute, Access
  <2>2. DelayCacheActive \in BOOLEAN
    BY DEF DelayCacheActive
  <2>3. LoadOk'
    BY <2>1, <2>2 DEF LoadOk
  <2>4. NetOk(net')
    BY <1>1, <2>1, LockOk
  <2> QED
    BY <2>3, <2>4 DEF NetSound
<1>7. ASSUME NEW stored \in BOOLEAN, Finish(stored) PROVE NetSound'
  <2>1. net' = UnlockSignal(net, load.sig) /\ load' = NoLoad /\ load.sig \in Signal
    BY <1>1, <1>7 DEF Finish, Idle, LoadOk
  <2>2. NetOk(net')
    BY <1>1, <2>1, UnlockOk
  <2> QED
    BY <2>1, <2>2 DEF NetSound, LoadOk, NoLoad
<1>8. CASE UNCHANGED <<net, load>>
  BY <1>1, <1>8 DEF NetSound, LoadOk, NoLoad
<1> QED
  BY <1>2, <1>3, <1>4, <1>5, <1>6, <1>7, <1>8
  DEF Next, vars, Found, BeginCrosstalk, FlushDelays, EndCrosstalk, Toggle

LEMMA NetSoundAlways == Spec => []NetSound
<1>1. Init => NetSound
  BY NetSoundInit
<1>2. NetSound /\ [Next]_vars => NetSound'
  BY NetSoundStep
<1> QED
  BY <1>1, <1>2, PTL DEF Spec

(***************************************************************************)
(* Whatever the order of the reads, locks and releases of coupled signals, *)
(* the flag of a signal, its place in the list and its wires agree, and a  *)
(* coupling is in memory once while one of its signals is.                 *)
(***************************************************************************)
THEOREM CouplingsOnce == Spec => []ParasiticsOnce
<1>1. NetSound => ParasiticsOnce
  BY DEF NetSound, NetOk, ParasiticsOnce, Members
<1> QED
  BY <1>1, NetSoundAlways, PTL

(***************************************************************************)
(* What rcn_cache_debug recounts is the size the cache was told, of the    *)
(* wires of the loaded signals and of each coupling once.                  *)
(***************************************************************************)
THEOREM RcnSizeHolds == Spec => []RcnSizeAgrees
<1>1. NetSound => RcnSizeAgrees
  BY LinksCounted DEF NetSound, NetOk, RcnSizeAgrees, SizeFor
<1> QED
  BY <1>1, NetSoundAlways, PTL

(***************************************************************************)
(* A signal has no more locks than its clients keep; those of a signal     *)
(* that is not unread are exactly theirs, and if it is the one accessed    *)
(* last, for which rcn_refresh_signal does nothing, it is in memory.       *)
(***************************************************************************)
Computed(s) == IF load.sig = s THEN 1 ELSE 0

Owed(s) == held[s] + Computed(s)

Counted(s) == /\ net.cache.locks[s] = Owed(s)
              /\ net.memo = s => s \in net.loaded

LocksHeld == /\ held \in [Signal -> Nat]
             /\ \A s \in Signal : net.cache.locks[s] <= Owed(s)
             /\ \A s \in Signal \ unread : Counted(s)

LEMMA LocksHeldInit ==
  ASSUME Init
  PROVE  LocksHeld
BY RcnAssumption DEF Init, LocksHeld, Counted, EmptyNet, EmptyCache, NoLoad,
   Owed, Computed

(***************************************************************************)
(* An access, alone or with a lock for a client (kept = 1): what it leaves *)
(* out of unread is counted again.                                         *)
(***************************************************************************)
Accounted(s, n, kept) ==
    /\ NetOk(n) /\ n.memo = s
    /\ s \in n.loaded \/ (net.memo = s /\ s \notin net.loaded)
    /\ \A t \in Signal : n.cache.locks[t] =
           IF t = s /\ s \in n.loaded THEN net.cache.locks[t] + kept ELSE net.cache.locks[t]
    /\ \A t \in Signal : Owed(t)' = IF t = s THEN Owed(t) + kept ELSE Owed(t)

LEMMA ReadCounts ==
  ASSUME NetSound, LocksHeld, NEW s \in Signal, NEW n, net' = n, Read(n),
         NEW kept \in {0, 1}, Accounted(s, n, kept), held' \in [Signal -> Nat]
  PROVE  LocksHeld'
<1>1. /\ held \in [Signal -> Nat] /\ net.cache.locks \in [Signal -> Nat]
      /\ n.cache.locks \in [Signal -> Nat]
  BY DEF NetSound, NetOk, Sound, CacheRec, LocksHeld, Accounted
<1>2. \A t \in Signal : /\ Owed(t) \in Nat /\ (~Wanted(t) <=> Owed(t) = 0)
                        /\ net.cache.locks[t] \in Nat
  BY <1>1 DEF Owed, Computed, Wanted
<1>3. ASSUME NEW t \in Signal PROVE (net.cache.locks[t] <= Owed(t))'
  <2>1. net.cache.locks[t] <= Owed(t)
    BY DEF LocksHeld
  <2>2. n.cache.locks[t] <= Owed(t)'
    BY <1>1, <1>2, <2>1 DEF Accounted
  <2> QED
    BY <2>2
<1>4. ASSUME NEW t \in Signal \ unread' PROVE Counted(t)'
  <2>1. net.cache.locks[t] = Owed(t)
    <3>1. CASE t \in unread
      <4>1. ~Wanted(t)
        BY <1>4, <3>1 DEF Read
      <4> QED
        BY <1>1, <1>2, <4>1 DEF LocksHeld
    <3>2. CASE t \notin unread
      BY <3>2 DEF LocksHeld, Counted
    <3> QED
      BY <3>1, <3>2
  <2>2. t = s => t \in n.loaded
    <3>1. CASE t \in unread
      BY <1>4, <3>1 DEF Read, Accounted
    <3>2. CASE t \notin unread
      BY <3>2 DEF LocksHeld, Counted, Accounted
    <3> QED
      BY <3>1, <3>2
  <2>3. n.cache.locks[t] = Owed(t)'
    BY <1>1, <1>2, <2>1, <2>2 DEF Accounted
  <2>4. n.memo = t => t \in n.loaded
    BY <2>2 DEF Accounted
  <2> QED
    BY <2>3, <2>4 DEF Counted
<1> QED
  BY <1>3, <1>4 DEF LocksHeld

(***************************************************************************)
(* An unlock: where there is no lock left, none was taken.                 *)
(***************************************************************************)
LEMMA UnlockCounts ==
  ASSUME NetSound, LocksHeld, NEW s \in Signal, net' = UnlockSignal(net, s),
         unread' = unread, held' \in [Signal -> Nat], Owed(s) > 0,
         \A t \in Signal : Owed(t)' = IF t = s THEN Owed(t) - 1 ELSE Owed(t)
  PROVE  LocksHeld'
<1>1. /\ held \in [Signal -> Nat] /\ net.cache.locks \in [Signal -> Nat] /\ NetOk(net)
  BY DEF NetSound, NetOk, Sound, CacheRec, LocksHeld
<1>2. \A t \in Signal : Owed(t) \in Nat /\ net.cache.locks[t] \in Nat
  BY <1>1 DEF Owed, Computed
<1>3. /\ net'.loaded = net.loaded /\ net'.memo = net.memo
      /\ net'.cache.locks = IF net.cache.locks[s] > 0 THEN [net.cache.locks EXCEPT ![s] = @ - 1]
                            ELSE net.cache.locks
  BY <1>1, UnlockOk
<1>4. \A t \in Signal : net'.cache.locks[t] =
          IF t = s /\ net.cache.locks[s] > 0 THEN net.cache.locks[t] - 1 ELSE net.cache.locks[t]
  BY <1>1, <1>3
<1>5. ASSUME NEW t \in Signal PROVE (net.cache.locks[t] <= Owed(t))'
  <2>1. net.cache.locks[t] <= Owed(t)
    BY DEF LocksHeld
  <2>2. net.cache.locks[t] \in Nat /\ Owed(t) \in Nat
    BY <1>1, <1>2
  <2>3. net'.cache.locks[t] <= Owed(t)'
    <3>1. CASE t = s
      BY <1>4, <2>1, <2>2, <3>1
    <3>2. CASE t # s
      BY <1>4, <2>1, <2>2, <3>2
    <3> QED
      BY <3>1, <3>2
  <2> QED
    BY <2>3
<1>6. ASSUME NEW t \in Signal \ unread' PROVE Counted(t)'
  <2>1. net.cache.locks[t] = Owed(t) /\ (net.memo = t => t \in net.loaded)
    BY <1>6 DEF LocksHeld, Counted
  <2>2. net'.cache.locks[t] = Owed(t)'
    <3>1. CASE t = s
      BY <1>2, <1>4, <2>1, <3>1
    <3>2. CASE t # s
      BY <1>4, <2>1, <3>2
    <3> QED
      BY <3>1, <3>2
  <2> QED
    BY <1>3, <2>1, <2>2 DEF Counted
<1> QED
  BY <1>5, <1>6 DEF LocksHeld

LEMMA LocksHeldStep ==
  ASSUME NetSound, LocksHeld, [Next]_vars
  PROVE  LocksHeld'
<1>1. /\ NetOk(net) /\ LoadOk /\ held \in [Signal -> Nat]
      /\ net.cache.locks \in [Signal -> Nat]
  BY DEF NetSound, LocksHeld, NetOk, Sound, CacheRec
<1>2. ASSUME NEW s \in Signal, Touch(s) PROVE LocksHeld'
  <2>1. PICK n : n = RefreshSignal(net, s)
    OBVIOUS
  <2>2. net' = n /\ load' = load /\ held' = held /\ Read(n)
    BY <1>2, <2>1 DEF Touch, Access
  <2>3. /\ NetOk(n) /\ n.cache.locks = net.cache.locks /\ n.memo = s
        /\ s \in n.loaded \/ (net.memo = s /\ n = net)
    BY <1>1, <2>1, RefreshOk
  <2>4. Accounted(s, n, 0)
    BY <1>1, <2>2, <2>3 DEF Accounted, Owed, Computed
  <2> QED
    BY <1>1, <2>2, <2>4, ReadCounts
<1>3. ASSUME NEW s \in Signal, Hold(s) PROVE LocksHeld'
  <2>1. PICK n : n = LockSignal(net, s)
    OBVIOUS
  <2>2. net' = n /\ load' = load /\ held' = [held EXCEPT ![s] = @ + 1] /\ Read(n)
    BY <1>3, <2>1 DEF Hold, Access
  <2>3. Accounted(s, n, 1)
    <3>1. /\ NetOk(n) /\ n.memo = s
          /\ s \in n.loaded \/ (net.memo = s /\ s \notin net.loaded)
          /\ n.cache.locks = IF s \in n.loaded THEN [net.cache.locks EXCEPT ![s] = @ + 1]
                             ELSE net.cache.locks
      BY <1>1, <2>1, LockOk
    <3>2. \A t \in Signal : Owed(t)' = IF t = s THEN Owed(t) + 1 ELSE Owed(t)
      BY <1>1, <2>2 DEF Owed, Computed
    <3>3. \A t \in Signal : n.cache.locks[t] =
              IF t = s /\ s \in n.loaded THEN net.cache.locks[t] + 1 ELSE net.cache.locks[t]
      BY <1>1, <3>1
    <3> QED
      BY <3>1, <3>2, <3>3 DEF Accounted
  <2> QED
    BY <1>1, <2>2, <2>3, ReadCounts
<1>4. ASSUME NEW s \in Signal, Drop(s) PROVE LocksHeld'
  <2>1. /\ net' = UnlockSignal(net, s) /\ load' = load /\ held' = [held EXCEPT ![s] = @ - 1]
        /\ held[s] > 0 /\ unread' = unread
    BY <1>4 DEF Drop
  <2>2. held' \in [Signal -> Nat] /\ Owed(s) > 0
    BY <1>1, <2>1 DEF Owed, Computed
  <2>3. \A t \in Signal : Owed(t)' = IF t = s THEN Owed(t) - 1 ELSE Owed(t)
    BY <1>1, <2>1 DEF Owed, Computed
  <2> QED
    BY <2>1, <2>2, <2>3, UnlockCounts
<1>5. ASSUME NEW s \in Signal, View(s) PROVE LocksHeld'
  <2>1. PICK m : m = FlushSignal(net, s)
    OBVIOUS
  <2>2. /\ net' = RefreshSignal(m, s) /\ load' = load /\ held' = held
        /\ unread' = IF net.memo = s THEN {s} ELSE {}
    BY <1>5, <2>1 DEF View, Access
  <2>3. NetOk(m) /\ m.cache.locks = net.cache.locks /\ m.memo = net.memo
    BY <1>1, <2>1, FlushOk
  <2>4. /\ net'.cache.locks = net.cache.locks /\ net'.memo = s
        /\ s \in net'.loaded \/ net.memo = s
    BY <2>2, <2>3, RefreshOk
  <2>5. \A t \in Signal : Owed(t) = 0
    BY <1>1, <1>5 DEF View, Wanted, Owed, Computed
  <2>6. \A t \in Signal : net.cache.locks[t] = 0
    BY <1>1, <2>5 DEF LocksHeld
  <2>7. \A t \in Signal : net'.cache.locks[t] = Owed(t)'
    BY <2>2, <2>4, <2>5, <2>6 DEF Owed, Computed
  <2>8. \A t \in Signal : Owed(t)' = 0
    BY <2>2, <2>5 DEF Owed, Computed
  <2> QED
    BY <1>1, <2>2, <2>4, <2>7, <2>8 DEF LocksHeld, Counted
<1>6. ASSUME NEW s \in Signal, NEW pin \in Pin, Compute(s, pin) PROVE LocksHeld'
  <2>1. PICK n : n = LockSignal(net, s)
    OBVIOUS
  <2>2. net' = n /\ load'.sig = s /\ held' = held /\ load = NoLoad /\ Read(n)
    BY <1>6, <2>1 DEF Compute, Access, Idle
  <2>3. Accounted(s, n, 1)
    <3>1. /\ NetOk(n) /\ n.memo = s
          /\ s \in n.loaded \/ (net.memo = s /\ s \notin net.loaded)
          /\ n.cache.locks = IF s \in n.loaded THEN [net.cache.locks EXCEPT ![s] = @ + 1]
                             ELSE net.cache.locks
      BY <1>1, <2>1, LockOk
    <3>2. \A t \in Signal : Computed(t) = 0 /\ Computed(t)' = IF t = s THEN 1 ELSE 0
      BY <2>2, RcnAssumption DEF Computed, NoLoad
    <3>3. \A t \in Signal : n.cache.locks[t] =
              IF t = s /\ s \in n.loaded THEN net.cache.locks[t] + 1 ELSE net.cache.locks[t]
      BY <1>1, <3>1
    <3>4. \A t \in Signal : Owed(t)' = IF t = s THEN Owed(t) + 1 ELSE Owed(t)
      BY <1>1, <2>2, <3>2 DEF Owed
    <3> QED
      BY <3>1, <3>3, <3>4 DEF Accounted
  <2> QED
    BY <1>1, <2>2, <2>3, ReadCounts
<1>7. ASSUME NEW stored \in BOOLEAN, Finish(stored) PROVE LocksHeld'
  <2>1. PICK s \in Signal : s = load.sig
    BY <1>1, <1>7 DEF Finish, Idle, LoadOk
  <2>2. net' = UnlockSignal(net, s) /\ load' = NoLoad /\ held' = held /\ unread' = unread
    BY <1>7, <2>1 DEF Finish
  <2>3. \A t \in Signal : Computed(t)' = 0 /\ Computed(t) = IF t = s THEN 1 ELSE 0
    BY <2>1, <2>2, RcnAssumption DEF Computed, NoLoad
  <2>4. Owed(s) > 0
    BY <1>1, <2>3 DEF Owed
  <2>5. \A t \in Signal : Owed(t)' = IF t = s THEN Owed(t) - 1 ELSE Owed(t)
    BY <1>1, <2>2, <2>3 DEF Owed
  <2> QED
    BY <1>1, <2>2, <2>4, <2>5, UnlockCounts
<1>8. CASE UNCHANGED <<net, load, held, unread>>
  BY <1>1, <1>8 DEF LocksHeld, Counted, Owed, Computed
<1> QED
  BY <1>2, <1>3, <1>4, <1>5, <1>6, <1>7, <1>8
  DEF Next, vars, Found, BeginCrosstalk, FlushDelays, EndCrosstalk, Toggle

(***************************************************************************)
(* A signal that is locked stays in memory whatever is accessed, locked    *)
(* and unlocked meanwhile, for any signals, couplings, sizes and locks,    *)
(* unless a command flushed it while it was the last accessed: lastlosig   *)
(* is not cleared then, and the lock that follows locks nothing.           *)
(***************************************************************************)
THEOREM LockedStay == Spec => []LocksProtect
<1>1. Init => LocksHeld
  BY LocksHeldInit
<1>2. NetSound /\ LocksHeld /\ [Next]_vars => LocksHeld'
  BY LocksHeldStep
<1>3. NetSound /\ LocksHeld => LocksProtect
  <2> SUFFICES ASSUME NetSound, LocksHeld, NEW s \in Signal \ unread, Wanted(s)
               PROVE  s \in net.loaded
    BY DEF LocksProtect
  <2>1. net.cache.locks[s] > 0
    BY DEF LocksHeld, Counted, Owed, Computed, Wanted
  <2> QED
    BY <2>1 DEF NetSound, NetOk, Sound, Has, Members
<1> QED
  BY <1>1, <1>2, <1>3, NetSoundAlways, PTL DEF Spec

-----------------------------------------------------------------------------
(***************************************************************************)
(* More of sums: parts of what each element counts for; a sum of naturals; *)
(* a sum over a part; the same sum by other indices.                       *)
(***************************************************************************)
LEMMA SumSplits ==
  ASSUME NEW f, NEW g, NEW h, NEW S, IsFiniteSet(S),
         \A x \in S : f[x] \in Int /\ g[x] \in Int /\ h[x] \in Int /\ f[x] + g[x] <= h[x]
  PROVE  SumFunctionOnSet(f, S) + SumFunctionOnSet(g, S) <= SumFunctionOnSet(h, S)
<1> DEFINE P == {T \in SUBSET S : SumFunctionOnSet(f, T) + SumFunctionOnSet(g, T)
                                      <= SumFunctionOnSet(h, T)}
<1>1. {} \in P
  BY SumEmpty
<1>2. ASSUME NEW T \in P, NEW x \in S \ T PROVE T \cup {x} \in P
  <2>1. /\ SumFunctionOnSet(f, T \cup {x}) = f[x] + SumFunctionOnSet(f, T)
        /\ SumFunctionOnSet(g, T \cup {x}) = g[x] + SumFunctionOnSet(g, T)
        /\ SumFunctionOnSet(h, T \cup {x}) = h[x] + SumFunctionOnSet(h, T)
    BY SumAdds
  <2>2. /\ SumFunctionOnSet(f, T) \in Int /\ SumFunctionOnSet(g, T) \in Int
        /\ SumFunctionOnSet(h, T) \in Int
    <3>1. IsFiniteSet(T)
      BY FS_Subset
    <3> QED
      BY <3>1, SumIsInt
  <2>3. f[x] \in Int /\ g[x] \in Int /\ h[x] \in Int /\ f[x] + g[x] <= h[x]
    OBVIOUS
  <2> QED
    BY <2>1, <2>2, <2>3
<1>3. S \in P
  <2> HIDE DEF P
  <2> QED
    BY <1>1, <1>2, SetInduction
<1> QED
  BY <1>3

LEMMA SumIsNat ==
  ASSUME NEW f, NEW S, IsFiniteSet(S), \A x \in S : f[x] \in Nat
  PROVE  SumFunctionOnSet(f, S) \in Nat
<1> DEFINE P == {T \in SUBSET S : SumFunctionOnSet(f, T) \in Nat}
<1>1. {} \in P
  BY SumEmpty
<1>2. ASSUME NEW T \in P, NEW x \in S \ T PROVE T \cup {x} \in P
  <2>1. SumFunctionOnSet(f, T \cup {x}) = f[x] + SumFunctionOnSet(f, T)
    BY SumAdds
  <2> QED
    BY <2>1
<1>3. S \in P
  <2> HIDE DEF P
  <2> QED
    BY <1>1, <1>2, SetInduction
<1> QED
  BY <1>3

LEMMA SumOfPart ==
  ASSUME NEW f, NEW S, IsFiniteSet(S), \A x \in S : f[x] \in Nat, NEW T \in SUBSET S
  PROVE  SumFunctionOnSet(f, T) <= SumFunctionOnSet(f, S)
<1> DEFINE rest == S \ T
<1>1. IsFiniteSet(T) /\ IsFiniteSet(rest) /\ T \cap rest = {} /\ T \cup rest = S
  BY FS_Subset, FS_Difference
<1>2. (\A x \in T : f[x] \in Nat) /\ (\A x \in rest : f[x] \in Nat)
  OBVIOUS
<1>3. \A x \in T \cup rest : f[x] \in Int
  OBVIOUS
<1> HIDE DEF rest
<1>4. SumFunctionOnSet(f, T \cup rest) = SumFunctionOnSet(f, T) + SumFunctionOnSet(f, rest)
  BY <1>1, <1>3, SumUnion
<1>5. SumFunctionOnSet(f, T) \in Nat /\ SumFunctionOnSet(f, rest) \in Nat
  BY <1>1, <1>2, SumIsNat
<1>6. SumFunctionOnSet(f, S) = SumFunctionOnSet(f, T) + SumFunctionOnSet(f, rest)
  BY <1>1, <1>4
<1> QED
  BY ONLY <1>5, <1>6

Moved(h, S) == {h[i] : i \in S}

Moves(h, S, f, g) == /\ \A i, j \in S : h[i] = h[j] => i = j
                     /\ \A i \in S : f[h[i]] \in Int /\ g[i] = f[h[i]]

LEMMA SumMoves ==
  ASSUME NEW f, NEW g, NEW h, NEW S, IsFiniteSet(S), Moves(h, S, f, g)
  PROVE  SumFunctionOnSet(g, S) = SumFunctionOnSet(f, Moved(h, S))
<1> DEFINE P == {T \in SUBSET S : SumFunctionOnSet(g, T) = SumFunctionOnSet(f, Moved(h, T))}
<1>1. {} \in P
  <2>1. Moved(h, {}) = {}
    BY DEF Moved
  <2> QED
    BY <2>1, SumEmpty
<1>2. ASSUME NEW T \in P, NEW x \in S \ T PROVE T \cup {x} \in P
  <2>1. SumFunctionOnSet(g, T \cup {x}) = g[x] + SumFunctionOnSet(g, T)
    <3>1. \A y \in S : g[y] \in Int
      BY DEF Moves
    <3> QED
      BY <3>1, SumAdds
  <2>2. PICK U : U = Moved(h, T)
    OBVIOUS
  <2>3. PICK e : e = h[x]
    OBVIOUS
  <2>4. Moved(h, T \cup {x}) = U \cup {e} /\ e \notin U
    BY <2>2, <2>3 DEF Moved, Moves
  <2>5. IsFiniteSet(U)
    <3>1. IsFiniteSet(T)
      BY FS_Subset
    <3>2. PICK r : r = [y \in T |-> h[y]]
      OBVIOUS
    <3>3. r \in Surjection(T, U)
      BY <2>2, <3>2 DEF Surjection, Moved
    <3> QED
      BY <3>1, <3>3, FS_Surjection
  <2>6. PICK B : B = U \cup {e}
    OBVIOUS
  <2>7. U \in SUBSET B /\ e \in B \ U /\ IsFiniteSet(B) /\ \A y \in B : f[y] \in Int
    <3>1. IsFiniteSet(B)
      BY <2>5, <2>6, FS_AddElement
    <3> QED
      BY <2>2, <2>3, <2>4, <2>6, <3>1 DEF Moved, Moves
  <2>8. SumFunctionOnSet(f, U \cup {e}) = f[e] + SumFunctionOnSet(f, U)
    BY <2>7, SumAdds
  <2>9. g[x] = f[e] /\ SumFunctionOnSet(g, T) = SumFunctionOnSet(f, U)
    BY <2>2, <2>3 DEF Moves
  <2> QED
    BY <2>1, <2>4, <2>8, <2>9
<1>3. S \in P
  <2> HIDE DEF P
  <2> QED
    BY <1>1, <1>2, SetInduction
<1> QED
  BY <1>3

-----------------------------------------------------------------------------
(***************************************************************************)
(* The chains of a signal: what they take, and what is left of it when the *)
(* chains of one mode are removed.                                         *)
(***************************************************************************)
Each(list) == [i \in DOMAIN list |-> ChainSize(list[i])]

LEMMA ChainSizes ==
  ASSUME NEW list \in Seq(Chain)
  PROVE  /\ IsFiniteSet(DOMAIN list) /\ DOMAIN list = 1..Len(list) /\ Len(list) \in Nat
         /\ \A i \in DOMAIN list : ChainSize(list[i]) \in Nat /\ Each(list)[i] \in Nat
         /\ ListSize(list) = SumFunctionOnSet(Each(list), DOMAIN list)
         /\ ListSize(list) \in Nat
<1>1. DOMAIN list = 1..Len(list) /\ Len(list) \in Nat
  OBVIOUS
<1>2. IsFiniteSet(DOMAIN list)
  BY <1>1, FS_Interval
<1>3. ASSUME NEW i \in DOMAIN list PROVE ChainSize(list[i]) \in Nat /\ Each(list)[i] \in Nat
  <2>1. list[i].pins \in SUBSET Pin
    <3>1. list[i] \in Chain
      OBVIOUS
    <3>2. PICK x \in Chain : x = list[i]
      BY <3>1
    <3>3. x.pins \in SUBSET Pin
      BY DEF Chain
    <3> QED
      BY <3>2, <3>3
  <2>2. Cardinality(list[i].pins) \in Nat
    BY <2>1, DelayAssumption, FS_Subset, FS_CardinalityType
  <2>3. PICK n \in Nat : n = Cardinality(list[i].pins)
    BY <2>2
  <2>4. LoadSize * n \in Nat
    BY DelayAssumption
  <2>5. ChainSize(list[i]) \in Nat
    BY <2>3, <2>4, DelayAssumption DEF ChainSize
  <2> QED
    BY <2>5 DEF Each
<1>4. ListSize(list) = SumFunctionOnSet(Each(list), DOMAIN list)
  <2>1. DOMAIN Each(list) = DOMAIN list
    BY DEF Each
  <2> QED
    BY <2>1 DEF ListSize, SumFunction, Each
<1>5. PICK f : f = Each(list)
  OBVIOUS
<1>6. SumFunctionOnSet(f, DOMAIN list) \in Nat
  BY <1>2, <1>3, <1>5, SumIsNat
<1> QED
  BY <1>1, <1>2, <1>3, <1>4, <1>5, <1>6

LEMMA EmptyList == ListSize(<<>>) = 0 /\ <<>> \in Seq(Chain)
<1>1. <<>> \in Seq(Chain) /\ DOMAIN <<>> = {}
  OBVIOUS
<1>2. ListSize(<<>>) = SumFunctionOnSet(Each(<<>>), {})
  BY <1>1, ChainSizes
<1> QED
  BY <1>1, <1>2, SumEmpty

Marks(list, m) == {i \in DOMAIN list : list[i].mode = m}

LEMMA RemainingOk ==
  ASSUME NEW list \in Seq(Chain), NEW m
  PROVE  /\ Remaining(list, m) \in Seq(Chain)
         /\ \A x \in ToSet(Remaining(list, m)) : x \in ToSet(list) /\ x.mode # m
         /\ ModeSize(list, m) \in Nat
         /\ ListSize(Remaining(list, m)) + ModeSize(list, m) <= ListSize(list)
<1> DEFINE marks == Marks(list, m)
           rest == Remaining(list, m)
<1>1. PICK n \in Nat : n = Len(list) /\ DOMAIN list = 1..n /\ list \in [1..n -> Chain]
  BY ChainSizes
<1>2. marks \in SUBSET (1..n) /\ marks = {i \in DOMAIN list : list[i].mode = m}
  BY <1>1 DEF Marks
<1>3. PICK f : f = Each(list)
  OBVIOUS
<1>4. /\ \A i \in 1..n : f[i] \in Nat
      /\ ListSize(list) = SumFunctionOnSet(f, 1..n)
      /\ IsFiniteSet(1..n)
  BY <1>1, <1>3, ChainSizes
<1>5. ModeSize(list, m) = SumFunctionOnSet(f, marks)
  BY <1>2, <1>3 DEF ModeSize, Each
<1>6. IsFiniteSet(marks) /\ \A i \in marks : f[i] \in Nat
  BY <1>2, <1>4, FS_Subset
<1>7. rest = IF marks = {} THEN list ELSE SubSeq(list, Max(marks) + 1, Len(list))
  BY <1>2 DEF Remaining
<1> HIDE DEF marks, rest
<1>8. ModeSize(list, m) \in Nat
  BY <1>5, <1>6, SumIsNat
<1>9. CASE marks = {}
  <2>1. rest = list
    BY <1>7, <1>9
  <2>2. ModeSize(list, m) = 0
    BY <1>5, <1>9, SumEmpty
  <2>3. \A x \in ToSet(list) : x.mode # m
    BY <1>1, <1>2, <1>9 DEF ToSet
  <2>4. ListSize(list) \in Nat
    BY ChainSizes
  <2> QED
    BY <2>1, <2>2, <2>3, <2>4 DEF rest
<1>10. CASE marks # {}
  <2>1. PICK k \in 1..n : k = Max(marks) /\ k \in marks /\ \A i \in marks : k >= i
    BY <1>2, <1>10, Greatest
  <2>2. /\ rest \in [1..(n - k) -> Chain] /\ Len(rest) = n - k /\ rest \in Seq(Chain)
        /\ \A i \in 1..(n - k) : rest[i] = list[k + i]
    <3>1. rest = SubSeq(list, k + 1, n)
      BY <1>1, <1>7, <1>10, <2>1
    <3>2. n - k \in Nat /\ k \in Nat
      BY <2>1
    <3>3. rest = [i \in 1..(n - k) |-> list[k + i]]
      <4>1. rest = [i \in 1..(n - (k + 1) + 1) |-> list[(k + 1) + i - 1]]
        BY <1>1, <3>1, <3>2
      <4>2. n - (k + 1) + 1 = n - k /\ \A i \in 1..(n - k) : (k + 1) + i - 1 = k + i
        BY <3>2
      <4> QED
        BY <4>1, <4>2
    <3>4. \A i \in 1..(n - k) : k + i \in 1..n
      BY <2>1
    <3>5. rest \in [1..(n - k) -> Chain]
      BY <1>1, <3>3, <3>4
    <3>6. PICK l \in Nat : l = n - k
      BY <3>2
    <3>7. rest \in [1..l -> Chain]
      BY <3>5, <3>6
    <3>8. rest \in Seq(Chain) /\ Len(rest) = l
      BY <3>7
    <3> QED
      BY <3>3, <3>5, <3>6, <3>8
  <2>3. \A x \in ToSet(rest) : x \in ToSet(list) /\ x.mode # m
    <3> SUFFICES ASSUME NEW i \in 1..(n - k) PROVE rest[i] \in ToSet(list) /\ rest[i].mode # m
      BY <2>2 DEF ToSet
    <3>1. k + i \in 1..n /\ k + i > k
      BY <2>1
    <3>2. k + i \notin marks
      BY <2>1, <3>1
    <3>3. rest[i] = list[k + i] /\ list[k + i] \in ToSet(list)
      BY <1>1, <2>2, <3>1 DEF ToSet
    <3> QED
      BY <1>1, <1>2, <3>1, <3>2, <3>3
  <2>4. PICK g : g = Each(rest)
    OBVIOUS
  <2>5. PICK S : S = 1..(n - k)
    OBVIOUS
  <2>6. ListSize(rest) = SumFunctionOnSet(g, S) /\ ListSize(rest) \in Nat
    BY <2>2, <2>4, <2>5, ChainSizes
  <2>7. PICK h : h = [i \in S |-> k + i]
    OBVIOUS
  <2>8. IsFiniteSet(S) /\ Moves(h, S, f, g)
    <3>1. IsFiniteSet(S)
      BY <2>1, <2>5, FS_Interval
    <3>2. ASSUME NEW i \in S PROVE f[h[i]] \in Int /\ g[i] = f[h[i]]
      <4>1. k + i \in 1..n /\ i \in DOMAIN rest /\ rest[i] = list[k + i]
        BY <2>1, <2>2, <2>5
      <4> QED
        BY <1>1, <1>3, <1>4, <2>4, <2>7, <4>1 DEF Each
    <3>3. \A i, j \in S : h[i] = h[j] => i = j
      BY <2>1, <2>5, <2>7
    <3> QED
      BY <3>1, <3>2, <3>3 DEF Moves
  <2>9. PICK T : T = Moved(h, S)
    OBVIOUS
  <2>10. SumFunctionOnSet(g, S) = SumFunctionOnSet(f, T)
    BY <2>8, <2>9, SumMoves
  <2>11. T \subseteq 1..n /\ T \cap marks = {}
    <3> SUFFICES ASSUME NEW x \in T PROVE x \in 1..n /\ x \notin marks
      OBVIOUS
    <3>1. PICK i \in 1..(n - k) : x = k + i
      BY <2>5, <2>7, <2>9 DEF Moved
    <3>2. x \in 1..n /\ x > k
      BY <2>1, <3>1
    <3> QED
      BY <2>1, <3>2
  <2>12. PICK U \in SUBSET (1..n) : U = T \cup marks
    BY <1>2, <2>11
  <2>13. SumFunctionOnSet(f, U) <= SumFunctionOnSet(f, 1..n)
    BY <1>4, SumOfPart
  <2>14. IsFiniteSet(T) /\ \A x \in T \cup marks : f[x] \in Int
    <3>1. \A x \in T \cup marks : x \in 1..n
      BY <1>2, <2>11
    <3>2. IsFiniteSet(T)
      BY <1>4, <2>11, FS_Subset
    <3> QED
      BY <1>4, <3>1, <3>2
  <2>15. SumFunctionOnSet(f, U) = SumFunctionOnSet(f, T) + SumFunctionOnSet(f, marks)
    BY <1>6, <2>11, <2>12, <2>14, SumUnion
  <2>16. ListSize(rest) + ModeSize(list, m) <= ListSize(list)
    BY <1>4, <1>5, <2>6, <2>10, <2>13, <2>15
  <2> QED
    BY <1>8, <2>2, <2>3, <2>16 DEF rest
<1> QED
  BY <1>8, <1>9, <1>10

(***************************************************************************)
(* rcx_add_cache_load adds a chain of the mode, or a pin to one.           *)
(***************************************************************************)
LEMMA WithLoadOk ==
  ASSUME NEW list \in Seq(Chain), NEW pin \in Pin, NEW m \in Mode
  PROVE  /\ WithLoad(list, pin, m) \in Seq(Chain)
         /\ \A x \in ToSet(WithLoad(list, pin, m)) :
               x.mode = m \/ \E y \in ToSet(list) : y.mode = x.mode
<1>1. PICK n \in Nat : n = Len(list) /\ DOMAIN list = 1..n /\ list \in [1..n -> Chain]
  BY ChainSizes
<1> DEFINE longer == WithLoad(list, pin, m)
<1>2. CASE \E chain \in ToSet(list) : chain.mode = m
  <2>1. longer = [i \in 1..n |-> IF list[i].mode = m
                                 THEN [list[i] EXCEPT !.pins = @ \cup {pin}] ELSE list[i]]
    BY <1>1, <1>2 DEF WithLoad
  <2> HIDE DEF longer
  <2>2. ASSUME NEW i \in 1..n PROVE longer[i] \in Chain /\ longer[i].mode = list[i].mode
    <3>1. PICK x \in Chain : x = list[i]
      BY <1>1
    <3>2. PICK y : y = [x EXCEPT !.pins = @ \cup {pin}]
      OBVIOUS
    <3>3. y = [mode |-> x.mode, pins |-> x.pins \cup {pin}]
      BY <3>2 DEF Chain
    <3>4. y \in Chain /\ y.mode = x.mode
      BY <3>3 DEF Chain
    <3>5. longer[i] = IF x.mode = m THEN y ELSE x
      BY <2>1, <3>1, <3>2
    <3> QED
      BY <3>1, <3>4, <3>5
  <2>3. longer \in [1..n -> Chain]
    BY <2>1, <2>2
  <2>4. longer \in Seq(Chain) /\ DOMAIN longer = 1..n
    BY <2>3
  <2>5. \A x \in ToSet(longer) : \E y \in ToSet(list) : y.mode = x.mode
    BY <1>1, <2>2, <2>4 DEF ToSet
  <2> QED
    BY <2>4, <2>5 DEF longer
<1>3. CASE ~\E chain \in ToSet(list) : chain.mode = m
  <2>1. PICK new : new = [mode |-> m, pins |-> {pin}]
    OBVIOUS
  <2>2. new \in Chain /\ new.mode = m
    BY <2>1 DEF Chain
  <2>3. longer = <<new>> \o list
    BY <1>3, <2>1 DEF WithLoad
  <2>4. <<new>> \o list \in Seq(Chain) /\ ToSet(<<new>> \o list) = {new} \cup ToSet(list)
    BY <2>2, Linked
  <2> HIDE DEF longer
  <2>5. longer \in Seq(Chain) /\ \A e \in ToSet(longer) : e.mode = m \/ e \in ToSet(list)
    BY <2>2, <2>3, <2>4
  <2> QED
    BY <2>5 DEF longer
<1> QED
  BY <1>2, <1>3

-----------------------------------------------------------------------------
(***************************************************************************)
(* The delay cache: a signal of the list has its ptype, only those have    *)
(* chains, and what they take is covered by the size.                      *)
(***************************************************************************)
DelRec == [cache : CacheRec, typed : SUBSET Signal, chains : [Signal -> Seq(Chain)],
           error : BOOLEAN]

Sizes(chains) == [s \in Signal |-> PtypeSize + ListSize(chains[s])]

Taken(chains, T) == SumFunctionOnSet(Sizes(chains), T)

DelOk(d) ==
    /\ d \in DelRec /\ Sound(d.cache) /\ ~d.error
    /\ d.typed = Members(d.cache)
    /\ \A s \in Signal \ d.typed : d.chains[s] = <<>>
    /\ d.cache.size >= Taken(d.chains, d.typed)

(***************************************************************************)
(* No delay of the mode is reachable.                                      *)
(***************************************************************************)
Cleared(d, m) == \A s \in Signal : \A x \in ToSet(d.chains[s]) : x.mode # m

LEMMA TakenOf ==
  ASSUME NEW chains \in [Signal -> Seq(Chain)], NEW T \in SUBSET Signal
  PROVE  /\ IsFiniteSet(T)
         /\ \A s \in Signal : Sizes(chains)[s] \in Nat /\ Sizes(chains)[s] = PtypeSize + ListSize(chains[s])
         /\ Taken(chains, T) \in Nat
<1>1. IsFiniteSet(T)
  BY SignalAssumption, FS_Subset
<1>2. ASSUME NEW s \in Signal
      PROVE  Sizes(chains)[s] \in Nat /\ Sizes(chains)[s] = PtypeSize + ListSize(chains[s])
  <2>1. ListSize(chains[s]) \in Nat
    BY ChainSizes
  <2> QED
    BY <2>1, DelayAssumption DEF Sizes
<1>3. PICK f : f = Sizes(chains)
  OBVIOUS
<1>4. \A s \in T : f[s] \in Nat
  BY <1>2, <1>3
<1>5. SumFunctionOnSet(f, T) \in Nat
  BY <1>1, <1>4, SumIsNat
<1> QED
  BY <1>1, <1>2, <1>3, <1>5 DEF Taken

Alike(chains, list, T) == \A s \in T : list[s] = chains[s]

LEMMA TakenSame ==
  ASSUME NEW chains \in [Signal -> Seq(Chain)], NEW list \in [Signal -> Seq(Chain)],
         NEW T \in SUBSET Signal, Alike(chains, list, T)
  PROVE  Taken(list, T) = Taken(chains, T)
<1>1. PICK f : f = Sizes(chains)
  OBVIOUS
<1>2. PICK g : g = Sizes(list)
  OBVIOUS
<1>3. IsFiniteSet(T) /\ \A s \in T : f[s] \in Int /\ g[s] = f[s]
  <2>1. IsFiniteSet(T)
    BY TakenOf
  <2>2. ASSUME NEW s \in T PROVE f[s] \in Int /\ g[s] = f[s]
    <3>1. f[s] \in Nat
      BY <1>1, TakenOf
    <3>2. g[s] = f[s]
      BY <1>1, <1>2 DEF Sizes, Alike
    <3> QED
      BY <3>1, <3>2
  <2> QED
    BY <2>1, <2>2
<1>4. SumFunctionOnSet(g, T) = SumFunctionOnSet(f, T)
  BY <1>3, SumSame
<1> QED
  BY <1>1, <1>2, <1>4 DEF Taken

LEMMA TakenSplit ==
  ASSUME NEW chains \in [Signal -> Seq(Chain)], NEW T \in SUBSET Signal, NEW U \in SUBSET Signal,
         T \cap U = {}
  PROVE  Taken(chains, T \cup U) = Taken(chains, T) + Taken(chains, U)
<1>1. PICK f : f = Sizes(chains)
  OBVIOUS
<1>2. IsFiniteSet(T) /\ IsFiniteSet(U)
  BY TakenOf
<1>3. \A s \in T \cup U : f[s] \in Int
  <2>1. \A s \in Signal : f[s] \in Nat
    BY <1>1, TakenOf
  <2> QED
    BY <2>1
<1>4. SumFunctionOnSet(f, T \cup U) = SumFunctionOnSet(f, T) + SumFunctionOnSet(f, U)
  BY <1>2, <1>3, SumUnion
<1> QED
  BY <1>1, <1>4 DEF Taken

LEMMA TakenOne ==
  ASSUME NEW chains \in [Signal -> Seq(Chain)], NEW s \in Signal
  PROVE  Taken(chains, {s}) = PtypeSize + ListSize(chains[s])
<1>1. PICK f : f = Sizes(chains)
  OBVIOUS
<1>2. f[s] \in Int /\ f[s] = PtypeSize + ListSize(chains[s])
  <2>1. {s} \in SUBSET Signal
    OBVIOUS
  <2>2. f[s] \in Nat /\ f[s] = PtypeSize + ListSize(chains[s])
    BY <1>1, <2>1, TakenOf
  <2> QED
    BY <2>2
<1>3. {} \in SUBSET {s} /\ s \in {s} \ {} /\ IsFiniteSet({s}) /\ \A x \in {s} : f[x] \in Int
  BY <1>2, FS_Singleton
<1>4. SumFunctionOnSet(f, {} \cup {s}) = f[s] + SumFunctionOnSet(f, {})
  <2>1. PICK B : B = {s}
    OBVIOUS
  <2>2. {} \in SUBSET B /\ s \in B \ {} /\ IsFiniteSet(B) /\ \A x \in B : f[x] \in Int
    BY <1>3, <2>1
  <2> QED
    BY <2>2, SumAdds
<1>5. {} \cup {s} = {s}
  OBVIOUS
<1>6. SumFunctionOnSet(f, {s}) = f[s]
  BY <1>2, <1>4, <1>5, SumEmpty
<1> QED
  BY <1>1, <1>2, <1>6 DEF Taken

LEMMA EmptyDelaysOk == DelOk(EmptyDelays) /\ \A m \in Mode : Cleared(EmptyDelays, m)
<1>1. PICK d : d = EmptyDelays
  OBVIOUS
<1>2. /\ d.cache = EmptyCache /\ d.typed = {} /\ d.error = FALSE
      /\ \A s \in Signal : d.chains[s] = <<>>
  BY <1>1 DEF EmptyDelays
<1>3. d \in DelRec
  BY <1>1, EmptyList, EmptySound DEF EmptyDelays, DelRec, Sound
<1>4. Taken(d.chains, {}) = 0
  BY SumEmpty DEF Taken
<1>5. DelOk(d)
  BY <1>2, <1>3, <1>4, EmptySound DEF DelOk, EmptyCache
<1>6. \A m \in Mode : Cleared(d, m)
  BY <1>2 DEF Cleared, ToSet
<1> QED
  BY <1>1, <1>5, <1>6

(***************************************************************************)
(* rcx_cache_fn_release: what a release takes from the size is what the    *)
(* signal took, so the size still covers the others.                       *)
(***************************************************************************)
Same(d, r) == \A s \in Signal : r.chains[s] \in {d.chains[s], <<>>}

Fewer(d, r) == r.typed \subseteq d.typed /\ r.cache.locks = d.cache.locks /\ Same(d, r)

LEMMA SizesTaken ==
  ASSUME NEW d, DelOk(d), NEW part \in SUBSET d.typed
  PROVE  SumFunctionOnSet([s \in part |-> SizeOf(d, s)], part) = Taken(d.chains, part)
<1>1. d.chains \in [Signal -> Seq(Chain)] /\ part \in SUBSET Signal
  BY DEF DelOk, DelRec
<1>2. PICK f : f = Sizes(d.chains)
  OBVIOUS
<1>3. PICK g : g = [s \in part |-> SizeOf(d, s)]
  OBVIOUS
<1>4. IsFiniteSet(part) /\ \A s \in part : f[s] \in Int /\ g[s] = f[s]
  <2>1. IsFiniteSet(part) /\ \A s \in part : f[s] \in Nat
    BY <1>1, <1>2, TakenOf
  <2>2. \A s \in part : g[s] = f[s]
    BY <1>1, <1>2, <1>3 DEF SizeOf, Sizes
  <2> QED
    BY <2>1, <2>2
<1>5. SumFunctionOnSet(g, part) = SumFunctionOnSet(f, part)
  BY <1>4, SumSame
<1> QED
  BY <1>2, <1>3, <1>5 DEF Taken

LEMMA SizeWithoutDelaysIs ==
  ASSUME NEW d, DelOk(d), NEW gone \in SUBSET d.typed
  PROVE  SizeWithoutDelays(d, gone) = d.cache.size - Taken(d.chains, gone)
<1>1. gone \cap d.typed = gone
  OBVIOUS
<1> QED
  BY <1>1, SizesTaken DEF SizeWithoutDelays

LEMMA ReleasedDelaysOk ==
  ASSUME NEW d, DelOk(d), NEW gone, Takes(d.cache, gone), NEW r, r = ReleasedDelays(d, gone)
  PROVE  DelOk(r) /\ r.typed = d.typed \ gone /\ Fewer(d, r)
<1>1. /\ d \in DelRec /\ Sound(d.cache) /\ d.typed = Members(d.cache)
      /\ d.chains \in [Signal -> Seq(Chain)] /\ d.typed \in SUBSET Signal
      /\ d.cache.size \in Int
  BY DEF DelOk, DelRec, CacheRec
<1>2. gone \in SUBSET d.typed /\ gone \in SUBSET Signal
  BY <1>1 DEF Takes, Free
<1>3. PICK stay \in SUBSET Signal : stay = d.typed \ gone
  BY <1>1
<1>4. PICK chains : chains = [s \in Signal |-> IF s \in gone THEN <<>> ELSE d.chains[s]]
  OBVIOUS
<1>5. chains \in [Signal -> Seq(Chain)]
  BY <1>1, <1>4, EmptyList
<1>6. PICK size \in Int : size = SizeWithoutDelays(d, gone) /\ size >= Taken(chains, stay)
  <2>1. stay \cap gone = {} /\ stay \cup gone = d.typed
    BY <1>2, <1>3
  <2>2. Taken(d.chains, stay \cup gone) = Taken(d.chains, stay) + Taken(d.chains, gone)
    BY <1>1, <1>2, <2>1, TakenSplit
  <2>3. Alike(d.chains, chains, stay)
    BY <1>3, <1>4 DEF Alike
  <2>4. Taken(chains, stay) = Taken(d.chains, stay)
    BY <1>1, <1>5, <2>3, TakenSame
  <2>5. PICK x \in Nat, y \in Nat : x = Taken(d.chains, stay) /\ y = Taken(d.chains, gone)
    BY <1>1, <1>2, TakenOf
  <2>6. d.cache.size >= Taken(d.chains, d.typed)
    BY DEF DelOk
  <2>7. d.cache.size >= x + y
    BY <2>1, <2>2, <2>5, <2>6
  <2>8. SizeWithoutDelays(d, gone) = d.cache.size - y
    BY <1>2, <2>5, SizeWithoutDelaysIs
  <2> QED
    BY <1>1, <2>4, <2>5, <2>7, <2>8
<1>7. PICK u : u = d.cache
  OBVIOUS
<1>8. PICK v : v = Without(u, gone, size)
  OBVIOUS
<1>9. Sound(v) /\ Members(v) = Members(u) \ gone /\ v.locks = u.locks /\ v.size = size
  <2>1. Sound(u) /\ Takes(u, gone)
    BY <1>1, <1>7
  <2> QED
    BY <1>8, <2>1, TakenOut
<1>10. r = [cache |-> v, typed |-> stay, chains |-> chains, error |-> FALSE]
  <2>1. d.error = FALSE
    BY <1>1 DEF DelOk, DelRec
  <2>2. r = [d EXCEPT !.cache = v, !.typed = stay, !.chains = chains,
                      !.error = d.error \/ ~(gone \subseteq d.typed)]
    BY <1>1, <1>3, <1>4, <1>6, <1>7, <1>8 DEF ReleasedDelays, DelRec
  <2>3. (d.error \/ ~(gone \subseteq d.typed)) = FALSE
    BY <1>2, <2>1
  <2> QED
    BY <1>1, <2>2, <2>3 DEF DelRec
<1>11. r.cache = v /\ r.typed = stay /\ r.chains = chains /\ r.error = FALSE
  BY ONLY <1>10
<1>12. r \in DelRec
  BY <1>5, <1>9, <1>10 DEF DelRec, Sound
<1>13. \A s \in Signal \ stay : chains[s] = <<>>
  <2>1. \A s \in Signal \ d.typed : d.chains[s] = <<>>
    BY DEF DelOk
  <2> QED
    BY <1>3, <1>4, <2>1
<1>14. DelOk(r)
  BY <1>1, <1>3, <1>6, <1>7, <1>9, <1>11, <1>12, <1>13 DEF DelOk
<1>15. Fewer(d, r)
  BY <1>3, <1>4, <1>7, <1>9, <1>11 DEF Fewer, Same
<1> QED
  BY <1>3, <1>11, <1>14, <1>15

LEMMA RoomForDelaysOk ==
  ASSUME NEW d, DelOk(d), NEW r, r = RoomForDelays(d)
  PROVE  DelOk(r) /\ Fewer(d, r)
<1>1. PICK gone : r = ReleasedDelays(d, gone) /\ Takes(d.cache, gone)
  <2> DEFINE enough == {i \in 1..Len(d.cache.lru) + 1 :
                           SizeWithoutDelays(d, FromPosition(d.cache, i)) < DelayMax}
             gone == FromPosition(d.cache, IF enough = {} THEN 1 ELSE Max(enough))
  <2>1. r = ReleasedDelays(d, gone)
    BY DEF RoomForDelays, Victims
  <2>2. Sound(d.cache) /\ enough \in SUBSET (1..Len(d.cache.lru) + 1)
    BY DEF DelOk
  <2> HIDE DEF enough
  <2>3. Takes(d.cache, gone)
    BY <2>2, FoundFree
  <2> QED
    BY <2>1, <2>3
<1> QED
  BY <1>1, ReleasedDelaysOk

(***************************************************************************)
(* mbk_cache_refresh with rcx_cache_fn_load, mbk_cache_lock and            *)
(* mbk_cache_unlock.                                                       *)
(***************************************************************************)
LEMMA RecacheDelaysOk ==
  ASSUME NEW d, DelOk(d), NEW v, Sound(v), Members(v) = Members(d.cache), v.size = d.cache.size,
         NEW r, r = [d EXCEPT !.cache = v]
  PROVE  DelOk(r) /\ r.typed = d.typed /\ r.chains = d.chains /\ r.cache = v
<1>1. d \in DelRec
  BY DEF DelOk
<1>2. r = [cache |-> v, typed |-> d.typed, chains |-> d.chains, error |-> d.error]
  BY <1>1 DEF DelRec
<1>3. r.cache = v /\ r.typed = d.typed /\ r.chains = d.chains /\ r.error = d.error
  BY ONLY <1>2
<1>4. r \in DelRec
  BY <1>1, <1>2 DEF DelRec, Sound
<1>5. DelOk(r)
  BY <1>3, <1>4 DEF DelOk
<1> QED
  BY <1>3, <1>5

LEMMA AttachedOk ==
  ASSUME NEW d, DelOk(d), NEW s \in Signal, s \notin d.typed, NEW r, r = Attached(d, s)
  PROVE  DelOk(r) /\ r.chains = d.chains /\ r.cache.locks = d.cache.locks /\ s \in r.typed
<1>1. /\ d \in DelRec /\ Sound(d.cache) /\ d.typed = Members(d.cache)
      /\ d.chains \in [Signal -> Seq(Chain)] /\ d.typed \in SUBSET Signal /\ {s} \in SUBSET Signal
      /\ d.error = FALSE /\ d.cache.size \in Int
  BY DEF DelOk, DelRec, CacheRec
<1>2. PICK u : u = d.cache
  OBVIOUS
<1>3. PICK v : v = Add(u, s, PtypeSize)
  OBVIOUS
<1>4. Sound(u) /\ ~Has(u, s) /\ PtypeSize \in Int
  BY <1>1, <1>2, DelayAssumption DEF Has, Members
<1>5. /\ Sound(v) /\ Members(v) = Members(u) \cup {s} /\ v.locks = u.locks
      /\ v.size = u.size + PtypeSize
  BY <1>3, <1>4, Added
<1>6. PICK more \in SUBSET Signal : more = d.typed \cup {s}
  BY <1>1
<1>7. r = [cache |-> v, typed |-> more, chains |-> d.chains, error |-> FALSE]
  <2>1. r = [d EXCEPT !.cache = v, !.typed = more, !.error = d.error \/ s \in d.typed]
    BY <1>1, <1>2, <1>3, <1>6 DEF Attached, DelRec
  <2>2. (d.error \/ s \in d.typed) = FALSE
    BY <1>1
  <2> QED
    BY <1>1, <2>1, <2>2 DEF DelRec
<1>8. r.cache = v /\ r.typed = more /\ r.chains = d.chains /\ r.error = FALSE
  BY ONLY <1>7
<1>9. r \in DelRec
  BY <1>1, <1>5, <1>7 DEF DelRec, Sound
<1>10. v.size >= Taken(d.chains, more)
  <2>1. Taken(d.chains, d.typed \cup {s}) = Taken(d.chains, d.typed) + Taken(d.chains, {s})
    <3>1. d.typed \cap {s} = {}
      OBVIOUS
    <3>2. PICK one : one = {s}
      OBVIOUS
    <3> QED
      BY <1>1, <3>1, <3>2, TakenSplit
  <2>2. Taken(d.chains, {s}) = PtypeSize + 0
    <3>1. d.chains[s] = <<>>
      BY DEF DelOk
    <3> QED
      BY <1>1, <3>1, TakenOne, EmptyList
  <2>3. PICK x \in Nat, p \in Nat, k \in Int :
            x = Taken(d.chains, d.typed) /\ p = PtypeSize /\ k = d.cache.size
    BY <1>1, TakenOf, DelayAssumption
  <2>4. k >= x
    BY <2>3 DEF DelOk
  <2> QED
    BY <1>2, <1>5, <1>6, <2>1, <2>2, <2>3, <2>4
<1>11. \A x \in Signal \ more : d.chains[x] = <<>>
  BY <1>6 DEF DelOk
<1>12. DelOk(r)
  BY <1>1, <1>2, <1>5, <1>6, <1>8, <1>9, <1>10, <1>11 DEF DelOk
<1> QED
  BY <1>2, <1>5, <1>6, <1>8, <1>12

LEMMA SameCleared ==
  ASSUME NEW d, NEW r, Same(d, r), NEW m, Cleared(d, m)
  PROVE  Cleared(r, m)
<1> SUFFICES ASSUME NEW s \in Signal, NEW x \in ToSet(r.chains[s]) PROVE x.mode # m
  BY DEF Cleared
<1>1. r.chains[s] # <<>>
  BY DEF ToSet
<1>2. r.chains[s] = d.chains[s]
  BY <1>1 DEF Same
<1> QED
  BY <1>2 DEF Cleared

LEMMA LockDelaysOk ==
  ASSUME NEW d, DelOk(d), NEW s \in Signal, NEW r, r = LockDelays(d, s)
  PROVE  DelOk(r) /\ Same(d, r) /\ r.cache.locks = [d.cache.locks EXCEPT ![s] = @ + 1]
<1>1. PICK here : /\ here = IF Has(d.cache, s) THEN [d EXCEPT !.cache = MakeItFirst(@, s)]
                            ELSE Attached(RoomForDelays(d), s)
                  /\ r = [here EXCEPT !.cache = Lock(@, s)]
  BY DEF LockDelays
<1>2. DelOk(here) /\ Same(d, here) /\ here.cache.locks = d.cache.locks /\ s \in here.typed
  <2>1. CASE Has(d.cache, s)
    <3>1. PICK u : u = d.cache
      OBVIOUS
    <3>2. PICK v : v = MakeItFirst(u, s)
      OBVIOUS
    <3>3. Sound(u) /\ Has(u, s) /\ s \in d.typed
      BY <2>1, <3>1 DEF DelOk, Has, Members
    <3>4. Sound(v) /\ Members(v) = Members(u) /\ v.locks = u.locks /\ v.size = u.size
      BY <3>2, <3>3, MadeFirst
    <3>5. here = [d EXCEPT !.cache = v]
      BY <1>1, <2>1, <3>1, <3>2
    <3>6. DelOk(here) /\ here.typed = d.typed /\ here.chains = d.chains /\ here.cache = v
      BY <3>1, <3>4, <3>5, RecacheDelaysOk
    <3> QED
      BY <3>1, <3>3, <3>4, <3>6 DEF Same
  <2>2. CASE ~Has(d.cache, s)
    <3>1. PICK m : m = RoomForDelays(d)
      OBVIOUS
    <3>2. DelOk(m) /\ Fewer(d, m)
      BY <3>1, RoomForDelaysOk
    <3>3. s \notin m.typed
      BY <2>2, <3>2 DEF DelOk, Fewer, Has, Members
    <3>4. here = Attached(m, s)
      BY <1>1, <2>2, <3>1
    <3>5. /\ DelOk(here) /\ here.chains = m.chains /\ here.cache.locks = m.cache.locks
          /\ s \in here.typed
      BY <3>2, <3>3, <3>4, AttachedOk
    <3> QED
      BY <3>2, <3>5 DEF Fewer, Same
  <2> QED
    BY <2>1, <2>2
<1>3. PICK u : u = here.cache
  OBVIOUS
<1>4. PICK v : v = Lock(u, s)
  OBVIOUS
<1>5. Sound(u) /\ Has(u, s)
  BY <1>2, <1>3 DEF DelOk, Has, Members
<1>6. Sound(v) /\ v.lru = u.lru /\ v.size = u.size /\ v.locks = [u.locks EXCEPT ![s] = @ + 1]
  BY <1>4, <1>5, Locked
<1>7. r = [here EXCEPT !.cache = v]
  BY <1>1, <1>3, <1>4
<1>8. Members(v) = Members(here.cache)
  BY <1>3, <1>6 DEF Members
<1>9. DelOk(r) /\ r.chains = here.chains /\ r.cache = v
  BY <1>2, <1>3, <1>6, <1>7, <1>8, RecacheDelaysOk
<1> QED
  BY <1>2, <1>3, <1>6, <1>9 DEF Same

LEMMA UnlockDelaysOk ==
  ASSUME NEW d, DelOk(d), NEW s \in Signal, d.cache.locks[s] > 0, NEW r, r = UnlockDelays(d, s)
  PROVE  DelOk(r) /\ Same(d, r) /\ r.cache.locks = [d.cache.locks EXCEPT ![s] = @ - 1]
<1>1. PICK u : u = d.cache
  OBVIOUS
<1>2. PICK v : v = Unlock(u, s)
  OBVIOUS
<1>3. Sound(u) /\ u.locks[s] > 0
  BY <1>1 DEF DelOk
<1>4. Sound(v) /\ v.lru = u.lru /\ v.size = u.size /\ v.locks = [u.locks EXCEPT ![s] = @ - 1]
  BY <1>2, <1>3, Unlocked
<1>5. r = [d EXCEPT !.cache = v]
  BY <1>1, <1>2 DEF UnlockDelays
<1>6. Members(v) = Members(d.cache)
  BY <1>1, <1>4 DEF Members
<1>7. DelOk(r) /\ r.chains = d.chains /\ r.cache = v
  BY <1>1, <1>4, <1>5, <1>6, RecacheDelaysOk
<1> QED
  BY <1>1, <1>4, <1>7 DEF Same

(***************************************************************************)
(* rcx_add_cache_load: the size grows by what the new chain or pin takes.  *)
(***************************************************************************)
Resized(d, chains, size) == [d EXCEPT !.chains = chains, !.cache.size = size]

LEMMA ResizedOk ==
  ASSUME NEW d, DelOk(d), NEW chains \in [Signal -> Seq(Chain)], NEW size \in Int,
         \A s \in Signal \ d.typed : chains[s] = <<>>, size >= Taken(chains, d.typed),
         NEW r, r = Resized(d, chains, size)
  PROVE  /\ DelOk(r) /\ r.typed = d.typed /\ r.chains = chains /\ r.cache.lru = d.cache.lru
         /\ r.cache.locks = d.cache.locks
<1>1. d \in DelRec /\ Sound(d.cache) /\ d.cache \in CacheRec /\ d.error = FALSE
  BY DEF DelOk, DelRec, Sound
<1>2. PICK u : u = d.cache
  OBVIOUS
<1>3. PICK v : v = [lru |-> u.lru, locks |-> u.locks, size |-> size]
  OBVIOUS
<1>4. v.lru = u.lru /\ v.locks = u.locks /\ v.size = size /\ v \in CacheRec
  BY <1>1, <1>2, <1>3 DEF CacheRec
<1>5. Sound(v) /\ Members(v) = Members(u)
  BY <1>1, <1>2, <1>4 DEF Sound, Has, Members
<1>6. r = [cache |-> v, typed |-> d.typed, chains |-> chains, error |-> FALSE]
  <2>1. [u EXCEPT !.size = size] = v
    BY <1>1, <1>2, <1>3 DEF CacheRec
  <2>2. r = [d EXCEPT !.chains = chains, !.cache = v]
    BY <1>1, <1>2, <2>1 DEF Resized, DelRec
  <2> QED
    BY <1>1, <2>2 DEF DelRec
<1>7. r.cache = v /\ r.typed = d.typed /\ r.chains = chains /\ r.error = FALSE
  BY ONLY <1>6
<1>8. r \in DelRec
  BY <1>1, <1>4, <1>6 DEF DelRec
<1>9. DelOk(r)
  BY <1>2, <1>4, <1>5, <1>7, <1>8 DEF DelOk
<1> QED
  BY <1>2, <1>4, <1>7, <1>9

LEMMA AddLoadOk ==
  ASSUME NEW d, DelOk(d), NEW s \in d.typed, NEW pin \in Pin, NEW m \in Mode,
         NEW r, r = AddLoad(d, s, pin, m)
  PROVE  /\ DelOk(r) /\ r.cache.locks = d.cache.locks
         /\ \A k \in Mode \ {m} : Cleared(d, k) => Cleared(r, k)
<1>1. /\ d \in DelRec /\ d.chains \in [Signal -> Seq(Chain)] /\ d.typed \in SUBSET Signal
      /\ d.cache.size \in Int /\ s \in Signal /\ d.cache.size >= Taken(d.chains, d.typed)
  BY DEF DelOk, DelRec, CacheRec
<1>2. PICK old \in Seq(Chain) : old = d.chains[s]
  BY <1>1
<1>3. PICK new \in Seq(Chain) : new = WithLoad(old, pin, m)
  BY WithLoadOk
<1>4. PICK chains \in [Signal -> Seq(Chain)] : chains = [d.chains EXCEPT ![s] = new]
  BY <1>1
<1>5. PICK size \in Int : /\ size = d.cache.size + (ListSize(new) - ListSize(old))
                          /\ size >= Taken(chains, d.typed)
  <2>1. PICK rest \in SUBSET Signal : rest = d.typed \ {s}
    BY <1>1
  <2>2. PICK one \in SUBSET Signal : one = {s}
    BY <1>1
  <2>3. rest \cap one = {} /\ rest \cup one = d.typed
    BY <2>1, <2>2
  <2>4. Taken(chains, rest \cup one) = Taken(chains, rest) + Taken(chains, one)
    BY <2>3, TakenSplit
  <2>5. Taken(d.chains, rest \cup one) = Taken(d.chains, rest) + Taken(d.chains, one)
    BY <1>1, <2>3, TakenSplit
  <2>6. Alike(d.chains, chains, rest)
    BY <1>4, <2>1 DEF Alike
  <2>7. Taken(chains, rest) = Taken(d.chains, rest)
    BY <1>1, <2>6, TakenSame
  <2>8. chains[s] = new
    BY <1>1, <1>4
  <2>9. Taken(chains, one) = PtypeSize + ListSize(new)
    BY <1>1, <2>2, <2>8, TakenOne
  <2>10. Taken(d.chains, one) = PtypeSize + ListSize(old)
    BY <1>1, <1>2, <2>2, TakenOne
  <2>11. PICK x \in Nat, p \in Nat, y \in Nat, z \in Nat, k \in Int :
             /\ x = Taken(chains, rest) /\ p = PtypeSize /\ y = ListSize(new)
             /\ z = ListSize(old) /\ k = d.cache.size
    BY <1>1, TakenOf, ChainSizes, DelayAssumption
  <2>12. k >= x + (p + z)
    BY <1>1, <2>3, <2>5, <2>7, <2>10, <2>11
  <2>13. Taken(chains, d.typed) = x + (p + y)
    BY <2>3, <2>4, <2>9, <2>11
  <2>14. PICK size \in Int : size = k + (y - z)
    BY <2>11
  <2>15. size >= x + (p + y)
    BY ONLY <2>12, <2>14, k \in Int, x \in Nat, p \in Nat, y \in Nat, z \in Nat
  <2> QED
    BY <2>11, <2>13, <2>14, <2>15
<1>6. PICK e : e = Resized(d, chains, size)
  OBVIOUS
<1>7. r = RoomForDelays(e)
  <2>1. e = [d EXCEPT !.chains[s] = new, !.cache.size = @ + (ListSize(new) - ListSize(old))]
    BY <1>1, <1>4, <1>5, <1>6 DEF Resized, DelRec
  <2> QED
    BY <1>2, <1>3, <2>1 DEF AddLoad
<1>8. \A t \in Signal \ d.typed : chains[t] = <<>>
  BY <1>4 DEF DelOk
<1>9. DelOk(e) /\ e.typed = d.typed /\ e.chains = chains /\ e.cache.locks = d.cache.locks
  BY <1>5, <1>6, <1>8, ResizedOk
<1>10. DelOk(r) /\ Fewer(e, r)
  BY <1>7, <1>9, RoomForDelaysOk
<1>11. ASSUME NEW k \in Mode \ {m}, Cleared(d, k) PROVE Cleared(r, k)
  <2>1. Cleared(e, k)
    <3> SUFFICES ASSUME NEW t \in Signal, NEW x \in ToSet(chains[t]) PROVE x.mode # k
      BY <1>9 DEF Cleared
    <3>1. CASE t = s
      <4>1. x \in ToSet(WithLoad(old, pin, m))
        BY <1>3, <1>4, <3>1
      <4>2. x.mode = m \/ \E y \in ToSet(old) : y.mode = x.mode
        BY <4>1, WithLoadOk
      <4>3. \A y \in ToSet(old) : y.mode # k
        BY <1>1, <1>2, <1>11 DEF Cleared
      <4> QED
        BY <4>2, <4>3
    <3>2. CASE t # s
      <4>1. chains[t] = d.chains[t]
        BY <1>1, <1>4, <3>2
      <4> QED
        BY <1>11, <4>1 DEF Cleared
    <3> QED
      BY <3>1, <3>2
  <2> QED
    BY <1>10, <2>1, SameCleared DEF Fewer
<1> QED
  BY <1>9, <1>10, <1>11 DEF Fewer

(***************************************************************************)
(* rcx_delay_cache_remove_from_cache: what the removed chains took is at   *)
(* most what is lost with them, and the signals left without chains go.    *)
(***************************************************************************)
Cut(d, m) == [s \in Signal |-> Remaining(d.chains[s], m)]

LEMMA CutOk ==
  ASSUME NEW d, DelOk(d), NEW m, NEW chains, chains = Cut(d, m)
  PROVE  /\ chains \in [Signal -> Seq(Chain)]
         /\ \A s \in Signal \ d.typed : chains[s] = <<>>
         /\ \A s \in Signal : \A x \in ToSet(chains[s]) : x \in ToSet(d.chains[s]) /\ x.mode # m
         /\ RemovedSize(d, m) \in Int
         /\ Taken(chains, d.typed) + RemovedSize(d, m) <= Taken(d.chains, d.typed)
<1>1. /\ d.chains \in [Signal -> Seq(Chain)] /\ d.typed \in SUBSET Signal
      /\ d.typed = ToSet(d.cache.lru)
  BY DEF DelOk, DelRec, Members
<1>2. ASSUME NEW s \in Signal
      PROVE  /\ chains[s] = Remaining(d.chains[s], m) /\ chains[s] \in Seq(Chain)
             /\ \A x \in ToSet(chains[s]) : x \in ToSet(d.chains[s]) /\ x.mode # m
             /\ ModeSize(d.chains[s], m) \in Nat
             /\ ListSize(chains[s]) + ModeSize(d.chains[s], m) <= ListSize(d.chains[s])
  <2>1. PICK list \in Seq(Chain) : list = d.chains[s]
    BY <1>1
  <2>2. chains[s] = Remaining(list, m)
    BY <2>1 DEF Cut
  <2>3. /\ Remaining(list, m) \in Seq(Chain)
        /\ \A x \in ToSet(Remaining(list, m)) : x \in ToSet(list) /\ x.mode # m
        /\ ModeSize(list, m) \in Nat
        /\ ListSize(Remaining(list, m)) + ModeSize(list, m) <= ListSize(list)
    BY RemainingOk
  <2> QED
    BY <2>1, <2>2, <2>3
<1>3. chains \in [Signal -> Seq(Chain)]
  BY <1>2 DEF Cut
<1>4. ASSUME NEW s \in Signal \ d.typed PROVE chains[s] = <<>>
  <2>1. d.chains[s] = <<>>
    BY DEF DelOk
  <2>2. \A x \in ToSet(chains[s]) : x \in ToSet(<<>>)
    BY <1>2, <2>1
  <2>3. ToSet(<<>>) = {}
    BY DEF ToSet
  <2>4. PICK list \in Seq(Chain) : list = chains[s]
    BY <1>2
  <2>5. ToSet(list) = {}
    BY <2>2, <2>3, <2>4
  <2> QED
    BY <2>4, <2>5, Elements
<1>5. PICK f : f = Sizes(chains)
  OBVIOUS
<1>6. PICK g : g = [s \in d.typed |-> ModeSize(d.chains[s], m)]
  OBVIOUS
<1>7. PICK h : h = Sizes(d.chains)
  OBVIOUS
<1>8. RemovedSize(d, m) = SumFunctionOnSet(g, d.typed)
  BY <1>1, <1>6 DEF RemovedSize
<1>9. IsFiniteSet(d.typed)
  BY <1>1, TakenOf
<1>10. ASSUME NEW s \in d.typed
       PROVE  f[s] \in Int /\ g[s] \in Int /\ h[s] \in Int /\ f[s] + g[s] <= h[s]
  <2>1. f[s] \in Nat /\ h[s] \in Nat
        /\ f[s] = PtypeSize + ListSize(chains[s]) /\ h[s] = PtypeSize + ListSize(d.chains[s])
    BY <1>1, <1>3, <1>5, <1>7, TakenOf
  <2>2. s \in Signal /\ g[s] = ModeSize(d.chains[s], m)
    BY <1>1, <1>6
  <2>3. PICK x \in Nat, y \in Nat, z \in Nat, p \in Nat :
            /\ x = ListSize(chains[s]) /\ y = ModeSize(d.chains[s], m)
            /\ z = ListSize(d.chains[s]) /\ p = PtypeSize
    BY <1>1, <1>2, <1>3, <2>2, ChainSizes, DelayAssumption
  <2>4. x + y <= z
    BY <1>2, <2>2, <2>3
  <2> QED
    BY <2>1, <2>2, <2>3, <2>4
<1>11. SumFunctionOnSet(f, d.typed) + SumFunctionOnSet(g, d.typed) <= SumFunctionOnSet(h, d.typed)
  BY <1>9, <1>10, SumSplits
<1>12. SumFunctionOnSet(g, d.typed) \in Int
  BY <1>9, <1>10, SumIsInt
<1>13. /\ RemovedSize(d, m) \in Int
       /\ Taken(chains, d.typed) + RemovedSize(d, m) <= Taken(d.chains, d.typed)
  BY <1>5, <1>7, <1>8, <1>11, <1>12 DEF Taken
<1> QED
  BY <1>2, <1>3, <1>4, <1>13

LEMMA RemoveOk ==
  ASSUME NEW d, DelOk(d), NEW m \in Mode, NEW r, r = RemoveFromCache(d, m)
  PROVE  /\ DelOk(r) /\ r.cache.locks = d.cache.locks /\ Cleared(r, m)
         /\ \A k \in Mode : Cleared(d, k) => Cleared(r, k)
         /\ (/\ \A k \in Mode \ {m} : Cleared(d, k)
             /\ \A s \in Signal : d.cache.locks[s] = 0) => r.typed = {}
<1>1. /\ d \in DelRec /\ d.error = FALSE /\ d.typed = ToSet(d.cache.lru)
      /\ d.cache.size \in Int /\ d.chains \in [Signal -> Seq(Chain)]
      /\ d.cache.size >= Taken(d.chains, d.typed) /\ d.typed \in SUBSET Signal
  BY DEF DelOk, DelRec, CacheRec, Members
<1>2. PICK chains : chains = Cut(d, m)
  OBVIOUS
<1>3. /\ chains \in [Signal -> Seq(Chain)]
      /\ \A s \in Signal \ d.typed : chains[s] = <<>>
      /\ \A s \in Signal : \A x \in ToSet(chains[s]) : x \in ToSet(d.chains[s]) /\ x.mode # m
      /\ RemovedSize(d, m) \in Int
      /\ Taken(chains, d.typed) + RemovedSize(d, m) <= Taken(d.chains, d.typed)
  BY <1>2, CutOk
<1>4. PICK size \in Int : size = d.cache.size - RemovedSize(d, m) /\ size >= Taken(chains, d.typed)
  <2>1. PICK x \in Int, y \in Nat, z \in Nat, k \in Int :
            /\ x = RemovedSize(d, m) /\ y = Taken(chains, d.typed)
            /\ z = Taken(d.chains, d.typed) /\ k = d.cache.size
    BY <1>1, <1>3, TakenOf
  <2>2. y + x <= z /\ k >= z
    BY <1>1, <1>3, <2>1
  <2>3. PICK size \in Int : size = k - x /\ size >= y
    BY <2>1, <2>2
  <2> QED
    BY <2>1, <2>3
<1>5. PICK cut : cut = Resized(d, chains, size)
  OBVIOUS
<1>6. /\ DelOk(cut) /\ cut.typed = d.typed /\ cut.chains = chains
      /\ cut.cache.lru = d.cache.lru /\ cut.cache.locks = d.cache.locks
  BY <1>3, <1>4, <1>5, ResizedOk
<1>7. PICK shrunk : shrunk = RoomForDelays(cut)
  OBVIOUS
<1>8. DelOk(shrunk) /\ Fewer(cut, shrunk)
  BY <1>6, <1>7, RoomForDelaysOk
<1>9. PICK gone : gone = Emptied(cut, shrunk)
  OBVIOUS
<1>10. r = ReleasedDelays(shrunk, gone)
  <2>1. cut = [d EXCEPT !.chains = [s \in Signal |-> Remaining(@[s], m)],
                        !.cache.size = @ - RemovedSize(d, m),
                        !.error = @ \/ ~(ToSet(d.cache.lru) \subseteq d.typed)]
    <3>1. (d.error \/ ~(ToSet(d.cache.lru) \subseteq d.typed)) = d.error
      BY <1>1
    <3>2. chains = [s \in Signal |-> Remaining(d.chains[s], m)]
      BY <1>2 DEF Cut
    <3> QED
      BY <1>1, <1>4, <1>5, <3>1, <3>2 DEF Resized, DelRec
  <2> QED
    BY <1>7, <1>9, <2>1 DEF RemoveFromCache
<1>11. Takes(shrunk.cache, gone)
  <2>1. shrunk.cache \in CacheRec
    BY <1>8 DEF DelOk, Sound
  <2>2. gone \subseteq Signal
    BY <1>1, <1>6, <1>9 DEF Emptied
  <2> QED
    BY <1>9, <2>1, <2>2 DEF Takes, Free, Emptied, Releasable, IsLock, Has, Members, CacheRec
<1>12. DelOk(r) /\ r.typed = shrunk.typed \ gone /\ Fewer(shrunk, r)
  BY <1>8, <1>10, <1>11, ReleasedDelaysOk
<1>13. r.cache.locks = d.cache.locks
  BY <1>6, <1>8, <1>12 DEF Fewer
<1>14. Cleared(cut, m) /\ \A k \in Mode : Cleared(d, k) => Cleared(cut, k)
  BY <1>3, <1>6 DEF Cleared
<1>15. Cleared(r, m) /\ \A k \in Mode : Cleared(d, k) => Cleared(r, k)
  BY <1>8, <1>12, <1>14, SameCleared DEF Fewer
<1>16. ASSUME \A k \in Mode \ {m} : Cleared(d, k), \A s \in Signal : d.cache.locks[s] = 0
       PROVE  r.typed = {}
  <2> SUFFICES ASSUME NEW s \in shrunk.typed PROVE s \in gone
    BY <1>12
  <2>1. s \in cut.typed /\ s \in Signal /\ s \in ToSet(cut.cache.lru)
    BY <1>1, <1>6, <1>8 DEF Fewer
  <2>2. cut.chains[s] = <<>>
    <3>1. \A k \in Mode : Cleared(cut, k)
      BY <1>14, <1>16
    <3>2. PICK list \in Seq(Chain) : list = cut.chains[s]
      BY <1>3, <1>6, <2>1
    <3>3. ToSet(list) \subseteq Chain
      BY Elements
    <3>4. ASSUME NEW x \in ToSet(list) PROVE FALSE
      <4>1. x.mode \in Mode
        BY <3>3 DEF Chain
      <4> QED
        BY <2>1, <3>1, <3>2, <4>1 DEF Cleared
    <3>5. ToSet(list) = {}
      BY <3>4
    <3> QED
      BY <3>2, <3>5, Elements
  <2>3. Releasable(shrunk.cache, s)
    <3>1. s \in ToSet(shrunk.cache.lru)
      BY <1>8 DEF DelOk, Members
    <3>2. shrunk.cache.locks[s] = 0
      BY <1>6, <1>8, <1>16, <2>1 DEF Fewer
    <3> QED
      BY <3>1, <3>2 DEF Releasable, Has, IsLock
  <2> QED
    BY <1>9, <2>1, <2>2, <2>3 DEF Emptied
<1> QED
  BY <1>12, <1>13, <1>15, <1>16

LEMMA FlushDelaysOk ==
  ASSUME NEW d, DelOk(d), NEW r, r = FlushDelayCache(d)
  PROVE  /\ DelOk(r) /\ r.cache.locks = d.cache.locks
         /\ \A k \in Mode : Cleared(r, k)
         /\ (\A s \in Signal : d.cache.locks[s] = 0) => r.typed = {}
<1>1. PICK e : e = RemoveFromCache(d, "MILLER")
  OBVIOUS
<1>2. r = RemoveFromCache(e, "NOCROSSTALK")
  BY <1>1 DEF FlushDelayCache
<1>3. Mode = {"MILLER", "NOCROSSTALK"}
  BY DEF Mode
<1>4. DelOk(e) /\ e.cache.locks = d.cache.locks /\ Cleared(e, "MILLER")
  BY <1>1, <1>3, RemoveOk
<1>5. /\ DelOk(r) /\ r.cache.locks = e.cache.locks /\ Cleared(r, "NOCROSSTALK")
      /\ \A k \in Mode : Cleared(e, k) => Cleared(r, k)
      /\ (/\ \A k \in Mode \ {"NOCROSSTALK"} : Cleared(e, k)
          /\ \A s \in Signal : e.cache.locks[s] = 0) => r.typed = {}
  BY <1>2, <1>3, <1>4, RemoveOk
<1> QED
  BY <1>3, <1>4, <1>5

-----------------------------------------------------------------------------
(***************************************************************************)
(* The delay cache between the steps of its clients: only the signal a     *)
(* delay is computed for is locked, and the mode it is computed in is one  *)
(* whose delays are kept until it is stored.                               *)
(***************************************************************************)
DelaysInv ==
    /\ DelOk(del)
    /\ mode \in Mode /\ miller \in BOOLEAN
    /\ ~miller => Cleared(del, "MILLER")
    /\ load.cached => DelayCacheActive
    /\ \A s \in Signal : del.cache.locks[s] = IF load.cached /\ load.sig = s THEN 1 ELSE 0

LEMMA DelaysInit ==
  ASSUME Init
  PROVE  DelaysInv
<1>1. EmptyDelays.cache = EmptyCache
  BY DEF EmptyDelays
<1> QED
  BY <1>1, EmptyDelaysOk DEF Init, DelaysInv, Mode, NoLoad, EmptyCache

LEMMA DelaysStep ==
  ASSUME NetSound, DelaysInv, [Next]_vars
  PROVE  DelaysInv'
<1>1. /\ LoadOk /\ DelOk(del) /\ del.cache.locks \in [Signal -> Nat] /\ Sound(del.cache)
      /\ del.typed = Members(del.cache)
      /\ mode \in Mode /\ miller \in BOOLEAN
      /\ ~miller => Cleared(del, "MILLER")
      /\ load.cached => DelayCacheActive
      /\ \A s \in Signal : del.cache.locks[s] = IF load.cached /\ load.sig = s THEN 1 ELSE 0
      /\ Mode = {"MILLER", "NOCROSSTALK"}
  BY DEF NetSound, DelaysInv, DelOk, Sound, CacheRec, Mode
<1>2. CASE UNCHANGED <<del, mode, miller, load>>
  BY <1>1, <1>2 DEF DelaysInv, DelayCacheActive
<1>3. ASSUME NEW s \in Signal, NEW pin \in Pin, Found(s, pin) PROVE DelaysInv'
  <2>1. PICK e : e = LockDelays(del, s)
    OBVIOUS
  <2>2. DelOk(e) /\ Same(del, e) /\ e.cache.locks = [del.cache.locks EXCEPT ![s] = @ + 1]
    BY <1>1, <2>1, LockDelaysOk
  <2>3. e.cache.locks[s] = del.cache.locks[s] + 1 /\ e.cache.locks[s] > 0
    BY <1>1, <2>2
  <2>4. del' = UnlockDelays(e, s) /\ UNCHANGED <<mode, miller, load>>
    BY <1>3, <2>1 DEF Found
  <2>5. DelOk(del') /\ Same(e, del') /\ del'.cache.locks = [e.cache.locks EXCEPT ![s] = @ - 1]
    <3>1. PICK f : f = UnlockDelays(e, s)
      OBVIOUS
    <3>2. DelOk(e) /\ e.cache.locks[s] > 0
      BY <2>2, <2>3
    <3>3. DelOk(f) /\ Same(e, f) /\ f.cache.locks = [e.cache.locks EXCEPT ![s] = @ - 1]
      BY <3>1, <3>2, UnlockDelaysOk
    <3> QED
      BY <2>4, <3>1, <3>3
  <2>6. del'.cache.locks = del.cache.locks
    BY <1>1, <2>2, <2>5
  <2>7. ~miller => Cleared(del', "MILLER")
    BY <1>1, <2>2, <2>5, SameCleared
  <2> QED
    BY <1>1, <2>4, <2>5, <2>6, <2>7 DEF DelaysInv, DelayCacheActive
<1>4. ASSUME NEW s \in Signal, NEW pin \in Pin, Compute(s, pin) PROVE DelaysInv'
  <2>1. /\ load = NoLoad /\ load' = [sig |-> s, pin |-> pin, cached |-> DelayCacheActive]
        /\ UNCHANGED <<mode, miller>>
        /\ IF DelayCacheActive THEN del' = LockDelays(del, s) ELSE del' = del
    BY <1>4 DEF Compute, Idle
  <2>2. \A t \in Signal : del.cache.locks[t] = 0
    BY <1>1, <2>1 DEF NoLoad
  <2>3. CASE DelayCacheActive
    <3>1. DelOk(del') /\ Same(del, del') /\ del'.cache.locks = [del.cache.locks EXCEPT ![s] = @ + 1]
      BY <1>1, <2>1, <2>3, LockDelaysOk
    <3>2. load'.cached = TRUE /\ load'.sig = s
      BY <2>1, <2>3
    <3>3. \A t \in Signal : del'.cache.locks[t] = IF load'.cached /\ load'.sig = t THEN 1 ELSE 0
      BY <1>1, <2>2, <3>1, <3>2
    <3>4. ~miller => Cleared(del', "MILLER")
      BY <1>1, <3>1, SameCleared
    <3> QED
      BY <1>1, <2>1, <2>3, <3>1, <3>3, <3>4 DEF DelaysInv, DelayCacheActive
  <2>4. CASE ~DelayCacheActive
    <3>1. load'.cached = FALSE /\ del' = del
      BY <2>1, <2>4
    <3> QED
      BY <1>1, <2>1, <2>2, <3>1 DEF DelaysInv
  <2> QED
    BY <2>3, <2>4
<1>5. ASSUME NEW stored \in BOOLEAN, Finish(stored) PROVE DelaysInv'
  <2>1. PICK s \in Signal, pin \in Pin : load.sig = s /\ load.pin = pin /\ load.cached \in BOOLEAN
    BY <1>1, <1>5 DEF Finish, Idle, LoadOk
  <2>2. load' = NoLoad /\ UNCHANGED <<mode, miller>>
    BY <1>5 DEF Finish
  <2>3. load'.cached = FALSE
    BY <2>2 DEF NoLoad
  <2>4. CASE ~load.cached
    <3>1. del' = del
      BY <1>5, <2>4 DEF Finish
    <3> QED
      BY <1>1, <2>2, <2>3, <2>4, <3>1 DEF DelaysInv
  <2>5. CASE load.cached
    <3>1. PICK e : e = IF stored THEN AddLoad(del, s, pin, mode) ELSE del
      OBVIOUS
    <3>2. del' = UnlockDelays(e, s)
      BY <1>5, <2>1, <2>5, <3>1 DEF Finish
    <3>3. s \in del.typed /\ del.cache.locks[s] = 1
      BY <1>1, <2>1, <2>5 DEF Sound, Has, Members
    <3>4. /\ DelOk(e) /\ e.cache.locks = del.cache.locks
          /\ ~miller => Cleared(e, "MILLER")
      <4>1. CASE stored
        <5>1. /\ DelOk(e) /\ e.cache.locks = del.cache.locks
              /\ \A k \in Mode \ {mode} : Cleared(del, k) => Cleared(e, k)
          BY <1>1, <3>1, <3>3, <4>1, AddLoadOk
        <5>2. ~miller => "MILLER" \in Mode \ {mode}
          BY <1>1, <2>5 DEF DelayCacheActive
        <5> QED
          BY <1>1, <5>1, <5>2
      <4>2. CASE ~stored
        BY <1>1, <3>1, <4>2
      <4> QED
        BY <4>1, <4>2
    <3>5. DelOk(del') /\ Same(e, del') /\ del'.cache.locks = [e.cache.locks EXCEPT ![s] = @ - 1]
      BY <3>2, <3>3, <3>4, UnlockDelaysOk
    <3>6. \A t \in Signal : del'.cache.locks[t] = 0
      BY <1>1, <2>1, <2>5, <3>3, <3>4, <3>5
    <3>7. ~miller => Cleared(del', "MILLER")
      BY <3>4, <3>5, SameCleared
    <3> QED
      BY <1>1, <2>2, <2>3, <3>5, <3>6, <3>7 DEF DelaysInv
  <2> QED
    BY <2>4, <2>5
<1>6. ASSUME NEW slopes \in BOOLEAN, BeginCrosstalk(slopes) PROVE DelaysInv'
  <2>1. load = NoLoad /\ load' = load /\ mode' = "MILLER" /\ ~load.cached
    BY <1>6 DEF BeginCrosstalk, Idle, NoLoad
  <2>2. CASE slopes /\ miller
    <3>1. miller' = FALSE /\ del' = RemoveFromCache(del, "MILLER")
      BY <1>6, <2>2 DEF BeginCrosstalk
    <3>2. DelOk(del') /\ del'.cache.locks = del.cache.locks /\ Cleared(del', "MILLER")
      BY <1>1, <3>1, RemoveOk
    <3> QED
      BY <1>1, <2>1, <3>1, <3>2 DEF DelaysInv
  <2>3. CASE ~(slopes /\ miller)
    <3>1. miller' = miller /\ del' = RoomForDelays(del)
      BY <1>6, <2>3 DEF BeginCrosstalk
    <3>2. DelOk(del') /\ Fewer(del, del')
      BY <1>1, <3>1, RoomForDelaysOk
    <3>3. ~miller => Cleared(del', "MILLER")
      BY <1>1, <3>2, SameCleared DEF Fewer
    <3> QED
      BY <1>1, <2>1, <3>1, <3>2, <3>3 DEF DelaysInv, Fewer
  <2> QED
    BY <2>2, <2>3
<1>7. CASE FlushDelays
  <2>1. load = NoLoad /\ ~load.cached /\ UNCHANGED <<load, mode, miller>>
        /\ del' = FlushDelayCache(del)
    BY <1>7 DEF FlushDelays, Idle, NoLoad
  <2>2. DelOk(del') /\ del'.cache.locks = del.cache.locks /\ \A k \in Mode : Cleared(del', k)
    BY <1>1, <2>1, FlushDelaysOk
  <2> QED
    BY <1>1, <2>1, <2>2 DEF DelaysInv
<1>8. CASE EndCrosstalk
  <2>1. PICK e : e = FlushDelayCache(del)
    OBVIOUS
  <2>2. /\ load = NoLoad /\ ~load.cached /\ load' = load /\ mode' = "NOCROSSTALK" /\ miller' = TRUE
        /\ del' = RoomForDelays(e)
    BY <1>8, <2>1 DEF EndCrosstalk, Idle, NoLoad
  <2>3. DelOk(e) /\ e.cache.locks = del.cache.locks
    BY <1>1, <2>1, FlushDelaysOk
  <2>4. DelOk(del') /\ Fewer(e, del')
    BY <2>2, <2>3, RoomForDelaysOk
  <2> QED
    BY <1>1, <2>2, <2>3, <2>4 DEF DelaysInv, Fewer
<1>9. CASE Toggle
  <2>1. /\ load = NoLoad /\ ~load.cached /\ UNCHANGED <<load, miller, del>>
        /\ mode' \in Mode
    BY <1>1, <1>9 DEF Toggle, Idle, NoLoad
  <2> QED
    BY <1>1, <2>1 DEF DelaysInv
<1> QED
  BY <1>2, <1>3, <1>4, <1>5, <1>6, <1>7, <1>8, <1>9 DEF Next, vars, Touch, Hold, Drop, View

LEMMA DelaysAlways == Spec => []DelaysInv
<1>1. Init => DelaysInv
  BY DelaysInit
<1>2. NetSound /\ DelaysInv /\ [Next]_vars => DelaysInv'
  BY DelaysStep
<1> QED
  BY <1>1, <1>2, NetSoundAlways, PTL DEF Spec

(***************************************************************************)
(* A signal is in the list if and only if it has its ptype, no message 045 *)
(* or 047 is reported, the signal a delay is computed for stays, and while *)
(* crosstalk delays depend on slopes none is found in the cache.           *)
(***************************************************************************)
THEOREM DelaysAreCurrent == Spec => []DelaysCurrent
<1>1. NetSound /\ DelaysInv => DelaysCurrent
  <2> SUFFICES ASSUME NetSound, DelaysInv PROVE DelaysCurrent
    OBVIOUS
  <2>1. ASSUME load.cached PROVE load.sig \in del.typed
    <3>1. load.sig \in Signal
      BY <2>1 DEF NetSound, LoadOk, NoLoad
    <3>2. del.cache.locks[load.sig] > 0
      BY <2>1, <3>1 DEF DelaysInv
    <3> QED
      BY <3>1, <3>2 DEF DelaysInv, DelOk, Sound, Has, Members
  <2>2. DelaysAttached
    BY <2>1 DEF DelaysAttached, DelaysInv, DelOk, Members
  <2>3. SlopeDelaysNotKept
    BY DEF SlopeDelaysNotKept, DelaysInv, Cleared, Hit
  <2> QED
    BY <2>2, <2>3 DEF DelaysCurrent
<1> QED
  BY <1>1, NetSoundAlways, DelaysAlways, PTL

(***************************************************************************)
(* Both caches take into account at least what is in memory for them,      *)
(* although removing the chains of one mode loses others of the list.      *)
(***************************************************************************)
THEOREM SizesCover == Spec => []SizesAgree
<1>1. DelaysInv => DelaySizeCovers
  <2> SUFFICES ASSUME DelaysInv PROVE DelaySizeCovers
    OBVIOUS
  <2>1. PICK d : d = del
    OBVIOUS
  <2>2. DelOk(d) /\ d.cache.size >= Taken(d.chains, d.typed)
    BY <2>1 DEF DelaysInv, DelOk
  <2>3. PICK part \in SUBSET d.typed : part = d.typed
    OBVIOUS
  <2>4. SumFunctionOnSet([s \in part |-> SizeOf(d, s)], part) = Taken(d.chains, part)
    BY <2>2, SizesTaken
  <2> QED
    BY <2>1, <2>2, <2>3, <2>4 DEF DelaySizeCovers, DelaysSize
<1>2. RcnSizeAgrees /\ DelaySizeCovers => SizesAgree
  BY DEF SizesAgree
<1> QED
  BY <1>1, <1>2, DelaysAlways, RcnSizeHolds, PTL

(***************************************************************************)
(* trcflushdelaycache leaves no signal in the cache: no delay is being     *)
(* computed then, so nothing is locked, and a list loses all its chains.   *)
(***************************************************************************)
THEOREM FlushLeavesNone == Spec => FlushEmpties
<1>1. DelaysInv /\ [Next]_vars => [FlushDelays => del'.cache.lru = <<>>]_vars
  <2> SUFFICES ASSUME DelaysInv, FlushDelays PROVE del'.cache.lru = <<>>
    OBVIOUS
  <2>1. DelOk(del) /\ \A s \in Signal : del.cache.locks[s] = 0
    BY DEF DelaysInv, FlushDelays, Idle, NoLoad
  <2>2. PICK r : r = FlushDelayCache(del)
    OBVIOUS
  <2>3. DelOk(r) /\ r.typed = {} /\ del' = r
    BY <2>1, <2>2, FlushDelaysOk DEF FlushDelays
  <2>4. PICK list \in Seq(Signal) : list = r.cache.lru
    BY <2>3 DEF DelOk, Sound, CacheRec
  <2>5. ToSet(list) = {}
    BY <2>3, <2>4 DEF DelOk, Members
  <2> QED
    BY <2>3, <2>4, <2>5, Elements
<1> QED
  BY <1>1, DelaysAlways, PTL DEF Spec, FlushEmpties

-----------------------------------------------------------------------------
(***************************************************************************)
(* The order of a list, and what an element that goes or comes changes in  *)
(* it.  Elements are in a list once.                                       *)
(***************************************************************************)
UpTo(s, n, x, y) == \E k, l \in 1..n : k < l /\ s[k] = x /\ s[l] = y

Before(s, x, y) == UpTo(s, Len(s), x, y)

Once(s) == \A x \in ToSet(s) : ~Before(s, x, x)

LEMMA UpToNext ==
  ASSUME NEW s, NEW n \in Nat \ {0}, NEW x, NEW y
  PROVE  UpTo(s, n, x, y) <=> \/ UpTo(s, n - 1, x, y)
                              \/ y = s[n] /\ \E k \in 1..(n - 1) : s[k] = x
<1>1. ASSUME UpTo(s, n, x, y)
      PROVE  UpTo(s, n - 1, x, y) \/ (y = s[n] /\ \E k \in 1..(n - 1) : s[k] = x)
  <2>1. PICK k \in 1..n, l \in 1..n : k < l /\ s[k] = x /\ s[l] = y
    BY <1>1 DEF UpTo
  <2>2. k \in 1..(n - 1)
    BY <2>1
  <2>3. CASE l = n
    BY <2>1, <2>2, <2>3
  <2>4. CASE l # n
    <3>1. l \in 1..(n - 1)
      BY <2>4
    <3> QED
      BY <2>1, <2>2, <3>1 DEF UpTo
  <2> QED
    BY <2>3, <2>4
<1>2. ASSUME UpTo(s, n - 1, x, y) PROVE UpTo(s, n, x, y)
  <2>1. PICK k \in 1..(n - 1), l \in 1..(n - 1) : k < l /\ s[k] = x /\ s[l] = y
    BY <1>2 DEF UpTo
  <2>2. k \in 1..n /\ l \in 1..n
    OBVIOUS
  <2> QED
    BY <2>1, <2>2 DEF UpTo
<1>3. ASSUME y = s[n], NEW k \in 1..(n - 1), s[k] = x PROVE UpTo(s, n, x, y)
  <2>1. k \in 1..n /\ n \in 1..n /\ k < n
    OBVIOUS
  <2> QED
    BY <1>3, <2>1 DEF UpTo
<1> QED
  BY <1>1, <1>2, <1>3

LEMMA BeforeAppend ==
  ASSUME NEW S, NEW q \in Seq(S), NEW e \in S, NEW x, NEW y
  PROVE  Before(Append(q, e), x, y) <=> Before(q, x, y) \/ (y = e /\ x \in ToSet(q))
<1>1. PICK r : r = Append(q, e)
  OBVIOUS
<1>2. PICK n \in Nat \ {0} : n = Len(r) /\ n - 1 = Len(q)
  <2>1. Len(q) \in Nat /\ Len(r) = Len(q) + 1
    BY <1>1
  <2>2. Len(r) \in Nat \ {0} /\ Len(r) - 1 = Len(q)
    BY <2>1
  <2> QED
    BY <2>2
<1>3. /\ r[n] = e /\ \A k \in 1..(n - 1) : r[k] = q[k]
      /\ DOMAIN q = 1..(n - 1)
  BY <1>1, <1>2
<1>4. Before(r, x, y) <=> \/ UpTo(r, n - 1, x, y)
                          \/ y = r[n] /\ \E k \in 1..(n - 1) : r[k] = x
  BY <1>2, UpToNext DEF Before
<1>5. UpTo(r, n - 1, x, y) <=> Before(q, x, y)
  BY <1>2, <1>3 DEF UpTo, Before
<1>6. (\E k \in 1..(n - 1) : r[k] = x) <=> x \in ToSet(q)
  BY <1>3 DEF ToSet
<1> QED
  BY <1>1, <1>3, <1>4, <1>5, <1>6

LEMMA BeforeElements ==
  ASSUME NEW S, NEW s \in Seq(S), NEW x, NEW y, Before(s, x, y)
  PROVE  x \in ToSet(s) /\ y \in ToSet(s)
<1>1. DOMAIN s = 1..Len(s)
  OBVIOUS
<1> QED
  BY <1>1 DEF Before, UpTo, ToSet

InOrder(S, s, gone, n, r) ==
    \A x, y \in S : Before(r, x, y) <=> UpTo(s, n, x, y) /\ x \notin gone /\ y \notin gone

LEMMA UnlinkedInOrder ==
  ASSUME NEW S, NEW s \in Seq(S), NEW gone, NEW x \in S, NEW y \in S
  PROVE  Before(Unlink(s, gone), x, y) <=> Before(s, x, y) /\ x \notin gone /\ y \notin gone
<1> DEFINE g == CHOOSE f : Goes(s, gone, f, Len(s))
           Bad == {n \in 0..Len(s) : ~(Some(S, s, gone, n, g[n]) /\ InOrder(S, s, gone, n, g[n]))}
<1>1. Unlink(s, gone) = g[Len(s)]
  BY DEF Unlink, Goes, Turn
<1>2. Goes(s, gone, g, Len(s))
  <2>1. Len(s) \in Nat
    OBVIOUS
  <2> QED
    BY <2>1, LeftExists
<1> HIDE DEF g
<1>3. \A i \in 0..Len(s) : g[i] = Turn(s, gone, g, i)
  BY <1>2 DEF Goes
<1>4. Bad = {}
  <2>1. SUFFICES ASSUME Bad # {} PROVE FALSE
    OBVIOUS
  <2>2. PICK n \in Bad : \A k \in Bad : n <= k
    <3> HIDE DEF Bad
    <3>1. Bad \subseteq Nat
      BY DEF Bad
    <3> QED
      BY <3>1, <2>1, Least
  <2>3. n # 0
    <3>1. 0 \in 0..Len(s) /\ g[0] = <<>>
      BY <1>3 DEF Turn
    <3>2. Some(S, s, gone, 0, g[0])
      BY <3>1 DEF Some, ToSet
    <3>3. InOrder(S, s, gone, 0, g[0])
      BY <3>1 DEF InOrder, Before, UpTo
    <3> QED
      BY <3>2, <3>3
  <2>4. /\ n \in 1..Len(s) /\ n \in Nat \ {0} /\ Some(S, s, gone, n - 1, g[n - 1])
        /\ InOrder(S, s, gone, n - 1, g[n - 1])
    BY <2>2, <2>3
  <2>5. g[n] = IF s[n] \in gone THEN g[n - 1] ELSE Append(g[n - 1], s[n])
    BY <1>3, <2>4 DEF Turn
  <2>6. {s[k] : k \in 1..n} = {s[k] : k \in 1..n-1} \cup {s[n]} /\ s[n] \in S
    BY <2>4
  <2>7. ASSUME NEW v \in S, NEW w \in S
        PROVE  UpTo(s, n, v, w) <=> \/ UpTo(s, n - 1, v, w)
                                    \/ w = s[n] /\ \E k \in 1..(n - 1) : s[k] = v
    BY <2>4, UpToNext
  <2>8. PICK q : q = g[n - 1]
    OBVIOUS
  <2>9. q \in Seq(S) /\ ToSet(q) = {s[k] : k \in 1..(n - 1)} \ gone
        /\ \A v, w \in S : Before(q, v, w) <=> UpTo(s, n - 1, v, w) /\ v \notin gone /\ w \notin gone
    BY <2>4, <2>8 DEF Some, InOrder
  <2>10. CASE s[n] \in gone
    <3>1. g[n] = q
      BY <2>5, <2>8, <2>10
    <3>2. Some(S, s, gone, n, q)
      BY <2>6, <2>9, <2>10 DEF Some
    <3>3. InOrder(S, s, gone, n, q)
      BY <2>7, <2>9, <2>10 DEF InOrder
    <3> QED
      BY <3>1, <3>2, <3>3
  <2>11. CASE s[n] \notin gone
    <3>1. PICK r : r = Append(q, s[n])
      OBVIOUS
    <3>2. r \in Seq(S) /\ ToSet(r) = ToSet(q) \cup {s[n]} /\ g[n] = r
      <4>1. g[n] = r
        BY <2>5, <2>8, <2>11, <3>1
      <4>2. PICK e \in S : e = s[n]
        BY <2>6
      <4>3. q \in Seq(S) /\ r = Append(q, e)
        BY <2>9, <3>1, <4>2
      <4>4. r \in Seq(S) /\ ToSet(r) = ToSet(q) \cup {e}
        BY ONLY <4>3, e \in S DEF ToSet
      <4> QED
        BY <4>1, <4>2, <4>4
    <3>3. Some(S, s, gone, n, r)
      BY <2>6, <2>9, <2>11, <3>2 DEF Some
    <3>4. ASSUME NEW v \in S, NEW w \in S
          PROVE  Before(r, v, w) <=> UpTo(s, n, v, w) /\ v \notin gone /\ w \notin gone
      <4>1. Before(r, v, w) <=> Before(q, v, w) \/ (w = s[n] /\ v \in ToSet(q))
        BY <2>6, <2>9, <3>1, BeforeAppend
      <4>2. v \in ToSet(q) <=> v \notin gone /\ \E k \in 1..(n - 1) : s[k] = v
        BY <2>9
      <4> QED
        BY <2>7, <2>9, <2>11, <4>1, <4>2
    <3>5. InOrder(S, s, gone, n, r)
      BY <3>4 DEF InOrder
    <3> QED
      BY <3>2, <3>3, <3>5
  <2> QED
    BY <2>10, <2>11
<1>5. InOrder(S, s, gone, Len(s), g[Len(s)])
  <2>1. Len(s) \in 0..Len(s)
    OBVIOUS
  <2> QED
    BY <1>4, <2>1
<1> QED
  BY <1>1, <1>5 DEF InOrder, Before

LEMMA LinkedInOrder ==
  ASSUME NEW S, NEW s \in Seq(S), NEW e \in S, NEW x, NEW y
  PROVE  Before(<<e>> \o s, x, y) <=> (x = e /\ y \in ToSet(s)) \/ Before(s, x, y)
<1>1. PICK r : r = <<e>> \o s
  OBVIOUS
<1>2. PICK n \in Nat : n = Len(s) /\ Len(r) = n + 1 /\ DOMAIN s = 1..n
  BY <1>1
<1>3. r[1] = e /\ \A i \in 1..n : r[i + 1] = s[i]
  BY <1>1, <1>2
<1>4. ASSUME Before(r, x, y) PROVE (x = e /\ y \in ToSet(s)) \/ Before(s, x, y)
  <2>1. PICK k \in 1..(n + 1), l \in 1..(n + 1) : k < l /\ r[k] = x /\ r[l] = y
    BY <1>2, <1>4 DEF Before, UpTo
  <2>2. PICK j \in 1..n : l = j + 1
    <3>1. l - 1 \in 1..n /\ l = (l - 1) + 1
      BY <2>1
    <3> QED
      BY <3>1
  <2>3. y = s[j]
    BY <1>3, <2>1, <2>2
  <2>4. CASE k = 1
    BY <1>2, <1>3, <2>1, <2>3, <2>4 DEF ToSet
  <2>5. CASE k # 1
    <3>1. PICK i \in 1..n : k = i + 1 /\ i < j
      <4>1. k - 1 \in 1..n /\ k = (k - 1) + 1 /\ k - 1 < j
        BY <2>1, <2>2, <2>5
      <4> QED
        BY <4>1
    <3>2. x = s[i]
      BY <1>3, <2>1, <3>1
    <3> QED
      BY <1>2, <2>3, <3>1, <3>2 DEF Before, UpTo
  <2> QED
    BY <2>4, <2>5
<1>5. ASSUME x = e, y \in ToSet(s) PROVE Before(r, x, y)
  <2>1. PICK j \in 1..n : y = s[j]
    BY <1>2, <1>5 DEF ToSet
  <2>2. 1 \in 1..(n + 1) /\ j + 1 \in 1..(n + 1) /\ 1 < j + 1 /\ r[j + 1] = y /\ r[1] = x
    BY <1>3, <1>5, <2>1
  <2> QED
    BY <1>2, <2>2 DEF Before, UpTo
<1>6. ASSUME Before(s, x, y) PROVE Before(r, x, y)
  <2>1. PICK i \in 1..n, j \in 1..n : i < j /\ s[i] = x /\ s[j] = y
    BY <1>2, <1>6 DEF Before, UpTo
  <2>2. /\ i + 1 \in 1..(n + 1) /\ j + 1 \in 1..(n + 1) /\ i + 1 < j + 1
        /\ r[i + 1] = x /\ r[j + 1] = y
    BY <1>3, <2>1
  <2> QED
    BY <1>2, <2>2 DEF Before, UpTo
<1> QED
  BY <1>1, <1>4, <1>5, <1>6
LEMMA NeverBoth ==
  ASSUME NEW s, Once(s), NEW x, NEW y, Before(s, x, y), DOMAIN s = 1..Len(s), Len(s) \in Nat
  PROVE  ~Before(s, y, x)
<1>1. SUFFICES ASSUME Before(s, y, x) PROVE FALSE
  OBVIOUS
<1>2. PICK k \in 1..Len(s), l \in 1..Len(s) : k < l /\ s[k] = x /\ s[l] = y
  BY DEF Before, UpTo
<1>3. PICK i \in 1..Len(s), j \in 1..Len(s) : i < j /\ s[i] = y /\ s[j] = x
  BY <1>1 DEF Before, UpTo
<1>4. x \in ToSet(s) /\ y \in ToSet(s)
  BY <1>2 DEF ToSet
<1>5. \A p, q \in 1..Len(s) : p < q => s[p] # s[q]
  BY DEF Once, Before, UpTo, ToSet
<1> QED
  BY <1>2, <1>3, <1>5

-----------------------------------------------------------------------------
(***************************************************************************)
(* What mbk_cache_update_memory takes: signals that are not locked, behind *)
(* all those that stay and are not locked, and enough of them.             *)
(***************************************************************************)
Behind(n, gone) ==
    \A v \in gone, t \in n.loaded \ gone : IsLock(n.cache, t) \/ Before(n.cache.lru, t, v)

LEMMA RoomBehind ==
  ASSUME NEW n, NetOk(n), NEW r, r = MakeRoom(n)
  PROVE  \E gone : /\ gone \subseteq n.loaded /\ r.loaded = n.loaded \ gone
                   /\ r.cache.lru = Unlink(n.cache.lru, gone)
                   /\ Behind(n, gone)
                   /\ r.cache.size < RcnMax \/ \A t \in r.loaded : IsLock(n.cache, t)
<1> DEFINE enough == {k \in 1..Len(n.cache.lru) + 1 :
                         SizeWithout(n, FromPosition(n.cache, k)) < RcnMax}
<1>1. PICK i : i = IF enough = {} THEN 1 ELSE Max(enough)
  OBVIOUS
<1>2. PICK gone : gone = FromPosition(n.cache, i)
  OBVIOUS
<1>3. r = Released(n, gone)
  BY <1>1, <1>2 DEF MakeRoom, Victims
<1>4. PICK m \in Nat : m = Len(n.cache.lru) /\ DOMAIN n.cache.lru = 1..m
  BY DEF NetOk, Sound, CacheRec
<1>5. enough \in SUBSET (1..m + 1)
  BY <1>4
<1>6. n \in NetRec /\ n.loaded = {n.cache.lru[k] : k \in 1..m} /\ Sound(n.cache)
  BY <1>4 DEF NetOk, Members, ToSet
<1>7. gone = {n.cache.lru[k] : k \in {j \in i..m : ~IsLock(n.cache, n.cache.lru[j])}}
  BY <1>2, <1>4 DEF FromPosition
<1>8. enough # {} => i \in enough
  <2>1. m + 1 \in Nat
    OBVIOUS
  <2> HIDE DEF enough
  <2>2. enough # {} => Max(enough) \in enough
    BY <1>5, <2>1, Greatest
  <2> QED
    BY <1>1, <2>2
<1>9. i \in Nat /\ i >= 1
  <2>1. CASE enough = {}
    BY <1>1, <2>1
  <2>2. CASE enough # {}
    <3>1. i \in 1..m + 1
      BY <1>5, <1>8, <2>2
    <3> QED
      BY <3>1
  <2> QED
    BY <2>1, <2>2
<1>10. enough # {} => SizeWithout(n, gone) < RcnMax
  BY <1>2, <1>8
<1> HIDE DEF enough
<1>11. gone \subseteq n.loaded
  BY <1>6, <1>7, <1>9
<1>12. /\ r.loaded = n.loaded \ gone /\ r.cache.lru = Unlink(n.cache.lru, gone)
       /\ r.cache.size = SizeWithout(n, gone)
  BY <1>3, <1>6 DEF Released, NetRec, Without
<1>13. ASSUME NEW k \in 1..m, n.cache.lru[k] \notin gone, ~IsLock(n.cache, n.cache.lru[k])
       PROVE  k < i
  BY <1>7, <1>9, <1>13
<1>14. Behind(n, gone)
  <2>1. SUFFICES ASSUME NEW v \in gone, NEW t \in n.loaded \ gone, ~IsLock(n.cache, t)
                 PROVE  Before(n.cache.lru, t, v)
    BY DEF Behind
  <2>2. PICK j \in i..m : v = n.cache.lru[j]
    BY <1>7
  <2>3. PICK k \in 1..m : t = n.cache.lru[k]
    BY <1>6
  <2>4. k < i
    BY <1>13, <2>1, <2>3
  <2>5. j \in 1..m /\ k < j
    BY <1>9, <2>4
  <2> QED
    BY <1>4, <2>2, <2>3, <2>5 DEF Before, UpTo
<1>15. ASSUME enough = {}, NEW t \in r.loaded PROVE IsLock(n.cache, t)
  <2>1. PICK k \in 1..m : t = n.cache.lru[k]
    BY <1>6, <1>12
  <2>2. i = 1
    BY <1>1, <1>15
  <2> QED
    BY <1>12, <1>13, <2>1, <2>2
<1> QED
  BY <1>10, <1>11, <1>12, <1>14, <1>15

-----------------------------------------------------------------------------
(***************************************************************************)
(* rcn_refresh_signal puts a signal before the others and leaves their     *)
(* order; what it releases is the oldest of what is not locked.  The       *)
(* signal itself is absent if it was flushed while accessed last.          *)
(***************************************************************************)
Reordered(n, r, s) ==
    /\ r.loaded \subseteq n.loaded \cup {s}
    /\ \A x, y \in Signal : Before(r.cache.lru, x, y) <=>
           /\ x \in r.loaded /\ y \in r.loaded /\ y # s
           /\ x = s \/ Before(n.cache.lru, x, y)

Oldest(n, r, s) ==
    \A v \in n.loaded \ (r.loaded \cup {s}), t \in n.loaded \cap r.loaded :
        IsLock(n.cache, t) \/ t = s \/ Before(n.cache.lru, t, v)

Below(n, s) ==
    n.cache.size - WireSize - CtcSize * Cardinality({p \in Coupling : s \in p}) < RcnMax

Roomy(n, r) ==
    \A s \in r.loaded \ n.loaded : Below(r, s) \/ \A t \in r.loaded \ {s} : IsLock(n.cache, t)

LEMMA LoadedBelow ==
  ASSUME NEW n, NetOk(n), NEW s \in Signal, s \notin n.loaded, n.cache.size < RcnMax,
         NEW r, r.cache.size = n.cache.size + (WireSize + CtcSize * Cardinality(Addable(n, s)))
  PROVE  Below(r, s)
<1> DEFINE A == Addable(n, s)
           B == {p \in Coupling : s \in p}
<1>1. A \subseteq B /\ IsFiniteSet(B)
  BY LinksFinite, FS_Subset DEF Addable
<1>2. Cardinality(A) \in Nat /\ Cardinality(B) \in Nat /\ Cardinality(A) <= Cardinality(B)
  <2> HIDE DEF A, B
  <2> QED
    BY <1>1, FS_Subset, FS_CardinalityType
<1>3. \A w, x, y \in Nat : x <= y => w * x <= w * y
  OBVIOUS
<1> HIDE DEF A, B
<1>4. CtcSize * Cardinality(A) <= CtcSize * Cardinality(B)
  BY <1>2, <1>3, RcnAssumption
<1>5. PICK x \in Int, y \in Int : x = CtcSize * Cardinality(A) /\ y = CtcSize * Cardinality(B)
  BY <1>2, RcnAssumption
<1>6. n.cache.size \in Int /\ WireSize \in Int /\ RcnMax \in Int
  BY RcnAssumption DEF NetOk, NetRec, CacheRec
<1>7. r.cache.size = n.cache.size + (WireSize + x)
  BY <1>5 DEF A
<1>8. r.cache.size - WireSize - y < RcnMax
  BY <1>4, <1>5, <1>6, <1>7
<1> QED
  BY <1>5, <1>8 DEF Below, B

LEMMA MovedFirst ==
  ASSUME NEW n, NetOk(n), NEW s \in Signal, s \in n.loaded,
         NEW r, r = Accessed(CacheRefresh(n, s), s)
  PROVE  Reordered(n, r, s) /\ r.loaded = n.loaded
<1>1. PICK q : q = n.cache.lru
  OBVIOUS
<1>2. q \in Seq(Signal) /\ ToSet(q) = n.loaded /\ n \in NetRec
  BY <1>1 DEF NetOk, Sound, CacheRec, Members
<1>3. PICK rest : rest = Unlink(q, {s})
  OBVIOUS
<1>4. rest \in Seq(Signal) /\ ToSet(rest) = n.loaded \ {s}
  BY <1>2, <1>3, Unlinked
<1>5. PICK l : l = CacheRefresh(n, s)
  OBVIOUS
<1>6. /\ l.cache.lru = <<s>> \o rest /\ l.loaded = n.loaded
      /\ l = [n EXCEPT !.cache = l.cache]
  BY <1>1, <1>2, <1>3, <1>5 DEF CacheRefresh, Has, MakeItFirst, NetRec, CacheRec
<1>7. r = [l EXCEPT !.loaded = @ \cup {s}, !.memo = s]
  BY <1>5 DEF Accessed
<1>8. r.cache.lru = <<s>> \o rest /\ r.loaded = n.loaded
  BY <1>2, <1>6, <1>7 DEF NetRec
<1>9. ASSUME NEW x \in Signal, NEW y \in Signal
      PROVE  Before(r.cache.lru, x, y) <=>
           /\ x \in r.loaded /\ y \in r.loaded /\ y # s
           /\ x = s \/ Before(n.cache.lru, x, y)
  <2>1. Before(r.cache.lru, x, y) <=> (x = s /\ y \in ToSet(rest)) \/ Before(rest, x, y)
    BY <1>4, <1>8, LinkedInOrder
  <2>2. Before(rest, x, y) <=> Before(q, x, y) /\ x # s /\ y # s
    BY <1>2, <1>3, UnlinkedInOrder
  <2>3. Before(q, x, y) => x \in n.loaded /\ y \in n.loaded
    BY <1>2, BeforeElements
  <2> QED
    BY <1>1, <1>4, <1>8, <2>1, <2>2, <2>3
<1> QED
  BY <1>8, <1>9 DEF Reordered

LEMMA LoadedFirst ==
  ASSUME NEW n, NetOk(n), NEW s \in Signal, s \notin n.loaded,
         NEW r, r = Accessed(CacheRefresh(n, s), s)
  PROVE  Reordered(n, r, s) /\ Oldest(n, r, s) /\ Roomy(n, r) /\ s \in r.loaded
<1>1. PICK q : q = n.cache.lru
  OBVIOUS
<1>2. q \in Seq(Signal) /\ ToSet(q) = n.loaded /\ n \in NetRec
  BY <1>1 DEF NetOk, Sound, CacheRec, Members
<1>3. PICK m : m = MakeRoom(n)
  OBVIOUS
<1>4. PICK gone : /\ gone \subseteq n.loaded /\ m.loaded = n.loaded \ gone
                  /\ m.cache.lru = Unlink(q, gone)
                  /\ Behind(n, gone)
                  /\ m.cache.size < RcnMax \/ \A t \in m.loaded : IsLock(n.cache, t)
  BY <1>1, <1>3, RoomBehind
<1>5. NetOk(m) /\ s \notin m.loaded
  BY <1>3, <1>4, RoomOk
<1>6. PICK rest : rest = m.cache.lru
  OBVIOUS
<1>7. rest \in Seq(Signal) /\ ToSet(rest) = m.loaded
  BY <1>2, <1>4, <1>6, Unlinked
<1>8. PICK l : l = Loaded(m, s)
  OBVIOUS
<1>9. r = Accessed(l, s)
  BY <1>1, <1>2, <1>3, <1>8 DEF CacheRefresh, Has
<1>10. /\ r.loaded = m.loaded \cup {s} /\ r.cache.lru = <<s>> \o rest
       /\ r.cache.size = m.cache.size + (WireSize + CtcSize * Cardinality(Addable(m, s)))
  <2>1. m \in NetRec
    BY <1>5 DEF NetOk
  <2>2. l.cache = Add(m.cache, s, WireSize + CtcSize * Cardinality(Addable(m, s)))
        /\ l.loaded = m.loaded /\ DOMAIN l = DOMAIN m
    BY <1>8, <2>1 DEF Loaded, NetRec
  <2>3. r.cache = l.cache /\ r.loaded = m.loaded \cup {s}
    BY <1>9, <2>1, <2>2 DEF Accessed, NetRec
  <2> QED
    BY <1>6, <2>1, <2>2, <2>3 DEF Add, NetRec, CacheRec
<1>11. Reordered(n, r, s)
  <2>1. ASSUME NEW x \in Signal, NEW y \in Signal
        PROVE  Before(r.cache.lru, x, y) <=>
             /\ x \in r.loaded /\ y \in r.loaded /\ y # s
             /\ x = s \/ Before(q, x, y)
    <3>1. Before(r.cache.lru, x, y) <=> (x = s /\ y \in ToSet(rest)) \/ Before(rest, x, y)
      BY <1>7, <1>10, LinkedInOrder
    <3>2. Before(rest, x, y) <=> Before(q, x, y) /\ x \notin gone /\ y \notin gone
      <4>1. rest = Unlink(q, gone) /\ q \in Seq(Signal)
        BY <1>2, <1>4, <1>6
      <4> QED
        BY <4>1, UnlinkedInOrder
    <3>3. Before(q, x, y) => x \in n.loaded /\ y \in n.loaded
      BY <1>2, BeforeElements
    <3> QED
      BY <1>4, <1>5, <1>7, <1>10, <3>1, <3>2, <3>3
  <2> QED
    BY <1>1, <1>4, <1>10, <2>1 DEF Reordered
<1>12. Oldest(n, r, s)
  BY <1>4, <1>10 DEF Oldest, Behind
<1>13. Roomy(n, r)
  <2>1. SUFFICES ASSUME NEW t \in r.loaded \ n.loaded
                 PROVE  Below(r, t) \/ \A u \in r.loaded \ {t} : IsLock(n.cache, u)
    BY DEF Roomy
  <2>2. t = s
    BY <1>4, <1>10, <2>1
  <2>3. CASE m.cache.size < RcnMax
    BY <1>5, <1>10, <2>2, <2>3, LoadedBelow
  <2>4. CASE \A u \in m.loaded : IsLock(n.cache, u)
    BY <1>10, <2>2, <2>4
  <2> QED
    BY <1>4, <2>3, <2>4
<1> QED
  BY <1>10, <1>11, <1>12, <1>13

(***************************************************************************)
(* A netlist in order: no signal is twice in the list, and the one of      *)
(* lastlosig, which is not moved when it is refreshed again, is first if   *)
(* it is in memory.                                                        *)
(***************************************************************************)
Ordered(n) ==
    /\ Once(n.cache.lru)
    /\ \A t \in n.loaded \ {n.memo} : n.memo \in n.loaded => Before(n.cache.lru, n.memo, t)

LEMMA RefreshOrder ==
  ASSUME NEW n, NetOk(n), Ordered(n), NEW s \in Signal, NEW r, r = RefreshSignal(n, s)
  PROVE  Reordered(n, r, s) /\ Oldest(n, r, s) /\ Roomy(n, r) /\ r.memo = s
<1>1. CASE n.memo = s
  <2>1. r = n
    BY <1>1 DEF RefreshSignal
  <2>2. n.cache.lru \in Seq(Signal) /\ ToSet(n.cache.lru) = n.loaded
    BY DEF NetOk, Sound, CacheRec, Members
  <2>3. ASSUME NEW x \in Signal, NEW y \in Signal, Before(n.cache.lru, x, y)
        PROVE  x \in n.loaded /\ y \in n.loaded /\ y # s
    <3>1. x \in n.loaded /\ y \in n.loaded
      BY <2>2, <2>3, BeforeElements
    <3>2. ASSUME y = s PROVE FALSE
      <4>1. Once(n.cache.lru)
        BY DEF Ordered
      <4>2. x # s
        BY <2>2, <2>3, <3>1, <3>2, <4>1 DEF Once
      <4>3. Before(n.cache.lru, s, x)
        BY <1>1, <3>1, <3>2, <4>2 DEF Ordered
      <4>4. DOMAIN n.cache.lru = 1..Len(n.cache.lru) /\ Len(n.cache.lru) \in Nat
        BY <2>2
      <4> QED
        BY <2>3, <3>2, <4>1, <4>3, <4>4, NeverBoth
    <3> QED
      BY <3>1, <3>2
  <2>4. ASSUME NEW y \in n.loaded, y # s, s \in n.loaded PROVE Before(n.cache.lru, s, y)
    BY <1>1, <2>4 DEF Ordered
  <2>5. Reordered(n, n, s)
    BY <2>3, <2>4 DEF Reordered
  <2> QED
    BY <1>1, <2>1, <2>5 DEF Oldest, Roomy
<1>2. CASE n.memo # s
  <2>1. r = Accessed(CacheRefresh(n, s), s)
    BY <1>2 DEF RefreshSignal, Accessed
  <2>2. r.memo = s
    BY <2>1, CacheRefreshOk
  <2>3. CASE s \in n.loaded
    <3>1. Reordered(n, r, s) /\ r.loaded = n.loaded
      BY <2>1, <2>3, MovedFirst
    <3> QED
      BY <2>2, <3>1 DEF Oldest, Roomy
  <2>4. CASE s \notin n.loaded
    BY <2>1, <2>2, <2>4, LoadedFirst
  <2> QED
    BY <2>3, <2>4
<1> QED
  BY <1>1, <1>2

LEMMA LockOrder ==
  ASSUME NEW n, NetOk(n), Ordered(n), NEW s \in Signal, NEW r, r = LockSignal(n, s)
  PROVE  Reordered(n, r, s) /\ Oldest(n, r, s) /\ Roomy(n, r) /\ r.memo = s
<1>1. PICK m : m = RefreshSignal(n, s)
  OBVIOUS
<1>2. Reordered(n, m, s) /\ Oldest(n, m, s) /\ Roomy(n, m) /\ m.memo = s
  BY <1>1, RefreshOrder
<1>3. m \in NetRec
  BY <1>1, RefreshOk DEF NetOk
<1>4. r = [m EXCEPT !.cache = Lock(m.cache, s)]
  BY <1>1, <1>3 DEF LockSignal, NetRec
<1>5. /\ r.loaded = m.loaded /\ r.memo = m.memo
      /\ r.cache.lru = m.cache.lru /\ r.cache.size = m.cache.size
  BY <1>3, <1>4 DEF Lock, NetRec, CacheRec
<1> QED
  BY <1>2, <1>5 DEF Reordered, Oldest, Roomy, Below

(***************************************************************************)
(* A signal flushed and refreshed: it is in memory again unless it is the  *)
(* one of lastlosig.                                                       *)
(***************************************************************************)
LEMMA FlushOrder ==
  ASSUME NEW n, NetOk(n), NEW s \in Signal, NEW m, m = FlushSignal(n, s)
  PROVE  /\ m.loaded \subseteq n.loaded /\ n.loaded \ m.loaded \subseteq {s}
         /\ m.cache.locks = n.cache.locks /\ m.memo = n.memo
         /\ s \notin n.loaded => m = n
         /\ \A x, y \in Signal : Before(m.cache.lru, x, y) <=>
                x \in m.loaded /\ y \in m.loaded /\ Before(n.cache.lru, x, y)
<1>1. PICK q : q = n.cache.lru
  OBVIOUS
<1>2. q \in Seq(Signal) /\ ToSet(q) = n.loaded /\ n \in NetRec
  BY <1>1 DEF NetOk, Sound, CacheRec, Members
<1>3. ASSUME NEW x, NEW y, Before(q, x, y) PROVE x \in n.loaded /\ y \in n.loaded
  BY <1>2, <1>3, BeforeElements
<1>4. CASE Releasable(n.cache, s)
  <2>1. m = Released(n, {s}) /\ s \in n.loaded
    BY <1>1, <1>2, <1>4 DEF FlushSignal, Releasable, Has
  <2>2. m.loaded = n.loaded \ {s} /\ m.memo = n.memo /\ m.cache.lru = Unlink(q, {s})
    BY <1>1, <1>2, <2>1 DEF Released, Without, NetRec
  <2>3. m.cache.locks = n.cache.locks
    BY FlushOk
  <2>4. ASSUME NEW x \in Signal, NEW y \in Signal
        PROVE  Before(m.cache.lru, x, y) <=> Before(q, x, y) /\ x # s /\ y # s
    BY <1>2, <2>2, UnlinkedInOrder
  <2> QED
    BY <1>1, <1>3, <2>1, <2>2, <2>3, <2>4
<1>5. CASE ~Releasable(n.cache, s)
  <2>1. m = n
    BY <1>5 DEF FlushSignal
  <2> QED
    BY <1>1, <1>3, <2>1
<1> QED
  BY <1>4, <1>5

LEMMA ViewOrder ==
  ASSUME NEW n, NetOk(n), Ordered(n), NEW s \in Signal,
         NEW r, r = RefreshSignal(FlushSignal(n, s), s)
  PROVE  NetOk(r) /\ Reordered(n, r, s) /\ Oldest(n, r, s) /\ Roomy(n, r) /\ r.memo = s
<1>1. PICK m : m = FlushSignal(n, s)
  OBVIOUS
<1>2. /\ m.loaded \subseteq n.loaded /\ n.loaded \ m.loaded \subseteq {s}
      /\ m.cache.locks = n.cache.locks /\ m.memo = n.memo
      /\ s \notin n.loaded => m = n
      /\ \A x, y \in Signal : Before(m.cache.lru, x, y) <=>
             x \in m.loaded /\ y \in m.loaded /\ Before(n.cache.lru, x, y)
  BY <1>1, FlushOrder
<1>3. NetOk(m)
  BY <1>1, FlushOk
<1>4. CASE n.memo = s
  <2>1. r = m /\ m.memo = s
    BY <1>1, <1>2, <1>4 DEF RefreshSignal
  <2>2. Reordered(n, n, s)
    <3>1. n = RefreshSignal(n, s)
      BY <1>4 DEF RefreshSignal
    <3> QED
      BY <3>1, RefreshOrder
  <2>3. Reordered(n, m, s)
    BY <1>2, <2>2 DEF Reordered
  <2>4. Oldest(n, m, s) /\ Roomy(n, m)
    BY <1>2 DEF Oldest, Roomy
  <2> QED
    BY <1>3, <2>1, <2>3, <2>4
<1>5. CASE n.memo # s
  <2>1. r = Accessed(CacheRefresh(m, s), s)
    BY <1>1, <1>2, <1>5 DEF RefreshSignal, Accessed
  <2>2. r.memo = s /\ NetOk(r)
    BY <1>3, <2>1, CacheRefreshOk
  <2>3. Reordered(m, r, s) /\ Oldest(m, r, s) /\ Roomy(m, r)
    <3>1. CASE s \in m.loaded
      <4>1. Reordered(m, r, s) /\ r.loaded = m.loaded
        BY <1>3, <2>1, <3>1, MovedFirst
      <4> QED
        BY <4>1 DEF Oldest, Roomy
    <3>2. CASE s \notin m.loaded
      BY <1>3, <2>1, <3>2, LoadedFirst
    <3> QED
      BY <3>1, <3>2
  <2>4. n.loaded \subseteq Signal
    BY DEF NetOk, NetRec
  <2>5. Reordered(n, r, s)
    <3>1. r.loaded \subseteq n.loaded \cup {s}
      BY <1>2, <2>3 DEF Reordered
    <3>2. ASSUME NEW x \in Signal, NEW y \in Signal
          PROVE  Before(r.cache.lru, x, y) <=>
               /\ x \in r.loaded /\ y \in r.loaded /\ y # s
               /\ x = s \/ Before(n.cache.lru, x, y)
      <4>1. Before(r.cache.lru, x, y) <=>
               /\ x \in r.loaded /\ y \in r.loaded /\ y # s
               /\ x = s \/ Before(m.cache.lru, x, y)
        BY <2>3 DEF Reordered
      <4>2. r.loaded \subseteq m.loaded \cup {s}
        BY <2>3 DEF Reordered
      <4> QED
        BY <1>2, <4>1, <4>2
    <3> QED
      BY <3>1, <3>2 DEF Reordered
  <2>6. Oldest(n, r, s)
    <3>1. SUFFICES ASSUME NEW v \in n.loaded \ (r.loaded \cup {s}),
                          NEW t \in n.loaded \cap r.loaded, t # s
                   PROVE  IsLock(n.cache, t) \/ Before(n.cache.lru, t, v)
      BY DEF Oldest
    <3>2. v \in m.loaded /\ t \in m.loaded
      <4>1. t \in m.loaded \cup {s}
        BY <2>3, <3>1 DEF Reordered
      <4> QED
        BY <1>2, <3>1, <4>1
    <3>3. IsLock(m.cache, t) \/ Before(m.cache.lru, t, v)
      BY <2>3, <3>1, <3>2 DEF Oldest
    <3>4. IsLock(m.cache, t) <=> IsLock(n.cache, t)
      <4>1. Has(m.cache, t) /\ Has(n.cache, t)
        BY <1>3, <3>2 DEF NetOk, Members, Has
      <4> QED
        BY <1>2, <4>1 DEF IsLock
    <3> QED
      BY <1>2, <2>4, <3>2, <3>3, <3>4
  <2>7. Roomy(n, r)
    <3>1. CASE s \in n.loaded
      <4>1. r.loaded \ n.loaded = {}
        BY <2>5, <3>1 DEF Reordered
      <4> QED
        BY <4>1 DEF Roomy
    <3>2. CASE s \notin n.loaded
      BY <1>2, <2>3, <3>2
    <3> QED
      BY <3>1, <3>2
  <2> QED
    BY <1>3, <2>2, <2>5, <2>6, <2>7
<1> QED
  BY <1>4, <1>5

-----------------------------------------------------------------------------
(***************************************************************************)
(* The list of the cache is in the order of the accesses: first the signal *)
(* of lastlosig, then the others as the clients accessed them.             *)
(***************************************************************************)
Agree(q, n) == /\ q \in Seq(Signal) /\ ToSet(q) = n.loaded /\ Once(q)
               /\ \A x, y \in Signal : Before(q, x, y) <=> Before(n.cache.lru, x, y)

Order == Ordered(net) /\ Agree(used, net)

LEMMA OrderInit ==
  ASSUME Init
  PROVE  Order
<1>1. /\ net.cache.lru = <<>> /\ net.loaded = {} /\ net.memo = NoSignal
      /\ used = <<>>
  BY DEF Init, EmptyNet, EmptyCache
<1>2. ToSet(<<>>) = {} /\ \A x, y : ~Before(<<>>, x, y)
  BY DEF ToSet, Before, UpTo
<1>3. <<>> \in Seq(Signal)
  OBVIOUS
<1>4. Once(<<>>)
  BY <1>2 DEF Once
<1>5. Ordered(net)
  BY <1>1, <1>4, RcnAssumption DEF Ordered
<1>6. Agree(used, net)
  BY <1>1, <1>2, <1>3, <1>4 DEF Agree
<1> QED
  BY <1>5, <1>6 DEF Order

LEMMA ReorderedOrdered ==
  ASSUME NEW n, NetOk(n), Ordered(n), NEW r, NetOk(r), NEW s \in Signal,
         Reordered(n, r, s), r.memo = s
  PROVE  Ordered(r)
<1>1. /\ ToSet(r.cache.lru) = r.loaded /\ ToSet(n.cache.lru) = n.loaded
      /\ r.loaded \subseteq Signal /\ n.cache.lru \in Seq(Signal)
  BY DEF NetOk, Sound, CacheRec, NetRec, Members
<1>2. ASSUME NEW x \in r.loaded, Before(r.cache.lru, x, x) PROVE FALSE
  <2>1. x # s /\ Before(n.cache.lru, x, x)
    BY <1>1, <1>2 DEF Reordered
  <2>2. x \in n.loaded
    BY <1>1, <2>1, BeforeElements
  <2> QED
    BY <1>1, <2>1, <2>2 DEF Ordered, Once
<1>3. Once(r.cache.lru)
  BY <1>1, <1>2 DEF Once
<1>4. \A t \in r.loaded \ {s} : s \in r.loaded => Before(r.cache.lru, s, t)
  BY <1>1 DEF Reordered
<1> QED
  BY <1>3, <1>4 DEF Ordered, Reordered

Pushed(q, s, list) == Unlink(<<s>> \o Unlink(q, {s}), Signal \ ToSet(list))

LEMMA AccessAgrees ==
  ASSUME NEW n, NetOk(n), NEW q, Agree(q, n), NEW r, NetOk(r), NEW s \in Signal,
         Reordered(n, r, s),
         NEW u, u = Pushed(q, s, r.cache.lru)
  PROVE  Agree(u, r)
<1>1. q \in Seq(Signal) /\ ToSet(q) = n.loaded
      /\ \A x, y \in Signal : Before(q, x, y) <=> Before(n.cache.lru, x, y)
  BY DEF Agree
<1>2. ToSet(r.cache.lru) = r.loaded /\ r.loaded \subseteq Signal
      /\ r.loaded \subseteq n.loaded \cup {s}
  BY DEF NetOk, NetRec, Members, Reordered
<1>3. PICK rest : rest = Unlink(q, {s})
  OBVIOUS
<1>4. rest \in Seq(Signal) /\ ToSet(rest) = n.loaded \ {s}
  BY <1>1, <1>3, Unlinked
<1>5. PICK all : all = <<s>> \o rest
  OBVIOUS
<1>6. all \in Seq(Signal) /\ ToSet(all) = {s} \cup ToSet(rest)
  BY <1>4, <1>5, Linked
<1>7. PICK gone : gone = Signal \ r.loaded
  OBVIOUS
<1>8. u = Unlink(all, gone)
  BY <1>2, <1>3, <1>5, <1>7 DEF Pushed
<1>9. u \in Seq(Signal) /\ ToSet(u) = ToSet(all) \ gone
  BY <1>6, <1>8, Unlinked
<1>10. ToSet(u) = r.loaded
  <2>1. n.loaded \subseteq Signal
    BY DEF NetOk, NetRec
  <2> QED
    BY <1>2, <1>4, <1>6, <1>7, <1>9, <2>1
<1>11. ASSUME NEW x \in Signal, NEW y \in Signal
       PROVE  Before(u, x, y) <=> Before(r.cache.lru, x, y)
  <2>1. Before(u, x, y) <=> Before(all, x, y) /\ x \notin gone /\ y \notin gone
    <3>1. all \in Seq(Signal)
      BY <1>6
    <3>2. Before(Unlink(all, gone), x, y) <=> Before(all, x, y) /\ x \notin gone /\ y \notin gone
      BY <3>1, UnlinkedInOrder
    <3> QED
      BY <1>8, <3>2
  <2>2. Before(all, x, y) <=> (x = s /\ y \in ToSet(rest)) \/ Before(rest, x, y)
    BY <1>4, <1>5, LinkedInOrder
  <2>3. Before(rest, x, y) <=> Before(q, x, y) /\ x # s /\ y # s
    BY <1>1, <1>3, UnlinkedInOrder
  <2>4. Before(r.cache.lru, x, y) <=>
             /\ x \in r.loaded /\ y \in r.loaded /\ y # s
             /\ x = s \/ Before(n.cache.lru, x, y)
    BY DEF Reordered
  <2> QED
    BY <1>1, <1>2, <1>4, <1>7, <2>1, <2>2, <2>3, <2>4
<1>12. Once(u)
  <2>1. SUFFICES ASSUME NEW x \in r.loaded, Before(u, x, x) PROVE FALSE
    BY <1>10 DEF Once
  <2>2. x \in Signal
    BY <1>2
  <2>3. x # s /\ Before(n.cache.lru, x, x)
    BY <1>11, <2>1, <2>2 DEF Reordered
  <2>4. Before(q, x, x)
    BY <1>1, <2>2, <2>3
  <2>5. x \in ToSet(q)
    BY <1>1, <2>4, BeforeElements
  <2> QED
    BY <2>4, <2>5 DEF Agree, Once
<1> QED
  BY <1>9, <1>10, <1>11, <1>12 DEF Agree

Placed(s, n) == /\ Reordered(net, n, s) /\ Oldest(net, n, s) /\ Roomy(net, n)
                /\ n.memo = s

LEMMA AccessPlaced ==
  ASSUME NetOk(net), Order, NEW s \in Signal, NEW n, NetOk(n), Placed(s, n), Access(s, n)
  PROVE  Order'
<1>1. Ordered(net) /\ Agree(used, net) /\ net' = n /\ used' = Pushed(used, s, n.cache.lru)
  BY DEF Order, Access, Pushed
<1>2. Reordered(net, n, s) /\ n.memo = s
  BY DEF Placed
<1>3. Ordered(n)
  BY <1>1, <1>2, ReorderedOrdered
<1>4. PICK q : q = used
  OBVIOUS
<1>5. PICK u : u = Pushed(q, s, n.cache.lru)
  OBVIOUS
<1>6. Agree(u, n)
  BY <1>1, <1>2, <1>4, <1>5, AccessAgrees
<1> QED
  BY <1>1, <1>3, <1>4, <1>5, <1>6 DEF Order, Ordered, Agree

(***************************************************************************)
(* An unlock changes no list.                                              *)
(***************************************************************************)
LEMMA UnlockOrder ==
  ASSUME NetOk(net), Order, NEW s, net' = UnlockSignal(net, s), used' = used
  PROVE  Order' /\ net'.loaded = net.loaded
<1>1. net \in NetRec
  BY DEF NetOk
<1>2. net' = [net EXCEPT !.cache = Unlock(net.cache, s)]
  BY <1>1 DEF UnlockSignal, NetRec
<1>3. /\ net'.loaded = net.loaded /\ net'.memo = net.memo
      /\ net'.cache.lru = net.cache.lru
  BY <1>1, <1>2 DEF Unlock, NetRec, CacheRec
<1> QED
  BY <1>3 DEF Order, Ordered, Agree

(***************************************************************************)
(* A step is an access, or leaves what is loaded and its order.            *)
(***************************************************************************)
LEMMA OrderStep ==
  ASSUME NetSound, Order, [Next]_vars
  PROVE  /\ Order'
         /\ net'.loaded # net.loaded => \E s \in Signal : Placed(s, net')
<1>1. NetOk(net) /\ LoadOk /\ Ordered(net)
  BY DEF NetSound, Order
<1>2. ASSUME NEW s \in Signal, NEW n, NetOk(n), Placed(s, n), Access(s, n)
      PROVE  Order' /\ \E t \in Signal : Placed(t, net')
  <2>1. net' = n
    BY <1>2 DEF Access
  <2> QED
    BY <1>1, <1>2, <2>1, AccessPlaced
<1>3. ASSUME NEW s \in Signal, Touch(s) PROVE Order' /\ \E t \in Signal : Placed(t, net')
  <2>1. PICK n : n = RefreshSignal(net, s)
    OBVIOUS
  <2>2. NetOk(n) /\ Placed(s, n)
    BY <1>1, <2>1, RefreshOk, RefreshOrder DEF Placed
  <2>3. Access(s, n)
    BY <1>3, <2>1 DEF Touch
  <2> QED
    BY <1>2, <2>2, <2>3
<1>4. ASSUME NEW s \in Signal, Hold(s) \/ \E pin \in Pin : Compute(s, pin)
      PROVE  Order' /\ \E t \in Signal : Placed(t, net')
  <2>1. PICK n : n = LockSignal(net, s)
    OBVIOUS
  <2>2. NetOk(n) /\ Placed(s, n)
    BY <1>1, <2>1, LockOk, LockOrder DEF Placed
  <2>3. Access(s, n)
    BY <1>4, <2>1 DEF Hold, Compute
  <2> QED
    BY <1>2, <2>2, <2>3
<1>5. ASSUME NEW s \in Signal, View(s) PROVE Order' /\ \E t \in Signal : Placed(t, net')
  <2>1. PICK n : n = RefreshSignal(FlushSignal(net, s), s)
    OBVIOUS
  <2>2. Access(s, n)
    BY <1>5, <2>1 DEF View
  <2>3. NetOk(n) /\ Placed(s, n)
    BY <1>1, <2>1, ViewOrder DEF Placed
  <2> QED
    BY <1>2, <2>2, <2>3
<1>6. ASSUME NEW s \in Signal, Drop(s) PROVE Order' /\ net'.loaded = net.loaded
  <2>1. net' = UnlockSignal(net, s) /\ used' = used
    BY <1>6 DEF Drop
  <2> QED
    BY <1>1, <2>1, UnlockOrder
<1>7. ASSUME NEW stored \in BOOLEAN, Finish(stored) PROVE Order' /\ net'.loaded = net.loaded
  <2>1. net' = UnlockSignal(net, load.sig) /\ used' = used
    BY <1>7 DEF Finish
  <2> QED
    BY <1>1, <2>1, UnlockOrder
<1>8. CASE UNCHANGED <<net, used>>
  BY <1>8 DEF Order, Ordered, Agree
<1> QED
  BY <1>3, <1>4, <1>5, <1>6, <1>7, <1>8
  DEF Next, vars, Found, BeginCrosstalk, FlushDelays, EndCrosstalk, Toggle

LEMMA Positions ==
  ASSUME NEW x, NEW y, used \in Seq(Signal), Once(used), Before(used, x, y)
  PROVE  Position(x) < Position(y)
<1>1. PICK n \in Nat : n = Len(used) /\ DOMAIN used = 1..n
  OBVIOUS
<1>2. PICK k \in 1..n, l \in 1..n : k < l /\ used[k] = x /\ used[l] = y
  BY <1>1 DEF Before, UpTo
<1>3. \A i, j \in 1..n : i < j => used[i] # used[j]
  BY <1>1 DEF Once, Before, UpTo, ToSet
<1>4. ASSUME NEW i \in 1..n, NEW z, used[i] = z PROVE Position(z) = i
  <2>1. {j \in 1..Len(used) : used[j] = z} = {i}
    BY <1>1, <1>3, <1>4
  <2>2. Position(z) = Min({i})
    BY <2>1 DEF Position, SelectInSeq
  <2>3. Min({i}) = i
    BY DEF Min
  <2> QED
    BY <2>2, <2>3
<1>5. Position(x) = k /\ Position(y) = l
  BY <1>2, <1>4
<1> QED
  BY <1>2, <1>5

(***************************************************************************)
(* When room is made, the signals released are older than those that stay  *)
(* and are not locked, and enough are released, for any signals, sizes and *)
(* limit: the list is in the order of the accesses although rcn_lock and   *)
(* the load of a delay keep signals in it that are not moved, and although *)
(* the signal of lastlosig, which is not moved either, may be flushed.     *)
(***************************************************************************)
THEOREM OldestReleased == Spec => RoomFromOldest
<1>1. Init => Order
  BY OrderInit
<1>2. NetSound /\ Order /\ [Next]_vars => Order'
  BY OrderStep
<1>3. NetSound /\ Order /\ [Next]_vars => [OldestGoFirst /\ EnoughGo]_vars
  <2>1. SUFFICES ASSUME NetSound, Order, [Next]_vars PROVE OldestGoFirst /\ EnoughGo
    OBVIOUS
  <2>2. CASE net'.loaded = net.loaded
    BY <2>2 DEF OldestGoFirst, EnoughGo
  <2>3. CASE net'.loaded # net.loaded
    <3>1. PICK s \in Signal : Placed(s, net')
      BY <2>1, <2>3, OrderStep
    <3>2. EnoughGo
      BY <3>1 DEF Placed, Roomy, Below, EnoughGo
    <3>3. OldestGoFirst
      <4>1. SUFFICES ASSUME NEW v \in net.loaded \ (net'.loaded \cup {net'.memo}),
                            NEW t \in net.loaded \cap net'.loaded,
                            ~IsLock(net.cache, t), t # net'.memo
                     PROVE  Position(t) < Position(v)
        BY DEF OldestGoFirst
      <4>2. Before(net.cache.lru, t, v)
        BY <3>1, <4>1 DEF Placed, Oldest
      <4>3. net.loaded \subseteq Signal
        BY <2>1 DEF NetSound, NetOk, NetRec
      <4>4. used \in Seq(Signal) /\ Once(used) /\ Before(used, t, v)
        BY <2>1, <4>2, <4>3 DEF Order, Agree
      <4> QED
        BY <4>4, Positions
    <3> QED
      BY <3>2, <3>3
  <2> QED
    BY <2>2, <2>3
<1> QED
  BY <1>1, <1>2, <1>3, NetSoundAlways, PTL DEF Spec, RoomFromOldest

=============================================================================
