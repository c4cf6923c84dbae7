---------------------------- MODULE SchedulerProofs ----------------------------
(***************************************************************************)
(* The two indexes of the scheduler agree and it implements the event      *)
(* queue, for any number of objects, any delays, any size of the tables,   *)
(* and dates below the horizon of the tables where it matters.             *)
(***************************************************************************)
EXTENDS MCScheduler, FiniteSetTheorems, WellFoundedInduction, TLAPS

LEMMA Least ==
  ASSUME NEW S, S \subseteq Nat, S # {}
  PROVE  \E x \in S : \A y \in S : x <= y
<1> DEFINE R == OpToRel(<, Nat)
<1>1. \A x, y \in Nat : y < x => <<y, x>> \in R
  BY DEF OpToRel
<1>2. IsWellFoundedOn(R, Nat)
  BY NatLessThanWellFounded
<1> HIDE DEF R
<1>3. \E x \in S : \A y \in S : <<y, x>> \notin R
  BY <1>2, WFMin
<1>4. PICK x \in S : \A y \in S : <<y, x>> \notin R
  BY <1>3
<1>5. \A y \in S : ~(y < x)
  BY <1>1, <1>4
<1> QED
  BY <1>5

LEMMA MinIsLeast ==
  ASSUME NEW S, S \subseteq Nat, S # {}
  PROVE  Min(S) \in S /\ \A y \in S : Min(S) <= y
BY Least DEF Min

-----------------------------------------------------------------------------
(***************************************************************************)
(* Division with remainder, and the place of a date in the tables.         *)
(***************************************************************************)
LEMMA Division ==
  ASSUME NEW a \in Nat, NEW n \in Nat \ {0}
  PROVE  a \div n \in Nat /\ a % n \in 0..n-1 /\ a = n * (a \div n) + (a % n)
OBVIOUS

LEMMA Multiples ==
  ASSUME NEW n \in Nat, NEW x \in Int, NEW y \in Int, x < y
  PROVE  n * x + n <= n * y
<1>1. n * (y - x) >= n
  OBVIOUS
<1> QED
  BY <1>1

LEMMA DivisionIs ==
  ASSUME NEW a \in Nat, NEW n \in Nat \ {0}, NEW q \in Int, NEW r \in 0..n-1, a = n * q + r
  PROVE  a \div n = q /\ a % n = r
<1> DEFINE k == a \div n
           m == a % n
<1>1. k \in Int /\ m \in 0..n-1 /\ n * k + m = n * q + r
  BY Division
<1> HIDE DEF k, m
<1>2. ~(k < q) /\ ~(q < k)
  BY <1>1, Multiples
<1>3. k = q
  BY <1>1, <1>2
<1> QED
  BY <1>1, <1>3 DEF k, m

LEMMA DivisionGrows ==
  ASSUME NEW n \in Nat \ {0}, NEW a \in Nat, NEW b \in Nat, a <= b
  PROVE  a \div n <= b \div n
<1> DEFINE k == a \div n
           l == b \div n
<1>1. k \in Nat /\ l \in Nat /\ n * k <= a /\ b < n * l + n
  BY Division
<1> HIDE DEF k, l
<1>2. ~(l < k)
  BY <1>1, Multiples
<1> QED
  BY <1>1, <1>2 DEF k, l

LEMMA Place ==
  ASSUME NEW d \in Nat
  PROVE  Page(d) \in 0..Pages-1 /\ Bucket(d) \in 0..Buckets-1
<1>1. Buckets * Grain \in Nat \ {0}
  BY SizeAssumption
<1>2. d \div (Buckets * Grain) \in Nat /\ d \div Grain \in Nat
  BY <1>1, SizeAssumption, Division
<1> QED
  BY <1>2, SizeAssumption, Division DEF Page, Bucket

(***************************************************************************)
(* Below the horizon, the tables read one after the other are one table of *)
(* which each date has the entry date \div Grain.                          *)
(***************************************************************************)
LEMMA Entry ==
  ASSUME NEW d \in Nat, d < Horizon
  PROVE  LET i == d \div Grain
         IN  /\ i \in 0..Pages * Buckets - 1
             /\ i = Page(d) * Buckets + Bucket(d)
             /\ i \div Buckets = Page(d) /\ i % Buckets = Bucket(d)
<1> DEFINE q == d \div Grain
           r == d % Grain
           p == q \div Buckets
           b == q % Buckets
           n == Buckets * Grain
<1>0. /\ Pages \in Nat \ {0} /\ Buckets \in Nat \ {0} /\ Grain \in Nat \ {0}
      /\ n \in Nat \ {0} /\ d < Pages * n
  BY SizeAssumption DEF Horizon
<1>1. q \in Nat /\ r \in 0..Grain-1 /\ d = Grain * q + r
  BY <1>0, Division
<1>2. p \in Nat /\ b \in 0..Buckets-1 /\ q = Buckets * p + b
  BY <1>0, <1>1, Division
<1>3. b = q % Buckets /\ Bucket(d) = q % Buckets /\ Page(d) = (d \div n) % Pages
  BY DEF Bucket, Page
<1> HIDE DEF q, r, p, b
<1>4. d = n * p + (Grain * b + r)
  BY <1>0, <1>1, <1>2
<1>5. Grain * b + r \in 0..n-1
  <2>1. Grain * b + Grain <= Grain * Buckets
    BY <1>0, <1>2, Multiples
  <2>2. Grain * b \in Nat /\ n = Grain * Buckets
    BY <1>0, <1>2
  <2> QED
    BY <2>1, <2>2, <1>0, <1>1
<1> HIDE DEF n
<1>6. d \div n = p
  BY <1>0, <1>2, <1>4, <1>5, DivisionIs
<1>7. p < Pages
  <2>1. n * p <= d
    BY <1>0, <1>2, <1>4, <1>5
  <2>2. ~(Pages <= p)
    <3>1. Pages < p => n * Pages + n <= n * p
      BY <1>0, <1>2, Multiples
    <3> QED
      BY <1>0, <1>2, <2>1, <3>1
  <2> QED
    BY <1>0, <1>2, <2>2
<1>8. Page(d) = p
  BY <1>0, <1>2, <1>3, <1>6, <1>7
<1>9. Buckets * p + b < Buckets * Pages
  BY <1>0, <1>2, <1>7, Multiples
<1>10. q \in 0..Pages * Buckets - 1 /\ q = Page(d) * Buckets + Bucket(d)
  BY <1>0, <1>1, <1>2, <1>3, <1>8, <1>9
<1>11. q \div Buckets = p
  BY DEF p
<1> QED
  BY <1>3, <1>8, <1>10, <1>11 DEF q
-----------------------------------------------------------------------------
(***************************************************************************)
(* What Remaining returns.  The recursive function it is made of exists:   *)
(* the least length for which it would not is one more than a length for   *)
(* which it does.                                                          *)
(***************************************************************************)
Turn(s, gone, f, i) == IF i = 0 THEN <<>>
                       ELSE IF s[i] \in gone THEN f[i - 1] ELSE Append(f[i - 1], s[i])

Goes(s, gone, f, n) == f = [i \in 0..n |-> Turn(s, gone, f, i)]

LEMMA KeptExists ==
  ASSUME NEW S, NEW s \in Seq(S), NEW gone, NEW m \in Nat
  PROVE  \E f : Goes(s, gone, f, m)
<1> DEFINE None == {n \in Nat : ~ \E f : Goes(s, gone, f, n)}
<1>1. SUFFICES ASSUME None # {} PROVE FALSE
  OBVIOUS
<1>2. PICK n \in None : \A k \in None : n <= k
  <2> HIDE DEF None
  <2>1. None \subseteq Nat
    BY DEF None
  <2> QED
    BY <2>1, <1>1, Least
<1>3. n # 0
  <2> DEFINE f == [i \in 0..0 |-> <<>>]
  <2>1. Goes(s, gone, f, 0)
    BY DEF Goes, Turn
  <2> QED
    BY <2>1
<1>4. n \in Nat \ {0} /\ n - 1 \in Nat /\ n - 1 \notin None
  <2> HIDE DEF None
  <2>1. n \in Nat
    BY DEF None
  <2> QED
    BY <1>2, <1>3, <2>1
<1>5. PICK f : Goes(s, gone, f, n - 1)
  BY <1>4
<1> DEFINE g == [i \in 0..n |-> IF i = n THEN Turn(s, gone, f, n) ELSE f[i]]
<1>6. \A i \in 0..n-1 : f[i] = Turn(s, gone, f, i)
  BY <1>5 DEF Goes
<1>7. \A i \in 0..n : g[i] = Turn(s, gone, g, i)
  BY <1>4, <1>6 DEF Turn
<1>8. Goes(s, gone, g, n)
  <2> HIDE DEF g
  <2>1. g = [i \in 0..n |-> g[i]]
    BY DEF g
  <2> QED
    BY <1>7, <2>1 DEF Goes
<1> QED
  BY <1>2, <1>8

LEMMA KeptIs ==
  ASSUME NEW S, NEW s \in Seq(S), NEW gone
  PROVE  \E f : /\ Remaining(s, gone) = f[Len(s)]
                /\ \A i \in 0..Len(s) : f[i] = Turn(s, gone, f, i)
<1> DEFINE g == CHOOSE f : Goes(s, gone, f, Len(s))
<1>1. Remaining(s, gone) = g[Len(s)]
  BY DEF Remaining, Goes, Turn
<1>2. \E f : Goes(s, gone, f, Len(s))
  BY KeptExists
<1>3. Goes(s, gone, g, Len(s))
  BY <1>2
<1> HIDE DEF g
<1>4. \A i \in 0..Len(s) : g[i] = Turn(s, gone, g, i)
  BY <1>3 DEF Goes
<1> QED
  BY <1>1, <1>4

(***************************************************************************)
(* r has what the first n elements of s have, but those gone, in order.    *)
(***************************************************************************)
Keeps(S, s, gone, n, r) ==
    /\ r \in Seq(S)
    /\ \A a \in 1..Len(r) : r[a] \notin gone /\ \E k \in 1..n : r[a] = s[k]
    /\ \A k \in 1..n : s[k] \notin gone => \E a \in 1..Len(r) : r[a] = s[k]
    /\ \A a, b \in 1..Len(r) : a < b =>
           \E k, l \in 1..n : k < l /\ r[a] = s[k] /\ r[b] = s[l]

LEMMA KeepsMore ==
  ASSUME NEW S, NEW s \in Seq(S), NEW gone, NEW n \in 1..Len(s), NEW q,
         Keeps(S, s, gone, n - 1, q)
  PROVE  Keeps(S, s, gone, n, IF s[n] \in gone THEN q ELSE Append(q, s[n]))
<1>1. n \in Nat \ {0} /\ s[n] \in S /\ q \in Seq(S) /\ Len(q) \in Nat
  BY DEF Keeps
<1>2. 1..n-1 \subseteq 1..n /\ n \in 1..n /\ (\A k \in 1..n : k = n \/ k \in 1..n-1)
  BY <1>1
<1>3. CASE s[n] \in gone
  BY <1>1, <1>2, <1>3 DEF Keeps
<1>4. CASE s[n] \notin gone
  <2> DEFINE r == Append(q, s[n])
             top == Len(q) + 1
  <2>1. /\ r \in Seq(S) /\ 1..Len(r) = 1..top /\ top \in 1..top
        /\ \A a \in 1..Len(q) : r[a] = q[a] /\ a \in 1..top
        /\ \A a \in 1..top : a = top \/ a \in 1..Len(q)
        /\ r[top] = s[n]
    BY <1>1
  <2> HIDE DEF r, top
  <2>2. \A a \in 1..Len(r) : r[a] \notin gone /\ \E k \in 1..n : r[a] = s[k]
    BY <1>2, <1>4, <2>1 DEF Keeps
  <2>3. \A k \in 1..n : s[k] \notin gone => \E a \in 1..Len(r) : r[a] = s[k]
    BY <1>2, <2>1 DEF Keeps
  <2>4. ASSUME NEW a \in 1..Len(r), NEW b \in 1..Len(r), a < b
        PROVE  \E k, l \in 1..n : k < l /\ r[a] = s[k] /\ r[b] = s[l]
    <3>1. CASE b = top
      <4>1. a \in 1..Len(q)
        BY <1>1, <2>1, <2>4, <3>1 DEF top
      <4>2. PICK k \in 1..n-1 : r[a] = s[k]
        BY <2>1, <4>1 DEF Keeps
      <4> QED
        BY <1>1, <1>2, <2>1, <3>1, <4>2
    <3>2. CASE b # top
      <4>1. a \in 1..Len(q) /\ b \in 1..Len(q)
        BY <1>1, <2>1, <2>4, <3>2 DEF top
      <4>2. PICK k \in 1..n-1, l \in 1..n-1 : k < l /\ q[a] = s[k] /\ q[b] = s[l]
        BY <2>4, <4>1 DEF Keeps
      <4> QED
        BY <1>2, <2>1, <4>1, <4>2
    <3> QED
      BY <3>1, <3>2
  <2>5. Keeps(S, s, gone, n, r)
    BY <2>1, <2>2, <2>3, <2>4 DEF Keeps
  <2> QED
    BY <1>4, <2>5 DEF r
<1> QED
  BY <1>3, <1>4

LEMMA RemainingKeeps ==
  ASSUME NEW S, NEW s \in Seq(S), NEW gone
  PROVE  Keeps(S, s, gone, Len(s), Remaining(s, gone))
<1>1. PICK f : /\ Remaining(s, gone) = f[Len(s)]
               /\ \A i \in 0..Len(s) : f[i] = Turn(s, gone, f, i)
  BY KeptIs
<1> DEFINE Bad == {n \in 0..Len(s) : ~Keeps(S, s, gone, n, f[n])}
<1>2. SUFFICES ASSUME Bad # {} PROVE FALSE
  BY <1>1
<1>3. PICK n \in Bad : \A k \in Bad : n <= k
  <2> HIDE DEF Bad
  <2>1. Bad \subseteq Nat
    BY DEF Bad
  <2> QED
    BY <2>1, <1>2, Least
<1>4. n # 0
  <2>1. 0 \in 0..Len(s) /\ f[0] = <<>>
    BY <1>1 DEF Turn
  <2>2. Keeps(S, s, gone, 0, f[0])
    BY <2>1 DEF Keeps
  <2> QED
    BY <2>2
<1>5. n \in 1..Len(s) /\ Keeps(S, s, gone, n - 1, f[n - 1])
  BY <1>3, <1>4
<1>6. f[n] = IF s[n] \in gone THEN f[n - 1] ELSE Append(f[n - 1], s[n])
  BY <1>1, <1>5 DEF Turn
<1>7. Keeps(S, s, gone, n, f[n])
  BY <1>5, <1>6, KeepsMore
<1> QED
  BY <1>7

LEMMA RemainingIs ==
  ASSUME NEW S, NEW s \in Seq(S), NEW gone
  PROVE  /\ Remaining(s, gone) \in Seq(S)
         /\ ToSet(Remaining(s, gone)) = ToSet(s) \ gone
         /\ \A a, b \in DOMAIN Remaining(s, gone) : a < b =>
                \E k, l \in DOMAIN s :
                    k < l /\ Remaining(s, gone)[a] = s[k] /\ Remaining(s, gone)[b] = s[l]
<1> DEFINE r == Remaining(s, gone)
<1>1. Keeps(S, s, gone, Len(s), r)
  BY RemainingKeeps
<1> HIDE DEF r
<1>2. r \in Seq(S) /\ DOMAIN r = 1..Len(r) /\ DOMAIN s = 1..Len(s)
  BY <1>1 DEF Keeps
<1>3. ToSet(r) = ToSet(s) \ gone
  <2>1. ASSUME NEW x \in ToSet(r) PROVE x \in ToSet(s) \ gone
    BY <1>1, <1>2, <2>1 DEF Keeps, ToSet
  <2>2. ASSUME NEW x \in ToSet(s) \ gone PROVE x \in ToSet(r)
    <3>1. PICK k \in 1..Len(s) : x = s[k]
      BY <1>2, <2>2 DEF ToSet
    <3>2. PICK a \in 1..Len(r) : r[a] = s[k]
      BY <1>1, <2>2, <3>1 DEF Keeps
    <3> QED
      BY <1>2, <3>1, <3>2 DEF ToSet
  <2> QED
    BY <2>1, <2>2
<1>4. \A a, b \in DOMAIN r : a < b => \E k, l \in DOMAIN s : k < l /\ r[a] = s[k] /\ r[b] = s[l]
  <2>1. \A a, b \in 1..Len(r) : a < b => \E k, l \in 1..Len(s) : k < l /\ r[a] = s[k] /\ r[b] = s[l]
    BY <1>1 DEF Keeps
  <2>2. ASSUME NEW a \in 1..Len(r), NEW b \in 1..Len(r), a < b
        PROVE  \E k, l \in DOMAIN s : k < l /\ r[a] = s[k] /\ r[b] = s[l]
    <3>1. PICK k \in 1..Len(s), l \in 1..Len(s) : k < l /\ r[a] = s[k] /\ r[b] = s[l]
      BY <2>1, <2>2
    <3> QED
      BY <1>2, <3>1
  <2> QED
    BY <1>2, <2>2
<1> QED
  BY <1>2, <1>3, <1>4 DEF r
-----------------------------------------------------------------------------
(***************************************************************************)
(* Sequences without repetition, and those in decreasing order of dates.   *)
(***************************************************************************)
Distinct(s) == \A i, j \in DOMAIN s : s[i] = s[j] => i = j

Descends(s) == \A i, j \in DOMAIN s : i < j => s[i].date > s[j].date

LEMMA Lengths ==
  ASSUME NEW S, NEW s \in Seq(S), Distinct(s)
  PROVE  IsFiniteSet(ToSet(s)) /\ Cardinality(ToSet(s)) = Len(s)
<1>1. Len(s) \in Nat /\ DOMAIN s = 1..Len(s) /\ IsFiniteSet(1..Len(s))
      /\ Cardinality(1..Len(s)) = Len(s)
  <2>1. Len(s) \in Nat /\ DOMAIN s = 1..Len(s)
    OBVIOUS
  <2> QED
    BY <2>1, FS_Interval
<1> DEFINE f == [i \in 1..Len(s) |-> s[i]]
<1>2. f \in Surjection(1..Len(s), ToSet(s))
  BY <1>1 DEF Surjection, ToSet
<1>3. f \in Injection(1..Len(s), ToSet(s))
  <2>1. \A a, b \in 1..Len(s) : f[a] = f[b] => a = b
    BY <1>1 DEF Distinct
  <2>2. f \in [1..Len(s) -> ToSet(s)]
    BY <1>2 DEF Surjection
  <2> HIDE DEF f
  <2> QED
    BY <2>1, <2>2 DEF Injection, IsInjective
<1> HIDE DEF f
<1> QED
  BY <1>1, <1>2, <1>3, FS_Surjection

LEMMA DistinctRemaining ==
  ASSUME NEW S, NEW s \in Seq(S), NEW gone, Distinct(s)
  PROVE  Distinct(Remaining(s, gone))
<1> DEFINE r == Remaining(s, gone)
<1>1. /\ r \in Seq(S)
      /\ \A a, b \in DOMAIN r : a < b => \E k, l \in DOMAIN s : k < l /\ r[a] = s[k] /\ r[b] = s[l]
  BY RemainingIs
<1> HIDE DEF r
<1>2. \A a, b \in DOMAIN r : a < b => r[a] # r[b]
  BY <1>1 DEF Distinct
<1>3. DOMAIN r \subseteq Int
  BY <1>1
<1>4. Distinct(r)
  BY <1>2, <1>3 DEF Distinct
<1> QED
  BY <1>4 DEF r

LEMMA DescendsRemaining ==
  ASSUME NEW S, NEW s \in Seq(S), NEW gone, Descends(s)
  PROVE  Descends(Remaining(s, gone))
<1> DEFINE r == Remaining(s, gone)
<1>1. \A a, b \in DOMAIN r : a < b => \E k, l \in DOMAIN s : k < l /\ r[a] = s[k] /\ r[b] = s[l]
  BY RemainingIs
<1> HIDE DEF r
<1>2. Descends(r)
  BY <1>1 DEF Descends
<1> QED
  BY <1>2 DEF r

LEMMA DescendsDistinct ==
  ASSUME NEW s \in Seq(Transaction), Descends(s)
  PROVE  Distinct(s)
<1>1. DOMAIN s \subseteq Int /\ \A i \in DOMAIN s : s[i] \in Transaction
  OBVIOUS
<1>2. \A t \in Transaction : t.date \in Int
  BY SizeAssumption DEF Transaction
<1> QED
  BY <1>1, <1>2 DEF Descends, Distinct

-----------------------------------------------------------------------------
(***************************************************************************)
(* A table in order: each chain where its date says, one chain per date.   *)
(***************************************************************************)
OfOneDate(chain, p, b) ==
    /\ chain \in Seq(Transaction) /\ chain # <<>> /\ Distinct(chain)
    /\ \A t \in ToSet(chain) : Page(t.date) = p /\ Bucket(t.date) = b /\ t.date = Head(chain).date

Tidy(tab) ==
    /\ DOMAIN tab \subseteq 0..Pages-1
    /\ \A p \in DOMAIN tab : DOMAIN tab[p] = 0..Buckets-1
    /\ \A p \in DOMAIN tab, b \in 0..Buckets-1 : \A c \in tab[p][b] : OfOneDate(c, p, b)
    /\ \A p \in DOMAIN tab, b \in 0..Buckets-1 : \A c, d \in tab[p][b] :
           Head(c).date = Head(d).date => c = d

LEMMA InTableIs ==
  ASSUME NEW tab, NEW t
  PROVE  t \in InTable(tab) <=>
           \E p \in DOMAIN tab, b \in 0..Buckets-1 : \E chain \in tab[p][b] : t \in ToSet(chain)
BY DEF InTable

LEMMA HeadIsIn ==
  ASSUME NEW S, NEW s \in Seq(S), s # <<>>
  PROVE  Head(s) \in ToSet(s) /\ Head(s) = s[1] /\ 1 \in DOMAIN s
BY DEF ToSet

LEMMA OneDateRemaining ==
  ASSUME NEW c, NEW p, NEW b, NEW gone, OfOneDate(c, p, b), Remaining(c, gone) # <<>>
  PROVE  OfOneDate(Remaining(c, gone), p, b) /\ Head(Remaining(c, gone)).date = Head(c).date
<1> DEFINE r == Remaining(c, gone)
<1>1. r \in Seq(Transaction) /\ ToSet(r) \subseteq ToSet(c) /\ Distinct(r)
  BY RemainingIs, DistinctRemaining DEF OfOneDate
<1> HIDE DEF r
<1>2. r # <<>>
  BY DEF r
<1>3. Head(r) \in ToSet(r)
  BY <1>1, <1>2, HeadIsIn
<1>4. Head(r).date = Head(c).date
  BY <1>1, <1>3 DEF OfOneDate
<1>5. OfOneDate(r, p, b)
  BY <1>1, <1>2, <1>4 DEF OfOneDate
<1> QED
  BY <1>4, <1>5 DEF r

LEMMA TableWithout ==
  ASSUME NEW tab, Tidy(tab), NEW gone
  PROVE  Tidy(WithoutTrans(tab, gone)) /\ InTable(WithoutTrans(tab, gone)) = InTable(tab) \ gone
<1> DEFINE w == WithoutTrans(tab, gone)
<1>1. DOMAIN w = DOMAIN tab /\ \A p \in DOMAIN tab : DOMAIN w[p] = 0..Buckets-1
  BY DEF WithoutTrans
<1>2. ASSUME NEW p \in DOMAIN tab, NEW b \in 0..Buckets-1
      PROVE  w[p][b] = {Remaining(c, gone) : c \in tab[p][b]} \ {<<>>}
  BY DEF WithoutTrans
<1> HIDE DEF w
<1>3. ASSUME NEW p \in DOMAIN tab, NEW b \in 0..Buckets-1, NEW r \in w[p][b]
      PROVE  /\ OfOneDate(r, p, b)
             /\ \E c \in tab[p][b] : r = Remaining(c, gone) /\ Head(r).date = Head(c).date
  <2>1. PICK c \in tab[p][b] : r = Remaining(c, gone) /\ r # <<>>
    BY <1>2, <1>3
  <2>2. OfOneDate(c, p, b)
    BY DEF Tidy
  <2> QED
    BY <2>1, <2>2, OneDateRemaining
<1>4. ASSUME NEW p \in DOMAIN tab, NEW b \in 0..Buckets-1, NEW r \in w[p][b], NEW q \in w[p][b],
             Head(r).date = Head(q).date
      PROVE  r = q
  <2>1. PICK c \in tab[p][b] : r = Remaining(c, gone) /\ Head(r).date = Head(c).date
    BY <1>3
  <2>2. PICK d \in tab[p][b] : q = Remaining(d, gone) /\ Head(q).date = Head(d).date
    BY <1>3
  <2>3. c = d
    BY <1>4, <2>1, <2>2 DEF Tidy
  <2> QED
    BY <2>1, <2>2, <2>3
<1>5. Tidy(w)
  BY <1>1, <1>3, <1>4 DEF Tidy
<1>6. ASSUME NEW t PROVE t \in InTable(w) <=> t \in InTable(tab) \ gone
  <2>1. ASSUME t \in InTable(w) PROVE t \in InTable(tab) \ gone
    <3>1. PICK p \in DOMAIN tab, b \in 0..Buckets-1 : \E r \in w[p][b] : t \in ToSet(r)
      BY <1>1, <2>1, InTableIs
    <3>2. PICK c \in tab[p][b] : t \in ToSet(Remaining(c, gone))
      BY <1>2, <3>1
    <3>3. t \in ToSet(c) \ gone
      BY <3>2, RemainingIs DEF Tidy, OfOneDate
    <3> QED
      BY <3>3, InTableIs
  <2>2. ASSUME t \in InTable(tab) \ gone PROVE t \in InTable(w)
    <3>1. PICK p \in DOMAIN tab, b \in 0..Buckets-1 : \E c \in tab[p][b] : t \in ToSet(c)
      BY <2>2, InTableIs
    <3>2. PICK c \in tab[p][b] : t \in ToSet(c)
      BY <3>1
    <3>3. t \in ToSet(Remaining(c, gone))
      BY <2>2, <3>2, RemainingIs DEF Tidy, OfOneDate
    <3>4. Remaining(c, gone) # <<>>
      BY <3>3 DEF ToSet
    <3> QED
      BY <1>1, <1>2, <3>3, <3>4, InTableIs
  <2> QED
    BY <2>1, <2>2
<1> QED
  BY <1>5, <1>6 DEF w

(***************************************************************************)
(* The chain of a date holds the transactions of that date and no other.   *)
(***************************************************************************)
LEMMA ChainOfDate ==
  ASSUME NEW tab, Tidy(tab), NEW d \in Nat
  PROVE  LET chain == ChainOf(tab, d)
         IN  /\ chain \in Seq(Transaction) /\ Distinct(chain)
             /\ ToSet(chain) = {t \in InTable(tab) : t.date = d}
             /\ chain # <<>> => /\ Page(d) \in DOMAIN tab /\ Bucket(d) \in 0..Buckets-1
                                /\ chain \in tab[Page(d)][Bucket(d)]
                                /\ Head(chain).date = d
<1> DEFINE found == {chain \in ChainsAt(tab, d) : Head(chain).date = d}
           chain == ChainOf(tab, d)
<1>1. ASSUME NEW p \in DOMAIN tab, NEW b \in 0..Buckets-1, NEW c \in tab[p][b],
             NEW t \in ToSet(c), t.date = d
      PROVE  c \in found /\ p = Page(d) /\ b = Bucket(d)
  <2>1. p = Page(d) /\ b = Bucket(d) /\ Head(c).date = d
    BY <1>1 DEF Tidy, OfOneDate
  <2> QED
    BY <2>1 DEF ChainsAt
<1>2. CASE found = {}
  <2>1. chain = <<>>
    BY <1>2 DEF ChainOf
  <2>2. {t \in InTable(tab) : t.date = d} = {}
    BY <1>1, <1>2, InTableIs
  <2>3. <<>> \in Seq(Transaction) /\ Distinct(<<>>) /\ ToSet(<<>>) = {}
    BY DEF Distinct, ToSet
  <2> QED
    BY <2>1, <2>2, <2>3
<1>3. CASE found # {}
  <2>1. chain \in found
    BY <1>3 DEF ChainOf
  <2> HIDE DEF chain
  <2>2. Page(d) \in DOMAIN tab /\ chain \in tab[Page(d)][Bucket(d)] /\ Head(chain).date = d
    BY <2>1 DEF ChainsAt
  <2>3. Bucket(d) \in 0..Buckets-1
    BY Place
  <2>4. OfOneDate(chain, Page(d), Bucket(d))
    BY <2>2, <2>3 DEF Tidy
  <2>5. ASSUME NEW t \in InTable(tab), t.date = d PROVE t \in ToSet(chain)
    <3>1. PICK p \in DOMAIN tab, b \in 0..Buckets-1 : \E c \in tab[p][b] : t \in ToSet(c)
      BY InTableIs
    <3>2. PICK c \in tab[p][b] : t \in ToSet(c)
      BY <3>1
    <3>3. c \in tab[Page(d)][Bucket(d)] /\ Head(c).date = d
      BY <1>1, <2>5, <3>2
    <3>4. c = chain
      BY <2>2, <2>3, <3>3 DEF Tidy
    <3> QED
      BY <3>2, <3>4
  <2>6. ASSUME NEW t \in ToSet(chain) PROVE t \in InTable(tab) /\ t.date = d
    BY <2>2, <2>3, <2>4, InTableIs DEF OfOneDate
  <2>7. ToSet(chain) = {t \in InTable(tab) : t.date = d}
    BY <2>5, <2>6
  <2> QED
    BY <2>2, <2>3, <2>4, <2>7 DEF chain, OfOneDate
<1> QED
  BY <1>2, <1>3
(***************************************************************************)
(* A transaction put at the head of a list, and one put in the table.      *)
(***************************************************************************)
LEMMA Pushed ==
  ASSUME NEW S, NEW s \in Seq(S), NEW t \in S
  PROVE  LET r == <<t>> \o s
         IN  /\ r \in Seq(S) /\ r # <<>> /\ Head(r) = t /\ Len(r) = Len(s) + 1
             /\ ToSet(r) = ToSet(s) \cup {t}
             /\ t \notin ToSet(s) /\ Distinct(s) => Distinct(r)
<1> DEFINE r == <<t>> \o s
<1>1. /\ r \in Seq(S) /\ Len(r) = Len(s) + 1 /\ Len(s) \in Nat /\ r[1] = t
      /\ \A i \in 1..Len(s) : r[i + 1] = s[i]
      /\ DOMAIN s = 1..Len(s) /\ DOMAIN r = 1..Len(s) + 1
  OBVIOUS
<1> HIDE DEF r
<1>2. r # <<>> /\ Head(r) = t
  BY <1>1
<1>3. \A k \in DOMAIN r : k = 1 \/ (k - 1 \in DOMAIN s /\ r[k] = s[k - 1])
  BY <1>1
<1>4. ToSet(r) = ToSet(s) \cup {t}
  <2>1. \A x \in ToSet(r) : x \in ToSet(s) \cup {t}
    BY <1>1, <1>3 DEF ToSet
  <2>2. \A i \in DOMAIN s : i + 1 \in DOMAIN r /\ r[i + 1] = s[i]
    BY <1>1
  <2>3. t \in ToSet(r)
    BY <1>1 DEF ToSet
  <2>4. \A x \in ToSet(s) : x \in ToSet(r)
    BY <2>2 DEF ToSet
  <2> QED
    BY <2>1, <2>3, <2>4
<1>5. ASSUME t \notin ToSet(s), Distinct(s) PROVE Distinct(r)
  <2>1. \A i \in DOMAIN s : s[i] # t
    BY <1>5 DEF ToSet
  <2>2. DOMAIN r \subseteq Int
    BY <1>1
  <2> SUFFICES ASSUME NEW k \in DOMAIN r, NEW l \in DOMAIN r, r[k] = r[l] PROVE k = l
    BY DEF Distinct
  <2>3. k = 1 <=> l = 1
    BY <1>1, <1>3, <2>1
  <2>4. k # 1 => k - 1 = l - 1
    BY <1>3, <1>5, <2>3 DEF Distinct
  <2> QED
    BY <2>2, <2>3, <2>4
<1> QED
  BY <1>1, <1>2, <1>4, <1>5 DEF r

LEMMA TableWith ==
  ASSUME NEW tab, Tidy(tab), NEW t \in Transaction, t \notin InTable(tab)
  PROVE  Tidy(WithTrans(tab, t)) /\ InTable(WithTrans(tab, t)) = InTable(tab) \cup {t}
<1> DEFINE page == Page(t.date)
           bucket == Bucket(t.date)
           chain == ChainOf(tab, t.date)
           grown == <<t>> \o chain
           w == WithTrans(tab, t)
           In(p, b) == IF p \in DOMAIN tab THEN tab[p][b] ELSE {}
<1>1. t.date \in Nat /\ page \in 0..Pages-1 /\ bucket \in 0..Buckets-1
  <2>1. t.date \in Nat
    BY SizeAssumption DEF Transaction
  <2> QED
    BY <2>1, Place
<1>2. /\ chain \in Seq(Transaction) /\ Distinct(chain)
      /\ ToSet(chain) = {u \in InTable(tab) : u.date = t.date}
      /\ chain # <<>> => page \in DOMAIN tab /\ chain \in tab[page][bucket] /\ Head(chain).date = t.date
  BY <1>1, ChainOfDate
<1>3. /\ DOMAIN w = DOMAIN tab \cup {page}
      /\ \A p \in DOMAIN w : DOMAIN w[p] = 0..Buckets-1
      /\ \A p \in DOMAIN w, b \in 0..Buckets-1 :
            w[p][b] = IF p = page /\ b = bucket THEN (In(p, b) \ {chain}) \cup {grown} ELSE In(p, b)
  <2> DEFINE old == IF page \in DOMAIN tab THEN tab[page] ELSE EmptyPage
             new == [old EXCEPT ![bucket] = (@ \ {chain}) \cup {grown}]
  <2>1. w = [p \in DOMAIN tab \cup {page} |-> IF p = page THEN new ELSE tab[p]]
    BY DEF WithTrans
  <2>2. DOMAIN old = 0..Buckets-1 /\ \A b \in 0..Buckets-1 : old[b] = In(page, b)
    BY DEF Tidy, EmptyPage
  <2> HIDE DEF old, In, page, bucket, chain, w, grown
  <2>3. DOMAIN new = 0..Buckets-1
        /\ \A b \in 0..Buckets-1 :
              new[b] = IF b = bucket THEN (In(page, b) \ {chain}) \cup {grown} ELSE In(page, b)
    BY <1>1, <2>2
  <2> HIDE DEF new
  <2>4. \A p \in DOMAIN tab : DOMAIN tab[p] = 0..Buckets-1
    BY DEF Tidy
  <2>5. \A p \in DOMAIN tab, b \in 0..Buckets-1 : tab[p][b] = In(p, b)
    BY DEF In
  <2> QED
    BY <2>1, <2>3, <2>4, <2>5
<1> HIDE DEF w
<1>4. /\ grown \in Seq(Transaction) /\ grown # <<>> /\ Head(grown) = t
      /\ ToSet(grown) = ToSet(chain) \cup {t} /\ Distinct(grown)
  BY <1>2, Pushed
<1> HIDE DEF grown
<1>5. OfOneDate(grown, page, bucket)
  BY <1>2, <1>4 DEF OfOneDate
<1>6. ASSUME NEW p, NEW b \in 0..Buckets-1, NEW c \in In(p, b)
      PROVE  p \in DOMAIN tab /\ c \in tab[p][b] /\ OfOneDate(c, p, b) /\ ToSet(c) \subseteq InTable(tab)
  <2>1. p \in DOMAIN tab /\ c \in tab[p][b]
    BY <1>6
  <2> QED
    BY <2>1, InTableIs DEF Tidy
<1>7. ASSUME NEW c \in In(page, bucket), Head(c).date = t.date PROVE c = chain
  <2>1. page \in DOMAIN tab /\ c \in tab[page][bucket] /\ OfOneDate(c, page, bucket)
        /\ ToSet(c) \subseteq InTable(tab)
    BY <1>1, <1>6
  <2>2. Head(c) \in ToSet(c)
    BY <2>1, HeadIsIn DEF OfOneDate
  <2>3. Head(c) \in ToSet(chain)
    BY <1>2, <1>7, <2>1, <2>2
  <2>4. chain # <<>>
    BY <2>3 DEF ToSet
  <2> QED
    BY <1>1, <1>2, <1>7, <2>1, <2>4 DEF Tidy
<1> HIDE DEF In
<1>8. ASSUME NEW p \in DOMAIN w, NEW b \in 0..Buckets-1, NEW c \in w[p][b]
      PROVE  \/ c \in In(p, b) /\ (p = page /\ b = bucket => c # chain)
             \/ c = grown /\ p = page /\ b = bucket
  BY <1>3
<1>9. ASSUME NEW p \in DOMAIN w, NEW b \in 0..Buckets-1, NEW c \in w[p][b]
      PROVE  OfOneDate(c, p, b)
  BY <1>5, <1>6, <1>8
<1>10. ASSUME NEW p \in DOMAIN w, NEW b \in 0..Buckets-1, NEW c \in w[p][b], NEW d \in w[p][b],
              Head(c).date = Head(d).date
       PROVE  c = d
  <2>1. CASE c = grown \/ d = grown
    <3>1. Head(c).date = t.date /\ Head(d).date = t.date
      BY <1>4, <1>10, <2>1
    <3>2. ASSUME NEW e \in w[p][b], e # grown, Head(e).date = t.date
          PROVE  p # page \/ b # bucket
      <4>1. e \in In(p, b) /\ (p = page /\ b = bucket => e # chain)
        BY <1>8, <3>2
      <4> HIDE DEF page, bucket, chain
      <4> QED
        BY <1>7, <3>2, <4>1
    <3>3. \A e \in w[p][b] : e = grown => p = page /\ b = bucket
      <4>1. ASSUME p # page \/ b # bucket PROVE \A e \in w[p][b] : e # grown
        <5>1. \A e \in w[p][b] : e \in In(p, b)
          BY <1>8, <4>1
        <5>2. \A e \in w[p][b] : OfOneDate(e, p, b)
          BY <1>6, <5>1
        <5> HIDE DEF page, bucket, chain
        <5> QED
          BY <1>5, <4>1, <5>2, HeadIsIn DEF OfOneDate
      <4> QED
        BY <4>1
    <3> QED
      BY <2>1, <3>1, <3>2, <3>3
  <2>2. CASE c # grown /\ d # grown
    <3>1. c \in In(p, b) /\ d \in In(p, b)
      BY <1>8, <2>2
    <3>2. p \in DOMAIN tab /\ c \in tab[p][b] /\ d \in tab[p][b]
      BY <1>6, <3>1
    <3> QED
      BY <1>10, <3>2 DEF Tidy
  <2> QED
    BY <2>1, <2>2
<1>11. Tidy(w)
  <2>1. DOMAIN w \subseteq 0..Pages-1
    BY <1>1, <1>3 DEF Tidy
  <2> HIDE DEF page, bucket, chain
  <2> QED
    BY <1>3, <1>9, <1>10, <2>1 DEF Tidy
<1>12. ASSUME NEW u PROVE u \in InTable(w) <=> u \in InTable(tab) \cup {t}
  <2>1. ASSUME u \in InTable(w) PROVE u \in InTable(tab) \cup {t}
    <3>1. PICK p \in DOMAIN w, b \in 0..Buckets-1 : \E c \in w[p][b] : u \in ToSet(c)
      BY <2>1, InTableIs
    <3>2. PICK c \in w[p][b] : u \in ToSet(c)
      BY <3>1
    <3> QED
      BY <1>2, <1>4, <1>6, <1>8, <3>2
  <2>2. ASSUME u \in InTable(tab) PROVE u \in InTable(w)
    <3>1. PICK p \in DOMAIN tab, b \in 0..Buckets-1 : \E c \in tab[p][b] : u \in ToSet(c)
      BY <2>2, InTableIs
    <3>2. PICK c \in tab[p][b] : u \in ToSet(c)
      BY <3>1
    <3>3. c \in In(p, b) /\ p \in DOMAIN w
      BY <1>3 DEF In
    <3>4. CASE c # chain \/ p # page \/ b # bucket
      <4>1. c \in w[p][b]
        BY <1>3, <3>3, <3>4
      <4> QED
        BY <3>2, <3>3, <4>1, InTableIs
    <3>5. CASE c = chain /\ p = page /\ b = bucket
      <4>1. grown \in w[p][b] /\ u \in ToSet(grown)
        BY <1>3, <1>4, <3>2, <3>3, <3>5
      <4> QED
        BY <3>3, <4>1, InTableIs
    <3> QED
      BY <3>4, <3>5
  <2>3. t \in InTable(w)
    <3>1. grown \in w[page][bucket] /\ t \in ToSet(grown)
      BY <1>1, <1>3, <1>4
    <3> QED
      BY <1>1, <1>3, <3>1, InTableIs
  <2> QED
    BY <2>1, <2>2, <2>3
<1> QED
  BY <1>11, <1>12 DEF w
LEMMA TablePart ==
  ASSUME NEW tab, Tidy(tab), NEW D, D \subseteq DOMAIN tab
  PROVE  LET part == [p \in D |-> tab[p]]
         IN  Tidy(part) /\ InTable(part) = {t \in InTable(tab) : Page(t.date) \in D}
<1> DEFINE part == [p \in D |-> tab[p]]
<1>1. DOMAIN part = D /\ \A p \in D : part[p] = tab[p]
  OBVIOUS
<1> HIDE DEF part
<1>2. Tidy(part)
  BY <1>1 DEF Tidy
<1>3. ASSUME NEW t \in InTable(part) PROVE t \in InTable(tab) /\ Page(t.date) \in D
  <2>1. PICK p \in D, b \in 0..Buckets-1 : \E c \in tab[p][b] : t \in ToSet(c)
    BY <1>1, InTableIs
  <2>2. PICK c \in tab[p][b] : t \in ToSet(c)
    BY <2>1
  <2>3. Page(t.date) = p
    BY <2>2 DEF Tidy, OfOneDate
  <2> QED
    BY <2>2, <2>3, InTableIs
<1>4. ASSUME NEW t \in InTable(tab), Page(t.date) \in D PROVE t \in InTable(part)
  <2>1. PICK p \in DOMAIN tab, b \in 0..Buckets-1 : \E c \in tab[p][b] : t \in ToSet(c)
    BY InTableIs
  <2>2. PICK c \in tab[p][b] : t \in ToSet(c)
    BY <2>1
  <2>3. Page(t.date) = p
    BY <2>2 DEF Tidy, OfOneDate
  <2>4. p \in DOMAIN part /\ c \in part[p][b]
    BY <1>1, <1>4, <2>3
  <2> QED
    BY <2>2, <2>4, InTableIs
<1> QED
  BY <1>2, <1>3, <1>4 DEF part

-----------------------------------------------------------------------------
(***************************************************************************)
(* The two indexes hold the same transactions, each in its place.          *)
(***************************************************************************)
Listed == /\ \A o \in Object : \A t \in ToSet(list[o]) : t.obj = o
          /\ \A o \in Object : Descends(list[o])

Indexed == /\ TypeOK
           /\ Listed
           /\ Tidy(table)
           /\ InTable(table) = Pending
           /\ IsFiniteSet(Pending)
           /\ count = Cardinality(Pending)
           /\ pc # "idle" => until \in EndDate
           /\ pc # "exit"

LEMMA PendingIs ==
  ASSUME NEW t
  PROVE  t \in Pending <=> \E o \in Object : t \in ToSet(list[o])
BY DEF Pending

LEMMA ListIs ==
  ASSUME Indexed, NEW o \in Object
  PROVE  /\ list[o] \in Seq(Transaction) /\ Distinct(list[o]) /\ Descends(list[o])
         /\ ToSet(list[o]) = {t \in Pending : t.obj = o}
         /\ IsFiniteSet(ToSet(list[o])) /\ Cardinality(ToSet(list[o])) = Len(list[o])
<1>1. list[o] \in Seq(Transaction) /\ Descends(list[o])
  BY DEF Indexed, TypeOK, Listed
<1>2. Distinct(list[o])
  BY <1>1, DescendsDistinct
<1>3. ToSet(list[o]) = {t \in Pending : t.obj = o}
  BY PendingIs DEF Indexed, Listed
<1> QED
  BY <1>1, <1>2, <1>3, Lengths

LEMMA PendingTyped ==
  ASSUME Indexed
  PROVE  /\ Pending \subseteq Transaction
         /\ \A t \in Pending : t.obj \in Object /\ t.date \in 0..MaxDate /\ t.posted \in 0..MaxDate
<1>1. ASSUME NEW t \in Pending PROVE t \in Transaction
  <2>1. PICK o \in Object : t \in ToSet(list[o])
    BY PendingIs
  <2>2. list[o] \in Seq(Transaction)
    BY ListIs
  <2> QED
    BY <2>1, <2>2 DEF ToSet
<1> QED
  BY <1>1 DEF Transaction

LEMMA IndexedIsConsistent ==
  ASSUME Indexed
  PROVE  Consistent
<1>1. TypeOK /\ ListsDescend
  BY DEF Indexed, Listed, Descends, ListsDescend
<1>2. TableAgrees
  BY DEF Indexed, Tidy, OfOneDate, TableAgrees
<1> QED
  BY <1>1, <1>2 DEF Consistent

LEMMA IndexedStays ==
  ASSUME Indexed, UNCHANGED <<list, table, count>>, TypeOK', pc' # "exit",
         pc' # "idle" => until' \in EndDate
  PROVE  Indexed' /\ Pending' = Pending
<1>1. Pending' = Pending
  BY DEF Pending
<1>2. Listed'
  BY DEF Indexed, Listed, Descends
<1>3. Tidy(table)' /\ (InTable(table)') = InTable(table)
  BY DEF Indexed
<1> QED
  BY <1>1, <1>2, <1>3 DEF Indexed

-----------------------------------------------------------------------------
(***************************************************************************)
(* A transaction pushed on a list in decreasing order.                     *)
(***************************************************************************)
LEMMA DescendsPushed ==
  ASSUME NEW s \in Seq(Transaction), Descends(s), NEW t \in Transaction,
         \A u \in ToSet(s) : u.date < t.date
  PROVE  Descends(<<t>> \o s)
<1> DEFINE r == <<t>> \o s
<1>1. /\ r[1] = t /\ Len(s) \in Nat
      /\ \A k \in DOMAIN r : k \in Nat /\ (k = 1 \/ (k - 1 \in DOMAIN s /\ r[k] = s[k - 1]))
  OBVIOUS
<1>2. \A k \in DOMAIN s : s[k].date < t.date /\ s[k].date \in Int
  <2>1. \A k \in DOMAIN s : s[k] \in Transaction
    OBVIOUS
  <2> QED
    BY <2>1, SizeAssumption DEF ToSet, Transaction
<1> HIDE DEF r
<1>3. t.date \in Int
  BY SizeAssumption DEF Transaction
<1>4. ASSUME NEW k \in DOMAIN r, NEW l \in DOMAIN r, k < l PROVE r[k].date > r[l].date
  <2>1. l # 1 /\ l - 1 \in DOMAIN s /\ r[l] = s[l - 1] /\ l \in Nat /\ k \in Nat
    <3>1. 1 <= k
      <4>1. k = 1 \/ k - 1 \in DOMAIN s
        BY <1>1
      <4>2. DOMAIN s \subseteq Nat
        OBVIOUS
      <4> QED
        BY <1>1, <4>1, <4>2
    <3> QED
      BY <1>1, <1>4, <3>1
  <2>2. CASE k = 1
    BY <1>1, <1>2, <1>3, <2>1, <2>2
  <2>3. CASE k # 1
    <3>1. k - 1 \in DOMAIN s /\ r[k] = s[k - 1] /\ k - 1 < l - 1
      BY <1>1, <1>4, <2>1, <2>3
    <3> QED
      BY <2>1, <3>1 DEF Descends
  <2> QED
    BY <2>2, <2>3
<1>5. Descends(r)
  BY <1>4 DEF Descends
<1> QED
  BY <1>5 DEF r

LEMMA Adds ==
  ASSUME Indexed, NEW obj \in Object, NEW delay \in Delay, AddTransaction(obj, delay), pc # "idle"
  PROVE  LET date == DateAfter(delay)
         IN  /\ Indexed'
             /\ date \in 0..MaxDate /\ now <= date
             /\ UNCHANGED <<now, pc, missed, runs>>
             /\ HasYounger(obj, date) => Pending' = Pending
             /\ ~HasYounger(obj, date) =>
                    Pending' = {u \in Pending : u.obj # obj \/ u.date < date}
                                 \cup {[obj |-> obj, date |-> date, posted |-> now]}
<1> DEFINE date == DateAfter(delay)
           gone == Older(obj, date)
           kept == Remaining(list[obj], gone)
           t == [obj |-> obj, date |-> date, posted |-> now]
           some == WithoutTrans(table, gone)
<1>1. now \in 0..MaxDate /\ delay \in Int
  BY SizeAssumption DEF Indexed, TypeOK
<1>2. date \in 0..MaxDate /\ now <= date
  BY <1>1, SizeAssumption DEF AddTransaction, DateAfter
<1>3. UNCHANGED <<now, missed, events, until, next, runs>> /\ posts' \in 0..MaxPosts
  BY SizeAssumption DEF AddTransaction, Indexed, TypeOK
<1>4. CASE HasYounger(obj, date)
  <2>1. UNCHANGED <<list, table, count, pc>>
    BY <1>4 DEF AddTransaction
  <2>2. TypeOK'
    BY <1>3, <2>1 DEF Indexed, TypeOK
  <2>3. Indexed' /\ Pending' = Pending
    BY <1>3, <2>1, <2>2, IndexedStays DEF Indexed
  <2> QED
    BY <1>2, <1>3, <1>4, <2>1, <2>3
<1>5. CASE ~HasYounger(obj, date)
  <2>1. /\ pc' = IF gone \subseteq InTable(table) THEN pc ELSE "exit"
        /\ list' = [list EXCEPT ![obj] = <<t>> \o kept]
        /\ table' = WithTrans(some, t)
        /\ count' = count - (Len(list[obj]) - Len(kept)) + 1
    BY <1>5 DEF AddTransaction
  <2>2. /\ list[obj] \in Seq(Transaction) /\ Distinct(list[obj]) /\ Descends(list[obj])
        /\ ToSet(list[obj]) = {u \in Pending : u.obj = obj}
        /\ IsFiniteSet(ToSet(list[obj])) /\ Cardinality(ToSet(list[obj])) = Len(list[obj])
    BY ListIs
  <2>3. gone = {u \in Pending : u.obj = obj /\ u.date >= date}
    BY <2>2 DEF Older
  <2>4. /\ kept \in Seq(Transaction) /\ Distinct(kept) /\ Descends(kept)
        /\ ToSet(kept) = ToSet(list[obj]) \ gone
    BY <2>2, RemainingIs, DistinctRemaining, DescendsRemaining
  <2> HIDE DEF kept
  <2>5. t \in Transaction /\ t.obj = obj /\ t.date = date
    BY <1>1, <1>2 DEF Transaction
  <2>6. gone \subseteq InTable(table) /\ pc' = pc
    BY <2>1, <2>3 DEF Indexed
  <2>7. Tidy(some) /\ InTable(some) = Pending \ gone
    BY TableWithout DEF Indexed
  <2>8. t \notin Pending \ gone
    BY <1>2, <2>3, <2>5
  <2> HIDE DEF some, t, gone, date
  <2>9. Tidy(table') /\ InTable(table') = (Pending \ gone) \cup {t}
    BY <2>1, <2>5, <2>7, <2>8, TableWith
  <2> DEFINE new == <<t>> \o kept
  <2>10. new \in Seq(Transaction) /\ ToSet(new) = ToSet(kept) \cup {t}
    BY <2>4, <2>5, Pushed
  <2>11. Descends(new)
    <3>1. \A u \in ToSet(kept) : u.date < t.date
      <4>1. \A u \in ToSet(kept) : u \in Pending /\ u.obj = obj /\ ~(u.date >= date)
        BY <2>2, <2>3, <2>4
      <4> QED
        BY <1>2, <2>5, <4>1, PendingTyped
    <3> QED
      BY <2>4, <2>5, <3>1, DescendsPushed
  <2>12. /\ list' \in [Object -> Seq(Transaction)]
         /\ list'[obj] = new
         /\ \A o \in Object : o # obj => list'[o] = list[o]
    BY <2>1, <2>10 DEF Indexed, TypeOK
  <2> HIDE DEF new
  <2>13. Pending' = (Pending \ gone) \cup {t}
    <3>1. \A u : u \in Pending' <=> \E o \in Object : u \in ToSet(list'[o])
      BY DEF Pending
    <3>2. ASSUME NEW u \in Pending' PROVE u \in (Pending \ gone) \cup {t}
      <4>1. PICK o \in Object : u \in ToSet(list'[o])
        BY <3>1
      <4>2. CASE o = obj
        BY <2>2, <2>4, <2>10, <2>12, <4>1, <4>2
      <4>3. CASE o # obj
        <5>1. u \in ToSet(list[o])
          BY <2>12, <4>1, <4>3
        <5>2. u \in Pending /\ u.obj = o
          BY <5>1, ListIs
        <5> QED
          BY <2>3, <4>3, <5>2
      <4> QED
        BY <4>2, <4>3
    <3>3. ASSUME NEW u \in Pending, u \notin gone PROVE u \in Pending'
      <4>1. u.obj \in Object /\ u \in ToSet(list[u.obj])
        <5>1. PICK o \in Object : u \in ToSet(list[o])
          BY PendingIs
        <5> QED
          BY <5>1, ListIs
      <4>2. u \in ToSet(list'[u.obj])
        BY <2>4, <2>10, <2>12, <3>3, <4>1
      <4> QED
        BY <3>1, <4>1, <4>2
    <3>4. t \in Pending'
      BY <3>1, <2>10, <2>12
    <3> QED
      BY <3>2, <3>3, <3>4
  <2>14. Listed'
    <3>1. \A o \in Object : \A u \in ToSet(list'[o]) : u.obj = o
      <4>1. \A u \in ToSet(list'[obj]) : u.obj = obj
        BY <2>2, <2>4, <2>5, <2>10, <2>12
      <4> QED
        BY <2>12, <4>1 DEF Indexed, Listed
    <3>2. \A o \in Object : Descends(list'[o])
      BY <2>11, <2>12 DEF Indexed, Listed
    <3> QED
      BY <3>1, <3>2 DEF Listed, Descends
  <2>15. IsFiniteSet(Pending') /\ count' = Cardinality(Pending')
    <3>1. Cardinality(ToSet(kept)) = Len(kept)
      BY <2>4, Lengths
    <3>2. /\ IsFiniteSet(Pending) /\ count = Cardinality(Pending)
          /\ gone = Pending \cap gone /\ gone = ToSet(list[obj]) \cap gone
      BY <2>2, <2>3 DEF Indexed
    <3>3. /\ IsFiniteSet(Pending \ gone)
          /\ Cardinality(Pending \ gone) = count - Cardinality(gone)
      BY <3>2, FS_Difference
    <3>4. Len(kept) = Len(list[obj]) - Cardinality(gone)
      <4> DEFINE all == ToSet(list[obj])
      <4>1. IsFiniteSet(all) /\ Cardinality(all) = Len(list[obj]) /\ gone = all \cap gone
            /\ Len(kept) = Cardinality(all \ gone)
        BY <2>2, <2>4, <3>1, <3>2
      <4> HIDE DEF all
      <4>2. Cardinality(all \ gone) = Cardinality(all) - Cardinality(all \cap gone)
        BY <4>1, FS_Difference
      <4> QED
        BY <4>1, <4>2
    <3>5. Cardinality(gone) \in Nat /\ count \in Nat /\ Len(list[obj]) \in Nat
      <4>1. IsFiniteSet(gone)
        BY <3>2, FS_Intersection
      <4> QED
        BY <2>2, <4>1, FS_CardinalityType DEF Indexed, TypeOK
    <3>6. /\ IsFiniteSet((Pending \ gone) \cup {t})
          /\ Cardinality((Pending \ gone) \cup {t}) = Cardinality(Pending \ gone) + 1
      BY <2>8, <3>3, FS_AddElement
    <3> QED
      BY <2>1, <2>13, <3>3, <3>4, <3>5, <3>6
  <2>16. TypeOK'
    <3>1. DOMAIN table' \subseteq 0..Pages-1
      BY <2>9 DEF Tidy
    <3>2. count' \in Nat
      BY <2>15, FS_CardinalityType
    <3> QED
      BY <1>3, <2>6, <2>12, <3>1, <3>2 DEF Indexed, TypeOK
  <2>17. (Tidy(table))' /\ (InTable(table))' = Pending'
    BY <2>9, <2>13
  <2>18. Indexed'
    BY <1>3, <2>6, <2>14, <2>15, <2>16, <2>17 DEF Indexed
  <2>19. Pending' = {u \in Pending : u.obj # obj \/ u.date < date} \cup {t}
    <3>1. \A u \in Pending : u.date \in Int
      BY PendingTyped
    <3> QED
      BY <1>2, <2>3, <2>13, <3>1
  <2> QED
    BY <1>2, <1>3, <1>5, <2>6, <2>18, <2>19 DEF date, t
<1> QED
  BY <1>4, <1>5

-----------------------------------------------------------------------------
(***************************************************************************)
(* The date GetNextDate returns is that of a pending transaction, and the  *)
(* least one in its bucket.                                                *)
(***************************************************************************)
LEMMA NextDateIs ==
  ASSUME Indexed
  PROVE  \/ InUse = {} /\ GetNextDate = NoDate
         \/ /\ InUse # {} /\ InUse \subseteq Nat
            /\ GetNextDate \in 0..MaxDate /\ GetNextDate # NoDate
            /\ \E t \in Pending : /\ t.date = GetNextDate
                                 /\ Page(t.date) = Min(InUse) \div Buckets
                                 /\ Bucket(t.date) = Min(InUse) % Buckets
            /\ \A t \in Pending : Page(t.date) = Min(InUse) \div Buckets
                                  /\ Bucket(t.date) = Min(InUse) % Buckets => GetNextDate <= t.date
<1>1. CASE InUse = {}
  BY <1>1 DEF GetNextDate
<1>2. CASE InUse # {}
  <2> DEFINE first == Min(InUse)
             p == first \div Buckets
             b == first % Buckets
             D == {Head(chain).date : chain \in FirstInUse}
  <2>1. InUse \subseteq Nat
    <3>1. now \in Nat
      BY DEF Indexed, TypeOK
    <3>2. Page(now) * Buckets + Bucket(now) \in Nat
      BY <3>1, Place, SizeAssumption
    <3> QED
      BY <3>2 DEF InUse
  <2>2. first \in InUse /\ first \in Nat
    BY <1>2, <2>1, MinIsLeast
  <2>3. p \in DOMAIN table /\ table[p][b] # {} /\ FirstInUse = table[p][b]
    BY <2>2 DEF InUse, FirstInUse
  <2>4. b \in 0..Buckets-1
    BY <2>2, SizeAssumption, Division
  <2> HIDE DEF p, b, first
  <2>5. ASSUME NEW c \in table[p][b]
        PROVE  /\ Head(c) \in Pending /\ Head(c).date \in 0..MaxDate
               /\ Page(Head(c).date) = p /\ Bucket(Head(c).date) = b
    <3>1. OfOneDate(c, p, b)
      BY <2>3, <2>4 DEF Indexed, Tidy
    <3>2. Head(c) \in ToSet(c)
      BY <3>1, HeadIsIn DEF OfOneDate
    <3>3. Head(c) \in Pending
      BY <2>3, <2>4, <3>2, InTableIs DEF Indexed
    <3>4. Page(Head(c).date) = p /\ Bucket(Head(c).date) = b
      BY <3>1, <3>2 DEF OfOneDate
    <3> QED
      BY <3>3, <3>4, PendingTyped
  <2>6. D \subseteq 0..MaxDate /\ D \subseteq Nat /\ D # {}
    BY <2>3, <2>5
  <2>7. count # 0
    <3>1. Pending # {}
      BY <2>3, <2>5
    <3> QED
      BY <3>1, FS_EmptySet DEF Indexed
  <2>8. GetNextDate = Min(D)
    BY <1>2, <2>7 DEF GetNextDate
  <2>9. GetNextDate \in D /\ \A d \in D : GetNextDate <= d
    BY <2>6, <2>8, MinIsLeast
  <2>10. \E t \in Pending : t.date = GetNextDate /\ Page(t.date) = p /\ Bucket(t.date) = b
    BY <2>3, <2>5, <2>9
  <2>11. ASSUME NEW t \in Pending, Page(t.date) = p, Bucket(t.date) = b
         PROVE  GetNextDate <= t.date
    <3>1. PICK q \in DOMAIN table, a \in 0..Buckets-1 : \E c \in table[q][a] : t \in ToSet(c)
      BY InTableIs DEF Indexed
    <3>2. PICK c \in table[q][a] : t \in ToSet(c)
      BY <3>1
    <3>3. q = p /\ a = b /\ t.date = Head(c).date
      BY <2>11, <3>2 DEF Indexed, Tidy, OfOneDate
    <3> QED
      BY <2>3, <2>9, <3>2, <3>3
  <2>12. GetNextDate # NoDate /\ GetNextDate \in 0..MaxDate
    BY <2>6, <2>9 DEF NoDate
  <2> QED
    BY <1>2, <2>1, <2>10, <2>11, <2>12 DEF p, b, first
<1> QED
  BY <1>1, <1>2

LEMMA Unlists ==
  ASSUME Indexed, NEW gone, list' = Unlisted(list, gone)
  PROVE  Listed' /\ list' \in [Object -> Seq(Transaction)] /\ Pending' = Pending \ gone
<1>1. ASSUME NEW o \in Object
      PROVE  /\ list'[o] \in Seq(Transaction) /\ Descends(list'[o])
             /\ ToSet(list'[o]) = {t \in Pending : t.obj = o} \ gone
  <2>1. list'[o] = Remaining(list[o], gone)
    BY DEF Unlisted
  <2>2. /\ list[o] \in Seq(Transaction) /\ Descends(list[o])
        /\ ToSet(list[o]) = {t \in Pending : t.obj = o}
    BY ListIs
  <2> QED
    BY <2>1, <2>2, RemainingIs, DescendsRemaining
<1>2. list' \in [Object -> Seq(Transaction)]
  <2>1. list' = [o \in Object |-> list'[o]]
    BY DEF Unlisted
  <2> QED
    BY <1>1, <2>1
<1>3. Listed'
  BY <1>1 DEF Listed, Descends
<1>4. \A t : t \in Pending' <=> \E o \in Object : t \in ToSet(list'[o])
  BY DEF Pending
<1>5. Pending' = Pending \ gone
  BY <1>1, <1>4, PendingTyped
<1> QED
  BY <1>2, <1>3, <1>5

LEMMA Advances ==
  ASSUME Indexed, NEW date \in 0..MaxDate, Advance(date),
         pc' = "update", pc # "idle", UNCHANGED <<until, next, posts, runs>>
  PROVE  LET lost == {t \in Pending : Page(t.date) \in PagesPassed(date)}
         IN  /\ Indexed'
             /\ now' = date /\ missed' = missed + Cardinality(lost)
             /\ Pending' = {t \in Pending : t \notin lost /\ t.date # date}
<1> DEFINE lost == {t \in Pending : Page(t.date) \in PagesPassed(date)}
           left == [p \in DOMAIN table \ PagesPassed(date) |-> table[p]]
           chain == ChainOf(left, date)
           fired == ToSet(chain)
<1>1. PagesPassed(date) \subseteq DOMAIN table
  BY DEF PagesPassed
<1>2. Forgotten(date) = lost
  BY <1>1, TablePart DEF Forgotten, Indexed
<1>3. Tidy(left) /\ InTable(left) = Pending \ lost
  <2>1. Tidy(left) /\ InTable(left) = {t \in Pending : Page(t.date) \in DOMAIN table \ PagesPassed(date)}
    BY TablePart DEF Indexed
  <2>2. ASSUME NEW t \in Pending PROVE Page(t.date) \in DOMAIN table
    <3>1. PICK p \in DOMAIN table, b \in 0..Buckets-1 : \E c \in table[p][b] : t \in ToSet(c)
      BY InTableIs DEF Indexed
    <3> QED
      BY <3>1 DEF Indexed, Tidy, OfOneDate
  <2> QED
    BY <2>1, <2>2
<1>4. /\ now' = date
      /\ missed' = missed + Cardinality(lost)
      /\ table' = WithoutTrans(left, fired)
      /\ list' = Unlisted(list, lost \cup fired)
      /\ count' = count - Cardinality(lost) - Len(chain)
      /\ events' = [i \in DOMAIN chain |-> [trans |-> chain[i], detected |-> FALSE]]
  BY <1>2 DEF Advance
<1> HIDE DEF left
<1>5. /\ chain \in Seq(Transaction) /\ Distinct(chain)
      /\ fired = {t \in Pending \ lost : t.date = date}
  BY <1>3, SizeAssumption, ChainOfDate
<1>6. IsFiniteSet(fired) /\ Cardinality(fired) = Len(chain)
  BY <1>5, Lengths
<1> HIDE DEF fired, chain
<1>7. events' \in Seq([trans : Transaction, detected : BOOLEAN])
  <2>1. DOMAIN chain = 1..Len(chain) /\ Len(chain) \in Nat
        /\ \A i \in 1..Len(chain) : chain[i] \in Transaction
    BY <1>5
  <2>2. events' = [i \in 1..Len(chain) |-> [trans |-> chain[i], detected |-> FALSE]]
    BY <1>4, <2>1
  <2> QED
    BY <2>1, <2>2
<1>8. Tidy(table') /\ InTable(table') = (Pending \ lost) \ fired
  BY <1>3, <1>4, TableWithout
<1>9. Listed' /\ list' \in [Object -> Seq(Transaction)] /\ Pending' = Pending \ (lost \cup fired)
  BY <1>4, Unlists
<1>10. IsFiniteSet(lost) /\ Cardinality(lost) \in Nat
  <2>1. lost = Pending \cap lost
    OBVIOUS
  <2> HIDE DEF lost
  <2>2. IsFiniteSet(lost)
    BY <2>1, FS_Intersection DEF Indexed
  <2> QED
    BY <2>2, FS_CardinalityType
<1>11. lost \cap fired = {} /\ Pending \cap (lost \cup fired) = lost \cup fired
  BY <1>5
<1> DEFINE gone == lost \cup fired
<1>12. Cardinality(gone) = Cardinality(lost) + Len(chain)
  <2> HIDE DEF lost
  <2>1. Cardinality(gone) = Cardinality(lost) + Cardinality(fired) - Cardinality(lost \cap fired)
    BY <1>6, <1>10, FS_Union
  <2>2. Cardinality(lost \cap fired) = 0
    BY <1>11, FS_EmptySet
  <2>3. Len(chain) \in Nat
    BY <1>5
  <2> HIDE DEF gone
  <2> QED
    BY <1>6, <1>10, <2>1, <2>2, <2>3
<1>13. IsFiniteSet(Pending') /\ count' = Cardinality(Pending')
  <2>1. IsFiniteSet(Pending) /\ count = Cardinality(Pending) /\ count \in Nat
    BY DEF Indexed, TypeOK
  <2>2. Cardinality(Pending \cap gone) = Cardinality(gone) /\ Pending' = Pending \ gone
    BY <1>9, <1>11
  <2> HIDE DEF gone, Pending
  <2>3. IsFiniteSet(Pending \ gone) /\ Cardinality(Pending \ gone) = count - Cardinality(gone)
    <3>1. /\ IsFiniteSet(Pending \ gone)
          /\ Cardinality(Pending \ gone) = Cardinality(Pending) - Cardinality(Pending \cap gone)
      BY <2>1, FS_Difference
    <3> QED
      BY <2>1, <2>2, <3>1
  <2>4. Len(chain) \in Nat
    BY <1>5
  <2> QED
    BY <1>4, <1>10, <1>12, <2>1, <2>2, <2>3, <2>4
<1>14. TypeOK'
  <2>1. DOMAIN table' \subseteq 0..Pages-1
    BY <1>8 DEF Tidy
  <2>2. count' \in Nat
    BY <1>13, FS_CardinalityType
  <2>3. missed' \in Nat
    BY <1>4, <1>10 DEF Indexed, TypeOK
  <2> HIDE DEF lost
  <2> QED
    BY <1>4, <1>7, <1>9, <2>1, <2>2, <2>3 DEF Indexed, TypeOK
<1>15. (Tidy(table))' /\ (InTable(table))' = Pending'
  BY <1>8, <1>9
<1>16. Indexed'
  BY <1>9, <1>13, <1>14, <1>15 DEF Indexed
<1>17. Pending' = {t \in Pending : t \notin lost /\ t.date # date}
  BY <1>5, <1>9
<1> QED
  BY <1>4, <1>16, <1>17

-----------------------------------------------------------------------------
LEMMA IndexedInit ==
  ASSUME Init
  PROVE  Indexed
<1>1. Pending = {} /\ InTable(table) = {}
  BY DEF Init, Pending, InTable, ToSet
<1>2. TypeOK
  BY SizeAssumption DEF Init, TypeOK, NoDate
<1>3. Listed
  BY DEF Init, Listed, Descends, ToSet
<1>4. Tidy(table)
  BY DEF Init, Tidy
<1>5. IsFiniteSet(Pending) /\ count = Cardinality(Pending)
  BY <1>1, FS_EmptySet DEF Init
<1> QED
  BY <1>1, <1>2, <1>3, <1>4, <1>5 DEF Indexed, Init

(***************************************************************************)
(* What the actions that leave the indexes alone do to the rest.           *)
(***************************************************************************)
Quiet == \/ Run \/ Collect \/ Update \/ NextEvent \/ Again \/ Stop

LEMMA QuietKeeps ==
  ASSUME Indexed, Quiet
  PROVE  Indexed' /\ Pending' = Pending /\ missed' = missed
<1>1. UNCHANGED <<list, table, count, missed>>
  BY DEF Quiet, Run, Collect, Update, NextEvent, Again, Stop
<1>2. \A until0 \in EndDate : until0 \in 0..MaxDate
  BY SizeAssumption
<1>3. CASE Run
  <2>1. TypeOK'
    BY <1>2, <1>3, SizeAssumption DEF Run, Indexed, TypeOK
  <2> QED
    BY <1>1, <1>3, <2>1, IndexedStays DEF Run
<1>4. CASE Collect
  <2>1. GetNextDate \in 0..MaxDate \cup {NoDate}
    BY NextDateIs
  <2>2. TypeOK'
    BY <1>4, <2>1 DEF Collect, Indexed, TypeOK
  <2> QED
    BY <1>1, <1>4, <2>2, IndexedStays DEF Collect, Indexed
<1>5. CASE Update
  <2>1. events' \in Seq([trans : Transaction, detected : BOOLEAN])
    <3>1. PICK changed \in SUBSET DOMAIN events :
             events' = [i \in DOMAIN events |-> [events[i] EXCEPT !.detected = i \in changed]]
      BY <1>5 DEF Update
    <3> DEFINE E == [trans : Transaction, detected : BOOLEAN]
    <3>0. events \in Seq(E)
      BY DEF Indexed, TypeOK
    <3>2. /\ DOMAIN events = 1..Len(events) /\ Len(events) \in Nat
          /\ \A i \in 1..Len(events) : events[i] \in E
      <4> HIDE DEF E
      <4> QED
        BY <3>0
    <3>3. \A i \in 1..Len(events) :
             [events[i] EXCEPT !.detected = i \in changed] \in [trans : Transaction, detected : BOOLEAN]
      <4> TAKE i \in 1..Len(events)
      <4>1. events[i] \in E
        BY <3>2
      <4>2. (i \in changed) \in BOOLEAN
        OBVIOUS
      <4>3. \A b \in BOOLEAN : [events[i] EXCEPT !.detected = b] \in E
        BY <4>1
      <4> QED
        BY <4>2, <4>3
    <3>4. events' = [i \in 1..Len(events) |-> [events[i] EXCEPT !.detected = i \in changed]]
      BY <3>1, <3>2
    <3> QED
      BY <3>2, <3>3, <3>4
  <2>2. TypeOK'
    BY <1>5, <2>1 DEF Update, Indexed, TypeOK
  <2> QED
    BY <1>1, <1>5, <2>2, IndexedStays DEF Update, Indexed
<1>6. CASE NextEvent
  <2>1. TypeOK'
    BY <1>6 DEF NextEvent, Indexed, TypeOK
  <2> QED
    BY <1>1, <1>6, <2>1, IndexedStays DEF NextEvent, Indexed
<1>7. CASE Again
  <2>1. TypeOK'
    BY <1>7 DEF Again, Indexed, TypeOK
  <2> QED
    BY <1>1, <1>7, <2>1, IndexedStays DEF Again, Indexed
<1>8. CASE Stop
  <2>1. TypeOK'
    BY <1>8 DEF Stop, Indexed, TypeOK
  <2> QED
    BY <1>1, <1>8, <2>1, IndexedStays DEF Stop, Indexed
<1> QED
  BY <1>3, <1>4, <1>5, <1>6, <1>7, <1>8 DEF Quiet

LEMMA StepTimeKeeps ==
  ASSUME Indexed, StepTime
  PROVE  LET date == GetNextDate
             lost == {t \in Pending : Page(t.date) \in PagesPassed(date)}
         IN  /\ Indexed'
             /\ now' = date /\ missed' = missed + Cardinality(lost)
             /\ Pending' = {t \in Pending : t \notin lost /\ t.date # date}
<1>1. GetNextDate \in 0..MaxDate
  BY NextDateIs DEF StepTime
<1>2. Advance(GetNextDate) /\ pc' = "update" /\ pc # "idle" /\ UNCHANGED <<until, next, posts, runs>>
  BY DEF StepTime
<1> QED
  BY <1>1, <1>2, Advances

LEMMA FiredArePending ==
  ASSUME Indexed, StepTime, NEW e \in ToSet(events')
  PROVE  e.trans \in Pending /\ e.trans.date = GetNextDate
<1> DEFINE date == GetNextDate
           left == [p \in DOMAIN table \ PagesPassed(date) |-> table[p]]
           chain == ChainOf(left, date)
<1>1. date \in 0..MaxDate
  BY NextDateIs DEF StepTime
<1>2. events' = [i \in DOMAIN chain |-> [trans |-> chain[i], detected |-> FALSE]]
  BY DEF StepTime, Advance
<1>3. Tidy(left) /\ InTable(left) = {t \in Pending : Page(t.date) \in DOMAIN table \ PagesPassed(date)}
  BY TablePart DEF Indexed
<1>4. chain \in Seq(Transaction) /\ ToSet(chain) = {t \in InTable(left) : t.date = date}
  <2>1. Tidy(left) /\ date \in Nat
    BY <1>1, <1>3, SizeAssumption
  <2> HIDE DEF left, date
  <2> QED
    BY <2>1, ChainOfDate
<1> HIDE DEF chain, left
<1>5. PICK k \in DOMAIN chain : e = [trans |-> chain[k], detected |-> FALSE]
  BY <1>2, <1>4 DEF ToSet
<1>6. e.trans = chain[k] /\ chain[k] \in ToSet(chain)
  BY <1>4, <1>5 DEF ToSet
<1> QED
  BY <1>3, <1>4, <1>6

LEMMA NextIs ==
  ASSUME Next
  PROVE  \/ Quiet
         \/ StepTime
         \/ \E obj \in Object, delay \in Delay : pc # "idle" /\ AddTransaction(obj, delay)
BY DEF Next, Quiet, Pattern, Execute

LEMMA IndexedStep ==
  ASSUME Indexed, [Next]_vars
  PROVE  Indexed'
<1>1. CASE UNCHANGED vars
  <2>1. TypeOK'
    BY <1>1 DEF vars, Indexed, TypeOK
  <2> QED
    BY <1>1, <2>1, IndexedStays DEF vars, Indexed
<1>2. CASE Next
  <2>1. CASE Quiet
    BY <2>1, QuietKeeps
  <2>2. CASE StepTime
    BY <2>2, StepTimeKeeps
  <2>3. CASE \E obj \in Object, delay \in Delay : pc # "idle" /\ AddTransaction(obj, delay)
    BY <2>3, Adds
  <2> QED
    BY <1>2, <2>1, <2>2, <2>3, NextIs
<1> QED
  BY <1>1, <1>2

(***************************************************************************)
(* Whatever the callbacks post, the lists of the objects and the tables    *)
(* hold the same transactions, each once, in the place its date says, and  *)
(* TransactionCount counts them.                                           *)
(***************************************************************************)
THEOREM SchedulerConsistent == Spec => []Consistent
<1>1. Init => Indexed
  BY IndexedInit
<1>2. Indexed /\ [Next]_vars => Indexed'
  BY IndexedStep
<1>3. Indexed => Consistent
  BY IndexedIsConsistent
<1> QED
  BY <1>1, <1>2, <1>3, PTL DEF Spec

-----------------------------------------------------------------------------
(***************************************************************************)
(* Below the horizon, nothing pending is in the past: then its entry is at *)
(* or after that of the current date, where GetNextDate looks.             *)
(***************************************************************************)
BelowHorizon == MaxDate < Horizon

Timely == Indexed /\ missed = 0 /\ \A t \in Pending : now <= t.date

LEMMA PagesGrow ==
  ASSUME NEW a \in Nat, NEW b \in Nat, a <= b, b < Horizon
  PROVE  Page(a) <= Page(b)
<1>1. a < Horizon
  BY SizeAssumption DEF Horizon
<1>2. /\ Page(a) = (a \div Grain) \div Buckets
      /\ Page(b) = (b \div Grain) \div Buckets
  BY <1>1, Entry
<1>3. a \div Grain \in Nat /\ b \div Grain \in Nat /\ a \div Grain <= b \div Grain
  BY SizeAssumption, Division, DivisionGrows
<1> QED
  BY <1>2, <1>3, SizeAssumption, DivisionGrows

LEMMA EarliestOfTimely ==
  ASSUME BelowHorizon, Timely
  PROVE  NextDateIsEarliest
<1>1. Indexed /\ now \in 0..MaxDate /\ now < Horizon
  BY SizeAssumption DEF Timely, Indexed, TypeOK, BelowHorizon, Horizon
<1>2. ASSUME NEW t \in Pending
      PROVE  /\ t.date \in Nat /\ t.date < Horizon
             /\ t.date \div Grain \in InUse
  <2> DEFINE i == t.date \div Grain
             n == now \div Grain
  <2>1. t.date \in 0..MaxDate /\ t.date < Horizon /\ now <= t.date
    BY <1>1, PendingTyped, SizeAssumption DEF BelowHorizon, Horizon, Timely
  <2>2. /\ i \in 0..Pages * Buckets - 1
        /\ i \div Buckets = Page(t.date) /\ i % Buckets = Bucket(t.date)
    BY <2>1, Entry
  <2>3. n = Page(now) * Buckets + Bucket(now) /\ n \in Nat
    BY <1>1, Entry, SizeAssumption
  <2>4. n <= i
    BY <1>1, <2>1, DivisionGrows, SizeAssumption
  <2> HIDE DEF i, n
  <2>5. Page(t.date) \in DOMAIN table /\ table[Page(t.date)][Bucket(t.date)] # {}
    <3>1. PICK p \in DOMAIN table, b \in 0..Buckets-1 : \E c \in table[p][b] : t \in ToSet(c)
      BY <1>1, InTableIs DEF Indexed
    <3>2. Page(t.date) = p /\ Bucket(t.date) = b
      BY <1>1, <3>1 DEF Indexed, Tidy, OfOneDate
    <3> QED
      BY <3>1, <3>2
  <2>6. i \in InUse
    BY <2>2, <2>3, <2>4, <2>5, SizeAssumption DEF InUse
  <2> QED
    BY <2>1, <2>6 DEF i
<1>3. CASE Pending = {}
  <2>1. count = 0
    BY <1>1, <1>3, FS_EmptySet DEF Indexed
  <2> QED
    BY <1>3, <2>1 DEF NextDateIsEarliest, GetNextDate
<1>4. CASE Pending # {}
  <2>1. InUse # {}
    BY <1>2, <1>4
  <2> DEFINE first == Min(InUse)
  <2>2. /\ InUse \subseteq Nat /\ GetNextDate \in Nat
        /\ \E u \in Pending : /\ u.date = GetNextDate
                              /\ Page(u.date) = first \div Buckets
                              /\ Bucket(u.date) = first % Buckets
        /\ \A u \in Pending : Page(u.date) = first \div Buckets
                              /\ Bucket(u.date) = first % Buckets => GetNextDate <= u.date
    BY <1>1, <2>1, NextDateIs
  <2>3. first \in Nat /\ \A i \in InUse : first <= i
    BY <2>1, <2>2, MinIsLeast
  <2> HIDE DEF first
  <2>4. PICK u \in Pending : /\ u.date = GetNextDate
                             /\ Page(u.date) = first \div Buckets
                             /\ Bucket(u.date) = first % Buckets
    BY <2>2
  <2>5. u.date \div Grain = first
    <3>1. u.date \div Grain = (first \div Buckets) * Buckets + (first % Buckets)
      BY <1>2, <2>4, Entry
    <3>2. /\ first \div Buckets \in Nat /\ first % Buckets \in Nat
          /\ first = Buckets * (first \div Buckets) + (first % Buckets)
      BY <2>3, SizeAssumption, Division
    <3> QED
      BY <3>1, <3>2, SizeAssumption
  <2>6. ASSUME NEW t \in Pending PROVE GetNextDate <= t.date
    <3>1. /\ t.date \in Nat /\ t.date < Horizon /\ u.date \in Nat /\ u.date < Horizon
          /\ first <= t.date \div Grain
      BY <1>2, <2>3
    <3>2. CASE t.date \div Grain = first
      <4>1. Page(t.date) = first \div Buckets /\ Bucket(t.date) = first % Buckets
        BY <3>1, <3>2, Entry
      <4> QED
        BY <2>2, <4>1
    <3>3. CASE t.date \div Grain # first
      <4>1. t.date <= u.date => t.date \div Grain <= u.date \div Grain
        BY <3>1, SizeAssumption, DivisionGrows
      <4>2. t.date \div Grain \in Nat
        BY <3>1, SizeAssumption, Division
      <4> QED
        BY <2>3, <2>4, <2>5, <3>1, <3>3, <4>1, <4>2
    <3> QED
      BY <3>2, <3>3
  <2> QED
    BY <1>4, <2>4, <2>6 DEF NextDateIsEarliest
<1> QED
  BY <1>3, <1>4

LEMMA TimelyStepTime ==
  ASSUME BelowHorizon, Timely, StepTime
  PROVE  /\ Timely' /\ now' = GetNextDate
         /\ Pending' = {t \in Pending : t.date # GetNextDate}
<1> DEFINE date == GetNextDate
           lost == {t \in Pending : Page(t.date) \in PagesPassed(date)}
<1>1. Indexed /\ NextDateIsEarliest
  BY EarliestOfTimely DEF Timely
<1>2. /\ Indexed'
      /\ now' = date /\ missed' = missed + Cardinality(lost)
      /\ Pending' = {t \in Pending : t \notin lost /\ t.date # date}
  BY <1>1, StepTimeKeeps
<1>3. date \in 0..MaxDate /\ \A t \in Pending : date <= t.date
  BY <1>1, NextDateIs DEF NextDateIsEarliest, StepTime
<1>4. lost = {}
  <2> SUFFICES ASSUME NEW t \in Pending, Page(t.date) \in PagesPassed(date) PROVE FALSE
    OBVIOUS
  <2>1. t.date \in 0..MaxDate /\ date <= t.date /\ t.date < Horizon
    BY <1>1, <1>3, PendingTyped, SizeAssumption DEF BelowHorizon, Horizon
  <2>2. Page(date) <= Page(t.date) /\ Page(date) \in Int /\ Page(t.date) \in Int
    BY <1>3, <2>1, PagesGrow, Place
  <2> QED
    BY <2>2 DEF PagesPassed
<1>5. missed' = 0
  <2> HIDE DEF lost
  <2> QED
    BY <1>2, <1>4, FS_EmptySet DEF Timely
<1>6. Pending' = {t \in Pending : t.date # date}
  BY <1>2, <1>4
<1>7. \A t \in Pending' : now' <= t.date
  BY <1>2, <1>3, <1>6
<1> QED
  BY <1>2, <1>5, <1>6, <1>7 DEF Timely

LEMMA TimelyStop ==
  ASSUME BelowHorizon, Timely, Stop
  PROVE  /\ Timely' /\ now' = until /\ until \in EndDate
         /\ Pending' = Pending /\ \A t \in Pending : until <= t.date
<1>1. Indexed /\ Indexed' /\ Pending' = Pending /\ missed' = missed
  BY QuietKeeps DEF Timely, Quiet
<1>2. now' = until /\ until \in EndDate
  BY <1>1 DEF Stop, Indexed
<1>3. \A t \in Pending : until <= t.date
  <2>1. CASE now >= until
    <3>1. now \in Int /\ until \in Int
      BY <1>1 DEF Indexed, TypeOK
    <3>2. \A t \in Pending : t.date \in Int /\ now <= t.date
      BY <1>1, PendingTyped DEF Timely
    <3> QED
      BY <2>1, <3>1, <3>2
  <2>2. CASE GetNextDate = NoDate
    <3>1. Pending = {}
      <4>1. NextDateIsEarliest
        BY EarliestOfTimely
      <4>2. \A t \in Pending : t.date # NoDate
        BY <1>1, PendingTyped DEF NoDate
      <4> QED
        BY <2>2, <4>1, <4>2 DEF NextDateIsEarliest
    <3> QED
      BY <3>1
  <2> QED
    BY <2>1, <2>2 DEF Stop
<1> QED
  BY <1>1, <1>2, <1>3 DEF Timely

LEMMA TimelyAdds ==
  ASSUME Timely, NEW obj \in Object, NEW delay \in Delay, AddTransaction(obj, delay), pc # "idle"
  PROVE  Timely'
<1> DEFINE date == DateAfter(delay)
           t == [obj |-> obj, date |-> date, posted |-> now]
<1>1. /\ Indexed' /\ now <= date /\ now' = now /\ missed' = missed
      /\ HasYounger(obj, date) => Pending' = Pending
      /\ ~HasYounger(obj, date) =>
             Pending' = {u \in Pending : u.obj # obj \/ u.date < date} \cup {t}
  BY Adds DEF Timely
<1>2. t.date = date
  OBVIOUS
<1> HIDE DEF t, date
<1>3. \A u \in Pending' : u \in Pending \/ u = t
  BY <1>1
<1> QED
  BY <1>1, <1>2, <1>3 DEF Timely

LEMMA TimelyStep ==
  ASSUME BelowHorizon, Timely, [Next]_vars
  PROVE  Timely'
<1>1. CASE UNCHANGED vars
  <2>1. Indexed' /\ Pending' = Pending
    BY <1>1, IndexedStep DEF Timely, vars, Pending
  <2> QED
    BY <1>1, <2>1 DEF Timely, vars
<1>2. CASE Quiet /\ ~Stop
  <2>1. now' = now
    BY <1>2 DEF Quiet, Run, Collect, Update, NextEvent, Again
  <2> QED
    BY <1>2, <2>1, QuietKeeps DEF Timely
<1>3. CASE Stop
  BY <1>3, TimelyStop
<1>4. CASE StepTime
  BY <1>4, TimelyStepTime
<1>5. CASE \E obj \in Object, delay \in Delay : pc # "idle" /\ AddTransaction(obj, delay)
  BY <1>5, TimelyAdds
<1> QED
  BY <1>1, <1>2, <1>3, <1>4, <1>5, NextIs DEF Quiet

LEMMA SpecTimely ==
  ASSUME BelowHorizon
  PROVE  Spec => []Timely
<1>1. Init => Timely
  <2> SUFFICES ASSUME Init PROVE Timely
    OBVIOUS
  <2>1. Pending = {}
    BY DEF Init, Pending, ToSet
  <2> QED
    BY <2>1, IndexedInit DEF Timely, Init
<1>2. Timely /\ [Next]_vars => Timely'
  BY TimelyStep
<1> QED
  BY <1>1, <1>2, PTL DEF Spec

(***************************************************************************)
(* As long as no date reaches the horizon of the tables, 2^32 in the code, *)
(* Scheduler_GetNextDate returns the earliest pending date.                *)
(***************************************************************************)
THEOREM SchedulerNextDate ==
  ASSUME MaxDate < Horizon
  PROVE  Spec => []NextDateIsEarliest
<1>1. Spec => []Timely
  BY SpecTimely DEF BelowHorizon
<1>2. Timely => NextDateIsEarliest
  BY EarliestOfTimely DEF BelowHorizon
<1> QED
  BY <1>1, <1>2, PTL

(***************************************************************************)
(* As long as no date reaches that horizon, Scheduler_GotoDate forgets no  *)
(* transaction and RemoveTransaction never exits.                          *)
(***************************************************************************)
THEOREM SchedulerForgetsNothing ==
  ASSUME MaxDate < Horizon
  PROVE  Spec => []NothingForgotten
<1>1. Spec => []Timely
  BY SpecTimely DEF BelowHorizon
<1>2. Timely => NothingForgotten
  BY DEF Timely, Indexed, NothingForgotten
<1> QED
  BY <1>1, <1>2, PTL

-----------------------------------------------------------------------------
(***************************************************************************)
(* What makes a run end.  A step of it posts; or it takes a transaction    *)
(* out of the tables; or it leaves these alone and is nearer to the next   *)
(* turn of the loop.                                                       *)
(***************************************************************************)
Stage == CASE pc = "update" -> Len(events) + 4
           [] pc = "execute" -> Len(events) + 3
           [] pc = "loop" -> 2
           [] pc = "patterns" -> 1
           [] OTHER -> 0

Shorter == \/ posts < posts'
           \/ posts = posts' /\ count' < count
           \/ posts = posts' /\ count' = count /\ Stage' < Stage

Measured == posts \in 0..MaxPosts /\ count \in Nat /\ Stage \in Nat

LEMMA StepShortens ==
  ASSUME Indexed, Next, pc # "idle", pc' # "idle"
  PROVE  Shorter
<1>1. /\ posts \in Nat /\ count \in Nat
      /\ events \in Seq([trans : Transaction, detected : BOOLEAN]) /\ Len(events) \in Nat
  BY SizeAssumption DEF Indexed, TypeOK
<1>2. CASE Collect
  BY <1>2 DEF Collect, Shorter, Stage
<1>3. CASE Again
  BY <1>1, <1>3 DEF Again, Shorter, Stage
<1>4. CASE NextEvent
  <2>1. Len(events') = Len(events) - 1
    BY <1>1, <1>4 DEF NextEvent
  <2> QED
    BY <1>1, <1>4, <2>1 DEF NextEvent, Shorter, Stage
<1>5. CASE Update
  <2>1. PICK changed \in SUBSET DOMAIN events :
           events' = [i \in DOMAIN events |-> [events[i] EXCEPT !.detected = i \in changed]]
    BY <1>5 DEF Update
  <2>2. Len(events') = Len(events)
    BY <1>1, <2>1
  <2> QED
    BY <1>1, <1>5, <2>2 DEF Update, Shorter, Stage
<1>6. CASE StepTime
  <2> DEFINE lost == {t \in Pending : Page(t.date) \in PagesPassed(GetNextDate)}
  <2>1. /\ Indexed' /\ Pending' = {t \in Pending : t \notin lost /\ t.date # GetNextDate}
    BY <1>6, StepTimeKeeps
  <2>2. PICK u \in Pending : u.date = GetNextDate
    BY <1>6, NextDateIs DEF StepTime
  <2>3. Pending' \subseteq Pending /\ Pending' # Pending
    BY <2>1, <2>2
  <2>4. IsFiniteSet(Pending) /\ count = Cardinality(Pending) /\ count' = Cardinality(Pending')
    BY <2>1 DEF Indexed
  <2>5. count' < count
    <3>1. PICK P : P = Pending'
      OBVIOUS
    <3>2. P \subseteq Pending /\ P # Pending /\ IsFiniteSet(Pending)
      BY <2>3, <2>4, <3>1
    <3>3. Cardinality(P) < Cardinality(Pending)
      <4> HIDE DEF Pending
      <4> QED
        BY <3>2, FS_Subset, FS_CardinalityType
    <3>4. count = Cardinality(Pending) /\ count' = Cardinality(P)
      BY <2>4, <3>1
    <3> QED
      BY <3>3, <3>4
  <2> QED
    BY <1>6, <2>5 DEF StepTime, Shorter
<1>7. CASE \E obj \in Object, delay \in Delay : AddTransaction(obj, delay)
  BY <1>1, <1>7 DEF AddTransaction, Shorter
<1> QED
  BY <1>2, <1>3, <1>4, <1>5, <1>6, <1>7 DEF Next, Run, Stop, Pattern, Execute

(***************************************************************************)
(* Every step of a run but its last makes what is left of it shorter: a    *)
(* run of which the callbacks post at most MaxPosts times cannot go on for *)
(* ever.                                                                   *)
(***************************************************************************)
THEOREM RunsShorten ==
  Spec => []Measured /\ [][pc # "idle" /\ pc' # "idle" => Shorter]_vars
<1>1. Init => Indexed
  BY IndexedInit
<1>2. Indexed /\ [Next]_vars => Indexed'
  BY IndexedStep
<1>3. Indexed => Measured
  <2> SUFFICES ASSUME Indexed PROVE Measured
    OBVIOUS
  <2>1. /\ posts \in 0..MaxPosts /\ count \in Nat
        /\ events \in Seq([trans : Transaction, detected : BOOLEAN]) /\ Len(events) \in Nat
    BY DEF Indexed, TypeOK
  <2> QED
    BY <2>1 DEF Measured, Stage
<1>4. Indexed /\ [Next]_vars => [pc # "idle" /\ pc' # "idle" => Shorter]_vars
  BY StepShortens
<1> QED
  BY <1>1, <1>2, <1>3, <1>4, PTL DEF Spec

-----------------------------------------------------------------------------
(***************************************************************************)
(* When time stands still.  A transaction of the current date is one that  *)
(* was posted at it.                                                       *)
(***************************************************************************)
Ahead == \A t \in Pending : now < t.date \/ (now = t.date /\ now = t.posted)

LEMMA AheadStep ==
  ASSUME BelowHorizon, Timely, Ahead, [Next]_vars
  PROVE  Ahead'
<1>0. /\ now \in Int /\ \A t \in Pending : t.date \in Int
      /\ \A t \in Pending : now <= t.date
  BY PendingTyped DEF Timely, Indexed, TypeOK
<1>1. CASE UNCHANGED vars
  BY <1>1 DEF vars, Ahead, Pending
<1>2. CASE Quiet /\ ~Stop
  <2>1. now' = now
    BY <1>2 DEF Quiet, Run, Collect, Update, NextEvent, Again
  <2> QED
    BY <1>2, <2>1, QuietKeeps DEF Timely, Ahead
<1>3. CASE Stop
  <2>1. /\ now' = until /\ Pending' = Pending /\ until \in Int
        /\ \A t \in Pending : until <= t.date
    BY <1>3, TimelyStop DEF Timely, Indexed, TypeOK
  <2>2. CASE now >= until
    BY <1>0, <2>1, <2>2 DEF Ahead
  <2>3. CASE GetNextDate = NoDate
    <3>1. NextDateIsEarliest
      BY EarliestOfTimely
    <3>2. Pending = {}
      BY <2>3, <3>1, PendingTyped DEF NextDateIsEarliest, NoDate, Timely
    <3> QED
      BY <2>1, <3>2 DEF Ahead
  <2> QED
    BY <1>3, <2>2, <2>3 DEF Stop
<1>4. CASE StepTime
  <2>1. /\ Timely' /\ now' = GetNextDate
        /\ Pending' = {t \in Pending : t.date # GetNextDate}
    BY <1>4, TimelyStepTime
  <2>2. \A t \in Pending' : t \in Pending /\ now' <= t.date /\ now' # t.date
    BY <2>1 DEF Timely
  <2>3. now' \in Int
    BY <2>1 DEF Timely, Indexed, TypeOK
  <2> QED
    BY <1>0, <2>2, <2>3 DEF Ahead
<1>5. CASE \E obj \in Object, delay \in Delay : pc # "idle" /\ AddTransaction(obj, delay)
  <2>1. PICK obj \in Object, delay \in Delay : pc # "idle" /\ AddTransaction(obj, delay)
    BY <1>5
  <2> DEFINE date == DateAfter(delay)
             t == [obj |-> obj, date |-> date, posted |-> now]
  <2>2. /\ date \in Int /\ now <= date /\ now' = now
        /\ HasYounger(obj, date) => Pending' = Pending
        /\ ~HasYounger(obj, date) =>
               Pending' = {u \in Pending : u.obj # obj \/ u.date < date} \cup {t}
    BY <2>1, Adds DEF Timely
  <2>3. t.date = date /\ t.posted = now
    OBVIOUS
  <2> HIDE DEF t, date
  <2>4. \A u \in Pending' : u \in Pending \/ u = t
    BY <2>2
  <2> QED
    BY <1>0, <2>2, <2>3, <2>4 DEF Ahead
<1> QED
  BY <1>1, <1>2, <1>3, <1>4, <1>5, NextIs DEF Quiet

(***************************************************************************)
(* As long as no date reaches the horizon, time advances with every turn   *)
(* of the loop of Scheduler_RunSimulator but for posts with no delay.      *)
(***************************************************************************)
THEOREM SchedulerTimeAdvances ==
  ASSUME MaxDate < Horizon
  PROVE  Spec => TimeAdvances
<1>1. Spec => []Timely
  BY SpecTimely DEF BelowHorizon
<1>2. Init => Ahead
  BY DEF Init, Ahead, Pending, ToSet
<1>3. Timely /\ Ahead /\ [Next]_vars => Ahead'
  BY AheadStep DEF BelowHorizon
<1>4. Timely /\ Ahead =>
        [StepTime => \/ now' > now
                     \/ now' = now /\ \A e \in ToSet(events') : e.trans.posted = now]_vars
  <2> SUFFICES ASSUME Timely, Ahead, StepTime, ~(now' > now)
               PROVE  now' = now /\ \A e \in ToSet(events') : e.trans.posted = now
    OBVIOUS
  <2>1. now' = GetNextDate /\ GetNextDate \in 0..MaxDate
    BY TimelyStepTime, NextDateIs DEF BelowHorizon, StepTime, Timely
  <2>2. PICK u \in Pending : u.date = GetNextDate
    BY NextDateIs DEF StepTime, Timely
  <2>3. now' = now
    BY <2>1, <2>2, PendingTyped DEF Ahead, Timely, Indexed, TypeOK
  <2>4. ASSUME NEW e \in ToSet(events') PROVE e.trans \in Pending /\ e.trans.date = now
    BY <2>1, <2>3, FiredArePending DEF Timely
  <2> QED
    BY <2>3, <2>4, PendingTyped DEF Ahead, Timely, Indexed, TypeOK
<1> QED
  BY <1>1, <1>2, <1>3, <1>4, PTL DEF Spec, TimeAdvances

-----------------------------------------------------------------------------
(***************************************************************************)
(* The scheduler takes the steps of the event queue.                       *)
(***************************************************************************)
LEMMA YoungerIsPreempted ==
  ASSUME Indexed, NEW obj \in Object, NEW date \in Int
  PROVE  HasYounger(obj, date) <=> EQ!Preempted(obj, date)
<1> DEFINE s == list[obj]
<1>1. /\ s \in Seq(Transaction) /\ Descends(s)
      /\ ToSet(s) = {t \in Pending : t.obj = obj}
  BY ListIs
<1>2. EQ!Of(obj) = ToSet(s)
  BY <1>1 DEF EQ!Of
<1> HIDE DEF s
<1>3. \A t \in ToSet(s) : t.date \in Int /\ t.obj = obj
  BY <1>1, PendingTyped
<1>4. \A t \in ToSet(s) : EQ!IsLatest(t) <=> \A u \in ToSet(s) : u.date <= t.date
  BY <1>2, <1>3 DEF EQ!IsLatest
<1>5. EQ!Preempted(obj, date) <=>
         \E t \in ToSet(s) : /\ \A u \in ToSet(s) : u.date <= t.date
                             /\ t.posted = now /\ t.date < date
  BY <1>2, <1>4 DEF EQ!Preempted
<1>6. CASE s = <<>>
  <2>1. ToSet(s) = {}
    BY <1>6 DEF ToSet
  <2>2. ~EQ!Preempted(obj, date)
    BY <1>5, <2>1
  <2> QED
    BY <1>6, <2>2 DEF HasYounger, s
<1>7. CASE s # <<>>
  <2>1. Head(s) \in ToSet(s) /\ Head(s) = s[1] /\ 1 \in DOMAIN s
    BY <1>1, <1>7, HeadIsIn
  <2>2. ASSUME NEW u \in ToSet(s), u # Head(s) PROVE u.date < Head(s).date
    <3>1. PICK k \in DOMAIN s : u = s[k]
      BY <2>2 DEF ToSet
    <3>2. 1 < k
      BY <1>1, <2>1, <2>2, <3>1
    <3>3. s[1].date > s[k].date
      BY <1>1, <2>1, <3>2 DEF Descends
    <3> QED
      BY <1>3, <2>1, <3>1, <3>3
  <2>3. ASSUME NEW t \in ToSet(s)
        PROVE  (\A u \in ToSet(s) : u.date <= t.date) <=> t = Head(s)
    BY <1>3, <2>1, <2>2
  <2>4. EQ!Preempted(obj, date) <=> Head(s).posted = now /\ Head(s).date < date
    BY <1>5, <2>1, <2>3
  <2> QED
    BY <1>7, <2>4 DEF HasYounger, s
<1> QED
  BY <1>6, <1>7

LEMMA AddsAbstractly ==
  ASSUME Indexed, NEW obj \in Object, NEW delay \in Delay, AddTransaction(obj, delay), pc # "idle"
  PROVE  EQ!Post(obj, delay) \/ EQ!Ignore(obj, delay)
<1> DEFINE date == DateAfter(delay)
           t == [obj |-> obj, date |-> date, posted |-> now]
<1>1. /\ date \in 0..MaxDate /\ UNCHANGED <<now, pc, runs>>
      /\ HasYounger(obj, date) => Pending' = Pending
      /\ ~HasYounger(obj, date) =>
             Pending' = {u \in Pending : u.obj # obj \/ u.date < date} \cup {t}
  BY Adds
<1>2. EQ!DateAfter(delay) = date
  BY DEF EQ!DateAfter, DateAfter
<1> HIDE DEF date
<1>3. HasYounger(obj, date) <=> EQ!Preempted(obj, date)
  BY <1>1, YoungerIsPreempted
<1>4. CASE HasYounger(obj, date)
  BY <1>1, <1>2, <1>3, <1>4 DEF EQ!Ignore, EQ!vars
<1>5. CASE ~HasYounger(obj, date)
  BY <1>1, <1>2, <1>3, <1>5 DEF EQ!Post
<1> QED
  BY <1>4, <1>5

LEMMA StepAbstractly ==
  ASSUME BelowHorizon, Timely, [Next]_vars
  PROVE  [EQ!Next]_(EQ!vars)
<1>1. CASE UNCHANGED vars
  BY <1>1 DEF vars, EQ!vars, Pending
<1>2. CASE Run
  <2>1. Pending' = Pending
    BY <1>2, QuietKeeps DEF Timely, Quiet
  <2>2. EQ!Start
    BY <1>2, <2>1 DEF Run, EQ!Start
  <2> QED
    BY <2>2 DEF EQ!Next
<1>3. CASE Collect \/ Update \/ NextEvent \/ Again
  <2>1. Pending' = Pending
    BY <1>3, QuietKeeps DEF Timely, Quiet
  <2>2. now' = now /\ runs' = runs /\ pc # "idle" /\ pc' # "idle"
    BY <1>3 DEF Collect, Update, NextEvent, Again, Timely, Indexed
  <2> QED
    BY <2>1, <2>2 DEF EQ!vars
<1>4. CASE Stop
  <2>1. /\ now' = until /\ until \in EndDate
        /\ Pending' = Pending /\ \A t \in Pending : until <= t.date
    BY <1>4, TimelyStop
  <2>2. pc # "idle" /\ pc' = "idle" /\ runs' = runs
    BY <1>4 DEF Stop
  <2>3. EQ!Finish
    BY <2>1, <2>2 DEF EQ!Finish
  <2> QED
    BY <2>3 DEF EQ!Next
<1>5. CASE StepTime
  <2>1. /\ now' = GetNextDate
        /\ Pending' = {t \in Pending : t.date # GetNextDate}
    BY <1>5, TimelyStepTime
  <2>2. pc # "idle" /\ pc' # "idle" /\ runs' = runs
    BY <1>5 DEF StepTime
  <2>3. PICK t \in Pending : t.date = GetNextDate
    BY <1>5, NextDateIs DEF Timely, StepTime
  <2>4. \A u \in Pending : t.date <= u.date
    BY <2>3, EarliestOfTimely DEF NextDateIsEarliest
  <2>5. EQ!Fire
    BY <2>1, <2>2, <2>3, <2>4 DEF EQ!Fire
  <2> QED
    BY <2>5 DEF EQ!Next
<1>6. CASE \E obj \in Object, delay \in Delay : pc # "idle" /\ AddTransaction(obj, delay)
  <2>1. \E obj \in Object, delay \in Delay : EQ!Post(obj, delay) \/ EQ!Ignore(obj, delay)
    BY <1>6, AddsAbstractly DEF Timely
  <2> QED
    BY <2>1 DEF EQ!Next
<1> QED
  BY <1>1, <1>2, <1>3, <1>4, <1>5, <1>6, NextIs DEF Quiet

(***************************************************************************)
(* As long as no date reaches the horizon of its tables, the scheduler     *)
(* implements the event queue: a set of pending transactions of which the  *)
(* earliest fire first, each object's post withdrawing the later ones.     *)
(***************************************************************************)
THEOREM SchedulerImplements ==
  ASSUME MaxDate < Horizon
  PROVE  Spec => Implements
<1>1. Spec => []Timely
  BY SpecTimely DEF BelowHorizon
<1>2. Init => EQ!Init
  BY DEF Init, EQ!Init, Pending, ToSet
<1>3. Timely /\ [Next]_vars => [EQ!Next]_(EQ!vars)
  BY StepAbstractly DEF BelowHorizon
<1> QED
  BY <1>1, <1>2, <1>3, PTL DEF Spec, Implements, EQ!Spec
=============================================================================
