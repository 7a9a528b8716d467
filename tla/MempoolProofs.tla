--------------------------- MODULE MempoolProofs ---------------------------
(***************************************************************************)
(* Every safety property of MempoolSync, for every set of transactions,    *)
(* outputs, script hashes and proofs.                                      *)
(*                                                                         *)
(* Sorted and Filtered are shown to be the one order that Tx::operator<    *)
(* gives; from this addNewTxs, dropTxs and confirmedInBlock turn a mempool *)
(* that is what its transactions make it (Exact) into another one, under   *)
(* conditions on which transactions may come or go.  IInv states what the  *)
(* tasks must know for those conditions to hold: that bitcoind's chain and *)
(* pool are valid, that our mempool is disjoint from our blocks and is fed *)
(* by them, and that what a task downloads fits both.                      *)
(***************************************************************************)
EXTENDS MempoolSync, FunctionTheorems, FiniteSetTheorems, SequenceTheorems,
        WellFoundedInduction, TLAPS

-----------------------------------------------------------------------------
(* Sorted sequences *)

(* s has the elements of S, once each, and those that R puts first before    *)
(* the others.                                                               *)
Enumerates(s, S, R) ==
    /\ s \in Seq(S)
    /\ \A x \in S : \E i \in 1 .. Len(s) : s[i] = x
    /\ \A i, j \in 1 .. Len(s) : i < j => <<s[i], s[j]>> \in R

Asymmetric(R, S) == \A x, y \in S : <<x, y>> \in R => <<y, x>> \notin R

Less == {p \in Nat \X Nat : p[1] < p[2]}

(* Natural numbers have a least one. *)
LEMMA LeastNatural ==
    ASSUME NEW S, S \subseteq Nat, S # {}
    PROVE  \E m \in S : \A k \in S : m <= k
<1>1. PICK m \in S : \A k \in S : ~ (<<k, m>> \in OpToRel(<, Nat))
  BY NatLessThanWellFounded, WFMin
<1>2. \A k \in S : ~ (k < m)
  BY <1>1 DEF OpToRel
<1> QED BY <1>2

(* No element comes twice. *)
LEMMA OnceEach ==
    ASSUME NEW S, NEW R, Asymmetric(R, S),
           NEW s, Enumerates(s, S, R)
    PROVE  /\ Len(s) \in Nat /\ DOMAIN s = 1 .. Len(s)
           /\ \A i \in 1 .. Len(s) : s[i] \in S
           /\ \A x \in S : \E i \in 1 .. Len(s) : s[i] = x
           /\ \A i, j \in 1 .. Len(s) : i < j => <<s[i], s[j]>> \in R
           /\ \A i, j \in 1 .. Len(s) : s[i] = s[j] => i = j
<1>1. s \in Seq(S) /\ Len(s) \in Nat /\ DOMAIN s = 1 .. Len(s)
  BY DEF Enumerates
<1>2. \A i \in 1 .. Len(s) : s[i] \in S
  BY <1>1
<1>3. \A i, j \in 1 .. Len(s) : i < j => <<s[i], s[j]>> \in R
  BY DEF Enumerates
<1>4. \A i, j \in 1 .. Len(s) : i < j => s[i] # s[j]
  BY <1>2, <1>3 DEF Asymmetric
<1>5. \A i, j \in 1 .. Len(s) : s[i] = s[j] => i = j
  BY <1>1, <1>4
<1> QED BY <1>1, <1>2, <1>3, <1>5 DEF Enumerates

(* Two sequences that differ, differ first somewhere. *)
LEMMA OneIsPrefix ==
    ASSUME NEW S, NEW R, Asymmetric(R, S),
           NEW s, NEW t, Enumerates(s, S, R), Enumerates(t, S, R)
    PROVE  \A i \in 1 .. Len(s) : i <= Len(t) /\ s[i] = t[i]
<1> DEFINE m == Len(s)
           n == Len(t)
           Differ == {i \in 1 .. m : i > n \/ s[i] # t[i]}
<1>1. /\ m \in Nat /\ \A i \in 1 .. m : s[i] \in S
      /\ \A x \in S : \E i \in 1 .. m : s[i] = x
      /\ \A i, j \in 1 .. m : i < j => <<s[i], s[j]>> \in R
      /\ \A i, j \in 1 .. m : s[i] = s[j] => i = j
  BY OnceEach
<1>2. /\ n \in Nat /\ \A i \in 1 .. n : t[i] \in S
      /\ \A x \in S : \E i \in 1 .. n : t[i] = x
      /\ \A i, j \in 1 .. n : i < j => <<t[i], t[j]>> \in R
      /\ \A i, j \in 1 .. n : t[i] = t[j] => i = j
  BY OnceEach
<1> HIDE DEF m, n
<1>3. SUFFICES ASSUME Differ # {} PROVE FALSE
  BY <1>1, <1>2 DEF m, n
<1>4. PICK i \in Differ : \A j \in Differ : i <= j
  <2>1. Differ \subseteq Nat
    BY <1>1
  <2> QED BY <1>3, <2>1, LeastNatural
<1>5. i \in 1 .. m /\ i \in Nat /\ (i > n \/ s[i] # t[i])
  BY <1>1, <1>4
<1>6. \A k \in 1 .. m : k < i => k <= n /\ s[k] = t[k]
  BY <1>1, <1>2, <1>4, <1>5
<1> HIDE DEF Differ
<1>7. PICK k \in 1 .. n : t[k] = s[i]
  BY <1>1, <1>2, <1>5
<1>8. ~ (k < i)
  <2>1. SUFFICES ASSUME k < i PROVE FALSE
    OBVIOUS
  <2>2. k \in 1 .. m /\ s[k] = t[k]
    BY <1>1, <1>2, <1>5, <1>6, <2>1
  <2>3. k = i
    BY <1>1, <1>5, <1>7, <2>2
  <2> QED BY <1>2, <2>1, <2>3
<1>9. i \in 1 .. n /\ t[i] # s[i] /\ i < k
  BY <1>1, <1>2, <1>5, <1>7, <1>8
<1>10. PICK l \in 1 .. m : s[l] = t[i]
  BY <1>1, <1>2, <1>9
<1>11. ~ (l < i)
  <2>1. SUFFICES ASSUME l < i PROVE FALSE
    OBVIOUS
  <2>2. l \in 1 .. n /\ s[l] = t[l]
    BY <1>1, <1>2, <1>6, <2>1
  <2>3. l = i
    BY <1>2, <1>9, <1>10, <2>2
  <2> QED BY <1>2, <2>1, <2>3
<1>12. i < l
  BY <1>1, <1>5, <1>9, <1>10, <1>11
<1>13. <<s[i], t[i]>> \in R
  BY <1>1, <1>5, <1>10, <1>12
<1>14. <<t[i], s[i]>> \in R
  BY <1>2, <1>7, <1>9
<1>15. s[i] \in S /\ t[i] \in S
  BY <1>1, <1>2, <1>5, <1>9
<1> QED BY <1>13, <1>14, <1>15 DEF Asymmetric

(* There is one sequence at most of the elements of a set in a given order. *)
LEMMA OneOrder ==
    ASSUME NEW S, NEW R, Asymmetric(R, S),
           NEW s, NEW t, Enumerates(s, S, R), Enumerates(t, S, R)
    PROVE  s = t
<1>1. /\ \A i \in 1 .. Len(s) : i <= Len(t) /\ s[i] = t[i]
      /\ \A i \in 1 .. Len(t) : i <= Len(s) /\ s[i] = t[i]
  BY OneIsPrefix
<1>2. s \in Seq(S) /\ t \in Seq(S) /\ Len(s) \in Nat /\ Len(t) \in Nat
  BY DEF Enumerates
<1>3. Len(s) = Len(t)
  <2>1. ~ (Len(s) < Len(t)) /\ ~ (Len(t) < Len(s))
    <3>1. ASSUME Len(s) < Len(t) PROVE FALSE
      <4>1. Len(t) \in 1 .. Len(t)
        BY <1>2, <3>1
      <4> QED BY <1>1, <1>2, <3>1, <4>1
    <3>2. ASSUME Len(t) < Len(s) PROVE FALSE
      <4>1. Len(s) \in 1 .. Len(s)
        BY <1>2, <3>2
      <4> QED BY <1>1, <1>2, <3>2, <4>1
    <3> QED BY <3>1, <3>2
  <2> QED BY <1>2, <2>1
<1> QED BY <1>1, <1>2, <1>3

(* In a finite set of numbers, every rank below the size of the set is the  *)
(* rank of an element, so that InOrder has a k-th one.                      *)
LEMMA RanksAreFilled ==
    ASSUME NEW S, S \subseteq Nat, IsFiniteSet(S), NEW i \in Nat, i < Cardinality(S)
    PROVE  \E t \in S : Cardinality({u \in S : u < t}) = i
<1> DEFINE rank(t) == Cardinality({u \in S : u < t})
           Bad == {j \in Nat : j < Cardinality(S) /\ ~ \E t \in S : rank(t) = j}
<1> SUFFICES ASSUME Bad # {} PROVE FALSE
  OBVIOUS
<1>1. Bad \subseteq Nat
  OBVIOUS
<1>2. PICK j \in Bad : \A k \in Bad : j <= k
  BY <1>1, LeastNatural
<1>3. j \in Nat /\ j < Cardinality(S) /\ ~ \E t \in S : rank(t) = j
  OBVIOUS
<1>4. Cardinality(S) \in Nat
  BY FS_CardinalityType
<1>5. CASE j = 0
  <2>1. S # {}
    BY <1>3, <1>4, <1>5, FS_EmptySet
  <2>2. PICK t \in S : \A k \in S : t <= k
    BY <2>1, LeastNatural
  <2>a. \A u \in S : ~ (u < t)
    BY <2>2
  <2>3. {u \in S : u < t} = {}
    BY <2>a
  <2>4. rank(t) = 0
    BY <2>3, FS_EmptySet
  <2> QED BY <1>3, <1>5, <2>4
<1>6. CASE j # 0
  <2>1. j - 1 \in Nat /\ j - 1 < Cardinality(S) /\ ~ (j <= j - 1)
    BY <1>3, <1>4, <1>6
  <2>2. j - 1 \notin Bad
    BY <1>2, <2>1
  <2>3. PICK t \in S : rank(t) = j - 1
    BY <2>1, <2>2
  <2> DEFINE below == {u \in S : u < t}
             above == {u \in S : t < u}
  <2>4. IsFiniteSet(below) /\ Cardinality(below) = j - 1
    <3>1. below \in SUBSET S
      OBVIOUS
    <3> QED BY <2>3, <3>1, FS_Subset
  <2>5. IsFiniteSet(below \cup {t}) /\ Cardinality(below \cup {t}) = j
    <3>1. t \notin below
      OBVIOUS
    <3>2. Cardinality(below \cup {t}) = Cardinality(below) + 1 /\ IsFiniteSet(below \cup {t})
      BY <2>4, <3>1, FS_AddElement
    <3> QED BY <1>3, <2>4, <3>2
  <2>6. above # {}
    <3> SUFFICES ASSUME above = {} PROVE FALSE
      OBVIOUS
    <3>1. \A u \in S : u < t \/ u = t
      OBVIOUS
    <3>2. S = below \cup {t}
      BY <3>1
    <3>3. Cardinality(S) = j
      BY <2>5, <3>2
    <3> QED BY <1>3, <1>4, <3>3
  <2>7. above \subseteq Nat
    OBVIOUS
  <2>8. PICK v \in above : \A k \in above : v <= k
    BY <2>6, <2>7, LeastNatural
  <2>9. \A u \in S : u < v <=> u < t \/ u = t
    BY <2>8
  <2>10. {u \in S : u < v} = below \cup {t}
    BY <2>9
  <2> QED BY <1>3, <2>5, <2>8, <2>10
<1> QED BY <1>5, <1>6

(* InOrder puts numbers in their order. *)
LEMMA InOrderIsOrder ==
    ASSUME NEW S, IsFiniteSet(S), S \subseteq Nat
    PROVE  Enumerates(InOrder(S), S, Less)
<1> DEFINE n == Cardinality(S)
           below(t) == {u \in S : u < t}
           rank(t) == Cardinality(below(t))
           w == [k \in 1 .. n |-> CHOOSE t \in S : rank(t) = k - 1]
<1>1. n \in Nat
  BY FS_CardinalityType
<1>2. \A t \in S : IsFiniteSet(below(t)) /\ rank(t) \in Nat
  <2>1. \A t \in S : below(t) \in SUBSET S
    OBVIOUS
  <2> HIDE DEF below
  <2> QED BY <2>1, FS_Subset, FS_CardinalityType
<1>3. ASSUME NEW t \in S, NEW u \in S, t < u
      PROVE  rank(t) < rank(u)
  <2>1. below(t) \in SUBSET below(u)
    <3>1. \A v \in S : v < t => v < u
      BY <1>3
    <3> QED BY <3>1
  <2>2. t \in below(u) /\ t \notin below(t)
    BY <1>3
  <2>3. below(t) # below(u)
    BY <2>2
  <2> HIDE DEF below
  <2>4. rank(t) <= rank(u) /\ rank(t) # rank(u)
    BY <1>2, <2>1, <2>3, FS_Subset
  <2>5. rank(t) \in Nat /\ rank(u) \in Nat
    BY <1>2
  <2> HIDE DEF rank
  <2> QED BY <2>4, <2>5
<1>4. \A t \in S : rank(t) < n
  <2>1. TAKE t \in S
  <2>2. below(t) \in SUBSET S /\ t \notin below(t)
    OBVIOUS
  <2>3. below(t) # S
    BY <2>2
  <2> HIDE DEF below
  <2>4. rank(t) <= n /\ rank(t) # n
    BY <2>2, <2>3, FS_Subset
  <2>5. rank(t) \in Nat
    BY <1>2
  <2> HIDE DEF rank, n
  <2> QED BY <1>1, <2>4, <2>5
<1>5. \A k \in 1 .. n : \E t \in S : rank(t) = k - 1
  <2>1. TAKE k \in 1 .. n
  <2>2. k - 1 \in Nat /\ k - 1 < n
    BY <1>1
  <2> QED BY <2>2, RanksAreFilled
<1>6. \A k \in 1 .. n : w[k] \in S /\ rank(w[k]) = k - 1
  BY <1>5
<1>7. w \in [1 .. n -> S] /\ InOrder(S) = w
  BY <1>6 DEF InOrder
<1>a. \A t \in S : rank(t) \in Nat
  BY <1>2
<1> HIDE DEF w, rank, n, below
<1>8. w \in Seq(S) /\ Len(w) = n
  BY <1>1, <1>7
<1>9. \A x \in S : \E i \in 1 .. n : w[i] = x
  <2>1. TAKE x \in S
  <2>2. rank(x) + 1 \in 1 .. n
    BY <1>1, <1>a, <1>4
  <2>3. PICK y \in S : y = w[rank(x) + 1] /\ rank(y) = rank(x)
    <3>1. w[rank(x) + 1] \in S /\ rank(w[rank(x) + 1]) = rank(x)
      BY <1>a, <1>6, <2>2
    <3> QED BY <3>1
  <2>4. ~ (y < x) /\ ~ (x < y)
    <3>1. rank(x) \in Nat /\ rank(y) \in Nat /\ ~ (rank(x) < rank(y)) /\ ~ (rank(y) < rank(x))
      BY <1>a, <2>3
    <3> QED BY <1>3, <3>1
  <2>5. x \in Nat /\ y \in Nat
    BY <2>3
  <2>6. y = x
    BY <2>4, <2>5
  <2> QED BY <2>2, <2>3, <2>6
<1>10. \A i, j \in 1 .. n : i < j => <<w[i], w[j]>> \in Less
  <2>1. SUFFICES ASSUME NEW i \in 1 .. n, NEW j \in 1 .. n, i < j
                 PROVE  <<w[i], w[j]>> \in Less
    OBVIOUS
  <2>2. w[i] \in S /\ w[j] \in S /\ rank(w[i]) = i - 1 /\ rank(w[j]) = j - 1
    BY <1>6
  <2>3. w[i] # w[j]
    BY <1>1, <2>1, <2>2
  <2>4. ~ (w[j] < w[i])
    <3>1. ~ (rank(w[j]) < rank(w[i]))
      BY <1>1, <2>1, <2>2
    <3> QED BY <1>3, <2>2, <3>1
  <2>5. w[i] \in Nat /\ w[j] \in Nat
    BY <2>2
  <2>6. w[i] < w[j]
    BY <2>3, <2>4, <2>5
  <2> QED BY <2>5, <2>6 DEF Less
<1> QED BY <1>7, <1>8, <1>9, <1>10 DEF Enumerates

-----------------------------------------------------------------------------
(* The vectors of the mempool *)

(* Tx::operator< as a relation. *)
TxOrder(txs) ==
    {p \in Txs \X Txs : \/ ~ hasUnconfirmedParents(txs, p[1]) /\ hasUnconfirmedParents(txs, p[2])
                        \/ /\ hasUnconfirmedParents(txs, p[1]) <=> hasUnconfirmedParents(txs, p[2])
                           /\ p[1] < p[2]}

(* Of two transactions one comes first. *)
LEMMA TxOrderIsAsymmetric ==
    ASSUME NEW txs, NEW ts, ts \subseteq Txs
    PROVE  Asymmetric(TxOrder(txs), ts)
<1>1. \A t, u \in ts : t \in Nat /\ u \in Nat
  BY MempoolConstants
<1> QED BY <1>1 DEF Asymmetric, TxOrder

(* Sets of transactions are finite sets of numbers. *)
LEMMA TxsAreNumbers ==
    ASSUME NEW ts, ts \subseteq Txs
    PROVE  ts \subseteq Nat /\ IsFiniteSet(ts)
BY MempoolConstants, FS_Subset

(* Sorted has the order of Tx::operator<. *)
LEMMA SortedIsOrder ==
    ASSUME NEW txs, NEW ts, ts \subseteq Txs
    PROVE  Enumerates(Sorted(txs, ts), ts, TxOrder(txs))
<1> DEFINE late == {t \in ts : hasUnconfirmedParents(txs, t)}
           a == InOrder(ts \ late)
           b == InOrder(late)
           s == a \o b
<1>1. Enumerates(a, ts \ late, Less) /\ Enumerates(b, late, Less)
  <2>1. ts \ late \subseteq Txs /\ late \subseteq Txs
    OBVIOUS
  <2> QED BY <2>1, TxsAreNumbers, InOrderIsOrder
<1>2. Sorted(txs, ts) = s
  BY DEF Sorted
<1> HIDE DEF a, b
<1>3. /\ a \in Seq(ts) /\ \A i \in 1 .. Len(a) : a[i] \in ts \ late
      /\ b \in Seq(ts) /\ \A i \in 1 .. Len(b) : b[i] \in late
      /\ Len(a) \in Nat /\ Len(b) \in Nat
  BY <1>1 DEF Enumerates
<1>4. /\ s \in Seq(ts) /\ Len(s) = Len(a) + Len(b)
      /\ \A i \in 1 .. Len(a) : s[i] = a[i]
      /\ \A i \in 1 .. Len(b) : s[i + Len(a)] = b[i]
  BY <1>3
<1> HIDE DEF s
<1>5. \A x \in ts : \E i \in 1 .. Len(s) : s[i] = x
  <2>1. ASSUME NEW x \in ts PROVE \E i \in 1 .. Len(s) : s[i] = x
    <3>1. CASE x \in late
      <4>1. PICK i \in 1 .. Len(b) : b[i] = x
        BY <1>1, <3>1 DEF Enumerates
      <4>2. i + Len(a) \in 1 .. Len(s) /\ s[i + Len(a)] = x
        BY <1>3, <1>4, <4>1
      <4> QED BY <4>2
    <3>2. CASE x \notin late
      <4>1. PICK i \in 1 .. Len(a) : a[i] = x
        BY <1>1, <3>2 DEF Enumerates
      <4>2. i \in 1 .. Len(s) /\ s[i] = x
        BY <1>3, <1>4, <4>1
      <4> QED BY <4>2
    <3> QED BY <3>1, <3>2
  <2> QED BY <2>1
<1>6. \A i, j \in 1 .. Len(s) : i < j => <<s[i], s[j]>> \in TxOrder(txs)
  <2> SUFFICES ASSUME NEW i \in 1 .. Len(s), NEW j \in 1 .. Len(s), i < j
               PROVE  <<s[i], s[j]>> \in TxOrder(txs)
    OBVIOUS
  <2>1. s[i] \in ts /\ s[j] \in ts
    BY <1>4
  <2>2. SUFFICES \/ ~ hasUnconfirmedParents(txs, s[i]) /\ hasUnconfirmedParents(txs, s[j])
                 \/ /\ hasUnconfirmedParents(txs, s[i]) <=> hasUnconfirmedParents(txs, s[j])
                    /\ s[i] < s[j]
    BY <2>1 DEF TxOrder
  <2>3. CASE j <= Len(a)
    <3>1. i \in 1 .. Len(a) /\ j \in 1 .. Len(a) /\ s[i] = a[i] /\ s[j] = a[j]
      BY <1>3, <1>4, <2>3
    <3>2. a[i] < a[j]
      BY <1>1, <3>1 DEF Enumerates, Less
    <3>3. ~ hasUnconfirmedParents(txs, a[i]) /\ ~ hasUnconfirmedParents(txs, a[j])
      BY <1>3, <3>1
    <3> QED BY <3>1, <3>2, <3>3
  <2>4. CASE j > Len(a) /\ i <= Len(a)
    <3>1. i \in 1 .. Len(a) /\ j - Len(a) \in 1 .. Len(b) /\ s[i] = a[i] /\ s[j] = b[j - Len(a)]
      BY <1>3, <1>4, <2>4
    <3>2. ~ hasUnconfirmedParents(txs, a[i]) /\ hasUnconfirmedParents(txs, b[j - Len(a)])
      BY <1>3, <3>1
    <3> QED BY <3>1, <3>2
  <2>5. CASE i > Len(a)
    <3>1. /\ i - Len(a) \in 1 .. Len(b) /\ j - Len(a) \in 1 .. Len(b) /\ i - Len(a) < j - Len(a)
          /\ s[i] = b[i - Len(a)] /\ s[j] = b[j - Len(a)]
      <4>1. i - Len(a) \in 1 .. Len(b) /\ j - Len(a) \in 1 .. Len(b)
        BY <1>3, <1>4, <2>5
      <4>2. (i - Len(a)) + Len(a) = i /\ (j - Len(a)) + Len(a) = j /\ i - Len(a) < j - Len(a)
        BY <1>3
      <4>3. s[i] = b[i - Len(a)] /\ s[j] = b[j - Len(a)]
        BY <1>4, <4>1, <4>2
      <4> QED BY <4>1, <4>2, <4>3
    <3>2. b[i - Len(a)] < b[j - Len(a)]
      BY <1>1, <3>1 DEF Enumerates, Less
    <3>3. hasUnconfirmedParents(txs, b[i - Len(a)]) /\ hasUnconfirmedParents(txs, b[j - Len(a)])
      BY <1>3, <3>1
    <3> QED BY <3>1, <3>2, <3>3
  <2> QED BY <1>3, <1>4, <2>3, <2>4, <2>5
<1> QED BY <1>2, <1>4, <1>5, <1>6 DEF Enumerates

(* A vector in the order of Tx::operator< is Sorted of its elements. *)
LEMMA OrderIsSorted ==
    ASSUME NEW txs, NEW ts, ts \subseteq Txs, NEW s, Enumerates(s, ts, TxOrder(txs))
    PROVE  s = Sorted(txs, ts)
BY SortedIsOrder, TxOrderIsAsymmetric, OneOrder

(* What is taken out of a vector does not change the order of the others. *)
LEMMA FilteredIsOrder ==
    ASSUME NEW S, NEW R, Asymmetric(R, S), NEW s, Enumerates(s, S, R), NEW ts
    PROVE  Enumerates(Filtered(s, ts), S \ ts, R)
<1> DEFINE K == {i \in DOMAIN s : s[i] \notin ts}
           kept == InOrder(K)
           w == [k \in DOMAIN kept |-> s[kept[k]]]
<1>1. /\ Len(s) \in Nat /\ DOMAIN s = 1 .. Len(s)
      /\ \A i \in 1 .. Len(s) : s[i] \in S
      /\ \A x \in S : \E i \in 1 .. Len(s) : s[i] = x
      /\ \A i, j \in 1 .. Len(s) : i < j => <<s[i], s[j]>> \in R
  BY OnceEach
<1>2. Enumerates(kept, K, Less)
  <2>1. K \in SUBSET (1 .. Len(s)) /\ K \subseteq Nat
    BY <1>1
  <2>2. IsFiniteSet(1 .. Len(s))
    BY <1>1, FS_Interval
  <2>3. IsFiniteSet(K)
    BY <2>1, <2>2, FS_Subset
  <2> QED BY <2>1, <2>3, InOrderIsOrder
<1>3. Filtered(s, ts) = w
  BY DEF Filtered
<1> HIDE DEF kept
<1>4. /\ Len(kept) \in Nat /\ DOMAIN kept = 1 .. Len(kept)
      /\ \A k \in 1 .. Len(kept) : kept[k] \in K
  BY <1>2 DEF Enumerates
<1>5. w \in Seq(S \ ts) /\ Len(w) = Len(kept)
  <2>1. w \in [1 .. Len(kept) -> S \ ts]
    BY <1>1, <1>4
  <2> QED BY <1>4, <2>1
<1>6. \A x \in S \ ts : \E k \in 1 .. Len(kept) : w[k] = x
  <2>1. ASSUME NEW x \in S \ ts PROVE \E k \in 1 .. Len(kept) : w[k] = x
    <3>1. PICK i \in K : s[i] = x
      BY <1>1
    <3>2. PICK k \in 1 .. Len(kept) : kept[k] = i
      BY <1>2 DEF Enumerates
    <3> QED BY <1>4, <3>1, <3>2
  <2> QED BY <2>1
<1>7. \A i, j \in 1 .. Len(kept) : i < j => <<w[i], w[j]>> \in R
  <2> SUFFICES ASSUME NEW i \in 1 .. Len(kept), NEW j \in 1 .. Len(kept), i < j
               PROVE  <<w[i], w[j]>> \in R
    OBVIOUS
  <2>1. kept[i] < kept[j]
    BY <1>2 DEF Enumerates, Less
  <2>2. kept[i] \in 1 .. Len(s) /\ kept[j] \in 1 .. Len(s)
    BY <1>1, <1>4
  <2> QED BY <1>1, <1>4, <2>1, <2>2
<1> QED BY <1>3, <1>5, <1>6, <1>7 DEF Enumerates

(* Taken out of a sorted vector, where the others keep their place. *)
LEMMA FilteredIsSorted ==
    ASSUME NEW txs, NEW later, NEW S, S \subseteq Txs, NEW ts,
           \A t \in S \ ts : hasUnconfirmedParents(txs, t) <=> hasUnconfirmedParents(later, t)
    PROVE  Filtered(Sorted(txs, S), ts) = Sorted(later, S \ ts)
<1> DEFINE w == Filtered(Sorted(txs, S), ts)
<1>1. Enumerates(w, S \ ts, TxOrder(txs))
  BY SortedIsOrder, TxOrderIsAsymmetric, FilteredIsOrder
<1> HIDE DEF w
<1>2. Enumerates(w, S \ ts, TxOrder(later))
  <2>1. \A t, u \in S \ ts : <<t, u>> \in TxOrder(txs) => <<t, u>> \in TxOrder(later)
    BY DEF TxOrder
  <2>2. \A i \in 1 .. Len(w) : w[i] \in S \ ts
    BY <1>1 DEF Enumerates
  <2> QED BY <1>1, <2>1, <2>2 DEF Enumerates
<1>3. S \ ts \subseteq Txs
  OBVIOUS
<1>4. w = Sorted(later, S \ ts)
  BY <1>2, <1>3, OrderIsSorted
<1> QED BY <1>4 DEF w

(* Nothing but who has unconfirmed parents counts. *)
LEMMA SortedAgain ==
    ASSUME NEW txs, NEW later, NEW S,
           \A t \in S : hasUnconfirmedParents(txs, t) <=> hasUnconfirmedParents(later, t)
    PROVE  Sorted(txs, S) = Sorted(later, S)
<1>1. {t \in S : hasUnconfirmedParents(txs, t)} = {t \in S : hasUnconfirmedParents(later, t)}
  OBVIOUS
<1> QED BY <1>1 DEF Sorted

(* The vector has the transactions it was made of. *)
LEMMA SortedSet ==
    ASSUME NEW txs, NEW S, S \subseteq Txs
    PROVE  /\ Sorted(txs, S) \in Seq(S)
           /\ ToSet(Sorted(txs, S)) = S
           /\ Sorted(txs, S) = <<>> <=> S = {}
<1> DEFINE s == Sorted(txs, S)
<1>1. Enumerates(s, S, TxOrder(txs))
  BY SortedIsOrder
<1> HIDE DEF s
<1>2. s \in Seq(S) /\ \A x \in S : \E i \in 1 .. Len(s) : s[i] = x
  BY <1>1 DEF Enumerates
<1>3. ToSet(s) = S
  BY <1>2 DEF ToSet
<1>4. s = <<>> <=> S = {}
  <2>1. ASSUME s = <<>> PROVE S = {}
    BY <1>2, <2>1
  <2>2. ASSUME S = {} PROVE s = <<>>
    <3>1. Len(s) = 0
      BY <1>2, <2>2
    <3> QED BY <1>2, <3>1
  <2> QED BY <2>1, <2>2
<1> QED BY <1>2, <1>3, <1>4 DEF s

-----------------------------------------------------------------------------
(* The structure that a set of transactions makes *)

ConfOf(t, ts)     == Ins[t] \ CreatedBy(Ins[t], ts)
UnconfOf(t, ts)   == CreatedBy(Ins[t], ts)
UtxoOf(t, ts)     == Outs[t] \ UNION {Ins[u] : u \in ts}
ParentsOf(t, ts)  == Creators(Ins[t], ts)
ChildrenOf(t, ts) == {u \in ts : Ins[u] \cap Outs[t] # {}}

(* A transaction of the mempool as its five sets. *)
TxRecord(a, b, c, d, e) == [conf |-> a, unconf |-> b, utxo |-> c, parents |-> d, children |-> e]

TxOf(t, ts) ==
    TxRecord(ConfOf(t, ts), UnconfOf(t, ts), UtxoOf(t, ts), ParentsOf(t, ts), ChildrenOf(t, ts))

TxsOf(ts) == [t \in ts |-> TxOf(t, ts)]

Of(h, ts) == {t \in ts : h \in ShsOf(t)}

HxOf(txs, ts) == [h \in ShSet |-> Sorted(txs, Of(h, ts))]

(* MempoolIsExact of a value. *)
Exact(m) == m.txs = TxsOf(DOMAIN m.txs) /\ m.hx = HxOf(m.txs, DOMAIN m.txs)

(* It is what Rebuilt says. *)
LEMMA ExactIsRebuilt == Exact(mp) <=> MempoolIsExact
<1>1. Rebuilt(InMempool(mp)) = [txs |-> TxsOf(DOMAIN mp.txs),
                                hx  |-> HxOf(TxsOf(DOMAIN mp.txs), DOMAIN mp.txs)]
  BY DEF Rebuilt, TxsOf, TxOf, TxRecord, HxOf, Of, ConfOf, UnconfOf, UtxoOf, ParentsOf, ChildrenOf, InMempool
<1> QED BY <1>1 DEF MempoolIsExact, Exact

(* What the sets of a transaction have. *)
LEMMA Members ==
    ASSUME NEW t, NEW ts
    PROVE  /\ \A o : o \in ConfOf(t, ts) <=> o \in Ins[t] /\ ~ \E u \in ts : o \in Outs[u]
           /\ \A o : o \in UnconfOf(t, ts) <=> o \in Ins[t] /\ \E u \in ts : o \in Outs[u]
           /\ \A o : o \in UtxoOf(t, ts) <=> o \in Outs[t] /\ ~ \E u \in ts : o \in Ins[u]
           /\ \A u : u \in ParentsOf(t, ts) <=> u \in ts /\ \E o \in Ins[t] : o \in Outs[u]
           /\ \A u : u \in ChildrenOf(t, ts) <=> u \in ts /\ \E o \in Ins[u] : o \in Outs[t]
<1>1. \A o : o \in UnconfOf(t, ts) <=> o \in Ins[t] /\ \E u \in ts : o \in Outs[u]
  BY DEF UnconfOf, CreatedBy
<1>2. \A o : o \in ConfOf(t, ts) <=> o \in Ins[t] /\ ~ \E u \in ts : o \in Outs[u]
  BY DEF ConfOf, CreatedBy
<1>3. \A o : o \in UtxoOf(t, ts) <=> o \in Outs[t] /\ ~ \E u \in ts : o \in Ins[u]
  BY DEF UtxoOf
<1>4. \A u : u \in ParentsOf(t, ts) <=> u \in ts /\ \E o \in Ins[t] : o \in Outs[u]
  BY DEF ParentsOf, Creators
<1>5. \A u : u \in ChildrenOf(t, ts) <=> u \in ts /\ \E o \in Ins[u] : o \in Outs[t]
  BY DEF ChildrenOf
<1> QED BY <1>1, <1>2, <1>3, <1>4, <1>5

(* The fields of a transaction of an exact mempool. *)
LEMMA Fields ==
    ASSUME NEW m, m.txs = TxsOf(DOMAIN m.txs), NEW t \in DOMAIN m.txs
    PROVE  m.txs[t] = TxOf(t, DOMAIN m.txs)
<1> DEFINE ts == DOMAIN m.txs
<1>1. TxsOf(ts)[t] = TxOf(t, ts)
  BY DEF TxsOf
<1> HIDE DEF ts
<1> QED BY <1>1 DEF ts

(* What they are. *)
LEMMA FieldsOfRecord ==
    ASSUME NEW a, NEW b, NEW c, NEW d, NEW e, NEW r, r = TxRecord(a, b, c, d, e)
    PROVE  r.conf = a /\ r.unconf = b /\ r.utxo = c /\ r.parents = d /\ r.children = e
BY DEF TxRecord

(* How the operations change them. *)
Spend(r, utxo, children)     == [r EXCEPT !.utxo = utxo, !.children = children]
Unlink(r, parents, children) == [r EXCEPT !.parents = parents, !.children = children]
Recategorize(r, conf, unconf) == [r EXCEPT !.conf = conf, !.unconf = unconf]
Credit(r, utxo)              == [r EXCEPT !.utxo = utxo]

(* Two sets change, the others stay. *)
LEMMA ChangedFields ==
    ASSUME NEW a, NEW b, NEW c, NEW d, NEW e, NEW x, NEW y, NEW r, r = TxRecord(a, b, c, d, e)
    PROVE  /\ Spend(r, x, y) = TxRecord(a, b, x, d, y)
           /\ Unlink(r, x, y) = TxRecord(a, b, c, x, y)
           /\ Recategorize(r, x, y) = TxRecord(x, y, c, d, e)
<1>1. [r EXCEPT !.utxo = x, !.children = y] = TxRecord(a, b, x, d, y)
  <2> DEFINE w == [r EXCEPT !.utxo = x, !.children = y]
  <2>1. DOMAIN w = {"conf", "unconf", "utxo", "parents", "children"} /\ w = [k \in DOMAIN w |-> w[k]]
    BY DEF TxRecord
  <2>2. w.conf = a /\ w.unconf = b /\ w.utxo = x /\ w.parents = d /\ w.children = y
    BY DEF TxRecord
  <2> HIDE DEF w
  <2>3. w = TxRecord(a, b, x, d, y)
    BY <2>1, <2>2 DEF TxRecord
  <2> QED BY <2>3 DEF w
<1>2. [r EXCEPT !.parents = x, !.children = y] = TxRecord(a, b, c, x, y)
  <2> DEFINE w == [r EXCEPT !.parents = x, !.children = y]
  <2>1. DOMAIN w = {"conf", "unconf", "utxo", "parents", "children"} /\ w = [k \in DOMAIN w |-> w[k]]
    BY DEF TxRecord
  <2>2. w.conf = a /\ w.unconf = b /\ w.utxo = c /\ w.parents = x /\ w.children = y
    BY DEF TxRecord
  <2> HIDE DEF w
  <2>3. w = TxRecord(a, b, c, x, y)
    BY <2>1, <2>2 DEF TxRecord
  <2> QED BY <2>3 DEF w
<1>3. [r EXCEPT !.conf = x, !.unconf = y] = TxRecord(x, y, c, d, e)
  <2> DEFINE w == [r EXCEPT !.conf = x, !.unconf = y]
  <2>1. DOMAIN w = {"conf", "unconf", "utxo", "parents", "children"} /\ w = [k \in DOMAIN w |-> w[k]]
    BY DEF TxRecord
  <2>2. w.conf = x /\ w.unconf = y /\ w.utxo = c /\ w.parents = d /\ w.children = e
    BY DEF TxRecord
  <2> HIDE DEF w
  <2>3. w = TxRecord(x, y, c, d, e)
    BY <2>1, <2>2 DEF TxRecord
  <2> QED BY <2>3 DEF w
<1> QED BY <1>1, <1>2, <1>3 DEF Spend, Unlink, Recategorize

(* One changes. *)
LEMMA CreditedField ==
    ASSUME NEW a, NEW b, NEW c, NEW d, NEW e, NEW x, NEW r, r = TxRecord(a, b, c, d, e)
    PROVE  Credit(r, x) = TxRecord(a, b, x, d, e)
BY DEF TxRecord, Credit

(* The same for a transaction of an exact mempool. *)
LEMMA ChangedTx ==
    ASSUME NEW t, NEW ts, NEW r, r = TxOf(t, ts), NEW x, NEW y
    PROVE  /\ r.conf = ConfOf(t, ts) /\ r.unconf = UnconfOf(t, ts) /\ r.utxo = UtxoOf(t, ts)
           /\ r.parents = ParentsOf(t, ts) /\ r.children = ChildrenOf(t, ts)
           /\ Spend(r, x, y) = TxRecord(ConfOf(t, ts), UnconfOf(t, ts), x, ParentsOf(t, ts), y)
BY FieldsOfRecord, ChangedFields DEF TxOf

(* addNewTxs makes a transaction, or changes one that is there, to what it  *)
(* must be, as long as nothing there spends from a new one.                 *)
LEMMA AddedTxs ==
    ASSUME NEW m, m.txs = TxsOf(DOMAIN m.txs), NEW new,
           new \cap DOMAIN m.txs = {},
           \A t \in DOMAIN m.txs : \A u \in new : Ins[t] \cap Outs[u] = {}
    PROVE  TxsAdded(m, new) = TxsOf(DOMAIN m.txs \cup new)
<1> DEFINE ts  == DOMAIN m.txs
           all == ts \cup new
           spent == UNION {Ins[t] : t \in new}
           spenders(t) == {c \in new : Ins[c] \cap Outs[t] # {}}
<1>1. TxsAdded(m, new) =
        [t \in all |->
           IF t \in new
           THEN [conf |-> Ins[t] \ CreatedBy(Ins[t], all), unconf |-> CreatedBy(Ins[t], all),
                 utxo |-> Outs[t] \ spent, parents |-> Creators(Ins[t], all),
                 children |-> spenders(t)]
           ELSE [m.txs[t] EXCEPT !.utxo = @ \ spent, !.children = @ \cup spenders(t)]]
  BY DEF TxsAdded, InMempool
<1>a. \A t \in ts : m.txs[t] = TxOf(t, ts)
  BY Fields
<1>b. \A t \in ts : \A u \in new : ~ \E o \in Ins[t] : o \in Outs[u]
  OBVIOUS
<1> HIDE DEF ts
<1>2. ASSUME NEW t \in new
      PROVE  [conf |-> Ins[t] \ CreatedBy(Ins[t], all), unconf |-> CreatedBy(Ins[t], all),
              utxo |-> Outs[t] \ spent, parents |-> Creators(Ins[t], all),
              children |-> spenders(t)] = TxOf(t, all)
  <2>1. Outs[t] \ spent = UtxoOf(t, all)
    <3>1. \A o : o \in Outs[t] \ spent <=> o \in Outs[t] /\ ~ \E u \in all : o \in Ins[u]
      BY <1>b, <1>2
    <3> QED BY <3>1, Members
  <2>2. spenders(t) = ChildrenOf(t, all)
    <3>1. \A u : u \in spenders(t) <=> u \in all /\ \E o \in Ins[u] : o \in Outs[t]
      BY <1>b, <1>2
    <3> QED BY <3>1, Members
  <2> QED BY <2>1, <2>2 DEF TxOf, TxRecord, ConfOf, UnconfOf, ParentsOf
<1>3. ASSUME NEW t \in ts
      PROVE  [m.txs[t] EXCEPT !.utxo = @ \ spent, !.children = @ \cup spenders(t)] = TxOf(t, all)
  <2>1. UtxoOf(t, ts) \ spent = UtxoOf(t, all)
    <3>1. \A o : o \in UtxoOf(t, ts) \ spent <=> o \in Outs[t] /\ ~ \E u \in all : o \in Ins[u]
      BY Members
    <3> QED BY <3>1, Members
  <2>2. ChildrenOf(t, ts) \cup spenders(t) = ChildrenOf(t, all)
    <3>1. \A u : u \in ChildrenOf(t, ts) \cup spenders(t) <=> u \in all /\ \E o \in Ins[u] : o \in Outs[t]
      BY Members
    <3> QED BY <3>1, Members
  <2>3. UnconfOf(t, ts) = UnconfOf(t, all)
    <3>1. \A o : o \in UnconfOf(t, ts) <=> o \in UnconfOf(t, all)
      BY <1>b, <1>3, Members
    <3> QED BY <3>1 DEF UnconfOf, CreatedBy
  <2>4. ConfOf(t, ts) = ConfOf(t, all)
    BY <2>3 DEF ConfOf, UnconfOf
  <2>5. ParentsOf(t, ts) = ParentsOf(t, all)
    <3>1. \A u : u \in ParentsOf(t, ts) <=> u \in ParentsOf(t, all)
      BY <1>b, <1>3, Members
    <3> QED BY <3>1 DEF ParentsOf, Creators
  <2> HIDE DEF spent, spenders
  <2>6. /\ m.txs[t].utxo = UtxoOf(t, ts) /\ m.txs[t].children = ChildrenOf(t, ts)
        /\ Spend(m.txs[t], UtxoOf(t, all), ChildrenOf(t, all)) =
             TxRecord(ConfOf(t, ts), UnconfOf(t, ts), UtxoOf(t, all), ParentsOf(t, ts), ChildrenOf(t, all))
    BY <1>a, ChangedTx
  <2>7. [m.txs[t] EXCEPT !.utxo = @ \ spent, !.children = @ \cup spenders(t)] =
          Spend(m.txs[t], m.txs[t].utxo \ spent, m.txs[t].children \cup spenders(t))
    BY DEF Spend
  <2>8. m.txs[t].utxo \ spent = UtxoOf(t, all) /\ m.txs[t].children \cup spenders(t) = ChildrenOf(t, all)
    BY <2>1, <2>2, <2>6
  <2>9. TxOf(t, all) =
          TxRecord(ConfOf(t, ts), UnconfOf(t, ts), UtxoOf(t, all), ParentsOf(t, ts), ChildrenOf(t, all))
    BY <2>3, <2>4, <2>5 DEF TxOf
  <2> QED BY <2>6, <2>7, <2>8, <2>9
<1> HIDE DEF spent, spenders
<1>4. \A t \in all : TxsAdded(m, new)[t] = TxOf(t, all)
  <2>1. ASSUME NEW t \in new PROVE TxsAdded(m, new)[t] = TxOf(t, all)
    BY <1>1, <1>2, <2>1
  <2>2. ASSUME NEW t \in ts PROVE TxsAdded(m, new)[t] = TxOf(t, all)
    <3>1. t \notin new /\ t \in all
      BY DEF ts
    <3>2. TxsAdded(m, new)[t] = [m.txs[t] EXCEPT !.utxo = @ \ spent, !.children = @ \cup spenders(t)]
      BY <1>1, <3>1
    <3> QED BY <1>3, <3>2
  <2> QED BY <2>1, <2>2
<1>5. TxsAdded(m, new) = [t \in all |-> TxsAdded(m, new)[t]]
  BY <1>1
<1>6. TxsAdded(m, new) = [t \in all |-> TxOf(t, all)]
  BY <1>4, <1>5
<1> QED BY <1>6 DEF TxsOf, ts

(* Who has unconfirmed parents in an exact mempool. *)
LEMMA Late ==
    ASSUME NEW txs, NEW ts, txs = TxsOf(ts), NEW t \in ts
    PROVE  hasUnconfirmedParents(txs, t) <=> \E u \in ts : \E o \in Ins[t] : o \in Outs[u]
<1>1. txs[t] = TxOf(t, ts)
  BY DEF TxsOf
<1>2. txs[t].parents = ParentsOf(t, ts)
  BY <1>1, ChangedTx
<1> QED BY <1>2, Members DEF hasUnconfirmedParents

(* The vectors of an exact mempool. *)
LEMMA Vectors ==
    ASSUME NEW m, Exact(m), DOMAIN m.txs \subseteq Txs, NEW h \in ShSet
    PROVE  /\ Of(h, DOMAIN m.txs) \subseteq Txs /\ m.hx[h] = Sorted(m.txs, Of(h, DOMAIN m.txs))
           /\ m.hx[h] \in Seq(Of(h, DOMAIN m.txs)) /\ ToSet(m.hx[h]) = Of(h, DOMAIN m.txs)
           /\ m.hx[h] = <<>> <=> Of(h, DOMAIN m.txs) = {}
<1>1. m.hx[h] = Sorted(m.txs, Of(h, DOMAIN m.txs))
  BY DEF Exact, HxOf
<1>2. Of(h, DOMAIN m.txs) \subseteq Txs
  BY DEF Of
<1> QED BY <1>1, <1>2, SortedSet

(* addNewTxs keeps the mempool exact. *)
LEMMA AddedIsExact ==
    ASSUME NEW m, Exact(m), DOMAIN m.txs \subseteq Txs, NEW new, new \subseteq Txs, NEW affected,
           new \cap DOMAIN m.txs = {},
           \A t \in DOMAIN m.txs : \A u \in new : Ins[t] \cap Outs[u] = {}
    PROVE  /\ Exact(addNewTxs(m, new, affected))
           /\ DOMAIN addNewTxs(m, new, affected).txs = DOMAIN m.txs \cup new
<1> DEFINE ts  == DOMAIN m.txs
           all == ts \cup new
           a   == addNewTxs(m, new, affected)
<1>1. a.txs = TxsOf(all)
  <2>1. a.txs = TxsAdded(m, new)
    BY DEF addNewTxs
  <2> HIDE DEF a
  <2> QED BY <2>1, AddedTxs DEF Exact
<1>2. a.hx = [h \in ShSet |-> IF h \in affected \cup ShsOfAll(new)
                              THEN Sorted(a.txs, ToSet(m.hx[h]) \cup Of(h, new)) ELSE m.hx[h]]
  BY DEF addNewTxs, Of
<1> HIDE DEF a
<1>3. DOMAIN a.txs = all
  BY <1>1 DEF TxsOf
<1>4. ASSUME NEW h \in ShSet
      PROVE  a.hx[h] = Sorted(a.txs, Of(h, all))
  <2>1. Of(h, all) = Of(h, ts) \cup Of(h, new)
    BY DEF Of
  <2>2. m.hx[h] = Sorted(m.txs, Of(h, ts)) /\ ToSet(m.hx[h]) = Of(h, ts)
    BY Vectors
  <2>3. CASE h \in affected \cup ShsOfAll(new)
    BY <1>2, <2>1, <2>2, <2>3
  <2>4. CASE h \notin affected \cup ShsOfAll(new)
    <3>1. Of(h, new) = {}
      BY <2>4 DEF ShsOfAll, Of
    <3>2. \A t \in Of(h, ts) : hasUnconfirmedParents(m.txs, t) <=> hasUnconfirmedParents(a.txs, t)
      <4> SUFFICES ASSUME NEW t \in ts
                   PROVE  hasUnconfirmedParents(m.txs, t) <=> hasUnconfirmedParents(a.txs, t)
        BY DEF Of
      <4>1. hasUnconfirmedParents(m.txs, t) <=> \E u \in ts : \E o \in Ins[t] : o \in Outs[u]
        BY Late DEF Exact
      <4>2. hasUnconfirmedParents(a.txs, t) <=> \E u \in all : \E o \in Ins[t] : o \in Outs[u]
        BY <1>1, Late
      <4>3. ~ \E u \in new : \E o \in Ins[t] : o \in Outs[u]
        OBVIOUS
      <4> QED BY <4>1, <4>2, <4>3
    <3>3. Sorted(m.txs, Of(h, ts)) = Sorted(a.txs, Of(h, ts))
      BY <3>2, SortedAgain
    <3>4. a.hx[h] = m.hx[h]
      BY <1>2, <2>4
    <3>5. Of(h, ts) \cup Of(h, new) = Of(h, ts)
      BY <3>1
    <3> QED BY <2>1, <2>2, <3>3, <3>4, <3>5
  <2> QED BY <2>3, <2>4
<1>5. a.hx = [h \in ShSet |-> a.hx[h]]
  BY <1>2
<1>6. a.hx = HxOf(a.txs, all)
  BY <1>4, <1>5 DEF HxOf
<1>7. Exact(a) /\ DOMAIN a.txs = all
  BY <1>1, <1>3, <1>6 DEF Exact
<1> QED BY <1>7 DEF a

(* Nobody of ts spends what another one of ts spends. *)
NoConflicts(ts) == \A t, u \in ts : t # u => Ins[t] \cap Ins[u] = {}

(* Every one of ts that spends from one of X is in X. *)
HasChildrenIn(X, ts) == \A t \in ts \cap X : \A u \in ts : Ins[u] \cap Outs[t] # {} => u \in X

(* dropTxs leaves what the transactions that stay must be. *)
LEMMA CreditedTxs ==
    ASSUME NEW m, m.txs = TxsOf(DOMAIN m.txs), NEW X,
           NoConflicts(DOMAIN m.txs), HasChildrenIn(X, DOMAIN m.txs)
    PROVE  Credited(m, X) = TxsOf(DOMAIN m.txs \ X)
<1> DEFINE ts   == DOMAIN m.txs
           stay == ts \ X
           back == UNION {m.txs[t].unconf : t \in X \cap ts}
           cut(t) == [m.txs[t] EXCEPT !.parents = @ \ X, !.children = @ \ X]
<1>1. Credited(m, X) = [t \in stay |-> [cut(t) EXCEPT !.utxo = @ \cup (back \cap Outs[t])]]
  <2>1. Without(m.txs, X) = [t \in stay |-> cut(t)]
    BY DEF Without
  <2> HIDE DEF cut
  <2> QED BY <2>1 DEF Credited, InMempool
<1>2. \A t \in ts : m.txs[t] = TxOf(t, ts)
  BY Fields
<1>3. \A t \in ts : m.txs[t].unconf = UnconfOf(t, ts)
  BY <1>2, ChangedTx
<1>a. NoConflicts(ts) /\ HasChildrenIn(X, ts)
  OBVIOUS
<1> HIDE DEF ts
<1>4. \A o : o \in back <=> \E x \in X \cap ts : o \in Ins[x] /\ \E u \in ts : o \in Outs[u]
  BY <1>3, Members
<1> HIDE DEF back
<1>5. ASSUME NEW t \in stay
      PROVE  [cut(t) EXCEPT !.utxo = @ \cup (back \cap Outs[t])] = TxOf(t, stay)
  <2>1. /\ m.txs[t] = TxOf(t, ts)
        /\ m.txs[t].parents = ParentsOf(t, ts) /\ m.txs[t].children = ChildrenOf(t, ts)
    BY <1>2, <1>5, ChangedTx
  <2>2. cut(t) = Unlink(m.txs[t], ParentsOf(t, ts) \ X, ChildrenOf(t, ts) \ X)
    BY <2>1 DEF Unlink
  <2>3. cut(t) = TxRecord(ConfOf(t, ts), UnconfOf(t, ts), UtxoOf(t, ts), ParentsOf(t, ts) \ X, ChildrenOf(t, ts) \ X)
    BY <2>1, <2>2, ChangedFields DEF TxOf
  <2> HIDE DEF cut
  <2>4. cut(t).utxo = UtxoOf(t, ts)
    BY <2>3, FieldsOfRecord
  <2>5. [cut(t) EXCEPT !.utxo = @ \cup (back \cap Outs[t])] = Credit(cut(t), UtxoOf(t, ts) \cup (back \cap Outs[t]))
    BY <2>4 DEF Credit
  <2>6. Credit(cut(t), UtxoOf(t, ts) \cup (back \cap Outs[t])) =
          TxRecord(ConfOf(t, ts), UnconfOf(t, ts), UtxoOf(t, ts) \cup (back \cap Outs[t]),
                   ParentsOf(t, ts) \ X, ChildrenOf(t, ts) \ X)
    BY <2>3, CreditedField
  <2>7. UtxoOf(t, ts) \cup (back \cap Outs[t]) = UtxoOf(t, stay)
    <3>1. ASSUME NEW o, o \in back, o \in Outs[t]
          PROVE  ~ \E u \in stay : o \in Ins[u]
      <4>1. PICK x \in X \cap ts : o \in Ins[x]
        BY <1>4, <3>1
      <4>2. \A u \in stay : u \in ts /\ u # x
        OBVIOUS
      <4> QED BY <1>a, <4>1, <4>2 DEF NoConflicts
    <3>2. ASSUME NEW o, o \in Outs[t], ~ \E u \in stay : o \in Ins[u], o \notin UtxoOf(t, ts)
          PROVE  o \in back
      <4>1. PICK x \in ts : o \in Ins[x]
        BY <3>2, Members
      <4>2. x \in X \cap ts /\ t \in ts
        BY <1>5, <3>2, <4>1
      <4> QED BY <1>4, <3>2, <4>1, <4>2
    <3>3. \A o : o \in UtxoOf(t, ts) => o \in Outs[t] /\ ~ \E u \in stay : o \in Ins[u]
      BY Members
    <3>4. \A o : o \in UtxoOf(t, ts) \cup (back \cap Outs[t]) <=> o \in Outs[t] /\ ~ \E u \in stay : o \in Ins[u]
      BY <3>1, <3>2, <3>3
    <3> QED BY <3>4, Members
  <2>8. ParentsOf(t, ts) \ X = ParentsOf(t, stay)
    <3>1. \A u : u \in ParentsOf(t, ts) \ X <=> u \in stay /\ \E o \in Ins[t] : o \in Outs[u]
      BY Members
    <3> QED BY <3>1, Members
  <2>9. ChildrenOf(t, ts) \ X = ChildrenOf(t, stay)
    <3>1. \A u : u \in ChildrenOf(t, ts) \ X <=> u \in stay /\ \E o \in Ins[u] : o \in Outs[t]
      BY Members
    <3> QED BY <3>1, Members
  <2>10. UnconfOf(t, ts) = UnconfOf(t, stay)
    <3>1. \A u \in ts : (\E o \in Ins[t] : o \in Outs[u]) => u \in stay
      BY <1>5, <1>a DEF HasChildrenIn
    <3>2. \A o : o \in UnconfOf(t, ts) <=> o \in UnconfOf(t, stay)
      BY <3>1, Members
    <3> QED BY <3>2 DEF UnconfOf, CreatedBy
  <2>11. ConfOf(t, ts) = ConfOf(t, stay)
    BY <2>10 DEF ConfOf, UnconfOf
  <2> QED BY <2>5, <2>6, <2>7, <2>8, <2>9, <2>10, <2>11 DEF TxOf
<1> HIDE DEF cut
<1>6. \A t \in stay : Credited(m, X)[t] = TxOf(t, stay)
  <2>1. ASSUME NEW t \in stay PROVE Credited(m, X)[t] = TxOf(t, stay)
    BY <1>1, <1>5, <2>1
  <2> QED BY <2>1
<1>7. Credited(m, X) = [t \in stay |-> Credited(m, X)[t]]
  BY <1>1
<1>8. Credited(m, X) = [t \in stay |-> TxOf(t, stay)]
  BY <1>6, <1>7
<1> QED BY <1>8 DEF TxsOf, ts

(* Closure has what it starts from, and what follows. *)
LEMMA ClosureIsClosed ==
    ASSUME NEW ts, ts \subseteq Txs, NEW next
    PROVE  /\ ts \subseteq Closure(ts, next) /\ Closure(ts, next) \subseteq Txs
           /\ \A t \in Closure(ts, next) : \A u \in Txs : u \in next[t] => u \in Closure(ts, next)
BY DEF Closure

(* Descendants go with what is dropped. *)
LEMMA DescendantsGo ==
    ASSUME NEW m, m.txs = TxsOf(DOMAIN m.txs), DOMAIN m.txs \subseteq Txs, NEW ts, ts \subseteq Txs
    PROVE  /\ ts \subseteq WithDescendants(m, ts) /\ WithDescendants(m, ts) \subseteq Txs
           /\ HasChildrenIn(WithDescendants(m, ts), DOMAIN m.txs)
<1> DEFINE next == [t \in Txs |-> IF t \in InMempool(m) THEN m.txs[t].children ELSE {}]
           X == WithDescendants(m, ts)
<1>1. X = Closure(ts, next)
  BY DEF WithDescendants
<1>2. \A t \in DOMAIN m.txs : m.txs[t] = TxOf(t, DOMAIN m.txs)
  BY Fields
<1>3. \A t \in DOMAIN m.txs : next[t] = ChildrenOf(t, DOMAIN m.txs)
  <2>1. \A t \in DOMAIN m.txs : m.txs[t].children = ChildrenOf(t, DOMAIN m.txs)
    BY <1>2, ChangedTx
  <2> QED BY <2>1 DEF InMempool
<1> HIDE DEF next
<1>4. /\ ts \subseteq X /\ X \subseteq Txs
      /\ \A t \in X : \A u \in Txs : u \in next[t] => u \in X
  BY <1>1, ClosureIsClosed
<1> HIDE DEF X
<1>5. HasChildrenIn(X, DOMAIN m.txs)
  <2> SUFFICES ASSUME NEW t \in DOMAIN m.txs, t \in X, NEW u \in DOMAIN m.txs, Ins[u] \cap Outs[t] # {}
               PROVE  u \in X
    BY DEF HasChildrenIn
  <2>1. u \in ChildrenOf(t, DOMAIN m.txs)
    BY DEF ChildrenOf
  <2>2. u \in next[t] /\ u \in Txs
    BY <1>3, <2>1
  <2> QED BY <1>4, <2>2
<1> QED BY <1>4, <1>5 DEF X

(* dropTxs keeps the mempool exact. *)
LEMMA DroppedIsExact ==
    ASSUME NEW m, Exact(m), DOMAIN m.txs \subseteq Txs, NoConflicts(DOMAIN m.txs),
           NEW ts, ts \subseteq Txs
    PROVE  /\ Exact(dropTxs(m, ts))
           /\ DOMAIN dropTxs(m, ts).txs = DOMAIN m.txs \ WithDescendants(m, ts)
<1> DEFINE D == DOMAIN m.txs
           X == WithDescendants(m, ts)
           stay == D \ X
           a == dropTxs(m, ts)
<1>1. HasChildrenIn(X, D) /\ X \subseteq Txs
  BY DescendantsGo DEF Exact
<1>2. /\ a.txs = Credited(m, X)
      /\ a.hx = [h \in ShSet |-> IF h \in ShsOfAll(X \cap D) THEN Filtered(m.hx[h], X) ELSE m.hx[h]]
  BY DEF dropTxs, DropAffected, HxWithout, InMempool
<1> HIDE DEF a, X
<1>3. a.txs = TxsOf(stay)
  BY <1>1, <1>2, CreditedTxs DEF Exact
<1>4. DOMAIN a.txs = stay
  BY <1>3 DEF TxsOf
<1>5. \A t \in stay : hasUnconfirmedParents(m.txs, t) <=> hasUnconfirmedParents(a.txs, t)
  <2> SUFFICES ASSUME NEW t \in stay
               PROVE  hasUnconfirmedParents(m.txs, t) <=> hasUnconfirmedParents(a.txs, t)
    OBVIOUS
  <2>1. hasUnconfirmedParents(m.txs, t) <=> \E u \in D : \E o \in Ins[t] : o \in Outs[u]
    BY Late DEF Exact
  <2>2. hasUnconfirmedParents(a.txs, t) <=> \E u \in stay : \E o \in Ins[t] : o \in Outs[u]
    BY <1>3, Late
  <2>3. \A u \in D : (\E o \in Ins[t] : o \in Outs[u]) => u \notin X
    BY <1>1 DEF HasChildrenIn
  <2> QED BY <2>1, <2>2, <2>3
<1>6. ASSUME NEW h \in ShSet
      PROVE  a.hx[h] = Sorted(a.txs, Of(h, stay))
  <2>1. m.hx[h] = Sorted(m.txs, Of(h, D)) /\ Of(h, D) \subseteq Txs
    BY Vectors
  <2>2. Of(h, stay) = Of(h, D) \ X
    BY DEF Of
  <2>3. \A t \in Of(h, D) \ X : hasUnconfirmedParents(m.txs, t) <=> hasUnconfirmedParents(a.txs, t)
    BY <1>5 DEF Of
  <2>4. CASE h \in ShsOfAll(X \cap D)
    <3>1. Filtered(Sorted(m.txs, Of(h, D)), X) = Sorted(a.txs, Of(h, D) \ X)
      BY <2>1, <2>3, FilteredIsSorted
    <3> QED BY <1>2, <2>1, <2>2, <2>4, <3>1
  <2>5. CASE h \notin ShsOfAll(X \cap D)
    <3>1. Of(h, D) \ X = Of(h, D)
      BY <2>5 DEF ShsOfAll, Of
    <3>2. Sorted(m.txs, Of(h, D)) = Sorted(a.txs, Of(h, D))
      BY <2>3, <3>1, SortedAgain
    <3> QED BY <1>2, <2>1, <2>2, <2>5, <3>1, <3>2
  <2> QED BY <2>4, <2>5
<1>7. a.hx = HxOf(a.txs, stay)
  <2>1. a.hx = [h \in ShSet |-> a.hx[h]]
    BY <1>2
  <2> QED BY <1>6, <2>1 DEF HxOf
<1>8. Exact(a) /\ DOMAIN a.txs = stay
  BY <1>3, <1>4, <1>7 DEF Exact
<1> QED BY <1>8 DEF a, X

(* An output has one creator. *)
LEMMA OneCreator ==
    ASSUME NEW t \in Txs, NEW u \in Txs, NEW o, o \in Outs[t], o \in Outs[u]
    PROVE  t = u
BY MempoolConstants

(* recategorizeSpends, whether or not the transaction has a parent in the   *)
(* block.                                                                   *)
LEMMA RecategorizedTx ==
    ASSUME NEW m, m.txs = TxsOf(DOMAIN m.txs), DOMAIN m.txs \subseteq Txs,
           NEW block, block \subseteq Txs, NEW t \in DOMAIN m.txs \ block
    PROVE  recategorizeSpends(m, block)[t] =
             TxRecord(ConfOf(t, DOMAIN m.txs \ block), UnconfOf(t, DOMAIN m.txs \ block),
                      UtxoOf(t, DOMAIN m.txs), ParentsOf(t, DOMAIN m.txs), ChildrenOf(t, DOMAIN m.txs))
<1> DEFINE ts   == DOMAIN m.txs
           stay == ts \ block
           r    == m.txs[t]
           C    == CreatedBy(UnconfOf(t, ts), block)
<1>1. r = TxOf(t, ts)
  BY Fields
<1>2. /\ r.conf = ConfOf(t, ts) /\ r.unconf = UnconfOf(t, ts) /\ r.parents = ParentsOf(t, ts)
  BY <1>1, ChangedTx
<1>3. recategorizeSpends(m, block)[t] =
        IF t \in Recategorized(m, block)
        THEN [r EXCEPT !.conf = @ \cup CreatedBy(r.unconf, block),
                       !.unconf = @ \ CreatedBy(r.unconf, block)]
        ELSE r
  BY DEF recategorizeSpends, InMempool
<1>4. t \in Recategorized(m, block) <=> ParentsOf(t, ts) \cap block # {}
  BY <1>2 DEF Recategorized, InMempool
<1>a. ts \subseteq Txs
  OBVIOUS
<1> HIDE DEF ts, r
<1>5. \A o : o \in C <=> o \in Ins[t] /\ \E u \in ts \cap block : o \in Outs[u]
  <2>1. ASSUME NEW o, o \in C PROVE o \in Ins[t] /\ \E u \in ts \cap block : o \in Outs[u]
    <3>1. o \in UnconfOf(t, ts) /\ \E u \in block : o \in Outs[u]
      BY <2>1 DEF CreatedBy
    <3>2. PICK u \in block : o \in Outs[u]
      BY <3>1
    <3>3. o \in Ins[t] /\ \E v \in ts : o \in Outs[v]
      BY <3>1, Members
    <3>4. PICK v \in ts : o \in Outs[v]
      BY <3>3
    <3>5. u = v
      BY <1>a, <3>2, <3>4, OneCreator
    <3> QED BY <3>2, <3>3, <3>4, <3>5
  <2>2. ASSUME NEW o, o \in Ins[t], \E u \in ts \cap block : o \in Outs[u] PROVE o \in C
    <3>1. o \in UnconfOf(t, ts)
      BY <2>2, Members
    <3> QED BY <2>2, <3>1 DEF CreatedBy
  <2> QED BY <2>1, <2>2
<1>b. \A o : ~ ((\E u \in ts \cap block : o \in Outs[u]) /\ (\E u \in stay : o \in Outs[u]))
  <2> SUFFICES ASSUME NEW o, NEW u \in ts \cap block, o \in Outs[u], NEW v \in stay, o \in Outs[v]
               PROVE  FALSE
    OBVIOUS
  <2>1. u = v
    BY <1>a, OneCreator
  <2> QED BY <2>1
<1> HIDE DEF C
<1>6. ConfOf(t, ts) \cup C = ConfOf(t, stay)
  <2>1. \A o : o \in ConfOf(t, ts) \cup C <=> o \in Ins[t] /\ ~ \E u \in stay : o \in Outs[u]
    BY <1>5, <1>b, Members
  <2> QED BY <2>1, Members
<1>7. UnconfOf(t, ts) \ C = UnconfOf(t, stay)
  <2>1. \A o : o \in UnconfOf(t, ts) \ C <=> o \in Ins[t] /\ \E u \in stay : o \in Outs[u]
    <3>1. ASSUME NEW o
          PROVE  (\E u \in ts : o \in Outs[u]) <=> \/ \E u \in stay : o \in Outs[u]
                                                  \/ \E u \in ts \cap block : o \in Outs[u]
      OBVIOUS
    <3>2. \A o : o \in UnconfOf(t, ts) <=> o \in Ins[t] /\ \E u \in ts : o \in Outs[u]
      BY Members
    <3> QED BY <1>5, <1>b, <3>1, <3>2
  <2> QED BY <2>1, Members
<1>8. CASE t \in Recategorized(m, block)
  <2>1. recategorizeSpends(m, block)[t] = Recategorize(r, ConfOf(t, ts) \cup C, UnconfOf(t, ts) \ C)
    BY <1>2, <1>3, <1>8 DEF Recategorize, C
  <2>2. Recategorize(r, ConfOf(t, stay), UnconfOf(t, stay)) =
          TxRecord(ConfOf(t, stay), UnconfOf(t, stay), UtxoOf(t, ts), ParentsOf(t, ts), ChildrenOf(t, ts))
    BY <1>1, ChangedFields DEF TxOf
  <2> QED BY <1>6, <1>7, <2>1, <2>2 DEF ts
<1>9. CASE t \notin Recategorized(m, block)
  <2>1. ~ \E u \in ts \cap block : \E o \in Ins[t] : o \in Outs[u]
    BY <1>4, <1>9, Members
  <2>2. C = {}
    BY <1>5, <2>1
  <2>3. ConfOf(t, stay) = ConfOf(t, ts) /\ UnconfOf(t, stay) = UnconfOf(t, ts)
    BY <1>6, <1>7, <2>2
  <2>4. r = TxRecord(ConfOf(t, ts), UnconfOf(t, ts), UtxoOf(t, ts), ParentsOf(t, ts), ChildrenOf(t, ts))
    BY <1>1 DEF TxOf
  <2> QED BY <1>3, <1>9, <2>3, <2>4 DEF ts
<1> QED BY <1>8, <1>9

(* confirmedInBlock leaves what the transactions that stay must be, if      *)
(* nothing in the block spends from one that stays.                         *)
LEMMA ConfirmedTxs ==
    ASSUME NEW m, m.txs = TxsOf(DOMAIN m.txs), DOMAIN m.txs \subseteq Txs,
           NEW block, block \subseteq Txs,
           \A x \in block : \A t \in DOMAIN m.txs \ block : Ins[x] \cap Outs[t] = {}
    PROVE  Without(recategorizeSpends(m, block), block) = TxsOf(DOMAIN m.txs \ block)
<1> DEFINE ts   == DOMAIN m.txs
           stay == ts \ block
           rs   == recategorizeSpends(m, block)
           a    == Without(rs, block)
<1>1. DOMAIN rs = ts
  BY DEF recategorizeSpends, InMempool
<1>2. a = [t \in stay |-> [rs[t] EXCEPT !.parents = @ \ block, !.children = @ \ block]]
  BY <1>1 DEF Without
<1>3. \A t \in stay : rs[t] = TxRecord(ConfOf(t, stay), UnconfOf(t, stay), UtxoOf(t, ts),
                                       ParentsOf(t, ts), ChildrenOf(t, ts))
  BY RecategorizedTx
<1>4. \A t \in stay : \A x \in ts \cap block : ~ \E o \in Ins[x] : o \in Outs[t]
  OBVIOUS
<1> HIDE DEF ts, rs, a
<1>5. ASSUME NEW t \in stay PROVE a[t] = TxOf(t, stay)
  <2>1. rs[t].parents = ParentsOf(t, ts) /\ rs[t].children = ChildrenOf(t, ts)
    BY <1>3, <1>5, FieldsOfRecord
  <2>2. a[t] = Unlink(rs[t], ParentsOf(t, ts) \ block, ChildrenOf(t, ts) \ block)
    BY <1>2, <1>5, <2>1 DEF Unlink
  <2>3. a[t] = TxRecord(ConfOf(t, stay), UnconfOf(t, stay), UtxoOf(t, ts),
                        ParentsOf(t, ts) \ block, ChildrenOf(t, ts) \ block)
    BY <1>3, <1>5, <2>2, ChangedFields
  <2>4. ParentsOf(t, ts) \ block = ParentsOf(t, stay)
    <3>1. \A u : u \in ParentsOf(t, ts) \ block <=> u \in stay /\ \E o \in Ins[t] : o \in Outs[u]
      BY Members
    <3> QED BY <3>1, Members
  <2>5. ChildrenOf(t, ts) \ block = ChildrenOf(t, stay)
    <3>1. \A u : u \in ChildrenOf(t, ts) \ block <=> u \in stay /\ \E o \in Ins[u] : o \in Outs[t]
      BY Members
    <3> QED BY <3>1, Members
  <2>6. UtxoOf(t, ts) = UtxoOf(t, stay)
    <3>1. \A o : o \in UtxoOf(t, ts) <=> o \in UtxoOf(t, stay)
      BY <1>4, <1>5, Members
    <3> QED BY <3>1 DEF UtxoOf
  <2> QED BY <2>3, <2>4, <2>5, <2>6 DEF TxOf
<1>6. a = [t \in stay |-> a[t]]
  BY <1>2
<1>7. a = [t \in stay |-> TxOf(t, stay)]
  BY <1>5, <1>6
<1> QED BY <1>7 DEF TxsOf, a, rs, ts

(* The vectors after confirmedInBlock, as sets. *)
LEMMA ConfirmedVectors ==
    ASSUME NEW m, Exact(m), DOMAIN m.txs \subseteq Txs, NEW block, block \subseteq Txs,
           NEW h \in ShSet
    PROVE  /\ ToSet(confirmedInBlock(m, block).hx[h]) = Of(h, DOMAIN m.txs) \ block
           /\ confirmedInBlock(m, block).hx[h] = <<>> <=> Of(h, DOMAIN m.txs) \ block = {}
           /\ confirmedInBlock(m, block).hx[h] =
                IF h \in NeedingSort(m, block)
                THEN Sorted(confirmedInBlock(m, block).txs, Of(h, DOMAIN m.txs) \ block)
                ELSE IF h \in ConfirmAffected(m, block) THEN Filtered(m.hx[h], block) ELSE m.hx[h]
<1> DEFINE D == Of(h, DOMAIN m.txs)
           a == confirmedInBlock(m, block)
           w == IF h \in ConfirmAffected(m, block) THEN Filtered(m.hx[h], block) ELSE m.hx[h]
<1>1. a.hx[h] = IF h \in NeedingSort(m, block) THEN Sorted(a.txs, ToSet(w)) ELSE w
  BY DEF confirmedInBlock, HxWithout
<1> HIDE DEF a
<1>2. m.hx[h] = Sorted(m.txs, D) /\ D \subseteq Txs /\ D \ block \subseteq Txs
  BY Vectors
<1>3. ToSet(w) = D \ block /\ (w = <<>> <=> D \ block = {})
  <2>1. CASE h \in ConfirmAffected(m, block)
    <3>1. w = Filtered(Sorted(m.txs, D), block)
      BY <1>2, <2>1
    <3> HIDE DEF w, D
    <3>2. w = Sorted(m.txs, D \ block)
      BY <1>2, <3>1, FilteredIsSorted
    <3>3. /\ ToSet(Sorted(m.txs, D \ block)) = D \ block
          /\ Sorted(m.txs, D \ block) = <<>> <=> D \ block = {}
      BY <1>2, SortedSet
    <3> QED BY <3>2, <3>3
  <2>2. CASE h \notin ConfirmAffected(m, block)
    <3>1. D \ block = D
      BY <2>2 DEF ConfirmAffected, ShsOfAll, InMempool, Of
    <3>2. ToSet(m.hx[h]) = D /\ (m.hx[h] = <<>> <=> D = {})
      BY Vectors
    <3> QED BY <2>2, <3>1, <3>2
  <2> QED BY <2>1, <2>2
<1> HIDE DEF w, D
<1>4. /\ ToSet(Sorted(a.txs, D \ block)) = D \ block
      /\ Sorted(a.txs, D \ block) = <<>> <=> D \ block = {}
  BY <1>2, SortedSet
<1>5. /\ ToSet(a.hx[h]) = D \ block /\ (a.hx[h] = <<>> <=> D \ block = {})
      /\ a.hx[h] = IF h \in NeedingSort(m, block) THEN Sorted(a.txs, D \ block) ELSE w
  BY <1>1, <1>3, <1>4
<1> QED BY <1>5 DEF a, w, D

(* Which transactions are left. *)
LEMMA ConfirmedDomain ==
    ASSUME NEW m, NEW block
    PROVE  DOMAIN confirmedInBlock(m, block).txs = DOMAIN m.txs \ block
BY DEF confirmedInBlock, Without, recategorizeSpends, InMempool

(* A transaction that has unconfirmed parents no more is sorted again. *)
LEMMA KeepsItsPlace ==
    ASSUME NEW m, Exact(m), DOMAIN m.txs \subseteq Txs, NEW block, block \subseteq Txs,
           confirmedInBlock(m, block).txs = TxsOf(DOMAIN m.txs \ block),
           NEW h, h \notin NeedingSort(m, block), NEW t \in DOMAIN m.txs \ block, h \in ShsOf(t)
    PROVE  hasUnconfirmedParents(m.txs, t) <=> hasUnconfirmedParents(confirmedInBlock(m, block).txs, t)
<1> DEFINE ts   == DOMAIN m.txs
           stay == ts \ block
           a    == confirmedInBlock(m, block)
           rs   == recategorizeSpends(m, block)
<1>1. hasUnconfirmedParents(m.txs, t) <=> \E u \in ts : \E o \in Ins[t] : o \in Outs[u]
  BY Late DEF Exact
<1>2. hasUnconfirmedParents(a.txs, t) <=> \E u \in stay : \E o \in Ins[t] : o \in Outs[u]
  BY Late
<1>3. SUFFICES ASSUME NEW u \in ts, \E o \in Ins[t] : o \in Outs[u],
                      ~ \E v \in stay : \E o \in Ins[t] : o \in Outs[v]
               PROVE  FALSE
  BY <1>1, <1>2
<1>4. m.txs[t] = TxOf(t, ts)
  BY Fields DEF Exact
<1>5. t \in Recategorized(m, block)
  <2>1. m.txs[t].parents = ParentsOf(t, ts)
    BY <1>4, ChangedTx
  <2>2. u \in ParentsOf(t, ts) /\ u \in block
    BY <1>3, Members
  <2> QED BY <2>1, <2>2 DEF Recategorized, InMempool
<1>6. rs[t].unconf = UnconfOf(t, stay)
  <2>1. rs[t] = TxRecord(ConfOf(t, stay), UnconfOf(t, stay), UtxoOf(t, ts), ParentsOf(t, ts), ChildrenOf(t, ts))
    BY RecategorizedTx DEF Exact
  <2> HIDE DEF rs
  <2> QED BY <2>1, FieldsOfRecord
<1>7. UnconfOf(t, stay) = {}
  BY <1>3, Members
<1>8. t \in {x \in Recategorized(m, block) : rs[x].unconf = {}}
  BY <1>5, <1>6, <1>7
<1>9. h \in NeedingSort(m, block)
  BY <1>8 DEF NeedingSort, ShsOfAll
<1> QED BY <1>9

(* confirmedInBlock keeps the mempool exact. *)
LEMMA ConfirmedIsExact ==
    ASSUME NEW m, Exact(m), DOMAIN m.txs \subseteq Txs, NEW block, block \subseteq Txs,
           \A x \in block : \A t \in DOMAIN m.txs \ block : Ins[x] \cap Outs[t] = {}
    PROVE  Exact(confirmedInBlock(m, block))
<1> DEFINE D    == DOMAIN m.txs
           stay == D \ block
           a    == confirmedInBlock(m, block)
<1>1. a.txs = TxsOf(stay)
  <2>1. a.txs = Without(recategorizeSpends(m, block), block)
    BY DEF confirmedInBlock
  <2> HIDE DEF a
  <2> QED BY <2>1, ConfirmedTxs DEF Exact
<1>2. DOMAIN a.txs = stay
  BY ConfirmedDomain
<1>3. ASSUME NEW h \in ShSet
      PROVE  a.hx[h] = Sorted(a.txs, Of(h, stay))
  <2>1. Of(h, stay) = Of(h, D) \ block
    BY DEF Of
  <2>2. a.hx[h] = IF h \in NeedingSort(m, block) THEN Sorted(a.txs, Of(h, D) \ block)
                  ELSE IF h \in ConfirmAffected(m, block) THEN Filtered(m.hx[h], block) ELSE m.hx[h]
    BY ConfirmedVectors
  <2>3. CASE h \in NeedingSort(m, block)
    BY <2>1, <2>2, <2>3
  <2>4. CASE h \notin NeedingSort(m, block)
    <3>1. m.hx[h] = Sorted(m.txs, Of(h, D)) /\ Of(h, D) \subseteq Txs
      BY Vectors
    <3>2. \A t \in Of(h, D) \ block : hasUnconfirmedParents(m.txs, t) <=> hasUnconfirmedParents(a.txs, t)
      <4> SUFFICES ASSUME NEW t \in stay, h \in ShsOf(t)
                   PROVE  hasUnconfirmedParents(m.txs, t) <=> hasUnconfirmedParents(a.txs, t)
        BY DEF Of
      <4> QED BY <1>1, <2>4, KeepsItsPlace
    <3> HIDE DEF a
    <3>3. CASE h \in ConfirmAffected(m, block)
      <4>1. Filtered(Sorted(m.txs, Of(h, D)), block) = Sorted(a.txs, Of(h, D) \ block)
        BY <3>1, <3>2, FilteredIsSorted
      <4> QED BY <2>1, <2>2, <2>4, <3>1, <3>3, <4>1
    <3>4. CASE h \notin ConfirmAffected(m, block)
      <4>1. Of(h, D) \ block = Of(h, D)
        BY <3>4 DEF ConfirmAffected, ShsOfAll, InMempool, Of
      <4>2. Sorted(m.txs, Of(h, D)) = Sorted(a.txs, Of(h, D))
        BY <3>2, <4>1, SortedAgain
      <4> QED BY <2>1, <2>2, <2>4, <3>1, <3>4, <4>1, <4>2
    <3> QED BY <3>3, <3>4
  <2> QED BY <2>3, <2>4
<1>4. a.hx = HxOf(a.txs, stay)
  <2>1. a.hx = [h \in ShSet |-> a.hx[h]]
    BY DEF confirmedInBlock
  <2> HIDE DEF a
  <2> QED BY <1>3, <2>1 DEF HxOf
<1> HIDE DEF a
<1>5. Exact(a)
  BY <1>1, <1>2, <1>4 DEF Exact
<1> QED BY <1>5 DEF a

(* So is the empty one. *)
LEMMA ClearIsExact == Exact(clear) /\ DOMAIN clear.txs = {}
<1>1. DOMAIN clear.txs = {} /\ clear.txs = << >> /\ clear.hx = [h \in ShSet |-> <<>>]
  BY DEF clear
<1>2. clear.txs = TxsOf({})
  <2>1. TxsOf({}) = [t \in {} |-> TxOf(t, {})]
    BY DEF TxsOf
  <2> QED BY <1>1, <2>1
<1>3. ASSUME NEW h \in ShSet PROVE Sorted(clear.txs, Of(h, {})) = <<>>
  <2>1. Of(h, {}) = {} /\ Of(h, {}) \subseteq Txs
    BY DEF Of
  <2> QED BY <2>1, SortedSet
<1>4. clear.hx = HxOf(clear.txs, {})
  BY <1>1, <1>3 DEF HxOf
<1> QED BY <1>1, <1>2, <1>4 DEF Exact

-----------------------------------------------------------------------------
(* bitcoind *)

Block == [branch : Nat, txs : SUBSET Txs]

(* The transactions of a block and of its ancestors create what it spends.  *)
ValidChain(c) ==
    /\ c \in Seq(Block) /\ Len(c) >= 1
    /\ \A i \in 1 .. Len(c) : NoConflicts(c[i].txs)
    /\ \A i, j \in 1 .. Len(c) : \A t \in c[i].txs : t \in c[j].txs => i = j
    /\ \A i \in 1 .. Len(c) : \A t \in c[i].txs : \A o \in Ins[t] :
           o \in Coins \/ \E j \in 1 .. i : \E u \in c[j].txs : o \in Outs[u]

ValidPool(p, c) ==
    /\ p \subseteq Txs /\ NoConflicts(p)
    /\ \A t \in p : t \notin Confirmed(c)
    /\ \A t \in p : \A o \in Ins[t] : o \in Utxos(c) \/ \E u \in p : o \in Outs[u]

BitcoindIsValid ==
    /\ ValidChain(chain) /\ ValidPool(pool, chain)
    /\ proofs \subseteq Dsps /\ evicted \subseteq Txs

(* What is confirmed, and what is unspent. *)
LEMMA ChainMembers ==
    ASSUME NEW c, c \in Seq(Block)
    PROVE  /\ \A t : t \in Confirmed(c) <=> \E i \in 1 .. Len(c) : t \in c[i].txs
           /\ Confirmed(c) \subseteq Txs
           /\ \A o : o \in Utxos(c) <=> /\ o \in Coins \/ \E t \in Confirmed(c) : o \in Outs[t]
                                        /\ ~ \E t \in Confirmed(c) : o \in Ins[t]
<1>1. DOMAIN c = 1 .. Len(c) /\ \A i \in 1 .. Len(c) : c[i].txs \subseteq Txs
  <2>1. DOMAIN c = 1 .. Len(c) /\ \A i \in 1 .. Len(c) : c[i] \in Block
    OBVIOUS
  <2> QED BY <2>1 DEF Block
<1>2. \A t : t \in Confirmed(c) <=> \E i \in 1 .. Len(c) : t \in c[i].txs
  BY <1>1 DEF Confirmed
<1>3. Confirmed(c) \subseteq Txs
  BY <1>1, <1>2
<1>4. \A o : o \in Utxos(c) <=> /\ o \in Coins \/ \E t \in Confirmed(c) : o \in Outs[t]
                                /\ ~ \E t \in Confirmed(c) : o \in Ins[t]
  BY DEF Utxos
<1> QED BY <1>2, <1>3, <1>4

(* Parents of what is confirmed are confirmed. *)
LEMMA ConfirmedParents ==
    ASSUME NEW c, ValidChain(c), NEW t \in Confirmed(c), NEW o \in Ins[t]
    PROVE  o \in Coins \/ \E u \in Confirmed(c) : o \in Outs[u]
<1>1. c \in Seq(Block) /\ Len(c) \in Nat
  BY DEF ValidChain
<1>2. PICK i \in 1 .. Len(c) : t \in c[i].txs
  BY <1>1, ChainMembers
<1>3. o \in Coins \/ \E j \in 1 .. i : \E u \in c[j].txs : o \in Outs[u]
  BY <1>2 DEF ValidChain
<1>4. ASSUME NEW j \in 1 .. i, NEW u \in c[j].txs PROVE u \in Confirmed(c)
  <2>1. j \in 1 .. Len(c)
    BY <1>1, <1>2
  <2> QED BY <1>1, <1>4, <2>1, ChainMembers
<1> QED BY <1>3, <1>4

(* A chain starts with valid ones. *)
LEMMA PrefixIsValid ==
    ASSUME NEW c, ValidChain(c), NEW d, d \in Seq(Block), Len(d) >= 1, Len(d) <= Len(c),
           \A i \in 1 .. Len(d) : d[i] = c[i]
    PROVE  ValidChain(d) /\ Confirmed(d) \subseteq Confirmed(c)
<1>1. c \in Seq(Block) /\ Len(c) \in Nat /\ Len(d) \in Nat
  BY DEF ValidChain
<1>2. \A i \in 1 .. Len(d) : i \in 1 .. Len(c) /\ d[i] = c[i] /\ \A j \in 1 .. i : j \in 1 .. Len(d)
  BY <1>1
<1>3. Confirmed(d) \subseteq Confirmed(c)
  BY <1>1, <1>2, ChainMembers
<1>4. \A i \in 1 .. Len(d) : NoConflicts(d[i].txs)
  BY <1>2 DEF ValidChain
<1>5. \A i, j \in 1 .. Len(d) : \A t \in d[i].txs : t \in d[j].txs => i = j
  BY <1>2 DEF ValidChain
<1>6. ASSUME NEW i \in 1 .. Len(d), NEW t \in d[i].txs, NEW o \in Ins[t]
      PROVE  o \in Coins \/ \E j \in 1 .. i : \E u \in d[j].txs : o \in Outs[u]
  <2>1. o \in Coins \/ \E j \in 1 .. i : \E u \in c[j].txs : o \in Outs[u]
    BY <1>2, <1>6 DEF ValidChain
  <2> QED BY <1>2, <2>1
<1> QED BY <1>3, <1>4, <1>5, <1>6 DEF ValidChain

(* A block that spends what there is extends a chain. *)
LEMMA AppendIsValid ==
    ASSUME NEW c, ValidChain(c), NEW b \in Block, NoConflicts(b.txs),
           \A t \in b.txs : t \notin Confirmed(c),
           \A t \in b.txs : \A o \in Ins[t] :
               o \in Coins \/ \E u \in Confirmed(c) \cup b.txs : o \in Outs[u]
    PROVE  /\ ValidChain(Append(c, b))
           /\ Confirmed(Append(c, b)) = Confirmed(c) \cup b.txs
<1> DEFINE d == Append(c, b)
           n == Len(c)
<1>1. c \in Seq(Block) /\ n \in Nat /\ n >= 1
  BY DEF ValidChain
<1>2. /\ d \in Seq(Block) /\ Len(d) = n + 1 /\ d[n + 1] = b
      /\ \A i \in 1 .. n : d[i] = c[i]
  BY <1>1
<1> HIDE DEF d
<1>3. \A i \in 1 .. Len(d) : i \in 1 .. n \/ i = n + 1
  BY <1>1, <1>2
<1>4. \A t : t \in Confirmed(d) <=> t \in Confirmed(c) \/ t \in b.txs
  <2>1. \A t : t \in Confirmed(d) <=> \E i \in 1 .. Len(d) : t \in d[i].txs
    BY <1>2, ChainMembers
  <2>2. \A t : t \in Confirmed(c) <=> \E i \in 1 .. n : t \in c[i].txs
    BY <1>1, ChainMembers
  <2>3. \A i \in 1 .. n : i \in 1 .. Len(d)
    BY <1>1, <1>2
  <2>4. n + 1 \in 1 .. Len(d)
    BY <1>1, <1>2
  <2> QED BY <1>2, <1>3, <2>1, <2>2, <2>3, <2>4
<1>5. Confirmed(d) = Confirmed(c) \cup b.txs
  BY <1>4
<1>6. \A i \in 1 .. Len(d) : NoConflicts(d[i].txs)
  BY <1>2, <1>3 DEF ValidChain
<1>7. \A i, j \in 1 .. Len(d) : \A t \in d[i].txs : t \in d[j].txs => i = j
  <2>1. \A i \in 1 .. n : \A t \in c[i].txs : t \notin b.txs
    BY <1>1, ChainMembers
  <2> QED BY <1>2, <1>3, <2>1 DEF ValidChain
<1>8. ASSUME NEW i \in 1 .. Len(d), NEW t \in d[i].txs, NEW o \in Ins[t]
      PROVE  o \in Coins \/ \E j \in 1 .. i : \E u \in d[j].txs : o \in Outs[u]
  <2>1. CASE i \in 1 .. n
    <3>1. o \in Coins \/ \E j \in 1 .. i : \E u \in c[j].txs : o \in Outs[u]
      BY <1>2, <1>8, <2>1 DEF ValidChain
    <3>2. \A j \in 1 .. i : d[j] = c[j]
      BY <1>1, <1>2, <2>1
    <3> QED BY <3>1, <3>2
  <2>2. CASE i = n + 1
    <3>1. t \in b.txs
      BY <1>2, <1>8, <2>2
    <3>2. o \in Coins \/ \E u \in Confirmed(c) \cup b.txs : o \in Outs[u]
      BY <1>8, <3>1
    <3>3. ASSUME NEW u \in Confirmed(d) PROVE \E j \in 1 .. i : u \in d[j].txs
      BY <1>2, <2>2, <3>3, ChainMembers
    <3> QED BY <1>5, <3>2, <3>3
  <2> QED BY <1>3, <2>1, <2>2
<1>9. ValidChain(d)
  BY <1>1, <1>2, <1>6, <1>7, <1>8 DEF ValidChain
<1> QED BY <1>5, <1>9 DEF d

(* What Viable leaves can be mined. *)
LEMMA ViableIsValid ==
    ASSUME NEW ts, NEW utxos
    PROVE  /\ Viable(ts, utxos) \subseteq ts
           /\ \A t \in Viable(ts, utxos) : \A o \in Ins[t] :
                  o \in utxos \/ \E u \in Viable(ts, utxos) : o \in Outs[u]
<1> DEFINE V == Viable(ts, utxos)
           Ok(s) == \A t \in s : Ins[t] \subseteq utxos \cup UNION {Outs[u] : u \in s}
<1>1. V = UNION {s \in SUBSET ts : Ok(s)}
  BY DEF Viable
<1> HIDE DEF V
<1>2. V \subseteq ts
  BY <1>1
<1>3. ASSUME NEW t \in V, NEW o \in Ins[t]
      PROVE  o \in utxos \/ \E u \in V : o \in Outs[u]
  <2>1. PICK s \in SUBSET ts : Ok(s) /\ t \in s
    BY <1>1, <1>3
  <2>2. s \subseteq V
    BY <1>1, <2>1
  <2>3. o \in utxos \cup UNION {Outs[u] : u \in s}
    BY <1>3, <2>1
  <2> QED BY <2>2, <2>3
<1> QED BY <1>2, <1>3 DEF V

(* Subsets have no more conflicts. *)
LEMMA FewerConflicts ==
    ASSUME NEW ts, NEW us, us \subseteq ts, NoConflicts(ts)
    PROVE  NoConflicts(us)
BY DEF NoConflicts

(* The pool that PoolBecomes makes. *)
LEMMA PoolIsReplaced ==
    ASSUME NEW ts, PoolBecomes(ts), ValidPool(ts, chain'), ValidChain(chain'), BitcoindIsValid
    PROVE  BitcoindIsValid'
<1>1. pool' = ts /\ evicted' \subseteq evicted \cup pool /\ proofs' \subseteq proofs
  BY DEF PoolBecomes
<1> QED BY <1>1 DEF BitcoindIsValid, ValidPool

(* A transaction takes the place of what it conflicts with. *)
LEMMA AcceptIsValid ==
    ASSUME BitcoindIsValid, NEW t \in Txs, Accept(t)
    PROVE  BitcoindIsValid'
<1> DEFINE kept == Viable(pool \ Conflicts(pool, t), Utxos(chain))
<1>1. /\ t \notin Confirmed(chain) /\ PoolBecomes(kept \cup {t}) /\ chain' = chain
      /\ Ins[t] \subseteq Utxos(chain) \cup UNION {Outs[u] : u \in kept}
  BY DEF Accept
<1>2. /\ kept \subseteq pool \ Conflicts(pool, t)
      /\ \A u \in kept : \A o \in Ins[u] : o \in Utxos(chain) \/ \E v \in kept : o \in Outs[v]
  BY ViableIsValid
<1> HIDE DEF kept
<1>3. NoConflicts(kept \cup {t})
  <2>1. \A u \in kept : u # t => Ins[u] \cap Ins[t] = {}
    BY <1>2 DEF Conflicts
  <2>2. NoConflicts(kept)
    BY <1>2 DEF BitcoindIsValid, ValidPool, NoConflicts
  <2> QED BY <2>1, <2>2 DEF NoConflicts
<1>4. \A u \in kept \cup {t} : \A o \in Ins[u] :
          o \in Utxos(chain) \/ \E v \in kept \cup {t} : o \in Outs[v]
  BY <1>1, <1>2
<1>5. \A u \in kept \cup {t} : u \in Txs /\ u \notin Confirmed(chain)
  BY <1>1, <1>2 DEF BitcoindIsValid, ValidPool
<1>6. ValidPool(kept \cup {t}, chain)
  BY <1>3, <1>4, <1>5 DEF ValidPool
<1>7. ValidPool(kept \cup {t}, chain') /\ ValidChain(chain')
  BY <1>1, <1>6 DEF BitcoindIsValid
<1> QED BY <1>1, <1>7, PoolIsReplaced

(* Some leave, and their descendants. *)
LEMMA EvictIsValid ==
    ASSUME BitcoindIsValid, NEW t, Evict(t)
    PROVE  BitcoindIsValid'
<1> DEFINE kept == Viable(pool \ {t}, Utxos(chain))
<1>1. PoolBecomes(kept) /\ chain' = chain
  BY DEF Evict
<1>2. /\ kept \subseteq pool \ {t}
      /\ \A u \in kept : \A o \in Ins[u] : o \in Utxos(chain) \/ \E v \in kept : o \in Outs[v]
  BY ViableIsValid
<1> HIDE DEF kept
<1>3. NoConflicts(kept)
  BY <1>2 DEF BitcoindIsValid, ValidPool, NoConflicts
<1>4. ValidPool(kept, chain') /\ ValidChain(chain')
  BY <1>1, <1>2, <1>3 DEF BitcoindIsValid, ValidPool
<1> QED BY <1>1, <1>4, PoolIsReplaced

(* A block on top of a chain. *)
LEMMA ConnectIsValid ==
    ASSUME BitcoindIsValid, NEW blocks, ValidChain(blocks), NEW ts, ts \subseteq Txs, NoConflicts(ts),
           \A t \in ts : t \notin Confirmed(blocks), NEW branch \in Nat, Connect(blocks, ts, branch)
    PROVE  BitcoindIsValid'
<1>1. PICK block \in ValidSets(Utxos(blocks)) :
        /\ block \cap Confirmed(blocks) = {}
        /\ chain' = Append(blocks, [branch |-> branch, txs |-> block])
        /\ PoolBecomes(Viable({t \in ts \ block : Conflicts(block, t) = {}}, Utxos(chain')))
  BY DEF Connect
<1> DEFINE b    == [branch |-> branch, txs |-> block]
           left == {t \in ts \ block : Conflicts(block, t) = {}}
           kept == Viable(left, Utxos(chain'))
<1>2. block \subseteq Txs /\ NoConflicts(block) /\ Viable(block, Utxos(blocks)) = block
  <2>1. block \in SUBSET Txs /\ Viable(block, Utxos(blocks)) = block
        /\ \A t \in block : Conflicts(block, t) = {}
    BY DEF ValidSets, ConflictFree
  <2>2. \A t, u \in block : t # u => Ins[t] \cap Ins[u] = {}
    BY <2>1 DEF Conflicts
  <2> QED BY <2>1, <2>2 DEF NoConflicts
<1>3. \A t \in block : \A o \in Ins[t] : o \in Utxos(blocks) \/ \E u \in block : o \in Outs[u]
  BY <1>2, ViableIsValid
<1>4. b \in Block /\ b.txs = block
  BY <1>2 DEF Block
<1>5. ValidChain(chain') /\ Confirmed(chain') = Confirmed(blocks) \cup block
  <2>1. blocks \in Seq(Block)
    BY DEF ValidChain
  <2>2. \A o \in Utxos(blocks) : o \in Coins \/ \E u \in Confirmed(blocks) : o \in Outs[u]
    BY <2>1, ChainMembers
  <2>3. \A t \in b.txs : \A o \in Ins[t] :
            o \in Coins \/ \E u \in Confirmed(blocks) \cup b.txs : o \in Outs[u]
    BY <1>3, <1>4, <2>2
  <2>4. NoConflicts(b.txs) /\ \A t \in b.txs : t \notin Confirmed(blocks)
    BY <1>1, <1>2, <1>4
  <2> HIDE DEF b
  <2>5. ValidChain(Append(blocks, b)) /\ Confirmed(Append(blocks, b)) = Confirmed(blocks) \cup b.txs
    BY <1>4, <2>3, <2>4, AppendIsValid
  <2> QED BY <1>1, <1>4, <2>5 DEF b
<1>6. /\ kept \subseteq left
      /\ \A u \in kept : \A o \in Ins[u] : o \in Utxos(chain') \/ \E v \in kept : o \in Outs[v]
  BY ViableIsValid
<1>7. left \subseteq ts /\ left \cap block = {}
  OBVIOUS
<1> HIDE DEF kept, left
<1>8. kept \subseteq ts /\ kept \cap block = {}
  BY <1>6, <1>7
<1>9. ValidPool(kept, chain')
  <2>1. NoConflicts(kept)
    BY <1>8, FewerConflicts
  <2>2. \A t \in kept : t \notin Confirmed(chain')
    BY <1>5, <1>8
  <2> QED BY <1>6, <1>8, <2>1, <2>2 DEF ValidPool
<1>10. PoolBecomes(kept)
  BY <1>1 DEF kept, left
<1> QED BY <1>5, <1>9, <1>10, PoolIsReplaced

(* A block on top of the chain. *)
LEMMA MineIsValid ==
    ASSUME BitcoindIsValid, Mine
    PROVE  BitcoindIsValid'
<1>1. Connect(chain, pool, Last(chain).branch)
  BY DEF Mine
<1>2. chain \in Seq(Block) /\ Len(chain) \in Nat /\ Len(chain) >= 1
  BY DEF BitcoindIsValid, ValidChain
<1>3. Last(chain) \in Block
  BY <1>2 DEF Last
<1>4. Last(chain).branch \in Nat
  BY <1>3 DEF Block
<1>5. /\ ValidChain(chain) /\ pool \subseteq Txs /\ NoConflicts(pool)
      /\ \A t \in pool : t \notin Confirmed(chain)
  BY DEF BitcoindIsValid, ValidPool
<1> QED BY <1>1, <1>4, <1>5, ConnectIsValid

(* The last block of a chain, and those below it. *)
LEMMA LastAndFront ==
    ASSUME NEW c, ValidChain(c), Len(c) > 1
    PROVE  /\ Front(c) \in Seq(Block) /\ Len(Front(c)) = Len(c) - 1
           /\ \A i \in 1 .. Len(c) - 1 : Front(c)[i] = c[i]
           /\ Last(c) \in Block /\ Last(c) = c[Len(c)] /\ Last(c).txs \subseteq Txs
           /\ ValidChain(Front(c))
           /\ Confirmed(c) = Confirmed(Front(c)) \cup Last(c).txs
           /\ \A t \in Last(c).txs : t \notin Confirmed(Front(c))
<1> DEFINE n == Len(c)
           d == Front(c)
<1>1. c \in Seq(Block) /\ n \in Nat
  BY DEF ValidChain
<1>2. d \in Seq(Block) /\ Len(d) = n - 1 /\ \A i \in 1 .. n - 1 : d[i] = c[i]
  BY <1>1 DEF Front
<1>3. Last(c) \in Block /\ Last(c) = c[n]
  BY <1>1 DEF Last
<1>a. Last(c).txs \subseteq Txs
  BY <1>3 DEF Block
<1> HIDE DEF d
<1>4. ValidChain(d)
  BY <1>1, <1>2, PrefixIsValid
<1>5. \A t : t \in Confirmed(d) <=> \E i \in 1 .. n - 1 : t \in c[i].txs
  BY <1>2, ChainMembers
<1>6. \A t : t \in Confirmed(c) <=> \E i \in 1 .. n : t \in c[i].txs
  BY <1>1, ChainMembers
<1>7. \A i \in 1 .. n : i \in 1 .. n - 1 \/ i = n
  BY <1>1
<1>8. n \in 1 .. n /\ \A i \in 1 .. n - 1 : i \in 1 .. n /\ i # n
  BY <1>1
<1>9. Confirmed(c) = Confirmed(d) \cup Last(c).txs
  BY <1>3, <1>5, <1>6, <1>7, <1>8
<1>10. \A t \in Last(c).txs : t \notin Confirmed(d)
  BY <1>3, <1>5, <1>8 DEF ValidChain
<1> QED BY <1>2, <1>3, <1>a, <1>4, <1>9, <1>10 DEF d

(* Another block in place of the last one. *)
LEMMA ReorgIsValid ==
    ASSUME BitcoindIsValid, Reorg
    PROVE  BitcoindIsValid'
<1> DEFINE block == Last(chain)
           back  == {t \in block.txs : Conflicts(pool, t) = {}}
<1>1. Len(chain) > 1 /\ Connect(Front(chain), pool \cup back, block.branch + 1)
  BY DEF Reorg
<1>2. /\ ValidChain(chain) /\ pool \subseteq Txs /\ NoConflicts(pool)
      /\ \A t \in pool : t \notin Confirmed(chain)
  BY DEF BitcoindIsValid, ValidPool
<1>3. /\ block \in Block /\ block = chain[Len(chain)] /\ block.txs \subseteq Txs
      /\ ValidChain(Front(chain))
      /\ Confirmed(chain) = Confirmed(Front(chain)) \cup block.txs
      /\ \A t \in block.txs : t \notin Confirmed(Front(chain))
  BY <1>1, <1>2, LastAndFront
<1>4. block.branch + 1 \in Nat
  BY <1>3 DEF Block
<1>5. NoConflicts(block.txs)
  <2>1. Len(chain) \in 1 .. Len(chain)
    BY <1>2 DEF ValidChain
  <2> QED BY <1>2, <1>3, <2>1 DEF ValidChain
<1>6. back \subseteq block.txs /\ \A t \in back : Conflicts(pool, t) = {}
  OBVIOUS
<1> HIDE DEF back, block
<1>7. NoConflicts(pool \cup back)
  <2>1. \A t \in back : \A u \in pool : t # u => Ins[u] \cap Ins[t] = {}
    BY <1>6 DEF Conflicts
  <2>2. NoConflicts(back)
    BY <1>5, <1>6, FewerConflicts
  <2> QED BY <1>2, <2>1, <2>2 DEF NoConflicts
<1>8. pool \cup back \subseteq Txs /\ \A t \in pool \cup back : t \notin Confirmed(Front(chain))
  BY <1>2, <1>3, <1>6
<1> QED BY <1>1, <1>3, <1>4, <1>7, <1>8, ConnectIsValid

(* bitcoind stays valid whatever it does. *)
LEMMA BitcoindMovesAreValid ==
    ASSUME BitcoindIsValid, BitcoindMoves
    PROVE  BitcoindIsValid'
<1>1. CASE \E t \in Txs : Accept(t) \/ Evict(t)
  BY <1>1, AcceptIsValid, EvictIsValid
<1>2. CASE \E d \in Dsps : DoubleSpendProof(d)
  <2>1. PICK d \in Dsps : DoubleSpendProof(d)
    BY <1>2
  <2>2. proofs' = proofs \cup {d} /\ chain' = chain /\ pool' = pool /\ evicted' = evicted
    BY <2>1 DEF DoubleSpendProof
  <2> QED BY <2>2 DEF BitcoindIsValid, ValidPool, ValidChain
<1>3. CASE Mine
  BY <1>3, MineIsValid
<1>4. CASE Reorg
  BY <1>4, ReorgIsValid
<1> QED BY <1>1, <1>2, <1>3, <1>4 DEF BitcoindMoves

-----------------------------------------------------------------------------
(* The inductive invariant *)

(* All that descends from t. *)
Descending(t) == Closure({t}, [v \in Txs |-> {w \in Txs : Ins[w] \cap Outs[v] # {}}])

(* Confirmed spends are of outputs that the chain has unspent. *)
Unspent(ts, c) == \A t \in ts : ConfOf(t, ts) \subseteq Utxos(c)

(* The mempool m goes with the chain c: nothing is in both, and inputs are  *)
(* created in one of them.                                                  *)
ValidMempool(m, c) ==
    /\ DOMAIN m = {"txs", "hx", "dsps"}
    /\ DOMAIN m.txs \subseteq Txs
    /\ Exact(m)
    /\ NoConflicts(DOMAIN m.txs)
    /\ \A t \in DOMAIN m.txs : t \notin Confirmed(c)
    /\ \A t \in DOMAIN m.txs : \A o \in Ins[t] :
           o \in Coins \/ \E u \in DOMAIN m.txs \cup Confirmed(c) : o \in Outs[u]

(* ts are descendants of t; a child of one of them, in D, is one of them or *)
(* was evicted.                                                             *)
Covers(ts, t, D, gone) ==
    /\ ts \subseteq Descending(t)
    /\ \A v \in ts : \A w \in D : Ins[w] \cap Outs[v] # {} => w \in ts \/ w \in gone

ValidProofs(m, gone) ==
    /\ m.dsps \in [Dsps -> SUBSET Txs]
    /\ \A d \in Dsps :
           /\ m.dsps[d] # {} => DspTx[d] \in m.dsps[d]
           /\ m.dsps[d] \subseteq DOMAIN m.txs
           /\ Covers(m.dsps[d], DspTx[d], DOMAIN m.txs, gone)

Tasks == [need : SUBSET Txs, got : SUBSET Txs, failed : SUBSET Txs, tentative : SUBSET Txs,
          redoCt : 0 .. kRedoCtMax, affected : SUBSET ShSet, listedAhead : BOOLEAN]

(* What the list had that our mempool had not. *)
Listed(k) == k.need \cup k.got \cup k.failed

TaskIsValid ==
    /\ task \in Tasks
    /\ Listed(task) \subseteq task.tentative
    /\ stage \notin {"Start", "DlTxs"} => task = NewTask
    /\ stage = "Start" => Listed(task) = {}
    /\ stage = "DlTxs" => /\ Listed(task) \cap DOMAIN mp.txs = {}
                          /\ NoConflicts(Listed(task) \cup DOMAIN mp.txs)
                          /\ Listed(task) \subseteq pool \cup evicted
                          /\ task.listedAhead => Unspent(DOMAIN mp.txs, db)

DspTaskIsValid ==
    /\ dsp \in [need : SUBSET Dsps, got : [Dsps -> SUBSET Txs]]
    /\ stage # "DownloadingNewDSPs" => dsp.got = [d \in Dsps |-> {}]
    /\ \A d \in Dsps : Covers(dsp.got[d], DspTx[d], DOMAIN mp.txs, evicted)

ReportsAreDue ==
    /\ owed \subseteq ShSet /\ lost \subseteq ShSet
    /\ owed \subseteq task.affected \cup lost

IInv ==
    /\ BitcoindIsValid
    /\ ValidChain(db) /\ ValidMempool(mp, db) /\ ValidProofs(mp, evicted)
    /\ stage \in Stages /\ TaskIsValid /\ DspTaskIsValid
    /\ ReportsAreDue
    /\ DOMAIN mp.txs \subseteq pool \cup evicted
    /\ fresh \in BOOLEAN
    /\ fresh => Unspent(DOMAIN mp.txs, db)

-----------------------------------------------------------------------------
(* What clients see *)

(* Script hashes of transactions are known. *)
LEMMA ScriptHashes ==
    ASSUME NEW ts, ts \subseteq Txs
    PROVE  /\ \A t \in ts : ShsOf(t) \subseteq ShSet
           /\ ShsOfAll(ts) \subseteq ShSet
           /\ {Sh[o] : o \in UNION {Ins[t] : t \in ts}} \subseteq ShSet
           /\ {Sh[o] : o \in UNION {Outs[t] : t \in ts}} \subseteq ShSet
<1>1. \A t \in Txs : Ins[t] \subseteq Outputs /\ Outs[t] \subseteq Outputs
  BY MempoolConstants DEF Outputs
<1>2. \A t \in ts : ShsOf(t) \subseteq ShSet
  BY <1>1 DEF ShsOf, ShSet
<1>3. ShsOfAll(ts) \subseteq ShSet
  BY <1>2 DEF ShsOfAll
<1>4. /\ {Sh[o] : o \in UNION {Ins[t] : t \in ts}} \subseteq ShSet
      /\ {Sh[o] : o \in UNION {Outs[t] : t \in ts}} \subseteq ShSet
  BY <1>1 DEF ShSet
<1> QED BY <1>2, <1>3, <1>4

(* What is confirmed of a script hash, with the heights. *)
ConfirmedAt(c, h) ==
    {ti \in Confirmed(c) \X DOMAIN c : ti[1] \in c[ti[2]].txs /\ h \in ShsOf(ti[1])}

(* The history of a script hash is the same when its vector, the unconfirmed*)
(* parents of what is there, and what is confirmed of it are.               *)
LEMMA SameHistory ==
    ASSUME NEW c, NEW d, NEW m, NEW n, NEW h, m.hx[h] = n.hx[h],
           \A k \in DOMAIN m.hx[h] :
               hasUnconfirmedParents(m.txs, m.hx[h][k]) <=> hasUnconfirmedParents(n.txs, m.hx[h][k]),
           ConfirmedAt(c, h) = ConfirmedAt(d, h)
    PROVE  History(c, m, h) = History(d, n, h)
<1> DEFINE v == m.hx[h]
           L(x) == [k \in DOMAIN v |-> <<v[k], IF hasUnconfirmedParents(x, v[k]) THEN -1 ELSE 0>>]
<1>1. L(m.txs) = L(n.txs)
  OBVIOUS
<1>2. History(c, m, h) = <<ConfirmedAt(c, h), L(m.txs)>> /\ History(d, n, h) = <<ConfirmedAt(d, h), L(n.txs)>>
  BY DEF History, ConfirmedAt
<1> HIDE DEF L
<1> QED BY <1>1, <1>2

(* The same for the vector of an exact mempool. *)
LEMMA VectorDecides ==
    ASSUME NEW m, Exact(m), DOMAIN m.txs \subseteq Txs, NEW h \in ShSet, NEW n, n.hx[h] = m.hx[h],
           \A t \in Of(h, DOMAIN m.txs) : hasUnconfirmedParents(m.txs, t) <=> hasUnconfirmedParents(n.txs, t),
           NEW c, NEW d, ConfirmedAt(c, h) = ConfirmedAt(d, h)
    PROVE  History(c, m, h) = History(d, n, h)
<1>1. m.hx[h] \in Seq(Of(h, DOMAIN m.txs))
  BY Vectors
<1>2. \A k \in DOMAIN m.hx[h] : m.hx[h][k] \in Of(h, DOMAIN m.txs)
  BY <1>1
<1>3. \A k \in DOMAIN m.hx[h] :
         hasUnconfirmedParents(m.txs, m.hx[h][k]) <=> hasUnconfirmedParents(n.txs, m.hx[h][k])
  BY <1>2
<1> QED BY <1>3, SameHistory

(* The same while no block comes or goes. *)
LEMMA SameChain ==
    ASSUME NEW m, Exact(m), DOMAIN m.txs \subseteq Txs, NEW h \in ShSet, NEW n, n.hx[h] = m.hx[h],
           \A t \in Of(h, DOMAIN m.txs) : hasUnconfirmedParents(m.txs, t) <=> hasUnconfirmedParents(n.txs, t),
           NEW c
    PROVE  History(c, m, h) = History(c, n, h)
<1>1. \A d : ConfirmedAt(c, h) = ConfirmedAt(d, h) => History(c, m, h) = History(d, n, h)
  BY VectorDecides
<1> QED BY <1>1

(* Who has unconfirmed parents depends on the parents that are there. *)
LEMMA FamilyDecides ==
    ASSUME NEW m, NEW n, Exact(m), Exact(n), NEW t \in DOMAIN m.txs, t \in DOMAIN n.txs,
           \A u \in DOMAIN m.txs : (\E o \in Ins[t] : o \in Outs[u]) => u \in DOMAIN n.txs,
           \A u \in DOMAIN n.txs : (\E o \in Ins[t] : o \in Outs[u]) => u \in DOMAIN m.txs
    PROVE  hasUnconfirmedParents(m.txs, t) <=> hasUnconfirmedParents(n.txs, t)
<1>1. hasUnconfirmedParents(m.txs, t) <=> \E u \in DOMAIN m.txs : \E o \in Ins[t] : o \in Outs[u]
  BY Late DEF Exact
<1>2. hasUnconfirmedParents(n.txs, t) <=> \E u \in DOMAIN n.txs : \E o \in Ins[t] : o \in Outs[u]
  BY Late DEF Exact
<1> QED BY <1>1, <1>2

(* dropTxs reports whose history it changes. *)
LEMMA DropsAreReported ==
    ASSUME NEW m, Exact(m), DOMAIN m.txs \subseteq Txs, NoConflicts(DOMAIN m.txs),
           NEW ts, ts \subseteq Txs, NEW h \in ShSet, h \notin DropAffected(m, ts), NEW c
    PROVE  History(c, m, h) = History(c, dropTxs(m, ts), h)
<1> DEFINE X == WithDescendants(m, ts)
           n == dropTxs(m, ts)
<1>1. Exact(n) /\ DOMAIN n.txs = DOMAIN m.txs \ X
  BY DroppedIsExact
<1>2. HasChildrenIn(X, DOMAIN m.txs)
  BY DescendantsGo DEF Exact
<1>3. n.hx[h] = m.hx[h]
  BY DEF dropTxs, HxWithout
<1>4. \A t \in Of(h, DOMAIN m.txs) : t \in DOMAIN m.txs /\ t \notin X
  BY DEF DropAffected, ShsOfAll, InMempool, Of
<1> HIDE DEF n, X
<1>5. \A t \in Of(h, DOMAIN m.txs) : hasUnconfirmedParents(m.txs, t) <=> hasUnconfirmedParents(n.txs, t)
  <2> SUFFICES ASSUME NEW t \in Of(h, DOMAIN m.txs)
               PROVE  hasUnconfirmedParents(m.txs, t) <=> hasUnconfirmedParents(n.txs, t)
    OBVIOUS
  <2>1. t \in DOMAIN m.txs /\ t \in DOMAIN n.txs
    BY <1>1, <1>4
  <2>2. \A u \in DOMAIN m.txs : (\E o \in Ins[t] : o \in Outs[u]) => u \in DOMAIN n.txs
    BY <1>1, <1>2, <1>4, <2>1 DEF HasChildrenIn
  <2>3. \A u \in DOMAIN n.txs : u \in DOMAIN m.txs
    BY <1>1
  <2> QED BY <1>1, <2>1, <2>2, <2>3, FamilyDecides
<1>6. History(c, m, h) = History(c, n, h)
  BY <1>3, <1>5, SameChain
<1> QED BY <1>6 DEF n

(* So does addNewTxs. *)
LEMMA AddsAreReported ==
    ASSUME NEW m, Exact(m), DOMAIN m.txs \subseteq Txs, NEW new, new \subseteq Txs, NEW affected,
           new \cap DOMAIN m.txs = {},
           \A t \in DOMAIN m.txs : \A u \in new : Ins[t] \cap Outs[u] = {},
           NEW h \in ShSet, h \notin affected, h \notin ShsOfAll(new), NEW c
    PROVE  History(c, m, h) = History(c, addNewTxs(m, new, affected), h)
<1> DEFINE n == addNewTxs(m, new, affected)
<1>1. Exact(n) /\ DOMAIN n.txs = DOMAIN m.txs \cup new
  BY AddedIsExact
<1>2. n.hx[h] = m.hx[h]
  BY DEF addNewTxs
<1> HIDE DEF n
<1>3. \A t \in Of(h, DOMAIN m.txs) : hasUnconfirmedParents(m.txs, t) <=> hasUnconfirmedParents(n.txs, t)
  <2> SUFFICES ASSUME NEW t \in DOMAIN m.txs
               PROVE  hasUnconfirmedParents(m.txs, t) <=> hasUnconfirmedParents(n.txs, t)
    BY DEF Of
  <2>1. \A u \in DOMAIN n.txs : (\E o \in Ins[t] : o \in Outs[u]) => u \in DOMAIN m.txs
    BY <1>1
  <2>2. t \in DOMAIN n.txs /\ \A u \in DOMAIN m.txs : u \in DOMAIN n.txs
    BY <1>1
  <2> QED BY <1>1, <2>1, <2>2, FamilyDecides
<1>4. History(c, m, h) = History(c, n, h)
  BY <1>2, <1>3, SameChain
<1> QED BY <1>4 DEF n

(* So does confirmedInBlock, for what is confirmed elsewhere too. *)
LEMMA ConfirmationsAreReported ==
    ASSUME NEW m, Exact(m), DOMAIN m.txs \subseteq Txs, NEW block, block \subseteq Txs,
           \A x \in block : \A t \in DOMAIN m.txs \ block : Ins[x] \cap Outs[t] = {},
           NEW h \in ShSet, h \notin ConfirmAffected(m, block),
           NEW c, NEW d, ConfirmedAt(c, h) = ConfirmedAt(d, h)
    PROVE  History(c, m, h) = History(d, confirmedInBlock(m, block), h)
<1> DEFINE n == confirmedInBlock(m, block)
<1>1. Exact(n) /\ DOMAIN n.txs = DOMAIN m.txs \ block
  BY ConfirmedIsExact, ConfirmedDomain
<1>2. h \notin NeedingSort(m, block) /\ h \notin ShsOfAll(block \cap DOMAIN m.txs)
  BY DEF ConfirmAffected, InMempool
<1>3. n.hx[h] = m.hx[h]
  BY <1>2, ConfirmedVectors
<1>4. n.txs = TxsOf(DOMAIN m.txs \ block)
  BY <1>1 DEF Exact
<1>5. \A t \in Of(h, DOMAIN m.txs) : hasUnconfirmedParents(m.txs, t) <=> hasUnconfirmedParents(n.txs, t)
  <2> SUFFICES ASSUME NEW t \in DOMAIN m.txs, h \in ShsOf(t)
               PROVE  hasUnconfirmedParents(m.txs, t) <=> hasUnconfirmedParents(n.txs, t)
    BY DEF Of
  <2>1. t \notin block
    BY <1>2 DEF ShsOfAll
  <2> QED BY <1>2, <1>4, <2>1, KeepsItsPlace
<1> HIDE DEF n
<1>6. History(c, m, h) = History(d, n, h)
  BY <1>3, <1>5, VectorDecides
<1> QED BY <1>6 DEF n

(* Only the script hashes of A have changed. *)
LEMMA ChangedOnly ==
    ASSUME NEW A, \A h \in ShSet : h \notin A => History(db, mp, h) = History(db', mp', h)
    PROVE  Changed \subseteq A
BY DEF Changed

(* A set that covers keeps covering when more is gone. *)
LEMMA StillCovers ==
    ASSUME NEW ts, NEW t, NEW D, NEW gone, Covers(ts, t, D, gone), NEW more, gone \subseteq more
    PROVE  Covers(ts, t, D, more)
BY DEF Covers

(* bitcoind evicts, it never forgets. *)
LEMMA BitcoindMovesOn ==
    ASSUME BitcoindMoves
    PROVE  /\ UNCHANGED indexer
           /\ evicted \subseteq evicted' /\ pool \cup evicted \subseteq pool' \cup evicted'
<1>1. ASSUME NEW ts, PoolBecomes(ts)
      PROVE  evicted \subseteq evicted' /\ pool \cup evicted \subseteq pool' \cup evicted'
  BY <1>1 DEF PoolBecomes
<1>2. ASSUME NEW blocks, NEW ts, NEW b, Connect(blocks, ts, b)
      PROVE  evicted \subseteq evicted' /\ pool \cup evicted \subseteq pool' \cup evicted'
  <2>1. PICK x : PoolBecomes(x)
    BY <1>2 DEF Connect
  <2> QED BY <1>1, <2>1
<1>3. CASE \E t \in Txs : Accept(t) \/ Evict(t)
  <2>1. UNCHANGED indexer /\ \E x : PoolBecomes(x)
    BY <1>3 DEF Accept, Evict
  <2> QED BY <1>1, <2>1
<1>4. CASE \E d \in Dsps : DoubleSpendProof(d)
  BY <1>4 DEF DoubleSpendProof
<1>5. CASE Mine
  <2>1. UNCHANGED indexer /\ Connect(chain, pool, Last(chain).branch)
    BY <1>5 DEF Mine
  <2> QED BY <1>2, <2>1
<1>6. CASE Reorg
  <2>1. UNCHANGED indexer /\ \E ts, b : Connect(Front(chain), ts, b)
    BY <1>6 DEF Reorg
  <2> QED BY <1>2, <2>1
<1> QED BY <1>3, <1>4, <1>5, <1>6 DEF BitcoindMoves

(* Whatever bitcoind does, what we have stays valid. *)
LEMMA BitcoindKeepsIInv ==
    ASSUME IInv, BitcoindMoves
    PROVE  IInv'
<1>1. BitcoindIsValid'
  BY BitcoindMovesAreValid DEF IInv
<1>2. /\ db' = db /\ mp' = mp /\ stage' = stage /\ task' = task /\ dsp' = dsp
      /\ owed' = owed /\ lost' = lost /\ fresh' = fresh
      /\ evicted \subseteq evicted' /\ pool \cup evicted \subseteq pool' \cup evicted'
  BY BitcoindMovesOn DEF indexer
<1>3. ValidProofs(mp, evicted)'
  <2>1. \A d \in Dsps : Covers(mp.dsps[d], DspTx[d], DOMAIN mp.txs, evicted')
    BY <1>2, StillCovers DEF IInv, ValidProofs
  <2> QED BY <1>2, <2>1 DEF IInv, ValidProofs
<1>4. DspTaskIsValid'
  <2>1. \A d \in Dsps : Covers(dsp.got[d], DspTx[d], DOMAIN mp.txs, evicted')
    BY <1>2, StillCovers DEF IInv, DspTaskIsValid
  <2> QED BY <1>2, <2>1 DEF IInv, DspTaskIsValid
<1>5. TaskIsValid'
  BY <1>2 DEF IInv, TaskIsValid
<1>6. ReportsAreDue'
  BY <1>2 DEF IInv, ReportsAreDue
<1> QED BY <1>1, <1>2, <1>3, <1>4, <1>5, <1>6 DEF IInv
-----------------------------------------------------------------------------
(* Blocks that come and go *)

(* A pair of ConfirmedAt. *)
LEMMA AtMembers ==
    ASSUME NEW c, c \in Seq(Block), NEW h
    PROVE  /\ \A t, i : <<t, i>> \in ConfirmedAt(c, h) <=> i \in 1 .. Len(c) /\ t \in c[i].txs /\ h \in ShsOf(t)
           /\ \A ti \in ConfirmedAt(c, h) : ti = <<ti[1], ti[2]>>
<1>1. DOMAIN c = 1 .. Len(c)
  OBVIOUS
<1>2. \A i \in 1 .. Len(c) : \A t \in c[i].txs : t \in Confirmed(c)
  BY ChainMembers
<1>3. \A t, i : <<t, i>> \in ConfirmedAt(c, h) <=> i \in 1 .. Len(c) /\ t \in c[i].txs /\ h \in ShsOf(t)
  BY <1>1, <1>2 DEF ConfirmedAt
<1>4. \A ti \in ConfirmedAt(c, h) : ti = <<ti[1], ti[2]>>
  BY DEF ConfirmedAt
<1> QED BY <1>3, <1>4

(* A block without a script hash leaves what is confirmed of it. *)
LEMMA SameAt ==
    ASSUME NEW c, c \in Seq(Block), NEW d, d \in Seq(Block), Len(c) = Len(d) + 1,
           \A i \in 1 .. Len(d) : d[i] = c[i],
           NEW h, h \notin ShsOfAll(c[Len(c)].txs)
    PROVE  ConfirmedAt(c, h) = ConfirmedAt(d, h)
<1>1. \A t \in c[Len(c)].txs : h \notin ShsOf(t)
  BY DEF ShsOfAll
<1>2. \A i : i \in 1 .. Len(c) <=> i \in 1 .. Len(d) \/ i = Len(c)
  OBVIOUS
<1>3. \A t, i : <<t, i>> \in ConfirmedAt(c, h) <=> <<t, i>> \in ConfirmedAt(d, h)
  <2>1. \A t, i : <<t, i>> \in ConfirmedAt(c, h) <=> i \in 1 .. Len(c) /\ t \in c[i].txs /\ h \in ShsOf(t)
    BY AtMembers
  <2>2. \A t, i : <<t, i>> \in ConfirmedAt(d, h) <=> i \in 1 .. Len(d) /\ t \in d[i].txs /\ h \in ShsOf(t)
    BY AtMembers
  <2> QED BY <1>1, <1>2, <2>1, <2>2
<1>4. (\A ti \in ConfirmedAt(c, h) : ti = <<ti[1], ti[2]>>) /\ \A ti \in ConfirmedAt(d, h) : ti = <<ti[1], ti[2]>>
  BY AtMembers
<1>5. \A ti : ti \in ConfirmedAt(c, h) <=> ti \in ConfirmedAt(d, h)
  BY <1>3, <1>4
<1> QED BY <1>5 DEF ConfirmedAt

(* What IsPrefix says of chains. *)
LEMMA PrefixBlocks ==
    ASSUME NEW c, c \in Seq(Block), NEW d, d \in Seq(Block), IsPrefix(d, c)
    PROVE  Len(d) <= Len(c) /\ \A i \in 1 .. Len(d) : d[i] = c[i]
<1>1. Len(d) <= Len(c) /\ SubSeq(d, 1, Len(d)) = SubSeq(c, 1, Len(d))
  BY DEF IsPrefix
<1>2. \A i \in 1 .. Len(d) : SubSeq(d, 1, Len(d))[i] = d[i] /\ SubSeq(c, 1, Len(d))[i] = c[i]
  BY <1>1
<1> QED BY <1>1, <1>2

(* The next block of bitcoind's chain, on top of ours. *)
LEMMA NextBlock ==
    ASSUME NEW c, ValidChain(c), NEW d, ValidChain(d), IsStrictPrefix(d, c)
    PROVE  LET b == c[Len(d) + 1]
           IN  /\ b \in Block /\ b.txs \subseteq Txs
               /\ ValidChain(Append(d, b))
               /\ Confirmed(Append(d, b)) = Confirmed(d) \cup b.txs
               /\ \A h : h \notin ShsOfAll(b.txs) => ConfirmedAt(d, h) = ConfirmedAt(Append(d, b), h)
<1> DEFINE b == c[Len(d) + 1]
           e == Append(d, b)
<1>1. c \in Seq(Block) /\ d \in Seq(Block) /\ Len(c) \in Nat /\ Len(d) \in Nat /\ Len(d) >= 1
  BY DEF ValidChain
<1>2. Len(d) <= Len(c) /\ \A i \in 1 .. Len(d) : d[i] = c[i]
  BY <1>1, PrefixBlocks DEF IsStrictPrefix
<1>3. Len(d) < Len(c)
  <2>1. SUFFICES ASSUME Len(d) = Len(c) PROVE FALSE
    BY <1>1, <1>2
  <2>2. d = c
    BY <1>1, <1>2, <2>1
  <2> QED BY <2>2 DEF IsStrictPrefix
<1>4. Len(d) + 1 \in 1 .. Len(c)
  BY <1>1, <1>3
<1>5. b \in Block /\ b.txs \subseteq Txs
  <2>1. b \in Block
    BY <1>1, <1>4
  <2> QED BY <2>1 DEF Block
<1>6. /\ e \in Seq(Block) /\ Len(e) = Len(d) + 1 /\ e[Len(e)] = b
      /\ \A i \in 1 .. Len(d) : d[i] = e[i]
  BY <1>1, <1>5
<1>7. \A i \in 1 .. Len(e) : e[i] = c[i]
  BY <1>1, <1>2, <1>6
<1> HIDE DEF e
<1>8. ValidChain(e)
  BY <1>1, <1>3, <1>6, <1>7, PrefixIsValid
<1>9. Confirmed(e) = Confirmed(d) \cup b.txs
  <2> HIDE DEF b
  <2>1. \A t : t \in Confirmed(e) <=> \E i \in 1 .. Len(e) : t \in e[i].txs
    BY <1>6, ChainMembers
  <2>2. \A t : t \in Confirmed(d) <=> \E i \in 1 .. Len(d) : t \in d[i].txs
    BY <1>1, ChainMembers
  <2>3. \A i : i \in 1 .. Len(e) <=> i \in 1 .. Len(d) \/ i = Len(e)
    BY <1>1, <1>6
  <2> QED BY <1>6, <2>1, <2>2, <2>3
<1>10. ASSUME NEW h, h \notin ShsOfAll(b.txs) PROVE ConfirmedAt(d, h) = ConfirmedAt(e, h)
  <2> HIDE DEF b
  <2> QED BY <1>1, <1>6, <1>10, SameAt
<1> QED BY <1>5, <1>8, <1>9, <1>10 DEF e

(* Nothing that stays in the mempool is spent in the block. *)
LEMMA BlockSpendsNothingLeft ==
    ASSUME NEW m, NEW c, ValidMempool(m, c), NEW d, ValidChain(d), NEW block, block \subseteq Txs,
           Confirmed(d) = Confirmed(c) \cup block
    PROVE  \A x \in block : \A t \in DOMAIN m.txs \ block : Ins[x] \cap Outs[t] = {}
<1> SUFFICES ASSUME NEW x \in block, NEW t \in DOMAIN m.txs \ block, NEW o, o \in Ins[x], o \in Outs[t]
             PROVE  FALSE
  OBVIOUS
<1>1. t \in Txs /\ t \notin Confirmed(d)
  BY DEF ValidMempool
<1>2. o \notin Coins
  BY <1>1, MempoolConstants
<1>3. PICK u \in Confirmed(d) : o \in Outs[u]
  BY <1>2, ConfirmedParents
<1>4. u \in Txs
  BY <1>3, ChainMembers DEF ValidChain
<1> QED BY <1>1, <1>3, <1>4, OneCreator
(* Proofs go with their transactions. *)
LEMMA ProofsWithout ==
    ASSUME NEW m, NEW gone, ValidProofs(m, gone), NEW ts, NEW n,
           n.dsps = rmTxs(m.dsps, ts), DOMAIN n.txs = DOMAIN m.txs \ ts
    PROVE  ValidProofs(n, gone)
<1>1. n.dsps = [d \in Dsps |-> IF DspTx[d] \in ts THEN {} ELSE m.dsps[d] \ ts]
  BY DEF rmTxs
<1>2. n.dsps \in [Dsps -> SUBSET Txs]
  BY <1>1 DEF ValidProofs
<1>3. ASSUME NEW d \in Dsps
      PROVE  /\ n.dsps[d] # {} => DspTx[d] \in n.dsps[d]
             /\ n.dsps[d] \subseteq DOMAIN n.txs
             /\ Covers(n.dsps[d], DspTx[d], DOMAIN n.txs, gone)
  <2>1. /\ m.dsps[d] # {} => DspTx[d] \in m.dsps[d]
        /\ m.dsps[d] \subseteq DOMAIN m.txs
        /\ Covers(m.dsps[d], DspTx[d], DOMAIN m.txs, gone)
    BY DEF ValidProofs
  <2>2. n.dsps[d] = IF DspTx[d] \in ts THEN {} ELSE m.dsps[d] \ ts
    BY <1>1
  <2> QED BY <2>1, <2>2 DEF Covers
<1> QED BY <1>2, <1>3 DEF ValidProofs

(* The empty mempool goes with every chain. *)
LEMMA ClearIsValid ==
    ASSUME NEW c, NEW gone
    PROVE  ValidMempool(clear, c) /\ ValidProofs(clear, gone) /\ DOMAIN clear.txs = {} /\ Unspent({}, c)
<1>1. Exact(clear) /\ DOMAIN clear.txs = {}
  BY ClearIsExact
<1>2. DOMAIN clear = {"txs", "hx", "dsps"} /\ clear.dsps = [d \in Dsps |-> {}]
  BY DEF clear
<1>3. ValidMempool(clear, c)
  BY <1>1, <1>2 DEF ValidMempool, NoConflicts
<1>4. ValidProofs(clear, gone)
  BY <1>1, <1>2 DEF ValidProofs, Covers
<1> QED BY <1>1, <1>3, <1>4 DEF Unspent

(* What changed is reported, or known to the task, or lost. *)
LEMMA ReportIsEnough ==
    ASSUME ReportsAreDue, NEW hs, NEW dropped, Report(hs, dropped), dropped \subseteq ShSet,
           \A h \in ShSet : h \in Changed \/ h \in task.affected =>
                            h \in task'.affected \/ h \in hs \/ h \in dropped
    PROVE  ReportsAreDue'
<1>1. owed' = (owed \cup Changed) \ hs /\ lost' = (lost \cup dropped) \ hs
  BY DEF Report
<1>2. Changed \subseteq ShSet
  BY DEF Changed
<1> QED BY <1>1, <1>2 DEF ReportsAreDue

(* A task that has not listed anything is valid. *)
LEMMA NewTaskIsValid ==
    /\ NewTask \in Tasks /\ Listed(NewTask) = {} /\ NewTask.affected = {} /\ NewTask.redoCt = 0
    /\ Listed(NewTask) \subseteq NewTask.tentative
<1>1. 0 \in 0 .. kRedoCtMax
  BY MempoolSyncConstants
<1> QED BY <1>1 DEF NewTask, Tasks, Listed

(* addBlock *)
LEMMA AddBlockKeepsIInv ==
    ASSUME IInv, addBlock
    PROVE  IInv'
<1> DEFINE b == chain[Len(db) + 1]
           n == confirmedInBlock(mp, b.txs)
           e == Append(db, b)
           hs == ConfirmAffected(mp, b.txs) \cup ShsOfAll(b.txs)
<1>1. /\ stage = "synching" /\ IsStrictPrefix(db, chain)
      /\ db' = e /\ mp' = n /\ Report(hs, {})
      /\ fresh' = FALSE /\ stage' = stage /\ task' = task /\ dsp' = dsp
      /\ chain' = chain /\ pool' = pool /\ proofs' = proofs /\ evicted' = evicted
  BY DEF addBlock, Idle, bitcoind
<1>2. /\ b \in Block /\ b.txs \subseteq Txs /\ ValidChain(e) /\ Confirmed(e) = Confirmed(db) \cup b.txs
      /\ \A h : h \notin ShsOfAll(b.txs) => ConfirmedAt(db, h) = ConfirmedAt(e, h)
  BY <1>1, NextBlock DEF IInv, BitcoindIsValid
<1> HIDE DEF b
<1>3. \A x \in b.txs : \A t \in DOMAIN mp.txs \ b.txs : Ins[x] \cap Outs[t] = {}
  BY <1>2, BlockSpendsNothingLeft DEF IInv
<1>4. Exact(mp) /\ DOMAIN mp.txs \subseteq Txs
  BY DEF IInv, ValidMempool
<1>5. Exact(n) /\ DOMAIN n.txs = DOMAIN mp.txs \ b.txs
  BY <1>2, <1>3, <1>4, ConfirmedIsExact, ConfirmedDomain
<1>6. DOMAIN n = {"txs", "hx", "dsps"} /\ n.dsps = rmTxs(mp.dsps, b.txs)
  BY DEF confirmedInBlock
<1>7. \A h \in ShSet : h \notin hs => History(db, mp, h) = History(e, n, h)
  BY <1>2, <1>3, <1>4, ConfirmationsAreReported
<1> HIDE DEF n, e, hs
<1>8. ValidMempool(n, e)
  <2>1. NoConflicts(DOMAIN n.txs)
    BY <1>5, FewerConflicts DEF IInv, ValidMempool
  <2>2. \A t \in DOMAIN n.txs : t \notin Confirmed(e)
    BY <1>2, <1>5 DEF IInv, ValidMempool
  <2>3. \A t \in DOMAIN n.txs : \A o \in Ins[t] :
           o \in Coins \/ \E u \in DOMAIN n.txs \cup Confirmed(e) : o \in Outs[u]
    BY <1>2, <1>5 DEF IInv, ValidMempool
  <2> QED BY <1>4, <1>5, <1>6, <2>1, <2>2, <2>3 DEF ValidMempool
<1>9. ValidProofs(n, evicted)
  BY <1>5, <1>6, ProofsWithout DEF IInv
<1>10. ReportsAreDue'
  <2>1. Changed \subseteq hs
    BY <1>1, <1>7, ChangedOnly
  <2>2. task = NewTask /\ task.affected = {}
    BY <1>1, NewTaskIsValid DEF IInv, TaskIsValid
  <2>3. ReportsAreDue
    BY DEF IInv
  <2> QED BY <1>1, <2>1, <2>2, <2>3, ReportIsEnough
<1>11. TaskIsValid'
  BY <1>1 DEF IInv, TaskIsValid
<1>12. DspTaskIsValid'
  BY <1>1 DEF IInv, DspTaskIsValid, Covers
<1>13. BitcoindIsValid'
  BY <1>1 DEF IInv, BitcoindIsValid
<1>14. DOMAIN n.txs \subseteq pool \cup evicted
  BY <1>5 DEF IInv
<1> QED BY <1>1, <1>2, <1>8, <1>9, <1>10, <1>11, <1>12, <1>13, <1>14 DEF IInv, e
(* With an empty vector, only what is confirmed makes the history. *)
LEMMA EmptyVectors ==
    ASSUME NEW m, NEW n, NEW h, m.hx[h] = <<>>, n.hx[h] = <<>>, NEW c, NEW d, ConfirmedAt(c, h) = ConfirmedAt(d, h)
    PROVE  History(c, m, h) = History(d, n, h)
<1>1. DOMAIN m.hx[h] = {} /\ m.hx[h] = n.hx[h]
  OBVIOUS
<1>2. \A k \in DOMAIN m.hx[h] :
         hasUnconfirmedParents(m.txs, m.hx[h][k]) <=> hasUnconfirmedParents(n.txs, m.hx[h][k])
  BY <1>1
<1> QED BY <1>1, <1>2, SameHistory

(* undoLatestBlock, after a block that was or was not taken out of the      *)
(* mempool first.                                                           *)
LEMMA UndoKeepsIInv ==
    ASSUME IInv, NEW m, Idle, undoLatestBlock(m), UNCHANGED bitcoind,
           DOMAIN m.txs \subseteq DOMAIN mp.txs,
           \A h \in ShSet : m.hx[h] = <<>> <=> Of(h, DOMAIN m.txs) = {}
    PROVE  IInv'
<1> DEFINE D  == DOMAIN mp.txs
           e  == Front(db)
           hs == UndoAffected(m)
           dropped == ShsOfAll(D \ DOMAIN m.txs)
<1>1. /\ stage = "synching" /\ Len(db) > 1 /\ db' = e /\ mp' = clear /\ Report(hs, dropped)
      /\ fresh' = FALSE /\ stage' = stage /\ task' = task /\ dsp' = dsp
      /\ chain' = chain /\ pool' = pool /\ proofs' = proofs /\ evicted' = evicted
  BY DEF undoLatestBlock, Idle, bitcoind, InMempool
<1>2. /\ e \in Seq(Block) /\ Len(e) = Len(db) - 1 /\ \A i \in 1 .. Len(db) - 1 : e[i] = db[i]
      /\ Last(db) = db[Len(db)] /\ ValidChain(e) /\ db \in Seq(Block)
  <2>1. ValidChain(db)
    BY DEF IInv
  <2>2. db \in Seq(Block)
    BY <2>1 DEF ValidChain
  <2> QED BY <1>1, <2>1, <2>2, LastAndFront
<1> HIDE DEF e
<1>3. Exact(mp) /\ D \subseteq Txs
  BY DEF IInv, ValidMempool
<1>4. ASSUME NEW h \in ShSet, h \notin hs, h \notin dropped
      PROVE  History(db, mp, h) = History(e, clear, h)
  <2>1. m.hx[h] = <<>> /\ h \notin ShsOfAll(Last(db).txs)
    BY <1>4 DEF UndoAffected
  <2>2. Of(h, DOMAIN m.txs) = {}
    BY <2>1
  <2>3. Of(h, D) = {}
    BY <1>4, <2>2 DEF Of, ShsOfAll
  <2>4. mp.hx[h] = <<>>
    BY <1>3, <2>3, Vectors
  <2>5. clear.hx[h] = <<>>
    BY DEF clear
  <2>6. ConfirmedAt(db, h) = ConfirmedAt(e, h)
    <3>1. Len(db) \in Nat /\ Len(db) = Len(e) + 1 /\ \A i \in 1 .. Len(e) : e[i] = db[i]
      BY <1>2
    <3> QED BY <1>2, <2>1, <3>1, SameAt
  <2> QED BY <2>4, <2>5, <2>6, EmptyVectors
<1>5. ReportsAreDue'
  <2>1. dropped \subseteq ShSet
    BY <1>3, ScriptHashes
  <2> HIDE DEF hs, dropped
  <2>2. Changed \subseteq hs \cup dropped
    <3>1. \A h \in ShSet : h \notin hs \cup dropped => History(db, mp, h) = History(db', mp', h)
      BY <1>1, <1>4
    <3> QED BY <3>1, ChangedOnly
  <2>3. task = NewTask /\ task.affected = {}
    BY <1>1, NewTaskIsValid DEF IInv, TaskIsValid
  <2>4. ReportsAreDue
    BY DEF IInv
  <2> QED BY <1>1, <2>1, <2>2, <2>3, <2>4, ReportIsEnough
<1>6. ValidMempool(clear, e) /\ ValidProofs(clear, evicted) /\ DOMAIN clear.txs = {}
  BY ClearIsValid
<1>7. TaskIsValid'
  BY <1>1 DEF IInv, TaskIsValid
<1>8. DspTaskIsValid'
  BY <1>1 DEF IInv, DspTaskIsValid, Covers
<1>9. BitcoindIsValid'
  BY <1>1 DEF IInv, BitcoindIsValid
<1> QED BY <1>1, <1>2, <1>5, <1>6, <1>7, <1>8, <1>9 DEF IInv

(* DoUndoAndRetry *)
LEMMA UndoAndRetryKeepsIInv ==
    ASSUME IInv, DoUndoAndRetry
    PROVE  IInv'
<1>1. Idle /\ undoLatestBlock(mp) /\ UNCHANGED bitcoind
  BY DEF DoUndoAndRetry
<1>2. Exact(mp) /\ DOMAIN mp.txs \subseteq Txs
  BY DEF IInv, ValidMempool
<1>3. \A h \in ShSet : mp.hx[h] = <<>> <=> Of(h, DOMAIN mp.txs) = {}
  BY <1>2, Vectors
<1> QED BY <1>1, <1>3, UndoKeepsIInv

(* addBlockThrows *)
LEMMA AddBlockThrowsKeepsIInv ==
    ASSUME IInv, addBlockThrows
    PROVE  IInv'
<1> DEFINE b == chain[Len(db) + 1]
           n == confirmedInBlock(mp, b.txs)
<1>1. Idle /\ undoLatestBlock(n) /\ UNCHANGED bitcoind /\ Len(chain) > Len(db)
  BY DEF addBlockThrows
<1>2. Exact(mp) /\ DOMAIN mp.txs \subseteq Txs
  BY DEF IInv, ValidMempool
<1>3. b.txs \subseteq Txs
  <2>1. chain \in Seq(Block) /\ Len(chain) \in Nat /\ Len(db) \in Nat
    BY DEF IInv, BitcoindIsValid, ValidChain
  <2>2. Len(db) + 1 \in 1 .. Len(chain)
    BY <1>1, <2>1
  <2>3. b \in Block
    BY <2>1, <2>2
  <2> QED BY <2>3 DEF Block
<1>4. DOMAIN n.txs = DOMAIN mp.txs \ b.txs
  BY ConfirmedDomain
<1>5. ASSUME NEW h \in ShSet PROVE n.hx[h] = <<>> <=> Of(h, DOMAIN n.txs) = {}
  <2>1. n.hx[h] = <<>> <=> Of(h, DOMAIN mp.txs) \ b.txs = {}
    <3> HIDE DEF b
    <3>1. /\ ToSet(n.hx[h]) = Of(h, DOMAIN mp.txs) \ b.txs
          /\ n.hx[h] = <<>> <=> Of(h, DOMAIN mp.txs) \ b.txs = {}
      BY <1>2, <1>3, <1>5, ConfirmedVectors
    <3> QED BY <3>1
  <2>2. Of(h, DOMAIN mp.txs) \ b.txs = Of(h, DOMAIN n.txs)
    BY <1>4 DEF Of
  <2> QED BY <2>1, <2>2
<1> HIDE DEF n
<1>6. DOMAIN n.txs \subseteq DOMAIN mp.txs
  BY <1>4
<1> QED BY <1>1, <1>5, <1>6, UndoKeepsIInv
-----------------------------------------------------------------------------
(* SynchMempoolTask *)

(* Nothing happens at bitcoind. *)
LEMMA BitcoindRests ==
    ASSUME IInv, UNCHANGED bitcoind
    PROVE  /\ BitcoindIsValid'
           /\ chain' = chain /\ pool' = pool /\ proofs' = proofs /\ evicted' = evicted
BY DEF IInv, BitcoindIsValid, bitcoind

(* No proofs were downloaded. *)
LEMMA NoProofsDownloaded ==
    ASSUME IInv, stage # "DownloadingNewDSPs", dsp' = dsp
    PROVE  DspTaskIsValid'
BY DEF IInv, DspTaskIsValid, Covers

(* The task ends and reports what it affected. *)
LEMMA EndedTaskIsValid ==
    ASSUME IInv, NEW affected, NEW dropped, NEW next \in {"synching", "GetDSPList"},
           EndTask(affected, dropped, next), dropped \subseteq ShSet,
           \A h \in ShSet : h \in Changed \/ h \in task.affected => h \in affected \/ h \in dropped
    PROVE  TaskIsValid' /\ ReportsAreDue' /\ stage' = next
<1>1. stage' = next /\ task' = NewTask /\ Report(affected, dropped)
  BY DEF EndTask
<1>2. TaskIsValid'
  BY <1>1, NewTaskIsValid DEF TaskIsValid
<1>3. ReportsAreDue
  BY DEF IInv
<1>4. ReportsAreDue'
  BY <1>1, <1>3, ReportIsEnough
<1> QED BY <1>1, <1>2, <1>4

(* What a redone round starts with. *)
Redone(redoCt, affected) == [NewTask EXCEPT !.redoCt = redoCt, !.affected = affected]

(* It is a task that keeps only the affected script hashes. *)
LEMMA RedoneTask ==
    ASSUME NEW redoCt \in 0 .. kRedoCtMax, NEW affected, affected \subseteq ShSet
    PROVE  /\ Redone(redoCt, affected) \in Tasks /\ Listed(Redone(redoCt, affected)) = {}
           /\ Redone(redoCt, affected).affected = affected
<1> DEFINE k == [NewTask EXCEPT !.redoCt = redoCt, !.affected = affected]
<1>1. /\ DOMAIN k = {"need", "got", "failed", "tentative", "redoCt", "affected", "listedAhead"}
      /\ k = [f \in DOMAIN k |-> k[f]]
  BY DEF NewTask
<1>2. /\ k.need = {} /\ k.got = {} /\ k.failed = {} /\ k.tentative = {} /\ k.redoCt = redoCt
      /\ k.affected = affected /\ k.listedAhead = FALSE
  BY DEF NewTask
<1> HIDE DEF k
<1>3. k \in Tasks
  BY <1>1, <1>2 DEF Tasks
<1>4. Listed(k) = {}
  BY <1>2 DEF Listed
<1> QED BY <1>2, <1>3, <1>4 DEF k, Redone

(* The round is redone, or was the last one. *)
LEMMA RedoneTaskIsValid ==
    ASSUME IInv, NEW affected, NEW dropped, redoFromStart(affected, dropped),
           affected \subseteq ShSet, dropped \subseteq ShSet,
           \A h \in ShSet : h \in Changed \/ h \in task.affected => h \in affected \/ h \in dropped
    PROVE  TaskIsValid' /\ ReportsAreDue' /\ stage' \in {"synching", "Start"}
<1>1. CASE task.redoCt + 1 > kRedoCtMax
  <2>1. EndTask(affected, dropped, "synching")
    BY <1>1 DEF redoFromStart
  <2> QED BY <2>1, EndedTaskIsValid
<1>2. CASE ~ (task.redoCt + 1 > kRedoCtMax)
  <2>1. stage' = "Start" /\ task' = Redone(task.redoCt + 1, affected) /\ Report({}, dropped)
    BY <1>2 DEF redoFromStart, Redone
  <2>2. task.redoCt + 1 \in 0 .. kRedoCtMax
    BY <1>2, MempoolSyncConstants DEF IInv, TaskIsValid, Tasks
  <2>3. task' \in Tasks /\ Listed(task') = {} /\ task'.affected = affected
    BY <2>1, <2>2, RedoneTask
  <2>4. TaskIsValid'
    BY <2>1, <2>3 DEF TaskIsValid
  <2>5. ReportsAreDue
    BY DEF IInv
  <2>6. ReportsAreDue'
    BY <2>1, <2>3, <2>5, ReportIsEnough
  <2> QED BY <2>1, <2>4, <2>6
<1> QED BY <1>1, <1>2

(* SynchMempool *)
LEMMA SynchMempoolKeepsIInv ==
    ASSUME IInv, SynchMempool
    PROVE  IInv'
<1>1. /\ stage = "synching" /\ stage' = "Start" /\ task' = NewTask /\ UNCHANGED bitcoind
      /\ db' = db /\ mp' = mp /\ dsp' = dsp /\ owed' = owed /\ lost' = lost /\ fresh' = fresh
  BY DEF SynchMempool
<1>2. BitcoindIsValid' /\ pool' = pool /\ evicted' = evicted
  BY <1>1, BitcoindRests
<1>3. DspTaskIsValid'
  BY <1>1, NoProofsDownloaded
<1>4. task = NewTask
  BY <1>1 DEF IInv, TaskIsValid
<1>5. TaskIsValid' /\ ReportsAreDue'
  BY <1>1, <1>4, NewTaskIsValid DEF IInv, TaskIsValid, ReportsAreDue
<1> QED BY <1>1, <1>2, <1>3, <1>5 DEF IInv, Stages
(* dropTxs leaves a mempool that goes with the same blocks. *)
LEMMA DroppedIsValid ==
    ASSUME NEW m, NEW c, ValidMempool(m, c), NEW gone, ValidProofs(m, gone), NEW ts, ts \subseteq Txs
    PROVE  /\ ValidMempool(dropTxs(m, ts), c) /\ ValidProofs(dropTxs(m, ts), gone)
           /\ DOMAIN dropTxs(m, ts).txs \subseteq DOMAIN m.txs \ ts
<1> DEFINE D == DOMAIN m.txs
           X == WithDescendants(m, ts)
           n == dropTxs(m, ts)
<1>1. Exact(m) /\ D \subseteq Txs /\ NoConflicts(D)
  BY DEF ValidMempool
<1>2. Exact(n) /\ DOMAIN n.txs = D \ X
  BY <1>1, DroppedIsExact
<1>3. HasChildrenIn(X, D) /\ ts \subseteq X
  BY <1>1, DescendantsGo DEF Exact
<1>4. DOMAIN n = {"txs", "hx", "dsps"} /\ n.dsps = rmTxs(m.dsps, X)
  BY DEF dropTxs
<1> HIDE DEF n, X
<1>5. ValidProofs(n, gone)
  BY <1>2, <1>4, ProofsWithout
<1>6. NoConflicts(DOMAIN n.txs)
  BY <1>1, <1>2, FewerConflicts
<1>7. ASSUME NEW t \in DOMAIN n.txs, NEW o \in Ins[t]
      PROVE  o \in Coins \/ \E u \in DOMAIN n.txs \cup Confirmed(c) : o \in Outs[u]
  <2>1. o \in Coins \/ \E u \in D \cup Confirmed(c) : o \in Outs[u]
    BY <1>2, <1>7 DEF ValidMempool
  <2>2. ASSUME NEW u \in D, o \in Outs[u] PROVE u \in DOMAIN n.txs
    BY <1>2, <1>3, <1>7, <2>2 DEF HasChildrenIn
  <2> QED BY <2>1, <2>2
<1>8. \A t \in DOMAIN n.txs : t \notin Confirmed(c)
  BY <1>2 DEF ValidMempool
<1>9. ValidMempool(n, c)
  BY <1>1, <1>2, <1>4, <1>6, <1>7, <1>8 DEF ValidMempool
<1> QED BY <1>2, <1>3, <1>5, <1>9 DEF n

(* What bitcoind still has, on a chain that starts with our blocks, spends  *)
(* nothing that our blocks have spent.                                      *)
LEMMA ListedIsUnspent ==
    ASSUME NEW c, ValidChain(c), NEW p, ValidPool(p, c), NEW d, ValidChain(d), IsPrefix(d, c),
           NEW D, D \subseteq p,
           \A t \in D : \A o \in Ins[t] : o \in Coins \/ \E u \in D \cup Confirmed(d) : o \in Outs[u]
    PROVE  Unspent(D, d)
<1> SUFFICES ASSUME NEW t \in D, NEW o, o \in ConfOf(t, D) PROVE o \in Utxos(d)
  BY DEF Unspent
<1>1. c \in Seq(Block) /\ d \in Seq(Block) /\ Len(d) >= 1
  BY DEF ValidChain
<1>2. Confirmed(d) \subseteq Confirmed(c)
  BY <1>1, PrefixBlocks, PrefixIsValid
<1>3. o \in Ins[t] /\ ~ \E u \in D : o \in Outs[u]
  BY Members
<1>4. o \in Coins \/ \E u \in Confirmed(d) : o \in Outs[u]
  BY <1>3
<1>5. ASSUME NEW s \in Confirmed(d), o \in Ins[s] PROVE FALSE
  <2>1. s \in Confirmed(c)
    BY <1>2
  <2>2. o \notin Utxos(c)
    BY <1>1, <1>5, <2>1, ChainMembers
  <2>3. PICK u \in p : o \in Outs[u]
    BY <1>3, <2>2 DEF ValidPool
  <2>4. u \in Txs /\ u \notin Confirmed(c)
    BY DEF ValidPool
  <2>5. o \notin Coins
    BY <2>3, <2>4, MempoolConstants
  <2>6. PICK v \in Confirmed(c) : o \in Outs[v]
    BY <1>5, <2>1, <2>5, ConfirmedParents
  <2>7. v \in Txs
    BY <1>1, <2>6, ChainMembers
  <2> QED BY <2>3, <2>4, <2>6, <2>7, OneCreator
<1> QED BY <1>1, <1>4, <1>5, ChainMembers

(* What the task has after the list. *)
WithList(k, need, tentative, affected, ahead) ==
    [k EXCEPT !.need = need, !.tentative = tentative, !.affected = affected, !.listedAhead = ahead]

(* It is a task that needs what is new in the list. *)
LEMMA ListedTask ==
    ASSUME NEW k \in Tasks, Listed(k) = {}, NEW need, NEW tentative, need \subseteq tentative, tentative \subseteq Txs,
           NEW affected, affected \subseteq ShSet, NEW ahead \in BOOLEAN
    PROVE  LET w == WithList(k, need, tentative, affected, ahead)
           IN  /\ w \in Tasks /\ Listed(w) = need /\ w.tentative = tentative
               /\ w.affected = affected /\ w.listedAhead = ahead
<1> DEFINE w == WithList(k, need, tentative, affected, ahead)
<1>1. /\ DOMAIN w = {"need", "got", "failed", "tentative", "redoCt", "affected", "listedAhead"}
      /\ w = [f \in DOMAIN w |-> w[f]]
  BY DEF WithList, Tasks
<1>2. /\ w.need = need /\ w.got = k.got /\ w.failed = k.failed /\ w.tentative = tentative
      /\ w.redoCt = k.redoCt /\ w.affected = affected /\ w.listedAhead = ahead
  BY DEF WithList, Tasks
<1>3. k.got = {} /\ k.failed = {} /\ k.redoCt \in 0 .. kRedoCtMax
  BY DEF Listed, Tasks
<1> HIDE DEF w
<1>4. w \in Tasks
  BY <1>1, <1>2, <1>3 DEF Tasks
<1>5. Listed(w) = need
  BY <1>2, <1>3 DEF Listed
<1> QED BY <1>2, <1>4, <1>5 DEF w
(* doGetRawMempool *)
LEMMA GetRawMempoolKeepsIInv ==
    ASSUME IInv, doGetRawMempool
    PROVE  IInv'
<1> DEFINE D == DOMAIN mp.txs
           n == dropTxs(mp, Dropped)
           affected == task.affected \cup DropAffected(mp, Dropped)
<1>1. /\ stage = "Start" /\ UNCHANGED bitcoind /\ db' = db /\ dsp' = dsp /\ mp' = n /\ fresh' = FALSE
      /\ \/ redoFromStart(affected, {})
         \/ /\ D \ DOMAIN n.txs = Dropped /\ stage' = "DlTxs"
            /\ task' = WithList(task, pool \ D, D \cup pool, affected, IsPrefix(db, chain))
            /\ Report({}, {})
  BY DEF doGetRawMempool, WithList, InMempool, Tentative
<1>2. BitcoindIsValid' /\ pool' = pool /\ evicted' = evicted
  BY <1>1, BitcoindRests
<1>3. DspTaskIsValid'
  BY <1>1, NoProofsDownloaded
<1>4. D \subseteq Txs /\ Dropped \subseteq Txs /\ Dropped = D \ pool /\ Exact(mp) /\ NoConflicts(D)
  BY DEF IInv, ValidMempool, Dropped, InMempool
<1>5. ValidMempool(n, db) /\ ValidProofs(n, evicted) /\ DOMAIN n.txs \subseteq D \ Dropped
  BY <1>4, DroppedIsValid DEF IInv
<1>6. Changed \subseteq DropAffected(mp, Dropped)
  <2>1. \A h \in ShSet : h \notin DropAffected(mp, Dropped) => History(db, mp, h) = History(db, n, h)
    BY <1>4, DropsAreReported
  <2> HIDE DEF n
  <2> QED BY <1>1, <2>1, ChangedOnly
<1>7. affected \subseteq ShSet
  <2>1. DropAffected(mp, Dropped) \subseteq ShSet
    <3>1. WithDescendants(mp, Dropped) \cap InMempool(mp) \subseteq Txs
      BY <1>4 DEF InMempool
    <3> QED BY <3>1, ScriptHashes DEF DropAffected
  <2>2. task.affected \subseteq ShSet
    BY DEF IInv, TaskIsValid, Tasks
  <2> QED BY <2>1, <2>2
<1>8. \A h \in ShSet : h \in Changed \/ h \in task.affected => h \in affected
  BY <1>6
<1> HIDE DEF n, affected
<1>9. TaskIsValid' /\ ReportsAreDue' /\ stage' \in {"synching", "Start", "DlTxs"}
  <2>1. CASE redoFromStart(affected, {})
    BY <1>7, <1>8, <2>1, RedoneTaskIsValid
  <2>2. CASE /\ D \ DOMAIN n.txs = Dropped /\ stage' = "DlTxs"
             /\ task' = WithList(task, pool \ D, D \cup pool, affected, IsPrefix(db, chain))
             /\ Report({}, {})
    <3>1. pool \subseteq Txs /\ ValidChain(chain) /\ ValidPool(pool, chain) /\ ValidChain(db)
      BY DEF IInv, BitcoindIsValid, ValidPool
    <3>2. task \in Tasks /\ Listed(task) = {}
      BY <1>1 DEF IInv, TaskIsValid
    <3>3. IsPrefix(db, chain) \in BOOLEAN
      BY DEF IsPrefix
    <3>4. /\ task' \in Tasks /\ Listed(task') = pool \ D /\ task'.tentative = D \cup pool
          /\ task'.affected = affected /\ task'.listedAhead = IsPrefix(db, chain)
      <4>1. pool \ D \subseteq D \cup pool /\ D \cup pool \subseteq Txs
        BY <1>4, <3>1
      <4> QED BY <1>7, <2>2, <3>2, <3>3, <4>1, ListedTask
    <3>5. DOMAIN n.txs = D \cap pool
      BY <1>4, <1>5, <2>2
    <3>6. (pool \ D) \cup (D \cap pool) = pool
      OBVIOUS
    <3>7. NoConflicts(Listed(task') \cup DOMAIN n.txs)
      BY <3>1, <3>4, <3>5, <3>6 DEF ValidPool
    <3>8. IsPrefix(db, chain) => Unspent(DOMAIN n.txs, db)
      <4>1. DOMAIN n.txs \subseteq pool
        BY <3>5
      <4>2. \A t \in DOMAIN n.txs : \A o \in Ins[t] :
               o \in Coins \/ \E u \in DOMAIN n.txs \cup Confirmed(db) : o \in Outs[u]
        BY <1>5 DEF ValidMempool
      <4> QED BY <3>1, <4>1, <4>2, ListedIsUnspent
    <3>9. /\ Listed(task') \cap DOMAIN n.txs = {} /\ Listed(task') \subseteq pool \cup evicted
          /\ Listed(task') \subseteq task'.tentative
      BY <3>4, <3>5
    <3>10. TaskIsValid'
      BY <1>1, <1>2, <2>2, <3>4, <3>7, <3>8, <3>9 DEF TaskIsValid
    <3>11. ReportsAreDue
      BY DEF IInv
    <3>12. ReportsAreDue'
      BY <1>8, <2>2, <3>4, <3>11, ReportIsEnough
    <3> QED BY <2>2, <3>10, <3>12
  <2> QED BY <1>1, <2>1, <2>2
<1>10. ValidChain(db) /\ DOMAIN n.txs \subseteq pool \cup evicted
  BY <1>5 DEF IInv
<1> QED BY <1>1, <1>2, <1>3, <1>5, <1>9, <1>10 DEF IInv, Stages
(* Without a change of ours there is nothing to report. *)
LEMMA NothingChanged ==
    ASSUME db' = db, mp' = mp
    PROVE  Changed = {}
BY DEF Changed

(* A task that ends without touching the mempool. *)
LEMMA EndingKeepsIInv ==
    ASSUME IInv, stage \in {"Start", "DlTxs"}, UNCHANGED <<bitcoind, db, mp, dsp, fresh>>,
           EndTask(task.affected, {}, "synching")
    PROVE  IInv'
<1>1. db' = db /\ mp' = mp /\ dsp' = dsp /\ fresh' = fresh /\ UNCHANGED bitcoind
  OBVIOUS
<1>2. BitcoindIsValid' /\ pool' = pool /\ evicted' = evicted
  BY <1>1, BitcoindRests
<1>3. DspTaskIsValid'
  BY <1>1, NoProofsDownloaded
<1>4. Changed = {}
  BY <1>1, NothingChanged
<1>5. TaskIsValid' /\ ReportsAreDue' /\ stage' = "synching"
  BY <1>4, EndedTaskIsValid
<1> QED BY <1>1, <1>2, <1>3, <1>5 DEF IInv, Stages

(* A reply moves a transaction from one set of the task to another. *)
Move(k, t, ok) ==
    IF ok THEN [k EXCEPT !.need = @ \ {t}, !.got = @ \cup {t}]
    ELSE [k EXCEPT !.need = @ \ {t}, !.failed = @ \cup {t}]

(* The task has what it had. *)
LEMMA MovedTask ==
    ASSUME NEW k \in Tasks, NEW t \in k.need, NEW ok \in BOOLEAN
    PROVE  LET w == Move(k, t, ok)
           IN  /\ w \in Tasks /\ Listed(w) = Listed(k) /\ w.tentative = k.tentative
               /\ w.affected = k.affected /\ w.listedAhead = k.listedAhead
<1> DEFINE w == Move(k, t, ok)
<1>1. /\ DOMAIN w = {"need", "got", "failed", "tentative", "redoCt", "affected", "listedAhead"}
      /\ w = [f \in DOMAIN w |-> w[f]]
  BY DEF Move, Tasks
<1>2. /\ w.need = k.need \ {t}
      /\ w.got = IF ok THEN k.got \cup {t} ELSE k.got
      /\ w.failed = IF ok THEN k.failed ELSE k.failed \cup {t}
      /\ w.tentative = k.tentative /\ w.redoCt = k.redoCt /\ w.affected = k.affected
      /\ w.listedAhead = k.listedAhead
  BY DEF Move, Tasks
<1>3. /\ k.need \subseteq Txs /\ k.got \subseteq Txs /\ k.failed \subseteq Txs /\ k.tentative \subseteq Txs
      /\ k.redoCt \in 0 .. kRedoCtMax /\ k.affected \subseteq ShSet /\ k.listedAhead \in BOOLEAN
  BY DEF Tasks
<1> HIDE DEF w
<1>4. w.need \subseteq Txs /\ w.got \subseteq Txs /\ w.failed \subseteq Txs
  BY <1>2, <1>3
<1>5. w \in Tasks
  BY <1>1, <1>2, <1>3, <1>4 DEF Tasks
<1>6. Listed(w) = Listed(k)
  BY <1>2 DEF Listed
<1> QED BY <1>2, <1>5, <1>6 DEF w

(* So the invariant holds after it. *)
LEMMA MoveKeepsIInv ==
    ASSUME IInv, stage = "DlTxs", UNCHANGED <<bitcoind, db, mp, stage, dsp, owed, lost, fresh>>,
           NEW t \in task.need, NEW ok \in BOOLEAN, task' = Move(task, t, ok)
    PROVE  IInv'
<1>1. /\ db' = db /\ mp' = mp /\ stage' = stage /\ dsp' = dsp /\ owed' = owed /\ lost' = lost
      /\ fresh' = fresh /\ UNCHANGED bitcoind
  OBVIOUS
<1>2. BitcoindIsValid' /\ pool' = pool /\ evicted' = evicted
  BY <1>1, BitcoindRests
<1>3. DspTaskIsValid'
  BY <1>1, NoProofsDownloaded
<1>4. task \in Tasks
  BY DEF IInv, TaskIsValid
<1>5. /\ task' \in Tasks /\ Listed(task') = Listed(task) /\ task'.tentative = task.tentative
      /\ task'.affected = task.affected /\ task'.listedAhead = task.listedAhead
  BY <1>4, MovedTask
<1>6. TaskIsValid'
  BY <1>1, <1>2, <1>5 DEF IInv, TaskIsValid
<1>7. ReportsAreDue'
  BY <1>1, <1>5 DEF IInv, ReportsAreDue
<1> QED BY <1>1, <1>2, <1>3, <1>6, <1>7 DEF IInv

(* Downloaded *)
LEMMA DownloadedKeepsIInv ==
    ASSUME IInv, NEW t \in Txs, Downloaded(t)
    PROVE  IInv'
<1>1. /\ stage = "DlTxs" /\ UNCHANGED <<bitcoind, db, mp, stage, dsp, owed, lost, fresh>>
      /\ t \in task.need /\ task' = Move(task, t, TRUE)
  BY DEF Downloaded, Move
<1> QED BY <1>1, MoveKeepsIInv

(* DownloadFailed *)
LEMMA DownloadFailedKeepsIInv ==
    ASSUME IInv, NEW t \in Txs, DownloadFailed(t)
    PROVE  IInv'
<1>1. stage = "DlTxs" /\ t \in task.need /\ UNCHANGED <<bitcoind, db, mp, dsp, fresh>>
  BY DEF DownloadFailed
<1>2. CASE EndTask(task.affected, {}, "synching")
  BY <1>1, <1>2, EndingKeepsIInv
<1>3. CASE task' = Move(task, t, FALSE) /\ UNCHANGED <<stage, owed, lost>>
  BY <1>1, <1>3, MoveKeepsIInv
<1> QED BY <1>2, <1>3 DEF DownloadFailed, Move

(* PrecacheErrors and RequestFails *)
LEMMA FailureKeepsIInv ==
    ASSUME IInv, PrecacheErrors \/ RequestFails
    PROVE  IInv'
<1>1. /\ stage \in {"Start", "DlTxs"} /\ UNCHANGED <<bitcoind, db, mp, dsp, fresh>>
      /\ EndTask(task.affected, {}, "synching")
  BY DEF PrecacheErrors, RequestFails
<1> QED BY <1>1, EndingKeepsIInv

(* ConsistencyError *)
LEMMA ConsistencyErrorKeepsIInv ==
    ASSUME IInv, ConsistencyError
    PROVE  IInv'
<1> DEFINE D == DOMAIN mp.txs
           outs == {Sh[o] : o \in UNION {Outs[t] : t \in NewTxs}}
           ins  == {Sh[o] : o \in UNION {Ins[t] : t \in NewTxs}}
<1>1. /\ stage = "DlTxs" /\ UNCHANGED bitcoind /\ db' = db /\ dsp' = dsp /\ mp' = clear /\ fresh' = FALSE
      /\ \E inputs \in SUBSET ins : redoFromStart(task.affected \cup inputs \cup outs, ShsOfAll(D))
  BY DEF ConsistencyError, AllDownloaded, InMempool
<1>2. PICK inputs \in SUBSET ins : redoFromStart(task.affected \cup inputs \cup outs, ShsOfAll(D))
  BY <1>1
<1>3. BitcoindIsValid' /\ pool' = pool /\ evicted' = evicted
  BY <1>1, BitcoindRests
<1>4. DspTaskIsValid'
  BY <1>1, NoProofsDownloaded
<1>5. D \subseteq Txs /\ Exact(mp) /\ NewTxs \subseteq Txs /\ task.affected \subseteq ShSet
  BY DEF IInv, ValidMempool, TaskIsValid, Tasks, NewTxs
<1>6. outs \subseteq ShSet /\ ins \subseteq ShSet /\ ShsOfAll(D) \subseteq ShSet
  BY <1>5, ScriptHashes
<1>7. Changed \subseteq ShsOfAll(D)
  <2>1. ASSUME NEW h \in ShSet, h \notin ShsOfAll(D) PROVE History(db, mp, h) = History(db, clear, h)
    <3>1. Of(h, D) = {}
      BY <2>1 DEF Of, ShsOfAll
    <3>2. mp.hx[h] = <<>>
      BY <1>5, <3>1, Vectors
    <3>3. clear.hx[h] = mp.hx[h]
      BY <3>2 DEF clear
    <3>4. \A t \in Of(h, D) : hasUnconfirmedParents(mp.txs, t) <=> hasUnconfirmedParents(clear.txs, t)
      BY <3>1
    <3> QED BY <1>5, <3>3, <3>4, SameChain
  <2> QED BY <1>1, <2>1, ChangedOnly
<1> HIDE DEF outs, ins
<1>8. TaskIsValid' /\ ReportsAreDue' /\ stage' \in {"synching", "Start"}
  BY <1>2, <1>5, <1>6, <1>7, RedoneTaskIsValid
<1>9. ValidMempool(clear, db) /\ ValidProofs(clear, evicted) /\ DOMAIN clear.txs = {}
  BY ClearIsValid
<1> QED BY <1>1, <1>3, <1>4, <1>8, <1>9 DEF IInv, Stages
(* Closure has nothing else. *)
LEMMA ClosureIsLeast ==
    ASSUME NEW ts, NEW next, NEW s, s \subseteq Txs, ts \subseteq s, \A t \in s : next[t] \subseteq s
    PROVE  Closure(ts, next) \subseteq s
BY DEF Closure

(* Descendants of t are t, and the children of descendants. *)
LEMMA DescendingMembers ==
    ASSUME NEW t \in Txs
    PROVE  /\ t \in Descending(t) /\ Descending(t) \subseteq Txs
           /\ \A v \in Descending(t) : \A w \in Txs : Ins[w] \cap Outs[v] # {} => w \in Descending(t)
           /\ \A s : /\ s \subseteq Txs /\ t \in s
                     /\ \A v \in s : \A w \in Txs : Ins[w] \cap Outs[v] # {} => w \in s
                     => Descending(t) \subseteq s
<1> DEFINE next == [v \in Txs |-> {w \in Txs : Ins[w] \cap Outs[v] # {}}]
           F == Descending(t)
<1>1. F = Closure({t}, next)
  BY DEF Descending
<1>2. \A v \in Txs : \A w : w \in next[v] <=> w \in Txs /\ Ins[w] \cap Outs[v] # {}
  OBVIOUS
<1> HIDE DEF next
<1>3. {t} \subseteq F /\ F \subseteq Txs /\ \A v \in F : \A u \in Txs : u \in next[v] => u \in F
  <2>1. {t} \subseteq Txs
    OBVIOUS
  <2>2. LET C == Closure({t}, next)
        IN  {t} \subseteq C /\ C \subseteq Txs /\ \A v \in C : \A u \in Txs : u \in next[v] => u \in C
    BY <2>1, ClosureIsClosed
  <2> QED BY <1>1, <2>2
<1>4. ASSUME NEW s, s \subseteq Txs, t \in s, \A v \in s : \A w \in Txs : Ins[w] \cap Outs[v] # {} => w \in s
      PROVE  F \subseteq s
  <2>1. \A v \in s : next[v] \subseteq s
    BY <1>2, <1>4
  <2> QED BY <1>1, <1>4, <2>1, ClosureIsLeast
<1> HIDE DEF F
<1>5. \A v \in F : \A w \in Txs : Ins[w] \cap Outs[v] # {} => w \in F
  BY <1>2, <1>3
<1> QED BY <1>3, <1>4, <1>5 DEF F

(* addNewTxs links new descendants to the proofs of their parents. *)
LEMMA GrownProofs ==
    ASSUME NEW m, NEW gone, ValidProofs(m, gone), DOMAIN m.txs \subseteq Txs,
           NEW new, new \subseteq Txs, new \cap DOMAIN m.txs = {},
           \A t \in DOMAIN m.txs : \A u \in new : Ins[t] \cap Outs[u] = {},
           NEW parentsOf, \A u \in new : parentsOf[u] = ParentsOf(u, DOMAIN m.txs \cup new),
           NEW n, n.dsps = DspsGrown(m.dsps, parentsOf, new), DOMAIN n.txs = DOMAIN m.txs \cup new
    PROVE  ValidProofs(n, gone)
<1> DEFINE D   == DOMAIN m.txs
           all == D \cup new
           next == [t \in Txs |-> {u \in new : t \in parentsOf[u]}]
<1>1. n.dsps = [d \in Dsps |-> Closure(m.dsps[d], next)]
  BY DEF DspsGrown
<1>2. \A v \in all : \A w : w \in next[v] <=> w \in new /\ Ins[w] \cap Outs[v] # {}
  <2>1. \A w \in new : \A v : v \in parentsOf[w] <=> v \in all /\ \E o \in Ins[w] : o \in Outs[v]
    BY Members
  <2>2. all \subseteq Txs
    OBVIOUS
  <2> QED BY <2>1, <2>2
<1>3. \A v \in Txs : next[v] \subseteq new
  OBVIOUS
<1>4. D \subseteq Txs /\ all \subseteq Txs /\ new \cap D = {} /\ DOMAIN n.txs = all
      /\ \A t \in D : \A u \in new : Ins[t] \cap Outs[u] = {}
  OBVIOUS
<1> HIDE DEF next, D
<1>5. ASSUME NEW d \in Dsps
      PROVE  /\ n.dsps[d] \subseteq Txs
             /\ n.dsps[d] # {} => DspTx[d] \in n.dsps[d]
             /\ n.dsps[d] \subseteq DOMAIN n.txs
             /\ Covers(n.dsps[d], DspTx[d], DOMAIN n.txs, gone)
  <2> DEFINE old == m.dsps[d]
             S   == Closure(old, next)
             F   == Descending(DspTx[d])
  <2>1. n.dsps[d] = S
    BY <1>1
  <2>2. /\ old \subseteq Txs /\ (old # {} => DspTx[d] \in old)
        /\ old \subseteq D /\ old \subseteq F
        /\ \A v \in old : \A w \in D : Ins[w] \cap Outs[v] # {} => w \in old \/ w \in gone
    BY DEF ValidProofs, Covers, D
  <2>3. DspTx[d] \in Txs
    BY MempoolConstants
  <2>4. F \subseteq Txs /\ \A v \in F : \A w \in Txs : Ins[w] \cap Outs[v] # {} => w \in F
    BY <2>3, DescendingMembers
  <2> HIDE DEF S, F, old
  <2>5. /\ old \subseteq S /\ S \subseteq Txs
        /\ \A v \in S : \A u \in Txs : u \in next[v] => u \in S
    <3>1. old \subseteq Txs
      BY <2>2
    <3>2. LET C == Closure(old, next)
          IN  old \subseteq C /\ C \subseteq Txs /\ \A v \in C : \A u \in Txs : u \in next[v] => u \in C
      BY <3>1, ClosureIsClosed
    <3> QED BY <3>2 DEF S
  <2>6. old = {} => S = {}
    <3>1. \A t \in {} : next[t] \subseteq {}
      OBVIOUS
    <3>2. old \subseteq {} => Closure(old, next) \subseteq {}
      BY <3>1, ClosureIsLeast
    <3> QED BY <3>2 DEF S
  <2>7. S \subseteq old \cup new
    <3>1. old \cup new \subseteq Txs /\ \A t \in old \cup new : next[t] \subseteq old \cup new
      BY <1>3, <1>4, <2>2
    <3> QED BY <3>1, ClosureIsLeast DEF S
  <2>8. S \subseteq F
    <3> DEFINE s == F \cap (old \cup new)
    <3>1. s \subseteq Txs /\ old \subseteq s
      BY <2>2, <2>4
    <3>2. \A t \in s : t \in all /\ t \in F
      BY <2>2
    <3>3. \A t \in s : \A w \in next[t] : w \in new /\ w \in F
      BY <1>2, <1>4, <2>4, <3>2
    <3>4. \A t \in s : next[t] \subseteq s
      BY <3>3
    <3> HIDE DEF s
    <3>5. S \subseteq s
      BY <3>1, <3>4, ClosureIsLeast DEF S
    <3> QED BY <3>5 DEF s
  <2>9. ASSUME NEW v \in S, NEW w \in all, Ins[w] \cap Outs[v] # {} PROVE w \in S \/ w \in gone
    <3>1. v \in all
      BY <2>2, <2>7
    <3>2. CASE w \in new
      BY <1>2, <1>4, <2>5, <2>9, <3>1, <3>2
    <3>3. CASE w \in D
      <4>1. v \notin new
        BY <1>4, <2>9, <3>3
      <4>2. v \in old
        BY <2>7, <4>1
      <4> QED BY <2>2, <2>5, <2>9, <3>3, <4>2
    <3> QED BY <3>2, <3>3
  <2>10. Covers(S, DspTx[d], all, gone)
    BY <2>8, <2>9 DEF Covers, F
  <2>11. S \subseteq all /\ (S # {} => DspTx[d] \in S)
    BY <2>2, <2>5, <2>6, <2>7
  <2> QED BY <1>4, <2>1, <2>5, <2>10, <2>11
<1>6. n.dsps \in [Dsps -> SUBSET Txs]
  BY <1>1, <1>5
<1> QED BY <1>5, <1>6 DEF ValidProofs
(* Nothing that addNewTxs gets is confirmed in our blocks: it would spend   *)
(* what they have spent, so that the look-up would not find it, unless a    *)
(* parent of it is new and confirmed too.                                   *)
LEMMA NewAreNotConfirmed ==
    ASSUME IInv, AllDownloaded, ~ NotFound(mp, NewTxs, Cached)
    PROVE  /\ NewTxs \cap Confirmed(db) = {} /\ Cached \subseteq Utxos(db)
           /\ \A t \in NewTxs : \A o \in Ins[t] : o \in Cached \/ \E u \in DOMAIN mp.txs \cup NewTxs : o \in Outs[u]
<1> DEFINE D == DOMAIN mp.txs
           W == NewTxs \cap Confirmed(db)
<1>1. /\ ValidChain(db) /\ db \in Seq(Block) /\ D \subseteq Txs /\ task.got \subseteq Txs
      /\ \A t \in D : t \notin Confirmed(db)
  BY DEF IInv, ValidChain, ValidMempool, TaskIsValid, Tasks
<1>2. \A t \in task.got : Precached(t) \subseteq Utxos(db)
  BY DEF AllDownloaded, NotInDb
<1>3. Cached \subseteq Utxos(db)
  BY <1>2 DEF Cached
<1>4. NewTxs \subseteq task.got
  BY DEF NewTxs
<1>5. \A t \in NewTxs : \A o \in Ins[t] : o \in Cached \/ \E u \in D \cup NewTxs : o \in Outs[u]
  BY DEF NotFound, InMempool
<1>6. \A t \in Confirmed(db) : \A o \in Ins[t] : o \notin Utxos(db)
  BY <1>1, ChainMembers
<1>7. W = {}
  <2>1. SUFFICES ASSUME W # {} PROVE FALSE
    OBVIOUS
  <2>2. W \in (SUBSET Txs) \ {{}}
    BY <1>1, <1>4, <2>1
  <2>3. PICK t \in W : \A u \in W : Ins[t] \cap Outs[u] = {}
    BY <2>2, MempoolConstants
  <2>4. t \in Txs /\ t \in NewTxs /\ t \in Confirmed(db)
    BY <2>2, <2>3
  <2>5. PICK o : o \in Ins[t]
    BY <2>4, MempoolConstants
  <2>6. o \notin Cached
    BY <1>3, <1>6, <2>4, <2>5
  <2>7. PICK u \in D \cup NewTxs : o \in Outs[u]
    BY <1>5, <2>4, <2>5, <2>6
  <2>8. u \in Txs
    BY <1>1, <1>4, <2>7
  <2>9. o \notin Coins
    BY <2>7, <2>8, MempoolConstants
  <2>10. PICK v \in Confirmed(db) : o \in Outs[v]
    BY <1>1, <2>4, <2>5, <2>9, ConfirmedParents
  <2>11. v \in Txs
    BY <1>1, <2>10, ChainMembers
  <2>12. u = v
    BY <2>7, <2>8, <2>10, <2>11, OneCreator
  <2>13. u \in W
    BY <1>1, <2>7, <2>10, <2>12
  <2> QED BY <2>3, <2>5, <2>7, <2>13
<1> QED BY <1>3, <1>5, <1>7

(* processResults *)
LEMMA ProcessResultsKeepsIInv ==
    ASSUME IInv, processResults
    PROVE  IInv'
<1> DEFINE D   == DOMAIN mp.txs
           new == NewTxs
           n   == addNewTxs(mp, new, task.affected)
           affected == task.affected \cup ShsOfAll(new)
<1>1. /\ AllDownloaded /\ stage = "DlTxs" /\ UNCHANGED bitcoind /\ db' = db /\ dsp' = dsp
      /\ ~ NotFound(mp, new, Cached) /\ mp' = n /\ EndTask(affected, {}, "GetDSPList")
      /\ fresh' = task.listedAhead
  BY DEF processResults, AllDownloaded
<1>2. BitcoindIsValid' /\ pool' = pool /\ evicted' = evicted
  BY <1>1, BitcoindRests
<1>3. DspTaskIsValid'
  BY <1>1, NoProofsDownloaded
<1>4. /\ new \cap Confirmed(db) = {} /\ Cached \subseteq Utxos(db)
      /\ \A t \in new : \A o \in Ins[t] : o \in Cached \/ \E u \in D \cup new : o \in Outs[u]
  BY <1>1, NewAreNotConfirmed
<1>5. /\ D \subseteq Txs /\ Exact(mp) /\ NoConflicts(D) /\ \A t \in D : t \notin Confirmed(db)
      /\ \A t \in D : \A o \in Ins[t] : o \in Coins \/ \E u \in D \cup Confirmed(db) : o \in Outs[u]
      /\ ValidChain(db) /\ db \in Seq(Block)
  BY DEF IInv, ValidMempool, ValidChain
<1>6. /\ task \in Tasks /\ Listed(task) \cap D = {} /\ NoConflicts(Listed(task) \cup D)
      /\ Listed(task) \subseteq pool \cup evicted
      /\ task.listedAhead => Unspent(D, db)
  BY <1>1 DEF IInv, TaskIsValid
<1>7. new \subseteq Listed(task) /\ new \subseteq Txs
  BY <1>6 DEF NewTxs, Listed, Tasks
<1> HIDE DEF new
<1>8. new \cap D = {} /\ D \cup new \subseteq Txs /\ D \cup new \subseteq pool \cup evicted
  BY <1>5, <1>6, <1>7 DEF IInv
<1>9. \A t \in D : \A u \in new : Ins[t] \cap Outs[u] = {}
  <2> SUFFICES ASSUME NEW t \in D, NEW u \in new, NEW o, o \in Ins[t], o \in Outs[u] PROVE FALSE
    OBVIOUS
  <2>1. u \in Txs /\ u \notin D /\ u \notin Confirmed(db)
    BY <1>4, <1>7, <1>8
  <2>2. o \notin Coins
    BY <2>1, MempoolConstants
  <2>3. PICK v \in D \cup Confirmed(db) : o \in Outs[v]
    BY <1>5, <2>2
  <2>4. v \in Txs
    BY <1>5, <2>3, ChainMembers
  <2> QED BY <2>1, <2>3, <2>4, OneCreator
<1>10. Exact(n) /\ DOMAIN n.txs = D \cup new
  BY <1>5, <1>7, <1>8, <1>9, AddedIsExact
<1>11. /\ DOMAIN n = {"txs", "hx", "dsps"}
       /\ n.dsps = DspsGrown(mp.dsps, [t \in new |-> n.txs[t].parents], new)
  BY DEF addNewTxs
<1>12. \A h \in ShSet : h \notin affected => History(db, mp, h) = History(db, n, h)
  BY <1>5, <1>7, <1>8, <1>9, AddsAreReported
<1> HIDE DEF n, D
<1>13. ValidMempool(n, db)
  <2>1. NoConflicts(D \cup new)
    <3>1. D \cup new \subseteq Listed(task) \cup D
      BY <1>7
    <3> QED BY <1>6, <3>1, FewerConflicts
  <2>2. \A t \in D \cup new : t \notin Confirmed(db)
    BY <1>4, <1>5
  <2>3. \A t \in D \cup new : \A o \in Ins[t] :
           o \in Coins \/ \E u \in (D \cup new) \cup Confirmed(db) : o \in Outs[u]
    <3>1. \A o \in Utxos(db) : o \in Coins \/ \E u \in Confirmed(db) : o \in Outs[u]
      BY <1>5, ChainMembers
    <3> QED BY <1>4, <1>5, <3>1
  <2> QED BY <1>8, <1>10, <1>11, <2>1, <2>2, <2>3 DEF ValidMempool
<1>14. ValidProofs(n, evicted)
  <2> DEFINE parentsOf == [t \in new |-> n.txs[t].parents]
  <2>1. \A u \in new : parentsOf[u] = ParentsOf(u, D \cup new)
    <3> SUFFICES ASSUME NEW u \in new PROVE n.txs[u].parents = ParentsOf(u, D \cup new)
      OBVIOUS
    <3>1. n.txs[u] = TxOf(u, D \cup new)
      BY <1>10, Fields DEF Exact
    <3> QED BY <3>1, ChangedTx
  <2>2. n.dsps = DspsGrown(mp.dsps, parentsOf, new)
    BY <1>11
  <2> HIDE DEF parentsOf
  <2>3. ValidProofs(mp, evicted)
    BY DEF IInv
  <2> QED BY <1>5, <1>7, <1>8, <1>9, <1>10, <2>1, <2>2, <2>3, GrownProofs DEF D
<1>15. TaskIsValid' /\ ReportsAreDue' /\ stage' = "GetDSPList"
  <2>1. Changed \subseteq affected
    BY <1>1, <1>12, ChangedOnly
  <2> QED BY <1>1, <2>1, EndedTaskIsValid
<1>16. task.listedAhead => Unspent(D \cup new, db)
  <2> SUFFICES ASSUME Unspent(D, db), NEW t \in D \cup new, NEW o, o \in ConfOf(t, D \cup new)
               PROVE  o \in Utxos(db)
    BY <1>6 DEF Unspent
  <2>1. o \in Ins[t] /\ ~ \E u \in D \cup new : o \in Outs[u]
    BY Members
  <2>2. CASE t \in D
    <3>1. o \in ConfOf(t, D)
      BY <2>1, Members
    <3> QED BY <2>2, <3>1 DEF Unspent
  <2>3. CASE t \in new
    BY <1>4, <2>1, <2>3
  <2> QED BY <2>2, <2>3
<1>17. task.listedAhead \in BOOLEAN
  BY <1>6 DEF Tasks
<1> QED BY <1>1, <1>2, <1>3, <1>5, <1>8, <1>10, <1>13, <1>14, <1>15, <1>16, <1>17 DEF IInv, Stages
-----------------------------------------------------------------------------
(* SynchDSPsTask *)

(* What bitcoind says of a proof: descendants, and all of those that it has.*)
LEMMA DescendantsCover ==
    ASSUME BitcoindIsValid, NEW t \in Txs, NEW D, D \subseteq pool \cup evicted
    PROVE  Descendants(t) \subseteq Txs /\ Covers(Descendants(t), t, D, evicted)
<1> DEFINE U == Utxos(chain)
           V == Viable(pool \ {t}, U)
           F == Descending(t)
           s == pool \ F
<1>1. /\ pool \subseteq Txs /\ chain \in Seq(Block) /\ \A v \in pool : v \notin Confirmed(chain)
      /\ \A v \in pool : \A o \in Ins[v] : o \in U \/ \E u \in pool : o \in Outs[u]
  BY DEF BitcoindIsValid, ValidPool, ValidChain
<1>2. Descendants(t) = pool \ V
  BY DEF Descendants
<1>3. t \in F /\ \A v \in F : \A w \in Txs : Ins[w] \cap Outs[v] # {} => w \in F
  BY DescendingMembers
<1>4. V \subseteq pool \ {t} /\ \A v \in V : \A o \in Ins[v] : o \in U \/ \E u \in V : o \in Outs[u]
  BY ViableIsValid
<1>5. s \subseteq V
  <2>1. s \subseteq pool \ {t}
    BY <1>3
  <2>2. ASSUME NEW v \in s, NEW o \in Ins[v] PROVE o \in U \/ \E u \in s : o \in Outs[u]
    BY <1>1, <1>3, <2>2
  <2>3. \A v \in s : Ins[v] \subseteq U \cup UNION {Outs[u] : u \in s}
    BY <2>2
  <2> QED BY <2>1, <2>3 DEF Viable
<1> HIDE DEF U, V, F
<1>6. ASSUME NEW v \in pool \ V, NEW w \in D, Ins[w] \cap Outs[v] # {}, w \notin evicted
      PROVE  w \in pool \ V
  <2>1. w \in pool
    BY <1>6
  <2>2. SUFFICES ASSUME w \in V PROVE FALSE
    BY <2>1
  <2>3. PICK o \in Ins[w] : o \in Outs[v]
    BY <1>6
  <2>4. v \in Txs /\ v \notin Confirmed(chain)
    BY <1>1
  <2>5. o \notin U
    <3>1. o \notin Coins
      BY <2>3, <2>4, MempoolConstants
    <3>2. SUFFICES ASSUME NEW c \in Confirmed(chain), o \in Outs[c] PROVE FALSE
      BY <1>1, <3>1, ChainMembers DEF U
    <3>3. c \in Txs
      BY <1>1, ChainMembers
    <3> QED BY <2>3, <2>4, <3>2, <3>3, OneCreator
  <2>6. PICK u \in V : o \in Outs[u]
    BY <1>4, <2>2, <2>3, <2>5
  <2>7. u \in Txs
    BY <1>1, <1>4
  <2>8. u = v
    BY <2>3, <2>4, <2>6, <2>7, OneCreator
  <2> QED BY <2>8
<1>7. pool \ V \subseteq F /\ pool \ V \subseteq Txs
  BY <1>1, <1>5
<1>8. Covers(pool \ V, t, D, evicted)
  BY <1>6, <1>7 DEF Covers, F
<1> QED BY <1>2, <1>7, <1>8

(* Steps of the task that leave the mempool alone. *)
LEMMA DspStepKeepsIInv ==
    ASSUME IInv, stage \in {"GetDSPList", "DownloadingNewDSPs"}, UNCHANGED <<bitcoind, db, mp, task, owed, lost, fresh>>,
           stage' \in {"synching", "GetDSPList", "DownloadingNewDSPs"}, DspTaskIsValid'
    PROVE  IInv'
<1>1. db' = db /\ mp' = mp /\ task' = task /\ owed' = owed /\ lost' = lost /\ fresh' = fresh /\ UNCHANGED bitcoind
  OBVIOUS
<1>2. BitcoindIsValid' /\ pool' = pool /\ evicted' = evicted
  BY <1>1, BitcoindRests
<1>3. TaskIsValid'
  BY <1>1 DEF IInv, TaskIsValid
<1>4. ReportsAreDue'
  BY <1>1 DEF IInv, ReportsAreDue
<1> QED BY <1>1, <1>2, <1>3, <1>4 DEF IInv, Stages

(* A task that ends has nothing. *)
LEMMA EndedDsps ==
    ASSUME EndDsps
    PROVE  stage' = "synching" /\ DspTaskIsValid'
<1>1. stage' = "synching" /\ dsp' = [need |-> {}, got |-> [d \in Dsps |-> {}]]
  BY DEF EndDsps, NewDspTask
<1>2. DspTaskIsValid'
  BY <1>1 DEF DspTaskIsValid, Covers
<1> QED BY <1>1, <1>2

(* doGetDSPList and DspRequestFails *)
LEMMA GetDspListKeepsIInv ==
    ASSUME IInv, doGetDSPList \/ DspRequestFails
    PROVE  IInv'
<1>1. /\ stage \in {"GetDSPList", "DownloadingNewDSPs"}
      /\ UNCHANGED <<bitcoind, db, mp, task, owed, lost, fresh>>
  BY DEF doGetDSPList, DspRequestFails
<1>2. CASE EndDsps
  BY <1>1, <1>2, EndedDsps, DspStepKeepsIInv
<1>3. CASE /\ stage = "GetDSPList" /\ stage' = "DownloadingNewDSPs"
           /\ dsp' = [dsp EXCEPT !.need = {d \in proofs : ~ HasProof(d)}]
  <2>1. dsp \in [need : SUBSET Dsps, got : [Dsps -> SUBSET Txs]] /\ proofs \subseteq Dsps
    BY DEF IInv, DspTaskIsValid, BitcoindIsValid
  <2>2. dsp' \in [need : SUBSET Dsps, got : [Dsps -> SUBSET Txs]] /\ dsp'.got = dsp.got
    BY <1>3, <2>1
  <2>3. dsp.got = [d \in Dsps |-> {}]
    BY <1>3 DEF IInv, DspTaskIsValid
  <2>4. DspTaskIsValid'
    BY <1>3, <2>2, <2>3 DEF DspTaskIsValid, Covers
  <2> QED BY <1>1, <1>3, <2>4, DspStepKeepsIInv
<1> QED BY <1>2, <1>3 DEF doGetDSPList, DspRequestFails

(* dlNext *)
LEMMA DlNextKeepsIInv ==
    ASSUME IInv, NEW d \in Dsps, dlNext(d)
    PROVE  IInv'
<1> DEFINE got == IF d \in proofs THEN Descendants(DspTx[d]) ELSE {}
<1>1. /\ stage = "DownloadingNewDSPs" /\ d \in dsp.need /\ stage' = stage
      /\ dsp' = [need |-> dsp.need \ {d}, got |-> [dsp.got EXCEPT ![d] = got]]
      /\ UNCHANGED <<bitcoind, db, mp, task, owed, lost, fresh>>
  BY DEF dlNext
<1>2. mp' = mp /\ evicted' = evicted
  BY <1>1 DEF bitcoind
<1>3. DspTx[d] \in Txs /\ BitcoindIsValid /\ DOMAIN mp.txs \subseteq pool \cup evicted
  BY MempoolConstants DEF IInv
<1>4. got \subseteq Txs /\ Covers(got, DspTx[d], DOMAIN mp.txs, evicted)
  <2>1. Covers({}, DspTx[d], DOMAIN mp.txs, evicted)
    BY DEF Covers
  <2> QED BY <1>3, <2>1, DescendantsCover
<1> HIDE DEF got
<1>5. /\ dsp.need \subseteq Dsps /\ dsp.got \in [Dsps -> SUBSET Txs]
      /\ \A e \in Dsps : Covers(dsp.got[e], DspTx[e], DOMAIN mp.txs, evicted)
  BY DEF IInv, DspTaskIsValid
<1>6. /\ dsp'.need = dsp.need \ {d} /\ dsp'.got = [dsp.got EXCEPT ![d] = got]
      /\ dsp' \in [need : SUBSET Dsps, got : [Dsps -> SUBSET Txs]]
  BY <1>1, <1>4, <1>5
<1>7. \A e \in Dsps : Covers(dsp'.got[e], DspTx[e], DOMAIN mp.txs, evicted)
  <2> SUFFICES ASSUME NEW e \in Dsps PROVE Covers(dsp'.got[e], DspTx[e], DOMAIN mp.txs, evicted)
    OBVIOUS
  <2>1. dsp'.got[e] = IF e = d THEN got ELSE dsp.got[e]
    BY <1>5, <1>6
  <2> QED BY <1>4, <1>5, <2>1
<1>8. DspTaskIsValid'
  BY <1>1, <1>2, <1>6, <1>7 DEF DspTaskIsValid
<1> QED BY <1>1, <1>8, DspStepKeepsIInv

(* doProcessDownloads *)
LEMMA ProcessDownloadsKeepsIInv ==
    ASSUME IInv, doProcessDownloads
    PROVE  IInv'
<1> DEFINE D == DOMAIN mp.txs
           dsps == [d \in Dsps |-> IF HasProof(d) THEN mp.dsps[d] ELSE Linked(d)]
<1>1. /\ stage = "DownloadingNewDSPs" /\ EndDsps /\ mp' = [mp EXCEPT !.dsps = dsps]
      /\ db' = db /\ task' = task /\ owed' = owed /\ lost' = lost /\ fresh' = fresh /\ UNCHANGED bitcoind
  BY DEF doProcessDownloads
<1>2. BitcoindIsValid' /\ pool' = pool /\ evicted' = evicted
  BY <1>1, BitcoindRests
<1>3. stage' = "synching" /\ DspTaskIsValid'
  BY <1>1, EndedDsps
<1>4. ValidMempool(mp, db) /\ DOMAIN mp = {"txs", "hx", "dsps"}
  BY DEF IInv, ValidMempool
<1>5. \A d \in Dsps :
         /\ dsps[d] \subseteq Txs /\ (dsps[d] # {} => DspTx[d] \in dsps[d]) /\ dsps[d] \subseteq D
         /\ Covers(dsps[d], DspTx[d], D, evicted)
  <2> SUFFICES ASSUME NEW d \in Dsps
               PROVE  /\ dsps[d] \subseteq Txs /\ (dsps[d] # {} => DspTx[d] \in dsps[d]) /\ dsps[d] \subseteq D
                      /\ Covers(dsps[d], DspTx[d], D, evicted)
    OBVIOUS
  <2>1. dsps[d] = IF HasProof(d) THEN mp.dsps[d] ELSE Linked(d)
    OBVIOUS
  <2>2. /\ mp.dsps[d] \subseteq Txs /\ (mp.dsps[d] # {} => DspTx[d] \in mp.dsps[d]) /\ mp.dsps[d] \subseteq D
        /\ Covers(mp.dsps[d], DspTx[d], D, evicted)
    BY DEF IInv, ValidProofs
  <2>3. dsp.got[d] \subseteq Txs /\ Covers(dsp.got[d], DspTx[d], D, evicted)
    BY DEF IInv, DspTaskIsValid
  <2>4. Linked(d) = IF DspTx[d] \in dsp.got[d] \cap D THEN dsp.got[d] \cap D ELSE {}
    BY DEF Linked, InMempool
  <2> HIDE DEF dsps, D
  <2>5. /\ Linked(d) \subseteq Txs /\ (Linked(d) # {} => DspTx[d] \in Linked(d)) /\ Linked(d) \subseteq D
        /\ Covers(Linked(d), DspTx[d], D, evicted)
    BY <2>3, <2>4 DEF Covers
  <2> QED BY <2>1, <2>2, <2>5
<1>6. dsps \in [Dsps -> SUBSET Txs]
  BY <1>5
<1> HIDE DEF dsps
<1>7. mp'.txs = mp.txs /\ mp'.hx = mp.hx /\ mp'.dsps = dsps /\ DOMAIN mp' = {"txs", "hx", "dsps"}
  BY <1>1, <1>4
<1>8. ValidMempool(mp', db)
  BY <1>4, <1>7 DEF ValidMempool, Exact
<1>9. ValidProofs(mp', evicted)
  BY <1>5, <1>6, <1>7 DEF ValidProofs
<1>10. TaskIsValid'
  BY <1>1, <1>3 DEF IInv, TaskIsValid
<1>11. ReportsAreDue'
  BY <1>1 DEF IInv, ReportsAreDue
<1> QED BY <1>1, <1>2, <1>3, <1>7, <1>8, <1>9, <1>10, <1>11 DEF IInv, Stages
-----------------------------------------------------------------------------
(* Theorems *)

(* The invariant holds initially. *)
LEMMA InitIsIInv == Init => IInv
<1> SUFFICES ASSUME Init PROVE IInv
  OBVIOUS
<1>1. /\ chain = <<Genesis>> /\ db = chain /\ pool \in ValidSets(Coins)
      /\ proofs = {} /\ evicted = {} /\ mp = clear
      /\ stage = "synching" /\ task = NewTask /\ dsp = NewDspTask
      /\ owed = {} /\ lost = {} /\ fresh = FALSE
  BY DEF Init
<1>2. /\ Genesis \in Block /\ Genesis.txs = {} /\ chain \in Seq(Block) /\ Len(chain) = 1 /\ chain[1].txs = {}
  BY <1>1 DEF Genesis, Block
<1>3. ValidChain(chain)
  BY <1>2 DEF ValidChain, NoConflicts
<1>4. \A t : t \notin Confirmed(chain)
  <2>1. \A i \in 1 .. Len(chain) : chain[i].txs = {}
    BY <1>2
  <2> QED BY <1>2, <2>1, ChainMembers
<1>5. \A o \in Coins : o \in Utxos(chain)
  BY <1>2, <1>4, ChainMembers
<1>6. ValidPool(pool, chain)
  <2>1. pool \subseteq Txs /\ (\A t \in pool : Conflicts(pool, t) = {}) /\ Viable(pool, Coins) = pool
    BY <1>1 DEF ValidSets, ConflictFree
  <2>2. NoConflicts(pool)
    BY <2>1 DEF Conflicts, NoConflicts
  <2>3. \A t \in pool : \A o \in Ins[t] : o \in Coins \/ \E u \in pool : o \in Outs[u]
    BY <2>1, ViableIsValid
  <2> QED BY <1>4, <1>5, <2>1, <2>2, <2>3 DEF ValidPool
<1>7. ValidMempool(mp, db) /\ ValidProofs(mp, evicted) /\ DOMAIN mp.txs = {}
  BY <1>1, ClearIsValid
<1>8. TaskIsValid /\ ReportsAreDue
  BY <1>1, NewTaskIsValid DEF TaskIsValid, ReportsAreDue
<1>9. DspTaskIsValid
  BY <1>1 DEF DspTaskIsValid, NewDspTask, Covers
<1> QED BY <1>1, <1>3, <1>6, <1>7, <1>8, <1>9 DEF IInv, BitcoindIsValid, Stages

(* Every step keeps it. *)
LEMMA NextKeepsIInv == IInv /\ [Next]_vars => IInv'
<1> SUFFICES ASSUME IInv, [Next]_vars PROVE IInv'
  OBVIOUS
<1>1. CASE BitcoindMoves
  BY <1>1, BitcoindKeepsIInv
<1>2. CASE addBlock
  BY <1>2, AddBlockKeepsIInv
<1>3. CASE DoUndoAndRetry
  BY <1>3, UndoAndRetryKeepsIInv
<1>4. CASE addBlockThrows
  BY <1>4, AddBlockThrowsKeepsIInv
<1>5. CASE SynchMempool
  BY <1>5, SynchMempoolKeepsIInv
<1>6. CASE doGetRawMempool
  BY <1>6, GetRawMempoolKeepsIInv
<1>7. CASE \E t \in Txs : Downloaded(t) \/ DownloadFailed(t)
  BY <1>7, DownloadedKeepsIInv, DownloadFailedKeepsIInv
<1>8. CASE PrecacheErrors \/ RequestFails
  BY <1>8, FailureKeepsIInv
<1>9. CASE processResults
  BY <1>9, ProcessResultsKeepsIInv
<1>10. CASE ConsistencyError
  BY <1>10, ConsistencyErrorKeepsIInv
<1>11. CASE doGetDSPList \/ DspRequestFails
  BY <1>11, GetDspListKeepsIInv
<1>12. CASE doProcessDownloads
  BY <1>12, ProcessDownloadsKeepsIInv
<1>13. CASE \E d \in Dsps : dlNext(d)
  BY <1>13, DlNextKeepsIInv
<1>14. CASE UNCHANGED vars
  <2>1. /\ UNCHANGED bitcoind /\ db' = db /\ mp' = mp /\ stage' = stage /\ task' = task /\ dsp' = dsp
        /\ owed' = owed /\ lost' = lost /\ fresh' = fresh
    BY <1>14 DEF vars, indexer
  <2>2. BitcoindIsValid' /\ pool' = pool /\ evicted' = evicted
    BY <2>1, BitcoindRests
  <2>3. TaskIsValid' /\ DspTaskIsValid' /\ ReportsAreDue'
    BY <2>1, <2>2 DEF IInv, TaskIsValid, DspTaskIsValid, ReportsAreDue
  <2> QED BY <2>1, <2>2, <2>3 DEF IInv
<1> QED BY <1>1, <1>2, <1>3, <1>4, <1>5, <1>6, <1>7, <1>8, <1>9, <1>10, <1>11, <1>12, <1>13, <1>14 DEF Next, Step

(* The inductive invariant: our blocks are a valid chain, the mempool goes  *)
(* with them and is what its transactions make it, and what the tasks have  *)
(* downloaded fits it.                                                      *)
THEOREM Invariance == Spec => []IInv
<1>1. Init => IInv
  BY InitIsIInv
<1>2. IInv /\ [Next]_vars => IInv'
  BY NextKeepsIInv
<1> QED BY <1>1, <1>2, PTL DEF Spec

(* Types, the bound on the rounds that redoFromStart redoes, and that only  *)
(* what the list or the mempool had is downloaded.                          *)
THEOREM TypeCorrect == Spec => []TypeOK
<1>1. IInv => TypeOK
  <2> SUFFICES ASSUME IInv PROVE TypeOK
    OBVIOUS
  <2>1. pool \subseteq Txs /\ proofs \subseteq Dsps /\ evicted \subseteq Txs /\ chain \in Seq(Block) /\ db \in Seq(Block)
    BY DEF IInv, BitcoindIsValid, ValidPool, ValidChain
  <2>2. Confirmed(chain) \cup Confirmed(db) \subseteq Txs
    BY <2>1, ChainMembers
  <2>3. DOMAIN mp.txs \subseteq Txs /\ Exact(mp) /\ mp.dsps \in [Dsps -> SUBSET Txs]
    BY DEF IInv, ValidMempool, ValidProofs
  <2>4. mp.hx \in [ShSet -> Seq(Txs)]
    <3>1. mp.hx = [h \in ShSet |-> mp.hx[h]]
      BY <2>3 DEF Exact, HxOf
    <3>2. \A h \in ShSet : mp.hx[h] \in Seq(Txs)
      <4> SUFFICES ASSUME NEW h \in ShSet PROVE mp.hx[h] \in Seq(Txs)
        OBVIOUS
      <4>1. mp.hx[h] \in Seq(Of(h, DOMAIN mp.txs)) /\ Of(h, DOMAIN mp.txs) \subseteq Txs
        BY <2>3, Vectors
      <4> QED BY <4>1
    <3> QED BY <3>1, <3>2
  <2>5. /\ stage \in Stages /\ Listed(task) \subseteq task.tentative /\ task.redoCt \in 0 .. kRedoCtMax
        /\ owed \cup lost \cup task.affected \subseteq ShSet
    BY DEF IInv, TaskIsValid, Tasks, ReportsAreDue
  <2> QED BY <2>1, <2>2, <2>3, <2>4, <2>5 DEF TypeOK, InMempool, Listed
<1> QED BY <1>1, Invariance, PTL

(* Whatever addNewTxs, dropTxs and confirmedInBlock do, the structure is    *)
(* the one built from its transactions alone.                               *)
THEOREM ExactCorrect == Spec => []MempoolIsExact
<1>1. IInv => MempoolIsExact
  BY ExactIsRebuilt DEF IInv, ValidMempool
<1> QED BY <1>1, Invariance, PTL

(* After processResults on a list that was made with our blocks in the      *)
(* chain, nothing is spent twice, in the mempool or in our blocks.          *)
THEOREM ConsistentCorrect == Spec => []SyncedIsConsistent
<1>1. IInv => SyncedIsConsistent
  <2> SUFFICES ASSUME IInv, fresh, NEW t \in DOMAIN mp.txs
               PROVE  /\ Conflicts(DOMAIN mp.txs, t) = {}
                      /\ mp.txs[t].conf \subseteq Utxos(db)
    BY DEF SyncedIsConsistent, InMempool
  <2>1. Exact(mp) /\ NoConflicts(DOMAIN mp.txs) /\ Unspent(DOMAIN mp.txs, db)
    BY DEF IInv, ValidMempool
  <2>2. Conflicts(DOMAIN mp.txs, t) = {}
    BY <2>1 DEF Conflicts, NoConflicts
  <2>3. mp.txs[t] = TxOf(t, DOMAIN mp.txs)
    BY <2>1, Fields DEF Exact
  <2>4. mp.txs[t].conf = ConfOf(t, DOMAIN mp.txs)
    BY <2>3, ChangedTx
  <2> QED BY <2>1, <2>2, <2>4 DEF Unspent
<1> QED BY <1>1, Invariance, PTL

(* Whoever's history addBlock, undoLatestBlock or a task changes is told,   *)
(* now or when the task ends, but for what ConsistencyError and             *)
(* addBlockThrows lose.                                                     *)
THEOREM ChangesCorrect == Spec => []NobodyMissesAChange
<1>1. IInv => NobodyMissesAChange
  BY DEF IInv, ReportsAreDue, NobodyMissesAChange
<1> QED BY <1>1, Invariance, PTL

(* The children that WithDescendants follows. *)
LEMMA ClosureOfChildren ==
    ASSUME NEW m, Exact(m), DOMAIN m.txs \subseteq Txs, NEW ts, NEW s, s \subseteq Txs, ts \subseteq s,
           \A v \in s \cap DOMAIN m.txs : \A w \in DOMAIN m.txs : Ins[w] \cap Outs[v] # {} => w \in s
    PROVE  WithDescendants(m, ts) \subseteq s
<1> DEFINE D == DOMAIN m.txs
           next == [t \in Txs |-> IF t \in D THEN m.txs[t].children ELSE {}]
<1>1. WithDescendants(m, ts) = Closure(ts, next)
  BY DEF WithDescendants, InMempool
<1>2. \A v \in D : m.txs[v].children = ChildrenOf(v, D)
  <2> SUFFICES ASSUME NEW v \in D PROVE m.txs[v].children = ChildrenOf(v, D)
    OBVIOUS
  <2>1. m.txs[v] = TxOf(v, D)
    BY Fields DEF Exact
  <2> QED BY <2>1, ChangedTx
<1>3. \A v \in s : next[v] \subseteq s
  <2> SUFFICES ASSUME NEW v \in s, NEW w \in next[v] PROVE w \in s
    OBVIOUS
  <2>1. v \in D /\ w \in ChildrenOf(v, D)
    BY <1>2
  <2> QED BY <2>1 DEF ChildrenOf
<1> HIDE DEF next
<1>4. Closure(ts, next) \subseteq s
  BY <1>3, ClosureIsLeast
<1> QED BY <1>1, <1>4

(* In the mempool, descendants descend within the mempool. *)
LEMMA DescendWithin ==
    ASSUME NEW m, NEW c, ValidChain(c), ValidMempool(m, c), NEW t \in DOMAIN m.txs
    PROVE  Descending(t) \cap DOMAIN m.txs \subseteq WithDescendants(m, {t})
<1> DEFINE D == DOMAIN m.txs
           X == WithDescendants(m, {t})
           s == {v \in Txs : v \in X \cap D \/ (v \notin D /\ v \notin Confirmed(c))}
<1>1. /\ D \subseteq Txs /\ Exact(m) /\ c \in Seq(Block) /\ (\A v \in D : v \notin Confirmed(c))
      /\ \A v \in D : \A o \in Ins[v] : o \in Coins \/ \E u \in D \cup Confirmed(c) : o \in Outs[u]
  BY DEF ValidMempool, ValidChain
<1>2. t \in X /\ HasChildrenIn(X, D)
  <2>1. {t} \subseteq Txs
    BY <1>1
  <2>2. {t} \subseteq X /\ HasChildrenIn(X, D)
    BY <1>1, <2>1, DescendantsGo DEF Exact
  <2> QED BY <2>2
<1> HIDE DEF X
<1>3. ASSUME NEW v \in s, NEW w \in Txs, Ins[w] \cap Outs[v] # {} PROVE w \in s
  <2>1. PICK o \in Ins[w] : o \in Outs[v]
    BY <1>3
  <2>2. v \in Txs /\ v \notin Confirmed(c)
    BY <1>1
  <2>3. o \notin Coins
    BY <2>1, <2>2, MempoolConstants
  <2>4. w \notin Confirmed(c)
    <3>1. SUFFICES ASSUME w \in Confirmed(c) PROVE FALSE
      OBVIOUS
    <3>2. PICK u \in Confirmed(c) : o \in Outs[u]
      BY <2>1, <2>3, <3>1, ConfirmedParents
    <3>3. u \in Txs
      BY <1>1, ChainMembers
    <3> QED BY <2>1, <2>2, <3>2, <3>3, OneCreator
  <2>5. ASSUME w \in D PROVE w \in X
    <3>1. PICK u \in D \cup Confirmed(c) : o \in Outs[u]
      BY <1>1, <2>1, <2>3, <2>5
    <3>2. u \in Txs
      BY <1>1, ChainMembers
    <3>3. v \in D
      BY <2>1, <2>2, <3>1, <3>2, OneCreator
    <3>4. v \in X
      BY <3>3
    <3> QED BY <1>2, <1>3, <2>5, <3>3, <3>4 DEF HasChildrenIn
  <2> QED BY <2>4, <2>5
<1>4. t \in s /\ s \subseteq Txs /\ t \in Txs
  BY <1>1, <1>2
<1> HIDE DEF s
<1>5. Descending(t) \subseteq s
  BY <1>3, <1>4, DescendingMembers
<1> QED BY <1>5 DEF s, X

(* A proof that doProcessDownloads linked, and addNewTxs links on, covers   *)
(* the descendants of its transaction, but for those that left bitcoind's   *)
(* mempool.                                                                 *)
THEOREM DspsCorrect == Spec => []DspsCoverDescendants
<1>1. IInv => DspsCoverDescendants
  <2> SUFFICES ASSUME IInv, NEW d \in Dsps, mp.dsps[d] # {}
               PROVE  /\ DspTx[d] \in mp.dsps[d]
                      /\ mp.dsps[d] \subseteq WithDescendants(mp, {DspTx[d]}) \cap DOMAIN mp.txs
                      /\ WithDescendants(mp, {DspTx[d]}) \subseteq mp.dsps[d] \cup WithDescendants(mp, evicted)
    BY DEF DspsCoverDescendants, HasProof, InMempool
  <2> DEFINE D == DOMAIN mp.txs
             t == DspTx[d]
             s == mp.dsps[d] \cup WithDescendants(mp, evicted)
  <2>1. /\ t \in mp.dsps[d] /\ mp.dsps[d] \subseteq D /\ mp.dsps[d] \subseteq Descending(t)
        /\ \A v \in mp.dsps[d] : \A w \in D : Ins[w] \cap Outs[v] # {} => w \in mp.dsps[d] \/ w \in evicted
    BY DEF IInv, ValidProofs, Covers
  <2>2. ValidChain(db) /\ ValidMempool(mp, db) /\ D \subseteq Txs /\ Exact(mp) /\ evicted \subseteq Txs
    BY DEF IInv, ValidMempool, BitcoindIsValid
  <2>3. t \in D
    BY <2>1
  <2> HIDE DEF t
  <2>4. mp.dsps[d] \subseteq WithDescendants(mp, {t})
    BY <2>1, <2>2, <2>3, DescendWithin
  <2>5. /\ evicted \subseteq WithDescendants(mp, evicted) /\ WithDescendants(mp, evicted) \subseteq Txs
        /\ HasChildrenIn(WithDescendants(mp, evicted), D)
    BY <2>2, DescendantsGo DEF Exact
  <2>6. \A v \in s \cap D : \A w \in D : Ins[w] \cap Outs[v] # {} => w \in s
    BY <2>1, <2>5 DEF HasChildrenIn
  <2>7. s \subseteq Txs /\ {t} \subseteq s
    BY <2>1, <2>2, <2>5
  <2> HIDE DEF s
  <2>8. WithDescendants(mp, {t}) \subseteq s
    BY <2>2, <2>6, <2>7, ClosureOfChildren
  <2> QED BY <2>1, <2>4, <2>8 DEF s, t
<1> QED BY <1>1, Invariance, PTL
=============================================================================
