------------------------------- MODULE MerkleProofs -------------------------------
(***************************************************************************)
(* Proofs about MerkleCache: for every number of headers, of client        *)
(* threads, of new blocks and of reorgs, the cached level is a row of the  *)
(* merkle tree over the headers, and every proof that is answered leads to *)
(* its root.                                                               *)
(*                                                                         *)
(* The first part is about the pure functions.  Their loops and the tree   *)
(* are recursive functions on the naturals; what they compute is shown by  *)
(* induction, as: a set that holds 0, and with n also n + 1, is Nat.       *)
(* branchAndRoot is compared row by row with Tree, and                     *)
(* branchAndRootFromLevel by cutting the tree at the row of the segments:  *)
(* a node over a window of leaves depends on that window only.             *)
(*                                                                         *)
(* The second part is the inductive invariant of the cache.                *)
(***************************************************************************)
EXTENDS MerkleCache, SequenceTheorems, WellFoundedInduction, TLAPS

-----------------------------------------------------------------------------
(* Induction *)

(* Natural numbers have a least one. *)
LEMMA LeastNatural ==
    ASSUME NEW S, S \subseteq Nat, S # {}
    PROVE  \E m \in S : \A k \in S : m <= k
<1>1. PICK m \in S : \A k \in S : ~ (<<k, m>> \in OpToRel(<, Nat))
  BY NatLessThanWellFounded, WFMin
<1>2. \A k \in S : ~ (k < m)
  BY <1>1 DEF OpToRel
<1> QED BY <1>2

(* Induction, for a set of numbers: it holds 0, and with n also n + 1. *)
LEMMA Induction ==
    ASSUME NEW S, S \subseteq Nat, 0 \in S, \A n \in S : n + 1 \in S
    PROVE  S = Nat
<1> SUFFICES ASSUME Nat \ S # {} PROVE FALSE
  OBVIOUS
<1>1. PICK m \in Nat \ S : \A k \in Nat \ S : m <= k
  BY LeastNatural
<1>2. m - 1 \in Nat /\ m - 1 \in S
  BY <1>1
<1> QED BY <1>1, <1>2

-----------------------------------------------------------------------------
(* Powers of two *)

PowersUpTo(f, n) == f = [k \in 0 .. n |-> IF k = 0 THEN 1 ELSE 2 * f[k - 1]]

(* The powers of two up to any bound exist. *)
LEMMA PowersExist ==
    \A n \in Nat : \E f : PowersUpTo(f, n)
<1> DEFINE S == {n \in Nat : \E f : PowersUpTo(f, n)}
<1>1. 0 \in S
  <2> DEFINE g == [k \in 0 .. 0 |-> 1]
  <2>1. PowersUpTo(g, 0)
    BY DEF PowersUpTo
  <2> QED BY <2>1
<1>2. ASSUME NEW n \in S PROVE n + 1 \in S
  <2>1. PICK f : PowersUpTo(f, n)
    OBVIOUS
  <2>2. \A k \in 0 .. n : f[k] = IF k = 0 THEN 1 ELSE 2 * f[k - 1]
    BY <2>1 DEF PowersUpTo
  <2> DEFINE g == [k \in 0 .. n + 1 |-> IF k <= n THEN f[k] ELSE 2 * f[n]]
  <2>3. PowersUpTo(g, n + 1)
    BY <2>2 DEF PowersUpTo
  <2> QED BY <2>3
<1> QED BY <1>1, <1>2, Induction

(* ... and agree with each other. *)
LEMMA PowersAgree ==
    ASSUME NEW f, NEW g, NEW m \in Nat, NEW n \in Nat, m <= n, PowersUpTo(f, m), PowersUpTo(g, n)
    PROVE  \A k \in 0 .. m : f[k] = g[k]
<1> DEFINE S == {k \in Nat : k <= m => f[k] = g[k]}
<1>0. /\ \A k \in 0 .. m : f[k] = IF k = 0 THEN 1 ELSE 2 * f[k - 1]
      /\ \A k \in 0 .. n : g[k] = IF k = 0 THEN 1 ELSE 2 * g[k - 1]
  BY DEF PowersUpTo
<1>1. 0 \in S
  BY <1>0
<1>2. ASSUME NEW k \in S PROVE k + 1 \in S
  BY <1>0, <1>2
<1>3. S = Nat
  BY <1>1, <1>2, Induction
<1> QED BY <1>3

(* Pow2 is the function its definition describes. *)
LEMMA Pow2Def ==
    Pow2 = [k \in Nat |-> IF k = 0 THEN 1 ELSE 2 * Pow2[k - 1]]
<1> DEFINE P(n) == CHOOSE f : PowersUpTo(f, n)
           F    == [k \in Nat |-> P(k)[k]]
<1>1. \A n \in Nat : PowersUpTo(P(n), n)
  BY PowersExist, Zenon
<1>2. ASSUME NEW k \in Nat, k # 0 PROVE F[k] = 2 * F[k - 1]
  <2>1. PowersUpTo(P(k), k) /\ PowersUpTo(P(k - 1), k - 1) /\ k - 1 \in Nat
    BY <1>1, <1>2
  <2> HIDE DEF P
  <2>2. P(k - 1)[k - 1] = P(k)[k - 1]
    BY <1>2, <2>1, PowersAgree
  <2>3. P(k)[k] = 2 * P(k)[k - 1]
    BY <1>2, <2>1 DEF PowersUpTo
  <2> QED BY <2>1, <2>2, <2>3
<1>3. F[0] = 1
  <2>1. PowersUpTo(P(0), 0)
    BY <1>1
  <2> QED BY <2>1 DEF PowersUpTo
<1> HIDE DEF F
<1>4. F = [k \in Nat |-> F[k]]
  BY DEF F
<1>5. F = [k \in Nat |-> IF k = 0 THEN 1 ELSE 2 * F[k - 1]]
  BY <1>2, <1>3, <1>4
<1>6. \E f : f = [k \in Nat |-> IF k = 0 THEN 1 ELSE 2 * f[k - 1]]
  BY <1>5, Zenon
<1> QED BY <1>6, Zenon DEF Pow2

(* The powers of two, one by one. *)
LEMMA Pow2Values ==
    /\ Pow2[0] = 1
    /\ \A k \in Nat : Pow2[k + 1] = 2 * Pow2[k]
    /\ \A k \in Nat : Pow2[k] \in Nat /\ Pow2[k] >= 1 /\ Pow2[k] >= k
<1>1. Pow2[0] = 1
  BY Pow2Def
<1>2. \A k \in Nat : Pow2[k + 1] = 2 * Pow2[k]
  <2> SUFFICES ASSUME NEW k \in Nat PROVE Pow2[k + 1] = 2 * Pow2[k]
    OBVIOUS
  <2>1. Pow2[k + 1] = IF k + 1 = 0 THEN 1 ELSE 2 * Pow2[(k + 1) - 1]
    BY Pow2Def
  <2> QED BY <2>1
<1> DEFINE S == {k \in Nat : Pow2[k] \in Nat /\ Pow2[k] >= 1 /\ Pow2[k] >= k}
<1>3. 0 \in S
  BY <1>1
<1>4. ASSUME NEW k \in S PROVE k + 1 \in S
  BY <1>2
<1>5. S = Nat
  BY <1>3, <1>4, Induction
<1> QED BY <1>1, <1>2, <1>5

(* The same, for one of them and the next. *)
LEMMA Power ==
    ASSUME NEW k \in Nat
    PROVE  /\ Pow2[k] \in Nat /\ Pow2[k] > 0
           /\ Pow2[k + 1] = 2 * Pow2[k]
           /\ Pow2[k + 1] \in Nat /\ Pow2[k + 1] > 0
BY Pow2Values

(* Shifting twice. *)
LEMMA Pow2Sum ==
    ASSUME NEW a \in Nat
    PROVE  \A b \in Nat : Pow2[a + b] = Pow2[a] * Pow2[b]
<1> DEFINE S == {b \in Nat : Pow2[a + b] = Pow2[a] * Pow2[b]}
<1>1. 0 \in S
  BY Pow2Values
<1>2. ASSUME NEW b \in S PROVE b + 1 \in S
  <2>1. Pow2[(a + b) + 1] = 2 * Pow2[a + b] /\ Pow2[b + 1] = 2 * Pow2[b]
    BY Pow2Values
  <2>2. /\ Pow2[a + b] = Pow2[a] * Pow2[b]
        /\ Pow2[a] \in Nat /\ Pow2[b] \in Nat
    BY Pow2Values
  <2>3. Pow2[a] * (2 * Pow2[b]) = 2 * (Pow2[a] * Pow2[b])
    BY <2>2
  <2>4. (a + b) + 1 = a + (b + 1)
    OBVIOUS
  <2> QED BY <2>1, <2>2, <2>3, <2>4
<1>3. S = Nat
  BY <1>1, <1>2, Induction
<1> QED BY <1>3

(* Powers of two grow. *)
LEMMA Pow2Grows ==
    ASSUME NEW a \in Nat, NEW b \in Nat, a < b
    PROVE  2 * Pow2[a] <= Pow2[b]
<1>1. b - a - 1 \in Nat /\ b = (a + 1) + (b - a - 1)
  OBVIOUS
<1>2. Pow2[b] = Pow2[a + 1] * Pow2[b - a - 1]
  BY <1>1, Pow2Sum
<1>3. /\ Pow2[b - a - 1] \in Nat /\ Pow2[b - a - 1] >= 1
      /\ Pow2[a] \in Nat /\ Pow2[a + 1] = 2 * Pow2[a]
  BY <1>1, Pow2Values
<1> QED BY <1>2, <1>3

-----------------------------------------------------------------------------
(* Division *)

(* Quotient and remainder. *)
LEMMA Division ==
    ASSUME NEW a \in Nat, NEW b \in Nat, b > 0
    PROVE  /\ a \div b \in Nat
           /\ (a \div b) * b <= a
           /\ a < (a \div b) * b + b
OBVIOUS

(* The quotient is the only number with that remainder. *)
LEMMA Quotient ==
    ASSUME NEW a \in Nat, NEW b \in Nat, b > 0, NEW q \in Nat, q * b <= a, a < q * b + b
    PROVE  a \div b = q
OBVIOUS

(* Multiplication keeps an order. *)
LEMMA Times ==
    ASSUME NEW a \in Nat, NEW b \in Nat, a <= b, NEW c \in Nat
    PROVE  a * c <= b * c
OBVIOUS

(* The number of segments of b that n headers need. *)
LEMMA Segments ==
    ASSUME NEW n \in Nat, NEW b \in Nat, b > 0
    PROVE  /\ (n + b - 1) \div b \in Nat
           /\ \A q \in Nat : q < (n + b - 1) \div b <=> q * b < n
<1> DEFINE c == (n + b - 1) \div b
<1>1. c \in Nat /\ c * b <= n + b - 1 /\ n + b - 1 < c * b + b
  BY Division
<1> HIDE DEF c
<1>2. ASSUME NEW q \in Nat, q < c PROVE q * b < n
  <2>1. c - q - 1 \in Nat /\ c = (q + 1) + (c - q - 1)
    BY <1>1, <1>2
  <2>2. c * b = q * b + b + (c - q - 1) * b /\ (c - q - 1) * b >= 0
    BY <2>1
  <2>3. q * b \in Nat /\ c * b \in Nat /\ (c - q - 1) * b \in Int
    BY <1>1, <2>1
  <2> QED BY <1>1, <2>2, <2>3
<1>3. ASSUME NEW q \in Nat, ~ (q < c) PROVE ~ (q * b < n)
  <2>1. q - c \in Nat /\ q = c + (q - c)
    BY <1>1, <1>3
  <2>2. q * b = c * b + (q - c) * b /\ (q - c) * b >= 0
    BY <1>1, <2>1
  <2>3. q * b \in Nat /\ c * b \in Nat /\ (q - c) * b \in Int
    BY <1>1, <2>1
  <2> QED BY <1>1, <2>2, <2>3
<1> QED BY <1>1, <1>2, <1>3 DEF c

-----------------------------------------------------------------------------
(* The merkle tree is well defined *)

(* The row k of the tree over leaves, from the row below it. *)
RowFrom(leaves, k, below) ==
    [s \in 0 .. Len(leaves) - 1 |->
        IF k = 0 THEN leaves[s + 1]
        ELSE LET right == s + Pow2[k - 1]
             IN  Hash(below[s], below[IF right < Len(leaves) THEN right ELSE s])]

RowsUpTo(f, leaves, n) == f = [k \in 0 .. n |-> RowFrom(leaves, k, f[k - 1])]

(* The rows up to any height exist. *)
LEMMA RowsExist ==
    ASSUME NEW leaves
    PROVE  \A n \in Nat : \E f : RowsUpTo(f, leaves, n)
<1> DEFINE S == {n \in Nat : \E f : RowsUpTo(f, leaves, n)}
<1>0. \A x, y : RowFrom(leaves, 0, x) = RowFrom(leaves, 0, y)
  BY DEF RowFrom
<1>1. 0 \in S
  <2> DEFINE g == [k \in 0 .. 0 |-> RowFrom(leaves, 0, 0)]
  <2>1. g = [k \in 0 .. 0 |-> RowFrom(leaves, k, g[k - 1])]
    BY <1>0
  <2>2. RowsUpTo(g, leaves, 0)
    BY <2>1 DEF RowsUpTo
  <2> QED BY <2>2
<1>2. ASSUME NEW n \in S PROVE n + 1 \in S
  <2>1. PICK f : RowsUpTo(f, leaves, n)
    OBVIOUS
  <2>2. \A k \in 0 .. n : f[k] = RowFrom(leaves, k, f[k - 1])
    BY <2>1 DEF RowsUpTo
  <2> DEFINE g == [k \in 0 .. n + 1 |-> IF k <= n THEN f[k] ELSE RowFrom(leaves, n + 1, f[n])]
  <2>3. ASSUME NEW k \in 0 .. n + 1 PROVE g[k] = RowFrom(leaves, k, g[k - 1])
    <3>1. CASE k = 0
      BY <1>0, <2>2, <3>1
    <3>2. CASE k \in 1 .. n
      BY <2>2, <3>2
    <3>3. CASE k = n + 1
      BY <3>3
    <3> QED BY <3>1, <3>2, <3>3
  <2>4. g = [k \in 0 .. n + 1 |-> RowFrom(leaves, k, g[k - 1])]
    BY <2>3
  <2>5. RowsUpTo(g, leaves, n + 1)
    BY <2>4 DEF RowsUpTo
  <2> QED BY <2>5
<1> QED BY <1>1, <1>2, Induction

(* ... and agree with each other. *)
LEMMA RowsAgree ==
    ASSUME NEW leaves, NEW f, NEW g, NEW m \in Nat, NEW n \in Nat, m <= n,
           RowsUpTo(f, leaves, m), RowsUpTo(g, leaves, n)
    PROVE  \A k \in 0 .. m : f[k] = g[k]
<1> DEFINE S == {k \in Nat : k <= m => f[k] = g[k]}
<1>0. /\ \A k \in 0 .. m : f[k] = RowFrom(leaves, k, f[k - 1])
      /\ \A k \in 0 .. n : g[k] = RowFrom(leaves, k, g[k - 1])
  BY DEF RowsUpTo
<1>1. 0 \in S
  <2>1. f[0] = RowFrom(leaves, 0, f[0 - 1]) /\ g[0] = RowFrom(leaves, 0, g[0 - 1])
    BY <1>0
  <2>2. RowFrom(leaves, 0, f[0 - 1]) = RowFrom(leaves, 0, g[0 - 1])
    BY DEF RowFrom
  <2> QED BY <2>1, <2>2
<1>2. ASSUME NEW k \in S PROVE k + 1 \in S
  BY <1>0, <1>2
<1>3. S = Nat
  BY <1>1, <1>2, Induction
<1> QED BY <1>3

(* Tree is the function its definition describes. *)
LEMMA TreeDef ==
    ASSUME NEW leaves
    PROVE  \A k \in Nat : Tree(leaves)[k] = RowFrom(leaves, k, Tree(leaves)[k - 1])
<1> DEFINE P(n) == CHOOSE f : RowsUpTo(f, leaves, n)
           F    == [k \in Nat |-> P(k)[k]]
<1>1. \A n \in Nat : RowsUpTo(P(n), leaves, n)
  BY RowsExist, Zenon
<1>2. ASSUME NEW k \in Nat PROVE F[k] = RowFrom(leaves, k, F[k - 1])
  <2>1. RowsUpTo(P(k), leaves, k)
    BY <1>1
  <2> HIDE DEF P
  <2>2. P(k)[k] = RowFrom(leaves, k, P(k)[k - 1])
    BY <2>1 DEF RowsUpTo
  <2>3. CASE k = 0
    BY <2>2, <2>3 DEF RowFrom
  <2>4. CASE k # 0
    <3>1. k - 1 \in Nat /\ RowsUpTo(P(k - 1), leaves, k - 1)
      BY <1>1, <2>4
    <3>2. P(k - 1)[k - 1] = P(k)[k - 1]
      BY <2>1, <3>1, RowsAgree
    <3> QED BY <2>2, <3>1, <3>2
  <2> QED BY <2>3, <2>4
<1> HIDE DEF F
<1>4. F = [k \in Nat |-> F[k]]
  BY DEF F
<1>5. F = [k \in Nat |-> RowFrom(leaves, k, F[k - 1])]
  BY <1>2, <1>4
<1>6. \E f : f = [k \in Nat |-> RowFrom(leaves, k, f[k - 1])]
  BY <1>5, Zenon
<1>7. Tree(leaves) = [k \in Nat |-> RowFrom(leaves, k, Tree(leaves)[k - 1])]
  BY <1>6, Zenon DEF Tree, RowFrom
<1> QED BY <1>7

(* The nodes of the tree, one by one. *)
LEMMA Nodes ==
    ASSUME NEW leaves, Len(leaves) \in Nat, NEW s \in Nat, s < Len(leaves)
    PROVE  /\ Tree(leaves)[0][s] = leaves[s + 1]
           /\ \A k \in Nat :
                 Tree(leaves)[k + 1][s] =
                     Hash(Tree(leaves)[k][s],
                          Tree(leaves)[k][IF s + Pow2[k] < Len(leaves) THEN s + Pow2[k] ELSE s])
<1>1. Tree(leaves)[0] = RowFrom(leaves, 0, Tree(leaves)[0 - 1])
  BY TreeDef
<1>2. Tree(leaves)[0][s] = leaves[s + 1]
  BY <1>1 DEF RowFrom
<1>3. ASSUME NEW k \in Nat
      PROVE  Tree(leaves)[k + 1][s] =
                 Hash(Tree(leaves)[k][s],
                      Tree(leaves)[k][IF s + Pow2[k] < Len(leaves) THEN s + Pow2[k] ELSE s])
  <2>1. Tree(leaves)[k + 1] = RowFrom(leaves, k + 1, Tree(leaves)[(k + 1) - 1])
    BY TreeDef
  <2>2. (k + 1) - 1 = k /\ k + 1 # 0
    OBVIOUS
  <2>3. Tree(leaves)[k + 1] = RowFrom(leaves, k + 1, Tree(leaves)[k])
    BY <2>1, <2>2
  <2> QED BY <2>2, <2>3 DEF RowFrom
<1> QED BY <1>2, <1>3

-----------------------------------------------------------------------------
(* The turns of Merkle::branchAndRoot's loop *)

NextTurn(hashVec, i, before) == EvenOut(IF i = 0 THEN hashVec ELSE recomputeHashes(before))

(* Turns is the function its definition describes. *)
LEMMA TurnsDef ==
    ASSUME NEW hashVec
    PROVE  \A length \in Nat : \A i \in 0 .. length :
              Turns(hashVec, length)[i] = NextTurn(hashVec, i, Turns(hashVec, length)[i - 1])
<1> DEFINE P(f, n) == f = [i \in 0 .. n |-> NextTurn(hashVec, i, f[i - 1])]
           S == {n \in Nat : \E f : P(f, n)}
<1>0. \A x, y : NextTurn(hashVec, 0, x) = NextTurn(hashVec, 0, y)
  BY DEF NextTurn
<1>1. 0 \in S
  <2> DEFINE g == [i \in 0 .. 0 |-> NextTurn(hashVec, 0, 0)]
  <2>1. g = [i \in 0 .. 0 |-> NextTurn(hashVec, i, g[i - 1])]
    BY <1>0
  <2> QED BY <2>1
<1>2. ASSUME NEW n \in S PROVE n + 1 \in S
  <2>1. PICK f : P(f, n)
    OBVIOUS
  <2>2. \A i \in 0 .. n : f[i] = NextTurn(hashVec, i, f[i - 1])
    BY <2>1
  <2> DEFINE g == [i \in 0 .. n + 1 |-> IF i <= n THEN f[i] ELSE NextTurn(hashVec, n + 1, f[n])]
  <2>3. ASSUME NEW i \in 0 .. n + 1 PROVE g[i] = NextTurn(hashVec, i, g[i - 1])
    <3>1. CASE i = 0
      BY <1>0, <2>2, <3>1
    <3>2. CASE i \in 1 .. n
      BY <2>2, <3>2
    <3>3. CASE i = n + 1
      BY <3>3
    <3> QED BY <3>1, <3>2, <3>3
  <2>4. P(g, n + 1)
    BY <2>3
  <2>5. n + 1 \in Nat
    OBVIOUS
  <2> HIDE DEF g, P
  <2> QED BY <2>4, <2>5
<1>3. S = Nat
  BY <1>1, <1>2, Induction
<1>4. ASSUME NEW length \in Nat PROVE P(Turns(hashVec, length), length)
  <2>1. \E f : P(f, length)
    BY <1>3
  <2> QED BY <2>1, Zenon DEF Turns, NextTurn
<1> QED BY <1>4

-----------------------------------------------------------------------------
(* The client's computation *)

NextHash(leaf, index, branch, i, before) ==
    IF i = 0 THEN leaf
    ELSE IF (index \div Pow2[i - 1]) % 2 = 1 THEN Hash(branch[i], before)
    ELSE Hash(before, branch[i])

(* RootFromBranch is the last value of the function its definition describes. *)
LEMMA RootFromBranchDef ==
    ASSUME NEW leaf, NEW index, NEW branch, Len(branch) \in Nat
    PROVE  \E h : /\ h[0] = leaf
                  /\ \A i \in 1 .. Len(branch) :
                        h[i] = NextHash(leaf, index, branch, i, h[i - 1])
                  /\ RootFromBranch(leaf, index, branch) = h[Len(branch)]
<1> DEFINE P(f, n) == f = [i \in 0 .. n |-> NextHash(leaf, index, branch, i, f[i - 1])]
           S == {n \in Nat : \E f : P(f, n)}
<1>0. \A x : NextHash(leaf, index, branch, 0, x) = leaf
  BY DEF NextHash
<1>1. 0 \in S
  <2> DEFINE g == [i \in 0 .. 0 |-> leaf]
  <2>1. g = [i \in 0 .. 0 |-> NextHash(leaf, index, branch, i, g[i - 1])]
    BY <1>0
  <2> QED BY <2>1
<1>2. ASSUME NEW n \in S PROVE n + 1 \in S
  <2>1. PICK f : P(f, n)
    OBVIOUS
  <2>2. \A i \in 0 .. n : f[i] = NextHash(leaf, index, branch, i, f[i - 1])
    BY <2>1
  <2> DEFINE g == [i \in 0 .. n + 1 |->
                      IF i <= n THEN f[i] ELSE NextHash(leaf, index, branch, n + 1, f[n])]
  <2>3. ASSUME NEW i \in 0 .. n + 1 PROVE g[i] = NextHash(leaf, index, branch, i, g[i - 1])
    <3>1. CASE i = 0
      BY <1>0, <2>2, <3>1
    <3>2. CASE i \in 1 .. n
      BY <2>2, <3>2
    <3>3. CASE i = n + 1
      BY <3>3
    <3> QED BY <3>1, <3>2, <3>3
  <2>4. P(g, n + 1)
    BY <2>3
  <2>5. n + 1 \in Nat
    OBVIOUS
  <2> HIDE DEF g, P
  <2> QED BY <2>4, <2>5
<1>3. S = Nat
  BY <1>1, <1>2, Induction
<1> DEFINE H == CHOOSE f : P(f, Len(branch))
<1>4. P(H, Len(branch))
  <2>1. \E f : P(f, Len(branch))
    BY <1>3
  <2> QED BY <2>1, Zenon
<1>5. RootFromBranch(leaf, index, branch) = H[Len(branch)]
  BY Zenon DEF RootFromBranch, NextHash
<1> HIDE DEF H
<1>6. /\ H[0] = leaf
      /\ \A i \in 1 .. Len(branch) : H[i] = NextHash(leaf, index, branch, i, H[i - 1])
  BY <1>0, <1>4
<1> QED BY <1>5, <1>6

-----------------------------------------------------------------------------
(* A node depends on its own leaves only *)

(* A from s on and B from t on hold the same, as far as p places go. *)
SameWindow(A, s, B, t, p) ==
    \A i \in Nat : i < p => /\ s + i < Len(A) <=> t + i < Len(B)
                            /\ s + i < Len(A) => A[s + i + 1] = B[t + i + 1]

(* Two nodes over the same leaves are equal, whatever else their trees hold. *)
LEMMA NodesOfWindows ==
    ASSUME NEW A, Len(A) \in Nat, NEW B, Len(B) \in Nat
    PROVE  \A k \in Nat : \A s, t \in Nat :
              s < Len(A) /\ t < Len(B) /\ SameWindow(A, s, B, t, Pow2[k])
                  => Tree(A)[k][s] = Tree(B)[k][t]
<1> DEFINE Same(k) == \A s, t \in Nat :
                         s < Len(A) /\ t < Len(B) /\ SameWindow(A, s, B, t, Pow2[k])
                             => Tree(A)[k][s] = Tree(B)[k][t]
           S == {k \in Nat : Same(k)}
<1>1. 0 \in S
  <2> SUFFICES ASSUME NEW s \in Nat, NEW t \in Nat, s < Len(A), t < Len(B),
                      SameWindow(A, s, B, t, Pow2[0])
               PROVE  Tree(A)[0][s] = Tree(B)[0][t]
    OBVIOUS
  <2>0. 0 \in Nat /\ 0 < Pow2[0] /\ s + 0 < Len(A)
    BY Pow2Values
  <2>1. A[s + 0 + 1] = B[t + 0 + 1]
    BY <2>0 DEF SameWindow
  <2>2. Tree(A)[0][s] = A[s + 1] /\ Tree(B)[0][t] = B[t + 1]
    BY Nodes
  <2> QED BY <2>1, <2>2
<1>2. ASSUME NEW k \in S PROVE k + 1 \in S
  <2> SUFFICES ASSUME NEW s \in Nat, NEW t \in Nat, s < Len(A), t < Len(B),
                      SameWindow(A, s, B, t, Pow2[k + 1])
               PROVE  Tree(A)[k + 1][s] = Tree(B)[k + 1][t]
    OBVIOUS
  <2>0. Same(k) /\ k \in Nat
    OBVIOUS
  <2> DEFINE p == Pow2[k]
  <2>1. Pow2[k + 1] = 2 * p /\ p \in Nat /\ p >= 1
    BY Pow2Values
  <2>2. Tree(A)[k + 1][s] = Hash(Tree(A)[k][s], Tree(A)[k][IF s + p < Len(A) THEN s + p ELSE s])
    BY <2>0, Nodes
  <2>2a. Tree(B)[k + 1][t] = Hash(Tree(B)[k][t], Tree(B)[k][IF t + p < Len(B) THEN t + p ELSE t])
    BY <2>0, Nodes
  <2> HIDE DEF p, Same
  <2>3. \A i \in Nat : i < 2 * p => /\ s + i < Len(A) <=> t + i < Len(B)
                                    /\ s + i < Len(A) => A[s + i + 1] = B[t + i + 1]
    BY <2>1 DEF SameWindow
  <2>4. SameWindow(A, s, B, t, p)
    BY <2>1, <2>3 DEF SameWindow
  <2>5. s + p < Len(A) <=> t + p < Len(B)
    BY <2>1, <2>3
  <2>6. SameWindow(A, s + p, B, t + p, p)
    <3> SUFFICES ASSUME NEW i \in Nat, i < p
                 PROVE  /\ s + p + i < Len(A) <=> t + p + i < Len(B)
                        /\ s + p + i < Len(A) => A[s + p + i + 1] = B[t + p + i + 1]
      BY DEF SameWindow
    <3>1. p + i \in Nat /\ p + i < 2 * p
      BY <2>1
    <3>2. /\ s + (p + i) < Len(A) <=> t + (p + i) < Len(B)
          /\ s + (p + i) < Len(A) => A[s + (p + i) + 1] = B[t + (p + i) + 1]
      BY <2>3, <3>1
    <3>3. s + (p + i) = s + p + i /\ t + (p + i) = t + p + i
      BY <2>1
    <3> QED BY <3>2, <3>3
  <2>7. Tree(A)[k][s] = Tree(B)[k][t]
    BY <2>0, <2>4 DEF Same, p
  <2>8. s + p < Len(A) => Tree(A)[k][s + p] = Tree(B)[k][t + p]
    <3>1. SUFFICES ASSUME s + p < Len(A) PROVE Tree(A)[k][s + p] = Tree(B)[k][t + p]
      OBVIOUS
    <3>2. s + p \in Nat /\ t + p \in Nat /\ t + p < Len(B)
      BY <2>1, <2>5, <3>1
    <3> QED BY <2>0, <2>6, <3>1, <3>2 DEF Same, p
  <2> QED BY <2>2, <2>2a, <2>5, <2>7, <2>8
<1>3. S = Nat
  BY <1>1, <1>2, Induction
<1> QED BY <1>3

-----------------------------------------------------------------------------
(* The turns of the loop compute the rows of the tree *)

(* s is a list of n things. *)
IsList(s, n) == n \in Nat /\ s = [i \in 1 .. n |-> s[i]]

(* What sequences a list is among, and its length. *)
LEMMA Lists ==
    ASSUME NEW s, NEW n, IsList(s, n)
    PROVE  /\ n \in Nat /\ Len(s) = n /\ DOMAIN s = 1 .. n
           /\ s \in Seq({s[i] : i \in 1 .. n})
<1>1. n \in Nat /\ s = [i \in 1 .. n |-> s[i]]
  BY DEF IsList
<1>2. s \in [1 .. n -> {s[i] : i \in 1 .. n}]
  BY <1>1
<1>3. s \in Seq({s[i] : i \in 1 .. n})
  BY <1>1, <1>2, SeqDef
<1> QED BY <1>1, <1>3, LenProperties

(* EvenOut repeats the last hash if there is an odd number of them. *)
LEMMA EvenedOut ==
    ASSUME NEW s, NEW n, IsList(s, n), n > 0
    PROVE  LET m == IF n % 2 = 1 THEN n + 1 ELSE n
           IN  /\ IsList(EvenOut(s), m)
               /\ \A i \in 1 .. n : EvenOut(s)[i] = s[i]
               /\ n % 2 = 1 => EvenOut(s)[n + 1] = s[n]
<1> DEFINE X == {s[i] : i \in 1 .. n}
<1>1. n \in Nat /\ Len(s) = n /\ DOMAIN s = 1 .. n /\ s \in Seq(X)
  BY Lists
<1>2. CASE n % 2 = 1
  <2>1. EvenOut(s) = Append(s, s[n])
    BY <1>1, <1>2 DEF EvenOut, Last
  <2>2. s[n] \in X
    BY <1>1
  <2> HIDE DEF X
  <2>3. /\ Append(s, s[n]) \in Seq(X) /\ Len(Append(s, s[n])) = n + 1
        /\ \A i \in 1 .. n : Append(s, s[n])[i] = s[i]
        /\ Append(s, s[n])[n + 1] = s[n]
    BY <1>1, <2>2, AppendProperties
  <2>4. IsList(Append(s, s[n]), n + 1)
    BY <1>1, <2>3, LenProperties DEF IsList
  <2> QED BY <1>2, <2>1, <2>3, <2>4
<1>3. CASE ~ (n % 2 = 1)
  BY <1>1, <1>3 DEF EvenOut
<1> QED BY <1>2, <1>3

(* Half an even number of hashes. *)
LEMMA Recomputed ==
    ASSUME NEW s, NEW m, IsList(s, m), m % 2 = 0
    PROVE  /\ IsList(recomputeHashes(s), m \div 2)
           /\ 2 * (m \div 2) = m
           /\ \A q \in Nat : q < m \div 2 => recomputeHashes(s)[q + 1] = Hash(s[2 * q + 1], s[2 * q + 2])
<1>1. m \in Nat /\ Len(s) = m
  BY Lists
<1>2. m \div 2 \in Nat /\ 2 * (m \div 2) = m
  BY <1>1
<1>3. recomputeHashes(s) = [i \in 1 .. m \div 2 |-> Hash(s[2 * i - 1], s[2 * i])]
  BY <1>1 DEF recomputeHashes
<1>4. IsList(recomputeHashes(s), m \div 2)
  BY <1>2, <1>3 DEF IsList
<1>5. ASSUME NEW q \in Nat, q < m \div 2
      PROVE  recomputeHashes(s)[q + 1] = Hash(s[2 * q + 1], s[2 * q + 2])
  <2>1. q + 1 \in 1 .. m \div 2 /\ 2 * (q + 1) - 1 = 2 * q + 1 /\ 2 * (q + 1) = 2 * q + 2
    BY <1>2, <1>5
  <2>2. recomputeHashes(s)[q + 1] = Hash(s[2 * (q + 1) - 1], s[2 * (q + 1)])
    BY <1>3, <2>1
  <2> QED BY <2>1, <2>2
<1> QED BY <1>2, <1>4, <1>5

(* R is the row i of the tree over L. *)
IsRow(R, L, i) ==
    /\ IsList(R, (Len(L) + Pow2[i] - 1) \div Pow2[i])
    /\ \A q \in Nat : q < Len(R) => R[q + 1] = Tree(L)[i][q * Pow2[i]]

(* What the length of a row says. *)
LEMMA RowLength ==
    ASSUME NEW L, Len(L) \in Nat, Len(L) > 0, NEW i \in Nat, NEW R, IsRow(R, L, i)
    PROVE  /\ Len(R) \in Nat /\ Len(R) > 0 /\ IsList(R, Len(R))
           /\ \A q \in Nat : q < Len(R) <=> q * Pow2[i] < Len(L)
<1>1. Pow2[i] \in Nat /\ Pow2[i] > 0
  BY Power
<1> DEFINE c == (Len(L) + Pow2[i] - 1) \div Pow2[i]
<1>2. c \in Nat /\ \A q \in Nat : q < c <=> q * Pow2[i] < Len(L)
  BY <1>1, Segments
<1>3. IsList(R, c)
  BY DEF IsRow
<1> HIDE DEF c
<1>4. Len(R) = c
  BY <1>3, Lists
<1>5. 0 < c
  <2>1. 0 * Pow2[i] < Len(L)
    BY <1>1
  <2> QED BY <1>2, <2>1
<1> QED BY <1>2, <1>3, <1>4, <1>5

(* A turn of the loop makes of one row the next. *)
LEMMA RowAfterRow ==
    ASSUME NEW L, Len(L) \in Nat, Len(L) > 0, NEW i \in Nat, NEW R, IsRow(R, L, i)
    PROVE  IsRow(recomputeHashes(EvenOut(R)), L, i + 1)
<1> DEFINE P  == Pow2[i]
           c  == Len(R)
           m  == IF c % 2 = 1 THEN c + 1 ELSE c
           E  == EvenOut(R)
           N  == recomputeHashes(E)
           cc == (Len(L) + Pow2[i + 1] - 1) \div Pow2[i + 1]
<1>1. P \in Nat /\ P > 0 /\ Pow2[i + 1] = 2 * P /\ Pow2[i + 1] \in Nat /\ Pow2[i + 1] > 0
  BY Power
<1>2. /\ c \in Nat /\ c > 0 /\ IsList(R, c)
      /\ \A q \in Nat : q < c <=> q * P < Len(L)
  BY RowLength
<1>3. cc \in Nat /\ \A q \in Nat : q < cc <=> q * Pow2[i + 1] < Len(L)
  BY <1>1, Segments
<1>4. /\ IsList(E, m)
      /\ \A j \in 1 .. c : E[j] = R[j]
      /\ c % 2 = 1 => E[c + 1] = R[c]
  BY <1>2, EvenedOut
<1> HIDE DEF P, c, E, N, cc
<1>5. m % 2 = 0
  BY <1>2
<1>6. /\ IsList(N, m \div 2)
      /\ 2 * (m \div 2) = m
      /\ \A q \in Nat : q < m \div 2 => N[q + 1] = Hash(E[2 * q + 1], E[2 * q + 2])
  BY <1>4, <1>5, Recomputed DEF N
<1>7. \A q \in Nat : q < m \div 2 <=> 2 * q < c
  BY <1>2, <1>6
<1>8. \A q \in Nat : (2 * q) * P = q * (2 * P)
  BY <1>1
<1>9. \A q \in Nat : q < m \div 2 <=> q < cc
  <2> SUFFICES ASSUME NEW q \in Nat PROVE q < m \div 2 <=> q < cc
    OBVIOUS
  <2>1. q < m \div 2 <=> 2 * q < c
    BY <1>7
  <2>2. 2 * q < c <=> (2 * q) * P < Len(L)
    BY <1>2
  <2>3. q < cc <=> q * Pow2[i + 1] < Len(L)
    BY <1>3
  <2> QED BY <1>1, <1>8, <2>1, <2>2, <2>3
<1>10. m \div 2 = cc
  <2>1. m \div 2 \in Nat
    BY <1>6 DEF IsList
  <2> HIDE DEF m
  <2> QED BY <1>3, <1>9, <2>1
<1>11. Len(N) = cc
  <2>1. IsList(N, cc)
    BY <1>6, <1>10
  <2> HIDE DEF m
  <2> QED BY <2>1, Lists
<1>12. ASSUME NEW q \in Nat, q < Len(N)
       PROVE  N[q + 1] = Tree(L)[i + 1][q * Pow2[i + 1]]
  <2> DEFINE s == (2 * q) * P
  <2>1. N[q + 1] = Hash(E[2 * q + 1], E[2 * q + 2])
    BY <1>6, <1>10, <1>11, <1>12
  <2>2. 2 * q \in Nat /\ 2 * q + 1 \in Nat /\ 2 * q < c
    BY <1>7, <1>9, <1>11, <1>12
  <2>3. s \in Nat /\ s < Len(L) /\ s = q * Pow2[i + 1] /\ (2 * q + 1) * P = s + P
    <3>1. s \in Nat /\ (2 * q + 1) * P = s + P
      BY <1>1, <2>2
    <3>2. s < Len(L)
      BY <1>2, <2>2
    <3>3. s = q * Pow2[i + 1]
      BY <1>1, <1>8
    <3> QED BY <3>1, <3>2, <3>3
  <2>4. E[2 * q + 1] = Tree(L)[i][s]
    <3>1. R[2 * q + 1] = Tree(L)[i][(2 * q) * P]
      BY <2>2 DEF IsRow, c, P
    <3>2. 2 * q + 1 \in 1 .. c
      BY <1>2, <2>2
    <3>3. E[2 * q + 1] = R[2 * q + 1]
      BY <1>4, <3>2
    <3> QED BY <3>1, <3>3
  <2> HIDE DEF s
  <2>5. E[2 * q + 2] = Tree(L)[i][IF s + P < Len(L) THEN s + P ELSE s]
    <3>1. CASE 2 * q + 1 < c
      <4>1. R[(2 * q + 1) + 1] = Tree(L)[i][(2 * q + 1) * P]
        BY <2>2, <3>1 DEF IsRow, c, P
      <4>2. s + P < Len(L)
        BY <1>2, <2>2, <2>3, <3>1
      <4>3. E[2 * q + 2] = R[2 * q + 2]
        BY <1>2, <1>4, <2>2, <3>1
      <4>4. (2 * q + 1) + 1 = 2 * q + 2
        OBVIOUS
      <4> QED BY <2>3, <4>1, <4>2, <4>3, <4>4
    <3>2. CASE ~ (2 * q + 1 < c)
      <4>1. c = 2 * q + 1 /\ c % 2 = 1 /\ c + 1 = 2 * q + 2
        BY <1>2, <2>2, <3>2
      <4>2. E[2 * q + 2] = R[2 * q + 1]
        BY <1>4, <4>1
      <4>3. R[2 * q + 1] = E[2 * q + 1]
        BY <1>4, <1>2, <4>1
      <4>4. ~ (s + P < Len(L))
        BY <1>2, <2>2, <2>3, <3>2
      <4> QED BY <2>4, <4>2, <4>3, <4>4
    <3> QED BY <3>1, <3>2
  <2>6. Tree(L)[i + 1][s] = Hash(Tree(L)[i][s], Tree(L)[i][IF s + P < Len(L) THEN s + P ELSE s])
    <3>1. \A k \in Nat : Tree(L)[k + 1][s] =
             Hash(Tree(L)[k][s], Tree(L)[k][IF s + Pow2[k] < Len(L) THEN s + Pow2[k] ELSE s])
      BY <2>3, Nodes
    <3> QED BY <3>1 DEF P
  <2> QED BY <2>1, <2>3, <2>4, <2>5, <2>6
<1> QED BY <1>6, <1>10, <1>12 DEF IsRow, N, E, cc

(* After i turns the vector holds the row i, evened out. *)
LEMMA TurnsAreRows ==
    ASSUME NEW L, NEW n, IsList(L, n), n > 0, NEW length \in Nat
    PROVE  \A i \in 0 .. length : \E R : IsRow(R, L, i) /\ Turns(L, length)[i] = EvenOut(R)
<1> DEFINE T == Turns(L, length)
           S == {i \in Nat : i <= length => \E R : IsRow(R, L, i) /\ T[i] = EvenOut(R)}
<1>0. Len(L) = n /\ n \in Nat
  BY Lists
<1>1. \A i \in 0 .. length : T[i] = NextTurn(L, i, T[i - 1])
  BY TurnsDef
<1> HIDE DEF T
<1>2. 0 \in S
  <2>1. T[0] = EvenOut(L)
    BY <1>1 DEF NextTurn
  <2>2. IsRow(L, L, 0)
    <3>1. Pow2[0] = 1
      BY Pow2Values
    <3>2. (Len(L) + 1 - 1) \div 1 = n
      BY <1>0
    <3>3. ASSUME NEW q \in Nat, q < Len(L) PROVE L[q + 1] = Tree(L)[0][q * 1]
      <4>1. Tree(L)[0][q] = L[q + 1]
        BY <1>0, <3>3, Nodes
      <4>2. q * 1 = q
        OBVIOUS
      <4> QED BY <4>1, <4>2
    <3> QED BY <3>1, <3>2, <3>3 DEF IsRow
  <2> QED BY <2>1, <2>2
<1>3. ASSUME NEW i \in S PROVE i + 1 \in S
  <2> SUFFICES ASSUME i + 1 <= length
               PROVE  \E R : IsRow(R, L, i + 1) /\ T[i + 1] = EvenOut(R)
    OBVIOUS
  <2>1. PICK R : IsRow(R, L, i) /\ T[i] = EvenOut(R)
    OBVIOUS
  <2>2. IsRow(recomputeHashes(EvenOut(R)), L, i + 1)
    BY <1>0, <2>1, RowAfterRow
  <2>3. i + 1 \in 0 .. length /\ (i + 1) - 1 = i /\ i + 1 # 0
    OBVIOUS
  <2>4. T[i + 1] = EvenOut(recomputeHashes(T[i]))
    BY <1>1, <2>3 DEF NextTurn
  <2> QED BY <2>1, <2>2, <2>4
<1>4. S = Nat
  BY <1>2, <1>3, Induction
<1> QED BY <1>4 DEF T

-----------------------------------------------------------------------------
(* Branches *)

(* The node that the ancestor of a leaf at height i is hashed with. *)
SiblingNode(L, i, index) ==
    LET a == index \div Pow2[i]
    IN  IF a % 2 = 1 THEN Tree(L)[i][(a - 1) * Pow2[i]]
        ELSE Tree(L)[i][IF (a + 1) * Pow2[i] < Len(L) THEN (a + 1) * Pow2[i] ELSE a * Pow2[i]]

IsBranch(L, index, branch, length) ==
    /\ IsList(branch, length)
    /\ \A i \in Nat : i < length => branch[i + 1] = SiblingNode(L, i, index)

(* The entry of an evened out row that the code adds to the branch. *)
LEMMA SiblingInRow ==
    ASSUME NEW L, Len(L) \in Nat, NEW index \in Nat, index < Len(L), NEW i \in Nat,
           NEW R, IsRow(R, L, i)
    PROVE  EvenOut(R)[Sibling(index \div Pow2[i]) + 1] = SiblingNode(L, i, index)
<1> DEFINE P == Pow2[i]
           a == index \div P
           c == Len(R)
           E == EvenOut(R)
<1>1. P \in Nat /\ P > 0
  BY Power
<1>2. a \in Nat /\ a * P <= index
  BY <1>1, Division
<1>3. /\ c \in Nat /\ c > 0 /\ IsList(R, c)
      /\ \A q \in Nat : q < c <=> q * P < Len(L)
  BY RowLength
<1>4. /\ \A j \in 1 .. c : E[j] = R[j]
      /\ c % 2 = 1 => E[c + 1] = R[c]
  BY <1>3, EvenedOut
<1>5. \A q \in Nat : q < c => R[q + 1] = Tree(L)[i][q * P]
  BY DEF IsRow
<1> HIDE DEF P, a, c, E
<1>6. a < c
  <2>1. a * P < Len(L)
    BY <1>1, <1>2
  <2> QED BY <1>2, <1>3, <2>1
<1>7. CASE a % 2 = 1
  <2>1. a - 1 \in Nat /\ a - 1 < c /\ a \in 1 .. c /\ (a - 1) + 1 = a
    BY <1>2, <1>3, <1>6, <1>7
  <2>2. E[a] = Tree(L)[i][(a - 1) * P]
    BY <1>4, <1>5, <2>1
  <2>3. Sibling(a) + 1 = a
    BY <1>2, <1>7 DEF Sibling
  <2> QED BY <1>7, <2>2, <2>3 DEF SiblingNode, a, P, E
<1>8. CASE a % 2 = 0
  <2>1. Sibling(a) + 1 = a + 2
    BY <1>2, <1>8 DEF Sibling
  <2>2. CASE a + 1 < c
    <3>1. a + 2 \in 1 .. c /\ a + 1 \in Nat /\ (a + 1) + 1 = a + 2
      BY <1>2, <1>3, <2>2
    <3>2. E[a + 2] = Tree(L)[i][(a + 1) * P]
      BY <1>4, <1>5, <2>2, <3>1
    <3>3. (a + 1) * P < Len(L)
      BY <1>3, <2>2, <3>1
    <3> QED BY <1>8, <2>1, <3>2, <3>3 DEF SiblingNode, a, P, E
  <2>3. CASE ~ (a + 1 < c)
    <3>1. c = a + 1 /\ c % 2 = 1 /\ c + 1 = a + 2
      BY <1>2, <1>3, <1>6, <1>8, <2>3
    <3>2. E[a + 2] = R[a + 1]
      BY <1>4, <3>1
    <3>3. E[a + 2] = Tree(L)[i][a * P]
      BY <1>2, <1>5, <1>6, <3>2
    <3>4. ~ ((a + 1) * P < Len(L))
      BY <1>2, <1>3, <2>3
    <3> QED BY <1>8, <2>1, <3>3, <3>4 DEF SiblingNode, a, P, E
  <2> QED BY <2>2, <2>3
<1> QED BY <1>2, <1>7, <1>8

(* Merkle::branchAndRoot gives the branch of a leaf, and the node that is    *)
(* `length` rows above the first leaf.                                       *)
LEMMA BranchAndRootOfLength ==
    ASSUME NEW L, NEW n, IsList(L, n), NEW index \in Nat, index < n, NEW length \in Nat
    PROVE  LET res == branchAndRootOfLength(L, index, length)
           IN  /\ IsBranch(L, index, res.branch, length)
               /\ res.root = Tree(L)[length][0]
<1> DEFINE T == Turns(L, length)
<1>0. Len(L) = n /\ n \in Nat /\ n > 0
  <2>1. Len(L) = n /\ n \in Nat
    BY Lists
  <2> QED BY <2>1
<1>1. \A i \in 0 .. length : \E R : IsRow(R, L, i) /\ T[i] = EvenOut(R)
  BY <1>0, TurnsAreRows
<1> HIDE DEF T
<1> DEFINE br == [i \in 1 .. length |-> T[i - 1][Sibling(index \div Pow2[i - 1]) + 1]]
<1>2. branchAndRootOfLength(L, index, length) = [branch |-> br, root |-> T[length][1]]
  BY DEF branchAndRootOfLength, T
<1>3. ASSUME NEW i \in Nat, i < length PROVE br[i + 1] = SiblingNode(L, i, index)
  <2>1. br[i + 1] = T[i][Sibling(index \div Pow2[i]) + 1]
    <3>1. i + 1 \in 1 .. length /\ (i + 1) - 1 = i
      BY <1>3
    <3> QED BY <3>1
  <2>2. PICK R : IsRow(R, L, i) /\ T[i] = EvenOut(R)
    BY <1>1, <1>3
  <2>3. EvenOut(R)[Sibling(index \div Pow2[i]) + 1] = SiblingNode(L, i, index)
    BY <1>0, <2>2, SiblingInRow
  <2> QED BY <2>1, <2>2, <2>3
<1>4. IsList(br, length)
  BY DEF IsList
<1>5. T[length][1] = Tree(L)[length][0]
  <2>1. PICK R : IsRow(R, L, length) /\ T[length] = EvenOut(R)
    BY <1>1
  <2>2. Len(R) \in Nat /\ Len(R) > 0 /\ IsList(R, Len(R))
    BY <1>0, <2>1, RowLength
  <2>3. EvenOut(R)[1] = R[1]
    BY <2>2, EvenedOut
  <2>4. R[0 + 1] = Tree(L)[length][0 * Pow2[length]]
    BY <2>1, <2>2 DEF IsRow
  <2>5. 0 * Pow2[length] = 0
    BY Power
  <2> QED BY <2>1, <2>3, <2>4, <2>5
<1> HIDE DEF br
<1> QED BY <1>2, <1>3, <1>4, <1>5 DEF IsBranch

(* Halving a quotient. *)
LEMMA HalfQuotient ==
    ASSUME NEW x \in Nat, NEW P \in Nat, P > 0
    PROVE  /\ x \div P \in Nat /\ (x \div P) * P <= x
           /\ x \div (2 * P) = (x \div P) \div 2
<1> DEFINE a == x \div P
           b == a \div 2
<1>1. a \in Nat /\ a * P <= x /\ x < a * P + P
  BY Division
<1> HIDE DEF a
<1>2. b \in Nat /\ (a = 2 * b \/ a = 2 * b + 1)
  BY <1>1
<1> HIDE DEF b
<1>3. b * (2 * P) <= x /\ x < b * (2 * P) + 2 * P
  <2>1. CASE a = 2 * b
    <3>1. a * P = b * (2 * P)
      BY <1>2, <2>1
    <3> QED BY <1>1, <1>2, <3>1
  <2>2. CASE a = 2 * b + 1
    <3>1. a * P = b * (2 * P) + P
      BY <1>2, <2>2
    <3> QED BY <1>1, <1>2, <3>1
  <2> QED BY <1>2, <2>1, <2>2
<1>4. x \div (2 * P) = b
  BY <1>2, <1>3, Quotient
<1> QED BY <1>1, <1>4 DEF a, b

(* The ancestor of a leaf, hashed with its sibling, is the next ancestor. *)
LEMMA Ancestor ==
    ASSUME NEW L, Len(L) \in Nat, NEW index \in Nat, index < Len(L), NEW i \in Nat
    PROVE  LET a   == index \div Pow2[i]
               anc == Tree(L)[i][a * Pow2[i]]
               sib == SiblingNode(L, i, index)
           IN  Tree(L)[i + 1][(index \div Pow2[i + 1]) * Pow2[i + 1]] =
                   IF a % 2 = 1 THEN Hash(sib, anc) ELSE Hash(anc, sib)
<1> DEFINE P == Pow2[i]
           a == index \div P
           b == a \div 2
           s == b * (2 * P)
<1>1. P \in Nat /\ P > 0 /\ Pow2[i + 1] = 2 * P
  BY Power
<1>2. a \in Nat /\ a * P <= index /\ index \div (2 * P) = b
  BY <1>1, HalfQuotient
<1> HIDE DEF P, a
<1>3. b \in Nat /\ (a = 2 * b \/ a = 2 * b + 1)
  BY <1>2
<1>4. s \in Nat /\ s + P = (2 * b + 1) * P /\ s = (2 * b) * P
  BY <1>1, <1>3
<1> HIDE DEF b, s
<1>5. s < Len(L)
  BY <1>1, <1>2, <1>3, <1>4
<1>6. Tree(L)[i + 1][s] = Hash(Tree(L)[i][s], Tree(L)[i][IF s + P < Len(L) THEN s + P ELSE s])
  BY <1>4, <1>5, Nodes DEF P
<1>7. (index \div Pow2[i + 1]) * Pow2[i + 1] = s
  BY <1>1, <1>2 DEF s
<1>8. CASE a = 2 * b + 1
  <2>1. a % 2 = 1 /\ (a - 1) * P = s /\ a * P = s + P
    BY <1>1, <1>3, <1>4, <1>8
  <2>2. s + P < Len(L)
    BY <1>1, <1>2, <1>4, <2>1
  <2>3. SiblingNode(L, i, index) = Tree(L)[i][s]
    BY <2>1 DEF SiblingNode, a, P
  <2> QED BY <1>6, <1>7, <2>1, <2>2, <2>3 DEF a, P
<1>9. CASE a = 2 * b
  <2>1. ~ (a % 2 = 1) /\ (a + 1) * P = s + P /\ a * P = s
    BY <1>1, <1>3, <1>4, <1>9
  <2>2. SiblingNode(L, i, index) = Tree(L)[i][IF s + P < Len(L) THEN s + P ELSE s]
    BY <2>1 DEF SiblingNode, a, P
  <2> QED BY <1>6, <1>7, <2>1, <2>2 DEF a, P
<1> QED BY <1>3, <1>8, <1>9

(* From a leaf and its branch a client computes its ancestor. *)
LEMMA ClimbsToAncestor ==
    ASSUME NEW L, Len(L) \in Nat, NEW index \in Nat, index < Len(L),
           NEW branch, NEW length, IsBranch(L, index, branch, length)
    PROVE  RootFromBranch(L[index + 1], index, branch) =
               Tree(L)[length][(index \div Pow2[length]) * Pow2[length]]
<1>0. length \in Nat /\ Len(branch) = length
  BY Lists DEF IsBranch
<1> DEFINE leaf == L[index + 1]
           Anc(i) == Tree(L)[i][(index \div Pow2[i]) * Pow2[i]]
<1>1. PICK h : /\ h[0] = leaf
               /\ \A i \in 1 .. Len(branch) : h[i] = NextHash(leaf, index, branch, i, h[i - 1])
               /\ RootFromBranch(leaf, index, branch) = h[Len(branch)]
  BY <1>0, RootFromBranchDef
<1> DEFINE S == {i \in Nat : i <= length => h[i] = Anc(i)}
<1>2. 0 \in S
  <2>1. Pow2[0] = 1 /\ (index \div 1) * 1 = index
    BY Pow2Values
  <2>2. Tree(L)[0][index] = L[index + 1]
    BY Nodes
  <2> QED BY <1>1, <2>1, <2>2
<1>3. ASSUME NEW i \in S PROVE i + 1 \in S
  <2> SUFFICES ASSUME i + 1 <= length PROVE h[i + 1] = Anc(i + 1)
    OBVIOUS
  <2>1. i \in Nat /\ h[i] = Anc(i) /\ i + 1 \in 1 .. Len(branch) /\ (i + 1) - 1 = i /\ i + 1 # 0
    BY <1>0
  <2>2. h[i + 1] = NextHash(leaf, index, branch, i + 1, h[i])
    BY <1>1, <2>1
  <2>3. branch[i + 1] = SiblingNode(L, i, index)
    BY <1>0, <2>1 DEF IsBranch
  <2>4. h[i + 1] = IF (index \div Pow2[i]) % 2 = 1 THEN Hash(SiblingNode(L, i, index), Anc(i))
                   ELSE Hash(Anc(i), SiblingNode(L, i, index))
    BY <2>1, <2>2, <2>3 DEF NextHash
  <2>5. Anc(i + 1) = IF (index \div Pow2[i]) % 2 = 1 THEN Hash(SiblingNode(L, i, index), Anc(i))
                     ELSE Hash(Anc(i), SiblingNode(L, i, index))
    BY <2>1, Ancestor
  <2> QED BY <2>4, <2>5
<1>4. S = Nat
  BY <1>2, <1>3, Induction
<1> QED BY <1>0, <1>1, <1>4

-----------------------------------------------------------------------------
(* Segments *)

(* A holds `size` leaves of L from the place S on, or those that there are. *)
IsSegment(A, L, S, size) ==
    /\ IsList(A, Len(A))
    /\ \A j \in Nat : j < Len(A) <=> j < size /\ S + j < Len(L)
    /\ \A j \in Nat : j < Len(A) => A[j + 1] = L[S + j + 1]

(* A node that starts inside a segment ends in it. *)
LEMMA Aligned ==
    ASSUME NEW y \in Nat, NEW i \in Nat, NEW d \in Nat, i <= d, y * Pow2[i] < Pow2[d]
    PROVE  y * Pow2[i] + Pow2[i] <= Pow2[d]
<1> DEFINE P == Pow2[i]
           e == Pow2[d - i]
<1>1. d - i \in Nat /\ d = i + (d - i)
  OBVIOUS
<1>2. Pow2[d] = P * e
  BY <1>1, Pow2Sum
<1>3. P \in Nat /\ P > 0
  BY Power
<1>4. e \in Nat
  BY <1>1, Power
<1> HIDE DEF P, e
<1>5. y * P < P * e
  BY <1>2 DEF P
<1>6. y < e
  BY <1>3, <1>4, <1>5
<1>7. (y + 1) * P <= e * P
  BY <1>3, <1>4, <1>6, Times
<1> QED BY <1>2, <1>3, <1>4, <1>7 DEF P

(* The nodes over a segment are nodes of the whole tree. *)
LEMMA SegmentNodes ==
    ASSUME NEW A, NEW L, Len(L) \in Nat, NEW S \in Nat, NEW d \in Nat, IsSegment(A, L, S, Pow2[d]),
           NEW i \in Nat, i <= d, NEW y \in Nat, y * Pow2[i] < Len(A)
    PROVE  Tree(A)[i][y * Pow2[i]] = Tree(L)[i][S + y * Pow2[i]]
<1> DEFINE P == Pow2[i]
           x == y * P
           D == Pow2[d]
<1>1. P \in Nat /\ P > 0
  BY Power
<1>2. D \in Nat
  BY Power
<1>3. Len(A) \in Nat /\ x \in Nat
  BY <1>1 DEF IsSegment, IsList
<1> HIDE DEF P, x, D
<1>4. x < Len(A)
  BY DEF x, P
<1>5. /\ \A j \in Nat : j < Len(A) <=> j < D /\ S + j < Len(L)
      /\ \A j \in Nat : j < Len(A) => A[j + 1] = L[S + j + 1]
  BY DEF IsSegment, D
<1>6. x + P <= D
  <2>1. x < D
    BY <1>3, <1>4, <1>5
  <2> QED BY <2>1, Aligned DEF x, P, D
<1>7. ASSUME NEW j \in Nat, j < P
      PROVE  /\ x + j < Len(A) <=> (S + x) + j < Len(L)
             /\ x + j < Len(A) => A[x + j + 1] = L[(S + x) + j + 1]
  <2>1. x + j \in Nat /\ x + j < D /\ S + (x + j) = (S + x) + j
    BY <1>1, <1>2, <1>3, <1>6, <1>7
  <2> QED BY <1>5, <2>1
<1>8. SameWindow(A, x, L, S + x, P)
  BY <1>7 DEF SameWindow
<1>9. S + x \in Nat /\ S + x < Len(L)
  BY <1>3, <1>4, <1>5
<1>10. Tree(A)[i][x] = Tree(L)[i][S + x]
  BY <1>3, <1>4, <1>8, <1>9, NodesOfWindows DEF P
<1> QED BY <1>10 DEF x, P

(* The siblings in a segment are siblings in the whole tree. *)
LEMMA SegmentSiblings ==
    ASSUME NEW A, NEW L, Len(L) \in Nat, NEW up \in Nat, NEW d \in Nat,
           IsSegment(A, L, up * Pow2[d], Pow2[d]),
           NEW x \in Nat, x < Len(A), NEW i \in Nat, i < d
    PROVE  SiblingNode(A, i, x) = SiblingNode(L, i, up * Pow2[d] + x)
<1> DEFINE P == Pow2[i]
           D == Pow2[d]
           S == up * D
           e == up * Pow2[d - i - 1]
           a == x \div P
<1>1. P \in Nat /\ P > 0
  BY Power
<1>2. D \in Nat /\ D > 0
  BY Power
<1>3. d - i - 1 \in Nat /\ d = (i + 1) + (d - i - 1)
  OBVIOUS
<1>4. D = Pow2[i + 1] * Pow2[d - i - 1] /\ Pow2[i + 1] = 2 * P /\ Pow2[d - i - 1] \in Nat
  <2>1. i + 1 \in Nat
    OBVIOUS
  <2>2. D = Pow2[i + 1] * Pow2[d - i - 1]
    BY <1>3, <2>1, Pow2Sum
  <2>3. Pow2[i + 1] = 2 * P
    BY Power
  <2>4. Pow2[d - i - 1] \in Nat
    BY <1>3, Power
  <2> QED BY <2>2, <2>3, <2>4
<1>5. Len(A) \in Nat
  BY DEF IsSegment, IsList
<1>6. /\ \A j \in Nat : j < Len(A) <=> j < D /\ S + j < Len(L)
      /\ \A j \in Nat : j < Len(A) => A[j + 1] = L[S + j + 1]
  BY DEF IsSegment
<1>7. a \in Nat /\ a * P <= x /\ x < a * P + P
  BY <1>1, Division
<1> HIDE DEF a
<1>8. e \in Nat /\ S \in Nat
  <2>1. \A m \in Nat : up * m \in Nat
    OBVIOUS
  <2> QED BY <1>2, <1>4, <2>1
<1>9. S = (2 * e) * P
  <2> DEFINE f == Pow2[d - i - 1]
  <2>1. f \in Nat /\ D = (2 * P) * f
    BY <1>4
  <2> HIDE DEF f, D, P
  <2>2. up * ((2 * P) * f) = (2 * (up * f)) * P
    BY <1>1, <2>1
  <2> QED BY <2>1, <2>2 DEF f
<1> HIDE DEF e, S, D, P
<1>10. (S + x) \div P = 2 * e + a
  <2>1. (2 * e + a) * P = S + a * P
    BY <1>1, <1>7, <1>8, <1>9
  <2>2. 2 * e + a \in Nat /\ S + x \in Nat
    BY <1>7, <1>8
  <2>3. (2 * e + a) * P <= S + x /\ S + x < (2 * e + a) * P + P
    BY <1>1, <1>7, <1>8, <2>1
  <2> QED BY <1>1, <2>2, <2>3, Quotient
<1>11. (2 * e + a) % 2 = 1 <=> a % 2 = 1
  BY <1>7, <1>8
<1>12. ASSUME NEW y \in Nat, y * P < Len(A) PROVE Tree(A)[i][y * P] = Tree(L)[i][S + y * P]
  BY <1>8, <1>12, SegmentNodes DEF S, D, P
<1>13. CASE a % 2 = 1
  <2>1. a - 1 \in Nat /\ (a - 1) * P < Len(A) /\ ((2 * e + a) - 1) * P = S + (a - 1) * P
    BY <1>1, <1>5, <1>7, <1>8, <1>9, <1>13
  <2>2. SiblingNode(A, i, x) = Tree(A)[i][(a - 1) * P]
    BY <1>13 DEF SiblingNode, a, P
  <2>3. SiblingNode(L, i, S + x) = Tree(L)[i][S + (a - 1) * P]
    BY <1>10, <1>11, <1>13, <2>1 DEF SiblingNode, P
  <2> QED BY <1>12, <2>1, <2>2, <2>3 DEF S, D
<1>14. CASE ~ (a % 2 = 1)
  <2>1. a * P < Len(A) /\ (2 * e + a) * P = S + a * P /\ ((2 * e + a) + 1) * P = S + (a + 1) * P
    BY <1>1, <1>5, <1>7, <1>8, <1>9
  <2>2. SiblingNode(A, i, x) = Tree(A)[i][IF (a + 1) * P < Len(A) THEN (a + 1) * P ELSE a * P]
    BY <1>14 DEF SiblingNode, a, P
  <2>3. SiblingNode(L, i, S + x) =
            Tree(L)[i][IF S + (a + 1) * P < Len(L) THEN S + (a + 1) * P ELSE S + a * P]
    BY <1>10, <1>11, <1>14, <2>1 DEF SiblingNode, P
  <2>4. (a + 1) * P < D
    <3>1. PICK b \in Nat : a = 2 * b
      BY <1>7, <1>14
    <3>2. a * P = b * (2 * P)
      BY <1>1, <3>1
    <3>3. a * P < D
      BY <1>1, <1>2, <1>6, <1>7, <2>1
    <3>4. b * (2 * P) + 2 * P <= D
      <4>1. i + 1 \in Nat /\ i + 1 <= d /\ b * Pow2[i + 1] < Pow2[d]
        BY <1>4, <3>2, <3>3 DEF D
      <4>2. b * Pow2[i + 1] + Pow2[i + 1] <= Pow2[d]
        BY <4>1, Aligned
      <4> QED BY <1>4, <4>2 DEF D
    <3> QED BY <1>1, <1>2, <1>7, <3>1, <3>2, <3>4
  <2>5. (a + 1) * P < Len(A) <=> S + (a + 1) * P < Len(L)
    <3>1. (a + 1) * P \in Nat
      BY <1>1, <1>7
    <3> QED BY <1>6, <2>4, <3>1
  <2>6. (a + 1) * P < Len(A) => Tree(A)[i][(a + 1) * P] = Tree(L)[i][S + (a + 1) * P]
    BY <1>7, <1>12
  <2>7. Tree(A)[i][a * P] = Tree(L)[i][S + a * P]
    BY <1>7, <1>12, <2>1
  <2> QED BY <2>2, <2>3, <2>5, <2>6, <2>7 DEF S, D
<1> QED BY <1>13, <1>14

-----------------------------------------------------------------------------
(* Levels *)

(* The tree over a row of the tree is the part of the tree above that row. *)
LEMMA TreeOverRow ==
    ASSUME NEW L, Len(L) \in Nat, Len(L) > 0, NEW d \in Nat, NEW lv, IsRow(lv, L, d)
    PROVE  \A j \in Nat : \A q \in Nat :
              q < Len(lv) => Tree(lv)[j][q] = Tree(L)[d + j][q * Pow2[d]]
<1> DEFINE D == Pow2[d]
           Same(j) == \A q \in Nat : q < Len(lv) => Tree(lv)[j][q] = Tree(L)[d + j][q * D]
           S == {j \in Nat : Same(j)}
<1>1. D \in Nat /\ D > 0
  BY Power
<1>2. /\ Len(lv) \in Nat
      /\ \A q \in Nat : q < Len(lv) <=> q * D < Len(L)
  BY RowLength
<1>3. 0 \in S
  <2> SUFFICES ASSUME NEW q \in Nat, q < Len(lv)
               PROVE  Tree(lv)[0][q] = Tree(L)[d + 0][q * D]
    OBVIOUS
  <2>1. Tree(lv)[0][q] = lv[q + 1]
    BY <1>2, Nodes
  <2>2. lv[q + 1] = Tree(L)[d][q * D]
    BY DEF IsRow
  <2> QED BY <2>1, <2>2
<1>4. ASSUME NEW j \in S PROVE j + 1 \in S
  <2>0. Same(j) /\ j \in Nat
    OBVIOUS
  <2> SUFFICES ASSUME NEW q \in Nat, q < Len(lv)
               PROVE  Tree(lv)[j + 1][q] = Tree(L)[d + (j + 1)][q * D]
    OBVIOUS
  <2> DEFINE J == Pow2[j]
             s == q * D
  <2>1. J \in Nat
    BY Power
  <2>2. Pow2[d + j] = D * J
    BY Pow2Sum
  <2>3. s \in Nat /\ s < Len(L)
    <3>1. s \in Nat
      BY <1>1
    <3>2. s < Len(L)
      BY <1>2
    <3> QED BY <3>1, <3>2
  <2>4. Tree(lv)[j + 1][q] =
            Hash(Tree(lv)[j][q], Tree(lv)[j][IF q + J < Len(lv) THEN q + J ELSE q])
    BY <1>2, <2>0, Nodes
  <2> HIDE DEF s, D, J, Same
  <2>5. d + j \in Nat /\ (d + j) + 1 = d + (j + 1)
    OBVIOUS
  <2>6. Tree(L)[(d + j) + 1][s] =
            Hash(Tree(L)[d + j][s],
                 Tree(L)[d + j][IF s + Pow2[d + j] < Len(L) THEN s + Pow2[d + j] ELSE s])
    BY <2>3, <2>5, Nodes
  <2>7. (q + J) * D = s + Pow2[d + j] /\ q + J \in Nat
    BY <1>1, <2>1, <2>2 DEF s
  <2>8. q + J < Len(lv) <=> s + Pow2[d + j] < Len(L)
    BY <1>2, <2>7
  <2>9. Tree(lv)[j][q] = Tree(L)[d + j][s]
    BY <2>0 DEF Same, s
  <2>10. q + J < Len(lv) => Tree(lv)[j][q + J] = Tree(L)[d + j][s + Pow2[d + j]]
    BY <2>0, <2>7 DEF Same
  <2> QED BY <2>4, <2>5, <2>6, <2>8, <2>9, <2>10 DEF s
<1>5. S = Nat
  BY <1>3, <1>4, Induction
<1> QED BY <1>5

(* The siblings above a row are those in the tree over the row. *)
LEMMA SiblingsOverRow ==
    ASSUME NEW L, Len(L) \in Nat, NEW index \in Nat, index < Len(L), NEW d \in Nat,
           NEW lv, IsRow(lv, L, d), NEW j \in Nat
    PROVE  SiblingNode(lv, j, index \div Pow2[d]) = SiblingNode(L, d + j, index)
<1> DEFINE D  == Pow2[d]
           J  == Pow2[j]
           up == index \div D
           a  == up \div J
<1>1. D \in Nat /\ D > 0
  BY Power
<1>2. J \in Nat /\ J > 0
  BY Power
<1>3. Pow2[d + j] = D * J /\ D * J \in Nat /\ D * J > 0
  <2>1. Pow2[d + j] = D * J
    BY Pow2Sum
  <2>2. D * J \in Nat /\ D * J > 0
    BY <1>1, <1>2
  <2> QED BY <2>1, <2>2
<1>4. up \in Nat /\ up * D <= index /\ index < up * D + D
  BY <1>1, Division
<1> HIDE DEF up
<1>5. a \in Nat /\ a * J <= up /\ up < a * J + J
  BY <1>2, <1>4, Division
<1> HIDE DEF D, J, a
<1>6. index \div (D * J) = a
  <2>1. a * (D * J) = (a * J) * D /\ a * J \in Nat
    BY <1>1, <1>2, <1>5
  <2>2. (a * J) * D <= up * D
    BY <1>1, <1>4, <1>5, <2>1, Times
  <2>3. up + 1 <= a * J + J
    BY <1>2, <1>4, <1>5, <2>1
  <2>4. (up + 1) * D <= (a * J + J) * D
    <3>1. up + 1 \in Nat /\ a * J + J \in Nat
      BY <1>2, <1>4, <2>1
    <3> QED BY <1>1, <2>3, <3>1, Times
  <2>5. (up + 1) * D = up * D + D /\ (a * J + J) * D = (a * J) * D + D * J
    BY <1>1, <1>2, <1>4, <2>1
  <2>6. up * D \in Nat /\ (a * J) * D \in Nat
    BY <1>1, <1>4, <2>1
  <2>7. a * (D * J) <= index /\ index < a * (D * J) + D * J
    BY <1>1, <1>3, <1>4, <2>1, <2>2, <2>4, <2>5, <2>6
  <2> QED BY <1>3, <1>5, <2>7, Quotient
<1>7. /\ Len(lv) \in Nat
      /\ \A q \in Nat : q < Len(lv) <=> q * D < Len(L)
  BY RowLength DEF D
<1>8. \A q \in Nat : q * J \in Nat /\ (q * J) * D = q * (D * J)
  BY <1>1, <1>2
<1>9. ASSUME NEW q \in Nat, q * J < Len(lv)
      PROVE  Tree(lv)[j][q * J] = Tree(L)[d + j][q * (D * J)]
  <2>1. Tree(lv)[j][q * J] = Tree(L)[d + j][(q * J) * D]
    <3>0. q * J \in Nat
      BY <1>8
    <3>1. q * J \in Nat /\ Len(L) > 0
      BY <3>0
    <3>2. \A x \in Nat : x < Len(lv) => Tree(lv)[j][x] = Tree(L)[d + j][x * D]
      BY <3>1, TreeOverRow DEF D
    <3> QED BY <1>9, <3>1, <3>2
  <2> QED BY <1>8, <2>1
<1>10. a * J < Len(lv)
  <2>1. up < Len(lv)
    BY <1>1, <1>4, <1>7
  <2> QED BY <1>4, <1>5, <1>7, <1>8, <2>1
<1>11. SiblingNode(L, d + j, index) =
           IF a % 2 = 1 THEN Tree(L)[d + j][(a - 1) * (D * J)]
           ELSE Tree(L)[d + j][IF (a + 1) * (D * J) < Len(L) THEN (a + 1) * (D * J) ELSE a * (D * J)]
  BY <1>3, <1>6 DEF SiblingNode
<1>12. SiblingNode(lv, j, up) =
           IF a % 2 = 1 THEN Tree(lv)[j][(a - 1) * J]
           ELSE Tree(lv)[j][IF (a + 1) * J < Len(lv) THEN (a + 1) * J ELSE a * J]
  BY DEF SiblingNode, a, J
<1>13. CASE a % 2 = 1
  <2>1. a - 1 \in Nat /\ (a - 1) * J < Len(lv)
    BY <1>2, <1>5, <1>7, <1>10, <1>13
  <2> QED BY <1>9, <1>11, <1>12, <1>13, <2>1 DEF up, D
<1>14. CASE ~ (a % 2 = 1)
  <2>1. (a + 1) * J < Len(lv) <=> (a + 1) * (D * J) < Len(L)
    <3>1. a + 1 \in Nat
      BY <1>5
    <3>2. (a + 1) * J \in Nat /\ ((a + 1) * J) * D = (a + 1) * (D * J)
      BY <1>8, <3>1
    <3>3. (a + 1) * J < Len(lv) <=> ((a + 1) * J) * D < Len(L)
      BY <1>7, <3>2
    <3> QED BY <3>2, <3>3
  <2>2. (a + 1) * J < Len(lv) => Tree(lv)[j][(a + 1) * J] = Tree(L)[d + j][(a + 1) * (D * J)]
    BY <1>5, <1>9
  <2>3. Tree(lv)[j][a * J] = Tree(L)[d + j][a * (D * J)]
    BY <1>5, <1>9, <1>10
  <2> QED BY <1>11, <1>12, <1>14, <2>1, <2>2, <2>3 DEF up, D
<1> QED BY <1>13, <1>14

(* A part of a list. *)
LEMMA PartOfList ==
    ASSUME NEW s, NEW n, IsList(s, n), NEW a \in Nat, NEW b \in Nat, a <= b, b <= n
    PROVE  /\ IsList(SubSeq(s, a + 1, b), b - a)
           /\ \A i \in 1 .. b - a : SubSeq(s, a + 1, b)[i] = s[a + i]
<1> DEFINE X == {s[i] : i \in 1 .. n}
           p == SubSeq(s, a + 1, b)
<1>1. n \in Nat
  BY Lists
<1>2. \A i \in a + 1 .. b : s[i] \in X
  BY <1>1
<1> HIDE DEF X
<1>3. /\ p \in Seq(X)
      /\ Len(p) = IF a + 1 <= b THEN b - (a + 1) + 1 ELSE 0
      /\ \A i \in 1 .. b - (a + 1) + 1 : p[i] = s[a + 1 + i - 1]
  BY <1>2, SubSeqProperties
<1> HIDE DEF p
<1>4. Len(p) = b - a /\ b - a \in Nat
  BY <1>3
<1>5. \A i \in 1 .. b - a : p[i] = s[a + i]
  BY <1>3
<1>6. IsList(p, b - a)
  BY <1>3, <1>4, LenProperties DEF IsList
<1> QED BY <1>5, <1>6 DEF p

(* The same, from the first thing on. *)
LEMMA StartOfList ==
    ASSUME NEW s, NEW n, IsList(s, n), NEW b \in Nat, b <= n
    PROVE  /\ IsList(SubSeq(s, 1, b), b)
           /\ \A i \in 1 .. b : SubSeq(s, 1, b)[i] = s[i]
<1>1. 0 \in Nat /\ 0 <= b /\ b - 0 = b /\ 0 + 1 = 1
  OBVIOUS
<1>2. \A a \in Nat : a <= b => /\ IsList(SubSeq(s, a + 1, b), b - a)
                             /\ \A i \in 1 .. b - a : SubSeq(s, a + 1, b)[i] = s[a + i]
  BY PartOfList
<1>3. /\ IsList(SubSeq(s, 0 + 1, b), b - 0)
      /\ \A i \in 1 .. b - 0 : SubSeq(s, 0 + 1, b)[i] = s[0 + i]
  BY <1>1, <1>2
<1> QED BY <1>1, <1>3

(* u is a list of m things, which are those of s, and then those of t. *)
IsListAfterList(u, s, m, t, n) ==
    /\ IsList(u, m + n)
    /\ \A i \in 1 .. m : u[i] = s[i]
    /\ \A i \in 1 .. n : u[m + i] = t[i]

(* Two lists, one after the other. *)
LEMMA ListAfterList ==
    ASSUME NEW s, NEW m, IsList(s, m), NEW t, NEW n, IsList(t, n)
    PROVE  IsListAfterList(s \o t, s, m, t, n)
<1> DEFINE X == {s[i] : i \in 1 .. m} \cup {t[i] : i \in 1 .. n}
<1>1. m \in Nat /\ Len(s) = m /\ s = [i \in 1 .. m |-> s[i]]
  BY Lists DEF IsList
<1>2. n \in Nat /\ Len(t) = n /\ t = [i \in 1 .. n |-> t[i]]
  BY Lists DEF IsList
<1>3. s \in Seq(X)
  BY <1>1, SeqDef
<1>4. t \in Seq(X)
  BY <1>2, SeqDef
<1> HIDE DEF X
<1>5. /\ s \o t \in Seq(X) /\ Len(s \o t) = m + n
      /\ \A i \in 1 .. m + n : (s \o t)[i] = IF i <= m THEN s[i] ELSE t[i - m]
  BY <1>1, <1>2, <1>3, <1>4, ConcatProperties
<1>6. IsList(s \o t, m + n)
  BY <1>1, <1>2, <1>5, LenProperties DEF IsList
<1>7. ASSUME NEW i \in 1 .. n PROVE (s \o t)[m + i] = t[i]
  <2>1. m + i \in 1 .. m + n /\ ~ (m + i <= m) /\ m + i - m = i
    BY <1>1, <1>2
  <2> DEFINE j == m + i
             u == s \o t
  <2>2. \A x \in 1 .. m + n : u[x] = IF x <= m THEN s[x] ELSE t[x - m]
    BY <1>5
  <2> HIDE DEF j, u
  <2>3. u[j] = t[j - m]
    BY <2>1, <2>2 DEF j
  <2>4. j - m = i
    BY <1>1, <1>2 DEF j
  <2>5. u[j] = t[i]
    BY <2>3, <2>4
  <2> QED BY <2>5, Zenon DEF j, u
<1>8. \A i \in 1 .. m : (s \o t)[i] = s[i]
  BY <1>1, <1>2, <1>5
<1> QED BY <1>6, <1>7, <1>8, Zenon DEF IsListAfterList

(* Merkle::level gives the row of the tree that is depthHigher rows above    *)
(* the leaves.                                                               *)
LEMMA LevelOfIsRow ==
    ASSUME NEW L, NEW n, IsList(L, n), NEW d \in Nat
    PROVE  IsRow(levelOf(L, d), L, d)
<1> DEFINE D == Pow2[d]
           c == (n + D - 1) \div D
           End(k) == IF k * D < n THEN k * D ELSE n
           seg(k) == SubSeq(L, (k - 1) * D + 1, End(k))
           lv == levelOf(L, d)
<1>1. Len(L) = n /\ n \in Nat
  BY Lists
<1>2. D \in Nat /\ D > 0
  BY Power
<1>3. c \in Nat /\ \A q \in Nat : q < c <=> q * D < n
  BY <1>1, <1>2, Segments
<1>4. lv = [k \in 1 .. c |-> branchAndRootOfLength(seg(k), 0, d).root]
  BY <1>1 DEF levelOf
<1> HIDE DEF c, lv
<1>5. IsList(lv, c)
  BY <1>3, <1>4 DEF IsList
<1>6. ASSUME NEW q \in Nat, q < c
      PROVE  lv[q + 1] = Tree(L)[d][q * D]
  <2> DEFINE A == seg(q + 1)
             a == q * D
             b == IF a + D < n THEN a + D ELSE n
  <2>1. q + 1 \in 1 .. c /\ (q + 1) - 1 = q
    BY <1>3, <1>6
  <2>2. a \in Nat /\ a < n /\ (q + 1) * D = a + D
    <3>1. a \in Nat /\ (q + 1) * D = a + D
      BY <1>2
    <3>2. a < n
      BY <1>3, <1>6
    <3> QED BY <3>1, <3>2
  <2>3. A = SubSeq(L, a + 1, b)
    BY <2>1, <2>2
  <2> HIDE DEF A, a, D
  <2>4. b \in Nat /\ a <= b /\ b <= n /\ b - a > 0
    BY <1>1, <1>2, <2>2
  <2>5. IsList(A, b - a) /\ \A i \in 1 .. b - a : A[i] = L[a + i]
    BY <2>2, <2>3, <2>4, PartOfList
  <2> HIDE DEF b
  <2>6. Len(A) = b - a
    BY <2>5, Lists
  <2>7. IsSegment(A, L, a, D)
    <3>1. IsList(A, Len(A))
      BY <2>5, <2>6
    <3>2. ASSUME NEW j \in Nat PROVE j < Len(A) <=> j < D /\ a + j < Len(L)
      BY <1>1, <1>2, <2>2, <2>6 DEF b
    <3>3. ASSUME NEW j \in Nat, j < Len(A) PROVE A[j + 1] = L[a + j + 1]
      <4>1. j + 1 \in 1 .. b - a /\ a + (j + 1) = a + j + 1
        BY <2>2, <2>4, <2>6, <3>3
      <4> QED BY <2>5, <4>1
    <3> QED BY <3>1, <3>2, <3>3 DEF IsSegment
  <2>8. branchAndRootOfLength(A, 0, d).root = Tree(A)[d][0]
    BY <2>4, <2>5, BranchAndRootOfLength
  <2>9. Tree(A)[d][0 * D] = Tree(L)[d][a + 0 * D]
    <3>1. 0 * D < Len(A)
      BY <1>2, <2>4, <2>6
    <3> QED BY <1>1, <2>2, <2>7, <3>1, SegmentNodes DEF D
  <2>10. 0 * D = 0 /\ a + 0 * D = a
    BY <1>2, <2>2
  <2>11. lv[q + 1] = branchAndRootOfLength(A, 0, d).root
    BY <1>4, <2>1 DEF A
  <2> QED BY <2>8, <2>9, <2>10, <2>11 DEF a
<1>7. Len(lv) = c
  BY <1>5, Lists
<1> QED BY <1>1, <1>5, <1>6, <1>7 DEF IsRow, lv, c, D

-----------------------------------------------------------------------------
(* The length of a branch *)

(* The branch length is the least height at which one node covers everything. *)
LEMMA BranchLength ==
    ASSUME NEW n \in Nat, n > 0
    PROVE  /\ branchLength(n) \in Nat
           /\ Pow2[branchLength(n)] >= n
           /\ branchLength(n) > 0 => Pow2[branchLength(n) - 1] < n
<1> DEFINE S == {k \in Nat : Pow2[k] >= n}
<1>1. n \in S
  BY Pow2Values
<1>2. PICK k \in S : \A j \in S : k <= j
  BY <1>1, LeastNatural
<1>3. k \in 0 .. n /\ Pow2[k] >= n
  BY <1>1, <1>2
<1>4. k > 0 => Pow2[k - 1] < n
  <2> SUFFICES ASSUME k > 0 PROVE Pow2[k - 1] < n
    OBVIOUS
  <2>1. k - 1 \in Nat /\ k - 1 \notin S
    BY <1>2, <1>3
  <2>2. Pow2[k - 1] \in Nat
    BY <2>1, Power
  <2> QED BY <2>1, <2>2
<1>5. \E j \in 0 .. n : Pow2[j] >= n /\ (j > 0 => Pow2[j - 1] < n)
  BY <1>3, <1>4
<1>6. /\ branchLength(n) \in 0 .. n
      /\ Pow2[branchLength(n)] >= n
      /\ branchLength(n) > 0 => Pow2[branchLength(n) - 1] < n
  BY <1>5, Zenon DEF branchLength
<1> QED BY <1>6

(* ... and the only one. *)
LEMMA BranchLengthIs ==
    ASSUME NEW n \in Nat, n > 0, NEW k \in Nat, Pow2[k] >= n, k > 0 => Pow2[k - 1] < n
    PROVE  branchLength(n) = k
<1> DEFINE b == branchLength(n)
<1>1. b \in Nat /\ Pow2[b] >= n /\ (b > 0 => Pow2[b - 1] < n)
  BY BranchLength
<1> HIDE DEF b
<1>2. ~ (b < k)
  <2> SUFFICES ASSUME b < k PROVE FALSE
    OBVIOUS
  <2>1. k - 1 \in Nat /\ b <= k - 1 /\ Pow2[k - 1] < n /\ Pow2[k - 1] \in Nat /\ Pow2[b] \in Nat
    BY <1>1, Pow2Values
  <2>2. b = k - 1 \/ 2 * Pow2[b] <= Pow2[k - 1]
    BY <1>1, <2>1, Pow2Grows
  <2> QED BY <1>1, <2>1, <2>2
<1>3. ~ (k < b)
  <2> SUFFICES ASSUME k < b PROVE FALSE
    OBVIOUS
  <2>1. b - 1 \in Nat /\ k <= b - 1 /\ Pow2[b - 1] < n /\ Pow2[b - 1] \in Nat /\ Pow2[k] \in Nat
    BY <1>1, Pow2Values
  <2>2. k = b - 1 \/ 2 * Pow2[k] <= Pow2[b - 1]
    BY <1>1, <2>1, Pow2Grows
  <2> QED BY <1>1, <2>1, <2>2
<1> QED BY <1>1, <1>2, <1>3 DEF b

(* A branch of a segment and a branch of the level above it are as long as a *)
(* branch of the whole tree, unless the tree is smaller than a segment.      *)
LEMMA BranchLengthAboveRow ==
    ASSUME NEW L, Len(L) \in Nat, Len(L) > 0, NEW d \in Nat, Pow2[d] <= Len(L),
           NEW lv, IsRow(lv, L, d)
    PROVE  /\ branchLength(Len(lv)) \in Nat
           /\ branchLength(Len(L)) = d + branchLength(Len(lv))
<1> DEFINE D == Pow2[d]
           n == Len(L)
           c == Len(lv)
           k == branchLength(c)
<1>1. D \in Nat /\ D > 0
  BY Power
<1>2. /\ c \in Nat /\ c > 0
      /\ \A q \in Nat : q < c <=> q * D < n
  BY RowLength
<1>3. k \in Nat /\ Pow2[k] >= c /\ (k > 0 => Pow2[k - 1] < c)
  BY <1>2, BranchLength
<1> HIDE DEF D, n, c, k
<1>4. n \in Nat /\ n > 0 /\ D <= n /\ d + k \in Nat
  BY <1>3 DEF n, D
<1>5. Pow2[d + k] >= n
  <2>1. Pow2[k] \in Nat /\ Pow2[d + k] = D * Pow2[k]
    BY <1>3, Power, Pow2Sum DEF D
  <2>2. ~ (Pow2[k] * D < n)
    BY <1>2, <1>3, <2>1
  <2> QED BY <1>1, <1>4, <2>1, <2>2
<1>6. d + k > 0 => Pow2[d + k - 1] < n
  <2>1. CASE k > 0
    <3>1. k - 1 \in Nat /\ d + (k - 1) = d + k - 1
      BY <1>3, <2>1
    <3>2. Pow2[k - 1] \in Nat /\ Pow2[d + (k - 1)] = D * Pow2[k - 1]
      BY <3>1, Power, Pow2Sum DEF D
    <3>3. Pow2[k - 1] * D < n
      BY <1>2, <1>3, <2>1, <3>2
    <3> QED BY <1>1, <3>1, <3>2, <3>3
  <2>2. CASE k = 0 /\ d > 0
    <3>1. d - 1 \in Nat /\ d + k - 1 = d - 1 /\ (d - 1) + 1 = d
      BY <2>2
    <3>2. Pow2[d - 1] \in Nat /\ Pow2[d - 1] > 0 /\ D = 2 * Pow2[d - 1]
      BY <3>1, Power DEF D
    <3> QED BY <1>4, <3>1, <3>2
  <2> QED BY <1>3, <2>1, <2>2
<1>7. branchLength(n) = d + k
  <2>1. \A e \in Nat : Pow2[e] >= n /\ (e > 0 => Pow2[e - 1] < n) => branchLength(n) = e
    BY <1>4, BranchLengthIs
  <2>2. PICK e \in Nat : e = d + k
    BY <1>4
  <2>3. e - 1 = d + k - 1
    BY <1>3, <2>2
  <2>4. e > 0 => Pow2[e - 1] < n
    BY <1>6, <2>2, <2>3, Zenon
  <2>5. Pow2[e] >= n
    BY <1>5, <2>2
  <2> QED BY <2>1, <2>2, <2>4, <2>5
<1> QED BY <1>3, <1>7 DEF n, k, c

-----------------------------------------------------------------------------
(* Answers *)

(* A result leads from the leaf to the root of the tree. *)
IsProof(L, index, res) ==
    /\ res.root = RootOf(L)
    /\ RootFromBranch(L[index + 1], index, res.branch) = res.root

(* A branch of the natural length leads to the root. *)
LEMMA BranchLeadsToRoot ==
    ASSUME NEW L, Len(L) \in Nat, NEW index \in Nat, index < Len(L),
           NEW branch, IsBranch(L, index, branch, branchLength(Len(L)))
    PROVE  RootFromBranch(L[index + 1], index, branch) = RootOf(L)
<1> DEFINE k == branchLength(Len(L))
<1>1. k \in Nat /\ Pow2[k] >= Len(L)
  BY BranchLength
<1>2. Pow2[k] \in Nat /\ Pow2[k] > 0
  BY <1>1, Power
<1>3. RootFromBranch(L[index + 1], index, branch) = Tree(L)[k][(index \div Pow2[k]) * Pow2[k]]
  BY ClimbsToAncestor
<1> HIDE DEF k
<1>4. 0 * Pow2[k] = 0 /\ index < 0 * Pow2[k] + Pow2[k]
  BY <1>1, <1>2
<1>5. index \div Pow2[k] = 0
  BY <1>2, <1>4, Quotient
<1> QED BY <1>3, <1>4, <1>5 DEF RootOf, k

(* Merkle::branchAndRoot proves a leaf. *)
LEMMA BranchAndRootIsProof ==
    ASSUME NEW L, NEW n, IsList(L, n), NEW index \in Nat, index < n
    PROVE  IsProof(L, index, branchAndRoot(L, index))
<1>1. Len(L) = n /\ n \in Nat
  BY Lists
<1>2. n > 0
  BY <1>1
<1> DEFINE k == branchLength(Len(L))
<1>3. k \in Nat
  BY <1>1, <1>2, BranchLength
<1>4. /\ IsBranch(L, index, branchAndRoot(L, index).branch, k)
      /\ branchAndRoot(L, index).root = Tree(L)[k][0]
  BY <1>3, BranchAndRootOfLength DEF branchAndRoot
<1>5. RootFromBranch(L[index + 1], index, branchAndRoot(L, index).branch) = RootOf(L)
  BY <1>1, <1>4, BranchLeadsToRoot
<1> QED BY <1>4, <1>5 DEF IsProof, RootOf

(* Merkle::branchAndRootFromLevel proves a leaf, from its segment and the    *)
(* row of the tree, unless it finds that they do not fit.                    *)
LEMMA BranchAndRootFromLevelIsProof ==
    ASSUME NEW L, NEW n, IsList(L, n), NEW index \in Nat, index < n,
           NEW d \in Nat, Pow2[d] <= n, NEW lv, IsRow(lv, L, d),
           NEW A, IsSegment(A, L, (index \div Pow2[d]) * Pow2[d], Pow2[d]),
           branchAndRootFromLevel(lv, A, index, d) # Inconsistent
    PROVE  IsProof(L, index, branchAndRootFromLevel(lv, A, index, d))
<1> DEFINE D    == Pow2[d]
           up   == index \div D
           S    == up * D
           x    == index - S
           low  == branchAndRootOfLength(A, x, d)
           high == branchAndRoot(lv, up)
           k    == branchLength(Len(lv))
           br   == low.branch \o high.branch
<1>1. Len(L) = n /\ n \in Nat /\ n > 0
  <2>1. Len(L) = n /\ n \in Nat
    BY Lists
  <2> QED BY <2>1
<1>2. D \in Nat /\ D > 0
  BY Power
<1>3. up \in Nat /\ S <= index /\ index < S + D
  BY <1>2, Division
<1>4. S \in Nat /\ x \in Nat /\ x < D /\ S + x = index
  BY <1>2, <1>3
<1>5. branchAndRootFromLevel(lv, A, index, d) = [branch |-> br, root |-> high.root]
  BY DEF branchAndRootFromLevel
<1>6. IsSegment(A, L, S, D)
  OBVIOUS
<1> HIDE DEF D, up, S, x
<1>7. Len(A) \in Nat /\ IsList(A, Len(A)) /\ x < Len(A)
  BY <1>1, <1>3, <1>4, <1>6 DEF IsSegment, IsList
<1>8. IsBranch(A, x, low.branch, d)
  BY <1>4, <1>7, BranchAndRootOfLength
<1>9. /\ Len(lv) \in Nat /\ IsList(lv, Len(lv))
      /\ \A q \in Nat : q < Len(lv) <=> q * D < n
  BY <1>1, RowLength DEF D
<1>10. up < Len(lv)
  BY <1>1, <1>2, <1>3, <1>4, <1>9 DEF S
<1>11. k \in Nat /\ branchLength(n) = d + k
  BY <1>1, BranchLengthAboveRow
<1>12. IsBranch(lv, up, high.branch, k) /\ high.root = Tree(lv)[k][0]
  BY <1>3, <1>9, <1>10, <1>11, BranchAndRootOfLength DEF branchAndRoot
<1> HIDE DEF low, high, k
<1>13. /\ IsList(br, d + k)
       /\ \A i \in 1 .. d : br[i] = low.branch[i]
       /\ \A i \in 1 .. k : br[d + i] = high.branch[i]
  <2> DEFINE lb == low.branch
             hb == high.branch
  <2>1. IsList(lb, d) /\ IsList(hb, k)
    BY <1>8, <1>12 DEF IsBranch
  <2> HIDE DEF lb, hb
  <2>2. IsListAfterList(lb \o hb, lb, d, hb, k)
    BY <2>1, ListAfterList
  <2> QED BY <2>2, Zenon DEF IsListAfterList, lb, hb
<1> HIDE DEF br
<1>14. ASSUME NEW i \in Nat, i < d PROVE br[i + 1] = SiblingNode(L, i, index)
  <2>1. br[i + 1] = low.branch[i + 1]
    BY <1>13, <1>14
  <2>2. low.branch[i + 1] = SiblingNode(A, i, x)
    BY <1>8, <1>14 DEF IsBranch
  <2>3. SiblingNode(A, i, x) = SiblingNode(L, i, S + x)
    BY <1>1, <1>3, <1>4, <1>6, <1>7, <1>14, SegmentSiblings DEF S, D
  <2> QED BY <1>4, <2>1, <2>2, <2>3
<1>15. ASSUME NEW j \in Nat, j < k PROVE br[d + j + 1] = SiblingNode(L, d + j, index)
  <2>1. j + 1 \in 1 .. k /\ d + (j + 1) = d + j + 1
    BY <1>11, <1>15
  <2>2. br[d + (j + 1)] = high.branch[j + 1]
    BY <1>13, <2>1
  <2>3. high.branch[j + 1] = SiblingNode(lv, j, up)
    BY <1>12, <1>15 DEF IsBranch
  <2>4. SiblingNode(lv, j, up) = SiblingNode(L, d + j, index)
    <3>1. index < Len(L) /\ Len(L) \in Nat
      BY <1>1
    <3> QED BY <3>1, SiblingsOverRow DEF up, D
  <2> QED BY <2>1, <2>2, <2>3, <2>4
<1>16. IsBranch(L, index, br, branchLength(n))
  <2>1. ASSUME NEW i \in Nat, i < d + k PROVE br[i + 1] = SiblingNode(L, i, index)
    <3>1. CASE i < d
      BY <1>14, <3>1
    <3>2. CASE ~ (i < d)
      <4>1. i - d \in Nat /\ i - d < k /\ d + (i - d) = i
        BY <1>11, <2>1, <3>2
      <4>2. br[d + (i - d) + 1] = SiblingNode(L, d + (i - d), index)
        BY <1>15, <4>1
      <4> QED BY <4>1, <4>2
    <3> QED BY <3>1, <3>2
  <2> QED BY <1>11, <1>13, <2>1 DEF IsBranch
<1>17. RootFromBranch(L[index + 1], index, br) = RootOf(L)
  BY <1>1, <1>16, BranchLeadsToRoot
<1>18. high.root = RootOf(L)
  <2>1. Tree(lv)[k][0] = Tree(L)[d + k][0 * D]
    <3>1. 0 < Len(lv)
      BY <1>3, <1>9, <1>10
    <3>2. \A q \in Nat : q < Len(lv) => Tree(lv)[k][q] = Tree(L)[d + k][q * D]
      BY <1>1, <1>11, TreeOverRow DEF D
    <3> QED BY <3>1, <3>2
  <2>2. 0 * D = 0
    BY <1>2
  <2> QED BY <1>1, <1>11, <1>12, <2>1, <2>2 DEF RootOf
<1> QED BY <1>5, <1>17, <1>18 DEF IsProof

-----------------------------------------------------------------------------
(* The inductive invariant *)

Fields == {"pc", "length", "index", "leaves", "ret", "reorg"}

InLock == {"extend", "leaves", "level"}

(* The types, and how far the record array and the database may differ. *)
HeadersOK ==
    /\ db \in Seq(Nat) /\ nRecs \in Nat /\ undos \in Nat
    /\ ctl \in {"idle", "add", "undo", "truncated"}
    /\ ctl = "idle" => nRecs = Len(db)
    /\ ctl = "add" => nRecs = Len(db) + 1
    /\ ctl \in {"undo", "truncated"} => nRecs = Len(db) - 1

(* Except between deleteHeadersPastHeight and truncate, the cache knows no   *)
(* more headers than the record array.                                       *)
CacheOK ==
    /\ DOMAIN cache = {"initialized", "length", "depthHigher", "level"}
    /\ cache.initialized \in BOOLEAN /\ cache.length \in Nat /\ cache.depthHigher \in Nat
    /\ cache.initialized /\ ctl # "undo" => cache.length <= nRecs
    /\ LevelIsRight

(* The leaves that a client thread has fetched are those of its segment, and *)
(* an undo that is under way will not take them away.                        *)
Fetched(r) ==
    LET S     == leafStart(rd[r].index)
        count == IF segmentLength < rd[r].length - S THEN segmentLength ELSE rd[r].length - S
    IN  /\ segmentLength <= rd[r].length
        /\ S + count <= Len(db)
        /\ ctl = "truncated" => S + count <= nRecs
        /\ rd[r].leaves = getHashes(S, count)

ReaderOK(r) ==
    /\ DOMAIN rd[r] = Fields
    /\ rd[r].length \in Nat /\ rd[r].index \in Nat
    /\ rd[r].pc \in InLock \cup {"ask"} => rd[r].index < rd[r].length
    /\ rd[r].pc \in InLock => lock = {r} /\ cache.initialized
    /\ rd[r].pc = "level" => Fetched(r)

(***************************************************************************)
(* LevelIsRight is not inductive: that a reader extends the cache with     *)
(* headers that stay, that an undo waits for the reader, and that a reader *)
(* answers from leaves that are still there, takes the rest.               *)
(***************************************************************************)
IInv ==
    /\ HeadersOK
    /\ CacheOK
    /\ DOMAIN rd = Readers
    /\ \A r \in Readers : ReaderOK(r)

-----------------------------------------------------------------------------
(* Levels of a growing and shrinking list *)

(* A level kept up to whole segments and followed by the level of the rest   *)
(* is the level of a list that has the same leaves in those segments.        *)
LEMMA RowExtended ==
    ASSUME NEW L, NEW n, IsList(L, n), NEW M, NEW l, IsList(M, l), NEW d \in Nat, NEW u \in Nat,
           u * Pow2[d] <= n, u * Pow2[d] < l,
           \A j \in 1 .. u * Pow2[d] : L[j] = M[j],
           NEW lv, IsRow(lv, L, d), u <= Len(lv),
           NEW T, IsList(T, l - u * Pow2[d]),
           \A j \in 1 .. l - u * Pow2[d] : T[j] = M[u * Pow2[d] + j]
    PROVE  IsRow(SubSeq(lv, 1, u) \o levelOf(T, d), M, d)
<1> DEFINE D   == Pow2[d]
           S   == u * D
           m   == l - S
           low == SubSeq(lv, 1, u)
           hi  == levelOf(T, d)
           c   == (m + D - 1) \div D
           cc  == (l + D - 1) \div D
           new == low \o hi
<1>1. D \in Nat /\ D > 0
  BY Power
<1>2. n \in Nat /\ Len(L) = n /\ l \in Nat /\ Len(M) = l
  BY Lists
<1>3. S \in Nat /\ S <= n /\ S < l
  BY <1>1
<1>4. m \in Nat /\ Len(T) = m
  <2>1. IsList(T, m)
    OBVIOUS
  <2> HIDE DEF m
  <2> QED BY <2>1, Lists
<1>5. \A j \in 1 .. S : L[j] = M[j]
  OBVIOUS
<1>6. \A j \in 1 .. m : T[j] = M[S + j]
  OBVIOUS
<1>7. IsRow(hi, T, d)
  BY LevelOfIsRow
<1> HIDE DEF D, S, hi
<1>8. IsList(hi, c) /\ \A q \in Nat : q < Len(hi) => hi[q + 1] = Tree(T)[d][q * D]
  BY <1>4, <1>7 DEF IsRow, D
<1>9. c \in Nat /\ \A q \in Nat : q < c <=> q * D < m
  BY <1>1, <1>4, Segments
<1>10. cc \in Nat /\ \A q \in Nat : q < cc <=> q * D < l
  BY <1>1, <1>2, Segments
<1> HIDE DEF c, cc, m
<1>11. Len(hi) = c
  BY <1>8, Lists
<1>12. IsList(lv, Len(lv)) /\ \A q \in Nat : q < Len(lv) => lv[q + 1] = Tree(L)[d][q * D]
  <2>1. IsList(lv, (Len(L) + Pow2[d] - 1) \div Pow2[d])
    BY DEF IsRow
  <2>2. Len(lv) = (Len(L) + Pow2[d] - 1) \div Pow2[d]
    BY <2>1, Lists
  <2> QED BY <2>1, <2>2 DEF IsRow, D
<1>13. IsList(low, u) /\ \A i \in 1 .. u : low[i] = lv[i]
  BY <1>12, StartOfList
<1> HIDE DEF low
<1>14. IsListAfterList(new, low, u, hi, c)
  BY <1>8, <1>13, ListAfterList
<1> HIDE DEF new
<1>15. u + c = cc
  <2>1. ASSUME NEW q \in Nat PROVE q < u + c <=> q * D < l
    <3>1. CASE q < u
      <4>1. q * D <= u * D
        BY <1>1, <3>1
      <4> QED BY <1>1, <1>2, <1>3, <1>9, <3>1, <4>1 DEF S
    <3>2. CASE ~ (q < u)
      <4>1. q - u \in Nat /\ (q - u) * D = q * D - S /\ q * D \in Nat
        BY <1>1, <3>2 DEF S
      <4>2. q - u < c <=> (q - u) * D < m
        BY <1>9, <4>1
      <4> QED BY <1>2, <1>3, <1>9, <4>1, <4>2 DEF m
    <3> QED BY <3>1, <3>2
  <2>2. \A q \in Nat : q < u + c <=> q < cc
    BY <1>10, <2>1
  <2>3. u + c \in Nat /\ cc \in Nat
    BY <1>9, <1>10
  <2>4. ~ (u + c < cc) /\ ~ (cc < u + c)
    BY <2>2, <2>3
  <2> QED BY <2>3, <2>4
<1>16. IsList(new, cc)
  BY <1>14, <1>15 DEF IsListAfterList
<1>17. Len(new) = cc
  BY <1>16, Lists
<1>18. ASSUME NEW q \in Nat, q < u PROVE new[q + 1] = Tree(M)[d][q * D]
  <2>1. new[q + 1] = lv[q + 1]
    BY <1>13, <1>14, <1>18 DEF IsListAfterList
  <2>2. lv[q + 1] = Tree(L)[d][q * D]
    BY <1>12, <1>18, Lists
  <2>3. q * D \in Nat /\ q * D + D <= S
    BY <1>1, <1>18 DEF S
  <2>4. SameWindow(L, q * D, M, q * D, D)
    <3> DEFINE s == q * D
    <3> HIDE DEF s
    <3>1. s \in Nat /\ s + D <= S
      BY <2>3 DEF s
    <3>2. \A i \in Nat : i < D => /\ s + i < Len(L) <=> s + i < Len(M)
                                  /\ s + i < Len(L) => L[s + i + 1] = M[s + i + 1]
      BY <1>1, <1>2, <1>3, <1>5, <3>1
    <3> QED BY <3>2 DEF SameWindow, s
  <2>5. Tree(L)[d][q * D] = Tree(M)[d][q * D]
    <3>1. q * D < Len(L) /\ q * D < Len(M)
      BY <1>1, <1>2, <1>3, <2>3
    <3>2. Len(L) \in Nat /\ Len(M) \in Nat
      BY <1>2
    <3>3. \A k \in Nat : \A s, t \in Nat :
             s < Len(L) /\ t < Len(M) /\ SameWindow(L, s, M, t, Pow2[k])
                 => Tree(L)[k][s] = Tree(M)[k][t]
      BY <3>2, NodesOfWindows
    <3>4. SameWindow(L, q * D, M, q * D, Pow2[d])
      BY <2>4 DEF D
    <3> QED BY <2>3, <3>1, <3>3, <3>4
  <2> QED BY <2>1, <2>2, <2>5
<1>19. ASSUME NEW q \in Nat, u <= q, q < cc PROVE new[q + 1] = Tree(M)[d][q * D]
  <2> DEFINE p == q - u
             s == p * D
  <2>1. p \in Nat /\ p < c /\ u + p = q /\ u + (p + 1) = q + 1 /\ p + 1 \in 1 .. c
    BY <1>9, <1>15, <1>19
  <2> HIDE DEF p
  <2>2. new[q + 1] = hi[p + 1]
    BY <1>14, <2>1 DEF IsListAfterList
  <2>3. hi[p + 1] = Tree(T)[d][s]
    BY <1>8, <1>11, <2>1
  <2>4. s \in Nat /\ s < m /\ q * D = S + s
    <3>1. s \in Nat /\ (u + p) * D = S + s
      BY <1>1, <2>1 DEF S
    <3>2. s < m
      BY <1>9, <2>1
    <3> QED BY <2>1, <3>1, <3>2
  <2> HIDE DEF s
  <2>5. SameWindow(T, s, M, S + s, D)
    <3>1. ASSUME NEW i \in Nat
          PROVE  /\ s + i < Len(T) <=> (S + s) + i < Len(M)
                 /\ s + i < Len(T) => T[s + i + 1] = M[(S + s) + i + 1]
      <4>1. s + i < Len(T) <=> (S + s) + i < Len(M)
        BY <1>2, <1>3, <1>4, <2>4 DEF m
      <4>2. ASSUME s + i < Len(T) PROVE T[s + i + 1] = M[(S + s) + i + 1]
        <5>1. s + i + 1 \in 1 .. m /\ S + (s + i + 1) = (S + s) + i + 1
          BY <1>3, <1>4, <2>4, <4>2
        <5> QED BY <1>6, <5>1
      <4> QED BY <4>1, <4>2
    <3> QED BY <3>1 DEF SameWindow
  <2>6. Tree(T)[d][s] = Tree(M)[d][S + s]
    <3>1. S + s \in Nat /\ s < Len(T) /\ S + s < Len(M)
      BY <1>2, <1>3, <1>4, <2>4 DEF m
    <3>2. \A x, y \in Nat : x < Len(T) /\ y < Len(M) /\ SameWindow(T, x, M, y, D)
                               => Tree(T)[d][x] = Tree(M)[d][y]
      <4>1. Len(T) \in Nat /\ Len(M) \in Nat
        BY <1>2, <1>4
      <4> QED BY <4>1, NodesOfWindows DEF D
    <3> QED BY <2>4, <2>5, <3>1, <3>2
  <2> QED BY <2>2, <2>3, <2>4, <2>6
<1>20. \A q \in Nat : q < Len(new) => new[q + 1] = Tree(M)[d][q * D]
  BY <1>10, <1>17, <1>18, <1>19
<1> QED BY <1>2, <1>16, <1>20 DEF IsRow, new, cc, low, hi, D

(* A level kept up to whole segments is the level of those segments. *)
LEMMA RowTruncated ==
    ASSUME NEW L, NEW n, IsList(L, n), NEW d \in Nat, NEW u \in Nat, u * Pow2[d] <= n,
           NEW M, IsList(M, u * Pow2[d]), \A j \in 1 .. u * Pow2[d] : L[j] = M[j],
           NEW lv, IsRow(lv, L, d)
    PROVE  IsRow(SubSeq(lv, 1, u), M, d)
<1> DEFINE D   == Pow2[d]
           S   == u * D
           low == SubSeq(lv, 1, u)
           c   == (n + D - 1) \div D
           cc  == (S + D - 1) \div D
<1>1. D \in Nat /\ D > 0
  BY Power
<1>2. n \in Nat /\ Len(L) = n
  BY Lists
<1>3. S \in Nat /\ S <= n
  BY <1>1
<1>4. Len(M) = S
  <2>1. IsList(M, S)
    OBVIOUS
  <2> HIDE DEF S
  <2> QED BY <2>1, Lists
<1>5. \A j \in 1 .. S : L[j] = M[j]
  OBVIOUS
<1> HIDE DEF D
<1>6. c \in Nat /\ \A q \in Nat : q < c <=> q * D < n
  BY <1>1, <1>2, Segments
<1>7. cc = u
  <2>1. u * D <= S + D - 1 /\ S + D - 1 < u * D + D /\ S + D - 1 \in Nat
    BY <1>1, <1>3
  <2> HIDE DEF S
  <2> QED BY <1>1, <2>1, Quotient
<1>8. IsList(lv, c) /\ Len(lv) = c /\ \A q \in Nat : q < c => lv[q + 1] = Tree(L)[d][q * D]
  <2>1. IsList(lv, c)
    BY <1>2 DEF IsRow, D
  <2> HIDE DEF c
  <2>2. Len(lv) = c
    BY <2>1, Lists
  <2> QED BY <2>1, <2>2 DEF IsRow, D
<1> HIDE DEF c, cc
<1>9. ASSUME NEW q \in Nat, q < u PROVE q * D \in Nat /\ q * D + D <= S /\ q < c
  <2>1. (q + 1) * D <= u * D
    BY <1>1, <1>9, Times
  <2>2. q * D \in Nat /\ (q + 1) * D = q * D + D
    BY <1>1
  <2>3. q * D < n
    BY <1>1, <1>2, <1>3, <2>1, <2>2
  <2> QED BY <1>6, <2>1, <2>2, <2>3
<1>10. u <= c
  <2>1. u = 0 \/ u - 1 \in Nat
    OBVIOUS
  <2> QED BY <1>6, <1>9, <2>1
<1>11. IsList(low, u) /\ \A i \in 1 .. u : low[i] = lv[i]
  BY <1>8, <1>10, StartOfList
<1> HIDE DEF low, S
<1>12. Len(low) = u
  BY <1>11, Lists
<1>13. ASSUME NEW q \in Nat, q < u PROVE low[q + 1] = Tree(M)[d][q * D]
  <2>1. low[q + 1] = Tree(L)[d][q * D]
    BY <1>8, <1>9, <1>11, <1>13
  <2>2. q * D \in Nat /\ q * D + D <= S
    BY <1>9, <1>13
  <2>3. SameWindow(L, q * D, M, q * D, D)
    <3> DEFINE s == q * D
    <3> HIDE DEF s
    <3>1. s \in Nat /\ s + D <= S
      BY <2>2 DEF s
    <3>2. \A i \in Nat : i < D => /\ s + i < Len(L) <=> s + i < Len(M)
                                  /\ s + i < Len(L) => L[s + i + 1] = M[s + i + 1]
      BY <1>1, <1>2, <1>3, <1>4, <1>5, <3>1
    <3> QED BY <3>2 DEF SameWindow, s
  <2>4. Tree(L)[d][q * D] = Tree(M)[d][q * D]
    <3>1. q * D < Len(L) /\ q * D < Len(M) /\ Len(L) \in Nat /\ Len(M) \in Nat
      BY <1>1, <1>2, <1>3, <1>4, <2>2
    <3> QED BY <2>2, <2>3, <3>1, NodesOfWindows DEF D
  <2> QED BY <2>1, <2>4
<1> QED BY <1>4, <1>7, <1>11, <1>12, <1>13 DEF IsRow, low, cc, D

-----------------------------------------------------------------------------
(* Hashes of headers *)

HashesOf(headers, from, count) == [i \in 1 .. count |-> Leaf(from + i - 1, headers[from + i])]

(* The hashes of headers are a list. *)
LEMMA HashList ==
    ASSUME NEW headers, NEW from \in Nat, NEW count \in Nat
    PROVE  /\ IsList(HashesOf(headers, from, count), count)
           /\ Len(HashesOf(headers, from, count)) = count
           /\ \A i \in 1 .. count :
                 HashesOf(headers, from, count)[i] = Leaf(from + i - 1, headers[from + i])
<1> DEFINE H == HashesOf(headers, from, count)
<1>1. H = [i \in 1 .. count |-> Leaf(from + i - 1, headers[from + i])]
  BY DEF HashesOf
<1> HIDE DEF H
<1>2. IsList(H, count) /\ \A i \in 1 .. count : H[i] = Leaf(from + i - 1, headers[from + i])
  BY <1>1 DEF IsList
<1>3. Len(H) = count
  BY <1>2, Lists
<1> QED BY <1>2, <1>3 DEF H

(* They are a part of those of all headers. *)
LEMMA HashPart ==
    ASSUME NEW headers, NEW from \in Nat, NEW count \in Nat, NEW n \in Nat, from + count <= n
    PROVE  \A i \in 1 .. count :
              HashesOf(headers, from, count)[i] = HashesOf(headers, 0, n)[from + i]
<1>1. SUFFICES ASSUME NEW i \in 1 .. count
      PROVE  HashesOf(headers, from, count)[i] = HashesOf(headers, 0, n)[from + i]
  OBVIOUS
<1>2. HashesOf(headers, from, count)[i] = Leaf(from + i - 1, headers[from + i])
  BY HashList
<1>3. from + i \in 1 .. n /\ 0 + (from + i) - 1 = from + i - 1 /\ 0 + (from + i) = from + i
  OBVIOUS
<1>4. HashesOf(headers, 0, n)[from + i] = Leaf(0 + (from + i) - 1, headers[0 + (from + i)])
  BY <1>3, HashList
<1> QED BY <1>2, <1>3, <1>4

(* They depend on the headers that are hashed only. *)
LEMMA SameHashes ==
    ASSUME NEW g, NEW h, NEW from \in Nat, NEW count \in Nat,
           \A i \in 1 .. from + count : g[i] = h[i]
    PROVE  HashesOf(g, from, count) = HashesOf(h, from, count)
<1>1. \A i \in 1 .. count : from + i \in 1 .. from + count
  OBVIOUS
<1>2. \A i \in 1 .. count : Leaf(from + i - 1, g[from + i]) = Leaf(from + i - 1, h[from + i])
  BY <1>1
<1> QED BY <1>2 DEF HashesOf

(* The same, from the first header on. *)
LEMMA SameFirstHashes ==
    ASSUME NEW g, NEW h, NEW count \in Nat, \A i \in 1 .. count : g[i] = h[i]
    PROVE  HashesOf(g, 0, count) = HashesOf(h, 0, count)
<1>1. 0 \in Nat /\ \A i \in 1 .. 0 + count : g[i] = h[i]
  OBVIOUS
<1>2. \A from \in Nat : (\A i \in 1 .. from + count : g[i] = h[i])
                            => HashesOf(g, from, count) = HashesOf(h, from, count)
  BY SameHashes
<1> QED BY <1>1, <1>2

(* The row of segments, in both ways of saying it. *)
LEMMA RowsOfSegments ==
    ASSUME NEW headers, NEW n \in Nat, NEW d \in Nat, NEW lv
    PROVE  IsRow(lv, HashesOf(headers, 0, n), d) <=>
              lv = [k \in 1 .. (n + Pow2[d] - 1) \div Pow2[d] |->
                       Tree(HashesOf(headers, 0, n))[d][(k - 1) * Pow2[d]]]
<1> DEFINE L   == HashesOf(headers, 0, n)
           D   == Pow2[d]
           c   == (n + D - 1) \div D
           row == [k \in 1 .. c |-> Tree(L)[d][(k - 1) * D]]
<1>1. Len(L) = n
  BY HashList
<1>2. D \in Nat /\ D > 0
  BY Power
<1>3. c \in Nat
  BY <1>2, Segments
<1> HIDE DEF L, D, c
<1>4. ASSUME IsRow(lv, L, d) PROVE lv = row
  <2>1. IsList(lv, c)
    BY <1>1, <1>4 DEF IsRow, c, D
  <2>2. Len(lv) = c /\ lv = [k \in 1 .. c |-> lv[k]]
    BY <2>1, Lists DEF IsList
  <2>3. ASSUME NEW k \in 1 .. c PROVE lv[k] = Tree(L)[d][(k - 1) * D]
    <3>1. k - 1 \in Nat /\ k - 1 < c /\ (k - 1) + 1 = k
      BY <1>3
    <3>2. lv[(k - 1) + 1] = Tree(L)[d][(k - 1) * D]
      BY <1>4, <2>2, <3>1 DEF IsRow, D
    <3> QED BY <3>1, <3>2
  <2> QED BY <2>2, <2>3
<1>5. ASSUME lv = row PROVE IsRow(lv, L, d)
  <2>1. IsList(lv, c) /\ \A k \in 1 .. c : lv[k] = Tree(L)[d][(k - 1) * D]
    BY <1>3, <1>5 DEF IsList
  <2> HIDE DEF row
  <2>2. Len(lv) = c
    BY <2>1, Lists
  <2>3. ASSUME NEW q \in Nat, q < c PROVE lv[q + 1] = Tree(L)[d][q * D]
    <3>1. q + 1 \in 1 .. c /\ (q + 1) - 1 = q
      BY <1>3, <2>3
    <3>2. lv[q + 1] = Tree(L)[d][((q + 1) - 1) * D]
      BY <2>1, <3>1
    <3> QED BY <3>1, <3>2
  <2> QED BY <1>1, <2>1, <2>2, <2>3 DEF IsRow, c, D
<1> QED BY <1>4, <1>5 DEF L, D, c

-----------------------------------------------------------------------------
(* Steps of the readers *)

(* g differs from f in the record of r, whose length and index stay. *)
ReaderSet(f, g, r, pc, leaves) ==
    /\ DOMAIN g = Readers
    /\ \A q \in Readers : q # r => g[q] = f[q]
    /\ DOMAIN g[r] = Fields
    /\ g[r].pc = pc
    /\ g[r].length = f[r].length
    /\ g[r].index = f[r].index
    /\ g[r].leaves = leaves

(* A step of a reader that sets its pc only. *)
LEMMA SetPc ==
    ASSUME NEW f, DOMAIN f = Readers, NEW r \in Readers, DOMAIN f[r] = Fields, NEW pc, NEW g,
           g = [f EXCEPT ![r].pc = pc]
    PROVE  ReaderSet(f, g, r, pc, f[r].leaves)
BY DEF ReaderSet, Fields

(* One that sets its result too. *)
LEMMA SetPcAndRet ==
    ASSUME NEW f, DOMAIN f = Readers, NEW r \in Readers, DOMAIN f[r] = Fields, NEW pc, NEW ret, NEW g,
           g = [f EXCEPT ![r].pc = pc, ![r].ret = ret]
    PROVE  ReaderSet(f, g, r, pc, f[r].leaves) /\ g[r].ret = ret
<1>1. DOMAIN g = Readers /\ \A q \in Readers : q # r => g[q] = f[q]
  OBVIOUS
<1>2. g[r] = [f[r] EXCEPT !.pc = pc, !.ret = ret]
  OBVIOUS
<1>3. DOMAIN g[r] = Fields /\ g[r].pc = pc /\ g[r].ret = ret
  BY <1>2 DEF Fields
<1>4. g[r].length = f[r].length /\ g[r].index = f[r].index /\ g[r].leaves = f[r].leaves
  BY <1>2 DEF Fields
<1> QED BY <1>1, <1>3, <1>4 DEF ReaderSet

(* One that sets its leaves too. *)
LEMMA SetPcAndLeaves ==
    ASSUME NEW f, DOMAIN f = Readers, NEW r \in Readers, DOMAIN f[r] = Fields, NEW pc, NEW ls, NEW g,
           g = [f EXCEPT ![r].pc = pc, ![r].leaves = ls]
    PROVE  ReaderSet(f, g, r, pc, ls)
<1>1. DOMAIN g = Readers /\ \A q \in Readers : q # r => g[q] = f[q]
  OBVIOUS
<1>2. g[r] = [f[r] EXCEPT !.pc = pc, !.leaves = ls]
  OBVIOUS
<1>3. DOMAIN g[r] = Fields /\ g[r].pc = pc /\ g[r].leaves = ls
  BY <1>2 DEF Fields
<1>4. g[r].length = f[r].length /\ g[r].index = f[r].index
  BY <1>2 DEF Fields
<1> QED BY <1>1, <1>3, <1>4 DEF ReaderSet

(* A reader that does not move stays right while the headers do. *)
LEMMA ReaderStays ==
    ASSUME NEW q \in Readers, ReaderOK(q), rd'[q] = rd[q],
           db' = db, nRecs' = nRecs, ctl' = ctl,
           cache'.depthHigher = cache.depthHigher, cache'.initialized = cache.initialized,
           rd[q].pc \in InLock => lock' = lock
    PROVE  ReaderOK(q)'
BY DEF ReaderOK, Fetched, segmentLength, leafStart, getHashes

(* A reader that moves leaves the others right, since it is the only one     *)
(* with the lock.                                                            *)
LEMMA ReaderMoves ==
    ASSUME IInv, NEW r \in Readers, NEW pc, NEW leaves, ReaderSet(rd, rd', r, pc, leaves),
           db' = db, nRecs' = nRecs, ctl' = ctl,
           cache'.depthHigher = cache.depthHigher, cache'.initialized = cache.initialized,
           lock' = lock \/ rd[r].pc \in InLock \/ lock = {},
           ReaderOK(r)'
    PROVE  DOMAIN rd' = Readers /\ \A q \in Readers : ReaderOK(q)'
<1>1. DOMAIN rd' = Readers /\ \A q \in Readers : q # r => rd'[q] = rd[q]
  BY DEF ReaderSet
<1>2. ASSUME NEW q \in Readers, q # r PROVE ReaderOK(q)'
  <2>1. ReaderOK(q) /\ ReaderOK(r) /\ rd'[q] = rd[q]
    BY <1>1, <1>2 DEF IInv
  <2>2. rd[q].pc \in InLock => lock' = lock
    <3> SUFFICES ASSUME rd[q].pc \in InLock PROVE lock' = lock
      OBVIOUS
    <3>1. lock = {q}
      BY <2>1 DEF ReaderOK
    <3>2. ~ (rd[r].pc \in InLock)
      BY <1>2, <2>1, <3>1 DEF ReaderOK
    <3> QED BY <3>1, <3>2
  <2> QED BY <2>1, <2>2, ReaderStays
<1> QED BY <1>1, <1>2

(* A step that leaves headers and cache alone keeps them right. *)
LEMMA HeadersAndCacheStay ==
    ASSUME IInv, UNCHANGED <<db, nRecs, undos, ctl, cache>>
    PROVE  HeadersOK' /\ CacheOK'
<1>1. HeadersOK'
  BY DEF IInv, HeadersOK
<1>2. LevelIsRight'
  BY DEF IInv, CacheOK, LevelIsRight, RowOfSegments, getHashes
<1> QED BY <1>1, <1>2 DEF IInv, CacheOK

(* Request keeps the invariant. *)
LEMMA RequestKeeps ==
    ASSUME IInv, NEW r \in Readers, NEW length \in 2 .. nRecs, NEW index \in 0 .. length - 1,
           Request(r, length, index)
    PROVE  IInv'
<1>0. nRecs \in Nat /\ length \in Nat /\ index \in Nat /\ index < length
  BY DEF IInv, HeadersOK
<1>1. HeadersOK' /\ CacheOK'
  BY HeadersAndCacheStay DEF Request
<1> DEFINE k == [Idle EXCEPT !.pc = "ask", !.length = length, !.index = index]
<1>2. rd' = [rd EXCEPT ![r] = k]
  BY DEF Request
<1>3. /\ DOMAIN k = Fields /\ k.pc = "ask" /\ k.length = length /\ k.index = index
  BY DEF Idle, Fields
<1> HIDE DEF k
<1>4. DOMAIN rd = Readers
  BY DEF IInv
<1>5. ReaderOK(r)'
  BY <1>0, <1>2, <1>3, <1>4 DEF ReaderOK, InLock
<1>6. ASSUME NEW q \in Readers, q # r PROVE ReaderOK(q)'
  <2>1. ReaderOK(q) /\ rd'[q] = rd[q]
    BY <1>2, <1>4, <1>6 DEF IInv
  <2> QED BY <2>1, ReaderStays DEF Request
<1> QED BY <1>1, <1>2, <1>4, <1>5, <1>6 DEF IInv

(* Acquire keeps the invariant. *)
LEMMA AcquireKeeps ==
    ASSUME IInv, NEW r \in Readers, Acquire(r)
    PROVE  IInv'
<1>1. HeadersOK' /\ CacheOK'
  BY HeadersAndCacheStay DEF Acquire
<1>2. ReaderOK(r) /\ DOMAIN rd = Readers /\ DOMAIN rd[r] = Fields /\ rd[r].pc = "ask"
  BY DEF IInv, ReaderOK, Acquire
<1>3. CASE cache.initialized /\ lock = {} /\ lock' = {r} /\ Step(r, "extend")
  <2>1. ReaderSet(rd, rd', r, "extend", rd[r].leaves)
    BY <1>2, <1>3, SetPc DEF Step
  <2>2. ReaderOK(r)'
    BY <1>2, <1>3, <2>1 DEF ReaderOK, ReaderSet, InLock, Acquire
  <2>3. DOMAIN rd' = Readers /\ \A q \in Readers : ReaderOK(q)'
    BY <1>3, <2>1, <2>2, ReaderMoves DEF Acquire
  <2> QED BY <1>1, <2>3 DEF IInv
<1>4. CASE ~ cache.initialized /\ Step(r, "failed") /\ UNCHANGED lock
  <2>1. ReaderSet(rd, rd', r, "failed", rd[r].leaves)
    BY <1>2, <1>4, SetPc DEF Step
  <2>2. ReaderOK(r)'
    BY <1>2, <1>4, <2>1 DEF ReaderOK, ReaderSet, InLock, Acquire
  <2>3. DOMAIN rd' = Readers /\ \A q \in Readers : ReaderOK(q)'
    BY <1>4, <2>1, <2>2, ReaderMoves DEF Acquire
  <2> QED BY <1>1, <2>3 DEF IInv
<1> QED BY <1>3, <1>4 DEF Acquire

(* A reader that gives the lock back keeps the invariant. *)
LEMMA LeavingKeeps ==
    ASSUME IInv, NEW r \in Readers, rd[r].pc \in InLock,
           NEW pc \in {"done", "failed"}, NEW leaves, ReaderSet(rd, rd', r, pc, leaves),
           lock' = {}, UNCHANGED <<db, nRecs, undos, ctl, cache>>
    PROVE  IInv'
<1>1. HeadersOK' /\ CacheOK'
  BY HeadersAndCacheStay
<1>2. ReaderOK(r)'
  <2>1. ReaderOK(r)
    BY DEF IInv
  <2> QED BY <2>1 DEF ReaderOK, ReaderSet, InLock
<1>3. DOMAIN rd' = Readers /\ \A q \in Readers : ReaderOK(q)'
  BY <1>2, ReaderMoves
<1> QED BY <1>1, <1>3 DEF IInv

(* Fail does. *)
LEMMA FailKeeps ==
    ASSUME IInv, NEW r \in Readers, rd[r].pc \in InLock, Fail(r),
           UNCHANGED <<db, nRecs, undos, ctl, cache>>
    PROVE  IInv'
<1>1. DOMAIN rd = Readers /\ DOMAIN rd[r] = Fields
  BY DEF IInv, ReaderOK
<1>2. ReaderSet(rd, rd', r, "failed", rd[r].leaves)
  BY <1>1, SetPc DEF Fail
<1> QED BY <1>2, LeavingKeeps DEF Fail

(* The cached level, stated of lists. *)
LEMMA LevelAsRow ==
    ASSUME IInv, cache.initialized
    PROVE  /\ cache.length \in Nat /\ cache.depthHigher \in Nat
           /\ cache.length <= Len(db) /\ Len(db) \in Nat
           /\ IsRow(cache.level, HashesOf(db, 0, cache.length), cache.depthHigher)
<1>1. /\ cache.length \in Nat /\ cache.depthHigher \in Nat /\ cache.length <= Len(db)
      /\ cache.level = RowOfSegments(cache.length, cache.depthHigher)
      /\ Len(db) \in Nat
  BY DEF IInv, CacheOK, HeadersOK, LevelIsRight
<1>2. cache.level = [k \in 1 .. (cache.length + Pow2[cache.depthHigher] - 1) \div Pow2[cache.depthHigher] |->
                       Tree(HashesOf(db, 0, cache.length))[cache.depthHigher][(k - 1) * Pow2[cache.depthHigher]]]
  BY <1>1 DEF RowOfSegments, getHashes, HashesOf
<1> QED BY <1>1, <1>2, RowsOfSegments

(* ... and back, for the next state. *)
LEMMA RowAsLevel ==
    ASSUME NEW l \in Nat, NEW d \in Nat, NEW lv,
           cache'.length = l, cache'.depthHigher = d, cache'.level = lv,
           cache'.initialized => l <= Len(db') /\ IsRow(lv, HashesOf(db', 0, l), d)
    PROVE  LevelIsRight'
<1> SUFFICES ASSUME cache'.initialized
             PROVE  l <= Len(db') /\ lv = RowOfSegments(l, d)'
  BY DEF LevelIsRight
<1>1. lv = [k \in 1 .. (l + Pow2[d] - 1) \div Pow2[d] |->
                 Tree(HashesOf(db', 0, l))[d][(k - 1) * Pow2[d]]]
  BY RowsOfSegments
<1> QED BY <1>1 DEF RowOfSegments, getHashes, HashesOf

CacheFields == {"initialized", "length", "depthHigher", "level"}

(* What leafStart and the number of whole segments below it are. *)
LEMMA WholeSegments ==
    ASSUME NEW x \in Nat, NEW d \in Nat
    PROVE  LET D == Pow2[d]
               u == x \div D
           IN  /\ u \in Nat /\ u * D \in Nat /\ u * D <= x /\ x < u * D + D
               /\ (u * D) \div D = u
<1> DEFINE D == Pow2[d]
           u == x \div D
<1>1. D \in Nat /\ D > 0
  BY Power
<1>2. u \in Nat /\ u * D <= x /\ x < u * D + D
  BY <1>1, Division
<1> HIDE DEF u, D
<1>3. u * D \in Nat
  BY <1>1, <1>2
<1>4. u * D <= u * D /\ u * D < u * D + D
  BY <1>1, <1>3
<1>5. (u * D) \div D = u
  BY <1>1, <1>2, <1>3, <1>4, Quotient
<1> QED BY <1>2, <1>3, <1>5 DEF u, D

(* The level with its last segments computed anew is that of the first l     *)
(* headers, when the others are whole segments below l.                      *)
LEMMA LevelReplaced ==
    ASSUME IInv, cache.initialized, NEW u \in Nat, NEW l \in Nat,
           u <= Len(cache.level), u * segmentLength <= cache.length, u * segmentLength < l
    PROVE  IsRow(SubSeq(cache.level, 1, u)
                     \o levelOf(getHashes(u * segmentLength, l - u * segmentLength), cache.depthHigher),
                 HashesOf(db, 0, l), cache.depthHigher)
<1> DEFINE d  == cache.depthHigher
           D  == Pow2[d]
           S  == u * D
           n  == cache.length
           lv == cache.level
           L  == HashesOf(db, 0, n)
           M  == HashesOf(db, 0, l)
           T  == HashesOf(db, S, l - S)
<1>1. n \in Nat /\ d \in Nat /\ IsRow(lv, L, d)
  BY LevelAsRow
<1>2. D \in Nat
  BY <1>1, Power
<1>3. S \in Nat /\ S <= n /\ S < l /\ l - S \in Nat /\ S + (l - S) <= l
  <2>1. S \in Nat
    BY <1>2
  <2>2. S <= n /\ S < l
    BY DEF segmentLength
  <2> HIDE DEF S, n
  <2> QED BY <1>1, <2>1, <2>2
<1>4. IsList(L, n) /\ IsList(M, l)
  BY <1>1, HashList
<1> HIDE DEF S
<1>5. IsList(T, l - S) /\ \A j \in 1 .. l - S : T[j] = M[S + j]
  <2> DEFINE m == l - S
  <2>1. m \in Nat /\ S + m <= l
    BY <1>3
  <2> HIDE DEF m
  <2>2. IsList(HashesOf(db, S, m), m)
    BY <1>3, <2>1, HashList
  <2>3. \A j \in 1 .. m : HashesOf(db, S, m)[j] = HashesOf(db, 0, l)[S + j]
    BY <1>3, <2>1, HashPart
  <2> QED BY <2>2, <2>3 DEF m
<1>6. \A j \in 1 .. S : L[j] = M[j]
  <2> SUFFICES ASSUME NEW j \in 1 .. S PROVE L[j] = M[j]
    OBVIOUS
  <2>1. j \in 1 .. n /\ j \in 1 .. l
    BY <1>1, <1>3
  <2>2. L[j] = Leaf(0 + j - 1, db[0 + j])
    <3> HIDE DEF n
    <3> QED BY <1>1, <2>1, HashList
  <2>3. M[j] = Leaf(0 + j - 1, db[0 + j])
    BY <2>1, HashList
  <2> QED BY <2>2, <2>3
<1>7. getHashes(u * segmentLength, l - u * segmentLength) = T
  BY DEF getHashes, HashesOf, segmentLength, S
<1> HIDE DEF L, M, T, n, d, lv
<1>8. u <= Len(lv)
  BY DEF lv
<1>9. IsRow(SubSeq(lv, 1, u) \o levelOf(T, d), M, d)
  BY <1>1, <1>3, <1>4, <1>5, <1>6, <1>8, RowExtended DEF S
<1> QED BY <1>7, <1>9 DEF lv, d, M

(* extendTo keeps the invariant. *)
LEMMA ExtendToKeeps ==
    ASSUME IInv, NEW r \in Readers, extendTo(r)
    PROVE  IInv'
<1> DEFINE l == rd[r].length
<1>1. /\ DOMAIN rd = Readers /\ ReaderOK(r) /\ DOMAIN rd[r] = Fields
      /\ rd[r].pc = "extend" /\ rd[r].pc \in InLock
      /\ lock = {r} /\ cache.initialized /\ l \in Nat
      /\ UNCHANGED <<db, nRecs, undos, ctl>>
  BY DEF IInv, ReaderOK, extendTo, InLock
<1>2. ASSUME Step(r, "leaves"), UNCHANGED lock,
             cache'.depthHigher = cache.depthHigher, cache'.initialized = cache.initialized
      PROVE  DOMAIN rd' = Readers /\ \A q \in Readers : ReaderOK(q)'
  <2>1. ReaderSet(rd, rd', r, "leaves", rd[r].leaves)
    BY <1>1, <1>2, SetPc DEF Step
  <2>2. ReaderOK(r)'
    BY <1>1, <1>2, <2>1 DEF ReaderOK, ReaderSet, InLock
  <2> QED BY <1>1, <1>2, <2>1, <2>2, ReaderMoves
<1>3. CASE l <= cache.length /\ Step(r, "leaves") /\ UNCHANGED <<cache, lock>>
  <2>1. HeadersOK' /\ CacheOK'
    BY <1>1, <1>3, HeadersAndCacheStay
  <2>2. DOMAIN rd' = Readers /\ \A q \in Readers : ReaderOK(q)'
    BY <1>2, <1>3
  <2> QED BY <2>1, <2>2 DEF IInv
<1>4. CASE /\ l > cache.length /\ CanExtendTo(l)
           /\ cache' = Extended(l) /\ Step(r, "leaves") /\ UNCHANGED lock
  <2> DEFINE d  == cache.depthHigher
             D  == Pow2[d]
             u  == cache.length \div D
             S  == u * D
             lv == SubSeq(cache.level, 1, u) \o levelOf(getHashes(S, l - S), d)
  <2>1. cache.length \in Nat /\ d \in Nat /\ DOMAIN cache = CacheFields
    BY DEF IInv, CacheOK, CacheFields
  <2>2. u \in Nat /\ S \in Nat /\ S <= cache.length /\ S \div D = u
    BY <2>1, WholeSegments
  <2>3. cache' = [cache EXCEPT !.length = l, !.level = lv]
    BY <1>4, <2>2 DEF Extended, leafStart, segmentLength
  <2>4. l - S > 0 /\ S + (l - S) <= nRecs /\ S + (l - S) <= Len(db) /\ u <= Len(cache.level)
    BY <1>4, <2>2 DEF CanExtendTo, CanGetHashes, leafStart, segmentLength
  <2>5. nRecs \in Nat /\ Len(db) \in Nat
    BY DEF IInv, HeadersOK
  <2>6. S < l /\ l <= nRecs /\ l <= Len(db)
    BY <1>1, <2>2, <2>4, <2>5
  <2>7. /\ u <= Len(cache.level) /\ u * segmentLength <= cache.length /\ u * segmentLength < l
    BY <2>2, <2>4, <2>6 DEF segmentLength
  <2>8. IsRow(SubSeq(cache.level, 1, u)
                   \o levelOf(getHashes(u * segmentLength, l - u * segmentLength), cache.depthHigher),
              HashesOf(db, 0, l), cache.depthHigher)
    BY <1>1, <2>2, <2>7, LevelReplaced
  <2>9. IsRow(lv, HashesOf(db', 0, l), d)
    BY <1>1, <2>8 DEF segmentLength
  <2> HIDE DEF lv, l, u, D
  <2>10. /\ DOMAIN cache' = CacheFields
         /\ cache'.initialized = cache.initialized /\ cache'.depthHigher = d
         /\ cache'.length = l /\ cache'.level = lv
    BY <2>1, <2>3 DEF CacheFields
  <2>11. LevelIsRight'
    BY <1>1, <2>1, <2>6, <2>9, <2>10, RowAsLevel
  <2>12. CacheOK'
    <3>1. cache.initialized \in BOOLEAN
      BY DEF IInv, CacheOK
    <3> QED BY <1>1, <2>1, <2>6, <2>10, <2>11, <3>1 DEF CacheOK, CacheFields
  <2>13. HeadersOK'
    BY <1>1 DEF IInv, HeadersOK
  <2>14. DOMAIN rd' = Readers /\ \A q \in Readers : ReaderOK(q)'
    BY <1>2, <1>4, <2>10
  <2> QED BY <2>12, <2>13, <2>14 DEF IInv
<1>5. CASE l > cache.length /\ ~ CanExtendTo(l) /\ Fail(r) /\ UNCHANGED cache
  BY <1>1, <1>5, FailKeeps
<1> QED BY <1>3, <1>4, <1>5 DEF extendTo

(* The leaves that GetLeaves reads are right when it reads them. *)
LEMMA SegmentOfReader ==
    ASSUME IInv, NEW r \in Readers, rd[r].pc \in InLock
    PROVE  LET S     == leafStart(rd[r].index)
               count == IF segmentLength < rd[r].length - S THEN segmentLength ELSE rd[r].length - S
           IN  /\ S \in Nat /\ count \in Nat /\ S + count <= rd[r].length
               /\ S <= rd[r].index /\ rd[r].index < S + segmentLength
               /\ segmentLength \in Nat /\ segmentLength > 0
               /\ rd[r].length \in Nat /\ rd[r].index \in Nat /\ rd[r].index < rd[r].length
               /\ cache.depthHigher \in Nat /\ cache.initialized
               /\ IsSegment(HashesOf(db, S, count), HashesOf(db, 0, rd[r].length), S, segmentLength)
<1> DEFINE D     == segmentLength
           l     == rd[r].length
           index == rd[r].index
           S     == leafStart(index)
           count == IF D < l - S THEN D ELSE l - S
           A     == HashesOf(db, S, count)
           L     == HashesOf(db, 0, l)
<1>1. l \in Nat /\ index \in Nat /\ index < l /\ cache.depthHigher \in Nat /\ cache.initialized
  BY DEF IInv, ReaderOK, CacheOK
<1>2. D \in Nat /\ D > 0
  BY <1>1, Power DEF segmentLength
<1>3. S \in Nat /\ S <= index /\ index < S + D
  BY <1>1, WholeSegments DEF leafStart, segmentLength
<1> HIDE DEF D, S, l, index
<1>4. count \in Nat /\ S + count <= l
  BY <1>1, <1>2, <1>3
<1>5. Len(A) = count /\ IsList(A, count)
  BY <1>3, <1>4, HashList
<1>6. Len(L) = l
  BY <1>1, HashList
<1>7. \A i \in 1 .. count : A[i] = L[S + i]
  <2> HIDE DEF count
  <2> QED BY <1>1, <1>3, <1>4, HashPart
<1> HIDE DEF A, L
<1>8. ASSUME NEW j \in Nat PROVE j < count <=> j < D /\ S + j < l
  BY <1>1, <1>2, <1>3
<1>9. ASSUME NEW j \in Nat, j < count PROVE A[j + 1] = L[S + j + 1]
  <2> HIDE DEF count
  <2>1. j + 1 \in 1 .. count /\ S + (j + 1) = S + j + 1
    BY <1>3, <1>4, <1>9
  <2> QED BY <1>7, <2>1
<1>10. IsSegment(A, L, S, D)
  BY <1>5, <1>6, <1>8, <1>9 DEF IsSegment
<1> QED BY <1>1, <1>2, <1>3, <1>4, <1>10 DEF D, S, l, index, A, L

(* GetLeaves keeps the invariant. *)
LEMMA GetLeavesKeeps ==
    ASSUME IInv, NEW r \in Readers, GetLeaves(r)
    PROVE  IInv'
<1> DEFINE S     == leafStart(rd[r].index)
           count == IF segmentLength < rd[r].length - S THEN segmentLength ELSE rd[r].length - S
           got   == getHashes(S, count)
<1>1. /\ DOMAIN rd = Readers /\ ReaderOK(r) /\ DOMAIN rd[r] = Fields
      /\ rd[r].pc = "leaves" /\ rd[r].pc \in InLock
      /\ UNCHANGED <<db, nRecs, undos, ctl, cache>>
  BY DEF IInv, ReaderOK, GetLeaves, InLock
<1>2. CASE ~ CanGetHashes(S, count) /\ Fail(r)
  BY <1>1, <1>2, FailKeeps
<1>3. CASE /\ rd' = [rd EXCEPT ![r].pc = "done", ![r].ret = branchAndRoot(got, rd[r].index)]
           /\ lock' = {}
  <2> DEFINE ret == branchAndRoot(got, rd[r].index)
  <2> HIDE DEF ret
  <2>1. rd' = [rd EXCEPT ![r].pc = "done", ![r].ret = ret]
    BY <1>3 DEF ret
  <2>2. DOMAIN rd = Readers /\ DOMAIN rd[r] = Fields
    BY <1>1
  <2>3. ReaderSet(rd, rd', r, "done", rd[r].leaves)
    BY <2>1, <2>2, SetPcAndRet
  <2> QED BY <1>1, <1>3, <2>3, LeavingKeeps
<1>4. CASE /\ CanGetHashes(S, count) /\ ~ (rd[r].length < segmentLength)
           /\ rd' = [rd EXCEPT ![r].pc = "level", ![r].leaves = got]
           /\ UNCHANGED lock
  <2>1. ReaderSet(rd, rd', r, "level", got)
    <3> HIDE DEF got
    <3> QED BY <1>1, <1>4, SetPcAndLeaves
  <2>2. /\ segmentLength \in Nat /\ rd[r].length \in Nat
        /\ S \in Nat /\ count \in Nat
    BY <1>1, SegmentOfReader
  <2>3. S + count <= nRecs /\ S + count <= Len(db) /\ segmentLength <= rd[r].length
    BY <1>4, <2>2 DEF CanGetHashes
  <2>4. Fetched(r)'
    BY <1>1, <2>1, <2>3 DEF Fetched, ReaderSet, leafStart, segmentLength, getHashes
  <2>5. ReaderOK(r)'
    BY <1>1, <1>4, <2>1, <2>4 DEF ReaderOK, ReaderSet, InLock
  <2>6. DOMAIN rd' = Readers /\ \A q \in Readers : ReaderOK(q)'
    BY <1>1, <1>4, <2>1, <2>5, ReaderMoves
  <2>7. HeadersOK' /\ CacheOK'
    BY <1>1, HeadersAndCacheStay
  <2> QED BY <2>6, <2>7 DEF IInv
<1> QED BY <1>2, <1>3, <1>4 DEF GetLeaves

(* AnswerFrom keeps the invariant. *)
LEMMA AnswerFromKeeps ==
    ASSUME IInv, NEW r \in Readers, rd[r].pc \in InLock, NEW level, AnswerFrom(r, level),
           UNCHANGED <<db, nRecs, undos, ctl, cache>>
    PROVE  IInv'
<1> DEFINE ret == branchAndRootFromLevel(level, rd[r].leaves, rd[r].index, cache.depthHigher)
           pc  == IF ret = Inconsistent THEN "failed" ELSE "done"
<1>1. DOMAIN rd = Readers /\ DOMAIN rd[r] = Fields
  BY DEF IInv, ReaderOK
<1>2. rd' = [rd EXCEPT ![r].pc = pc, ![r].ret = ret] /\ lock' = {}
  BY DEF AnswerFrom
<1>3. pc \in {"done", "failed"}
  OBVIOUS
<1> HIDE DEF ret, pc
<1>4. ReaderSet(rd, rd', r, pc, rd[r].leaves)
  BY <1>1, <1>2, SetPcAndRet
<1> QED BY <1>2, <1>3, <1>4, LeavingKeeps

(* levelFor keeps the invariant. *)
LEMMA LevelForKeeps ==
    ASSUME IInv, NEW r \in Readers, levelFor(r)
    PROVE  IInv'
<1>1. rd[r].pc \in InLock /\ UNCHANGED <<db, nRecs, undos, ctl, cache>>
  BY DEF levelFor, InLock
<1>2. Fail(r) \/ \E level : AnswerFrom(r, level)
  BY DEF levelFor
<1> QED BY <1>1, <1>2, FailKeeps, AnswerFromKeeps

-----------------------------------------------------------------------------
(* Steps of the Controller's thread *)

(* The first `kept` headers stay, and those are all, or all that an undo     *)
(* leaves over.                                                              *)
HeadersStay(kept) ==
    /\ kept \in Nat /\ kept <= Len(db') /\ Len(db') \in Nat
    /\ kept = Len(db) \/ (ctl = "truncated" /\ kept = nRecs)
    /\ \A i \in 1 .. kept : db'[i] = db[i]
    /\ ctl' # "truncated"
    /\ UNCHANGED <<cache, lock>>

(* The readers do not notice. *)
LEMMA ReadersDoNotNotice ==
    ASSUME IInv, NEW kept, HeadersStay(kept), DOMAIN rd' = Readers,
           \A q \in Readers : /\ DOMAIN rd'[q] = Fields
                              /\ rd'[q].pc = rd[q].pc /\ rd'[q].length = rd[q].length
                              /\ rd'[q].index = rd[q].index /\ rd'[q].leaves = rd[q].leaves
    PROVE  \A q \in Readers : ReaderOK(q)'
<1> SUFFICES ASSUME NEW q \in Readers PROVE ReaderOK(q)'
  OBVIOUS
<1>1. ReaderOK(q) /\ cache' = cache /\ lock' = lock
  BY DEF IInv, HeadersStay
<1>2. ASSUME rd[q].pc = "level" PROVE Fetched(q)'
  <2> DEFINE S     == leafStart(rd[q].index)
             count == IF segmentLength < rd[q].length - S THEN segmentLength ELSE rd[q].length - S
  <2>1. S \in Nat /\ count \in Nat
    BY <1>2, SegmentOfReader DEF InLock
  <2>2. /\ segmentLength <= rd[q].length
        /\ S + count <= Len(db)
        /\ ctl = "truncated" => S + count <= nRecs
        /\ rd[q].leaves = HashesOf(db, S, count)
    BY <1>1, <1>2 DEF ReaderOK, Fetched, getHashes, HashesOf
  <2>3. /\ kept \in Nat /\ kept <= Len(db') /\ Len(db') \in Nat
        /\ kept = Len(db) \/ (ctl = "truncated" /\ kept = nRecs)
        /\ \A i \in 1 .. kept : db'[i] = db[i]
        /\ ctl' # "truncated"
    BY DEF HeadersStay
  <2>4. S' = S /\ count' = count /\ segmentLength' = segmentLength
    BY <1>1 DEF leafStart, segmentLength
  <2> HIDE DEF S, count
  <2>5. S + count <= kept
    BY <2>2, <2>3
  <2>6. HashesOf(db', S, count) = HashesOf(db, S, count)
    <3>1. \A i \in 1 .. S + count : db'[i] = db[i]
      BY <2>1, <2>3, <2>5
    <3> QED BY <2>1, <3>1, SameHashes
  <2>7. S + count <= Len(db')
    BY <2>1, <2>3, <2>5
  <2>8. rd'[q].leaves = HashesOf(db', S, count)
    BY <2>2, <2>6
  <2> QED BY <1>1, <2>2, <2>3, <2>4, <2>7, <2>8 DEF Fetched, S, count, getHashes, HashesOf
<1> QED BY <1>1, <1>2 DEF ReaderOK

(* The cached level stays right. *)
LEMMA LevelStaysRight ==
    ASSUME IInv, NEW kept, HeadersStay(kept), cache.initialized => cache.length <= kept
    PROVE  LevelIsRight'
<1> DEFINE l == cache.length
           d == cache.depthHigher
<1>1. l \in Nat /\ d \in Nat /\ cache' = cache
  BY DEF IInv, CacheOK, HeadersStay
<1>2. ASSUME cache.initialized
      PROVE  l <= Len(db') /\ IsRow(cache.level, HashesOf(db', 0, l), d)
  <2>1. IsRow(cache.level, HashesOf(db, 0, l), d)
    BY <1>2, LevelAsRow
  <2>2. kept \in Nat /\ kept <= Len(db') /\ Len(db') \in Nat /\ l <= kept
    BY <1>2 DEF HeadersStay
  <2>3. \A i \in 1 .. l : db'[i] = db[i]
    BY <1>1, <2>2 DEF HeadersStay
  <2>4. HashesOf(db', 0, l) = HashesOf(db, 0, l)
    <3> HIDE DEF l
    <3> QED BY <1>1, <2>3, SameFirstHashes
  <2> QED BY <1>1, <2>1, <2>2, <2>4
<1> QED BY <1>1, <1>2, RowAsLevel

(* When no reader has the lock, only the headers and the cache matter. *)
LEMMA NoReaderInLock ==
    ASSUME IInv, UNCHANGED rd, cache.initialized => lock = {}
    PROVE  DOMAIN rd' = Readers /\ \A q \in Readers : ReaderOK(q)'
<1>1. ASSUME NEW q \in Readers PROVE rd[q].pc \notin InLock
  BY DEF IInv, ReaderOK
<1>2. ASSUME NEW q \in Readers PROVE ReaderOK(q)'
  <2>1. ReaderOK(q)
    BY DEF IInv
  <2> QED BY <1>1, <2>1 DEF ReaderOK, InLock
<1> QED BY <1>2 DEF IInv

(* appendHeader keeps the invariant. *)
LEMMA AppendHeaderKeeps ==
    ASSUME IInv, appendHeader
    PROVE  IInv'
<1>1. HeadersOK /\ CacheOK /\ DOMAIN rd = Readers /\ rd' = rd
  BY DEF IInv, appendHeader
<1>2. HeadersOK'
  BY <1>1 DEF HeadersOK, appendHeader
<1>3. HeadersStay(Len(db))
  BY <1>1 DEF HeadersStay, HeadersOK, appendHeader
<1>4. LevelIsRight'
  BY <1>1, <1>3, LevelStaysRight DEF CacheOK, HeadersOK, appendHeader
<1>5. CacheOK'
  BY <1>1, <1>4 DEF CacheOK, HeadersOK, appendHeader
<1>6. \A q \in Readers : ReaderOK(q)'
  BY <1>1, <1>3, ReadersDoNotNotice DEF IInv, ReaderOK
<1> QED BY <1>1, <1>2, <1>5, <1>6 DEF IInv

(* WriteAdd keeps the invariant. *)
LEMMA WriteAddKeeps ==
    ASSUME IInv, WriteAdd
    PROVE  IInv'
<1>1. HeadersOK /\ CacheOK /\ DOMAIN rd = Readers /\ rd' = rd
  BY DEF IInv, WriteAdd
<1>2. db' \in Seq(Nat) /\ Len(db') = Len(db) + 1 /\ \A i \in 1 .. Len(db) : db'[i] = db[i]
  BY <1>1, AppendProperties DEF HeadersOK, WriteAdd
<1>3. Len(db) \in Nat
  BY <1>1 DEF HeadersOK
<1>4. HeadersOK'
  BY <1>1, <1>2 DEF HeadersOK, WriteAdd
<1>5. HeadersStay(Len(db))
  BY <1>2, <1>3 DEF HeadersStay, WriteAdd
<1>6. LevelIsRight'
  BY <1>1, <1>5, LevelStaysRight DEF CacheOK, LevelIsRight
<1>7. CacheOK'
  BY <1>1, <1>6 DEF CacheOK, WriteAdd
<1>8. \A q \in Readers : ReaderOK(q)'
  BY <1>1, <1>5, ReadersDoNotNotice DEF IInv, ReaderOK
<1> QED BY <1>1, <1>4, <1>7, <1>8 DEF IInv

(* deleteHeadersPastHeight keeps the invariant. *)
LEMMA DeleteHeadersKeeps ==
    ASSUME IInv, deleteHeadersPastHeight
    PROVE  IInv'
<1>1. HeadersOK /\ CacheOK /\ DOMAIN rd = Readers
  BY DEF IInv
<1>2. HeadersOK'
  BY <1>1 DEF HeadersOK, deleteHeadersPastHeight
<1>3. HeadersStay(Len(db))
  BY <1>1 DEF HeadersStay, HeadersOK, deleteHeadersPastHeight
<1>4. LevelIsRight'
  BY <1>1, <1>3, LevelStaysRight DEF CacheOK, LevelIsRight
<1>5. CacheOK'
  BY <1>1, <1>4 DEF CacheOK, deleteHeadersPastHeight
<1>6. rd' = [r \in Readers |-> [rd[r] EXCEPT !.reorg = TRUE]]
  BY DEF deleteHeadersPastHeight
<1>7. ASSUME NEW q \in Readers
      PROVE  /\ DOMAIN rd'[q] = Fields
             /\ rd'[q].pc = rd[q].pc /\ rd'[q].length = rd[q].length
             /\ rd'[q].index = rd[q].index /\ rd'[q].leaves = rd[q].leaves
  <2>1. DOMAIN rd[q] = Fields
    BY DEF IInv, ReaderOK
  <2>2. rd'[q] = [rd[q] EXCEPT !.reorg = TRUE]
    BY <1>6
  <2> QED BY <2>1, <2>2 DEF Fields
<1>8. \A q \in Readers : ReaderOK(q)'
  BY <1>3, <1>6, <1>7, ReadersDoNotNotice
<1> QED BY <1>2, <1>5, <1>6, <1>8 DEF IInv

(* truncate keeps the invariant. *)
LEMMA TruncateKeeps ==
    ASSUME IInv, truncate
    PROVE  IInv'
<1>1. HeadersOK /\ CacheOK /\ ctl' = "truncated" /\ UNCHANGED <<db, nRecs, undos, lock, rd>>
  BY DEF IInv, truncate
<1>2. HeadersOK'
  BY <1>1 DEF HeadersOK, truncate
<1>3. DOMAIN rd' = Readers /\ \A q \in Readers : ReaderOK(q)'
  BY <1>1, NoReaderInLock DEF truncate
<1>4. CASE ~ cache.initialized \/ cache.length <= nRecs
  <2>1. cache' = cache
    BY <1>4 DEF truncate
  <2>2. LevelIsRight'
    BY <1>1, <2>1 DEF CacheOK, LevelIsRight, RowOfSegments, getHashes
  <2>3. CacheOK'
    BY <1>1, <1>4, <2>1, <2>2 DEF CacheOK
  <2> QED BY <1>2, <1>3, <2>3 DEF IInv
<1>5. CASE cache.initialized /\ ~ (cache.length <= nRecs)
  <2> DEFINE d  == cache.depthHigher
             D  == Pow2[d]
             u  == nRecs \div D
             S  == u * D
             lv == SubSeq(cache.level, 1, u)
             n  == cache.length
             L  == HashesOf(db, 0, n)
             M  == HashesOf(db, 0, S)
  <2>1. cache' = [cache EXCEPT !.length = S, !.level = lv]
    BY <1>5 DEF truncate, leafStart, segmentLength
  <2>2. /\ cache.length \in Nat /\ d \in Nat /\ cache.length <= Len(db) /\ Len(db) \in Nat
        /\ IsRow(cache.level, L, d)
    BY <1>5, LevelAsRow
  <2>3. nRecs \in Nat /\ DOMAIN cache = CacheFields /\ cache.initialized \in BOOLEAN
    BY <1>1 DEF HeadersOK, CacheOK, CacheFields
  <2>4. u \in Nat /\ S \in Nat /\ S <= nRecs
    BY <2>2, <2>3, WholeSegments
  <2> HIDE DEF u, D
  <2>5. S <= cache.length /\ S <= Len(db)
    BY <1>5, <2>2, <2>3, <2>4
  <2>6. IsRow(lv, M, d)
    <3>0. n \in Nat /\ S <= n /\ IsRow(cache.level, L, d)
      BY <2>2, <2>5
    <3> HIDE DEF S, n
    <3>1. IsList(L, n) /\ \A i \in 1 .. n : L[i] = Leaf(0 + i - 1, db[0 + i])
      BY <3>0, HashList
    <3>2. IsList(M, S) /\ \A i \in 1 .. S : M[i] = Leaf(0 + i - 1, db[0 + i])
      <4>1. 0 \in Nat /\ S \in Nat
        BY <2>4
      <4> QED BY <4>1, HashList
    <3>3. \A j \in 1 .. S : L[j] = M[j]
      BY <2>4, <3>0, <3>1, <3>2
    <3> HIDE DEF L, M, d
    <3> QED BY <2>2, <2>4, <3>0, <3>1, <3>2, <3>3, RowTruncated DEF S, D
  <2> HIDE DEF lv, S, d
  <2>7. /\ DOMAIN cache' = CacheFields
        /\ cache'.initialized = cache.initialized /\ cache'.depthHigher = d
        /\ cache'.length = S /\ cache'.level = lv
    BY <2>1, <2>3 DEF CacheFields, d
  <2>8. LevelIsRight'
    BY <1>1, <2>2, <2>4, <2>5, <2>6, <2>7, RowAsLevel
  <2>9. CacheOK'
    BY <1>1, <2>2, <2>3, <2>4, <2>7, <2>8 DEF CacheOK, CacheFields
  <2> QED BY <1>2, <1>3, <2>9 DEF IInv
<1> QED BY <1>4, <1>5

(* WriteUndo keeps the invariant. *)
LEMMA WriteUndoKeeps ==
    ASSUME IInv, WriteUndo
    PROVE  IInv'
<1>1. HeadersOK /\ CacheOK /\ DOMAIN rd = Readers /\ rd' = rd /\ nRecs' = nRecs
  BY DEF IInv, WriteUndo
<1>2. db \in Seq(Nat) /\ nRecs \in Nat /\ nRecs = Len(db) - 1 /\ Len(db) \in Nat
  BY <1>1 DEF HeadersOK, WriteUndo
<1>3. db' \in Seq(Nat) /\ Len(db') = nRecs /\ \A i \in 1 .. nRecs : db'[i] = db[i]
  <2>1. \A i \in 1 .. nRecs : db[i] \in Nat
    BY <1>2
  <2>2. /\ SubSeq(db, 1, nRecs) \in Seq(Nat)
        /\ Len(SubSeq(db, 1, nRecs)) = IF 1 <= nRecs THEN nRecs - 1 + 1 ELSE 0
        /\ \A i \in 1 .. nRecs - 1 + 1 : SubSeq(db, 1, nRecs)[i] = db[1 + i - 1]
    BY <1>2, <2>1, SubSeqProperties
  <2> QED BY <1>2, <2>2 DEF WriteUndo
<1>4. HeadersOK'
  BY <1>1, <1>3 DEF HeadersOK, WriteUndo
<1>5. HeadersStay(nRecs)
  BY <1>2, <1>3 DEF HeadersStay, WriteUndo
<1>6. LevelIsRight'
  BY <1>1, <1>5, LevelStaysRight DEF CacheOK, WriteUndo
<1>7. CacheOK'
  BY <1>1, <1>6 DEF CacheOK, WriteUndo
<1>8. \A q \in Readers : ReaderOK(q)'
  BY <1>1, <1>5, ReadersDoNotNotice DEF IInv, ReaderOK
<1> QED BY <1>1, <1>4, <1>7, <1>8 DEF IInv

(* A cache made from all headers is right. *)
LEMMA InitializedCache ==
    ASSUME NEW n \in Nat, n > 0, NEW headers, Len(headers) \in Nat, n <= Len(headers)
    PROVE  LET d == treeDepth(n) \div 2
           IN  /\ d \in Nat
               /\ IsRow(levelOf(HashesOf(headers, 0, n), d), HashesOf(headers, 0, n), d)
<1> DEFINE d == treeDepth(n) \div 2
           L == HashesOf(headers, 0, n)
<1>1. branchLength(n) \in Nat
  BY BranchLength
<1>2. d \in Nat
  BY <1>1 DEF treeDepth
<1>3. IsList(L, n)
  BY HashList
<1> HIDE DEF d, L
<1>4. IsRow(levelOf(L, d), L, d)
  BY <1>2, <1>3, LevelOfIsRow
<1> QED BY <1>2, <1>4 DEF d, L

(* updateMerkleCache keeps the invariant. *)
LEMMA UpdateMerkleCacheKeeps ==
    ASSUME IInv, updateMerkleCache
    PROVE  IInv'
<1>1. /\ HeadersOK /\ UNCHANGED <<db, nRecs, undos, ctl, lock, rd>>
      /\ nRecs \in Nat /\ nRecs > 0 /\ nRecs = Len(db) /\ Len(db) \in Nat
  BY DEF IInv, HeadersOK, updateMerkleCache
<1>2. HeadersOK'
  BY <1>1 DEF HeadersOK
<1>3. DOMAIN rd' = Readers /\ \A q \in Readers : ReaderOK(q)'
  BY <1>1, NoReaderInLock DEF updateMerkleCache
<1> DEFINE d  == treeDepth(nRecs) \div 2
           L  == HashesOf(db, 0, nRecs)
           lv == levelOf(L, d)
<1>4. d \in Nat /\ IsRow(lv, L, d)
  BY <1>1, InitializedCache
<1>5. cache' = [initialized |-> TRUE, length |-> nRecs, depthHigher |-> d, level |-> lv]
  BY DEF updateMerkleCache, initialize_nolock, getHashes, HashesOf
<1> HIDE DEF d, lv
<1>6. LevelIsRight'
  BY <1>1, <1>4, <1>5, RowAsLevel
<1>7. CacheOK'
  BY <1>1, <1>4, <1>5, <1>6 DEF CacheOK
<1> QED BY <1>2, <1>3, <1>7 DEF IInv

-----------------------------------------------------------------------------
(* The theorems *)

(* The invariant holds at startup. *)
LEMMA InitIInv ==
    ASSUME Init
    PROVE  IInv
<1>1. nRecs \in Nat /\ db \in Seq(Nat) /\ Len(db) = nRecs
  <2>1. nRecs \in Nat /\ db = [i \in 1 .. nRecs |-> 0]
    BY MerkleConstants DEF Init
  <2>2. db \in [1 .. nRecs -> Nat]
    BY <2>1
  <2>3. db \in Seq(Nat)
    BY <2>1, <2>2, SeqDef
  <2> QED BY <2>1, <2>2, <2>3, LenProperties
<1>2. HeadersOK
  BY <1>1 DEF Init, HeadersOK
<1>3. CacheOK
  <2>1. CASE nRecs > 0
    <3> DEFINE d  == treeDepth(nRecs) \div 2
               L  == HashesOf(db, 0, nRecs)
               lv == levelOf(L, d)
    <3>1. d \in Nat /\ IsRow(lv, L, d)
      BY <1>1, <2>1, InitializedCache
    <3>2. cache = [initialized |-> TRUE, length |-> nRecs, depthHigher |-> d, level |-> lv]
      BY <2>1 DEF Init, initialize_nolock, getHashes, HashesOf
    <3> HIDE DEF d, lv
    <3>3. lv = [k \in 1 .. (nRecs + Pow2[d] - 1) \div Pow2[d] |-> Tree(L)[d][(k - 1) * Pow2[d]]]
      BY <1>1, <3>1, RowsOfSegments
    <3>4. LevelIsRight
      BY <1>1, <3>2, <3>3 DEF LevelIsRight, RowOfSegments, getHashes, HashesOf
    <3> QED BY <1>1, <3>1, <3>2, <3>4 DEF CacheOK
  <2>2. CASE ~ (nRecs > 0)
    BY <2>2 DEF Init, CacheOK, NoCache, LevelIsRight
  <2> QED BY <2>1, <2>2
<1>4. ASSUME NEW r \in Readers PROVE ReaderOK(r)
  BY DEF Init, ReaderOK, Idle, Fields, InLock
<1> QED BY <1>2, <1>3, <1>4 DEF IInv, Init

(* Every step keeps it. *)
LEMMA NextIInv ==
    ASSUME IInv, [Next]_vars
    PROVE  IInv'
<1>1. ASSUME NEW r \in Readers,
             \/ \E length \in 2 .. nRecs : \E index \in 0 .. length - 1 : Request(r, length, index)
             \/ Acquire(r) \/ extendTo(r) \/ GetLeaves(r) \/ levelFor(r)
      PROVE  IInv'
  <2>1. CASE \E length \in 2 .. nRecs : \E index \in 0 .. length - 1 : Request(r, length, index)
    BY <2>1, RequestKeeps
  <2> QED BY <1>1, <2>1, AcquireKeeps, ExtendToKeeps, GetLeavesKeeps, LevelForKeeps
<1>2. CASE UNCHANGED vars
  <2>1. UNCHANGED <<db, nRecs, undos, ctl, cache, lock, rd>>
    BY <1>2 DEF vars
  <2>2. HeadersOK' /\ CacheOK'
    BY <2>1, HeadersAndCacheStay
  <2>3. ASSUME NEW q \in Readers PROVE ReaderOK(q)'
    BY <2>1, ReaderStays DEF IInv
  <2> QED BY <2>1, <2>2, <2>3 DEF IInv
<1> QED
  BY <1>1, <1>2, AppendHeaderKeeps, WriteAddKeeps, DeleteHeadersKeeps, TruncateKeeps,
     WriteUndoKeeps, UpdateMerkleCacheKeeps DEF Next

(* The cached level is the row of the merkle tree over the first `length`    *)
(* headers of the database, however client calls, new blocks and reorgs      *)
(* interleave (Merkle::Cache::extendTo, truncate, initialize_nolock).        *)
THEOREM SpecLevelIsRight == Spec => []LevelIsRight
<1>1. Init => IInv
  BY InitIInv
<1>2. IInv /\ [Next]_vars => IInv'
  BY NextIInv
<1>3. IInv => LevelIsRight
  BY DEF IInv, CacheOK
<1> QED BY <1>1, <1>2, <1>3, PTL DEF Spec

(* What a reader may answer with: a proof of its header in the tree over the *)
(* first headers of the database.                                            *)
RightAnswer(r) ==
    LET n     == rd[r].length
        index == rd[r].index
        ret   == rd'[r].ret
    IN  /\ n <= Len(db)
        /\ ret.root = RootOf(getHashes(0, n))
        /\ RootFromBranch(Leaf(index, db[index + 1]), index, ret.branch) = ret.root

(* A proof over the hashes of the headers is a right answer. *)
LEMMA ProofIsRightAnswer ==
    ASSUME NEW r \in Readers, NEW n \in Nat, NEW index \in Nat, index < n, NEW ret,
           rd[r].length = n, rd[r].index = index, rd'[r].ret = ret,
           n <= Len(db), IsProof(HashesOf(db, 0, n), index, ret)
    PROVE  RightAnswer(r)
<1> DEFINE L == HashesOf(db, 0, n)
<1>1. ret.root = RootOf(L) /\ RootFromBranch(L[index + 1], index, ret.branch) = ret.root
  BY DEF IsProof
<1>2. L[index + 1] = Leaf(index, db[index + 1])
  <2>1. index + 1 \in 1 .. n /\ 0 + (index + 1) - 1 = index /\ 0 + (index + 1) = index + 1
    OBVIOUS
  <2>2. L[index + 1] = Leaf(0 + (index + 1) - 1, db[0 + (index + 1)])
    BY <2>1, HashList
  <2> QED BY <2>1, <2>2
<1>3. getHashes(0, n) = L
  BY DEF getHashes, HashesOf
<1> HIDE DEF L
<1> QED BY <1>1, <1>2, <1>3 DEF RightAnswer

(* An answer from the leaves alone is right. *)
LEMMA GetLeavesAnswersRight ==
    ASSUME IInv, NEW r \in Readers, GetLeaves(r), rd'[r].pc = "done"
    PROVE  RightAnswer(r)
<1> DEFINE D     == segmentLength
           l     == rd[r].length
           index == rd[r].index
           S     == leafStart(index)
           count == IF D < l - S THEN D ELSE l - S
           ret   == branchAndRoot(getHashes(S, count), index)
<1>1. DOMAIN rd = Readers /\ DOMAIN rd[r] = Fields /\ rd[r].pc = "leaves" /\ rd[r].pc \in InLock
  BY DEF IInv, ReaderOK, GetLeaves, InLock
<1>2. /\ S \in Nat /\ S <= index /\ index < S + D /\ D \in Nat /\ D > 0
      /\ l \in Nat /\ index \in Nat /\ index < l /\ cache.depthHigher \in Nat
  BY <1>1, SegmentOfReader
<1>3. /\ CanGetHashes(S, count) /\ l < D
      /\ rd' = [rd EXCEPT ![r].pc = "done", ![r].ret = ret]
  <2>1. ~ Fail(r)
    BY <1>1 DEF Fail, Fields
  <2>2. ASSUME rd' = [rd EXCEPT ![r].pc = "level", ![r].leaves = getHashes(S, count)] PROVE FALSE
    <3> DEFINE got == getHashes(S, count)
    <3> HIDE DEF got
    <3>1. ReaderSet(rd, rd', r, "level", got)
      BY <1>1, <2>2, SetPcAndLeaves DEF got
    <3> QED BY <3>1 DEF ReaderSet
  <2> QED BY <2>1, <2>2 DEF GetLeaves
<1>4. S = 0
  <2>1. 0 * D <= index /\ index < 0 * D + D
    BY <1>2, <1>3
  <2>2. index \div D = 0
    BY <1>2, <2>1, Quotient
  <2> QED BY <1>2, <2>2 DEF leafStart
<1>5. count = l
  BY <1>2, <1>3, <1>4
<1>6. ret = branchAndRoot(HashesOf(db, 0, l), index)
  BY <1>4, <1>5 DEF getHashes, HashesOf
<1>7. l <= Len(db)
  BY <1>2, <1>3, <1>4, <1>5 DEF CanGetHashes
<1> HIDE DEF ret
<1>8. rd'[r].ret = ret
  BY <1>1, <1>3, SetPcAndRet
<1>9. IsProof(HashesOf(db, 0, l), index, ret)
  <2>1. IsList(HashesOf(db, 0, l), l)
    BY <1>2, HashList
  <2> HIDE DEF l, index
  <2> QED BY <1>2, <1>6, <2>1, BranchAndRootIsProof
<1> QED BY <1>2, <1>7, <1>8, <1>9, ProofIsRightAnswer

(* An answer from a right level is right. *)
LEMMA AnswerFromRowIsRight ==
    ASSUME IInv, NEW r \in Readers, rd[r].pc = "level", NEW level, AnswerFrom(r, level),
           rd[r].length <= Len(db),
           IsRow(level, HashesOf(db, 0, rd[r].length), cache.depthHigher), rd'[r].pc = "done"
    PROVE  RightAnswer(r)
<1> DEFINE l     == rd[r].length
           index == rd[r].index
           d     == cache.depthHigher
           D     == Pow2[d]
           L     == HashesOf(db, 0, l)
           A     == rd[r].leaves
           ret   == branchAndRootFromLevel(level, A, index, d)
           pc    == IF ret = Inconsistent THEN "failed" ELSE "done"
<1>1. DOMAIN rd = Readers /\ DOMAIN rd[r] = Fields /\ rd[r].pc \in InLock /\ Fetched(r)
  BY DEF IInv, ReaderOK, InLock
<1>2. /\ l \in Nat /\ index \in Nat /\ index < l /\ d \in Nat
  BY <1>1, SegmentOfReader
<1>3. IsSegment(A, L, (index \div D) * D, D)
  <2> DEFINE S     == leafStart(index)
             count == IF segmentLength < l - S THEN segmentLength ELSE l - S
  <2>1. IsSegment(HashesOf(db, S, count), L, S, segmentLength)
    BY <1>1, SegmentOfReader
  <2>2. A = HashesOf(db, S, count)
    BY <1>1 DEF Fetched, getHashes, HashesOf
  <2> QED BY <2>1, <2>2 DEF leafStart, segmentLength
<1>4. D <= l
  BY <1>1 DEF Fetched, segmentLength
<1>5. rd' = [rd EXCEPT ![r].pc = pc, ![r].ret = ret]
  BY DEF AnswerFrom
<1>6. pc = "done" /\ rd'[r].ret = ret
  <2>1. ASSUME NEW p, NEW x, rd' = [rd EXCEPT ![r].pc = p, ![r].ret = x]
        PROVE  rd'[r].pc = p /\ rd'[r].ret = x
    BY <1>1, <2>1, SetPcAndRet DEF ReaderSet
  <2> HIDE DEF pc, ret
  <2>2. rd'[r].pc = pc /\ rd'[r].ret = ret
    BY <1>5, <2>1
  <2> QED BY <2>2
<1>7. ret # Inconsistent
  BY <1>6
<1>8. IsList(L, l)
  BY <1>2, HashList
<1>9. IsRow(level, L, d)
  OBVIOUS
<1>10. IsProof(L, index, ret)
  <2> HIDE DEF L, l, index, d, A
  <2> QED BY <1>2, <1>3, <1>4, <1>7, <1>8, <1>9, BranchAndRootFromLevelIsProof
<1> HIDE DEF ret
<1> QED BY <1>2, <1>6, <1>10, ProofIsRightAnswer

(* An answer by levelFor is right. *)
LEMMA LevelForAnswersRight ==
    ASSUME IInv, NEW r \in Readers, levelFor(r), rd'[r].pc = "done"
    PROVE  RightAnswer(r)
<1> DEFINE l == rd[r].length
           d == cache.depthHigher
           D == Pow2[d]
           u == l \div D
           S == u * D
           n == cache.length
           new == SubSeq(cache.level, 1, u) \o levelOf(getHashes(S, l - S), d)
<1>1. /\ DOMAIN rd = Readers /\ DOMAIN rd[r] = Fields /\ rd[r].pc = "level" /\ rd[r].pc \in InLock
      /\ cache.initialized /\ l \in Nat
  BY DEF IInv, ReaderOK, levelFor, InLock
<1>2. /\ n \in Nat /\ d \in Nat /\ n <= Len(db) /\ Len(db) \in Nat
      /\ IsRow(cache.level, HashesOf(db, 0, n), d)
  BY <1>1, LevelAsRow
<1>3. ~ Fail(r)
  BY <1>1 DEF Fail, Fields
<1>4. CASE l = n /\ AnswerFrom(r, cache.level)
  BY <1>1, <1>2, <1>4, AnswerFromRowIsRight
<1>5. CASE u < Len(cache.level) /\ CanGetHashes(S, l - S) /\ AnswerFrom(r, new)
  <2>1. u \in Nat /\ S \in Nat
    BY <1>1, <1>2, WholeSegments
  <2>2. S < l /\ l <= Len(db)
    BY <1>1, <1>2, <1>5, <2>1 DEF CanGetHashes
  <2>3. S < n
    <3> DEFINE c == (n + D - 1) \div D
    <3>1. D \in Nat /\ D > 0
      BY <1>2, Power
    <3>2. IsList(cache.level, c)
      <4>1. IsList(cache.level, (Len(HashesOf(db, 0, n)) + Pow2[d] - 1) \div Pow2[d])
        BY <1>2 DEF IsRow
      <4>2. 0 \in Nat /\ n \in Nat
        BY <1>2
      <4>3. Len(HashesOf(db, 0, n)) = n
        BY <4>2, HashList
      <4> QED BY <4>1, <4>3
    <3>3. \A q \in Nat : q < c <=> q * D < n
      BY <1>2, <3>1, Segments
    <3> HIDE DEF c, D, n, u
    <3>4. Len(cache.level) = c /\ c \in Nat
      BY <3>2, Lists
    <3> QED BY <1>5, <2>1, <3>3, <3>4
  <2>4. u <= Len(cache.level) /\ u * segmentLength <= n /\ u * segmentLength < l
    <3>1. Len(cache.level) \in Nat
      BY <1>2, Lists DEF IsRow
    <3> QED BY <1>2, <1>5, <2>1, <2>2, <2>3, <3>1 DEF segmentLength
  <2>5. IsRow(SubSeq(cache.level, 1, u)
                  \o levelOf(getHashes(u * segmentLength, l - u * segmentLength), cache.depthHigher),
              HashesOf(db, 0, l), cache.depthHigher)
    BY <1>1, <2>1, <2>4, LevelReplaced
  <2>6. IsRow(new, HashesOf(db, 0, l), d)
    BY <2>5 DEF segmentLength
  <2> HIDE DEF new
  <2> QED BY <1>1, <1>5, <2>2, <2>6, AnswerFromRowIsRight
<1> QED BY <1>3, <1>4, <1>5 DEF levelFor, leafStart, segmentLength

(* Only a reader that has its leaves, or its level, comes to answer. *)
LEMMA AnswersRight ==
    ASSUME IInv, [Next]_vars, NEW r \in Readers,
           rd[r].pc \in {"leaves", "level"}, rd'[r].pc = "done"
    PROVE  RightAnswer(r)
<1>1. DOMAIN rd = Readers /\ DOMAIN rd[r] = Fields
  BY DEF IInv, ReaderOK
<1>2. ASSUME rd' = rd PROVE FALSE
  BY <1>2
<1>3. ASSUME deleteHeadersPastHeight PROVE FALSE
  <2>1. rd'[r] = [rd[r] EXCEPT !.reorg = TRUE]
    BY <1>3 DEF deleteHeadersPastHeight
  <2> QED BY <1>1, <2>1 DEF Fields
<1>4. ASSUME NEW q \in Readers, q # r, rd'[r] = rd[r] PROVE FALSE
  BY <1>4
<1>5. ASSUME NEW q \in Readers,
             \/ \E length \in 2 .. nRecs : \E index \in 0 .. length - 1 : Request(q, length, index)
             \/ Acquire(q) \/ extendTo(q) \/ GetLeaves(q) \/ levelFor(q)
      PROVE  RightAnswer(r)
  <2>1. CASE q # r
    <3>1. rd'[r] = rd[r]
      BY <1>1, <1>5, <2>1 DEF Request, Acquire, extendTo, GetLeaves, levelFor, Step, Fail, AnswerFrom
    <3> QED BY <2>1, <3>1, <1>4
  <2>2. CASE q = r
    <3>1. CASE GetLeaves(r)
      BY <3>1, GetLeavesAnswersRight
    <3>2. CASE levelFor(r)
      BY <3>2, LevelForAnswersRight
    <3>3. ~ Waiting(r) /\ rd[r].pc # "ask" /\ rd[r].pc # "extend"
      BY DEF Waiting
    <3> QED BY <1>5, <2>2, <3>1, <3>2, <3>3 DEF Request, Acquire, extendTo
  <2> QED BY <2>1, <2>2
<1>6. CASE appendHeader \/ WriteAdd \/ truncate \/ WriteUndo \/ updateMerkleCache \/ UNCHANGED vars
  <2>1. rd' = rd
    BY <1>6 DEF appendHeader, WriteAdd, truncate, WriteUndo, updateMerkleCache, vars
  <2> QED BY <1>2, <2>1
<1> QED BY <1>3, <1>5, <1>6 DEF Next

(* An answered proof leads from the header to the root of the merkle tree    *)
(* over the first cp_height + 1 headers as they are in the database then,    *)
(* however client calls, new blocks and reorgs interleave                    *)
(* (Merkle::Cache::branchAndRoot, levelFor, Merkle::branchAndRootFromLevel). *)
THEOREM SpecAnswersAreRight == Spec => AnswersAreRight
<1>1. Init => IInv
  BY InitIInv
<1>2. IInv /\ [Next]_vars => IInv'
  BY NextIInv
<1>3. IInv /\ [Next]_vars =>
        [\A r \in Readers : rd[r].pc \in {"leaves", "level"} /\ rd'[r].pc = "done" =>
          LET n     == rd[r].length
              index == rd[r].index
              ret   == rd'[r].ret
          IN  /\ n <= Len(db)
              /\ ret.root = RootOf(getHashes(0, n))
              /\ RootFromBranch(Leaf(index, db[index + 1]), index, ret.branch) = ret.root]_vars
  BY AnswersRight DEF RightAnswer
<1> QED BY <1>1, <1>2, <1>3, PTL DEF Spec, AnswersAreRight
=============================================================================
