--------------------------- MODULE AddressProofs ---------------------------
(***************************************************************************)
(* Proofs about the requests for the transactions of an address, on top of *)
(* the invariants of storage and readers in StorageReadProofs: the pages   *)
(* of getTransactionsForAddress together are in order, without a           *)
(* repetition, and leave out nothing that was stored all along; the list   *)
(* of getSignaturesForAddress is one piece of the address's list, where    *)
(* it should be; for any history of the address, any filter, limit and     *)
(* sizes of pages and batches and any number of readers.                   *)
(***************************************************************************)
EXTENDS AddressRequests, StorageReadProofs

-----------------------------------------------------------------------------
(***************************************************************************)
(* Lists of transactions.  The rank of a position is the number of         *)
(* positions below it.                                                     *)
(***************************************************************************)
Below(at, d) == {j \in at : j < d}

LEMMA BelowFinite ==
    ASSUME NEW K \in Nat, NEW at, at \subseteq 1 .. K
    PROVE  /\ IsFiniteSet(at) /\ Cardinality(at) \in Nat
           /\ \A d : /\ IsFiniteSet(Below(at, d)) /\ Cardinality(Below(at, d)) \in Nat
                     /\ Cardinality(Below(at, d)) <= Cardinality(at)
<1>1. IsFiniteSet(1 .. K)  BY FS_Interval
<1>2. IsFiniteSet(at)  BY <1>1, FS_Subset
<1>3. ASSUME NEW d
      PROVE  /\ IsFiniteSet(Below(at, d)) /\ Cardinality(Below(at, d)) \in Nat
             /\ Cardinality(Below(at, d)) <= Cardinality(at)
  <2>1. Below(at, d) \in SUBSET at  BY DEF Below
  <2> QED  BY <1>2, <2>1, FS_Subset, FS_CardinalityType
<1> QED  BY <1>2, <1>3, FS_CardinalityType

\* One step up adds the position passed, if it is one of them.
LEMMA BelowNext ==
    ASSUME NEW K \in Nat, NEW at, at \subseteq 1 .. K, NEW a \in Nat
    PROVE  Cardinality(Below(at, a + 1)) =
              IF a \in at THEN Cardinality(Below(at, a)) + 1 ELSE Cardinality(Below(at, a))
<1>0. \A e \in at : e < a + 1 <=> e < a \/ e = a  OBVIOUS
<1>1. IsFiniteSet(Below(at, a))  BY BelowFinite
<1>2. CASE a \in at
  <2>1. Below(at, a + 1) = Below(at, a) \union {a}  BY <1>0, <1>2 DEF Below
  <2>2. a \notin Below(at, a)  BY DEF Below
  <2> QED  BY <1>1, <1>2, <2>1, <2>2, FS_AddElement
<1>3. CASE a \notin at
  <2>1. Below(at, a + 1) = Below(at, a)  BY <1>0, <1>3 DEF Below
  <2> QED  BY <1>3, <2>1
<1> QED  BY <1>2, <1>3

\* A higher position of them has a higher rank.
LEMMA BelowStrict ==
    ASSUME NEW K \in Nat, NEW at, at \subseteq 1 .. K, NEW a \in at, NEW b \in Nat, a < b
    PROVE  Cardinality(Below(at, a)) + 1 <= Cardinality(Below(at, b))
<1>1. a \in Nat  OBVIOUS
<1>2. Cardinality(Below(at, a + 1)) = Cardinality(Below(at, a)) + 1  BY <1>1, BelowNext
<1>3. \A e \in at : e < a + 1 => e < b  BY <1>1
<1>4. Below(at, a + 1) \in SUBSET Below(at, b)  BY <1>3 DEF Below
<1>5. IsFiniteSet(Below(at, b))  BY BelowFinite
<1>6. Cardinality(Below(at, a + 1)) <= Cardinality(Below(at, b))  BY <1>4, <1>5, FS_Subset
<1> QED  BY <1>2, <1>6

\* Each rank below their number is that of one of them.
LEMMA BelowRanks ==
    ASSUME NEW K \in Nat, NEW at, at \subseteq 1 .. K, NEW n \in 1 .. Cardinality(at)
    PROVE  \E d \in at : Cardinality(Below(at, d)) = n - 1
<1> DEFINE c(d) == Cardinality(Below(at, d))
           T == {d \in 0 .. K + 1 : c(d) >= n}
<1>1. \A d : c(d) \in Nat  BY BelowFinite
<1>0. Cardinality(at) \in Nat  BY BelowFinite
<1>2. Cardinality(at) \in Nat /\ n \in Nat  BY <1>0
<1>3. K + 1 \in T
  <2>1. \A e \in at : e < K + 1  OBVIOUS
  <2>2. Below(at, K + 1) = at  BY <2>1 DEF Below
  <2> QED  BY <1>2, <2>2
<1>4. PICK d \in T : \A e \in T : d <= e
  <2>1. T \subseteq Nat /\ T # {}  BY <1>3
  <2> HIDE DEF T
  <2> QED  BY <2>1, NatMin
<1>5. d \in 0 .. K + 1 /\ c(d) >= n  OBVIOUS
<1>6. c(0) = 0
  <2>0. \A e \in at : ~ (e < 0)  OBVIOUS
  <2>1. Below(at, 0) = {}  BY <2>0 DEF Below
  <2> QED  BY <2>1, FS_EmptySet
<1>7. d # 0  BY <1>2, <1>5, <1>6
<1>8. d - 1 \in Nat /\ d - 1 \in 0 .. K + 1 /\ d - 1 < d /\ (d - 1) + 1 = d  BY <1>5, <1>7
<1>9. ~ (c(d - 1) >= n)  BY <1>4, <1>8
<1>10. c((d - 1) + 1) = IF d - 1 \in at THEN c(d - 1) + 1 ELSE c(d - 1)  BY <1>8, BelowNext
<1> HIDE DEF c, T
<1>11. c(d) = IF d - 1 \in at THEN c(d - 1) + 1 ELSE c(d - 1)  BY <1>8, <1>10
<1>12. d - 1 \in at /\ c(d - 1) = n - 1  BY <1>1, <1>2, <1>5, <1>9, <1>11
<1> QED  BY <1>12 DEF c

\* The positions in their order.
LEMMA NthIs ==
    ASSUME NEW K \in Nat, NEW at, at \subseteq 1 .. K
    PROVE  /\ Cardinality(at) \in Nat /\ Cardinality(at) <= K
           /\ \A n \in 1 .. Cardinality(at) : Nth(at, n) \in at
           /\ \A m, n \in 1 .. Cardinality(at) : m < n => Nth(at, m) < Nth(at, n)
           /\ \A i \in at : \E n \in 1 .. Cardinality(at) : Nth(at, n) = i
<1> DEFINE c(d) == Cardinality(Below(at, d))
<1>1. Cardinality(at) \in Nat /\ \A d : c(d) \in Nat  BY BelowFinite
<1>2. Cardinality(at) <= K
  <2>1. IsFiniteSet(1 .. K) /\ Cardinality(1 .. K) = K  BY FS_Interval
  <2>2. at \in SUBSET (1 .. K)  OBVIOUS
  <2> QED  BY <2>1, <2>2, FS_Subset
<1>3. \A i \in at : i \in Nat /\ c(i) + 1 <= Cardinality(at)
  <2> TAKE i \in at
  <2>1. i \in Nat /\ K + 1 \in Nat /\ i < K + 1  OBVIOUS
  <2>2. \A e \in at : e < K + 1  OBVIOUS
  <2>3. Below(at, K + 1) = at  BY <2>2 DEF Below
  <2> QED  BY <2>1, <2>3, BelowStrict
<1>4. \A i, j \in at : i < j => c(i) + 1 <= c(j)
  <2> TAKE i, j \in at
  <2>1. j \in Nat  OBVIOUS
  <2> QED  BY <2>1, BelowStrict
<1>5. \A i, j \in at : c(i) = c(j) => i = j
  <2> TAKE i, j \in at
  <2>1. i \in Nat /\ j \in Nat /\ c(i) \in Nat /\ c(j) \in Nat  BY <1>1, <1>3
  <2>2. i < j => c(i) + 1 <= c(j)  BY <1>4
  <2>3. j < i => c(j) + 1 <= c(i)  BY <1>4
  <2> HIDE DEF c
  <2> QED  BY <2>1, <2>2, <2>3
<1>6. \A n \in 1 .. Cardinality(at) : Nth(at, n) \in at /\ c(Nth(at, n)) = n - 1
  <2> TAKE n \in 1 .. Cardinality(at)
  <2>1. \E d \in at : Cardinality({j \in at : j < d}) = n - 1  BY BelowRanks DEF Below
  <2> QED  BY <2>1 DEF Nth, Below
<1> HIDE DEF c
<1>7. \A m, n \in 1 .. Cardinality(at) : m < n => Nth(at, m) < Nth(at, n)
  <2> TAKE m, n \in 1 .. Cardinality(at)
  <2> HAVE m < n
  <2>1. Nth(at, m) \in at /\ Nth(at, n) \in at /\ c(Nth(at, m)) = m - 1 /\ c(Nth(at, n)) = n - 1
    BY <1>6
  <2>2. Nth(at, n) = Nth(at, m) => m - 1 = n - 1  BY <2>1
  <2>3. Nth(at, n) < Nth(at, m) => (n - 1) + 1 <= m - 1  BY <1>4, <2>1
  <2>4. Nth(at, m) \in Nat /\ Nth(at, n) \in Nat  BY <1>3, <2>1
  <2>5. Cardinality(at) \in Nat  BY <1>1
  <2>6. m \in Nat /\ n \in Nat  BY <2>5
  <2> QED  BY <2>2, <2>3, <2>4, <2>6
<1>8. \A i \in at : \E n \in 1 .. Cardinality(at) : Nth(at, n) = i
  <2> TAKE i \in at
  <2>1. c(i) \in Nat /\ c(i) + 1 <= Cardinality(at)  BY <1>1, <1>3
  <2>2. c(i) + 1 \in 1 .. Cardinality(at) /\ (c(i) + 1) - 1 = c(i)  BY <1>1, <2>1
  <2>3. Nth(at, c(i) + 1) \in at /\ c(Nth(at, c(i) + 1)) = (c(i) + 1) - 1  BY <1>6, <2>2
  <2>4. c(Nth(at, c(i) + 1)) = c(i)  BY <2>2, <2>3
  <2>5. Nth(at, c(i) + 1) = i  BY <1>5, <2>3, <2>4
  <2> QED  BY <2>2, <2>5
<1> QED  BY <1>1, <1>2, <1>6, <1>7, <1>8

\* A part of a list has its elements at the positions, in their order.
LEMMA PartIs ==
    ASSUME NEW X, NEW list \in Seq(X), NEW at, at \subseteq DOMAIN list
    PROVE  /\ Part(list, at) \in Seq(X) /\ Len(Part(list, at)) = Cardinality(at)
           /\ Cardinality(at) \in Nat /\ Cardinality(at) <= Len(list)
           /\ \A n \in DOMAIN Part(list, at) :
                 Nth(at, n) \in at /\ Part(list, at)[n] = list[Nth(at, n)]
           /\ \A m, n \in DOMAIN Part(list, at) : m < n => Nth(at, m) < Nth(at, n)
           /\ \A i \in at : \E n \in DOMAIN Part(list, at) : Nth(at, n) = i
<1>1. Len(list) \in Nat /\ DOMAIN list = 1 .. Len(list) /\ at \subseteq 1 .. Len(list)  OBVIOUS
<1>2. PICK k : k = Cardinality(at)  OBVIOUS
<1>3. /\ k \in Nat /\ k <= Len(list)
      /\ \A n \in 1 .. k : Nth(at, n) \in at
      /\ \A m, n \in 1 .. k : m < n => Nth(at, m) < Nth(at, n)
      /\ \A i \in at : \E n \in 1 .. k : Nth(at, n) = i
  BY <1>1, <1>2, NthIs
<1>4. Part(list, at) = [n \in 1 .. k |-> list[Nth(at, n)]]  BY <1>2 DEF Part
<1>5. \A n \in 1 .. k : list[Nth(at, n)] \in X  BY <1>3
<1>6. Part(list, at) \in Seq(X) /\ Len(Part(list, at)) = k /\ DOMAIN Part(list, at) = 1 .. k
  BY <1>3, <1>4, <1>5, FunIsSeq
<1> QED  BY <1>2, <1>3, <1>4, <1>6


-----------------------------------------------------------------------------
(***************************************************************************)
(* Transactions in their order: newest first (desc), or oldest first.      *)
(***************************************************************************)
TxType == LiveSlots \X (Nat \ {0})

Comes(desc, a, b) == IF desc THEN Newer(a, b) ELSE Newer(b, a)

InOrder(desc, list) == \A i, j \in DOMAIN list : i < j => Comes(desc, list[i], list[j])

Has(list, tx) == \E i \in DOMAIN list : list[i] = tx

LEMMA TxIs ==
    ASSUME NEW a \in TxType
    PROVE  a = <<a[1], a[2]>> /\ a[1] \in Slots /\ a[1] \in Nat /\ a[1] > 0 /\ a[2] \in Nat /\ a[2] > 0
<1>1. a[1] \in LiveSlots /\ a[2] \in Nat \ {0} /\ a = <<a[1], a[2]>>  BY DEF TxType
<1> QED  BY <1>1 DEF LiveSlots, Slots

LEMMA NoTxIs == NoTx \notin TxType
BY TxIs DEF NoTx

\* The order is total.
LEMMA ComesIs ==
    ASSUME NEW desc \in BOOLEAN, NEW a \in TxType, NEW b \in TxType
    PROVE  /\ ~ Comes(desc, a, a)
           /\ Comes(desc, a, b) => ~ Comes(desc, b, a)
           /\ a # b => Comes(desc, a, b) \/ Comes(desc, b, a)
           /\ Comes(~ desc, a, b) <=> Comes(desc, b, a)
<1>1. a = <<a[1], a[2]>> /\ a[1] \in Nat /\ a[2] \in Nat  BY TxIs
<1>2. b = <<b[1], b[2]>> /\ b[1] \in Nat /\ b[2] \in Nat  BY TxIs
<1>3. a # b => a[1] # b[1] \/ a[2] # b[2]  BY <1>1, <1>2
<1> QED  BY <1>1, <1>2, <1>3 DEF Comes, Newer

LEMMA ComesThen ==
    ASSUME NEW desc \in BOOLEAN, NEW a \in TxType, NEW b \in TxType, NEW c \in TxType,
           Comes(desc, a, b), Comes(desc, b, c)
    PROVE  Comes(desc, a, c)
<1>1. a[1] \in Nat /\ a[2] \in Nat /\ b[1] \in Nat /\ b[2] \in Nat /\ c[1] \in Nat /\ c[2] \in Nat
  BY TxIs
<1> QED  BY <1>1 DEF Comes, Newer

LEMMA HasTx ==
    ASSUME NEW list \in Seq(TxType), NEW tx, Has(list, tx)
    PROVE  tx \in TxType
BY DEF Has

\* The transactions of the address.
LEMMA TxsIs ==
    Txs \in Seq(TxType) /\ InOrder(TRUE, Txs) /\ TxSet \subseteq TxType
    /\ \A tx : tx \in TxSet <=> Has(Txs, tx)
<1>1. Txs \in Seq(TxType)  BY AddressRequestsAssumption DEF TxType
<1>2. InOrder(TRUE, Txs)  BY AddressRequestsAssumption DEF InOrder, Comes
<1>3. \A tx : tx \in TxSet <=> Has(Txs, tx)  BY DEF TxSet, Has
<1> QED  BY <1>1, <1>2, <1>3, HasTx

\* A part of a list is in order.
LEMMA PartOrder ==
    ASSUME NEW desc, NEW list \in Seq(TxType), NEW at, at \subseteq DOMAIN list
    PROVE  /\ Part(list, at) \in Seq(TxType)
           /\ InOrder(desc, list) => InOrder(desc, Part(list, at))
           /\ \A tx : Has(Part(list, at), tx) <=> \E i \in at : list[i] = tx
<1>1. PICK p : p = Part(list, at)  OBVIOUS
<1>2. /\ p \in Seq(TxType)
      /\ \A n \in DOMAIN p : Nth(at, n) \in at /\ p[n] = list[Nth(at, n)]
      /\ \A m, n \in DOMAIN p : m < n => Nth(at, m) < Nth(at, n)
      /\ \A i \in at : \E n \in DOMAIN p : Nth(at, n) = i
  BY <1>1, PartIs
<1>3. InOrder(desc, list) => InOrder(desc, p)  BY <1>2 DEF InOrder
<1>4. \A tx : Has(p, tx) <=> \E i \in at : list[i] = tx  BY <1>2 DEF Has
<1> QED  BY <1>1, <1>2, <1>3, <1>4

\* Two lists in order, one before the other.
LEMMA AppendOrder ==
    ASSUME NEW desc, NEW a \in Seq(TxType), NEW b \in Seq(TxType)
    PROVE  /\ a \o b \in Seq(TxType) /\ Len(a \o b) = Len(a) + Len(b)
           /\ \A tx : Has(a \o b, tx) <=> Has(a, tx) \/ Has(b, tx)
           /\ InOrder(desc, a) /\ InOrder(desc, b)
              /\ (\A x, y : Has(a, x) /\ Has(b, y) => Comes(desc, x, y))
                 => InOrder(desc, a \o b)
<1>1. PICK l : l = a \o b  OBVIOUS
<1>2. /\ l \in Seq(TxType) /\ Len(l) = Len(a) + Len(b) /\ DOMAIN l = 1 .. Len(a) + Len(b)
      /\ \A i \in 1 .. Len(a) : l[i] = a[i]
      /\ \A i \in Len(a) + 1 .. Len(a) + Len(b) : l[i] = b[i - Len(a)]
      /\ Len(a) \in Nat /\ Len(b) \in Nat /\ DOMAIN a = 1 .. Len(a) /\ DOMAIN b = 1 .. Len(b)
  BY <1>1
<1>3. \A i \in DOMAIN l : \/ i \in DOMAIN a /\ l[i] = a[i]
                          \/ i > Len(a) /\ i - Len(a) \in DOMAIN b /\ l[i] = b[i - Len(a)]
  BY <1>2
<1>4. ASSUME NEW tx PROVE Has(l, tx) <=> Has(a, tx) \/ Has(b, tx)
  <2>1. Has(l, tx) => Has(a, tx) \/ Has(b, tx)  BY <1>3 DEF Has
  <2>2. Has(a, tx) => Has(l, tx)  BY <1>2 DEF Has
  <2>3. ASSUME NEW i \in DOMAIN b, b[i] = tx PROVE Has(l, tx)
    <3>1. i + Len(a) \in Len(a) + 1 .. Len(a) + Len(b) /\ (i + Len(a)) - Len(a) = i
          /\ i + Len(a) \in DOMAIN l
      BY <1>2
    <3>2. l[i + Len(a)] = tx  BY <1>2, <2>3, <3>1
    <3> QED  BY <3>1, <3>2 DEF Has
  <2> QED  BY <2>1, <2>2, <2>3 DEF Has
<1>5. ASSUME InOrder(desc, a), InOrder(desc, b),
             \A x, y : Has(a, x) /\ Has(b, y) => Comes(desc, x, y),
             NEW i \in DOMAIN l, NEW j \in DOMAIN l, i < j
      PROVE  Comes(desc, l[i], l[j])
  <2>0. i \in Nat /\ j \in Nat /\ Len(a) \in Nat  BY <1>2
  <2>1. CASE j \in DOMAIN a
    <3>1. i \in DOMAIN a  BY <1>2, <1>5, <2>0, <2>1
    <3> QED  BY <1>2, <1>5, <2>1, <3>1 DEF InOrder
  <2>2. CASE j \notin DOMAIN a /\ i \in DOMAIN a
    <3>1. l[i] = a[i] /\ Has(a, l[i])  BY <1>2, <2>2 DEF Has
    <3>2. Has(b, l[j])  BY <1>3, <2>2 DEF Has
    <3> QED  BY <1>5, <3>1, <3>2
  <2>3. CASE j \notin DOMAIN a /\ i \notin DOMAIN a
    <3>1. /\ i - Len(a) \in DOMAIN b /\ l[i] = b[i - Len(a)]
          /\ j - Len(a) \in DOMAIN b /\ l[j] = b[j - Len(a)]
      BY <1>3, <2>3
    <3>2. i - Len(a) < j - Len(a)  BY <1>5, <2>0
    <3> QED  BY <1>5, <3>1, <3>2 DEF InOrder
  <2> QED  BY <2>1, <2>2, <2>3
<1>6. ASSUME InOrder(desc, a), InOrder(desc, b),
             \A x, y : Has(a, x) /\ Has(b, y) => Comes(desc, x, y)
      PROVE  InOrder(desc, l)
  BY <1>5, <1>6 DEF InOrder
<1> QED  BY <1>1, <1>2, <1>4, <1>6

\* The last of a list in order comes after the others.
LEMMA LastOrder ==
    ASSUME NEW desc, NEW list \in Seq(TxType), list # <<>>, InOrder(desc, list)
    PROVE  /\ Has(list, LastOf(list)) /\ LastOf(list) \in TxType
           /\ \A tx : Has(list, tx) => tx = LastOf(list) \/ Comes(desc, tx, LastOf(list))
<1>1. Len(list) \in DOMAIN list /\ Len(list) \in Nat /\ DOMAIN list = 1 .. Len(list)  OBVIOUS
<1>2. Has(list, LastOf(list)) /\ LastOf(list) \in TxType  BY <1>1 DEF Has, LastOf
<1>3. ASSUME NEW i \in DOMAIN list
      PROVE  list[i] = LastOf(list) \/ Comes(desc, list[i], LastOf(list))
  <2>1. i = Len(list) \/ i < Len(list)  BY <1>1
  <2> QED  BY <1>1, <2>1 DEF LastOf, InOrder
<1> QED  BY <1>2, <1>3 DEF Has

\* The first n of a list: what is left out comes after the last of them.
LEMMA FirstOrder ==
    ASSUME NEW desc, NEW list \in Seq(TxType), InOrder(desc, list), NEW n \in Nat
    PROVE  /\ FirstOf(list, n) \in Seq(TxType) /\ InOrder(desc, FirstOf(list, n))
           /\ Len(FirstOf(list, n)) <= n
           /\ \A tx : Has(FirstOf(list, n), tx) => Has(list, tx)
           /\ \A tx : Has(list, tx) /\ ~ Has(FirstOf(list, n), tx) =>
                 /\ Len(FirstOf(list, n)) = n
                 /\ n > 0 => Comes(desc, LastOf(FirstOf(list, n)), tx)
<1>a. PICK m : m = Len(list)  OBVIOUS
<1>b. m \in Nat /\ DOMAIN list = 1 .. m  BY <1>a
<1>1. PICK k : k = Lesser(n, m)  OBVIOUS
<1>2. PICK f : f = FirstOf(list, n)  OBVIOUS
<1>3. k \in Nat /\ k <= n /\ k <= m /\ (k = n \/ k = m) /\ m \in Nat
  BY <1>1, <1>b DEF Lesser
<1>4. f = SubSeq(list, 1, k)  BY <1>1, <1>2, <1>a DEF FirstOf
<1>5. f \in Seq(TxType) /\ Len(f) = k /\ DOMAIN f = 1 .. k /\ \A i \in 1 .. k : f[i] = list[i]
  <2>1. 1 \in Int /\ k \in Int /\ \A i \in 1 .. k : list[i] \in TxType  BY <1>3, <1>b
  <2>2. f \in Seq(TxType) /\ Len(f) = (IF 1 <= k THEN k - 1 + 1 ELSE 0)
        /\ \A i \in 1 .. k - 1 + 1 : f[i] = list[1 + i - 1]
    BY <1>4, <2>1, SubSeqProperties
  <2>3. Len(f) = k /\ k - 1 + 1 = k /\ \A i \in 1 .. k : 1 + i - 1 = i  BY <1>3, <2>2
  <2> QED  BY <2>2, <2>3
<1>0. \A i \in 1 .. k : i \in DOMAIN list  BY <1>3, <1>b
<1>6. InOrder(desc, f)  BY <1>0, <1>5 DEF InOrder
<1>7. \A tx : Has(f, tx) => Has(list, tx)  BY <1>0, <1>5 DEF Has
<1>8. ASSUME NEW i \in DOMAIN list, ~ Has(f, list[i])
      PROVE  Len(f) = n /\ (n > 0 => Comes(desc, LastOf(f), list[i]))
  <2>1. ~ (i \in 1 .. k)  BY <1>5, <1>8 DEF Has
  <2>0. i \in Nat /\ i >= 1 /\ i <= m  BY <1>b
  <2>2. i > k /\ k # m  BY <1>3, <2>0, <2>1
  <2>3. k = n  BY <1>3, <2>2
  <2>4. n > 0 => k \in DOMAIN list /\ f[k] = list[k]  BY <1>3, <1>5, <1>b, <2>3
  <2> QED  BY <1>5, <2>0, <2>2, <2>3, <2>4 DEF InOrder, LastOf
<1>9. ASSUME NEW tx, Has(list, tx), ~ Has(f, tx)
      PROVE  Len(f) = n /\ (n > 0 => Comes(desc, LastOf(f), tx))
  BY <1>8, <1>9 DEF Has
<1> QED  BY <1>2, <1>3, <1>5, <1>6, <1>7, <1>9

\* Backwards, a list is in the other order.
LEMMA BackwardsOrder ==
    ASSUME NEW list \in Seq(TxType), InOrder(TRUE, list)
    PROVE  /\ Backwards(list) \in Seq(TxType) /\ InOrder(FALSE, Backwards(list))
           /\ \A tx : Has(Backwards(list), tx) <=> Has(list, tx)
<1>1. PICK b : b = Backwards(list)  OBVIOUS
<1>2. PICK n : n = Len(list)  OBVIOUS
<1>3. n \in Nat /\ DOMAIN list = 1 .. n /\ \A i \in 1 .. n : n + 1 - i \in 1 .. n /\ n + 1 - (n + 1 - i) = i
  BY <1>2
<1>4. b = [i \in 1 .. n |-> list[n + 1 - i]]  BY <1>1, <1>2, <1>3 DEF Backwards
<1>5. b \in Seq(TxType) /\ Len(b) = n
  <2>1. b \in [1 .. n -> TxType]  BY <1>3, <1>4
  <2> QED  BY <1>3, <2>1, FunIsSeq
<1>6. DOMAIN b = 1 .. n  BY <1>4
<1>7. InOrder(FALSE, b)
  <2> SUFFICES ASSUME NEW i \in 1 .. n, NEW j \in 1 .. n, i < j PROVE Newer(b[j], b[i])
    BY <1>6 DEF InOrder, Comes
  <2>1. n + 1 - j \in 1 .. n /\ n + 1 - i \in 1 .. n /\ n + 1 - j < n + 1 - i  BY <1>3
  <2> QED  BY <1>3, <1>4, <2>1 DEF InOrder, Comes
<1>8. \A tx : Has(b, tx) <=> Has(list, tx)
  <2>1. \A i \in 1 .. n : b[i] = list[n + 1 - i] /\ b[n + 1 - i] = list[i]  BY <1>3, <1>4
  <2> QED  BY <1>3, <1>6, <2>1 DEF Has
<1> QED  BY <1>1, <1>5, <1>7, <1>8

\* The transactions of some slots, as a scan meets them.
Rows(slots, desc) == IF desc THEN InSlots(slots) ELSE Backwards(InSlots(slots))

LEMMA RowsIs ==
    ASSUME NEW slots, NEW desc \in BOOLEAN
    PROVE  /\ Rows(slots, desc) \in Seq(TxType) /\ InOrder(desc, Rows(slots, desc))
           /\ \A tx : Has(Rows(slots, desc), tx) <=> tx \in TxSet /\ tx[1] \in slots
<1>1. PICK at : at = {i \in DOMAIN Txs : Txs[i][1] \in slots}  OBVIOUS
<1>2. InSlots(slots) = Part(Txs, at)  BY <1>1 DEF InSlots
<1>3. /\ InSlots(slots) \in Seq(TxType) /\ InOrder(TRUE, InSlots(slots))
      /\ \A tx : Has(InSlots(slots), tx) <=> \E i \in at : Txs[i] = tx
  <2>1. at \subseteq DOMAIN Txs  BY <1>1
  <2>2. Txs \in Seq(TxType) /\ InOrder(TRUE, Txs)  BY TxsIs
  <2>3. /\ Part(Txs, at) \in Seq(TxType)
        /\ InOrder(TRUE, Txs) => InOrder(TRUE, Part(Txs, at))
        /\ \A tx : Has(Part(Txs, at), tx) <=> \E i \in at : Txs[i] = tx
    BY <2>1, <2>2, PartOrder
  <2> QED  BY <1>2, <2>2, <2>3
<1>4. \A tx : Has(InSlots(slots), tx) <=> tx \in TxSet /\ tx[1] \in slots
  BY <1>1, <1>3 DEF TxSet
<1> QED  BY <1>3, <1>4, BackwardsOrder DEF Rows


LEMMA FirstAtIs ==
    ASSUME NEW at, at \subseteq Nat \ {0}
    PROVE  /\ at = {} => FirstAt(at) = 0
           /\ at # {} => FirstAt(at) \in at /\ \A i \in at : FirstAt(at) <= i
<1>1. CASE at = {}  BY <1>1 DEF FirstAt
<1>2. CASE at # {}
  <2>1. \E s \in at : \A t \in at : s <= t
    <3>1. at \subseteq Nat  OBVIOUS
    <3> QED  BY <1>2, <3>1, NatMin, Zenon
  <2>2. Lowest(at) \in at /\ \A t \in at : Lowest(at) <= t  BY <2>1, Zenon DEF Lowest
  <2> QED  BY <1>2, <2>2 DEF FirstAt
<1> QED  BY <1>1, <1>2

\* On the cursor's side of its slot.
Beyond(desc, cursor, s) == IF desc THEN s <= cursor[1] ELSE s >= cursor[1]

\* A scan leaves out just what does not come after the cursor, provided that
\* the cursor's slot has rows: only then its index is met.
LEMMA ScanIs ==
    ASSUME req.desc \in BOOLEAN, req.cursor \in TxSet \union {NoTx},
           NEW slots, req.cursor # NoTx => \A s \in slots : Beyond(req.desc, req.cursor, s),
           NEW rows, rows = Rows(slots, req.desc),
           NEW same, \A i : i \in same <=> i \in DOMAIN rows /\ rows[i][2] = req.cursor[2],
           NEW at, at = FirstAt(same),
           NEW kept, \A i : i \in kept <=> i \in DOMAIN rows /\ ~ SkippedByCursor(rows, i, at),
           NEW left, left = Part(rows, kept)
    PROVE  /\ left \in Seq(TxType) /\ InOrder(req.desc, left)
           /\ \A tx : Has(left, tx) =>
                 /\ tx \in TxSet /\ tx[1] \in slots
                 /\ req.cursor # NoTx => Comes(req.desc, req.cursor, tx)
           /\ \A tx \in TxSet :
                 /\ tx[1] \in slots
                 /\ \/ req.cursor = NoTx
                    \/ req.cursor[1] \in slots /\ Comes(req.desc, req.cursor, tx)
                 => Has(left, tx)
<1> DEFINE desc == req.desc
           cursor == req.cursor
<1>1. /\ rows \in Seq(TxType) /\ InOrder(desc, rows)
      /\ \A tx : Has(rows, tx) <=> tx \in TxSet /\ tx[1] \in slots
  BY RowsIs
<1>3. /\ left \in Seq(TxType) /\ InOrder(desc, left)
      /\ \A tx : Has(left, tx) <=> \E i \in kept : rows[i] = tx
  <2>1. kept \subseteq DOMAIN rows  OBVIOUS
  <2>2. left = Part(rows, kept)  OBVIOUS
  <2>3. /\ Part(rows, kept) \in Seq(TxType)
        /\ InOrder(desc, rows) => InOrder(desc, Part(rows, kept))
        /\ \A tx : Has(Part(rows, kept), tx) <=> \E i \in kept : rows[i] = tx
    BY <1>1, <2>1, PartOrder
  <2> QED  BY <1>1, <2>2, <2>3
<1>4. DOMAIN rows \subseteq Nat \ {0} /\ \A i \in DOMAIN rows : rows[i] \in TxType  BY <1>1
<1>5. TxSet \subseteq TxType  BY TxsIs
<1>6. ASSUME NEW c \in DOMAIN rows, rows[c] = cursor, cursor # NoTx PROVE at = c
  <2>1. PICK S : S = same  OBVIOUS
  <2>2. c \in S /\ S \subseteq Nat \ {0}  BY <1>4, <1>6, <2>1
  <2>3. at \in S /\ at <= c  BY <2>1, <2>2, FirstAtIs
  <2>4. SUFFICES ASSUME at < c PROVE FALSE
    <3>1. at \in Nat /\ c \in Nat  BY <1>4, <2>2, <2>3
    <3> QED  BY <2>3, <3>1
  <2>5. Comes(desc, rows[at], cursor)  BY <1>1, <1>6, <2>1, <2>3, <2>4 DEF InOrder
  <2>6. rows[at][2] = cursor[2] /\ rows[at][1] \in slots
    <3>1. at \in DOMAIN rows  BY <2>1, <2>3
    <3> QED  BY <1>1, <2>1, <2>3, <3>1 DEF Has
  <2>7. rows[at] \in TxType /\ cursor \in TxType  BY <1>4, <1>5, <1>6, <2>1, <2>3
  <2>8. /\ rows[at][1] \in Nat /\ rows[at][2] \in Nat /\ cursor[1] \in Nat /\ cursor[2] \in Nat
    BY <2>7, TxIs
  <2>9. Beyond(desc, cursor, rows[at][1])  BY <1>6, <2>6
  <2> HIDE DEF desc, cursor
  <2>10. desc \in BOOLEAN  BY DEF desc
  <2> QED  BY <2>5, <2>6, <2>8, <2>9, <2>10 DEF Comes, Newer, Beyond
<1>7. ASSUME NEW i \in kept
      PROVE  /\ rows[i] \in TxSet /\ rows[i][1] \in slots
             /\ cursor # NoTx => Comes(desc, cursor, rows[i])
  <2>0. i \in DOMAIN rows /\ ~ SkippedByCursor(rows, i, at)  OBVIOUS
  <2>1. rows[i] \in TxSet /\ rows[i][1] \in slots  BY <1>1, <2>0 DEF Has
  <2>2. SUFFICES ASSUME cursor # NoTx PROVE Comes(desc, cursor, rows[i])  BY <2>1
  <2>3. /\ cursor \in TxType /\ cursor \in TxSet /\ rows[i] \in TxType
        /\ rows[i][1] \in Nat /\ rows[i][2] \in Nat /\ cursor[1] \in Nat /\ cursor[2] \in Nat
    BY <1>5, <2>1, <2>2, TxIs
  <2>4. Beyond(desc, cursor, rows[i][1])  BY <2>1, <2>2
  <2>5. desc \in BOOLEAN  OBVIOUS
  <2>6. CASE rows[i][1] # cursor[1]
    <3> HIDE DEF desc, cursor
    <3> QED  BY <2>3, <2>4, <2>5, <2>6 DEF Comes, Newer, Beyond
  <2>7. CASE rows[i][1] = cursor[1]
    <3>1. PICK c \in DOMAIN rows : rows[c] = cursor
      <4>1. Has(rows, cursor)  BY <1>1, <2>1, <2>3, <2>7
      <4> QED  BY <4>1 DEF Has
    <3>2. at = c  BY <1>6, <2>2, <3>1
    <3>3. c \in Nat \ {0} /\ i \in Nat  BY <1>4, <2>0, <3>1
    <3>4. CASE i > c  BY <1>1, <2>0, <3>1, <3>3, <3>4 DEF InOrder
    <3>5. CASE ~ (i > c)
      <4>1. i <= at /\ at # 0  BY <3>2, <3>3, <3>5
      <4>2. ~ (IF desc THEN rows[i][2] >= cursor[2] ELSE rows[i][2] <= cursor[2])
        BY <2>0, <2>2, <4>1 DEF SkippedByCursor
      <4> HIDE DEF desc, cursor
      <4> QED  BY <2>3, <2>5, <2>7, <4>2 DEF Comes, Newer
    <3> QED  BY <3>4, <3>5
  <2> QED  BY <2>6, <2>7
<1>8. ASSUME NEW tx \in TxSet, tx[1] \in slots,
             cursor = NoTx \/ (cursor[1] \in slots /\ Comes(desc, cursor, tx))
      PROVE  Has(left, tx)
  <2>1. PICK i \in DOMAIN rows : rows[i] = tx  BY <1>1, <1>8 DEF Has
  <2>2. SUFFICES ~ SkippedByCursor(rows, i, at)  BY <1>3, <2>1
  <2>3. CASE cursor = NoTx  BY <2>3 DEF SkippedByCursor
  <2>4. CASE cursor # NoTx
    <3>1. cursor[1] \in slots /\ Comes(desc, cursor, tx) /\ cursor \in TxSet  BY <1>8, <2>4
    <3>2. PICK c \in DOMAIN rows : rows[c] = cursor  BY <1>1, <3>1 DEF Has
    <3>3. at = c  BY <1>6, <2>4, <3>2
    <3>4. c \in Nat \ {0} /\ i \in Nat  BY <1>4, <2>1, <3>2
    <3>5. ~ (i < c) /\ i # c
      <4>1. cursor \in TxType /\ tx \in TxType /\ desc \in BOOLEAN  BY <1>5, <3>1
      <4>2. ~ Comes(desc, tx, cursor) /\ tx # cursor  BY <3>1, <4>1, ComesIs
      <4> QED  BY <1>1, <2>1, <3>2, <4>2 DEF InOrder
    <3>6. ~ (at = 0 \/ i <= at)  BY <3>3, <3>4, <3>5
    <3> QED  BY <3>6 DEF SkippedByCursor
  <2> QED  BY <2>3, <2>4
<1> QED  BY <1>3, <1>7, <1>8


-----------------------------------------------------------------------------
(***************************************************************************)
(* The pages of getTransactionsForAddress.  What was given so far is in    *)
(* order and ends at the cursor; what is at hand comes after it.           *)
(***************************************************************************)
PageFields ==
    {"kind", "stage", "commit", "desc", "limit", "filter", "reader", "cursor", "slot", "stop",
     "room", "got", "own", "finished", "page", "token", "listed", "cut", "kept", "behind"}

AtWork == {"resolve", "queued", "scan", "scanned", "result"}

Holding == {"scan", "scanned", "result"}

Listing(q) == q.listed \o q.page

PageTypes(q) ==
    /\ DOMAIN q = PageFields /\ q = [f \in PageFields |-> q[f]]
    /\ q.kind = "getTransactionsForAddress"
    /\ q.stage \in AtWork \union {"page", "done"}
    /\ q.commit \in Commitments /\ q.desc \in BOOLEAN /\ q.limit \in Limits /\ q.filter \in Filters
    /\ q.cursor \in TxSet \union {NoTx}
    /\ q.got \in Seq(TxType) /\ q.page \in Seq(TxType) /\ q.listed \in Seq(TxType)
    /\ q.own \in Nat

\* What the client has, and the page so far.
ShownOK(q) ==
    /\ InOrder(q.desc, Listing(q))
    /\ \A tx : Has(Listing(q), tx) => tx \in TxSet /\ Passes(q.filter, tx)
    /\ q.stage \in AtWork =>
          /\ Len(q.page) < q.limit
          /\ \A tx : Has(Listing(q), tx) =>
                q.cursor # NoTx /\ (tx = q.cursor \/ Comes(q.desc, tx, q.cursor))
    /\ q.stage \in {"resolve", "done"} => q.page = <<>>
    /\ q.stage = "page" => q.token = NoTx \/ (q.page # <<>> /\ q.token = LastOf(q.page))

\* What was read and not looked at yet.
GotOK(q) ==
    /\ q.stage \in Holding =>
          /\ InOrder(q.desc, q.got)
          /\ \A tx : Has(q.got, tx) =>
                tx \in TxSet /\ (q.cursor # NoTx => Comes(q.desc, q.cursor, tx))
    /\ q.stage = "scan" =>
          /\ q.cursor # NoTx => q.slot = q.cursor[1]
          /\ q.room \in Nat /\ Len(q.got) < q.room
          /\ q.got # <<>> => /\ q.desc /\ q.cursor = NoTx /\ q.slot \in Nat
                             /\ \A tx : Has(q.got, tx) => tx[1] = q.slot + 1

PageOK(q) == PageTypes(q) /\ ShownOK(q) /\ GotOK(q)

SignatureFields ==
    {"kind", "stage", "commit", "before", "until", "limit", "reader", "slot", "after", "got",
     "own", "finished", "asked", "restarted", "ahead", "kept", "behind", "seen"}

IsSignatures(q) ==
    /\ DOMAIN q = SignatureFields /\ q = [f \in SignatureFields |-> q[f]]
    /\ q.kind = "getSignaturesForAddress"
    /\ q.stage \in {"queued", "index", "scan", "scanned", "result", "done"}

PagesInv == req = [stage |-> "none"] \/ IsSignatures(req) \/ PageOK(req)

LEMMA ListsIs ==
    ASSUME NEW q, PageTypes(q)
    PROVE  /\ Listing(q) \in Seq(TxType)
           /\ \A tx : Has(Listing(q), tx) <=> Has(q.listed, tx) \/ Has(q.page, tx)
BY AppendOrder DEF PageTypes, Listing

LEMMA HasNone == \A tx : ~ Has(<<>>, tx)
BY DEF Has

LEMMA LimitIs ==
    ASSUME NEW q, PageTypes(q)
    PROVE  /\ q.limit \in Nat /\ q.limit > 0 /\ Len(q.page) \in Nat /\ Len(q.got) \in Nat
           /\ TxSet \subseteq TxType /\ NoTx \notin TxSet /\ NoTx \notin TxType
<1>1. Limits \subseteq Nat \ {0}  BY AddressRequestsAssumption
<1> QED  BY <1>1, TxsIs, NoTxIs DEF PageTypes

\* A step that only moves the request on.
SamePages(p, q) ==
    /\ DOMAIN p = PageFields /\ p = [f \in PageFields |-> p[f]]
    /\ \A f \in {"kind", "commit", "desc", "limit", "filter", "behind"} : p[f] = q[f]

LEMMA SameIs ==
    ASSUME NEW p, NEW q, SamePages(p, q)
    PROVE  /\ p.kind = q.kind /\ p.commit = q.commit /\ p.desc = q.desc /\ p.limit = q.limit
           /\ p.filter = q.filter /\ p.behind = q.behind
BY DEF SamePages

LEMMA ResolveOrder ==
    ASSUME PageOK(req), resolve_signature_position
    PROVE  PageOK(req') /\ SamePages(req', req)
<1>1. PICK q, p : q = req /\ p = req'  OBVIOUS
<1>2. /\ q.stage = "resolve"
      /\ \/ p = [q EXCEPT !.stage = "queued"]
         \/ p = [q EXCEPT !.stage = "page", !.token = NoTx, !.cut = @ \union {"unresolved"}]
  BY <1>1 DEF resolve_signature_position
<1>3. PageTypes(q) /\ ShownOK(q)  BY <1>1 DEF PageOK
<1>4. /\ SamePages(p, q) /\ p.stage \in {"queued", "page"}
      /\ p.stage = "page" => p.token = NoTx
      /\ p.cursor = q.cursor /\ p.got = q.got /\ p.page = q.page /\ p.listed = q.listed /\ p.own = q.own
  BY <1>2, <1>3, ZenonT(40) DEF PageTypes, PageFields, SamePages
<1>5. PageTypes(p)  BY <1>3, <1>4, SameIs DEF PageTypes, SamePages, AtWork
<1>6. Listing(p) = Listing(q)  BY <1>4 DEF Listing
<1>7. ShownOK(p)  BY <1>2, <1>3, <1>4, <1>6, SameIs DEF ShownOK, AtWork
<1>8. GotOK(p)  BY <1>4 DEF GotOK, Holding
<1> QED  BY <1>1, <1>4, <1>5, <1>7, <1>8 DEF PageOK

LEMMA RequestLimit ==
    ASSUME PageTypes(req), Len(req.page) < req.limit
    PROVE  request_limit \in Nat /\ request_limit > 0
<1>1. PICK m : m = req.limit - Len(req.page)  OBVIOUS
<1>2. m \in Nat /\ m > 0  BY <1>1, LimitIs
<1>3. BatchLimit \in Nat  BY AddressRequestsAssumption
<1>4. request_limit = IF req.filter.some THEN Greater(m, Lesser(4 * m, BatchLimit)) ELSE m
  BY <1>1 DEF request_limit
<1> QED  BY <1>2, <1>3, <1>4 DEF Greater, Lesser

\* The transactions of the block in process.
LEMMA OwnIs ==
    ASSUME NEW R
    PROVE  /\ Own(R) \in Seq(TxType) /\ InOrder(TRUE, Own(R))
           /\ \A tx : Has(Own(R), tx) => tx \in TxSet /\ tx[1] = R.inproc
           /\ Own(R) # <<>> => R.inproc \in LiveSlots /\ req.commit = "confirmed"
           /\ req.commit = "confirmed" => \A tx \in TxSet : tx[1] = R.inproc => Has(Own(R), tx)
<1>1. CASE req.commit = "confirmed"
  <2>1. Own(R) = Rows({R.inproc}, TRUE)  BY <1>1 DEF Own, Rows
  <2>2. /\ Own(R) \in Seq(TxType) /\ InOrder(TRUE, Own(R))
        /\ \A tx : Has(Own(R), tx) <=> tx \in TxSet /\ tx[1] \in {R.inproc}
    BY <2>1, RowsIs
  <2>3. ASSUME Own(R) # <<>> PROVE R.inproc \in LiveSlots
    <3>1. Has(Own(R), Own(R)[1])  BY <2>2, <2>3 DEF Has
    <3>2. Own(R)[1] \in TxType /\ Own(R)[1][1] = R.inproc  BY <2>2, <3>1, TxsIs
    <3> QED  BY <3>2 DEF TxType
  <2> QED  BY <1>1, <2>2, <2>3
<1>2. CASE req.commit # "confirmed"
  <2>1. Own(R) = <<>>  BY <1>2 DEF Own
  <2> QED  BY <1>2, <2>1, HasNone DEF InOrder
<1> QED  BY <1>1, <1>2


\* Where a read of a page begins and ends.
LowerOf(q, R) == Highest({lower_bound(q.filter.slot), lower_slot(q.filter.signature), TimeLower(R)})

TopOf(q, R) ==
    Lesser(Lowest({upper_bound(q.filter.slot), upper_slot(q.filter.signature), TimeUpper(R)}), Level(R))

FromOf(q, R) ==
    IF q.cursor # NoTx THEN q.cursor[1]
    ELSE IF q.desc THEN TopOf(q, R)
    ELSE Greater(LowerOf(q, R), IF DOMAIN R.ring = {} THEN 0 ELSE Lowest(DOMAIN R.ring))

FastOf(q, R) == q.desc /\ q.cursor = NoTx /\ R.inproc <= FromOf(q, R) /\ Own(R) # <<>>

\* What a reader makes of a page that is asked for.
TakenAs(p, q, R, n) ==
    /\ SamePages(p, q)
    /\ p.page = q.page /\ p.listed = q.listed /\ p.cursor = q.cursor /\ p.kept = q.kept
    /\ p.got = IF FastOf(q, R) THEN FirstOf(Own(R), n) ELSE <<>>
    /\ p.own = Len(p.got) /\ p.room = n
    /\ p.slot = IF FastOf(q, R) THEN R.inproc - 1 ELSE FromOf(q, R)
    /\ p.stop = IF q.desc THEN LowerOf(q, R) ELSE TopOf(q, R)
    /\ p.cut = IF q.cursor # NoTx /\ q.cursor[1] \notin DOMAIN R.ring
               THEN q.cut \union {"token"} ELSE q.cut
    /\ p.stage = IF Len(p.got) = n THEN "result" ELSE "scan"
    /\ p.stage = "result" => p.finished = FALSE

LEMMA TakenIs ==
    ASSUME PageTypes(req), NEW r, NEW R, NEW p,
           p = [TransactionsForAddress(R) EXCEPT !.reader = r]
    PROVE  TakenAs(p, req, R, request_limit) /\ p.reader = r
<1> DEFINE q == req
           n == request_limit
           own == IF FastOf(q, R) THEN FirstOf(Own(R), n) ELSE <<>>
           x == [q EXCEPT !.got = own, !.own = Len(own), !.room = n,
                       !.slot = IF FastOf(q, R) THEN R.inproc - 1 ELSE FromOf(q, R),
                       !.stop = IF q.desc THEN LowerOf(q, R) ELSE TopOf(q, R),
                       !.cut = IF q.cursor # NoTx /\ q.cursor[1] \notin DOMAIN R.ring
                               THEN @ \union {"token"} ELSE @]
<1>3. TransactionsForAddress(R) = IF Len(own) = n THEN [x EXCEPT !.stage = "result", !.finished = FALSE]
                                  ELSE [x EXCEPT !.stage = "scan"]
  BY Zenon DEF TransactionsForAddress, FastOf, FromOf, TopOf, LowerOf
<1>2. own = IF FastOf(q, R) THEN FirstOf(Own(R), n) ELSE <<>>  OBVIOUS
<1> HIDE DEF own, n
<1>4. DOMAIN q = PageFields /\ q = [f \in PageFields |-> q[f]]  BY DEF PageTypes
<1>5. /\ DOMAIN x = PageFields /\ x = [f \in PageFields |-> x[f]]
      /\ x.kind = q.kind /\ x.commit = q.commit /\ x.desc = q.desc /\ x.limit = q.limit /\ x.filter = q.filter
      /\ x.behind = q.behind
      /\ x.page = q.page /\ x.listed = q.listed /\ x.cursor = q.cursor /\ x.kept = q.kept
      /\ x.got = own /\ x.own = Len(own) /\ x.room = n
      /\ x.slot = IF FastOf(q, R) THEN R.inproc - 1 ELSE FromOf(q, R)
      /\ x.stop = IF q.desc THEN LowerOf(q, R) ELSE TopOf(q, R)
      /\ x.cut = IF q.cursor # NoTx /\ q.cursor[1] \notin DOMAIN R.ring
                 THEN q.cut \union {"token"} ELSE q.cut
  BY <1>4 DEF PageFields
<1> HIDE DEF x
<1>6. PICK y : y = IF Len(own) = n THEN [x EXCEPT !.stage = "result", !.finished = FALSE]
                   ELSE [x EXCEPT !.stage = "scan"]
  OBVIOUS
<1>7. p = [y EXCEPT !.reader = r]  BY <1>3, <1>6
<1>8. /\ DOMAIN p = PageFields /\ p = [f \in PageFields |-> p[f]]
      /\ p.kind = x.kind /\ p.commit = x.commit /\ p.desc = x.desc /\ p.limit = x.limit /\ p.filter = x.filter
      /\ p.behind = x.behind
      /\ p.page = x.page /\ p.listed = x.listed /\ p.cursor = x.cursor /\ p.kept = x.kept
      /\ p.got = x.got /\ p.own = x.own /\ p.room = x.room /\ p.slot = x.slot /\ p.stop = x.stop
      /\ p.cut = x.cut /\ p.reader = r
      /\ p.stage = IF Len(own) = n THEN "result" ELSE "scan"
      /\ p.stage = "result" => p.finished = FALSE
  BY <1>5, <1>6, <1>7, ZenonT(40) DEF PageFields
<1> QED  BY <1>2, <1>5, <1>8 DEF TakenAs, SamePages, n

LEMMA TakeOrder ==
    ASSUME PageOK(req), req.stage = "queued", NEW R, NEW n, n \in Nat, n > 0, NEW p, TakenAs(p, req, R, n)
    PROVE  PageOK(p)
<1>1. PICK q : q = req  OBVIOUS
<1>2. PageTypes(q) /\ ShownOK(q) /\ q.stage = "queued"  BY <1>1 DEF PageOK
<1>3. TakenAs(p, q, R, n)  BY <1>1
<1>4. FastOf(q, R) => q.desc /\ q.cursor = NoTx /\ Own(R) # <<>>  BY DEF FastOf
<1>5. /\ p.got \in Seq(TxType) /\ InOrder(q.desc, p.got) /\ Len(p.got) <= n
      /\ \A tx : Has(p.got, tx) => tx \in TxSet /\ tx[1] = R.inproc /\ FastOf(q, R)
  <2>1. CASE FastOf(q, R)
    <3>1. Own(R) \in Seq(TxType) /\ InOrder(TRUE, Own(R))  BY OwnIs
    <3>2. /\ FirstOf(Own(R), n) \in Seq(TxType) /\ InOrder(TRUE, FirstOf(Own(R), n))
          /\ Len(FirstOf(Own(R), n)) <= n
          /\ \A tx : Has(FirstOf(Own(R), n), tx) => Has(Own(R), tx)
      BY <3>1, FirstOrder
    <3>3. p.got = FirstOf(Own(R), n) /\ q.desc = TRUE  BY <1>2, <1>3, <1>4, <2>1 DEF TakenAs, PageTypes
    <3> QED  BY <2>1, <3>2, <3>3, OwnIs
  <2>2. CASE ~ FastOf(q, R)
    <3>1. p.got = <<>>  BY <1>3, <2>2 DEF TakenAs
    <3> QED  BY <3>1, HasNone DEF InOrder
  <2> QED  BY <2>1, <2>2
<1>6. p.page = q.page /\ p.listed = q.listed /\ p.cursor = q.cursor /\ p.own = Len(p.got)
      /\ p.desc = q.desc /\ p.kind = q.kind /\ p.commit = q.commit /\ p.limit = q.limit /\ p.filter = q.filter
      /\ p.stage \in {"scan", "result"}
  BY <1>3, SameIs DEF TakenAs
<1>7. PageTypes(p)
  <2>1. Len(p.got) \in Nat  BY <1>5
  <2> QED  BY <1>2, <1>3, <1>5, <1>6, <2>1 DEF PageTypes, TakenAs, SamePages, AtWork
<1>8. ShownOK(p)
  <2>1. Listing(p) = Listing(q)  BY <1>6 DEF Listing
  <2> QED  BY <1>2, <1>6, <2>1 DEF ShownOK, AtWork
<1>9. GotOK(p)
  <2>1. \A tx : Has(p.got, tx) => tx \in TxSet /\ (p.cursor # NoTx => Comes(p.desc, p.cursor, tx))
    BY <1>4, <1>5, <1>6
  <2>2. ASSUME p.stage = "scan"
        PROVE  /\ p.cursor # NoTx => p.slot = p.cursor[1]
               /\ p.room \in Nat /\ Len(p.got) < p.room
               /\ p.got # <<>> => /\ p.desc /\ p.cursor = NoTx /\ p.slot \in Nat
                                  /\ \A tx : Has(p.got, tx) => tx[1] = p.slot + 1
    <3>1. p.room = n /\ Len(p.got) # n  BY <1>3, <2>2 DEF TakenAs
    <3>2. Len(p.got) \in Nat  BY <1>5
    <3>3. Len(p.got) < p.room  BY <1>5, <3>1, <3>2
    <3>4. p.cursor # NoTx => p.slot = p.cursor[1]
      <4>1. p.cursor # NoTx => ~ FastOf(q, R)  BY <1>4, <1>6
      <4> QED  BY <1>3, <1>6, <4>1 DEF TakenAs, FromOf
    <3>5. ASSUME p.got # <<>>
          PROVE  /\ p.desc /\ p.cursor = NoTx /\ p.slot \in Nat
                 /\ \A tx : Has(p.got, tx) => tx[1] = p.slot + 1
      <4>1. FastOf(q, R)  BY <1>3, <3>5 DEF TakenAs
      <4>2. R.inproc \in LiveSlots  BY <1>4, <4>1, OwnIs
      <4>3. R.inproc \in Nat /\ R.inproc > 0  BY <4>2 DEF LiveSlots, Slots
      <4>4. p.slot = R.inproc - 1  BY <1>3, <4>1 DEF TakenAs
      <4>5. p.slot \in Nat /\ p.slot + 1 = R.inproc  BY <4>3, <4>4
      <4> QED  BY <1>4, <1>5, <1>6, <4>1, <4>5
    <3> QED  BY <3>1, <3>3, <3>4, <3>5
  <2> QED  BY <1>5, <1>6, <2>1, <2>2 DEF GotOK
<1> QED  BY <1>7, <1>8, <1>9 DEF PageOK

\* The slots a scan goes through.
ScanSlots(q) ==
    {s \in indexed : IF q.desc THEN s <= q.slot /\ s >= q.stop ELSE s >= q.slot /\ s <= q.stop}

\* What a scan adds to a page.
ScannedAs(p, q, more) ==
    /\ SamePages(p, q)
    /\ p.page = q.page /\ p.listed = q.listed /\ p.cursor = q.cursor /\ p.kept = q.kept
    /\ p.own = q.own /\ p.reader = q.reader /\ p.stage = "scanned" /\ p.got = q.got \o more
    /\ p.finished = (Len(more) < q.room - Len(q.got))
    /\ p.cut = IF q.cursor # NoTx /\ q.cursor[1] \notin indexed
               THEN q.cut \union {"token"} ELSE q.cut

\* The rows it adds, and those it leaves for the next one.
LEMMA ScannedIs ==
    ASSUME PageOK(req), TransactionsForAddress2
    PROVE  \E more \in Seq(TxType) :
              /\ ScannedAs(req', req, more) /\ InOrder(req.desc, more)
              /\ \A tx : Has(more, tx) =>
                    /\ tx \in TxSet /\ tx[1] \in ScanSlots(req)
                    /\ req.cursor # NoTx => Comes(req.desc, req.cursor, tx)
              /\ \A tx \in TxSet :
                    /\ tx[1] \in ScanSlots(req)
                    /\ \/ req.cursor = NoTx
                       \/ req.cursor[1] \in ScanSlots(req) /\ Comes(req.desc, req.cursor, tx)
                    => \/ Has(more, tx)
                       \/ /\ Len(more) = req.room - Len(req.got)
                          /\ more # <<>> /\ Comes(req.desc, LastOf(more), tx)
<1>1. PICK q : q = req  OBVIOUS
<1>2. PageTypes(q) /\ GotOK(q) /\ q.stage = "scan"  BY <1>1 DEF PageOK, TransactionsForAddress2
<1>3. q.desc \in BOOLEAN /\ q.cursor \in TxSet \union {NoTx}  BY <1>2 DEF PageTypes
<1>4. q.cursor # NoTx => \A s \in ScanSlots(q) : Beyond(q.desc, q.cursor, s)
  BY <1>2, <1>3 DEF GotOK, ScanSlots, Beyond
<1> DEFINE rows == Rows(ScanSlots(req), req.desc)
           same == {i \in DOMAIN rows : rows[i][2] = req.cursor[2]}
           at == FirstAt(same)
           kept == {i \in DOMAIN rows : ~ SkippedByCursor(rows, i, at)}
           left == Part(rows, kept)
           room == req.room - Len(req.got)
           more == FirstOf(left, room)
<1>0. req' = [req EXCEPT !.stage = "scanned", !.got = req.got \o more,
                    !.finished = Len(more) < room,
                    !.cut = IF req.cursor # NoTx /\ req.cursor[1] \notin indexed
                            THEN @ \union {"token"} ELSE @]
  BY DEF TransactionsForAddress2, spawn_transactions_for_address, Rows, ScanSlots
<1>5. rows = Rows(ScanSlots(q), q.desc)  BY <1>1
<1>a. same = {i \in DOMAIN rows : rows[i][2] = q.cursor[2]}  BY <1>1
<1>6. at = FirstAt(same)  OBVIOUS
<1>b. kept = {i \in DOMAIN rows : ~ SkippedByCursor(rows, i, at)}  OBVIOUS
<1>7. left = Part(rows, kept)  OBVIOUS
<1>9. room = q.room - Len(q.got)  BY <1>1
<1>11. more = FirstOf(left, room)  OBVIOUS
<1> HIDE DEF rows, same, at, kept, left, room, more
<1>8. /\ left \in Seq(TxType) /\ InOrder(q.desc, left)
      /\ \A tx : Has(left, tx) =>
            /\ tx \in TxSet /\ tx[1] \in ScanSlots(q)
            /\ q.cursor # NoTx => Comes(q.desc, q.cursor, tx)
      /\ \A tx \in TxSet :
            /\ tx[1] \in ScanSlots(q)
            /\ \/ q.cursor = NoTx
               \/ q.cursor[1] \in ScanSlots(q) /\ Comes(q.desc, q.cursor, tx)
            => Has(left, tx)
  <2>1. req.desc \in BOOLEAN /\ req.cursor \in TxSet \union {NoTx}  BY <1>1, <1>3
  <2>2. req.cursor # NoTx => \A s \in ScanSlots(q) : Beyond(req.desc, req.cursor, s)  BY <1>1, <1>4
  <2>3. rows = Rows(ScanSlots(q), req.desc)  BY <1>1, <1>5
  <2>4. \A i : i \in same <=> i \in DOMAIN rows /\ rows[i][2] = req.cursor[2]  BY <1>1, <1>a
  <2>6. \A i : i \in kept <=> i \in DOMAIN rows /\ ~ SkippedByCursor(rows, i, at)  BY <1>b
  <2> HIDE <1>1
  <2>5. /\ left \in Seq(TxType) /\ InOrder(req.desc, left)
        /\ \A tx : Has(left, tx) =>
              /\ tx \in TxSet /\ tx[1] \in ScanSlots(q)
              /\ req.cursor # NoTx => Comes(req.desc, req.cursor, tx)
        /\ \A tx \in TxSet :
              /\ tx[1] \in ScanSlots(q)
              /\ \/ req.cursor = NoTx
                 \/ req.cursor[1] \in ScanSlots(q) /\ Comes(req.desc, req.cursor, tx)
              => Has(left, tx)
    BY <1>6, <1>7, <2>1, <2>2, <2>3, <2>4, <2>6, ScanIs
  <2> QED  BY <1>1, <2>5
<1>10. room \in Nat /\ room > 0
  <2>1. Len(q.got) \in Nat /\ q.room \in Nat /\ Len(q.got) < q.room  BY <1>2, LimitIs DEF GotOK
  <2> QED  BY <1>9, <2>1
<1>12. /\ more \in Seq(TxType) /\ InOrder(q.desc, more)
       /\ \A tx : Has(more, tx) => Has(left, tx)
       /\ \A tx : Has(left, tx) /\ ~ Has(more, tx) =>
             /\ Len(more) = room
             /\ room > 0 => Comes(q.desc, LastOf(more), tx)
  BY <1>8, <1>10, <1>11, FirstOrder
<1>13. req' = [q EXCEPT !.stage = "scanned", !.got = q.got \o more,
                    !.finished = Len(more) < room,
                    !.cut = IF q.cursor # NoTx /\ q.cursor[1] \notin indexed
                            THEN @ \union {"token"} ELSE @]
  BY <1>0, <1>1
<1>14. ScannedAs(req', q, more)
  BY <1>2, <1>9, <1>13 DEF ScannedAs, SamePages, PageTypes, PageFields
<1>15. Len(more) = room => more # <<>>  BY <1>10, <1>12
<1> QED  BY <1>1, <1>8, <1>9, <1>10, <1>12, <1>14, <1>15


LEMMA ScanOrder ==
    ASSUME PageOK(req), TransactionsForAddress2
    PROVE  PageOK(req') /\ SamePages(req', req)
<1>1. PICK q, p : q = req /\ p = req'  OBVIOUS
<1>2. PageTypes(q) /\ ShownOK(q) /\ GotOK(q) /\ q.stage = "scan"
  BY <1>1 DEF PageOK, TransactionsForAddress2
<1>3. PICK more \in Seq(TxType) :
         /\ ScannedAs(p, q, more) /\ InOrder(q.desc, more)
         /\ \A tx : Has(more, tx) =>
               /\ tx \in TxSet /\ tx[1] \in ScanSlots(q)
               /\ q.cursor # NoTx => Comes(q.desc, q.cursor, tx)
  <2>1. \E more \in Seq(TxType) :
         /\ ScannedAs(req', req, more) /\ InOrder(req.desc, more)
         /\ \A tx : Has(more, tx) =>
               /\ tx \in TxSet /\ tx[1] \in ScanSlots(req)
               /\ req.cursor # NoTx => Comes(req.desc, req.cursor, tx)
    BY ScannedIs
  <2> QED  BY <1>1, <2>1
<1>4. /\ p.page = q.page /\ p.listed = q.listed /\ p.cursor = q.cursor /\ p.own = q.own
      /\ p.desc = q.desc /\ p.kind = q.kind /\ p.commit = q.commit /\ p.limit = q.limit /\ p.filter = q.filter
      /\ p.stage = "scanned" /\ p.got = q.got \o more /\ q.got \in Seq(TxType)
  BY <1>2, <1>3, SameIs DEF ScannedAs, PageTypes
<1>5. ASSUME NEW x, NEW y, Has(q.got, x), Has(more, y) PROVE Comes(q.desc, x, y)
  <2>1. q.got # <<>>  BY <1>5, HasNone
  <2>2. q.desc /\ q.slot \in Nat /\ x[1] = q.slot + 1  BY <1>2, <1>5, <2>1 DEF GotOK
  <2>3. y \in TxSet /\ y[1] \in ScanSlots(q)  BY <1>3, <1>5
  <2>4. y[1] <= q.slot  BY <2>2, <2>3 DEF ScanSlots
  <2>5. y[1] \in Nat  BY <2>3, TxsIs, TxIs
  <2>6. x[1] > y[1]  BY <2>2, <2>4, <2>5
  <2> QED  BY <2>2, <2>6 DEF Comes, Newer
<1>6. /\ p.got \in Seq(TxType) /\ \A tx : Has(p.got, tx) <=> Has(q.got, tx) \/ Has(more, tx)
      /\ InOrder(q.desc, p.got)
  <2>1. InOrder(q.desc, q.got)  BY <1>2 DEF GotOK, Holding
  <2> QED  BY <1>3, <1>4, <1>5, <2>1, AppendOrder
<1>7. PageTypes(p)  BY <1>2, <1>3, <1>4, <1>6 DEF PageTypes, ScannedAs, SamePages, AtWork
<1>8. ShownOK(p)
  <2>1. Listing(p) = Listing(q)  BY <1>4 DEF Listing
  <2> QED  BY <1>2, <1>4, <2>1 DEF ShownOK, AtWork
<1>9. GotOK(p)
  <2>1. \A tx : Has(p.got, tx) => tx \in TxSet /\ (q.cursor # NoTx => Comes(q.desc, q.cursor, tx))
    BY <1>2, <1>3, <1>6 DEF GotOK, Holding
  <2> QED  BY <1>4, <1>6, <2>1 DEF GotOK
<1> QED  BY <1>1, <1>3, <1>7, <1>8, <1>9 DEF PageOK, ScannedAs

\* The block times: positions whose slot is listed still stay.
TimedAt(q, R) ==
    {i \in DOMAIN q.got : i <= q.own \/ get_block_location(R.ring, q.got[i][1]) = "found"}

TimedAs(p, q, R) ==
    /\ SamePages(p, q)
    /\ p.page = q.page /\ p.listed = q.listed /\ p.cursor = q.cursor /\ p.kept = q.kept
    /\ p.own = q.own /\ p.cut = q.cut /\ p.stage = "result" /\ p.got = Part(q.got, TimedAt(q, R))
    /\ p.finished = (q.finished /\ TimedAt(q, R) = DOMAIN q.got)

LEMMA TimedIs ==
    ASSUME PageTypes(req), NEW R, NEW p, p = AddBlockTimes(R)
    PROVE  TimedAs(p, req, R)
<1>1. AddBlockTimes(R) =
        [req EXCEPT !.stage = "result", !.got = Part(req.got, TimedAt(req, R)),
                    !.finished = req.finished /\ TimedAt(req, R) = DOMAIN req.got]
  BY DEF AddBlockTimes, TimedAt
<1>2. PICK got, fin : got = Part(req.got, TimedAt(req, R))
                      /\ fin = (req.finished /\ TimedAt(req, R) = DOMAIN req.got)
  OBVIOUS
<1>3. p = [req EXCEPT !.stage = "result", !.got = got, !.finished = fin]  BY <1>1, <1>2
<1>4. /\ SamePages(p, req)
      /\ p.page = req.page /\ p.listed = req.listed /\ p.cursor = req.cursor /\ p.kept = req.kept
      /\ p.own = req.own /\ p.cut = req.cut /\ p.stage = "result" /\ p.got = got /\ p.finished = fin
  BY <1>3 DEF SamePages, PageTypes, PageFields
<1> QED  BY <1>2, <1>4 DEF TimedAs

LEMMA TimedOrder ==
    ASSUME NEW q, PageOK(q), q.stage = "scanned", NEW R, NEW p, TimedAs(p, q, R)
    PROVE  /\ PageOK(p)
           /\ \A tx : Has(p.got, tx) <=> \E i \in TimedAt(q, R) : q.got[i] = tx
<1>1. PageTypes(q) /\ ShownOK(q) /\ GotOK(q)  BY DEF PageOK
<1>2. /\ p.page = q.page /\ p.listed = q.listed /\ p.cursor = q.cursor /\ p.own = q.own
      /\ p.desc = q.desc /\ p.kind = q.kind /\ p.commit = q.commit /\ p.limit = q.limit /\ p.filter = q.filter
      /\ p.stage = "result" /\ p.got = Part(q.got, TimedAt(q, R)) /\ q.got \in Seq(TxType)
  BY <1>1, SameIs DEF TimedAs, PageTypes
<1>3. /\ p.got \in Seq(TxType) /\ InOrder(q.desc, p.got)
      /\ \A tx : Has(p.got, tx) <=> \E i \in TimedAt(q, R) : q.got[i] = tx
  <2>1. TimedAt(q, R) \subseteq DOMAIN q.got  BY DEF TimedAt
  <2>2. InOrder(q.desc, q.got)  BY <1>1 DEF GotOK, Holding
  <2>3. PICK at : at = TimedAt(q, R)  OBVIOUS
  <2>4. /\ Part(q.got, at) \in Seq(TxType)
        /\ InOrder(q.desc, q.got) => InOrder(q.desc, Part(q.got, at))
        /\ \A tx : Has(Part(q.got, at), tx) <=> \E i \in at : q.got[i] = tx
    BY <1>2, <2>1, <2>3, PartOrder
  <2> QED  BY <1>2, <2>2, <2>3, <2>4
<1>4. PageTypes(p)  BY <1>1, <1>2, <1>3 DEF PageTypes, TimedAs, SamePages, AtWork
<1>5. ShownOK(p)
  <2>1. Listing(p) = Listing(q)  BY <1>2 DEF Listing
  <2> QED  BY <1>1, <1>2, <2>1 DEF ShownOK, AtWork
<1>6. \A tx : Has(p.got, tx) => Has(q.got, tx)  BY <1>3 DEF Has, TimedAt
<1>7. GotOK(p)  BY <1>1, <1>2, <1>3, <1>6 DEF GotOK, Holding
<1> QED  BY <1>3, <1>4, <1>5, <1>7 DEF PageOK


\* A page when what was read is looked at.
PagedAs(p, q, more) ==
    /\ SamePages(p, q)
    /\ p.listed = q.listed /\ p.page = q.page \o more /\ p.kept = q.kept /\ p.got = <<>> /\ p.own = 0
    /\ LET reached == Len(p.page) = q.limit
           ends == reached \/ q.finished \/ q.got = <<>>
       IN  /\ p.stage = IF ends THEN "page" ELSE "queued"
           /\ p.cursor = IF ends THEN q.cursor ELSE LastOf(q.got)
           /\ ends => /\ p.token = IF (q.finished /\ ~ reached) \/ p.page = <<>>
                                   THEN NoTx ELSE LastOf(p.page)
                      /\ p.cut = IF q.finished \/ reached THEN q.cut ELSE q.cut \union {"emptied"}
           /\ ~ ends => p.cut = q.cut

LEMMA PagedIs ==
    ASSUME PageOK(req), req.stage = "result", NEW p, p = RpcRequestTransactionsForAddress
    PROVE  \E more \in Seq(TxType) :
              /\ PagedAs(p, req, more) /\ InOrder(req.desc, more)
              /\ Len(req.page) + Len(more) <= req.limit
              /\ \A tx : Has(more, tx) => Has(req.got, tx) /\ Passes(req.filter, tx)
              /\ \A tx : Has(req.got, tx) /\ Passes(req.filter, tx) =>
                    \/ Has(more, tx)
                    \/ /\ Len(req.page) + Len(more) = req.limit
                       /\ more # <<>> /\ Comes(req.desc, LastOf(more), tx)
<1> DEFINE at == {i \in DOMAIN req.got : Passes(req.filter, req.got[i])}
           passed == Part(req.got, at)
           room == req.limit - Len(req.page)
           more == FirstOf(passed, room)
           page == req.page \o more
           x == [req EXCEPT !.page = page, !.got = <<>>, !.own = 0]
<1>1. p = IF Len(page) = req.limit \/ req.finished \/ req.got = <<>>
          THEN [x EXCEPT !.stage = "page", !.token = NextToken(req.got, page, Len(page) = req.limit),
                         !.cut = IF req.finished \/ Len(page) = req.limit THEN @ ELSE @ \union {"emptied"}]
          ELSE [x EXCEPT !.stage = "queued", !.cursor = LastOf(req.got)]
  BY DEF RpcRequestTransactionsForAddress
<1>2. PageTypes(req) /\ ShownOK(req) /\ GotOK(req)  BY DEF PageOK
<1>3. at \subseteq DOMAIN req.got /\ \A i : i \in at <=> i \in DOMAIN req.got /\ Passes(req.filter, req.got[i])
  OBVIOUS
<1>4. passed = Part(req.got, at) /\ more = FirstOf(passed, room) /\ page = req.page \o more
      /\ room = req.limit - Len(req.page)
  OBVIOUS
<1>5. x = [req EXCEPT !.page = page, !.got = <<>>, !.own = 0]
  OBVIOUS
<1>6. NextToken(req.got, page, Len(page) = req.limit) =
        IF (req.finished /\ Len(page) # req.limit) \/ page = <<>> THEN NoTx ELSE LastOf(page)
  BY DEF NextToken
<1> HIDE DEF at, passed, room, more, page, x
<1>7. req.got \in Seq(TxType) /\ req.page \in Seq(TxType) /\ InOrder(req.desc, req.got)
  BY <1>2 DEF PageTypes, GotOK, Holding
<1>8. /\ passed \in Seq(TxType) /\ InOrder(req.desc, passed)
      /\ \A tx : Has(passed, tx) <=> Has(req.got, tx) /\ Passes(req.filter, tx)
  <2>1. /\ Part(req.got, at) \in Seq(TxType)
        /\ InOrder(req.desc, req.got) => InOrder(req.desc, Part(req.got, at))
        /\ \A tx : Has(Part(req.got, at), tx) <=> \E i \in at : req.got[i] = tx
    BY <1>3, <1>7, PartOrder
  <2>2. \A tx : (\E i \in at : req.got[i] = tx) <=> Has(req.got, tx) /\ Passes(req.filter, tx)
    BY <1>3 DEF Has
  <2> QED  BY <1>4, <1>7, <2>1, <2>2
<1>9. room \in Nat /\ room > 0 /\ Len(req.page) + room = req.limit /\ Len(req.page) \in Nat
  <2>1. Len(req.page) < req.limit  BY <1>2 DEF ShownOK, AtWork
  <2>2. Len(req.page) \in Nat /\ req.limit \in Nat  BY <1>2, LimitIs
  <2> QED  BY <1>4, <2>1, <2>2
<1>10. /\ more \in Seq(TxType) /\ InOrder(req.desc, more) /\ Len(more) <= room
       /\ \A tx : Has(more, tx) => Has(passed, tx)
       /\ \A tx : Has(passed, tx) /\ ~ Has(more, tx) =>
             /\ Len(more) = room
             /\ room > 0 => Comes(req.desc, LastOf(more), tx)
  <2>1. /\ FirstOf(passed, room) \in Seq(TxType) /\ InOrder(req.desc, FirstOf(passed, room))
        /\ Len(FirstOf(passed, room)) <= room
        /\ \A tx : Has(FirstOf(passed, room), tx) => Has(passed, tx)
        /\ \A tx : Has(passed, tx) /\ ~ Has(FirstOf(passed, room), tx) =>
              /\ Len(FirstOf(passed, room)) = room
              /\ room > 0 => Comes(req.desc, LastOf(FirstOf(passed, room)), tx)
    <3> HIDE <1>4
    <3> QED  BY <1>8, <1>9, FirstOrder
  <2> QED  BY <1>4, <2>1
<1>11. Len(more) \in Nat /\ (Len(more) = room => more # <<>>)  BY <1>9, <1>10
<1>12. Len(req.page) + Len(more) <= req.limit
       /\ (Len(more) = room => Len(req.page) + Len(more) = req.limit)
  BY <1>9, <1>10, <1>11
<1>13. /\ DOMAIN x = PageFields /\ x = [f \in PageFields |-> x[f]]
       /\ x.kind = req.kind /\ x.commit = req.commit /\ x.desc = req.desc /\ x.limit = req.limit
       /\ x.behind = req.behind /\ x.filter = req.filter /\ x.listed = req.listed /\ x.page = page /\ x.kept = req.kept
       /\ x.got = <<>> /\ x.own = 0 /\ x.cursor = req.cursor /\ x.cut = req.cut
  BY <1>2, <1>5 DEF PageTypes, PageFields
<1>14. /\ DOMAIN p = PageFields /\ p = [f \in PageFields |-> p[f]]
       /\ p.kind = x.kind /\ p.commit = x.commit /\ p.desc = x.desc /\ p.limit = x.limit
       /\ p.behind = x.behind /\ p.filter = x.filter /\ p.listed = x.listed /\ p.page = x.page /\ p.kept = x.kept
       /\ p.got = x.got /\ p.own = x.own
  BY <1>1, <1>13, ZenonT(40) DEF PageFields
<1>17. /\ SamePages(p, req) /\ p.listed = req.listed /\ p.page = page /\ p.page = req.page \o more
       /\ p.kept = req.kept /\ p.got = <<>> /\ p.own = 0
  BY <1>4, <1>13, <1>14 DEF SamePages
<1>15. CASE Len(page) = req.limit \/ req.finished \/ req.got = <<>>
  <2>1. p.stage = "page" /\ p.cursor = x.cursor /\ p.token = NextToken(req.got, page, Len(page) = req.limit)
        /\ p.cut = IF req.finished \/ Len(page) = req.limit THEN x.cut ELSE x.cut \union {"emptied"}
    BY <1>1, <1>13, <1>15 DEF PageFields
  <2>2. PagedAs(p, req, more)
    BY <1>17, <1>6, <1>13, <1>15, <2>1 DEF PagedAs
  <2> QED  BY <1>8, <1>9, <1>10, <1>11, <1>12, <2>2
<1>16. CASE ~ (Len(page) = req.limit \/ req.finished \/ req.got = <<>>)
  <2>1. p.stage = "queued" /\ p.cursor = LastOf(req.got) /\ p.cut = x.cut
    BY <1>1, <1>13, <1>16 DEF PageFields
  <2>2. PagedAs(p, req, more)
    BY <1>17, <1>13, <1>16, <2>1 DEF PagedAs
  <2> QED  BY <1>8, <1>9, <1>10, <1>11, <1>12, <2>2
<1> QED  BY <1>15, <1>16

LEMMA PagedOrder ==
    ASSUME NEW q, PageOK(q), q.stage = "result", NEW p, NEW more \in Seq(TxType),
           PagedAs(p, q, more), InOrder(q.desc, more), Len(q.page) + Len(more) <= q.limit,
           \A tx : Has(more, tx) => Has(q.got, tx) /\ Passes(q.filter, tx)
    PROVE  /\ PageOK(p)
           /\ \A tx : Has(Listing(p), tx) <=> Has(Listing(q), tx) \/ Has(more, tx)
<1>1. PageTypes(q) /\ ShownOK(q) /\ GotOK(q)  BY DEF PageOK
<1>2. /\ p.desc = q.desc /\ p.kind = q.kind /\ p.commit = q.commit /\ p.limit = q.limit /\ p.filter = q.filter
      /\ p.listed = q.listed /\ p.page = q.page \o more /\ p.got = <<>> /\ p.own = 0
      /\ q.listed \in Seq(TxType) /\ q.page \in Seq(TxType) /\ q.got \in Seq(TxType)
      /\ q.desc \in BOOLEAN /\ q.limit \in Nat /\ q.limit > 0 /\ q.cursor \in TxSet \union {NoTx}
      /\ DOMAIN p = PageFields /\ p = [f \in PageFields |-> p[f]]
  BY <1>1, SameIs, LimitIs DEF PagedAs, PageTypes, SamePages
<1>3. /\ p.page \in Seq(TxType) /\ Len(p.page) = Len(q.page) + Len(more)
  BY <1>2, AppendOrder
<1>4. PICK ends : ends = (Len(p.page) = q.limit \/ q.finished \/ q.got = <<>>)  OBVIOUS
<1>5. /\ p.stage = IF ends THEN "page" ELSE "queued"
      /\ p.cursor = IF ends THEN q.cursor ELSE LastOf(q.got)
      /\ ends => p.token = NoTx \/ (p.page # <<>> /\ p.token = LastOf(p.page))
  BY <1>2, <1>4 DEF PagedAs
<1>6. /\ InOrder(q.desc, q.got)
      /\ \A tx : Has(q.got, tx) => tx \in TxSet /\ (q.cursor # NoTx => Comes(q.desc, q.cursor, tx))
      /\ InOrder(q.desc, Listing(q)) /\ Listing(q) \in Seq(TxType)
      /\ \A tx : Has(Listing(q), tx) => tx \in TxSet /\ Passes(q.filter, tx)
      /\ \A tx : Has(Listing(q), tx) => q.cursor # NoTx /\ (tx = q.cursor \/ Comes(q.desc, tx, q.cursor))
  BY <1>1, ListsIs DEF GotOK, ShownOK, Holding, AtWork
<1>7. TxSet \subseteq TxType  BY TxsIs
<1>8. \A x, y : Has(Listing(q), x) /\ Has(q.got, y) => Comes(q.desc, x, y)
  <2> TAKE x, y
  <2> HAVE Has(Listing(q), x) /\ Has(q.got, y)
  <2>1. x \in TxType /\ y \in TxType /\ q.cursor \in TxType  BY <1>2, <1>6, <1>7
  <2>2. Comes(q.desc, q.cursor, y) /\ (x = q.cursor \/ Comes(q.desc, x, q.cursor))  BY <1>6
  <2> QED  BY <1>2, <2>1, <2>2, ComesThen
<1>9. Listing(p) = Listing(q) \o more
  <2>1. q.listed \in Seq(TxType) /\ q.page \in Seq(TxType)  BY <1>2
  <2>2. PICK a \in Seq(TxType), b \in Seq(TxType) : a = q.listed /\ b = q.page  BY <2>1
  <2>3. (a \o b) \o more = a \o (b \o more)  BY ConcatAssociative
  <2> QED  BY <1>2, <2>2, <2>3 DEF Listing
<1>10. /\ Listing(p) \in Seq(TxType) /\ InOrder(q.desc, Listing(p))
       /\ \A tx : Has(Listing(p), tx) <=> Has(Listing(q), tx) \/ Has(more, tx)
  <2>1. \A x, y : Has(Listing(q), x) /\ Has(more, y) => Comes(q.desc, x, y)  BY <1>8
  <2>2. PICK l : l = Listing(q)  OBVIOUS
  <2> QED  BY <1>6, <1>9, <2>1, <2>2, AppendOrder
<1>11. ASSUME ~ ends
       PROVE  /\ LastOf(q.got) \in TxSet
              /\ \A tx : Has(Listing(p), tx) =>
                    tx = LastOf(q.got) \/ Comes(q.desc, tx, LastOf(q.got))
  <2>1. q.got # <<>>  BY <1>4, <1>11
  <2>2. /\ Has(q.got, LastOf(q.got)) /\ LastOf(q.got) \in TxType
        /\ \A tx : Has(q.got, tx) => tx = LastOf(q.got) \/ Comes(q.desc, tx, LastOf(q.got))
    BY <1>2, <1>6, <2>1, LastOrder
  <2> QED  BY <1>6, <1>8, <1>10, <2>2
<1>12. PageTypes(p)
  BY <1>1, <1>2, <1>3, <1>5, <1>11 DEF PageTypes, AtWork
<1>13. ShownOK(p)
  <2>1. \A tx : Has(Listing(p), tx) => tx \in TxSet /\ Passes(p.filter, tx)  BY <1>2, <1>6, <1>10
  <2>2. ASSUME p.stage \in AtWork
        PROVE  /\ Len(p.page) < p.limit
               /\ \A tx : Has(Listing(p), tx) =>
                     p.cursor # NoTx /\ (tx = p.cursor \/ Comes(p.desc, tx, p.cursor))
    <3>1. ~ ends  BY <1>5, <2>2 DEF AtWork
    <3>0. Len(p.page) # q.limit  BY <1>4, <3>1
    <3>4. Len(p.page) \in Nat  BY <1>3
    <3>2. Len(p.page) < p.limit  BY <1>2, <1>3, <3>0, <3>4
    <3>3. p.cursor = LastOf(q.got) /\ p.cursor # NoTx  BY <1>1, <1>5, <1>11, <3>1, LimitIs
    <3> QED  BY <1>2, <1>11, <3>1, <3>2, <3>3
  <2> QED  BY <1>2, <1>5, <1>10, <2>1, <2>2 DEF ShownOK
<1>14. GotOK(p)  BY <1>5 DEF GotOK, Holding
<1> QED  BY <1>10, <1>12, <1>13, <1>14 DEF PageOK

LEMMA NextPageIs ==
    ASSUME PageOK(req), next_page
    PROVE  /\ PageOK(req') /\ Listing(req') = Listing(req)
           /\ req'.kept = req.kept /\ req'.cut = req.cut /\ SamePages(req', req) /\ req.stage = "page"
           /\ IF req.token = NoTx THEN req'.stage = "done"
              ELSE req'.stage = "resolve" /\ req'.cursor = req.token
<1>1. PICK q, p : q = req /\ p = req'  OBVIOUS
<1>2. PageTypes(q) /\ ShownOK(q) /\ q.stage = "page"  BY <1>1 DEF PageOK, next_page
<1>3. PICK l : l = q.listed \o q.page  OBVIOUS
<1>4. p = IF q.token = NoTx THEN [[q EXCEPT !.listed = l, !.page = <<>>] EXCEPT !.stage = "done"]
          ELSE [[q EXCEPT !.listed = l, !.page = <<>>] EXCEPT !.stage = "resolve", !.cursor = q.token]
  BY <1>1, <1>3 DEF next_page
<1>5. /\ SamePages(p, q) /\ p.kept = q.kept /\ p.cut = q.cut /\ p.got = q.got /\ p.own = q.own
      /\ p.listed = l /\ p.page = <<>>
      /\ q.token = NoTx => p.stage = "done" /\ p.cursor = q.cursor
      /\ q.token # NoTx => p.stage = "resolve" /\ p.cursor = q.token
  BY <1>2, <1>4 DEF SamePages, PageTypes, PageFields
<1>6. l \in Seq(TxType) /\ l = Listing(q) /\ l \o <<>> = l  BY <1>2, <1>3, ListsIs DEF Listing
<1>7. Listing(p) = Listing(q)  BY <1>5, <1>6 DEF Listing
<1>8. ASSUME q.token # NoTx
      PROVE  /\ q.token \in TxSet
             /\ \A tx : Has(Listing(q), tx) => tx = q.token \/ Comes(q.desc, tx, q.token)
  <2>1. q.page # <<>> /\ q.token = LastOf(q.page) /\ InOrder(q.desc, l)
        /\ q.page \in Seq(TxType) /\ q.listed \in Seq(TxType)
    BY <1>2, <1>6, <1>8 DEF ShownOK, PageTypes
  <2>2. LastOf(l) = LastOf(q.page) /\ l # <<>>
    <3>1. PICK m, n : m = Len(q.listed) /\ n = Len(q.page)  OBVIOUS
    <3>2. m \in Nat /\ n \in Nat /\ n > 0  BY <2>1, <3>1
    <3>3. Len(l) = m + n /\ \A i \in 1 .. m + n : l[i] = IF i <= m THEN q.listed[i] ELSE q.page[i - m]
      BY <1>3, <2>1, <3>1, ConcatProperties
    <3>4. m + n \in 1 .. m + n /\ ~ (m + n <= m) /\ (m + n) - m = n /\ m + n # 0  BY <3>2
    <3>5. l[m + n] = q.page[n]  BY <3>3, <3>4
    <3>6. l # <<>>  BY <3>3, <3>4
    <3> QED  BY <3>1, <3>3, <3>5, <3>6 DEF LastOf
  <2>3. /\ Has(l, LastOf(l))
        /\ \A tx : Has(l, tx) => tx = LastOf(l) \/ Comes(q.desc, tx, LastOf(l))
    BY <1>6, <2>1, <2>2, LastOrder
  <2> QED  BY <1>2, <1>6, <2>1, <2>2, <2>3 DEF ShownOK
<1>9. PageTypes(p)
  <2>1. p.stage \in {"done", "resolve"} /\ p.cursor \in TxSet \union {NoTx}
    BY <1>2, <1>5, <1>8 DEF PageTypes
  <2>2. <<>> \in Seq(TxType)  OBVIOUS
  <2> QED  BY <1>2, <1>5, <1>6, <2>1, <2>2, SameIs DEF PageTypes, SamePages, AtWork
<1>10. ShownOK(p)
  <2>1. Len(p.page) < p.limit  BY <1>5, <1>9, LimitIs
  <2>2. p.stage \in AtWork => p.cursor # NoTx /\ q.token # NoTx /\ p.cursor = q.token
    BY <1>5 DEF AtWork
  <2> QED  BY <1>2, <1>5, <1>7, <1>8, <2>1, <2>2, SameIs DEF ShownOK
<1>11. GotOK(p)  BY <1>5 DEF GotOK, Holding
<1> QED  BY <1>1, <1>2, <1>5, <1>7, <1>9, <1>10, <1>11 DEF PageOK

LEMMA AskedPages ==
    ASSUME NEW desc \in BOOLEAN, NEW limit \in Limits, NEW f \in Filters, NEW c \in Commitments,
           NEW p, p = AskedTransactions(desc, limit, f, c)
    PROVE  PageOK(p) /\ p.stage = "resolve" /\ p.kept = Kept(c) /\ p.commit = c /\ p.cursor = NoTx
           /\ p.behind = Behind
<1>1. PICK kept, behind : kept = Kept(c) /\ behind = Behind  OBVIOUS
<1>2. /\ DOMAIN p = PageFields /\ p = [g \in PageFields |-> p[g]]
      /\ p.kind = "getTransactionsForAddress" /\ p.stage = "resolve" /\ p.commit = c /\ p.desc = desc
      /\ p.limit = limit /\ p.filter = f /\ p.cursor = NoTx /\ p.got = <<>> /\ p.own = 0
      /\ p.page = <<>> /\ p.listed = <<>> /\ p.kept = kept /\ p.behind = behind
  BY <1>1 DEF AskedTransactions, PageFields
<1>3. <<>> \in Seq(TxType) /\ <<>> \o <<>> = <<>>  OBVIOUS
<1>4. PageTypes(p)
  <2>1. p.got \in Seq(TxType) /\ p.page \in Seq(TxType) /\ p.listed \in Seq(TxType)  BY <1>2, <1>3
  <2>2. p.cursor \in TxSet \union {NoTx} /\ p.own \in Nat  BY <1>2
  <2>3. p.stage \in AtWork \union {"page", "done"}  BY <1>2 DEF AtWork
  <2>4. p.commit \in Commitments /\ p.desc \in BOOLEAN /\ p.limit \in Limits /\ p.filter \in Filters
    BY <1>2
  <2> QED  BY <1>2, <2>1, <2>2, <2>3, <2>4 DEF PageTypes
<1>5. Listing(p) = <<>>  BY <1>2, <1>3 DEF Listing
<1>6. ShownOK(p)
  <2>1. Len(p.page) < p.limit  BY <1>2, <1>4, LimitIs
  <2> QED  BY <1>2, <1>5, <2>1, HasNone DEF ShownOK, InOrder
<1>7. GotOK(p)  BY <1>2 DEF GotOK, Holding
<1> QED  BY <1>1, <1>2, <1>4, <1>6, <1>7 DEF PageOK


LEMMA StorageLeaves ==
    ASSUME Storage
    PROVE  req' = req
<1>1. Announce => req' = req  BY DEF Announce
<1> QED  BY <1>1 DEF Storage, confirm, store, backfill, go_on, finalize

LEMMA HandleLeaves ==
    ASSUME NEW r \in Readers, handle(r)
    PROVE  req' = req
BY DEF handle, receive, pop_block_front

\* A request for a list stays one.
StaySignatures(p, q) == IsSignatures(p) /\ p.behind = q.behind

LEMMA SignaturesStay ==
    ASSUME IsSignatures(req)
    PROVE  /\ read_tx_index => StaySignatures(req', req)
           /\ SignaturesForAddress2 => StaySignatures(req', req)
           /\ answer_address => StaySignatures(req', req)
           /\ \A r \in Readers : take_address(r) => StaySignatures(req', req)
           /\ ~ TransactionsForAddress2 /\ ~ resolve_signature_position /\ ~ next_page
<1>1. req.kind = "getSignaturesForAddress" /\ DOMAIN req = SignatureFields
      /\ req = [f \in SignatureFields |-> req[f]]
  BY DEF IsSignatures
<1>2. read_tx_index => StaySignatures(req', req)
  BY <1>1 DEF read_tx_index, StaySignatures, IsSignatures, SignatureFields
<1>3. SignaturesForAddress2 => StaySignatures(req', req)
  <2> SUFFICES ASSUME SignaturesForAddress2 PROVE StaySignatures(req', req)  OBVIOUS
  <2>1. \E got, finished : req' = [req EXCEPT !.stage = "scanned", !.after = NoTx, !.got = got, !.finished = finished]
    BY Zenon DEF SignaturesForAddress2, spawn_signatires_for_address
  <2> QED  BY <1>1, <2>1 DEF StaySignatures, IsSignatures, SignatureFields
<1>4. answer_address => StaySignatures(req', req)
  <2> SUFFICES ASSUME answer_address PROVE StaySignatures(req', req)  OBVIOUS
  <2>1. req' \in RpcRequestSignaturesForAddress  BY <1>1 DEF answer_address
  <2>2. \/ req' = [req EXCEPT !.stage = "done"]
        \/ \E got, restarted : req' = [req EXCEPT !.stage = "done", !.got = got, !.asked = TRUE, !.restarted = restarted]
    BY <2>1, Zenon DEF RpcRequestSignaturesForAddress
  <2> QED  BY <1>1, <2>2, Zenon DEF StaySignatures, IsSignatures, SignatureFields
<1>5. ASSUME NEW r \in Readers, take_address(r) PROVE StaySignatures(req', req)
  <2>0. PICK R : R = Copy(reader[r])  OBVIOUS
  <2>1. \/ req' = [SignaturesForAddress(R) EXCEPT !.reader = r]
        \/ req' = AddBlockTimes(R)
    BY <1>1, <1>5, <2>0 DEF take_address, SignaturesForAddress3
  <2>2. CASE req' = AddBlockTimes(R)
    <3>1. \E got, finished : req' = [req EXCEPT !.stage = "result", !.got = got, !.finished = finished]
      BY <2>2, Zenon DEF AddBlockTimes
    <3> QED  BY <1>1, <3>1 DEF StaySignatures, IsSignatures, SignatureFields
  <2>3. CASE req' = [SignaturesForAddress(R) EXCEPT !.reader = r]
    <3> DEFINE own == Own(R)
               here == req.before \in {own[i] : i \in DOMAIN own}
               part == Upto(IF req.before = NoTx THEN own ELSE After(own, req.before),
                            req.until, req.limit)
               x == [req EXCEPT !.got = part.txs, !.own = Len(part.txs),
                                !.slot = highest_slot(R),
                                !.ahead = Level(R) \notin CanList(R, req.commit),
                                !.after = IF here THEN NoTx ELSE req.before]
               y == SignaturesForAddress(R)
    <3>1. y = IF part.finished THEN [x EXCEPT !.stage = "result", !.finished = TRUE]
              ELSE [x EXCEPT !.stage = IF x.after = NoTx THEN "scan" ELSE "index"]
      BY DEF SignaturesForAddress
    <3> HIDE DEF own, here, part
    <3>3. DOMAIN x = SignatureFields /\ x = [f \in SignatureFields |-> x[f]] /\ x.kind = req.kind
          /\ x.behind = req.behind
      BY <1>1 DEF SignatureFields
    <3> HIDE DEF x, y
    <3>4. CASE part.finished
      <4>1. y = [x EXCEPT !.stage = "result", !.finished = TRUE]  BY <3>1, <3>4
      <4>2. DOMAIN y = SignatureFields /\ y = [f \in SignatureFields |-> y[f]] /\ y.kind = x.kind
            /\ y.stage \in {"result", "scan", "index"} /\ y.behind = x.behind
        BY <3>3, <4>1 DEF SignatureFields
      <4>3. req' = [y EXCEPT !.reader = r]  BY <2>3 DEF y
      <4> QED  BY <1>1, <3>3, <4>2, <4>3 DEF StaySignatures, IsSignatures, SignatureFields
    <3>5. CASE ~ part.finished
      <4>1. PICK z \in {"scan", "index"} : y = [x EXCEPT !.stage = z]  BY <3>1, <3>5
      <4>2. DOMAIN y = SignatureFields /\ y = [f \in SignatureFields |-> y[f]] /\ y.kind = x.kind
            /\ y.stage \in {"result", "scan", "index"} /\ y.behind = x.behind
        BY <3>3, <4>1 DEF SignatureFields
      <4>3. req' = [y EXCEPT !.reader = r]  BY <2>3 DEF y
      <4> QED  BY <1>1, <3>3, <4>2, <4>3 DEF StaySignatures, IsSignatures, SignatureFields
    <3> QED  BY <3>4, <3>5
  <2> QED  BY <2>1, <2>2, <2>3
<1>6. ~ TransactionsForAddress2 /\ ~ resolve_signature_position /\ ~ next_page
  BY <1>1 DEF TransactionsForAddress2, resolve_signature_position, next_page, IsSignatures
<1> QED  BY <1>2, <1>3, <1>4, <1>5, <1>6

LEMMA AskedSignaturesIs ==
    ASSUME NEW before, NEW until, NEW limit, NEW c
    PROVE  /\ IsSignatures(AskedSignatures(before, until, limit, c))
           /\ AskedSignatures(before, until, limit, c).behind = Behind
<1>0. PICK behind : behind = Behind  OBVIOUS
<1>1. \E kept, seen : AskedSignatures(before, until, limit, c) =
    [kind |-> "getSignaturesForAddress", stage |-> "queued", commit |-> c,
     before |-> before, until |-> until, limit |-> limit, reader |-> None,
     slot |-> None, after |-> NoTx, got |-> <<>>, own |-> 0, finished |-> FALSE,
     asked |-> FALSE, restarted |-> FALSE, ahead |-> FALSE, kept |-> kept, behind |-> behind,
     seen |-> seen]
  BY <1>0 DEF AskedSignatures
<1> QED  BY <1>0, <1>1 DEF IsSignatures, SignatureFields


LEMMA NothingAsked ==
    ASSUME req = [stage |-> "none"]
    PROVE  /\ \A r \in Readers : ~ take_address(r)
           /\ ~ read_tx_index /\ ~ SignaturesForAddress2 /\ ~ TransactionsForAddress2
           /\ ~ resolve_signature_position /\ ~ answer_address /\ ~ next_page /\ ~ finish_address
<1>1. req.stage = "none"  OBVIOUS
<1> QED  BY <1>1 DEF take_address, read_tx_index, SignaturesForAddress2, TransactionsForAddress2,
              resolve_signature_position, answer_address, next_page, finish_address

\* A request for pages stays one.
LEMMA PagesStay ==
    ASSUME PageOK(req), [AddressNext]_readvars
    PROVE  (PageOK(req') /\ req'.behind = req.behind) \/ req' = [stage |-> "none"]
<1>1. PageOK(req) /\ PageTypes(req) /\ req.kind = "getTransactionsForAddress"
      /\ req.stage \in AtWork \union {"page", "done"}
  BY DEF PageOK, PageTypes
<1>2. CASE req' = req  BY <1>2
<1>3. CASE UNCHANGED readvars  BY <1>2, <1>3 DEF readvars
<1>4. CASE Storage \/ \E r \in Readers : handle(r)  BY <1>2, <1>4, StorageLeaves, HandleLeaves
<1>5. ~ ask_address /\ ~ read_tx_index /\ ~ SignaturesForAddress2
  BY <1>1 DEF ask_address, read_tx_index, SignaturesForAddress2, AtWork
<1>6. finish_address => req' = [stage |-> "none"]  BY DEF finish_address
<1>7. ASSUME NEW r \in Readers, take_address(r) PROVE PageOK(req') /\ req'.behind = req.behind
  <2>0. PICK R : R = Copy(reader[r])  OBVIOUS
  <2>1. CASE /\ req.stage = "queued"
             /\ req' = [TransactionsForAddress(R) EXCEPT !.reader = r]
    <3>1. TakenAs(req', req, R, request_limit)  BY <1>1, <2>1, TakenIs
    <3>2. Len(req.page) < req.limit  BY <1>1, <2>1 DEF PageOK, ShownOK, AtWork
    <3>3. request_limit \in Nat /\ request_limit > 0  BY <1>1, <3>2, RequestLimit
    <3>4. PageOK(req')  BY <2>1, <3>1, <3>3, TakeOrder
    <3> QED  BY <3>1, <3>4, SameIs DEF TakenAs
  <2>2. CASE req.stage = "scanned" /\ req' = AddBlockTimes(R)
    <3>1. TimedAs(req', req, R)  BY <1>1, <2>2, TimedIs
    <3>2. PageOK(req')  BY <2>2, <3>1, TimedOrder
    <3> QED  BY <3>1, <3>2, SameIs DEF TimedAs
  <2> QED  BY <1>1, <1>7, <2>0, <2>1, <2>2 DEF take_address, TransactionsForAddress3
<1>8. ASSUME answer_address PROVE PageOK(req') /\ req'.behind = req.behind
  <2>1. req.stage = "result" /\ req' = RpcRequestTransactionsForAddress
    BY <1>1, <1>8 DEF answer_address
  <2>2. \E more \in Seq(TxType) :
           /\ PagedAs(req', req, more) /\ InOrder(req.desc, more)
           /\ Len(req.page) + Len(more) <= req.limit
           /\ \A tx : Has(more, tx) => Has(req.got, tx) /\ Passes(req.filter, tx)
    BY <2>1, PagedIs
  <2>3. PageOK(req')  BY <2>1, <2>2, PagedOrder
  <2> QED  BY <2>2, <2>3, SameIs DEF PagedAs
<1>9. resolve_signature_position \/ TransactionsForAddress2 \/ next_page
        => PageOK(req') /\ req'.behind = req.behind
  BY ResolveOrder, ScanOrder, NextPageIs, SameIs
<1> QED  BY <1>3, <1>4, <1>5, <1>6, <1>7, <1>8, <1>9 DEF AddressNext

\* The pages stay in order, whatever storage does between two steps.
LEMMA PagesNext ==
    ASSUME PagesInv, [AddressNext]_readvars
    PROVE  PagesInv'
<1>1. CASE req' = req  BY <1>1 DEF PagesInv, PageOK, PageTypes, ShownOK, GotOK, Listing, IsSignatures,
                                 InOrder, Has, Passes
<1>2. CASE UNCHANGED readvars  BY <1>1, <1>2 DEF readvars
<1>3. CASE Storage  BY <1>1, <1>3, StorageLeaves
<1>4. ASSUME NEW r \in Readers, handle(r) PROVE PagesInv'
  BY <1>1, <1>4, HandleLeaves
<1>5. CASE req = [stage |-> "none"]
  <2>1. ASSUME ask_address PROVE PagesInv'
    <3>1. CASE \E before \in Befores, until \in Untils, limit \in Limits, c \in Commitments :
                  req' = AskedSignatures(before, until, limit, c)
      BY <3>1, AskedSignaturesIs DEF PagesInv
    <3>2. CASE \E desc \in BOOLEAN, limit \in Limits, f \in Filters, c \in Commitments :
                  req' = AskedTransactions(desc, limit, f, c)
      BY <3>2, AskedPages DEF PagesInv
    <3> QED  BY <2>1, <3>1, <3>2 DEF ask_address
  <2> QED  BY <1>2, <1>3, <1>4, <1>5, <2>1, NothingAsked DEF AddressNext
<1>6. CASE IsSignatures(req)
  <2>1. ~ ask_address  BY <1>6 DEF ask_address, IsSignatures
  <2>2. finish_address => PagesInv'  BY DEF finish_address, PagesInv
  <2>3. StaySignatures(req', req) => PagesInv'  BY DEF PagesInv, StaySignatures
  <2> QED  BY <1>2, <1>3, <1>4, <1>6, <2>1, <2>2, <2>3, SignaturesStay DEF AddressNext
<1>7. CASE PageOK(req)
  <2>1. PageOK(req') \/ req' = [stage |-> "none"]  BY <1>7, PagesStay
  <2> QED  BY <2>1 DEF PagesInv
<1> QED  BY <1>5, <1>6, <1>7 DEF PagesInv

\* The invariant of the pages: what the client was given and what was read
\* for it are in order, one before the other, on both sides of the cursor.
THEOREM PagesInvariant == AddressSpec => []PagesInv
<1>1. AddressInit => PagesInv  BY DEF AddressInit, PagesInv
<1>2. PagesInv /\ [AddressNext]_readvars => PagesInv'  BY PagesNext
<1> QED  BY <1>1, <1>2, PTL DEF AddressSpec

\* The pages of getTransactionsForAddress, one after the other, are in order
\* without a repetition, and hold nothing that the filters by status, token
\* account, time and signature exclude.
THEOREM PagesOrderedAlways == AddressSpec => []PagesOrdered
<1>1. PagesInv => PagesOrdered
  <2> SUFFICES ASSUME PagesInv, PagesDone
               PROVE  /\ Ordered(req.listed, req.desc)
                      /\ \A i \in DOMAIN req.listed : Passes(req.filter, req.listed[i])
    BY DEF PagesOrdered
  <2>1. req.kind = "getTransactionsForAddress" /\ req.stage = "done"  BY DEF PagesDone
  <2>2. PageOK(req)
    <3>1. req # [stage |-> "none"]  BY <2>1
    <3>2. ~ IsSignatures(req)  BY <2>1 DEF IsSignatures
    <3> QED  BY <3>1, <3>2 DEF PagesInv
  <2>3. /\ req.listed \in Seq(TxType) /\ req.page = <<>> /\ InOrder(req.desc, Listing(req))
        /\ \A tx : Has(Listing(req), tx) => Passes(req.filter, tx)
    BY <2>1, <2>2 DEF PageOK, PageTypes, ShownOK
  <2>4. Listing(req) = req.listed  BY <2>3 DEF Listing
  <2>5. ASSUME NEW i \in 2 .. Len(req.listed) PROVE Comes(req.desc, req.listed[i - 1], req.listed[i])
    <3>1. i \in DOMAIN req.listed /\ i - 1 \in DOMAIN req.listed /\ i - 1 < i  BY <2>3, <2>5
    <3> QED  BY <2>3, <2>4, <3>1 DEF InOrder
  <2> QED  BY <2>3, <2>4, <2>5 DEF Ordered, Comes, Has
<1>2. AddressSpec => []PagesInv  BY PagesInvariant
<1> QED  BY <1>1, <1>2, PTL


-----------------------------------------------------------------------------
(***************************************************************************)
(* The bounds of a read include every slot that its filters let through.   *)
(***************************************************************************)
LEMMA MinAbove ==
    ASSUME NEW S, S \subseteq Int, S # {}, NEW v \in Int, \A s \in S : v <= s
    PROVE  Lowest(S) \in S /\ (\A t \in S : Lowest(S) <= t) /\ Lowest(S) \in Int /\ v <= Lowest(S)
<1> DEFINE T == {n \in Nat : v + n \in S}
<1>1. \A s \in S : s \in Int /\ s - v \in T /\ v + (s - v) = s  OBVIOUS
<1>2. T \subseteq Nat /\ T # {}  BY <1>1
<1>3. PICK x \in T : \A y \in T : x <= y  BY <1>2, NatMin, Zenon
<1>4. v + x \in S /\ x \in Nat  BY <1>3
<1>5. \A t \in S : v + x <= t
  <2> TAKE t \in S
  <2>1. t - v \in T /\ t \in Int  BY <1>1
  <2>2. x <= t - v  BY <1>3, <2>1
  <2> QED  BY <1>4, <2>1, <2>2
<1> HIDE DEF T
<1>6. \E s \in S : \A t \in S : s <= t  BY <1>4, <1>5
<1>7. Lowest(S) \in S /\ \A t \in S : Lowest(S) <= t  BY <1>6, Zenon DEF Lowest
<1> QED  BY <1>7

LEMMA MaxBelow ==
    ASSUME NEW S, S \subseteq Int, S # {}, NEW v \in Int, \A s \in S : s <= v
    PROVE  Highest(S) \in S /\ (\A t \in S : t <= Highest(S)) /\ Highest(S) \in Int /\ Highest(S) <= v
<1> DEFINE T == {n \in Nat : v - n \in S}
<1>1. \A s \in S : s \in Int /\ v - s \in T /\ v - (v - s) = s  OBVIOUS
<1>2. T \subseteq Nat /\ T # {}  BY <1>1
<1>3. PICK x \in T : \A y \in T : x <= y  BY <1>2, NatMin, Zenon
<1>4. v - x \in S /\ x \in Nat  BY <1>3
<1>5. \A t \in S : t <= v - x
  <2> TAKE t \in S
  <2>1. v - t \in T /\ t \in Int  BY <1>1
  <2>2. x <= v - t  BY <1>3, <2>1
  <2> QED  BY <1>4, <2>1, <2>2
<1> HIDE DEF T
<1>6. \E s \in S : \A t \in S : t <= s  BY <1>4, <1>5
<1>7. Highest(S) \in S /\ \A t \in S : t <= Highest(S)  BY <1>6, Zenon DEF Highest
<1> QED  BY <1>7

\* The bounds of a comparison.
Comparison(c) ==
    /\ DOMAIN c \subseteq {"gte", "gt", "lte", "lt", "eq"}
    /\ \A o \in DOMAIN c : c[o] \in Nat

LEMMA ComparisonBounds ==
    ASSUME NEW c, Comparison(c), NEW v \in Slots, Matches(c, v)
    PROVE  /\ lower_bound(c) \in Int /\ lower_bound(c) <= v
           /\ upper_bound(c) \in Int /\ v <= upper_bound(c)
<1>0. v \in Nat /\ v \in Int /\ MaxSlot \in Nat /\ v <= MaxSlot  BY BlockStoreAssumption DEF Slots
<1>1. /\ "gte" \in DOMAIN c => c["gte"] \in Nat /\ c["gte"] <= v
      /\ "gt" \in DOMAIN c => c["gt"] \in Nat /\ c["gt"] + 1 <= v
      /\ "lte" \in DOMAIN c => c["lte"] \in Nat /\ v <= c["lte"]
      /\ "lt" \in DOMAIN c => c["lt"] \in Nat /\ v <= c["lt"] - 1
      /\ "eq" \in DOMAIN c => c["eq"] \in Nat /\ c["eq"] = v
  <2>1. \A o \in DOMAIN c : c[o] \in Nat  BY DEF Comparison
  <2>2. "gte" \in DOMAIN c => v >= c["gte"]  BY DEF Matches
  <2>3. "gt" \in DOMAIN c => v > c["gt"]  BY DEF Matches
  <2>4. "lte" \in DOMAIN c => v <= c["lte"]  BY DEF Matches
  <2>5. "lt" \in DOMAIN c => v < c["lt"]  BY DEF Matches
  <2>6. "eq" \in DOMAIN c => v = c["eq"]  BY DEF Matches
  <2> QED  BY <1>0, <2>1, <2>2, <2>3, <2>4, <2>5, <2>6
<1>2. CASE "eq" \in DOMAIN c  BY <1>0, <1>1, <1>2 DEF lower_bound, upper_bound
<1>3. CASE "eq" \notin DOMAIN c
  <2> DEFINE L == {0} \union Given(c, {"gte"}) \union {b + 1 : b \in Given(c, {"gt"})}
             U == {Never} \union Given(c, {"lte"}) \union {b - 1 : b \in Given(c, {"lt"})}
  <2>1. lower_bound(c) = Highest(L) /\ upper_bound(c) = Lowest(U)  BY <1>3 DEF lower_bound, upper_bound
  <2>2. \A x \in L : x = 0 \/ ("gte" \in DOMAIN c /\ x = c["gte"]) \/ ("gt" \in DOMAIN c /\ x = c["gt"] + 1)
    BY DEF Given
  <2>3. \A x \in U : x = Never \/ ("lte" \in DOMAIN c /\ x = c["lte"]) \/ ("lt" \in DOMAIN c /\ x = c["lt"] - 1)
    BY DEF Given
  <2>4. L # {} /\ U # {}  OBVIOUS
  <2> HIDE DEF L, U
  <2>5. L \subseteq Int /\ \A x \in L : x <= v  BY <1>0, <1>1, <2>2
  <2>6. U \subseteq Int /\ \A x \in U : v <= x  BY <1>0, <1>1, <2>3 DEF Never
  <2>7. Highest(L) \in Int /\ Highest(L) <= v  BY <1>0, <2>4, <2>5, MaxBelow
  <2>8. Lowest(U) \in Int /\ v <= Lowest(U)  BY <1>0, <2>4, <2>6, MinAbove
  <2> QED  BY <2>1, <2>7, <2>8
<1> QED  BY <1>2, <1>3

\* The bounds that signatures give.
Positions(c) ==
    /\ DOMAIN c \subseteq {"gte", "gt", "lte", "lt"}
    /\ \A o \in DOMAIN c : c[o] \in TxType

LEMMA PositionBounds ==
    ASSUME NEW c, Positions(c), NEW tx \in TxType, PositionMatches(c, tx)
    PROVE  /\ lower_slot(c) \in Int /\ lower_slot(c) <= tx[1]
           /\ upper_slot(c) \in Int /\ tx[1] <= upper_slot(c)
<1>0. tx[1] \in Slots /\ tx[1] \in Int /\ tx[1] \in Nat /\ tx[2] \in Nat /\ MaxSlot \in Nat /\ tx[1] <= MaxSlot
  BY TxIs, BlockStoreAssumption DEF Slots
<1>1. \A o \in DOMAIN c : c[o][1] \in Nat /\ c[o][2] \in Nat  BY TxIs DEF Positions
<1>2. "gte" \in DOMAIN c => c["gte"][1] <= tx[1]
  <2>1. "gte" \in DOMAIN c => ~ Newer(c["gte"], tx)  BY DEF PositionMatches
  <2> QED  BY <1>0, <1>1, <2>1 DEF Newer
<1>3. "gt" \in DOMAIN c => c["gt"][1] <= tx[1]
  <2>1. "gt" \in DOMAIN c => Newer(tx, c["gt"])  BY DEF PositionMatches
  <2> QED  BY <1>0, <1>1, <2>1 DEF Newer
<1>4. "lte" \in DOMAIN c => tx[1] <= c["lte"][1]
  <2>1. "lte" \in DOMAIN c => ~ Newer(tx, c["lte"])  BY DEF PositionMatches
  <2> QED  BY <1>0, <1>1, <2>1 DEF Newer
<1>5. "lt" \in DOMAIN c => tx[1] <= c["lt"][1]
  <2>1. "lt" \in DOMAIN c => Newer(c["lt"], tx)  BY DEF PositionMatches
  <2> QED  BY <1>0, <1>1, <2>1 DEF Newer
<1> DEFINE L == {0} \union {x[1] : x \in Given(c, {"gte", "gt"})}
           U == {Never} \union {x[1] : x \in Given(c, {"lte", "lt"})}
<1>6. lower_slot(c) = Highest(L) /\ upper_slot(c) = Lowest(U)  BY DEF lower_slot, upper_slot
<1>7. \A x \in L : x = 0 \/ ("gte" \in DOMAIN c /\ x = c["gte"][1]) \/ ("gt" \in DOMAIN c /\ x = c["gt"][1])
  BY DEF Given
<1>8. \A x \in U : x = Never \/ ("lte" \in DOMAIN c /\ x = c["lte"][1]) \/ ("lt" \in DOMAIN c /\ x = c["lt"][1])
  BY DEF Given
<1>9. L # {} /\ U # {}  OBVIOUS
<1> HIDE DEF L, U
<1>10. L \subseteq Int /\ \A x \in L : x <= tx[1]  BY <1>0, <1>1, <1>2, <1>3, <1>7
<1>11. U \subseteq Int /\ \A x \in U : tx[1] <= x  BY <1>0, <1>1, <1>4, <1>5, <1>8 DEF Never
<1>12. Highest(L) \in Int /\ Highest(L) <= tx[1]  BY <1>0, <1>9, <1>10, MaxBelow
<1>13. Lowest(U) \in Int /\ tx[1] <= Lowest(U)  BY <1>0, <1>9, <1>11, MinAbove
<1> QED  BY <1>6, <1>12, <1>13


\* The filters of a request.
LEMMA FilterIs ==
    ASSUME NEW f \in Filters
    PROVE  Comparison(f.slot) /\ Comparison(f.time) /\ Positions(f.signature)
<1>1. Filter(f)  BY AddressRequestsAssumption
<1> QED  BY <1>1 DEF Filter, Comparison, Positions, TxType

\* What a reader has of the times includes the slot.
LEMMA TimeBounds ==
    ASSUME req.filter \in Filters, NEW R, DOMAIN R.ring \subseteq Slots, NEW v \in Live(R.ring),
           Matches(req.filter.time, v)
    PROVE  /\ TimeLower(R) \in Int /\ TimeLower(R) <= v
           /\ TimeUpper(R) \in Int /\ v <= TimeUpper(R)
<1>0. v \in Slots /\ v \in Nat /\ v \in Int /\ MaxSlot \in Nat /\ v <= MaxSlot
  BY BlockStoreAssumption DEF Live, Slots
<1> DEFINE lo == lower_bound(req.filter.time)
           up == upper_bound(req.filter.time)
           L == {s \in Live(R.ring) : s >= lo}
           U == {s \in Live(R.ring) : s <= up}
<1>1. TimeLower(R) = (IF lo = 0 \/ L = {} THEN 0 ELSE Lowest(L))
      /\ TimeUpper(R) = (IF up = Never \/ U = {} THEN Never ELSE Highest(U))
  BY DEF TimeLower, TimeUpper
<1>2. lo \in Int /\ lo <= v /\ up \in Int /\ v <= up  BY <1>0, FilterIs, ComparisonBounds
<1> HIDE DEF lo, up
<1>3. v \in L /\ v \in U  BY <1>0, <1>2
<1>4. L \subseteq Slots /\ U \subseteq Slots  BY DEF Live
<1> HIDE DEF L, U
<1>5. Lowest(L) \in L /\ Lowest(L) <= v  BY <1>3, <1>4, LowestIn
<1>6. Highest(U) \in U /\ v <= Highest(U)  BY <1>3, <1>4, HighestIn
<1>7. Lowest(L) \in Int /\ Highest(U) \in Int
  <2>1. Lowest(L) \in Slots /\ Highest(U) \in Slots  BY <1>4, <1>5, <1>6
  <2> QED  BY <2>1 DEF Slots
<1>8. Never \in Int /\ v <= Never  BY <1>0 DEF Never
<1> QED  BY <1>0, <1>1, <1>5, <1>6, <1>7, <1>8

\* The range of a read has every transaction it is to find.
LEMMA ReadBounds ==
    ASSUME req.filter \in Filters, req.desc \in BOOLEAN, NEW R, DOMAIN R.ring \subseteq Slots,
           NEW tx \in TxSet, Passes(req.filter, tx), Matches(req.filter.slot, tx[1]),
           tx[1] \in Live(R.ring), Level(R) \in Nat, tx[1] <= Level(R)
    PROVE  /\ LowerOf(req, R) \in Int /\ LowerOf(req, R) <= tx[1]
           /\ TopOf(req, R) \in Int /\ tx[1] <= TopOf(req, R)
           /\ req.cursor = NoTx =>
                 /\ FromOf(req, R) \in Int
                 /\ IF req.desc THEN tx[1] <= FromOf(req, R) ELSE FromOf(req, R) <= tx[1]
<1>0. tx \in TxType /\ tx[1] \in Slots /\ tx[1] \in Nat /\ tx[1] \in Int  BY TxsIs, TxIs
<1>1. Matches(req.filter.time, tx[1]) /\ PositionMatches(req.filter.signature, tx)  BY DEF Passes
<1> DEFINE a == lower_bound(req.filter.slot)
           b == lower_slot(req.filter.signature)
           c == TimeLower(R)
           x == upper_bound(req.filter.slot)
           y == upper_slot(req.filter.signature)
           z == TimeUpper(R)
<1>2. a \in Int /\ a <= tx[1] /\ x \in Int /\ tx[1] <= x  BY <1>0, FilterIs, ComparisonBounds
<1>3. b \in Int /\ b <= tx[1] /\ y \in Int /\ tx[1] <= y  BY <1>0, <1>1, FilterIs, PositionBounds
<1>4. c \in Int /\ c <= tx[1] /\ z \in Int /\ tx[1] <= z  BY <1>1, TimeBounds
<1>5. LowerOf(req, R) = Highest({a, b, c}) /\ TopOf(req, R) = Lesser(Lowest({x, y, z}), Level(R))
  BY DEF LowerOf, TopOf
<1> HIDE DEF a, b, c, x, y, z
<1>6. Highest({a, b, c}) \in Int /\ Highest({a, b, c}) <= tx[1]
  <2>1. PICK S : S = {a, b, c}  OBVIOUS
  <2>2. S \subseteq Int /\ S # {} /\ \A s \in S : s <= tx[1]  BY <1>2, <1>3, <1>4, <2>1
  <2>3. Highest(S) \in Int /\ Highest(S) <= tx[1]  BY <1>0, <2>2, MaxBelow
  <2> QED  BY <2>1, <2>3
<1>7. Lowest({x, y, z}) \in Int /\ tx[1] <= Lowest({x, y, z})
  <2>1. PICK S : S = {x, y, z}  OBVIOUS
  <2>2. S \subseteq Int /\ S # {} /\ \A s \in S : tx[1] <= s  BY <1>2, <1>3, <1>4, <2>1
  <2>3. Lowest(S) \in Int /\ tx[1] <= Lowest(S)  BY <1>0, <2>2, MinAbove
  <2> QED  BY <2>1, <2>3
<1>8. /\ LowerOf(req, R) \in Int /\ LowerOf(req, R) <= tx[1]
      /\ TopOf(req, R) \in Int /\ tx[1] <= TopOf(req, R)
  BY <1>5, <1>6, <1>7 DEF Lesser
<1>9. ASSUME req.cursor = NoTx
      PROVE  /\ FromOf(req, R) \in Int
             /\ IF req.desc THEN tx[1] <= FromOf(req, R) ELSE FromOf(req, R) <= tx[1]
  <2>1. CASE req.desc  BY <1>8, <1>9, <2>1 DEF FromOf
  <2>2. CASE ~ req.desc
    <3>1. DOMAIN R.ring # {} /\ Lowest(DOMAIN R.ring) \in DOMAIN R.ring /\ Lowest(DOMAIN R.ring) <= tx[1]
      BY LowestIn DEF Live
    <3>2. Lowest(DOMAIN R.ring) \in Int  BY <3>1 DEF Slots
    <3>3. FromOf(req, R) = Greater(LowerOf(req, R), Lowest(DOMAIN R.ring))  BY <1>9, <2>2, <3>1 DEF FromOf
    <3> QED  BY <1>8, <2>2, <3>1, <3>2, <3>3 DEF Greater
  <2> QED  BY <2>1, <2>2
<1> QED  BY <1>8, <1>9

-----------------------------------------------------------------------------
(***************************************************************************)
(* Nothing is passed over: what was stored for every reader when the first *)
(* page was asked for, and is stored still, is given already, or at hand,  *)
(* or ahead of the read.                                                   *)
(***************************************************************************)
LevelAt(R, c) == IF c = "confirmed" THEN R.confirmed ELSE R.finalized

\* A slot a reader has, up to the level.  (A reader that has just started may
\* take a slot for confirmed that the start took back.)
Attained(R, c, s) == IF c = "confirmed" THEN Reaches(R, s) ELSE s <= R.finalized

KeptOK(q) ==
    /\ q.kept \subseteq TxSet
    /\ \A tx \in q.kept, r \in Readers :
          /\ tx[1] \in DOMAIN reader[r].ring \/ Lost(tx[1])
          /\ Attained(reader[r], q.commit, tx[1])

Sought(q, tx) ==
    /\ tx \in q.kept /\ tx[1] \in DOMAIN ring
    /\ Passes(q.filter, tx) /\ Matches(q.filter.slot, tx[1])

\* The last of what was read, if the read is to go on.
Onward(q, tx) == ~ q.finished /\ (q.got = <<>> \/ Comes(q.desc, LastOf(q.got), tx))

InRange(q, tx) ==
    /\ q.stop \in Int
    /\ IF q.desc THEN tx[1] <= q.slot /\ tx[1] >= q.stop ELSE tx[1] >= q.slot /\ tx[1] <= q.stop

Remains(q, tx) ==
    \/ q.stage \in {"resolve", "queued"} /\ (q.cursor = NoTx \/ Comes(q.desc, q.cursor, tx))
    \/ q.stage \in Holding /\ Has(q.got, tx)
    \/ q.stage = "scan" /\ InRange(q, tx) /\ (q.cursor = NoTx \/ Comes(q.desc, q.cursor, tx))
    \/ q.stage \in {"scanned", "result"} /\ Onward(q, tx)
    \/ q.stage = "page" /\ q.token # NoTx /\ Comes(q.desc, q.token, tx)

CompleteOK(q) == q.cut = {} => \A tx : Sought(q, tx) => Has(Listing(q), tx) \/ Remains(q, tx)

WholeOK(q) == KeptOK(q) /\ CompleteOK(q)

WholeInv == PageOK(req) /\ req.behind = {} => Behind = {} /\ WholeOK(req)

\* What is wanted is in the index of every reader.
LEMMA WantedIs ==
    ASSUME IndexInv, MemoryInv, NEW q, KeptOK(q), NEW tx, Sought(q, tx), NEW r \in Readers
    PROVE  /\ tx \in TxSet /\ tx \in TxType /\ tx[1] \in indexed
           /\ View(reader[r].ring, reader[r].inproc) /\ DOMAIN reader[r].ring \subseteq Slots
           /\ tx[1] \in Live(reader[r].ring)
           /\ get_block_location(reader[r].ring, tx[1]) = "found"
           /\ tx[1] <= LevelAt(reader[r], q.commit) /\ LevelAt(reader[r], q.commit) \in Nat
<1>1. tx \in TxSet /\ tx \in TxType /\ tx[1] \in LiveSlots /\ tx[1] \in Slots
  <2>1. tx \in TxSet  BY DEF Sought, KeptOK
  <2> QED  BY <2>1, TxsIs, TxIs DEF TxType
<1>2. DOMAIN ring \subseteq Slots  BY DEF IndexInv, StoreInv, Types, IsRows
<1>3. Reached(tx[1])
  <2>1. tx[1] \in DOMAIN ring  BY DEF Sought
  <2> QED  BY <1>2, <2>1, LowestIn DEF Reached
<1>4. tx[1] \in DOMAIN reader[r].ring  BY <1>3 DEF KeptOK, Sought, Lost
<1>5. View(reader[r].ring, reader[r].inproc)  BY ReaderView DEF MemoryInv
<1>6. DOMAIN reader[r].ring \subseteq Slots /\ DeadOrLive(reader[r].ring)  BY <1>5 DEF View, IsRows
<1>7. tx[1] \notin Skipped  BY <1>1 DEF LiveSlots
<1>8. tx[1] \in Live(reader[r].ring)  BY <1>4, <1>6, <1>7 DEF Live, DeadOrLive
<1>9. get_block_location(reader[r].ring, tx[1]) = "found"  BY <1>1, <1>4, <1>5, <1>7, LocationIs
<1>10. tx[1] \in indexed
  <2>1. Agrees(tx[1], reader[r].ring[tx[1]])  BY <1>4, ReaderAgrees
  <2> QED  BY <1>1, <1>3, <2>1, StoredIndexed DEF MemoryInv, Lost
<1>11. LevelAt(reader[r], q.commit) \in Nat
  BY DEF MemoryInv, Levels, ReaderLevels, LevelAt
<1>12. tx[1] <= LevelAt(reader[r], q.commit)
  <2>1. Attained(reader[r], q.commit, tx[1])  BY DEF KeptOK, Sought
  <2> QED  BY <2>1 DEF Attained, Reaches, LevelAt
<1> QED  BY <1>1, <1>5, <1>6, <1>8, <1>9, <1>10, <1>11, <1>12


\* What a reader has it keeps or loses, and its levels go on.
LEMMA AttainedOn ==
    ASSUME MemoryInv, MemoryInv', NEW r \in Readers, GoesOn(r), NEW c, NEW s \in Nat,
           Attained(reader[r], c, s)
    PROVE  Attained(reader'[r], c, s)
<1>1. CASE c = "confirmed"  BY <1>1 DEF Attained, GoesOn
<1>2. CASE c # "confirmed"
  <2>1. PICK a, b : a = reader[r].finalized /\ b = reader'[r].finalized  OBVIOUS
  <2>2. a \in Nat /\ b \in Nat  BY <2>1 DEF MemoryInv, Levels, ReaderLevels
  <2>3. a <= b  BY <2>1 DEF GoesOn
  <2>4. s <= a  BY <1>2, <2>1 DEF Attained
  <2>5. s <= b  BY <2>2, <2>3, <2>4
  <2> QED  BY <1>2, <2>1, <2>5 DEF Attained
<1> QED  BY <1>1, <1>2

\* The request waits while the others move.
LEMMA WholeWaits ==
    ASSUME IndexInv, MemoryInv, MemoryInv', IndexInv', Advance, NEW q, WholeOK(q)
    PROVE  WholeOK(q)'
<1>0. KeptOK(q) /\ CompleteOK(q)  BY DEF WholeOK
<1>1. ASSUME NEW tx \in q.kept, NEW r \in Readers
      PROVE  /\ tx[1] \in DOMAIN reader'[r].ring \/ Lost(tx[1])'
             /\ Attained(reader'[r], q.commit, tx[1])
  <2>1. tx[1] \in DOMAIN reader[r].ring \/ Lost(tx[1])  BY <1>0 DEF KeptOK
  <2>2. Attained(reader[r], q.commit, tx[1])  BY <1>0 DEF KeptOK
  <2>3. GoesOn(r) /\ (Lost(tx[1]) => Lost(tx[1])')  BY DEF Advance
  <2>5. tx[1] \in Nat  BY <1>0, TxsIs, TxIs DEF KeptOK
  <2>6. Attained(reader'[r], q.commit, tx[1])  BY <2>2, <2>3, <2>5, AttainedOn
  <2> QED  BY <2>1, <2>3, <2>6 DEF GoesOn
<1>2. KeptOK(q)'  BY <1>0, <1>1 DEF KeptOK
<1>3. ASSUME NEW tx, Sought(q, tx)' PROVE Sought(q, tx)
  <2>1. tx \in q.kept /\ tx[1] \in DOMAIN ring' /\ Passes(q.filter, tx) /\ Matches(q.filter.slot, tx[1])
    BY <1>3 DEF Sought
  <2>2. PICK r \in Readers : TRUE  BY StorageReadAssumption
  <2>3. tx[1] \in DOMAIN reader[r].ring \/ Lost(tx[1])  BY <1>0, <2>1 DEF KeptOK
  <2>4. DOMAIN ring' \subseteq Slots  BY DEF IndexInv, StoreInv, Types, IsRows
  <2>5. Reached(tx[1])'
    <3>1. DOMAIN ring' # {} /\ Lowest(DOMAIN ring') <= tx[1]  BY <2>1, <2>4, LowestIn
    <3> QED  BY <3>1 DEF Reached
  <2>6. ~ Lost(tx[1])  BY <2>5 DEF Lost, Advance
  <2>7. Agrees(tx[1], reader[r].ring[tx[1]])  BY <2>3, <2>6, ReaderAgrees
  <2>8. tx[1] \in DOMAIN ring  BY <2>6, <2>7 DEF Agrees, Lost
  <2> QED  BY <2>1, <2>8 DEF Sought
<1>4. CompleteOK(q)'
  <2>1. q.cut = {} => \A tx : Sought(q, tx) => Has(Listing(q), tx) \/ Remains(q, tx)  BY <1>0 DEF CompleteOK
  <2>2. q.cut = {} => \A tx : Sought(q, tx)' => Has(Listing(q), tx) \/ Remains(q, tx)  BY <1>3, <2>1
  <2> QED  BY <2>2 DEF CompleteOK
<1> QED  BY <1>2, <1>4 DEF WholeOK

\* A step of the request alone.
LEMMA WholeSame ==
    ASSUME UNCHANGED <<writer, inbox, reader, stored>>, NEW p, WholeOK(p)
    PROVE  WholeOK(p)'
<1>1. /\ ring' = ring /\ next' = next /\ next_back_slot' = next_back_slot /\ op' = op /\ reader' = reader
  BY DEF writer
<1>2. KeptOK(p)'  BY <1>1 DEF WholeOK, KeptOK, Lost, Known, Reached
<1>3. \A tx : Sought(p, tx)' <=> Sought(p, tx)  BY <1>1 DEF Sought
<1>4. p.cut = {} => \A tx : Sought(p, tx)' => Has(Listing(p), tx) \/ Remains(p, tx)
  BY <1>3 DEF WholeOK, CompleteOK
<1>5. CompleteOK(p)'  BY <1>4 DEF CompleteOK
<1> QED  BY <1>2, <1>5 DEF WholeOK

LEMMA KeptSame ==
    ASSUME NEW p, NEW q, SamePages(p, q), p.kept = q.kept, WholeOK(q)
    PROVE  /\ KeptOK(p) /\ \A tx : Sought(p, tx) <=> Sought(q, tx)
           /\ q.cut = {} => \A tx : Sought(p, tx) => Has(Listing(q), tx) \/ Remains(q, tx)
<1>1. p.commit = q.commit /\ p.filter = q.filter  BY SameIs
<1>2. \A tx : Sought(p, tx) <=> Sought(q, tx)  BY <1>1 DEF Sought
<1> QED  BY <1>1, <1>2 DEF WholeOK, KeptOK, CompleteOK

LEMMA ResolveWhole ==
    ASSUME PageOK(req), WholeOK(req), resolve_signature_position, NEW p, p = req'
    PROVE  WholeOK(p)
<1>1. PICK q : q = req  OBVIOUS
<1>2. /\ q.stage = "resolve"
      /\ \/ p = [q EXCEPT !.stage = "queued"]
         \/ p = [q EXCEPT !.stage = "page", !.token = NoTx, !.cut = @ \union {"unresolved"}]
  BY <1>1 DEF resolve_signature_position
<1>3. PageTypes(q) /\ WholeOK(q)  BY <1>1 DEF PageOK
<1>4. /\ SamePages(p, q) /\ p.kept = q.kept /\ p.cursor = q.cursor /\ p.page = q.page /\ p.listed = q.listed
      /\ \/ p.stage = "queued" /\ p.cut = q.cut
         \/ p.cut = q.cut \union {"unresolved"}
  <2>0. DOMAIN q = PageFields /\ q = [f \in PageFields |-> q[f]]  BY <1>3 DEF PageTypes
  <2>1. CASE p = [q EXCEPT !.stage = "queued"]  BY <2>0, <2>1 DEF PageFields, SamePages
  <2>2. CASE p = [q EXCEPT !.stage = "page", !.token = NoTx, !.cut = @ \union {"unresolved"}]
    <3>1. p.cut = q.cut \union {"unresolved"}  BY <2>0, <2>2 DEF PageFields
    <3>2. /\ SamePages(p, q) /\ p.kept = q.kept /\ p.cursor = q.cursor /\ p.page = q.page
          /\ p.listed = q.listed
      BY <2>0, <2>2 DEF PageFields, SamePages
    <3> QED  BY <3>1, <3>2
  <2> QED  BY <1>2, <2>1, <2>2
<1>5. Listing(p) = Listing(q)  BY <1>4 DEF Listing
<1>6. KeptOK(p) /\ (q.cut = {} => \A tx : Sought(p, tx) => Has(Listing(q), tx) \/ Remains(q, tx))
  BY <1>3, <1>4, KeptSame
<1>7. ASSUME p.cut = {}, NEW tx, Sought(p, tx) PROVE Has(Listing(p), tx) \/ Remains(p, tx)
  <2>1. p.stage = "queued" /\ p.cut = q.cut  BY <1>4, <1>7
  <2>2. Has(Listing(q), tx) \/ Remains(q, tx)  BY <1>6, <1>7, <2>1
  <2>3. Remains(q, tx) => q.cursor = NoTx \/ Comes(q.desc, q.cursor, tx)  BY <1>2 DEF Remains, Holding
  <2> QED  BY <1>4, <1>5, <2>1, <2>2, <2>3, SameIs DEF Remains
<1> QED  BY <1>6, <1>7 DEF WholeOK, CompleteOK


\* A reader takes a page: what it has in process, and what it will scan.
LEMMA TakeWhole ==
    ASSUME IndexInv, MemoryInv, PageOK(req), WholeOK(req), req.stage = "queued", NEW r \in Readers,
           NEW n \in Nat, n > 0, NEW p, TakenAs(p, req, reader[r], n)
    PROVE  WholeOK(p)
<1>0. PICK R : R = reader[r]  OBVIOUS
<1>1. PageTypes(req) /\ ShownOK(req) /\ TakenAs(p, req, R, n)  BY <1>0 DEF PageOK
<1>2. /\ SamePages(p, req) /\ p.kept = req.kept /\ p.page = req.page /\ p.listed = req.listed
      /\ p.cursor = req.cursor /\ p.desc = req.desc /\ p.commit = req.commit
      /\ p.filter = req.filter /\ p.stage = IF Len(p.got) = n THEN "result" ELSE "scan"
  BY <1>1, SameIs DEF TakenAs
<1>3. Listing(p) = Listing(req)  BY <1>2 DEF Listing
<1>4. KeptOK(p) /\ (req.cut = {} => \A tx : Sought(p, tx) => Has(Listing(req), tx) \/ Remains(req, tx))
  BY <1>2, KeptSame
<1>5. /\ req.filter \in Filters /\ req.desc \in BOOLEAN /\ req.cursor \in TxSet \union {NoTx}
  BY <1>1 DEF PageTypes
<1>6. ASSUME p.cut = {}, NEW tx, Sought(p, tx) PROVE Has(Listing(p), tx) \/ Remains(p, tx)
  <2>1. req.cut = {}  BY <1>1, <1>6 DEF TakenAs
  <2>2. Has(Listing(req), tx) \/ Remains(req, tx)  BY <1>4, <1>6, <2>1
  <2>3. SUFFICES ASSUME Remains(req, tx) PROVE Remains(p, tx)  BY <1>3, <2>2
  <2>4. req.cursor = NoTx \/ Comes(req.desc, req.cursor, tx)  BY <2>3 DEF Remains, Holding
  <2>5. /\ tx \in TxSet /\ tx \in TxType /\ View(R.ring, R.inproc) /\ DOMAIN R.ring \subseteq Slots
        /\ tx[1] \in Live(R.ring) /\ tx[1] <= Level(R) /\ Level(R) \in Nat
    <3>1. LevelAt(R, p.commit) = Level(R)  BY <1>2 DEF LevelAt, Level
    <3> QED  BY <1>0, <1>4, <1>6, <3>1, WantedIs
  <2>6. Passes(req.filter, tx) /\ Matches(req.filter.slot, tx[1])  BY <1>2, <1>6 DEF Sought
  <2>7. /\ LowerOf(req, R) \in Int /\ LowerOf(req, R) <= tx[1]
        /\ TopOf(req, R) \in Int /\ tx[1] <= TopOf(req, R)
        /\ req.cursor = NoTx =>
              /\ FromOf(req, R) \in Int
              /\ IF req.desc THEN tx[1] <= FromOf(req, R) ELSE FromOf(req, R) <= tx[1]
    BY <1>5, <2>5, <2>6, ReadBounds
  <2>8. tx[1] \in Nat  BY <2>5, TxIs
  <2>9. p.stop = IF req.desc THEN LowerOf(req, R) ELSE TopOf(req, R)  BY <1>1 DEF TakenAs
  <2>10. CASE ~ FastOf(req, R)
    <3>1. p.got = <<>> /\ p.slot = FromOf(req, R)  BY <1>1, <2>10 DEF TakenAs
    <3>2. p.stage = "scan"
      <4>1. Len(p.got) = 0  BY <3>1
      <4> QED  BY <1>2, <4>1
    <3>3. CASE req.cursor = NoTx
      <4>1. InRange(p, tx)  BY <1>2, <1>5, <2>7, <2>8, <2>9, <3>1, <3>3 DEF InRange
      <4> QED  BY <1>2, <3>2, <3>3, <4>1 DEF Remains
    <3>4. CASE req.cursor # NoTx
      <4>1. req.cursor \in TxType /\ Comes(req.desc, req.cursor, tx)  BY <1>5, <2>4, <3>4, TxsIs
      <4>2. req.cursor[1] \in Nat /\ IF req.desc THEN tx[1] <= req.cursor[1] ELSE req.cursor[1] <= tx[1]
        <5>1. req.cursor[1] \in Nat  BY <4>1, TxIs
        <5> QED  BY <2>8, <4>1, <5>1 DEF Comes, Newer
      <4>3. p.slot = req.cursor[1]  BY <3>1, <3>4 DEF FromOf
      <4>4. InRange(p, tx)  BY <1>2, <1>5, <2>7, <2>8, <2>9, <4>2, <4>3 DEF InRange
      <4> QED  BY <1>2, <3>2, <4>1, <4>4 DEF Remains
    <3> QED  BY <3>3, <3>4
  <2>11. CASE FastOf(req, R)
    <3>1. req.desc /\ req.cursor = NoTx /\ Own(R) # <<>>  BY <2>11 DEF FastOf
    <3>2. p.got = FirstOf(Own(R), n) /\ p.slot = R.inproc - 1  BY <1>1, <2>11 DEF TakenAs
    <3>3. R.inproc \in LiveSlots /\ req.commit = "confirmed"  BY <3>1, OwnIs
    <3>4. R.inproc \in Nat /\ R.inproc > 0  BY <3>3 DEF LiveSlots, Slots
    <3>5. R.inproc = R.confirmed
      <4>1. R.inproc # None  BY <3>4 DEF None
      <4> QED  BY <1>0, <4>1 DEF MemoryInv, Levels, ReaderLevels
    <3>6. tx[1] <= R.inproc  BY <2>5, <3>3, <3>5 DEF Level
    <3>7. Own(R) \in Seq(TxType) /\ InOrder(TRUE, Own(R))  BY OwnIs
    <3>8. /\ FirstOf(Own(R), n) \in Seq(TxType) /\ Len(FirstOf(Own(R), n)) <= n
          /\ InOrder(TRUE, FirstOf(Own(R), n))
          /\ \A x : Has(FirstOf(Own(R), n), x) => Has(Own(R), x)
          /\ \A x : Has(Own(R), x) /\ ~ Has(FirstOf(Own(R), n), x) =>
                /\ Len(FirstOf(Own(R), n)) = n
                /\ n > 0 => Comes(TRUE, LastOf(FirstOf(Own(R), n)), x)
      BY <3>7, FirstOrder
    <3>9. CASE p.stage = "scan"
      <4>1. Len(p.got) # n  BY <1>2, <3>9
      <4>2. CASE tx[1] = R.inproc
        <5>1. Has(Own(R), tx)  BY <2>5, <3>3, <4>2, OwnIs
        <5>2. Has(p.got, tx)  BY <3>2, <3>8, <4>1, <5>1
        <5> QED  BY <3>9, <5>2 DEF Remains, Holding
      <4>3. CASE tx[1] # R.inproc
        <5>1. tx[1] <= p.slot  BY <2>8, <3>2, <3>4, <3>6, <4>3
        <5>2. InRange(p, tx)  BY <1>2, <2>7, <2>8, <2>9, <3>1, <5>1 DEF InRange
        <5> QED  BY <1>2, <3>1, <3>9, <5>2 DEF Remains
      <4> QED  BY <4>2, <4>3
    <3>10. CASE p.stage # "scan"
      <4>1. p.stage = "result" /\ Len(p.got) = n /\ p.finished = FALSE  BY <1>1, <1>2, <3>10 DEF TakenAs
      <4>2. p.got \in Seq(TxType) /\ p.got # <<>>  BY <3>2, <3>8, <4>1
      <4>3. Has(p.got, LastOf(p.got)) /\ LastOf(p.got) \in TxType
        BY <3>2, <3>8, <4>2, LastOrder
      <4>4. LastOf(p.got)[1] = R.inproc  BY <3>2, <3>8, <4>3, OwnIs
      <4>5. CASE tx[1] = R.inproc
        <5>1. Has(Own(R), tx)  BY <2>5, <3>3, <4>5, OwnIs
        <5>2. Has(p.got, tx) \/ Comes(TRUE, LastOf(p.got), tx)  BY <3>2, <3>8, <5>1
        <5>3. p.desc = TRUE  BY <1>2, <1>5, <3>1
        <5> QED  BY <4>1, <5>2, <5>3 DEF Remains, Holding, Onward
      <4>6. CASE tx[1] # R.inproc
        <5>1. LastOf(p.got)[1] > tx[1]  BY <2>8, <3>4, <3>6, <4>4, <4>6
        <5>2. Comes(p.desc, LastOf(p.got), tx)  BY <1>2, <3>1, <5>1 DEF Comes, Newer
        <5> QED  BY <4>1, <5>2 DEF Remains, Onward
      <4> QED  BY <4>5, <4>6
    <3> QED  BY <3>9, <3>10
  <2> QED  BY <2>10, <2>11
<1> QED  BY <1>4, <1>6 DEF WholeOK, CompleteOK


\* A scan leaves out only what comes after its last row.
LEMMA ScanWhole ==
    ASSUME IndexInv, MemoryInv, PageOK(req), WholeOK(req), TransactionsForAddress2, NEW p, p = req'
    PROVE  WholeOK(p)
<1>0. PICK q : q = req  OBVIOUS
<1>1. PageTypes(q) /\ ShownOK(q) /\ GotOK(q) /\ WholeOK(q) /\ q.stage = "scan"
  BY <1>0 DEF PageOK, TransactionsForAddress2
<1>2. PICK more \in Seq(TxType) :
         /\ ScannedAs(p, q, more)
         /\ \A tx \in TxSet :
               /\ tx[1] \in ScanSlots(q)
               /\ \/ q.cursor = NoTx
                  \/ q.cursor[1] \in ScanSlots(q) /\ Comes(q.desc, q.cursor, tx)
               => \/ Has(more, tx)
                  \/ /\ Len(more) = q.room - Len(q.got)
                     /\ more # <<>> /\ Comes(q.desc, LastOf(more), tx)
  <2>1. \E more \in Seq(TxType) :
         /\ ScannedAs(req', req, more)
         /\ \A tx \in TxSet :
               /\ tx[1] \in ScanSlots(req)
               /\ \/ req.cursor = NoTx
                  \/ req.cursor[1] \in ScanSlots(req) /\ Comes(req.desc, req.cursor, tx)
               => \/ Has(more, tx)
                  \/ /\ Len(more) = req.room - Len(req.got)
                     /\ more # <<>> /\ Comes(req.desc, LastOf(more), tx)
    BY ScannedIs
  <2> QED  BY <1>0, <2>1
<1>3. /\ SamePages(p, q) /\ p.kept = q.kept /\ p.page = q.page /\ p.listed = q.listed
      /\ p.cursor = q.cursor /\ p.desc = q.desc /\ p.stage = "scanned" /\ p.got = q.got \o more
      /\ p.finished = (Len(more) < q.room - Len(q.got)) /\ q.got \in Seq(TxType)
      /\ q.cursor \in TxSet \union {NoTx} /\ q.desc \in BOOLEAN
  BY <1>1, <1>2, SameIs DEF ScannedAs, PageTypes
<1>4. Listing(p) = Listing(q)  BY <1>3 DEF Listing
<1>5. KeptOK(p) /\ (q.cut = {} => \A tx : Sought(p, tx) => Has(Listing(q), tx) \/ Remains(q, tx))
  BY <1>1, <1>3, KeptSame
<1>6. \A tx : Has(p.got, tx) <=> Has(q.got, tx) \/ Has(more, tx)
  <2>1. PICK a \in Seq(TxType) : a = q.got  BY <1>3
  <2>2. \A tx : Has(a \o more, tx) <=> Has(a, tx) \/ Has(more, tx)  BY AppendOrder
  <2> QED  BY <1>3, <2>1, <2>2
<1>7. ASSUME p.cut = {}, NEW tx, Sought(p, tx) PROVE Has(Listing(p), tx) \/ Remains(p, tx)
  <2>1. q.cut = {} /\ (q.cursor # NoTx => q.cursor[1] \in indexed)  BY <1>2, <1>7 DEF ScannedAs
  <2>2. Has(Listing(q), tx) \/ Remains(q, tx)  BY <1>5, <1>7, <2>1
  <2>3. SUFFICES ASSUME Remains(q, tx) PROVE Remains(p, tx)  BY <1>4, <2>2
  <2>4. \/ Has(q.got, tx)
        \/ InRange(q, tx) /\ (q.cursor = NoTx \/ Comes(q.desc, q.cursor, tx))
    BY <1>1, <2>3 DEF Remains
  <2>5. CASE Has(q.got, tx)  BY <1>3, <1>6, <2>5 DEF Remains, Holding
  <2>6. CASE InRange(q, tx) /\ (q.cursor = NoTx \/ Comes(q.desc, q.cursor, tx))
    <3>1. PICK r \in Readers : TRUE  BY StorageReadAssumption
    <3>2. tx \in TxSet /\ tx \in TxType /\ tx[1] \in indexed  BY <1>5, <1>7, <3>1, WantedIs
    <3>3. tx[1] \in Nat  BY <3>2, TxIs
    <3>4. tx[1] \in ScanSlots(q)  BY <2>6, <3>2 DEF ScanSlots, InRange
    <3>5. ASSUME q.cursor # NoTx PROVE q.cursor[1] \in ScanSlots(q) /\ Comes(q.desc, q.cursor, tx)
      <4>1. q.cursor \in TxType /\ q.slot = q.cursor[1] /\ Comes(q.desc, q.cursor, tx)
        BY <1>1, <1>3, <2>6, <3>5, TxsIs DEF GotOK
      <4>2. q.cursor[1] \in Nat  BY <4>1, TxIs
      <4>3. IF q.desc THEN tx[1] <= q.cursor[1] ELSE q.cursor[1] <= tx[1]
        BY <3>3, <4>1, <4>2 DEF Comes, Newer
      <4>4. q.stop \in Int /\ IF q.desc THEN tx[1] >= q.stop ELSE tx[1] <= q.stop  BY <2>6 DEF InRange
      <4>5. IF q.desc THEN q.cursor[1] >= q.stop ELSE q.cursor[1] <= q.stop
        BY <3>3, <4>2, <4>3, <4>4
      <4> QED  BY <1>3, <2>1, <3>5, <4>1, <4>2, <4>5 DEF ScanSlots
    <3>6. \/ Has(more, tx)
          \/ Len(more) = q.room - Len(q.got) /\ more # <<>> /\ Comes(q.desc, LastOf(more), tx)
      BY <1>2, <3>2, <3>4, <3>5
    <3>7. CASE Has(more, tx)  BY <1>3, <1>6, <3>7 DEF Remains, Holding
    <3>8. CASE Len(more) = q.room - Len(q.got) /\ more # <<>> /\ Comes(q.desc, LastOf(more), tx)
      <4>1. Len(more) \in Nat  BY <1>2
      <4>2. ~ p.finished
        <5>1. ~ (Len(more) < q.room - Len(q.got))  BY <3>8, <4>1
        <5> QED  BY <1>3, <5>1, Zenon
      <4>3. LastOf(p.got) = LastOf(more) 
        <5>1. PICK a, b : a = Len(q.got) /\ b = Len(more)  OBVIOUS
        <5>2. a \in Nat /\ b \in Nat /\ b > 0  BY <1>2, <1>3, <3>8, <5>1
        <5>3. Len(p.got) = a + b /\ \A i \in 1 .. a + b : p.got[i] = IF i <= a THEN q.got[i] ELSE more[i - a]
          BY <1>2, <1>3, <5>1, ConcatProperties
        <5>4. a + b \in 1 .. a + b /\ ~ (a + b <= a) /\ (a + b) - a = b  BY <5>2
        <5> QED  BY <5>1, <5>3, <5>4 DEF LastOf
      <4> QED  BY <1>3, <3>8, <4>2, <4>3 DEF Remains, Onward
    <3> QED  BY <3>6, <3>7, <3>8
  <2> QED  BY <2>4, <2>5, <2>6
<1> QED  BY <1>5, <1>7 DEF WholeOK, CompleteOK

\* The times: what is stored still is not dropped.
LEMMA TimedWhole ==
    ASSUME IndexInv, MemoryInv, NEW q, PageOK(q), WholeOK(q), q.stage = "scanned", NEW r \in Readers,
           NEW p, TimedAs(p, q, reader[r])
    PROVE  WholeOK(p)
<1>0. PICK R : R = reader[r]  OBVIOUS
<1>1. PageTypes(q) /\ GotOK(q) /\ TimedAs(p, q, R)  BY <1>0 DEF PageOK
<1>2. /\ SamePages(p, q) /\ p.kept = q.kept /\ p.page = q.page /\ p.listed = q.listed
      /\ p.desc = q.desc /\ p.stage = "result" /\ p.cut = q.cut /\ q.got \in Seq(TxType) /\ q.desc \in BOOLEAN
      /\ p.finished = (q.finished /\ TimedAt(q, R) = DOMAIN q.got)
  BY <1>1, SameIs DEF TimedAs, PageTypes
<1>3. Listing(p) = Listing(q)  BY <1>2 DEF Listing
<1>4. KeptOK(p) /\ (q.cut = {} => \A tx : Sought(p, tx) => Has(Listing(q), tx) \/ Remains(q, tx))
  BY <1>2, KeptSame
<1>5. PageOK(p) /\ \A tx : Has(p.got, tx) <=> \E i \in TimedAt(q, R) : q.got[i] = tx
  BY <1>1, TimedOrder
<1>6. ASSUME p.cut = {}, NEW tx, Sought(p, tx) PROVE Has(Listing(p), tx) \/ Remains(p, tx)
  <2>1. Has(Listing(q), tx) \/ Remains(q, tx)  BY <1>2, <1>4, <1>6
  <2>2. SUFFICES ASSUME Remains(q, tx) PROVE Remains(p, tx)  BY <1>3, <2>1
  <2>3. Has(q.got, tx) \/ Onward(q, tx)  BY <2>2 DEF Remains
  <2>4. tx \in TxType /\ get_block_location(R.ring, tx[1]) = "found"  BY <1>0, <1>4, <1>6, WantedIs
  <2>5. CASE Has(q.got, tx)
    <3>1. PICK i \in DOMAIN q.got : q.got[i] = tx  BY <2>5 DEF Has
    <3>2. i \in TimedAt(q, R)  BY <2>4, <3>1 DEF TimedAt
    <3>3. Has(p.got, tx)  BY <1>5, <3>1, <3>2
    <3> QED  BY <1>2, <3>3 DEF Remains, Holding
  <2>6. CASE Onward(q, tx)
    <3>1. ~ p.finished  BY <1>2, <2>6 DEF Onward
    <3>2. ASSUME p.got # <<>> PROVE Comes(p.desc, LastOf(p.got), tx)
      <4>1. p.got \in Seq(TxType) /\ InOrder(p.desc, p.got)
        BY <1>2, <1>5 DEF PageOK, PageTypes, GotOK, Holding
      <4>2. Has(p.got, LastOf(p.got)) /\ LastOf(p.got) \in TxType  BY <3>2, <4>1, LastOrder
      <4>3. Has(q.got, LastOf(p.got))  BY <1>5, <4>2 DEF Has, TimedAt
      <4>4. q.got # <<>> /\ InOrder(q.desc, q.got)  BY <1>1, <4>3, HasNone DEF GotOK, Holding
      <4>5. /\ LastOf(q.got) \in TxType
            /\ LastOf(p.got) = LastOf(q.got) \/ Comes(q.desc, LastOf(p.got), LastOf(q.got))
        BY <1>2, <4>3, <4>4, LastOrder
      <4>6. Comes(q.desc, LastOf(q.got), tx)  BY <2>6, <4>4 DEF Onward
      <4> QED  BY <1>2, <2>4, <4>2, <4>5, <4>6, ComesThen
    <3> QED  BY <1>2, <3>1, <3>2 DEF Remains, Onward
  <2> QED  BY <2>3, <2>5, <2>6
<1> QED  BY <1>4, <1>6 DEF WholeOK, CompleteOK


\* What was read is looked at: what the page has no room for comes after it.
LEMMA PagedWhole ==
    ASSUME NEW q, PageOK(q), WholeOK(q), q.stage = "result", NEW p, NEW more \in Seq(TxType),
           PagedAs(p, q, more), InOrder(q.desc, more), Len(q.page) + Len(more) <= q.limit,
           \A tx : Has(more, tx) => Has(q.got, tx) /\ Passes(q.filter, tx),
           \A tx : Has(q.got, tx) /\ Passes(q.filter, tx) =>
              \/ Has(more, tx)
              \/ /\ Len(q.page) + Len(more) = q.limit
                 /\ more # <<>> /\ Comes(q.desc, LastOf(more), tx)
    PROVE  WholeOK(p)
<1>1. PageTypes(q) /\ ShownOK(q) /\ GotOK(q)  BY DEF PageOK
<1>2. /\ SamePages(p, q) /\ p.kept = q.kept /\ p.listed = q.listed /\ p.page = q.page \o more
      /\ p.desc = q.desc /\ p.filter = q.filter /\ p.limit = q.limit
      /\ q.got \in Seq(TxType) /\ q.page \in Seq(TxType) /\ q.desc \in BOOLEAN
  BY <1>1, SameIs DEF PagedAs, PageTypes
<1>3. KeptOK(p) /\ (q.cut = {} => \A tx : Sought(p, tx) => Has(Listing(q), tx) \/ Remains(q, tx))
  BY <1>2, KeptSame
<1>4. \A tx : Has(Listing(p), tx) <=> Has(Listing(q), tx) \/ Has(more, tx)  BY PagedOrder
<1>5. InOrder(q.desc, q.got)  BY <1>1 DEF GotOK, Holding
<1>6. Len(p.page) = Len(q.page) + Len(more) /\ Len(q.page) \in Nat /\ Len(more) \in Nat
  BY <1>2, ConcatProperties
<1>7. q.limit \in Nat /\ Len(q.page) < q.limit  BY <1>1, LimitIs DEF ShownOK, AtWork
<1>8. PICK reached, ends : /\ reached = (Len(p.page) = q.limit)
                           /\ ends = (reached \/ q.finished \/ q.got = <<>>)
  OBVIOUS
<1>9. /\ p.stage = IF ends THEN "page" ELSE "queued"
      /\ p.cursor = IF ends THEN q.cursor ELSE LastOf(q.got)
      /\ ends => /\ p.token = IF (q.finished /\ ~ reached) \/ p.page = <<>> THEN NoTx ELSE LastOf(p.page)
                 /\ p.cut = IF q.finished \/ reached THEN q.cut ELSE q.cut \union {"emptied"}
      /\ ~ ends => p.cut = q.cut
  BY <1>8 DEF PagedAs
<1>10. ASSUME reached
       PROVE  /\ more # <<>> /\ p.page # <<>> /\ LastOf(p.page) = LastOf(more)
              /\ Has(q.got, LastOf(more)) /\ LastOf(more) \in TxType /\ LastOf(more) # NoTx
  <2>1. Len(p.page) = q.limit  BY <1>8, <1>10
  <2>2. Len(more) > 0 /\ Len(p.page) > 0  BY <1>6, <1>7, <2>1
  <2>3. more # <<>> /\ p.page # <<>>  BY <2>2
  <2>4. LastOf(p.page) = LastOf(more)
    <3>1. PICK a, b : a = Len(q.page) /\ b = Len(more)  OBVIOUS
    <3>2. a \in Nat /\ b \in Nat /\ b > 0  BY <1>6, <2>2, <3>1
    <3>3. Len(p.page) = a + b /\ \A i \in 1 .. a + b : p.page[i] = IF i <= a THEN q.page[i] ELSE more[i - a]
      BY <1>2, <3>1, ConcatProperties
    <3>4. a + b \in 1 .. a + b /\ ~ (a + b <= a) /\ (a + b) - a = b  BY <3>2
    <3> QED  BY <3>1, <3>3, <3>4 DEF LastOf
  <2>5. Has(more, LastOf(more)) /\ LastOf(more) \in TxType  BY <2>3, LastOrder
  <2> QED  BY <2>3, <2>4, <2>5, NoTxIs
<1>11. ASSUME p.cut = {}, NEW tx, Sought(p, tx) PROVE Has(Listing(p), tx) \/ Remains(p, tx)
  <2>1. q.cut = {} /\ (ends => q.finished \/ reached)  BY <1>9, <1>11
  <2>2. Has(Listing(q), tx) \/ Remains(q, tx)  BY <1>3, <1>11, <2>1
  <2>3. SUFFICES ASSUME Remains(q, tx), ~ Has(more, tx) PROVE Remains(p, tx)  BY <1>4, <2>2
  <2>4. Has(q.got, tx) \/ Onward(q, tx)  BY <2>3 DEF Remains
  <2>5. tx \in TxType /\ Passes(q.filter, tx)  BY <1>2, <1>3, <1>11, TxsIs DEF Sought, KeptOK
  <2>6. CASE Has(q.got, tx)
    <3>1. Len(q.page) + Len(more) = q.limit /\ Comes(q.desc, LastOf(more), tx)  BY <2>3, <2>5, <2>6
    <3>2. reached  BY <1>6, <1>8, <3>1
    <3>3. ends  BY <1>8, <3>2
    <3>4. p.stage = "page" /\ p.token = LastOf(more) /\ p.token # NoTx  BY <1>9, <1>10, <3>2, <3>3
    <3> QED  BY <1>2, <3>1, <3>4 DEF Remains
  <2>7. CASE ~ Has(q.got, tx)
    <3>0. Onward(q, tx) /\ ~ q.finished  BY <2>4, <2>7 DEF Onward
    <3>1. CASE reached
      <4>1. Has(q.got, LastOf(more)) /\ LastOf(more) \in TxType  BY <1>10, <3>1
      <4>2. q.got # <<>>  BY <4>1, HasNone
      <4>3. /\ LastOf(q.got) \in TxType
            /\ LastOf(more) = LastOf(q.got) \/ Comes(q.desc, LastOf(more), LastOf(q.got))
        BY <1>2, <1>5, <4>1, <4>2, LastOrder
      <4>4. Comes(q.desc, LastOf(q.got), tx)  BY <3>0, <4>2 DEF Onward
      <4>5. Comes(q.desc, LastOf(more), tx)  BY <1>2, <2>5, <4>1, <4>3, <4>4, ComesThen
      <4>6. ends  BY <1>8, <3>1
      <4>7. p.stage = "page" /\ p.token = LastOf(more) /\ p.token # NoTx  BY <1>9, <1>10, <3>1, <4>6
      <4> QED  BY <1>2, <4>5, <4>7 DEF Remains
    <3>2. CASE ~ reached
      <4>1. ~ ends  BY <2>1, <3>0, <3>2
      <4>2. q.got # <<>>  BY <1>8, <4>1
      <4>3. p.stage = "queued" /\ p.cursor = LastOf(q.got)  BY <1>9, <4>1
      <4>4. Comes(q.desc, LastOf(q.got), tx)  BY <3>0, <4>2 DEF Onward
      <4> QED  BY <1>2, <4>3, <4>4 DEF Remains
    <3> QED  BY <3>1, <3>2
  <2> QED  BY <2>6, <2>7
<1> QED  BY <1>3, <1>11 DEF WholeOK, CompleteOK

\* The client goes on from the token.
LEMMA NextPageWhole ==
    ASSUME PageOK(req), WholeOK(req), next_page, NEW p, p = req'
    PROVE  WholeOK(p)
<1>0. PICK q : q = req  OBVIOUS
<1>1. /\ Listing(p) = Listing(q) /\ p.kept = q.kept /\ p.cut = q.cut /\ SamePages(p, q) /\ q.stage = "page"
      /\ IF q.token = NoTx THEN p.stage = "done" ELSE p.stage = "resolve" /\ p.cursor = q.token
  BY <1>0, NextPageIs
<1>2. WholeOK(q) /\ p.desc = q.desc  BY <1>0, <1>1, SameIs
<1>3. KeptOK(p) /\ (q.cut = {} => \A tx : Sought(p, tx) => Has(Listing(q), tx) \/ Remains(q, tx))
  BY <1>1, <1>2, KeptSame
<1>4. ASSUME NEW tx, Remains(q, tx) PROVE Remains(p, tx)
  <2>1. q.token # NoTx /\ Comes(q.desc, q.token, tx)  BY <1>1, <1>4 DEF Remains, Holding
  <2> QED  BY <1>1, <1>2, <2>1 DEF Remains
<1> QED  BY <1>1, <1>3, <1>4 DEF WholeOK, CompleteOK

\* What is kept every reader has.
LEMMA KeptIs ==
    ASSUME IndexInv, MemoryInv, NEW c \in Commitments, NEW p, p.kept = Kept(c), p.commit = c
    PROVE  KeptOK(p)
<1>1. \A tx \in Kept(c), r \in Readers : tx[1] \in DOMAIN reader[r].ring /\ tx[1] <= reader[r][c]
  BY DEF Kept
<1>2. Kept(c) \subseteq TxSet  BY DEF Kept
<1>3. ASSUME NEW tx \in Kept(c), NEW r \in Readers PROVE Attained(reader[r], c, tx[1])
  <2>1. PICK R : R = reader[r]  OBVIOUS
  <2>2. View(R.ring, R.inproc)  BY <2>1, ReaderView DEF MemoryInv
  <2>3. tx[1] \in DOMAIN R.ring /\ tx[1] <= R[c]  BY <1>1, <2>1
  <2>4. tx[1] <= Top(R)  BY <2>2, <2>3, TopOver
  <2>5. c = "confirmed" \/ c = "finalized"  BY DEF Commitments
  <2> QED  BY <2>1, <2>3, <2>4, <2>5 DEF Attained, Reaches
<1> QED  BY <1>1, <1>2, <1>3 DEF KeptOK

\* The first page: every reader has what is kept.
LEMMA AskedWhole ==
    ASSUME IndexInv, MemoryInv, NEW c \in Commitments, NEW p, p.kept = Kept(c), p.commit = c,
           p.stage = "resolve", p.cursor = NoTx
    PROVE  WholeOK(p)
<1>1. KeptOK(p)  BY KeptIs
<1>2. \A tx : Remains(p, tx)  BY DEF Remains
<1> QED  BY <1>1, <1>2 DEF WholeOK, CompleteOK


\* Storage under the requests for an address.
LEMMA AddressMoves ==
    ASSUME IndexInv, MemoryInv, [AddressNext]_readvars
    PROVE  /\ IndexInv' /\ MemoryInv'
           /\ \/ req' = req /\ (Behind = {} => Advance /\ Behind' = {})
              \/ UNCHANGED <<writer, inbox, reader, stored>>
<1>1. CASE Storage
  <2>1. Advance /\ req' = req  BY <1>1, StorageAdvance, StorageLeaves
  <2>2. reader' = reader  BY <1>1, StorageQuiet
  <2>3. Behind' = Behind  BY <2>2 DEF Behind
  <2> QED  BY <1>1, <2>1, <2>3, IndexMoves, MemoryMoves
<1>2. ASSUME NEW r \in Readers, handle(r)
      PROVE  IndexInv' /\ MemoryInv' /\ req' = req /\ (Behind = {} => Advance /\ Behind' = {})
  <2>1. req' = req  BY <1>2, HandleLeaves
  <2>2. Behind = {} => Behind' = {} /\ receive(r)  BY <1>2, HandleFollows
  <2>3. receive(r) => Advance  BY HandleAdvance
  <2> QED  BY <1>2, <2>1, <2>2, <2>3, IndexMoves, MemoryMoves
<1>3. CASE UNCHANGED <<writer, inbox, reader, stored>>  BY <1>3, IndexSame, MemorySame
<1> QED
  BY <1>1, <1>2, <1>3
  DEF AddressNext, take_address, read_tx_index, SignaturesForAddress2, TransactionsForAddress2,
      resolve_signature_position, ask_address, answer_address, next_page, finish_address, readvars, writer

LEMMA WholeNext ==
    ASSUME IndexInv, MemoryInv, PagesInv, WholeInv, [AddressNext]_readvars
    PROVE  WholeInv'
<1>0. IndexInv' /\ MemoryInv' /\ PagesInv'  BY AddressMoves, PagesNext
<1>1. ASSUME WholeOK(req)', Behind' = {} PROVE WholeInv'
  BY <1>1 DEF WholeInv
<1>2. CASE req' = req /\ (Behind = {} => Advance /\ Behind' = {})
  <2>1. CASE PageOK(req) /\ req.behind = {}
    <3>1. PICK q : q = req  OBVIOUS
    <3>2. WholeOK(q) /\ Advance /\ Behind' = {}  BY <1>2, <2>1, <3>1 DEF WholeInv
    <3>3. WholeOK(q)'  BY <1>0, <1>2, <3>2, WholeWaits
    <3>4. WholeOK(req)'  BY <1>2, <3>1, <3>3 DEF WholeOK, KeptOK, CompleteOK, Sought
    <3> QED  BY <1>1, <3>2, <3>4
  <2>2. CASE ~ PageOK(req)
    <3>1. ~ PageOK(req')  BY <1>2, <2>2
    <3> QED  BY <3>1 DEF WholeInv, PageOK, PageTypes, ShownOK, GotOK
  <2>3. CASE req.behind # {}  BY <1>2, <2>3 DEF WholeInv
  <2> QED  BY <2>1, <2>2, <2>3
<1>3. CASE UNCHANGED <<writer, inbox, reader, stored>>
  <2>5. Behind' = Behind  BY <1>3 DEF Behind
  <2>0. ASSUME NEW p, p = req', WholeOK(p), Behind = {} PROVE WholeInv'
    <3>1. WholeOK(p)'  BY <1>3, <2>0, WholeSame
    <3>2. WholeOK(req)'  BY <2>0, <3>1 DEF WholeOK, KeptOK, CompleteOK, Sought
    <3> QED  BY <1>1, <2>0, <2>5, <3>2
  <2>6. ASSUME req'.behind # {} PROVE WholeInv'  BY <2>6 DEF WholeInv
  <2>1. ASSUME req' = [stage |-> "none"] \/ IsSignatures(req') PROVE WholeInv'
    <3>1. ~ PageOK(req')
      <4>1. CASE req' = [stage |-> "none"]
        <5>1. DOMAIN req' = {"stage"}  BY <4>1
        <5> QED  BY <5>1 DEF PageOK, PageTypes, PageFields
      <4>2. CASE IsSignatures(req')  BY <4>2 DEF IsSignatures, PageOK, PageTypes
      <4> QED  BY <2>1, <4>1, <4>2
    <3> QED  BY <3>1 DEF WholeInv, PageOK, PageTypes, ShownOK, GotOK
  <2>2. CASE req = [stage |-> "none"]
    <3>1. ASSUME ask_address PROVE WholeInv'
      <4>1. CASE \E before \in Befores, until \in Untils, limit \in Limits, c \in Commitments :
                    req' = AskedSignatures(before, until, limit, c)
        BY <2>1, <4>1, AskedSignaturesIs
      <4>2. CASE \E desc \in BOOLEAN, limit \in Limits, f \in Filters, c \in Commitments :
                    req' = AskedTransactions(desc, limit, f, c)
        <5>1. PICK desc \in BOOLEAN, limit \in Limits, f \in Filters, c \in Commitments :
                 req' = AskedTransactions(desc, limit, f, c)
          BY <4>2
        <5>2. PICK p : p = req'  OBVIOUS
        <5>3. p.stage = "resolve" /\ p.kept = Kept(c) /\ p.commit = c /\ p.cursor = NoTx /\ p.behind = Behind
          BY <5>1, <5>2, AskedPages
        <5>4. WholeOK(p)  BY <5>3, AskedWhole
        <5>5. CASE Behind = {}  BY <2>0, <5>2, <5>4, <5>5
        <5>6. CASE Behind # {}  BY <2>6, <5>2, <5>3, <5>6
        <5> QED  BY <5>5, <5>6
      <4> QED  BY <3>1, <4>1, <4>2 DEF ask_address
    <3>2. CASE Storage \/ \E r \in Readers : handle(r)
      <4>1. req' = req  BY <3>2, StorageLeaves, HandleLeaves
      <4> QED  BY <2>1, <2>2, <4>1
    <3>3. CASE UNCHANGED readvars  BY <2>1, <2>2, <3>3 DEF readvars
    <3> QED  BY <2>2, <3>1, <3>2, <3>3, NothingAsked DEF AddressNext
  <2>3. CASE IsSignatures(req)
    <3>1. ~ ask_address  BY <2>3 DEF ask_address, IsSignatures
    <3>2. finish_address => WholeInv'  BY <2>1 DEF finish_address
    <3>3. CASE Storage \/ \E r \in Readers : handle(r)
      <4>1. req' = req  BY <3>3, StorageLeaves, HandleLeaves
      <4> QED  BY <2>1, <2>3, <4>1
    <3>4. CASE UNCHANGED readvars  BY <2>1, <2>3, <3>4 DEF readvars
    <3>5. StaySignatures(req', req) => WholeInv'  BY <2>1 DEF StaySignatures
    <3> QED  BY <2>3, <3>1, <3>2, <3>3, <3>4, <3>5, SignaturesStay DEF AddressNext
  <2>7. CASE PageOK(req) /\ req.behind # {}
    <3>1. (PageOK(req') /\ req'.behind = req.behind) \/ req' = [stage |-> "none"]  BY <2>7, PagesStay
    <3> QED  BY <2>1, <2>6, <2>7, <3>1
  <2>4. CASE PageOK(req) /\ req.behind = {}
    <3>0. WholeOK(req) /\ PageTypes(req) /\ req.kind = "getTransactionsForAddress"
          /\ req.stage \in AtWork \union {"page", "done"} /\ Behind = {}
      BY <2>4 DEF WholeInv, PageOK, PageTypes
    <3>1. ~ ask_address /\ ~ read_tx_index /\ ~ SignaturesForAddress2
      BY <3>0 DEF ask_address, read_tx_index, SignaturesForAddress2, AtWork
    <3>2. finish_address => WholeInv'  BY <2>1 DEF finish_address
    <3>3. ASSUME req' = req PROVE WholeInv'
      <4>1. PICK p : p = req'  OBVIOUS
      <4>2. WholeOK(p)  BY <3>0, <3>3, <4>1
      <4> QED  BY <2>0, <3>0, <4>1, <4>2
    <3>4. CASE Storage \/ \E r \in Readers : handle(r)
      <4>1. req' = req  BY <3>4, StorageLeaves, HandleLeaves
      <4> QED  BY <3>3, <4>1
    <3>5. CASE UNCHANGED readvars  BY <3>3, <3>5 DEF readvars
    <3>6. PICK p : p = req'  OBVIOUS
    <3>7. ASSUME NEW r \in Readers, take_address(r) PROVE WholeInv'
      <4>0. Copy(reader[r]) = reader[r]  BY <3>0, CopyIs
      <4>1. CASE /\ req.stage = "queued"
                 /\ req' = [TransactionsForAddress(reader[r]) EXCEPT !.reader = r]
        <5>1. TakenAs(p, req, reader[r], request_limit)  BY <3>0, <3>6, <4>1, TakenIs
        <5>2. Len(req.page) < req.limit  BY <2>4, <4>1 DEF PageOK, ShownOK, AtWork
        <5>3. request_limit \in Nat /\ request_limit > 0  BY <3>0, <5>2, RequestLimit
        <5>4. WholeOK(p)  BY <2>4, <3>0, <4>1, <5>1, <5>3, TakeWhole
        <5> QED  BY <2>0, <3>0, <3>6, <5>4
      <4>2. CASE req.stage = "scanned" /\ req' = AddBlockTimes(reader[r])
        <5>1. TimedAs(p, req, reader[r])  BY <3>0, <3>6, <4>2, TimedIs
        <5>2. WholeOK(p)  BY <2>4, <3>0, <4>2, <5>1, TimedWhole
        <5> QED  BY <2>0, <3>0, <3>6, <5>2
      <4>3. PICK R : R = reader[r]  OBVIOUS
      <4>4. \/ req.stage = "queued" /\ req' = [TransactionsForAddress(R) EXCEPT !.reader = r]
            \/ req.stage = "scanned" /\ req' = AddBlockTimes(R)
        BY <3>0, <3>7, <4>0, <4>3 DEF take_address, TransactionsForAddress3
      <4> QED  BY <4>1, <4>2, <4>3, <4>4
    <3>8. ASSUME answer_address PROVE WholeInv'
      <4>1. req.stage = "result" /\ p = RpcRequestTransactionsForAddress
        BY <3>0, <3>6, <3>8 DEF answer_address
      <4>2. \E more \in Seq(TxType) :
               /\ PagedAs(p, req, more) /\ InOrder(req.desc, more)
               /\ Len(req.page) + Len(more) <= req.limit
               /\ \A tx : Has(more, tx) => Has(req.got, tx) /\ Passes(req.filter, tx)
               /\ \A tx : Has(req.got, tx) /\ Passes(req.filter, tx) =>
                     \/ Has(more, tx)
                     \/ /\ Len(req.page) + Len(more) = req.limit
                        /\ more # <<>> /\ Comes(req.desc, LastOf(more), tx)
        BY <2>4, <4>1, PagedIs
      <4>3. WholeOK(p)  BY <2>4, <3>0, <4>1, <4>2, PagedWhole
      <4> QED  BY <2>0, <3>0, <3>6, <4>3
    <3>9. ASSUME TransactionsForAddress2 PROVE WholeInv'
      <4>1. WholeOK(p)  BY <2>4, <3>0, <3>6, <3>9, ScanWhole
      <4> QED  BY <2>0, <3>0, <3>6, <4>1
    <3>10. ASSUME resolve_signature_position PROVE WholeInv'
      <4>1. WholeOK(p)  BY <2>4, <3>0, <3>6, <3>10, ResolveWhole
      <4> QED  BY <2>0, <3>0, <3>6, <4>1
    <3>11. ASSUME next_page PROVE WholeInv'
      <4>1. WholeOK(p)  BY <2>4, <3>0, <3>6, <3>11, NextPageWhole
      <4> QED  BY <2>0, <3>0, <3>6, <4>1
    <3> QED  BY <3>1, <3>2, <3>4, <3>5, <3>7, <3>8, <3>9, <3>10, <3>11 DEF AddressNext
  <2> QED  BY <2>2, <2>3, <2>4, <2>7 DEF PagesInv
<1> QED  BY <1>2, <1>3, AddressMoves

\* The storage the requests for an address read, and what they have not
\* passed over.
THEOREM WholeInvariant == AddressSpec => [](IndexInv /\ MemoryInv /\ PagesInv /\ WholeInv)
<1>1. AddressInit => IndexInv /\ MemoryInv /\ PagesInv /\ WholeInv
  <2> SUFFICES ASSUME AddressInit PROVE IndexInv /\ MemoryInv /\ PagesInv /\ WholeInv  OBVIOUS
  <2>1. IndexInv /\ MemoryInv /\ PagesInv  BY IndexStart, MemoryStart DEF AddressInit, PagesInv
  <2>2. DOMAIN req = {"stage"}  BY DEF AddressInit
  <2>3. ~ PageOK(req)  BY <2>2 DEF PageOK, PageTypes, PageFields
  <2> QED  BY <2>1, <2>3 DEF WholeInv
<1>2. (IndexInv /\ MemoryInv /\ PagesInv /\ WholeInv) /\ [AddressNext]_readvars
        => (IndexInv /\ MemoryInv /\ PagesInv /\ WholeInv)'
  BY AddressMoves, PagesNext, WholeNext
<1> QED  BY <1>1, <1>2, PTL DEF AddressSpec

\* When the last page has no token, everything is listed that was stored for
\* every reader when the first page was asked for and is stored still, for any
\* filter, limit and batch, whatever is confirmed, stored and pruned between
\* two reads.  (The first page is asked for when the readers have handled what
\* the start took back.)
THEOREM PagesCompleteAlways == AddressSpec => []PagesComplete
<1>1. PagesInv /\ WholeInv => PagesComplete
  <2> SUFFICES ASSUME PagesInv, WholeInv, PagesDone, req.cut = {}, NEW tx \in req.kept,
                      tx[1] \in DOMAIN ring, Passes(req.filter, tx), Matches(req.filter.slot, tx[1])
               PROVE  \E i \in DOMAIN req.listed : req.listed[i] = tx
    BY DEF PagesComplete
  <2>1. req.kind = "getTransactionsForAddress" /\ req.stage = "done" /\ req.behind = {}  BY DEF PagesDone
  <2>2. PageOK(req)
    <3>1. req # [stage |-> "none"]  BY <2>1
    <3>2. ~ IsSignatures(req)  BY <2>1 DEF IsSignatures
    <3> QED  BY <3>1, <3>2 DEF PagesInv
  <2>3. req.listed \in Seq(TxType) /\ req.page = <<>>  BY <2>1, <2>2 DEF PageOK, PageTypes, ShownOK
  <2>4. Listing(req) = req.listed  BY <2>3 DEF Listing
  <2>5. ~ Remains(req, tx)  BY <2>1 DEF Remains, Holding
  <2>6. Sought(req, tx)  BY DEF Sought
  <2>7. Has(Listing(req), tx)  BY <2>1, <2>2, <2>5, <2>6 DEF WholeInv, WholeOK, CompleteOK
  <2> QED  BY <2>4, <2>7 DEF Has
<1> QED  BY <1>1, WholeInvariant, PTL

-----------------------------------------------------------------------------
(***************************************************************************)
(* getSignaturesForAddress.  What a reader has listed once keeps its rows  *)
(* in the address index until it is removed from the ring, and the lowest  *)
(* goes first: rows are missing only below the others.  (A block of the    *)
(* history that found no room may leave its rows below; no reader ever     *)
(* lists it.)                                                              *)
(***************************************************************************)
Cleared(s) ==
    s \in LiveSlots /\ s \in indexed =>
        s \in DOMAIN ring \/ (Leaving /\ s = op.gone /\ op.free # None)

Pushes(m) == m.type \in {"PushFront", "PushBack"}

\* Rows are of slots the writer has passed, or of the one it pushes.
RowsPassed == \A s \in indexed : Known(s) \/ (op.stage # "idle" /\ s = op.slot)

\* What leaves the ring was next to the rest of it.
LeavesEdge == Leaving => op.gone + 1 \in DOMAIN ring \/ op.gone + 1 = next

RowsOK ==
    /\ RowsPassed /\ LeavesEdge
    /\ op.file = "no_room" => op.side = "back"
    /\ \A r \in Readers :
          /\ \A s \in DOMAIN reader[r].ring : Cleared(s)
          /\ \A i \in DOMAIN inbox[r] : Pushes(inbox[r][i]) => Cleared(inbox[r][i].slot)

\* A reader does not list the slot and never will.
Out(r, s) ==
    /\ s \notin DOMAIN reader[r].ring /\ Known(s)
    /\ \A i \in DOMAIN inbox[r] : Pushes(inbox[r][i]) => inbox[r][i].slot # s

\* The slot after those a reader has listed.
NextOf(R) == IF R.inproc # None THEN R.inproc ELSE Highest(DOMAIN R.ring) + 1

-----------------------------------------------------------------------------
(***************************************************************************)
(* A list of getSignaturesForAddress.  It is to begin after before, or     *)
(* with the transactions up to a slot S.                                   *)
(***************************************************************************)
Starts(q, S, tx) == tx \in TxSet /\ IF q.before # NoTx THEN Newer(q.before, tx) ELSE tx[1] <= S

Listed(q, S) ==
    /\ q.got \in Seq(TxType) /\ InOrder(TRUE, q.got) /\ Len(q.got) <= q.limit
    /\ \A z : Has(q.got, z) => Starts(q, S, z) /\ z # q.until

\* What is not in the list is older than what is.
Gapless(q, S) ==
    \A tx, z : Starts(q, S, tx) /\ ~ Has(q.got, tx) /\ Has(q.got, z) => Newer(z, tx)

StillThere(q, tx) == tx \in q.kept /\ tx[1] \in DOMAIN ring

\* Nothing is left out at the end that is older than the list and newer than
\* until, if it is there still.
EndsWell(q, S) ==
    \A tx :
        /\ Starts(q, S, tx) /\ ~ Has(q.got, tx)
        /\ Len(q.got) < q.limit /\ q.before[1] <= q.seen
        /\ q.asked \/ StillThere(q, tx)
        => tx = q.until \/ (Starts(q, S, q.until) /\ Newer(q.until, tx))

\* What is above the slot of the scan is in the list, what is not is listed
\* by the reader, or was.
Ready(q, S) ==
    /\ \A tx : Starts(q, S, tx) /\ tx[1] > q.slot => Has(q.got, tx)
    /\ \A tx \in TxSet : tx[1] <= q.slot => tx[1] < NextOf(reader[q.reader])

AtIndex(q) ==
    /\ q.after = q.before /\ q.before \in TxSet /\ q.got = <<>> /\ q.own = 0
    /\ q.before[1] > q.slot => q.before[1] > q.seen
    /\ \A tx \in TxSet : tx[1] <= q.slot => tx[1] < NextOf(reader[q.reader])

AtScan(q, S) ==
    /\ Listed(q, S) /\ Ready(q, S)
    /\ q.own = Len(q.got) /\ Len(q.got) < q.limit
    /\ \A z : Has(q.got, z) => z[1] > q.slot
    /\ q.after = NoTx => \A tx \in TxSet : tx[1] <= q.slot => Starts(q, S, tx)
    /\ q.after # NoTx => q.after = q.before /\ q.got = <<>> /\ q.slot = q.before[1]

Scanned(q, S) ==
    /\ Listed(q, S) /\ Ready(q, S) /\ EndsWell(q, S)
    /\ \A i \in DOMAIN q.got : i <= q.own <=> q.got[i][1] > q.slot
    /\ \A tx, z : Starts(q, S, tx) /\ ~ Has(q.got, tx) /\ Has(q.got, z) =>
          Newer(z, tx) \/ (Out(q.reader, z[1]) /\ ~ StillThere(q, tx))

Ended(q, S) == Listed(q, S) /\ Gapless(q, S) /\ EndsWell(q, S)

\* The slots from which a list may begin.
Tops(q) == {S \in Nat : q.seen <= S}

SignatureTypes(q) ==
    /\ IsSignatures(q)
    /\ q.before \in TxSet \union {NoTx} /\ q.until \in TxSet \union {NoTx}
    /\ q.limit \in Nat \ {0} /\ q.seen \in Nat /\ q.commit \in Commitments
    /\ q.got \in Seq(TxType) /\ Len(q.got) <= q.limit /\ q.after \in {NoTx, q.before}
    /\ q.stage \in {"index", "scan", "scanned"} => q.reader \in Readers /\ q.slot \in Int
    /\ q.stage # "done" => ~ q.asked /\ ~ q.restarted

SignaturesOK(q) ==
    /\ KeptOK(q)
    /\ q.stage = "queued" =>
          q.got = <<>> /\ ~ q.ahead /\ \A r \in Readers : Attained(reader[r], q.commit, q.seen)
    /\ ~ q.ahead /\ ~ q.restarted =>
          /\ q.stage = "index" => AtIndex(q)
          /\ q.stage = "scan" => \E S \in Tops(q) : AtScan(q, S)
          /\ q.stage = "scanned" => \E S \in Tops(q) : Scanned(q, S)
          /\ q.stage \in {"result", "done"} => \E S \in Tops(q) : Ended(q, S)

SignaturesInv ==
    IsSignatures(req) /\ req.behind = {} => Behind = {} /\ SignatureTypes(req) /\ SignaturesOK(req)

-----------------------------------------------------------------------------
(***************************************************************************)
(* The parts of lists that the scans take.                                 *)
(***************************************************************************)
LEMMA SubSeqIs ==
    ASSUME NEW X, NEW list \in Seq(X), NEW a \in Nat, NEW b \in Nat, a > 0, b <= Len(list), a <= b + 1
    PROVE  /\ SubSeq(list, a, b) \in Seq(X) /\ Len(SubSeq(list, a, b)) = b + 1 - a
           /\ DOMAIN SubSeq(list, a, b) = 1 .. b + 1 - a
           /\ \A i \in 1 .. b + 1 - a : SubSeq(list, a, b)[i] = list[a + i - 1]
<1>1. PICK m : m = Len(list)  OBVIOUS
<1>2. m \in Nat /\ DOMAIN list = 1 .. m /\ b <= m  BY <1>1
<1>3. \A i \in a .. b : list[i] \in X
  <2> TAKE i \in a .. b
  <2>1. i \in 1 .. m  BY <1>2
  <2> QED  BY <1>2, <2>1
<1>4. PICK f : f = SubSeq(list, a, b)  OBVIOUS
<1>5. f \in Seq(X) /\ Len(f) = (IF a <= b THEN b - a + 1 ELSE 0)
      /\ \A i \in 1 .. b - a + 1 : f[i] = list[a + i - 1]
  BY <1>3, <1>4, SubSeqProperties
<1>6. b - a + 1 = b + 1 - a /\ Len(f) = b + 1 - a  BY <1>5
<1> QED  BY <1>4, <1>5, <1>6

\* The position of a transaction in a list.
LEMMA PositionIs ==
    ASSUME NEW list \in Seq(TxType), NEW tx
    PROVE  /\ PositionOf(list, tx) \in Nat /\ PositionOf(list, tx) <= Len(list)
           /\ PositionOf(list, tx) = 0 => ~ Has(list, tx)
           /\ PositionOf(list, tx) # 0 =>
                 /\ PositionOf(list, tx) \in DOMAIN list /\ list[PositionOf(list, tx)] = tx
                 /\ \A i \in DOMAIN list : i < PositionOf(list, tx) => list[i] # tx
<1>1. PICK S : S = {i \in DOMAIN list : list[i] = tx}  OBVIOUS
<1>2. S \subseteq Nat /\ DOMAIN list \subseteq Nat /\ 0 \notin DOMAIN list
      /\ \A i \in DOMAIN list : i <= Len(list)
  BY <1>1
<1>3. PositionOf(list, tx) = FirstAt(S)  BY <1>1 DEF PositionOf
<1>4. CASE S = {}
  <2>1. PositionOf(list, tx) = 0  BY <1>3, <1>4 DEF FirstAt
  <2>2. ~ Has(list, tx)  BY <1>1, <1>4 DEF Has
  <2>3. Len(list) \in Nat  OBVIOUS
  <2> QED  BY <2>1, <2>2, <2>3
<1>5. CASE S # {}
  <2>1. \E x \in S : \A y \in S : x <= y  BY <1>2, <1>5, NatMin, Zenon
  <2>2. Lowest(S) \in S /\ \A y \in S : Lowest(S) <= y  BY <2>1, Zenon DEF Lowest
  <2>3. PICK k : k = PositionOf(list, tx)  OBVIOUS
  <2>4. k \in S /\ \A y \in S : k <= y  BY <1>3, <1>5, <2>2, <2>3 DEF FirstAt
  <2>5. k \in DOMAIN list /\ list[k] = tx /\ k \in Nat /\ k # 0 /\ k <= Len(list)  BY <1>1, <1>2, <2>4
  <2>6. ASSUME NEW i \in DOMAIN list, i < k PROVE list[i] # tx
    <3>1. i \in Nat  BY <1>2
    <3>2. i \notin S  BY <2>4, <2>5, <2>6, <3>1
    <3> QED  BY <1>1, <3>2
  <2> QED  BY <2>3, <2>5, <2>6
<1> QED  BY <1>4, <1>5

\* Up to until and to the limit: what is left out is older, and until is
\* among it or there was no room for more.
LEMMA UptoIs ==
    ASSUME NEW list \in Seq(TxType), InOrder(TRUE, list), NEW until, NEW room \in Nat,
           NEW x, x = Upto(list, until, room)
    PROVE  /\ x.txs \in Seq(TxType) /\ InOrder(TRUE, x.txs) /\ Len(x.txs) <= room
           /\ \A tx : Has(x.txs, tx) => Has(list, tx) /\ tx # until
           /\ \A tx, z : Has(list, tx) /\ ~ Has(x.txs, tx) /\ Has(x.txs, z) => Newer(z, tx)
           /\ \A tx : Has(list, tx) /\ ~ Has(x.txs, tx) /\ Len(x.txs) < room =>
                 Has(list, until) /\ (tx = until \/ Newer(until, tx))
           /\ x.finished => Has(list, until) \/ Len(x.txs) = room
           /\ ~ x.finished => Len(x.txs) < room /\ \A tx : Has(list, tx) => Has(x.txs, tx)
<1>1. PICK at : at = PositionOf(list, until)  OBVIOUS
<1>2. PICK n : n = Len(list)  OBVIOUS
<1>3. /\ at \in Nat /\ at <= n /\ (at = 0 => ~ Has(list, until))
      /\ at # 0 => /\ at \in DOMAIN list /\ list[at] = until
                   /\ \A i \in DOMAIN list : i < at => list[i] # until
      /\ n \in Nat /\ DOMAIN list = 1 .. n
  BY <1>1, <1>2, PositionIs
<1>4. PICK k : k = IF at = 0 THEN n ELSE at - 1  OBVIOUS
<1>5. k \in Nat /\ k <= n  BY <1>3, <1>4
<1>6. PICK rest : rest = IF at = 0 THEN list ELSE SubSeq(list, 1, at - 1)  OBVIOUS
<1>7. rest \in Seq(TxType) /\ Len(rest) = k /\ \A i \in 1 .. k : rest[i] = list[i]
  <2>1. CASE at = 0  BY <1>2, <1>3, <1>4, <1>6, <2>1
  <2>2. CASE at # 0
    <3>1. rest = SubSeq(list, 1, k)  BY <1>4, <1>6, <2>2
    <3>2. k + 1 - 1 = k /\ \A i \in 1 .. k : 1 + i - 1 = i  BY <1>5
    <3>3. 1 \in Nat /\ 1 > 0 /\ 1 <= k + 1 /\ k <= Len(list)  BY <1>2, <1>5
    <3>4. /\ rest \in Seq(TxType) /\ Len(rest) = k + 1 - 1
          /\ \A i \in 1 .. k + 1 - 1 : rest[i] = list[1 + i - 1]
      BY <1>5, <3>1, <3>3, SubSeqIs
    <3> QED  BY <3>2, <3>4
  <2> QED  BY <2>1, <2>2
<1>8. PICK m : m = Lesser(room, k)  OBVIOUS
<1>9. m \in Nat /\ m <= room /\ m <= k /\ (m = room \/ m = k) /\ m <= n
  BY <1>3, <1>5, <1>8 DEF Lesser
<1>10. PICK t : t = x.txs  OBVIOUS
<1>11. t = SubSeq(rest, 1, m) /\ x.finished = (at # 0 \/ k >= room)
  BY <1>1, <1>6, <1>7, <1>8, <1>10 DEF Upto, FirstOf
<1>12. t \in Seq(TxType) /\ Len(t) = m /\ DOMAIN t = 1 .. m /\ \A i \in 1 .. m : t[i] = list[i]
  <2>1. m + 1 - 1 = m /\ \A i \in 1 .. m : 1 + i - 1 = i /\ i \in 1 .. k  BY <1>5, <1>9
  <2>2. 1 \in Nat /\ 1 > 0 /\ 1 <= m + 1 /\ m <= Len(rest)  BY <1>7, <1>9
  <2>3. /\ t \in Seq(TxType) /\ Len(t) = m + 1 - 1 /\ DOMAIN t = 1 .. m + 1 - 1
        /\ \A i \in 1 .. m + 1 - 1 : t[i] = rest[1 + i - 1]
    BY <1>7, <1>9, <1>11, <2>2, SubSeqIs
  <2> QED  BY <1>7, <2>1, <2>3
<1>13. \A i \in 1 .. m : i \in DOMAIN list /\ list[i] # until
  <2> TAKE i \in 1 .. m
  <2>1. i \in DOMAIN list  BY <1>3, <1>9
  <2>2. CASE at = 0  BY <1>3, <2>1, <2>2 DEF Has
  <2>3. CASE at # 0
    <3>1. i < at  BY <1>3, <1>4, <1>9, <2>3
    <3> QED  BY <1>3, <2>1, <2>3, <3>1
  <2> QED  BY <2>1, <2>2, <2>3
<1>14. InOrder(TRUE, t)  BY <1>12, <1>13 DEF InOrder
<1>15. \A tx : Has(t, tx) => Has(list, tx) /\ tx # until  BY <1>12, <1>13 DEF Has
<1>16. ASSUME NEW tx, Has(list, tx), ~ Has(t, tx)
       PROVE  \E j \in DOMAIN list : list[j] = tx /\ j > m
  <2>1. PICK j \in DOMAIN list : list[j] = tx  BY <1>16 DEF Has
  <2>2. j \notin 1 .. m  BY <1>12, <1>16, <2>1 DEF Has
  <2>3. j > m  BY <1>3, <1>9, <2>2
  <2> QED  BY <2>1, <2>3
<1>17. ASSUME NEW tx, NEW z, Has(list, tx), ~ Has(t, tx), Has(t, z) PROVE Newer(z, tx)
  <2>1. PICK j \in DOMAIN list : list[j] = tx /\ j > m  BY <1>16, <1>17
  <2>2. PICK i \in 1 .. m : t[i] = z  BY <1>12, <1>17 DEF Has
  <2>3. list[i] = z /\ i \in DOMAIN list /\ i < j  BY <1>3, <1>9, <1>12, <1>13, <2>1, <2>2
  <2> QED  BY <2>1, <2>3 DEF InOrder, Comes
<1>18. ASSUME NEW tx, Has(list, tx), ~ Has(t, tx), Len(t) < room
       PROVE  Has(list, until) /\ (tx = until \/ Newer(until, tx))
  <2>1. PICK j \in DOMAIN list : list[j] = tx /\ j > m  BY <1>16, <1>18
  <2>2. m = k  BY <1>9, <1>12, <1>18
  <2>3. at # 0 /\ k = at - 1  BY <1>3, <1>4, <2>1, <2>2
  <2>4. at \in DOMAIN list /\ list[at] = until /\ (j = at \/ at < j)  BY <1>3, <2>1, <2>2, <2>3
  <2> QED  BY <2>1, <2>4 DEF Has, InOrder, Comes
<1>19. x.finished => Has(list, until) \/ Len(t) = room
  <2>1. at # 0 => Has(list, until)  BY <1>3 DEF Has
  <2>2. k >= room => m = room  BY <1>5, <1>8, <1>9 DEF Lesser
  <2> QED  BY <1>11, <1>12, <2>1, <2>2
<1>20. ASSUME ~ x.finished PROVE Len(t) < room /\ \A tx : Has(list, tx) => Has(t, tx)
  <2>0. ~ (at # 0 \/ k >= room)  BY <1>11, <1>20, Zenon
  <2>1. at = 0 /\ k < room /\ k = n  BY <1>3, <1>4, <1>5, <2>0
  <2>2. m = n /\ Len(t) < room  BY <1>5, <1>9, <1>12, <2>1
  <2> QED  BY <1>3, <1>12, <2>2 DEF Has
<1>21. Len(t) <= room  BY <1>9, <1>12
<1> QED  BY <1>10, <1>12, <1>14, <1>15, <1>17, <1>18, <1>19, <1>20, <1>21

\* What follows a transaction in a list is what is older.
LEMMA AfterIs ==
    ASSUME NEW list \in Seq(TxType), InOrder(TRUE, list), NEW tx
    PROVE  /\ After(list, tx) \in Seq(TxType) /\ InOrder(TRUE, After(list, tx))
           /\ \A z : Has(After(list, tx), z) <=> Has(list, tx) /\ Has(list, z) /\ Newer(tx, z)
<1>1. PICK at : at = PositionOf(list, tx)  OBVIOUS
<1>2. PICK n : n = Len(list)  OBVIOUS
<1>3. /\ at \in Nat /\ at <= n /\ (at = 0 => ~ Has(list, tx))
      /\ at # 0 => at \in DOMAIN list /\ list[at] = tx
      /\ n \in Nat /\ DOMAIN list = 1 .. n
  BY <1>1, <1>2, PositionIs
<1>4. PICK f : f = After(list, tx)  OBVIOUS
<1>5. CASE at = 0
  <2>1. f = <<>>  BY <1>1, <1>4, <1>5 DEF After
  <2> QED  BY <1>3, <1>4, <1>5, <2>1, HasNone DEF InOrder
<1>6. CASE at # 0
  <2>1. f = SubSeq(list, at + 1, n)  BY <1>1, <1>2, <1>4, <1>6 DEF After
  <2>2. at + 1 \in Nat /\ at + 1 > 0 /\ at + 1 <= n + 1 /\ n <= Len(list) /\ n + 1 - (at + 1) = n - at
        /\ \A i \in 1 .. n - at : (at + 1) + i - 1 = at + i
    BY <1>2, <1>3
  <2>3. /\ f \in Seq(TxType) /\ DOMAIN f = 1 .. n - at
        /\ \A i \in 1 .. n - at : f[i] = list[at + i]
    <3>1. /\ f \in Seq(TxType) /\ DOMAIN f = 1 .. n + 1 - (at + 1)
          /\ \A i \in 1 .. n + 1 - (at + 1) : f[i] = list[(at + 1) + i - 1]
      BY <1>3, <2>1, <2>2, SubSeqIs
    <3> QED  BY <2>2, <3>1
  <2>4. \A i \in 1 .. n - at : at + i \in DOMAIN list /\ at < at + i  BY <1>3
  <2>5. InOrder(TRUE, f)
    <3>1. ASSUME NEW i \in 1 .. n - at, NEW j \in 1 .. n - at, i < j PROVE at + i < at + j
      BY <1>3, <3>1
    <3> QED  BY <2>3, <2>4, <3>1 DEF InOrder
  <2>6. ASSUME NEW z, Has(f, z) PROVE Has(list, z) /\ Newer(tx, z)
    <3>1. PICK i \in 1 .. n - at : f[i] = z  BY <2>3, <2>6 DEF Has
    <3>2. list[at + i] = z /\ at + i \in DOMAIN list /\ at < at + i  BY <2>3, <2>4, <3>1
    <3> QED  BY <1>3, <1>6, <3>2 DEF Has, InOrder, Comes
  <2>7. ASSUME NEW z, Has(list, z), Newer(tx, z) PROVE Has(f, z)
    <3>1. PICK j \in DOMAIN list : list[j] = z  BY <2>7 DEF Has
    <3>2. tx \in TxType /\ z \in TxType  BY <1>3, <1>6, <3>1
    <3>3. ~ Newer(z, tx) /\ z # tx
      BY <2>7, <3>2, ComesIs DEF Comes
    <3>4. ~ (j < at) /\ j # at  BY <1>3, <1>6, <3>1, <3>3 DEF InOrder, Comes
    <3>5. j - at \in 1 .. n - at /\ at + (j - at) = j  BY <1>3, <3>4
    <3> QED  BY <2>3, <3>1, <3>5 DEF Has
  <2>8. Has(list, tx)  BY <1>3, <1>6 DEF Has
  <2> QED  BY <1>4, <2>3, <2>5, <2>6, <2>7, <2>8
<1> QED  BY <1>5, <1>6

-----------------------------------------------------------------------------
(***************************************************************************)
(* Rows come for the slot that is pushed, and go with the one that leaves. *)
(***************************************************************************)
RowsCome ==
    /\ \A s \in indexed' : s \in indexed \/ (op.stage # "idle" /\ s = op.slot)
    /\ op.stage # "idle" =>
          \/ op'.stage # "idle" /\ op'.slot = op.slot
          \/ /\ op'.stage = "idle" /\ next_back_slot' = next_back_slot
             /\ \/ op.file = "no_room" /\ next' = next
                \/ next' = IF announced THEN next + 1 ELSE next
    /\ op'.file = "no_room" => (op.file = "no_room" /\ op'.side = op.side) \/ op'.side = "back"

RowsGo ==
    /\ Leaving => /\ ring' = ring /\ next' = next
                  /\ \/ Leaving' /\ op'.gone = op.gone /\ op'.free = op.free
                     \/ ~ Leaving' /\ (op.free = None \/ op.gone \notin indexed')
    /\ ~ Leaving /\ Leaving' => Pruned
    /\ Pruned => /\ next' = next /\ Leaving'
                 /\ op'.gone = Lowest(DOMAIN ring) /\ op'.free = ring[Lowest(DOMAIN ring)]

LEMMA PrunedIs ==
    ASSUME Types, Pruned
    PROVE  /\ Lowest(DOMAIN ring) \in DOMAIN ring /\ DOMAIN ring' = DOMAIN ring \ {Lowest(DOMAIN ring)}
           /\ ring' # ring /\ ~ Grown /\ Lowest(DOMAIN ring) \in Slots
           /\ \A t \in DOMAIN ring : Lowest(DOMAIN ring) <= t
<1>1. /\ Lowest(DOMAIN ring) \in DOMAIN ring /\ Lowest(DOMAIN ring) \in Slots
      /\ \A t \in DOMAIN ring : Lowest(DOMAIN ring) <= t
  BY LowestIn DEF Pruned, Types, IsRows
<1>2. DOMAIN ring' = DOMAIN ring \ {Lowest(DOMAIN ring)}  BY DEF Pruned, Restrict
<1>3. Grown => DOMAIN ring' = DOMAIN ring \union {op.slot}  BY DEF Grown, Put
<1> QED  BY <1>1, <1>2, <1>3

\* A step that leaves the ring and the rows alone, but for what it pushes.
LEMMA QuietRows ==
    ASSUME Types, op' = op \/ ~ Leaving, ring' = ring \/ Grown, indexed' = indexed,
           Leaving => ring' = ring /\ next' = next,
           op'.gone = op.gone \/ op'.gone = None, op'.rows = op.rows \/ op'.gone = None
    PROVE  RowsGo
<1>1. ~ Pruned  BY PrunedIs
<1>2. CASE op' = op
  <2>1. Leaving' <=> Leaving  BY <1>2 DEF Leaving
  <2> QED  BY <1>1, <1>2, <2>1 DEF RowsGo
<1>3. CASE ~ Leaving
  <2>1. ~ Leaving'  BY <1>3 DEF Leaving
  <2> QED  BY <1>1, <1>3, <2>1 DEF RowsGo
<1> QED  BY <1>2, <1>3

LEMMA StoredRows ==
    ASSUME NEW o \in Op, Stored(o), o.gone = None
    PROVE  /\ op'.gone = None /\ op'.file = o.file /\ op'.side = o.side
           /\ op'.stage # "idle" /\ op'.slot = o.slot
<1>1. CASE op' = [o EXCEPT !.stage = "add"]  BY <1>1 DEF Op
<1>2. CASE op' = [o EXCEPT !.stage = "join"]  BY <1>2 DEF Op
<1> QED  BY <1>1, <1>2 DEF Stored

\* A block leaves to make room.
LEMMA TakeOutRows ==
    ASSUME Types, op.gone = None, DOMAIN ring # {}, TakeOut(Lowest(DOMAIN ring)), next' = next,
           NEW o \in Op, op' = Popped(o, Lowest(DOMAIN ring))
    PROVE  RowsGo /\ op'.stage = o.stage /\ op'.slot = o.slot /\ op'.side = o.side /\ op'.file = o.file
<1>1. /\ op'.gone = Lowest(DOMAIN ring) /\ op'.free = ring[Lowest(DOMAIN ring)] /\ op'.rows = "there"
      /\ op'.stage = o.stage /\ op'.slot = o.slot /\ op'.side = o.side /\ op'.file = o.file
  BY DEF Popped, Op
<1>2. Pruned  BY DEF Pruned, TakeOut
<1>3. op'.gone # None  BY <1>1, <1>2, PrunedIs, SlotNotNone
<1>4. Leaving' /\ ~ Leaving  BY <1>1, <1>3 DEF Leaving
<1> QED  BY <1>1, <1>2, <1>4 DEF RowsGo

\* The steps that change the push under way only.
LEMMA GoOnRows ==
    ASSUME StoreInv, Types, op \in Op, status = "running", Progress,
           next' = IF announced /\ op.stage = "added" THEN next + 1 ELSE next,
           next_back_slot' = next_back_slot,
           \/ \E c \in Cells : write_file(c)
           \/ file_written \/ no_room \/ send_indexes \/ joined \/ push_block_done \/ pop_block_done
    PROVE  RowsCome /\ RowsGo
<1>0. /\ OpOK /\ op.stage # "pop" /\ indexed' = indexed
      /\ op.stage # "added" => next' = next
      /\ op.stage = "added" => op.gone = None
  BY Zenon DEF StoreInv, Progress, OpOK, write_file, file_written, no_room, send_indexes, joined,
         push_block_done, pop_block_done, disk
<1>1. ASSUME op'.stage = op.stage, op'.slot = op.slot, op'.side = op.side,
             op'.file = op.file \/ op'.file # "no_room" \/ op.side = "back"
      PROVE  RowsCome
  BY <1>0, <1>1 DEF RowsCome
<1>2. ASSUME ring' = ring, op.stage # "added", op'.gone = op.gone, op'.rows = op.rows, op'.free = op.free
      PROVE  RowsGo
  <2>1. ~ Pruned  BY <1>2, PrunedIs
  <2>2. Leaving' <=> Leaving  BY <1>2 DEF Leaving
  <2> QED  BY <1>0, <1>2, <2>1, <2>2 DEF RowsGo
<1>3. CASE \E c \in Cells : write_file(c)
  <2>1. PICK c \in Cells : write_file(c)  BY <1>3
  <2>2. op.stage = "join" /\ ring' = ring /\ op' = [op EXCEPT !.cell = c, !.file = "writing"]
    BY <2>1, Zenon DEF write_file
  <2>3. /\ op'.stage = op.stage /\ op'.slot = op.slot /\ op'.side = op.side /\ op'.file = "writing"
        /\ op'.gone = op.gone /\ op'.rows = op.rows /\ op'.free = op.free
    BY <2>2 DEF Op
  <2>4. RowsCome  BY <1>1, <2>3
  <2> QED  BY <1>2, <2>2, <2>3, <2>4
<1>4. CASE file_written
  <2>1. op.stage = "join" /\ ring' = ring /\ op' = [op EXCEPT !.file = "done"]
    BY <1>0, <1>4 DEF file_written, OpOK
  <2>2. /\ op'.stage = op.stage /\ op'.slot = op.slot /\ op'.side = op.side /\ op'.file = "done"
        /\ op'.gone = op.gone /\ op'.rows = op.rows /\ op'.free = op.free
    BY <2>1 DEF Op
  <2>3. RowsCome  BY <1>1, <2>2
  <2> QED  BY <1>2, <2>1, <2>2, <2>3
<1>5. CASE no_room
  <2>1. op.stage = "join" /\ op.gone = None  BY <1>5 DEF no_room
  <2>2. CASE op.side = "back"
    <3>1. op' = [op EXCEPT !.file = "no_room"] /\ ring' = ring  BY <1>5, <2>2 DEF no_room
    <3>2. /\ op'.stage = op.stage /\ op'.slot = op.slot /\ op'.side = op.side
          /\ op'.gone = op.gone /\ op'.rows = op.rows /\ op'.free = op.free
      BY <3>1 DEF Op
    <3>3. RowsCome  BY <1>1, <2>2, <3>2
    <3> QED  BY <1>2, <2>1, <3>1, <3>2, <3>3
  <2>3. CASE op.side = "front" /\ DOMAIN ring # {}
    <3>1. TakeOut(Lowest(DOMAIN ring)) /\ op' = Popped(op, Lowest(DOMAIN ring))
      BY <1>5, <2>3 DEF no_room
    <3>2. RowsGo /\ op'.stage = op.stage /\ op'.slot = op.slot /\ op'.side = op.side /\ op'.file = op.file
      BY <1>0, <2>1, <2>3, <3>1, TakeOutRows
    <3> QED  BY <1>1, <3>2
  <2>4. CASE ~ (op.side = "back") /\ ~ (op.side = "front" /\ DOMAIN ring # {})
    <3>1. op' = op /\ ring' = ring  BY <1>5, <2>4 DEF no_room
    <3>2. RowsCome  BY <1>1, <3>1
    <3> QED  BY <1>2, <2>1, <3>1, <3>2
  <2> QED  BY <2>2, <2>3, <2>4
<1>6. CASE send_indexes
  <2>1. op.stage = "join" /\ ring' = ring /\ op' = [op EXCEPT !.index = "sent"]  BY <1>6 DEF send_indexes
  <2>2. /\ op'.stage = op.stage /\ op'.slot = op.slot /\ op'.side = op.side /\ op'.file = op.file
        /\ op'.gone = op.gone /\ op'.rows = op.rows /\ op'.free = op.free
    BY <2>1 DEF Op
  <2>3. RowsCome  BY <1>1, <2>2
  <2> QED  BY <1>2, <2>1, <2>2, <2>3
<1>7. CASE joined
  <2>1. /\ op.stage = "join" /\ ring' = ring
        /\ \/ op.file = "done" /\ op' = [op EXCEPT !.stage = "add"]
           \/ op.file = "no_room" /\ op' = Idle
    BY <1>7 DEF joined
  <2>2. CASE op.file = "done" /\ op' = [op EXCEPT !.stage = "add"]
    <3>1. /\ op'.stage = "add" /\ op'.slot = op.slot /\ op'.side = op.side /\ op'.file = "done"
          /\ op'.gone = op.gone /\ op'.rows = op.rows /\ op'.free = op.free
      BY <2>2 DEF Op
    <3>2. RowsCome  BY <1>0, <2>1, <3>1 DEF RowsCome
    <3> QED  BY <1>2, <2>1, <3>1, <3>2
  <2>3. CASE op.file = "no_room" /\ op' = Idle
    <3>1. op'.stage = "idle" /\ op'.file = "try" /\ op'.gone = None  BY <2>3, IdleOp
    <3>2. op.gone = None /\ ~ Leaving  BY <1>0, <2>3 DEF OpOK, Leaving
    <3>3. RowsCome  BY <1>0, <2>1, <2>3, <3>1 DEF RowsCome
    <3>4. RowsGo  BY <1>0, <2>1, <3>1, <3>2, QuietRows
    <3> QED  BY <3>3, <3>4
  <2> QED  BY <2>1, <2>2, <2>3
<1>8. CASE push_block_done
  <2>1. Grown /\ op.stage = "added" /\ op' = Idle  BY <1>8 DEF push_block_done, Grown
  <2>2. op'.stage = "idle" /\ op'.file = "try" /\ op'.gone = None  BY <2>1, IdleOp
  <2>3. op.gone = None /\ ~ Leaving  BY <1>0, <2>1 DEF Leaving
  <2>4. next' = IF announced THEN next + 1 ELSE next  BY <2>1
  <2>5. RowsCome  BY <1>0, <2>1, <2>2, <2>4 DEF RowsCome
  <2>6. RowsGo  BY <1>0, <2>1, <2>2, <2>3, QuietRows
  <2> QED  BY <2>5, <2>6
<1>9. CASE pop_block_done
  <2>1. op.gone # None /\ op.rows = "removed" /\ ring' = ring  BY <1>9 DEF pop_block_done
  <2>2. op.stage \in {"make_room", "join"} /\ ~ Leaving  BY <1>0, <2>1 DEF OpOK, Op, Leaving
  <2> DEFINE o == [op EXCEPT !.gone = None, !.free = None, !.rows = "there"]
  <2>3. /\ o \in Op /\ o.gone = None /\ o.stage = op.stage /\ o.file = op.file /\ o.side = op.side
        /\ o.slot = op.slot
    BY Zenon DEF Op
  <2>4. Stored(o) \/ (op.stage = "join" /\ op' = o)  BY <1>9, <2>2 DEF pop_block_done
  <2> HIDE DEF o
  <2>5. /\ op'.gone = None /\ op'.file = op.file /\ op'.side = op.side /\ op'.stage # "idle"
        /\ op'.slot = op.slot
    <3>1. CASE op.stage = "join" /\ op' = o  BY <2>3, <3>1
    <3>2. CASE Stored(o)  BY <2>3, <3>2, StoredRows
    <3> QED  BY <2>4, <3>1, <3>2
  <2>6. RowsCome  BY <1>0, <2>2, <2>5 DEF RowsCome
  <2>7. RowsGo  BY <1>0, <2>1, <2>2, <2>5, QuietRows
  <2> QED  BY <2>6, <2>7
<1> QED  BY <1>3, <1>4, <1>5, <1>6, <1>7, <1>8, <1>9

\* The thread that writes to RocksDB.
LEMMA WriteRows ==
    ASSUME StoreInv, Types, op \in Op, rocksdb_write, next' = next
    PROVE  RowsCome /\ RowsGo
<1>1. queue # <<>> /\ ring' = ring /\ (AddIndexes \/ SlotAdd \/ SlotRemove)  BY DEF rocksdb_write
<1>2. queue[1] \in Asks /\ Awaited(op, queue[1]) /\ OpOK  BY <1>1, FirstAsk DEF StoreInv
<1>3. ~ Pruned  BY <1>1, PrunedIs
<1>4. CASE AddIndexes
  <2>1. /\ indexed' = indexed \union {queue[1].slot} /\ op' = [op EXCEPT !.index = "done"]
        /\ op.stage = "join" /\ queue[1].slot = op.slot
    BY <1>2, <1>4 DEF AddIndexes, Awaited
  <2>2. /\ op'.stage = op.stage /\ op'.slot = op.slot /\ op'.side = op.side /\ op'.file = op.file
        /\ op'.gone = op.gone /\ op'.rows = op.rows /\ op'.free = op.free
    BY <2>1 DEF Op
  <2>3. Leaving' <=> Leaving  BY <2>2 DEF Leaving
  <2>4. RowsCome  BY <2>1, <2>2 DEF RowsCome
  <2> QED  BY <1>1, <1>3, <2>2, <2>3, <2>4 DEF RowsGo
<1>5. CASE SlotAdd
  <2>1. indexed' = indexed /\ op' = [op EXCEPT !.stage = "added"] /\ op.stage = "add"
    BY <1>2, <1>5 DEF SlotAdd, Awaited
  <2>2. /\ op'.stage = "added" /\ op'.slot = op.slot /\ op'.side = op.side /\ op'.file = op.file
        /\ op'.gone = op.gone /\ op'.rows = op.rows /\ op'.free = op.free
    BY <2>1 DEF Op
  <2>3. Leaving' <=> Leaving  BY <2>2 DEF Leaving
  <2>4. RowsCome  BY <2>1, <2>2 DEF RowsCome
  <2> QED  BY <1>1, <1>3, <2>2, <2>3, <2>4 DEF RowsGo
<1>6. CASE SlotRemove
  <2>1. Leaving /\ queue[1].slot = op.gone /\ queue[1].cell = op.free
    BY <1>2, <1>6 DEF SlotRemove, Awaited, Leaving
  <2>2. CASE op' = op /\ indexed' = indexed
    <3>1. Leaving' <=> Leaving  BY <2>2 DEF Leaving
    <3>2. RowsCome  BY <2>2 DEF RowsCome
    <3> QED  BY <1>1, <1>3, <2>2, <3>1, <3>2 DEF RowsGo
  <2>3. CASE /\ indexed' = IF queue[1].cell = None THEN indexed ELSE indexed \ {queue[1].slot}
             /\ op' = [op EXCEPT !.rows = "removed"]
    <3>1. /\ op'.stage = op.stage /\ op'.slot = op.slot /\ op'.side = op.side /\ op'.file = op.file
          /\ op'.rows = "removed"
      BY <2>3 DEF Op
    <3>2. ~ Leaving' /\ (op.free = None \/ op.gone \notin indexed')  BY <2>1, <2>3, <3>1 DEF Leaving
    <3>3. RowsCome  BY <2>3, <3>1 DEF RowsCome
    <3> QED  BY <1>1, <1>3, <3>2, <3>3 DEF RowsGo
  <2> QED  BY <1>6, <2>2, <2>3 DEF SlotRemove
<1> QED  BY <1>1, <1>4, <1>5, <1>6

LEMMA StorageRows ==
    ASSUME StoreInv, Progress, Storage
    PROVE  RowsCome /\ RowsGo
<1>0. Types /\ op \in Op /\ OpOK  BY DEF StoreInv, Types
<1>1. ASSUME UNCHANGED vars, next' = next PROVE RowsCome /\ RowsGo
  <2>1. op' = op /\ ring' = ring /\ indexed' = indexed  BY <1>1 DEF vars
  <2>2. ~ Pruned  BY <1>0, <2>1, PrunedIs
  <2>3. Leaving' <=> Leaving  BY <2>1 DEF Leaving
  <2>4. RowsCome  BY <2>1 DEF RowsCome
  <2> QED  BY <1>1, <2>1, <2>2, <2>3, <2>4 DEF RowsGo
<1>2. ASSUME NEW s \in Slots, push_block_front(s) \/ push_block_back(s), next' = next
      PROVE  RowsCome /\ RowsGo
  <2>1. op.stage = "idle" /\ indexed' = indexed  BY <1>2 DEF push_block_back, push_block_front, disk
  <2>2. op.gone = None /\ ~ Leaving  BY <1>0, <2>1 DEF OpOK, Leaving
  <2>3. PICK o, b : o = [Idle EXCEPT !.slot = s] /\ b = [Idle EXCEPT !.side = "back", !.slot = s]
    OBVIOUS
  <2>4. PICK w : w = [o EXCEPT !.stage = "make_room"]  OBVIOUS
  <2>5. \/ (Stored(b) \/ Stored(o)) /\ ring' = ring
        \/ is_full /\ TakeOut(Lowest(DOMAIN ring)) /\ op' = Popped(w, Lowest(DOMAIN ring))
    BY <1>2, <2>3, <2>4 DEF push_block_back, push_block_front
  <2>6. /\ o \in Op /\ o.gone = None /\ o.file = "try" /\ b \in Op /\ b.gone = None /\ b.file = "try"
        /\ w \in Op /\ w.file = "try"
    BY <2>3, <2>4 DEF Op, Idle
  <2>7. CASE (Stored(b) \/ Stored(o)) /\ ring' = ring
    <3>1. op'.gone = None /\ op'.file = "try"  BY <2>6, <2>7, StoredRows
    <3>2. RowsGo  BY <1>0, <1>2, <2>1, <2>2, <2>7, <3>1, QuietRows
    <3> QED  BY <2>1, <3>1, <3>2 DEF RowsCome
  <2>8. CASE is_full /\ TakeOut(Lowest(DOMAIN ring)) /\ op' = Popped(w, Lowest(DOMAIN ring))
    <3>1. DOMAIN ring # {}
      <4>1. Cardinality({}) = 0  BY FS_EmptySet
      <4> QED  BY <2>8, <4>1, BlockStoreAssumption DEF is_full
    <3>2. RowsGo /\ op'.file = "try"  BY <1>0, <1>2, <2>2, <2>6, <2>8, <3>1, TakeOutRows
    <3> QED  BY <2>1, <3>2 DEF RowsCome
  <2> QED  BY <2>5, <2>7, <2>8
<1>3. CASE status = "running" /\ store
  <2>1. announced /\ push_block_front(next) /\ next' = next  BY <1>3 DEF store
  <2>2. next \in Slots  BY <2>1 DEF Progress
  <2> QED  BY <1>2, <2>1, <2>2
<1>4. CASE backfill
  <2>1. (UNCHANGED vars \/ push_block_back(next_back_slot)) /\ next' = next  BY <1>4 DEF backfill
  <2>2. ASSUME push_block_back(next_back_slot) PROVE next_back_slot \in Slots
    <3>1. next_back_slot \in Nat \ {0}  BY <1>4 DEF backfill, None, Progress
    <3>2. DOMAIN ring # {} /\ next_back_slot = Lowest(DOMAIN ring) - 1  BY <2>2 DEF push_block_back
    <3>3. Lowest(DOMAIN ring) \in Slots  BY <3>2, LowestIn DEF StoreInv, Types, IsRows
    <3> QED  BY <3>1, <3>2, <3>3, BlockStoreAssumption DEF Slots
  <2> QED  BY <1>1, <1>2, <2>1, <2>2
<1>5. CASE confirm \/ \E s \in Finalized : finalize(s)
  <2>1. UNCHANGED vars /\ next' = next  BY <1>5 DEF confirm, finalize
  <2> QED  BY <1>1, <2>1
<1>6. CASE status = "running" /\ go_on
  <2>1. /\ next' = IF announced /\ op.stage = "added" THEN next + 1 ELSE next
        /\ next_back_slot' = next_back_slot
    BY <1>6 DEF go_on
  <2>2. \/ \E c \in Cells : write_file(c)
        \/ file_written \/ no_room \/ send_indexes \/ joined \/ push_block_done \/ pop_block_done
    BY <1>6 DEF go_on
  <2> QED  BY <1>0, <1>6, <2>1, <2>2, GoOnRows
<1>7. CASE rocksdb_write /\ next' = next  BY <1>0, <1>7, WriteRows
<1> QED  BY <1>3, <1>4, <1>5, <1>6, <1>7 DEF Storage

\* A slot the writer has passed, with rows in the ring or leaving it, gets no
\* others.
LEMMA ClearedKept ==
    ASSUME StoreInv, Progress, Moves, RowsCome, RowsGo, Front, NEW s, Known(s), Cleared(s)
    PROVE  Cleared(s)'
<1>0. Types /\ DeadOrLive(ring)  BY DEF StoreInv, Front
<1>1. op.stage # "idle" => s # op.slot
  <2>1. op.side \in {"front", "back"} /\ next \in Int /\ s \in Int
    BY DEF StoreInv, Types, Op, Progress, Known, Slots
  <2> QED  BY <2>1 DEF Known, Progress
<1> SUFFICES ASSUME s \in LiveSlots, s \in indexed'
             PROVE  s \in DOMAIN ring' \/ (Leaving' /\ s = op'.gone /\ op'.free # None)
  BY DEF Cleared
<1>2. s \in indexed  BY <1>1 DEF RowsCome
<1>3. CASE s \in DOMAIN ring
  <2>1. CASE ring' = ring  BY <1>3, <2>1
  <2>2. CASE Grown
    <3>1. DOMAIN ring' = DOMAIN ring \union {op.slot}  BY <2>2 DEF Grown, Put
    <3> QED  BY <1>3, <3>1
  <2>3. CASE Pruned
    <3>1. DOMAIN ring' = DOMAIN ring \ {Lowest(DOMAIN ring)}  BY <1>0, <2>3, PrunedIs
    <3>2. Leaving' /\ op'.gone = Lowest(DOMAIN ring) /\ op'.free = ring[Lowest(DOMAIN ring)]
      BY <2>3 DEF RowsGo
    <3>3. ring[s] # None  BY <1>0, <1>3 DEF DeadOrLive, LiveSlots
    <3> QED  BY <1>3, <3>1, <3>2, <3>3
  <2> QED  BY <2>1, <2>2, <2>3 DEF Moves
<1>4. CASE Leaving /\ s = op.gone /\ op.free # None  BY <1>4 DEF RowsGo
<1> QED  BY <1>2, <1>3, <1>4 DEF Cleared

\* The writer's part of RowsOK.
LEMMA WriterRows ==
    ASSUME StoreInv, Progress, Moves, RowsCome, RowsGo, Front, RowsPassed, LeavesEdge,
           op.file = "no_room" => op.side = "back"
    PROVE  RowsPassed' /\ LeavesEdge' /\ (op'.file = "no_room" => op'.side = "back")
<1>0. /\ Types /\ Types' /\ Progress' /\ op.side \in {"front", "back"}
      /\ next \in Int /\ next' \in Int /\ next_back_slot \in Int /\ DOMAIN ring \subseteq Slots
      /\ status # "down"
  BY DEF StoreInv, Moves, Progress, Types, Op, IsRows
<1>1. op'.file = "no_room" => op'.side = "back"  BY DEF RowsCome
<1>2. RowsPassed'
  <2> SUFFICES ASSUME NEW s \in indexed', ~ Known(s)'
               PROVE  op'.stage # "idle" /\ s = op'.slot
    BY DEF RowsPassed
  <2>1. s \in Slots /\ s \in Int  BY <1>0 DEF Types, Slots
  <2>2. ~ Known(s)  BY DEF Moves
  <2>3. op.stage # "idle" /\ s = op.slot  BY <2>2 DEF RowsCome, RowsPassed
  <2>4. CASE op'.stage = "idle"
    <3>1. /\ next_back_slot' = next_back_slot
          /\ (op.file = "no_room" /\ next' = next) \/ next' = IF announced THEN next + 1 ELSE next
      BY <2>3, <2>4 DEF RowsCome
    <3>2. s < next' /\ next_back_slot' < s
      <4>1. CASE op.side = "back"
        <5>1. ~ announced /\ next_back_slot < s /\ s < next  BY <2>3, <4>1 DEF Progress
        <5> QED  BY <3>1, <5>1
      <4>2. CASE op.side = "front"
        <5>1. announced /\ s = next /\ next_back_slot < next  BY <2>3, <4>2 DEF Progress
        <5>2. next' = next + 1  BY <3>1, <4>2, <5>1
        <5> QED  BY <1>0, <3>1, <5>1, <5>2
      <4> QED  BY <1>0, <4>1, <4>2
    <3> QED  BY <2>1, <2>4, <3>2 DEF Known
  <2> QED  BY <2>3, <2>4 DEF RowsCome
<1>3. LeavesEdge'
  <2> SUFFICES ASSUME Leaving' PROVE op'.gone + 1 \in DOMAIN ring' \/ op'.gone + 1 = next'
    BY DEF LeavesEdge
  <2>1. CASE Leaving  BY <2>1 DEF LeavesEdge, RowsGo
  <2>2. CASE Pruned
    <3>1. PICK g : g = Lowest(DOMAIN ring)  OBVIOUS
    <3>2. /\ g \in DOMAIN ring /\ g \in Slots /\ DOMAIN ring' = DOMAIN ring \ {g}
          /\ (\A t \in DOMAIN ring : g <= t) /\ op'.gone = g /\ next' = next
      BY <1>0, <2>2, <3>1, PrunedIs DEF RowsGo
    <3>3. next - 1 \in DOMAIN ring /\ g \in Int /\ g <= next - 1  BY <3>2 DEF Front, Slots
    <3>4. CASE g = next - 1  BY <1>0, <3>2, <3>4
    <3>5. CASE g # next - 1
      <4>1. g + 1 \in g .. (next - 1) /\ g + 1 # g  BY <1>0, <3>3, <3>5
      <4>2. g + 1 \in DOMAIN ring  BY <1>0, <3>2, <3>3, <4>1 DEF StoreInv, Placed, Consecutive
      <4> QED  BY <3>2, <4>1, <4>2
    <3> QED  BY <3>4, <3>5
  <2> QED  BY <2>1, <2>2 DEF RowsGo
<1> QED  BY <1>1, <1>2, <1>3

\* What the readers are told of is in the ring.
LEMMA PushedIs ==
    ASSUME IndexInv, Steps, Moves, NEW r \in Readers, NEW i \in DOMAIN inbox'[r], Pushes(inbox'[r][i])
    PROVE  \/ i \in DOMAIN inbox[r] /\ inbox'[r][i] = inbox[r][i]
           \/ Grown /\ inbox'[r][i].slot = op.slot /\ op.slot \in DOMAIN ring'
<1>0. inbox[r] \in Seq(Messages)  BY DEF IndexInv, ReadersOK
<1>1. CASE inbox' = inbox  BY <1>1
<1>2. ASSUME NEW m, Send(<<m>>), Pushes(m) => Grown /\ m.slot = op.slot PROVE
           \/ i \in DOMAIN inbox[r] /\ inbox'[r][i] = inbox[r][i]
           \/ Grown /\ inbox'[r][i].slot = op.slot /\ op.slot \in DOMAIN ring'
  <2>1. inbox'[r] = inbox[r] \o <<m>>  BY <1>2 DEF Send
  <2>2. PICK b : b = inbox[r]  OBVIOUS
  <2>3. b \in Seq(Messages)  BY <1>0, <2>2
  <2>4. PICK n : n = Len(b)  OBVIOUS
  <2>5. n \in Nat /\ DOMAIN b = 1 .. n  BY <2>3, <2>4
  <2>6. /\ DOMAIN (b \o <<m>>) = 1 .. n + 1 /\ (b \o <<m>>)[n + 1] = m
        /\ \A j \in 1 .. n : (b \o <<m>>)[j] = b[j]
    BY <2>3, <2>4, <2>5
  <2>7. i \in 1 .. n + 1  BY <2>1, <2>2, <2>6
  <2>8. CASE i \in 1 .. n  BY <2>1, <2>2, <2>5, <2>6, <2>8
  <2>9. CASE i = n + 1
    <3>1. inbox'[r][i] = m  BY <2>1, <2>2, <2>6, <2>9
    <3>2. Grown /\ m.slot = op.slot  BY <1>2, <3>1
    <3>3. op.slot \in DOMAIN ring'  BY <3>2 DEF Grown, Put
    <3> QED  BY <3>1, <3>2, <3>3
  <2> QED  BY <2>5, <2>7, <2>8, <2>9
<1>3. CASE \E s \in Slots : Send(<<[type |-> "SlotFinalized", slot |-> s]>>)
  <2>1. PICK s \in Slots : Send(<<[type |-> "SlotFinalized", slot |-> s]>>)  BY <1>3
  <2>2. ~ Pushes([type |-> "SlotFinalized", slot |-> s])  BY DEF Pushes
  <2> QED  BY <1>2, <2>1, <2>2
<1>4. CASE Send(<<[type |-> "BlockConfirmed", slot |-> next]>>)
  <2>1. ~ Pushes([type |-> "BlockConfirmed", slot |-> next])  BY DEF Pushes
  <2> QED  BY <1>2, <1>4, <2>1
<1>5. CASE Send(<<[type |-> "PopBack"]>>)
  <2>1. ~ Pushes([type |-> "PopBack"])  BY DEF Pushes
  <2> QED  BY <1>2, <1>5, <2>1
<1>6. CASE Grown /\ Send(<<[type |-> "PushFront", slot |-> op.slot, cell |-> op.cell]>>)
  BY <1>2, <1>6
<1>7. CASE Grown /\ Send(<<[type |-> "PushBack", slot |-> op.slot, cell |-> op.cell]>>)
  BY <1>2, <1>7
<1> QED  BY <1>1, <1>3, <1>4, <1>5, <1>6, <1>7 DEF Steps

\* A slot a reader is to be told of is one the writer has passed.
LEMMA PushKnown ==
    ASSUME IndexInv, NEW r \in Readers, NEW i \in DOMAIN inbox[r], Pushes(inbox[r][i])
    PROVE  Known(inbox[r][i].slot)
<1>0. inbox[r] \in Seq(Messages)  BY DEF IndexInv, ReadersOK
<1>1. PICK n : n = Len(inbox[r])  OBVIOUS
<1>2. n \in Nat /\ i \in 1 .. n /\ i + 1 \in 1 .. n + 1  BY <1>0, <1>1
<1>3. PICK h : FollowsBy(h, r)  BY DEF IndexInv, Follows
<1>4. Turn(inbox[r][i], h[i], h[i + 1]) /\ Past(h[i + 1])  BY <1>1, <1>2, <1>3 DEF FollowsBy
<1>5. h[i + 1] = Put(h[i], inbox[r][i].slot, inbox[r][i].cell)  BY <1>4 DEF Turn, Pushes
<1>6. inbox[r][i].slot \in DOMAIN h[i + 1]  BY <1>5 DEF Put
<1> QED  BY <1>4, <1>6 DEF Past, Agrees

\* A message that is handled, and those that are left.
LEMMA HandledIs ==
    ASSUME IndexInv, NEW r \in Readers, receive(r), NEW m, m = inbox[r][1]
    PROVE  /\ 1 \in DOMAIN inbox[r]
           /\ \A i \in DOMAIN inbox'[r] : i + 1 \in DOMAIN inbox[r] /\ inbox'[r][i] = inbox[r][i + 1]
           /\ \A s \in DOMAIN reader'[r].ring : s \in DOMAIN reader[r].ring \/ (Pushes(m) /\ s = m.slot)
<1>1. PICK n : n = Len(inbox[r])  OBVIOUS
<1>2. /\ n \in Nat \ {0} /\ Len(inbox'[r]) = n - 1 /\ m \in Messages
      /\ \A i \in 1 .. n - 1 : inbox'[r][i] = inbox[r][i + 1]
  BY <1>1, HandleIs
<1>3. ReadersOK'  BY HandleFollows DEF handle
<1>4. DOMAIN inbox[r] = 1 .. n /\ DOMAIN inbox'[r] = 1 .. n - 1
  BY <1>1, <1>2, <1>3 DEF IndexInv, ReadersOK
<1>5. m.type \in {"PopBack", "PushFront", "PushBack", "BlockConfirmed", "SlotFinalized"}
  BY <1>2 DEF Messages
<1>6. ASSUME NEW s \in DOMAIN reader'[r].ring
      PROVE  s \in DOMAIN reader[r].ring \/ (Pushes(m) /\ s = m.slot)
  <2>1. CASE m.type \in {"PushFront", "PushBack"}
    <3>1. reader'[r].ring = Put(reader[r].ring, m.slot, m.cell)  BY <2>1, HandleIs
    <3> QED  BY <1>6, <2>1, <3>1 DEF Put, Pushes
  <2>2. CASE m.type = "PopBack"
    <3>1. reader'[r].ring = Restrict(reader[r].ring, DOMAIN reader[r].ring \ {Lowest(DOMAIN reader[r].ring)})
      BY <2>2, HandleIs
    <3> QED  BY <1>6, <3>1 DEF Restrict
  <2>3. CASE m.type \in {"BlockConfirmed", "SlotFinalized"}
    <3>1. reader'[r].ring = reader[r].ring  BY <2>3, HandleIs
    <3> QED  BY <1>6, <3>1
  <2> QED  BY <1>5, <2>1, <2>2, <2>3
<1>7. \A i \in 1 .. n - 1 : i + 1 \in 1 .. n  BY <1>2
<1> QED  BY <1>2, <1>4, <1>6, <1>7

LEMMA RowsStorage ==
    ASSUME IndexInv, MemoryInv, RowsOK, Storage
    PROVE  RowsOK'
<1>0. StoreInv /\ Progress /\ Front  BY DEF IndexInv, MemoryInv
<1>1. Moves /\ Steps /\ RowsCome /\ RowsGo /\ reader' = reader
  BY <1>0, StorageMoves, StorageSteps, StorageRows, StorageQuiet
<1>2. RowsPassed' /\ LeavesEdge' /\ (op'.file = "no_room" => op'.side = "back")
  BY <1>0, <1>1, WriterRows DEF RowsOK
<1>3. ASSUME NEW r \in Readers, NEW s \in DOMAIN reader[r].ring PROVE Cleared(s)'
  <2>1. Known(s) /\ Cleared(s)  BY <1>3, ReaderAgrees DEF Agrees, RowsOK
  <2> QED  BY <1>0, <1>1, <2>1, ClearedKept
<1>4. ASSUME NEW r \in Readers, NEW i \in DOMAIN inbox'[r], Pushes(inbox'[r][i])
      PROVE  Cleared(inbox[r][i].slot)'
  <2>1. PICK s : s = inbox'[r][i].slot  OBVIOUS
  <2>2. Cleared(s)'
    <3>1. CASE s \in DOMAIN ring'  BY <3>1 DEF Cleared
    <3>2. CASE i \in DOMAIN inbox[r] /\ inbox'[r][i] = inbox[r][i]
      <4>1. Pushes(inbox[r][i])  BY <1>4, <3>2
      <4>2. Known(s) /\ Cleared(s)  BY <2>1, <3>2, <4>1, PushKnown DEF RowsOK
      <4> QED  BY <1>0, <1>1, <4>2, ClearedKept
    <3> QED  BY <1>1, <1>4, <2>1, <3>1, <3>2, PushedIs
  <2> QED  BY <2>1, <2>2
<1>5. \A m : Pushes(m) <=> Pushes(m)'  BY DEF Pushes
<1>6. \A r \in Readers : \A s \in DOMAIN reader'[r].ring : Cleared(s)'  BY <1>1, <1>3
<1>7. \A r \in Readers : \A i \in DOMAIN inbox'[r] : Pushes(inbox'[r][i]) => Cleared(inbox[r][i].slot)'
  BY <1>4
<1> QED  BY <1>2, <1>6, <1>7 DEF RowsOK, Pushes

LEMMA RowsReceive ==
    ASSUME IndexInv, RowsOK, NEW r \in Readers, receive(r)
    PROVE  RowsOK'
<1>0. UNCHANGED writer  BY HandleFollows DEF handle
<1>1. \A s : Cleared(s) <=> Cleared(s)'  BY <1>0 DEF Cleared, Leaving, writer
<1>2. RowsPassed' /\ LeavesEdge' /\ (op'.file = "no_room" => op'.side = "back")
  BY <1>0 DEF RowsOK, RowsPassed, LeavesEdge, Known, Leaving, writer
<1>3. PICK m : m = inbox[r][1]  OBVIOUS
<1>4. /\ 1 \in DOMAIN inbox[r]
      /\ \A i \in DOMAIN inbox'[r] : i + 1 \in DOMAIN inbox[r] /\ inbox'[r][i] = inbox[r][i + 1]
      /\ \A s \in DOMAIN reader'[r].ring : s \in DOMAIN reader[r].ring \/ (Pushes(m) /\ s = m.slot)
  BY <1>3, HandledIs
<1>5. \A q \in Readers \ {r} : reader'[q] = reader[q] /\ inbox'[q] = inbox[q]  BY HandleIs
<1>6. ASSUME NEW q \in Readers, NEW s \in DOMAIN reader'[q].ring PROVE Cleared(s)
  <2>1. CASE q # r  BY <1>5, <1>6, <2>1 DEF RowsOK
  <2>2. CASE q = r  BY <1>3, <1>4, <1>6, <2>2 DEF RowsOK
  <2> QED  BY <2>1, <2>2
<1>7. ASSUME NEW q \in Readers, NEW i \in DOMAIN inbox'[q], Pushes(inbox'[q][i])
      PROVE  Cleared(inbox'[q][i].slot)
  <2>1. CASE q # r  BY <1>5, <1>7, <2>1 DEF RowsOK
  <2>2. CASE q = r  BY <1>4, <1>7, <2>2 DEF RowsOK
  <2> QED  BY <2>1, <2>2
<1>8. \A q \in Readers : /\ \A s \in DOMAIN reader'[q].ring : Cleared(s)'
                         /\ \A i \in DOMAIN inbox'[q] : Pushes(inbox'[q][i]) => Cleared(inbox[q][i].slot)'
  <2> TAKE q \in Readers
  <2>1. \A s \in DOMAIN reader'[q].ring : Cleared(s)'  BY <1>1, <1>6
  <2>2. ASSUME NEW i \in DOMAIN inbox'[q], Pushes(inbox'[q][i]) PROVE Cleared(inbox[q][i].slot)'
    <3>1. PICK s : s = inbox'[q][i].slot  OBVIOUS
    <3>2. Cleared(s)'  BY <1>1, <1>7, <2>2, <3>1
    <3> QED  BY <3>1, <3>2
  <2> QED  BY <2>1, <2>2
<1> QED  BY <1>2, <1>8 DEF RowsOK, Pushes

\* What the start took back has no rows.
LEMMA RowsHandle ==
    ASSUME IndexInv, RowsOK, NEW r \in Readers, handle(r)
    PROVE  RowsOK'
<1>1. CASE pop_block_front(r)
  <2>1. UNCHANGED <<writer, inbox>> /\ \A q \in Readers : reader'[q].ring = reader[q].ring
    BY <1>1, PopFrontIs DEF IndexInv, ReaderFields
  <2>2. \A s : Cleared(s) <=> Cleared(s)'  BY <2>1 DEF Cleared, Leaving, writer
  <2>3. RowsPassed' /\ LeavesEdge' /\ (op'.file = "no_room" => op'.side = "back")
    BY <2>1 DEF RowsOK, RowsPassed, LeavesEdge, Known, Leaving, writer
  <2>4. ASSUME NEW q \in Readers, NEW i \in DOMAIN inbox'[q], Pushes(inbox'[q][i])
        PROVE  Cleared(inbox[q][i].slot)'
    <3>1. PICK s : s = inbox'[q][i].slot  OBVIOUS
    <3>2. Cleared(s)'  BY <2>1, <2>2, <2>4, <3>1 DEF RowsOK
    <3> QED  BY <3>1, <3>2
  <2>5. ASSUME NEW q \in Readers, NEW s \in DOMAIN reader'[q].ring PROVE Cleared(s)'
    BY <2>1, <2>2, <2>5 DEF RowsOK
  <2> QED  BY <2>3, <2>4, <2>5 DEF RowsOK, Pushes
<1> QED  BY <1>1, RowsReceive DEF handle

\* A slot that a reader never lists again.
LEMMA OutStorage ==
    ASSUME IndexInv, Storage, NEW r \in Readers, NEW s, Out(r, s)
    PROVE  Out(r, s)'
<1>0. StoreInv /\ Progress  BY DEF IndexInv
<1>1. Moves /\ Steps /\ reader' = reader  BY <1>0, StorageMoves, StorageSteps, StorageQuiet
<1>2. Known(s)'  BY <1>1 DEF Moves, Out
<1>3. op.stage # "idle" => s # op.slot
  <2>1. op.side \in {"front", "back"} /\ next \in Int /\ s \in Int
    BY <1>0 DEF StoreInv, Types, Op, Progress, Known, Slots, Out
  <2> QED  BY <1>0, <2>1 DEF Known, Progress, Out
<1>4. ASSUME NEW i \in DOMAIN inbox'[r], Pushes(inbox'[r][i]) PROVE inbox'[r][i].slot # s
  <2>1. CASE i \in DOMAIN inbox[r] /\ inbox'[r][i] = inbox[r][i]  BY <1>4, <2>1 DEF Out
  <2>2. CASE Grown /\ inbox'[r][i].slot = op.slot  BY <1>3, <2>2 DEF Grown
  <2> QED  BY <1>1, <1>4, <2>1, <2>2, PushedIs
<1> QED  BY <1>1, <1>2, <1>4 DEF Out, Pushes

LEMMA OutHandle ==
    ASSUME IndexInv, NEW r \in Readers, receive(r), NEW q \in Readers, NEW s, Out(q, s)
    PROVE  Out(q, s)'
<1>0. UNCHANGED writer  BY HandleFollows DEF handle
<1>1. Known(s)'  BY <1>0 DEF Out, Known, writer
<1>2. CASE q # r
  <2>1. reader'[q] = reader[q] /\ inbox'[q] = inbox[q]  BY <1>2, HandleIs
  <2> QED  BY <1>1, <2>1 DEF Out, Pushes
<1>3. CASE q = r
  <2>1. PICK m : m = inbox[r][1]  OBVIOUS
  <2>2. /\ 1 \in DOMAIN inbox[r]
        /\ \A i \in DOMAIN inbox'[r] : i + 1 \in DOMAIN inbox[r] /\ inbox'[r][i] = inbox[r][i + 1]
        /\ \A t \in DOMAIN reader'[r].ring : t \in DOMAIN reader[r].ring \/ (Pushes(m) /\ t = m.slot)
    BY <2>1, HandledIs
  <2>3. s \notin DOMAIN reader'[r].ring  BY <1>3, <2>1, <2>2 DEF Out
  <2>4. \A i \in DOMAIN inbox'[r] : Pushes(inbox'[r][i]) => inbox'[r][i].slot # s
    BY <1>3, <2>2 DEF Out
  <2> QED  BY <1>1, <1>3, <2>3, <2>4 DEF Out, Pushes
<1> QED  BY <1>2, <1>3

\* What a reader has listed grows, and the writer is ahead.
LEMMA NextOfIs ==
    ASSUME IndexInv, MemoryInv, NEW r \in Readers
    PROVE  /\ NextOf(reader[r]) \in Nat /\ NextOf(reader[r]) > 0 /\ NextOf(reader[r]) <= next
           /\ NextOf(reader[r]) = IF reader[r].inproc # None THEN Top(reader[r]) ELSE Top(reader[r]) + 1
           /\ \A s \in DOMAIN reader[r].ring : s < NextOf(reader[r])
           /\ \A s \in Nat : s < NextOf(reader[r]) =>
                 \/ s \in DOMAIN reader[r].ring
                 \/ \A t \in DOMAIN reader[r].ring : s < t
<1>0. Progress /\ next \in Nat  BY DEF IndexInv, Progress
<1>1. PICK R : R = reader[r]  OBVIOUS
<1>2. View(R.ring, R.inproc)  BY <1>1, ReaderView DEF MemoryInv
<1>3. /\ Top(R) \in Slots
      /\ DOMAIN R.ring # {} => /\ Highest(DOMAIN R.ring) \in DOMAIN R.ring
                               /\ \A t \in DOMAIN R.ring : t <= Highest(DOMAIN R.ring)
                               /\ R.inproc # None => R.inproc = Highest(DOMAIN R.ring) + 1
  BY <1>2, TopIn
<1>4. DOMAIN R.ring \subseteq Slots /\ Consecutive(DOMAIN R.ring)  BY <1>2 DEF View, IsRows
<1>5. \A s \in DOMAIN R.ring : Known(s) /\ s < next  BY <1>1, ReaderAgrees DEF Agrees, Known
<1>6. Top(R) = IF R.inproc # None THEN R.inproc ELSE Highest(DOMAIN R.ring)  BY DEF Top
<1>7. NextOf(R) = IF R.inproc # None THEN Top(R) ELSE Top(R) + 1  BY <1>6 DEF NextOf
<1>8. Slots \subseteq Nat /\ \A s \in Slots : s > 0  BY BlockStoreAssumption DEF Slots
<1>9. NextOf(R) \in Nat /\ NextOf(R) > 0
  <2>1. PICK t : t = Top(R)  OBVIOUS
  <2>2. t \in Nat /\ t > 0  BY <1>3, <1>8, <2>1
  <2>3. NextOf(R) = t \/ NextOf(R) = t + 1  BY <1>7, <2>1
  <2> QED  BY <2>2, <2>3
<1>10. NextOf(R) <= next
  <2>1. CASE R.inproc = None
    <3>1. DOMAIN R.ring # {}  BY <1>2, <2>1 DEF View
    <3>2. Top(R) \in DOMAIN R.ring /\ Top(R) < next  BY <1>3, <1>5, <1>6, <2>1, <3>1
    <3>3. PICK t : t = Top(R)  OBVIOUS
    <3>4. t \in Nat /\ t < next /\ NextOf(R) = t + 1  BY <1>3, <1>7, <1>8, <2>1, <3>2, <3>3
    <3> QED  BY <1>0, <3>4
  <2>2. CASE R.inproc # None /\ DOMAIN R.ring # {}
    <3>1. PICK h : h = Highest(DOMAIN R.ring)  OBVIOUS
    <3>2. h \in Slots /\ h < next /\ NextOf(R) = h + 1  BY <1>3, <1>4, <1>5, <1>6, <1>7, <2>2, <3>1
    <3> QED  BY <1>0, <1>8, <3>2
  <2>3. CASE R.inproc # None /\ DOMAIN R.ring = {}
    <3>1. Lost(R.inproc - 1) /\ R.inproc \in Slots  BY <1>2, <2>3 DEF View
    <3>2. R.inproc - 1 < next /\ NextOf(R) = R.inproc  BY <1>6, <1>7, <2>3, <3>1 DEF Lost, Known
    <3>3. PICK t : t = R.inproc  OBVIOUS
    <3>4. t \in Nat /\ t - 1 < next /\ NextOf(R) = t  BY <1>8, <3>1, <3>2, <3>3
    <3> QED  BY <1>0, <3>4
  <2> QED  BY <2>1, <2>2, <2>3
<1>11. ASSUME NEW s \in DOMAIN R.ring PROVE s < NextOf(R)
  <2>1. PICK h : h = Highest(DOMAIN R.ring)  OBVIOUS
  <2>2. h \in Slots /\ s \in Slots /\ s <= h /\ NextOf(R) = h + 1  BY <1>3, <1>4, <1>6, <1>7, <1>11, <2>1
  <2>3. PICK m : m = NextOf(R)  OBVIOUS
  <2>4. h \in Slots /\ s \in Slots /\ s <= h  BY <2>2
  <2>5. h \in Nat /\ s \in Nat  BY <1>8, <2>4
  <2>6. m = h + 1  BY <2>2, <2>3
  <2>7. s < m  BY <2>4, <2>5, <2>6
  <2> QED  BY <2>3, <2>7
<1>12. ASSUME NEW s \in Nat, s < NextOf(R), s \notin DOMAIN R.ring, NEW t \in DOMAIN R.ring PROVE s < t
  <2>1. PICK h : h = Highest(DOMAIN R.ring)  OBVIOUS
  <2>2. h \in Slots /\ t \in Slots /\ h \in DOMAIN R.ring /\ NextOf(R) = h + 1
    BY <1>3, <1>4, <1>6, <1>7, <1>12, <2>1
  <2>3. s <= h /\ t \in Nat
    <3>1. s < h + 1 /\ h \in Nat /\ t \in Nat  BY <1>8, <1>12, <2>2
    <3> QED  BY <3>1
  <2>4. t <= s => s \in t .. h  BY <1>8, <2>2, <2>3
  <2>5. t <= s => s \in DOMAIN R.ring  BY <1>4, <2>2, <2>4 DEF Consecutive
  <2> QED  BY <1>12, <2>3, <2>5
<1> QED  BY <1>1, <1>7, <1>9, <1>10, <1>11, <1>12

LEMMA NextOfGrows ==
    ASSUME IndexInv, MemoryInv, MemoryInv', IndexInv', NEW r \in Readers, NEW q \in Readers,
           Storage \/ receive(q)
    PROVE  /\ NextOf(reader[r]) <= NextOf(reader'[r])
           /\ NextOf(reader[r]) \in Int /\ NextOf(reader'[r]) \in Int
<1>0. NextOf(reader[r]) \in Nat  BY NextOfIs
<1>1. CASE reader'[r] = reader[r]  BY <1>0, <1>1
<1>2. CASE receive(r)
  <2>1. PICK m : m = inbox[r][1]  OBVIOUS
  <2>2. /\ Top(reader[r]) \in Slots /\ Top(reader'[r]) \in Slots
        /\ m.type = "BlockConfirmed" => Top(reader'[r]) = Top(reader[r]) + 1
        /\ m.type # "BlockConfirmed" => Top(reader'[r]) = Top(reader[r])
    BY <1>2, <2>1, TopMoves DEF MemoryInv
  <2>3. /\ NextOf(reader[r]) = IF reader[r].inproc # None THEN Top(reader[r]) ELSE Top(reader[r]) + 1
        /\ NextOf(reader'[r]) = IF reader'[r].inproc # None THEN Top(reader'[r]) ELSE Top(reader'[r]) + 1
    BY DEF NextOf, Top
  <2>4. /\ m.type # "BlockConfirmed" => reader'[r].inproc = reader[r].inproc \/ reader'[r].inproc = None
    BY <1>2, <2>1, HandleIs
  <2>5. Slots \subseteq Int  BY DEF Slots
  <2>6. PICK a, b : a = Top(reader[r]) /\ b = Top(reader'[r])  OBVIOUS
  <2>7. a \in Int /\ b \in Int  BY <2>2, <2>5, <2>6
  <2>8. CASE m.type = "BlockConfirmed"
    <3>1. b = a + 1 /\ NextOf(reader[r]) \in {a, a + 1} /\ NextOf(reader'[r]) \in {b, b + 1}
      BY <2>2, <2>3, <2>6, <2>8
    <3> QED  BY <2>7, <3>1
  <2>9. CASE m.type # "BlockConfirmed"
    <3>1. /\ b = a /\ NextOf(reader[r]) \in {a, a + 1} /\ NextOf(reader'[r]) \in {b, b + 1}
          /\ NextOf(reader[r]) = a + 1 => NextOf(reader'[r]) = b + 1
      <4>1. b = a /\ (reader'[r].inproc = reader[r].inproc \/ reader'[r].inproc = None)
        BY <2>2, <2>4, <2>6, <2>9
      <4>2. NextOf(reader[r]) = a + 1 => reader[r].inproc = None  BY <2>3, <2>6, <2>7
      <4> QED  BY <2>3, <2>6, <4>1, <4>2
    <3> QED  BY <2>7, <3>1
  <2> QED  BY <2>8, <2>9
<1>3. CASE receive(q) /\ q # r  BY <1>1, <1>3, HandleIs
<1>4. CASE Storage  BY <1>1, <1>4, StorageQuiet
<1> QED  BY <1>2, <1>3, <1>4

LEMMA RowsSame ==
    ASSUME RowsOK, UNCHANGED <<writer, inbox, reader>>
    PROVE  RowsOK'
BY DEF RowsOK, RowsPassed, LeavesEdge, Cleared, Known, Leaving, Pushes, writer

LEMMA RowsStart ==
    ASSUME Start
    PROVE  RowsOK
<1>1. PICK l \in Loads : Loaded(l[1], l[2], l[3], l[4])  BY DEF Start
<1>2. /\ l[1] \in Slots /\ l[2] \in l[1] .. MaxSlot /\ l[3] \in l[2] .. MaxSlot
      /\ l[1] \in Int /\ l[2] \in Int /\ l[3] \in Int
      /\ indexed = (l[2] .. l[3]) \ Skipped /\ next = l[3] + 1 /\ next_back_slot = l[2] - 1
      /\ \E extra, recent, confirmed, height : reader = [r \in Readers |->
                [ring |-> ring, extra |-> extra, inproc |-> None, finalized |-> 0, heard |-> 0,
                 told |-> 0, confirmed |-> confirmed, height |-> height, peak |-> height,
                 recent |-> recent, failed |-> FALSE]]
      /\ DOMAIN ring = l[2] .. l[3]
  BY <1>1, LoadedIs
<1>3. op = Idle /\ inbox = [r \in Readers |-> <<>>]  BY DEF Start
<1>4. op.stage = "idle" /\ op.gone = None /\ op.file = "try"  BY <1>3, IdleOp
<1>5. \A r \in Readers : DOMAIN reader[r].ring = DOMAIN ring /\ DOMAIN inbox[r] = {}  BY <1>2, <1>3
<1>6. RowsPassed
  <2> SUFFICES ASSUME NEW s \in indexed PROVE Known(s)  BY DEF RowsPassed
  <2>1. s \in l[2] .. l[3]  BY <1>2
  <2>2. s \in Slots /\ s < next /\ next_back_slot < s  BY <1>2, <2>1, BlockStoreAssumption DEF Slots
  <2> QED  BY <1>4, <2>2 DEF Known
<1>7. LeavesEdge  BY <1>4 DEF LeavesEdge, Leaving
<1> QED  BY <1>4, <1>5, <1>6, <1>7 DEF RowsOK, Cleared

\* What is in the ring has rows, and so has what is above.
LEMMA RingRows ==
    ASSUME IndexInv, MemoryInv, NEW s \in DOMAIN ring, NEW t \in LiveSlots, s <= t, t < next
    PROVE  t \in DOMAIN ring /\ t \in indexed
<1>0. StoreInv /\ Front /\ status # "down" /\ next \in Int  BY DEF IndexInv, MemoryInv, Progress
<1>1. /\ RowsFollow /\ Consecutive(DOMAIN ring) /\ Live(basic) \subseteq indexed /\ DeadOrLive(ring)
      /\ DOMAIN ring \subseteq Slots
  BY <1>0 DEF StoreInv, Placed, ListedIndexed, Front, Types, IsRows
<1>2. next - 1 \in DOMAIN ring /\ t \in Int /\ s \in Int  BY <1>0, <1>1 DEF Front, LiveSlots, Slots
<1>3. t \in s .. (next - 1)  BY <1>0, <1>2
<1>4. t \in DOMAIN ring  BY <1>1, <1>2, <1>3 DEF Consecutive
<1>5. ring[t] # None /\ t \in DOMAIN basic /\ basic[t] = ring[t]
  BY <1>1, <1>4 DEF DeadOrLive, RowsFollow, LiveSlots
<1>6. t \in Live(basic)  BY <1>5 DEF Live
<1> QED  BY <1>1, <1>4, <1>6

\* Rows below a slot that has none are of slots no reader ever lists.
LEMMA BelowHole ==
    ASSUME IndexInv, MemoryInv, RowsOK, NEW z \in indexed, z \in LiveSlots,
           NEW t \in LiveSlots, t \notin indexed, z < t, t < next, NEW r \in Readers
    PROVE  Out(r, z) /\ t \notin DOMAIN ring
<1>0. next \in Int /\ t \in Int /\ z \in Int /\ StoreInv /\ Progress /\ op.side \in {"front", "back"}
  BY DEF IndexInv, Progress, LiveSlots, Slots, StoreInv, Types, Op
<1>1. t <= t  BY <1>0
<1>2. t \notin DOMAIN ring  BY <1>1, RingRows
<1>3. \A s \in DOMAIN ring : ~ (s <= t)  BY RingRows
<1>4. z \notin DOMAIN ring /\ z + 1 \notin DOMAIN ring  BY <1>0, <1>3
<1>5. ~ (Leaving /\ z = op.gone)
  <2>1. z + 1 # next  BY <1>0
  <2> QED  BY <1>4, <2>1 DEF RowsOK, LeavesEdge
<1>6. ~ Cleared(z)  BY <1>4, <1>5 DEF Cleared
<1>7. Known(z)
  <2> SUFFICES ASSUME op.stage # "idle", z = op.slot PROVE FALSE  BY DEF RowsOK, RowsPassed
  <2>1. op.side = "front" => z = next  BY <1>0 DEF Progress
  <2>2. op.side = "back"  BY <1>0, <2>1
  <2>3. Pushing /\ status # "down"
    <3>1. op.stage \in {"idle", "make_room", "join", "add", "added", "pop"}  BY <1>0 DEF StoreInv, Types, Op
    <3> QED  BY <1>0, <3>1 DEF Pushing, Progress
  <2>4. op.slot + 1 \in DOMAIN ring  BY <1>0, <2>2, <2>3 DEF StoreInv, Placed, Fits
  <2> QED  BY <1>4, <2>4
<1>8. z \notin DOMAIN reader[r].ring  BY <1>6 DEF RowsOK
<1>9. \A i \in DOMAIN inbox[r] : Pushes(inbox[r][i]) => inbox[r][i].slot # z  BY <1>6 DEF RowsOK
<1> QED  BY <1>2, <1>7, <1>8, <1>9 DEF Out

\* What is still there was there before.
LEMMA StillThereBefore ==
    ASSUME IndexInv, IndexInv', Advance, NEW q, KeptOK(q), NEW tx, StillThere(q, tx)'
    PROVE  StillThere(q, tx)
<1>1. tx \in q.kept /\ tx[1] \in DOMAIN ring'  BY DEF StillThere
<1>2. ~ Lost(tx[1])'
  <2>1. DOMAIN ring' \subseteq Slots  BY DEF IndexInv, StoreInv, Types, IsRows
  <2>2. DOMAIN ring' # {} /\ Lowest(DOMAIN ring') <= tx[1]  BY <1>1, <2>1, LowestIn
  <2> QED  BY <2>2 DEF Lost, Reached
<1>3. ~ Lost(tx[1])  BY <1>2 DEF Advance
<1>4. PICK r \in Readers : TRUE  BY StorageReadAssumption
<1>5. tx[1] \in DOMAIN reader[r].ring  BY <1>1, <1>3, <1>4 DEF KeptOK
<1>6. Agrees(tx[1], reader[r].ring[tx[1]])  BY <1>4, <1>5, ReaderAgrees
<1>7. tx[1] \in DOMAIN ring  BY <1>3, <1>6 DEF Agrees, Lost
<1> QED  BY <1>1, <1>7 DEF StillThere

\* The kept ones stay in every reader's index or are lost.
LEMMA KeptWaits ==
    ASSUME MemoryInv, MemoryInv', Advance, NEW q, KeptOK(q)
    PROVE  KeptOK(q)'
<1>1. ASSUME NEW tx \in q.kept, NEW r \in Readers
      PROVE  /\ tx[1] \in DOMAIN reader'[r].ring \/ Lost(tx[1])'
             /\ Attained(reader'[r], q.commit, tx[1])
  <2>1. tx[1] \in DOMAIN reader[r].ring \/ Lost(tx[1])  BY DEF KeptOK
  <2>2. Attained(reader[r], q.commit, tx[1])  BY DEF KeptOK
  <2>3. GoesOn(r) /\ (Lost(tx[1]) => Lost(tx[1])')  BY DEF Advance
  <2>5. tx[1] \in Nat  BY TxsIs, TxIs DEF KeptOK
  <2>6. Attained(reader'[r], q.commit, tx[1])  BY <2>2, <2>3, <2>5, AttainedOn
  <2> QED  BY <2>1, <2>3, <2>6 DEF GoesOn
<1> QED  BY <1>1 DEF KeptOK

-----------------------------------------------------------------------------
(***************************************************************************)
(* While storage moves on, what is known of a list stays.                  *)
(***************************************************************************)
Waiting ==
    /\ IndexInv /\ IndexInv' /\ MemoryInv /\ MemoryInv' /\ Advance
    /\ \A r \in Readers : /\ NextOf(reader[r]) <= NextOf(reader'[r])
                          /\ NextOf(reader[r]) \in Int /\ NextOf(reader'[r]) \in Int
    /\ \A r \in Readers : \A s : Out(r, s) => Out(r, s)'

LEMMA WaitingIs ==
    ASSUME IndexInv, MemoryInv, IndexInv', MemoryInv',
           Storage \/ \E r \in Readers : receive(r)
    PROVE  Waiting
<1>1. Advance  BY StorageAdvance, HandleAdvance
<1>2. \A r \in Readers : /\ NextOf(reader[r]) <= NextOf(reader'[r])
                        /\ NextOf(reader[r]) \in Int /\ NextOf(reader'[r]) \in Int
  <2>1. CASE Storage  BY <2>1, NextOfGrows
  <2>2. CASE \E r \in Readers : receive(r)  BY <2>2, NextOfGrows
  <2> QED  BY <2>1, <2>2
<1>3. \A r \in Readers : \A s : Out(r, s) => Out(r, s)'  BY OutStorage, OutHandle
<1> QED  BY <1>1, <1>2, <1>3 DEF Waiting

LEMMA ReadyWaits ==
    ASSUME Waiting, NEW r \in Readers, NEW n \in Int,
           \A tx \in TxSet : tx[1] <= n => tx[1] < NextOf(reader[r])
    PROVE  \A tx \in TxSet : tx[1] <= n => tx[1] < NextOf(reader'[r])
<1> SUFFICES ASSUME NEW tx \in TxSet, tx[1] <= n PROVE tx[1] < NextOf(reader'[r])  OBVIOUS
<1>1. PICK a, b : a = NextOf(reader[r]) /\ b = NextOf(reader'[r])  OBVIOUS
<1>2. a \in Int /\ b \in Int /\ a <= b /\ tx[1] < a  BY <1>1 DEF Waiting
<1>3. tx[1] \in Int  BY TxsIs, TxIs
<1> QED  BY <1>1, <1>2, <1>3

LEMMA SignaturesWaits ==
    ASSUME Waiting, NEW q, SignatureTypes(q), SignaturesOK(q), q.stage \notin {"result", "done"}
    PROVE  SignaturesOK(q)'
<1>0. IndexInv /\ IndexInv' /\ MemoryInv /\ MemoryInv' /\ Advance /\ KeptOK(q)  BY DEF Waiting, SignaturesOK
<1>1. KeptOK(q)'  BY <1>0, KeptWaits
<1>2. q.stage = "queued" =>
          q.got = <<>> /\ ~ q.ahead /\ \A r \in Readers : Attained(reader'[r], q.commit, q.seen)
  <2> SUFFICES ASSUME q.stage = "queued", NEW r \in Readers PROVE Attained(reader'[r], q.commit, q.seen)
    BY DEF SignaturesOK
  <2>1. Attained(reader[r], q.commit, q.seen) /\ q.seen \in Nat /\ GoesOn(r)
    BY <1>0 DEF SignaturesOK, SignatureTypes, Advance
  <2> QED  BY <1>0, <2>1, AttainedOn
<1>3. ASSUME q.stage \in {"index", "scan", "scanned"},
             \A tx \in TxSet : tx[1] <= q.slot => tx[1] < NextOf(reader[q.reader])
      PROVE  \A tx \in TxSet : tx[1] <= q.slot => tx[1] < NextOf(reader'[q.reader])
  <2>1. PICK r \in Readers : r = q.reader  BY <1>3 DEF SignatureTypes
  <2>2. PICK n \in Int : n = q.slot  BY <1>3 DEF SignatureTypes
  <2> QED  BY <1>3, <2>1, <2>2, ReadyWaits
<1>4. ASSUME NEW S, q.stage \in {"index", "scan", "scanned"}, Ready(q, S) PROVE Ready(q, S)'
  BY <1>3, <1>4 DEF Ready
<1>5. q.stage = "index" /\ AtIndex(q) => AtIndex(q)'  BY <1>3 DEF AtIndex
<1>6. ASSUME NEW S, q.stage = "scan", AtScan(q, S) PROVE AtScan(q, S)'
  <2>1. Ready(q, S)'  BY <1>4, <1>6 DEF AtScan
  <2> QED  BY <1>6, <2>1 DEF AtScan, Listed, Starts
<1>7. ASSUME NEW S, q.stage = "scanned", Scanned(q, S) PROVE Scanned(q, S)'
  <2>1. Ready(q, S)'  BY <1>4, <1>7 DEF Scanned
  <2>2. \A tx : StillThere(q, tx)' => StillThere(q, tx)  BY <1>0, StillThereBefore
  <2>3. EndsWell(q, S)  BY <1>7 DEF Scanned
  <2>4. EndsWell(q, S)'  BY <2>2, <2>3 DEF EndsWell, Starts
  <2>5. PICK r \in Readers : r = q.reader  BY <1>7 DEF SignatureTypes
  <2>6. \A s : Out(q.reader, s) => Out(q.reader, s)'
    <3>1. \A s : Out(r, s) => Out(r, s)'  BY DEF Waiting
    <3> QED  BY <2>5, <3>1
  <2>7. \A tx, z : Starts(q, S, tx) /\ ~ Has(q.got, tx) /\ Has(q.got, z) =>
           Newer(z, tx) \/ (Out(q.reader, z[1]) /\ ~ StillThere(q, tx))
    BY <1>7 DEF Scanned
  <2>8. \A tx, z : Starts(q, S, tx) /\ ~ Has(q.got, tx) /\ Has(q.got, z) =>
           Newer(z, tx) \/ (Out(q.reader, z[1])' /\ ~ StillThere(q, tx)')
    BY <2>2, <2>6, <2>7
  <2>9. Listed(q, S) /\ \A i \in DOMAIN q.got : i <= q.own <=> q.got[i][1] > q.slot  BY <1>7 DEF Scanned
  <2>10. Listed(q, S)'  BY <2>9 DEF Listed, Starts
  <2> QED  BY <2>1, <2>4, <2>8, <2>9, <2>10 DEF Scanned, Starts
<1>8. q.stage = "scan" /\ (\E S \in Tops(q) : AtScan(q, S)) => \E S \in Tops(q) : AtScan(q, S)'
  BY <1>6
<1>9. q.stage = "scanned" /\ (\E S \in Tops(q) : Scanned(q, S)) => \E S \in Tops(q) : Scanned(q, S)'
  BY <1>7
<1> QED  BY <1>1, <1>2, <1>5, <1>8, <1>9 DEF SignaturesOK, Tops

-----------------------------------------------------------------------------
(***************************************************************************)
(* The steps of the request.                                               *)
(***************************************************************************)
SameSignatures(p, q) ==
    /\ IsSignatures(p)
    /\ p.commit = q.commit /\ p.before = q.before /\ p.until = q.until /\ p.limit = q.limit
    /\ p.kept = q.kept /\ p.seen = q.seen

LEMMA SignatureTypesKept ==
    ASSUME NEW p, NEW q, SignatureTypes(q), SameSignatures(p, q),
           p.got \in Seq(TxType), Len(p.got) <= p.limit, p.after \in {NoTx, p.before},
           p.stage \in {"index", "scan", "scanned"} => p.reader \in Readers /\ p.slot \in Int,
           p.stage # "done" => ~ p.asked /\ ~ p.restarted
    PROVE  SignatureTypes(p)
BY DEF SignatureTypes, SameSignatures

\* A list is asked for.
LEMMA SignaturesAsked ==
    ASSUME IndexInv, MemoryInv, NEW before \in Befores, NEW until \in Untils, NEW limit \in Limits,
           NEW c \in Commitments, NEW p, p = AskedSignatures(before, until, limit, c)
    PROVE  SignatureTypes(p) /\ SignaturesOK(p)
<1>1. PICK U : U = UNION {{reader[r][c], Highest(CanList(reader[r], c))} : r \in Readers}  OBVIOUS
<1>2. /\ IsSignatures(p) /\ p.stage = "queued" /\ p.commit = c /\ p.before = before /\ p.until = until
      /\ p.limit = limit /\ p.got = <<>> /\ p.after = NoTx /\ p.kept = Kept(c) /\ p.seen = Lowest(U)
      /\ ~ p.asked /\ ~ p.restarted /\ ~ p.ahead
  <2>1. IsSignatures(p)  BY AskedSignaturesIs
  <2> QED  BY <1>1, <2>1 DEF AskedSignatures
<1>3. c = "confirmed" \/ c = "finalized"  BY DEF Commitments
<1>4. \A r \in Readers : reader[r][c] = LevelAt(reader[r], c)  BY <1>3 DEF LevelAt
<1>5. ASSUME NEW r \in Readers
      PROVE  /\ LevelAt(reader[r], c) \in Nat
             /\ Highest(CanList(reader[r], c)) \in Nat
             /\ Highest(CanList(reader[r], c)) <= Top(reader[r]) /\ Top(reader[r]) \in Nat
  <2>1. LevelAt(reader[r], c) \in Nat  BY <1>3 DEF LevelAt, MemoryInv, Levels, ReaderLevels
  <2>2. PICK R : R = reader[r]  OBVIOUS
  <2>3. View(R.ring, R.inproc)  BY <2>2, ReaderView DEF MemoryInv
  <2>4. DOMAIN R.ring \subseteq Slots /\ R.inproc \in Slots \union {0}  BY <2>3 DEF View, IsRows, None
  <2>5. PICK C : C = CanList(R, c)  OBVIOUS
  <2>6. C \subseteq Slots \union {0} /\ 0 \in C  BY <2>4, <2>5 DEF CanList
  <2>7. Slots \union {0} \subseteq Nat /\ (\A s \in Slots \union {0} : s <= MaxSlot) /\ MaxSlot \in Int
    BY BlockStoreAssumption DEF Slots
  <2>8. Highest(C) \in C  BY <2>6, <2>7, MaxBelow
  <2>9. PICK t : t = Top(R)  OBVIOUS
  <2>10. t \in Nat /\ R.inproc <= t /\ \A s \in DOMAIN R.ring : s <= t  BY <2>3, <2>9, TopOver
  <2>11. \A s \in C : s = 0 \/ s \in DOMAIN R.ring \/ s = R.inproc  BY <2>5 DEF CanList
  <2>12. \A s \in C : s <= t  BY <2>10, <2>11
  <2> QED  BY <2>1, <2>2, <2>5, <2>6, <2>7, <2>8, <2>9, <2>10, <2>12
<1>6. U \subseteq Int /\ U # {} /\ \A u \in U : 0 <= u
  <2>1. \A u \in U : \E r \in Readers : u = reader[r][c] \/ u = Highest(CanList(reader[r], c))  BY <1>1
  <2>2. \A u \in U : u \in Nat  BY <1>4, <1>5, <2>1
  <2>3. PICK r \in Readers : TRUE  BY StorageReadAssumption
  <2>4. reader[r][c] \in U  BY <1>1
  <2> QED  BY <2>2, <2>4
<1>7. Lowest(U) \in U /\ (\A u \in U : Lowest(U) <= u) /\ Lowest(U) \in Int /\ 0 <= Lowest(U)
  <2>1. PICK v \in Int : v = 0  OBVIOUS
  <2>2. \A u \in U : v <= u  BY <1>6, <2>1
  <2>3. Lowest(U) \in U /\ (\A u \in U : Lowest(U) <= u) /\ Lowest(U) \in Int /\ v <= Lowest(U)
    BY <1>6, <2>2, MinAbove
  <2> QED  BY <2>1, <2>3
<1>8. p.seen \in Nat /\ \A r \in Readers : Attained(reader[r], c, p.seen)
  <2>1. p.seen \in Nat  BY <1>2, <1>7
  <2>2. ASSUME NEW r \in Readers PROVE Attained(reader[r], c, p.seen)
    <3>1. LevelAt(reader[r], c) \in U /\ Highest(CanList(reader[r], c)) \in U  BY <1>1, <1>4
    <3>2. p.seen <= LevelAt(reader[r], c) /\ p.seen <= Highest(CanList(reader[r], c))  BY <1>2, <1>7, <3>1
    <3>3. PICK h, t : h = Highest(CanList(reader[r], c)) /\ t = Top(reader[r])  OBVIOUS
    <3>4. h \in Nat /\ t \in Nat /\ h <= t /\ p.seen <= h  BY <1>5, <3>2, <3>3
    <3>5. p.seen <= t  BY <2>1, <3>4
    <3> QED  BY <1>3, <3>2, <3>3, <3>5 DEF Attained, Reaches, LevelAt
  <2> QED  BY <2>1, <2>2
<1>9. before \in TxSet \union {NoTx} /\ until \in TxSet \union {NoTx} /\ limit \in Nat \ {0}
  BY AddressRequestsAssumption
<1>10. KeptOK(p)  BY <1>2, KeptIs
<1>11. SignatureTypes(p)
  <2>1. Len(p.got) <= p.limit  BY <1>2, <1>9
  <2> QED  BY <1>2, <1>8, <1>9, <2>1 DEF SignatureTypes
<1> QED  BY <1>2, <1>8, <1>10, <1>11 DEF SignaturesOK

\* What a list is to hold: with a transaction, all that is older.
LEMMA StartsDown ==
    ASSUME NEW q, q.before \in TxSet \union {NoTx}, NEW S \in Int, NEW a, NEW b \in TxSet,
           Starts(q, S, a), Newer(a, b)
    PROVE  Starts(q, S, b)
<1>1. a \in TxType /\ b \in TxType /\ a[1] \in Int /\ b[1] \in Int  BY TxsIs, TxIs DEF Starts
<1>2. CASE q.before # NoTx
  <2>1. q.before \in TxType /\ Newer(q.before, a)  BY <1>2, TxsIs DEF Starts
  <2>2. Newer(q.before, b)  BY <1>1, <2>1, ComesThen DEF Comes
  <2> QED  BY <1>2, <2>2 DEF Starts
<1>3. CASE q.before = NoTx  BY <1>1, <1>3 DEF Starts, Newer
<1> QED  BY <1>2, <1>3

\* A list from one reader's block in process.
LEMMA OwnListIs ==
    ASSUME IndexInv, MemoryInv, NEW r \in Readers, NEW R, R = reader[r], SignatureTypes(req),
           NEW S, S = Level(R), NEW n, n = highest_slot(R),
           Level(R) \in CanList(R, req.commit)
    PROVE  /\ S \in Nat /\ n \in Int /\ n <= S
           /\ Own(R) = <<>> => n = S
           /\ Own(R) # <<>> => n = S - 1 /\ \A tx : Has(Own(R), tx) <=> tx \in TxSet /\ tx[1] = S
           /\ \A tx \in TxSet : tx[1] <= n => tx[1] < NextOf(R)
<1>0. /\ View(R.ring, R.inproc) /\ R.confirmed \in Nat /\ R.finalized \in Nat
      /\ R.inproc # None => R.confirmed = R.inproc
  BY ReaderView DEF MemoryInv, Levels, ReaderLevels
<1>1. /\ NextOf(R) \in Nat /\ NextOf(R) > 0
      /\ NextOf(R) = IF R.inproc # None THEN Top(R) ELSE Top(R) + 1
      /\ \A s \in DOMAIN R.ring : s < NextOf(R)
  BY NextOfIs
<1>2. req.commit \in {"confirmed", "finalized"}  BY DEF SignatureTypes, Commitments
<1>3. S = (IF req.commit = "confirmed" THEN R.confirmed ELSE R.finalized) /\ S \in Nat
  BY <1>0, <1>2 DEF Level
<1>4. /\ \A tx : Has(Own(R), tx) => tx \in TxSet /\ tx[1] = R.inproc
      /\ Own(R) # <<>> => R.inproc \in LiveSlots /\ req.commit = "confirmed"
      /\ req.commit = "confirmed" => \A tx \in TxSet : tx[1] = R.inproc => Has(Own(R), tx)
  BY OwnIs
<1>5. \A tx \in TxSet : tx[1] \in Nat /\ tx[1] > 0  BY TxsIs, TxIs
<1>6. CASE Own(R) # <<>>
  <2>1. R.inproc # None /\ req.commit = "confirmed" /\ S = R.inproc /\ R.confirmed = R.inproc
    <3>1. R.inproc \in Slots  BY <1>4, <1>6 DEF LiveSlots
    <3>2. R.inproc # None  BY <3>1, SlotNotNone
    <3> QED  BY <1>0, <1>3, <1>4, <1>6, <3>2
  <2>2. n = S - 1  BY <1>6, <2>1 DEF highest_slot
  <2>3. NextOf(R) = S  BY <1>1, <2>1 DEF Top
  <2>4. \A tx : Has(Own(R), tx) <=> tx \in TxSet /\ tx[1] = S  BY <1>4, <2>1
  <2>5. ASSUME NEW tx \in TxSet, tx[1] <= n PROVE tx[1] < NextOf(R)
    <3>1. tx[1] \in Nat /\ tx[1] <= S - 1  BY <1>5, <2>2, <2>5
    <3> QED  BY <1>3, <2>3, <3>1
  <2> QED  BY <1>3, <1>6, <2>2, <2>4, <2>5
<1>7. CASE Own(R) = <<>>
  <2>1. n = S  BY <1>7 DEF highest_slot
  <2>2. ASSUME NEW tx \in TxSet, tx[1] <= n PROVE tx[1] < NextOf(R)
    <3>1. PICK a : a = NextOf(R)  OBVIOUS
    <3>2. a \in Nat /\ a > 0 /\ tx[1] \in Nat /\ tx[1] > 0 /\ tx[1] <= S  BY <1>1, <1>5, <2>1, <2>2, <3>1
    <3>3. CASE S < a  BY <1>3, <3>1, <3>2, <3>3
    <3>4. CASE S \in DOMAIN R.ring  BY <1>1, <3>1, <3>3, <3>4
    <3>5. CASE S = 0  BY <3>2, <3>5
    <3>6. CASE req.commit = "confirmed" /\ S = R.inproc /\ R.inproc # None
      <4>1. tx[1] # R.inproc  BY <1>4, <1>7, <3>6, HasNone
      <4>2. a = S  BY <1>1, <3>1, <3>6 DEF Top
      <4> QED  BY <1>3, <3>1, <3>2, <3>6, <4>1, <4>2
    <3>7. S \in {0} \union DOMAIN R.ring \/ (req.commit = "confirmed" /\ S = R.inproc)
      BY DEF CanList
    <3>8. R.inproc = None /\ S = R.inproc => S = 0  BY DEF None
    <3> QED  BY <3>4, <3>5, <3>6, <3>7, <3>8
  <2> QED  BY <1>3, <1>7, <2>1, <2>2
<1> QED  BY <1>6, <1>7

\* A request is taken: the part of its list that is in the block in process.
TakenFrom(p, q, R, r, part, here) ==
    /\ SameSignatures(p, q)
    /\ p.got = part.txs /\ p.own = Len(part.txs) /\ p.slot = highest_slot(R) /\ p.reader = r
    /\ p.ahead = (Level(R) \notin CanList(R, q.commit))
    /\ p.after = IF here THEN NoTx ELSE q.before
    /\ p.stage = IF part.finished THEN "result" ELSE IF p.after = NoTx THEN "scan" ELSE "index"
    /\ p.asked = q.asked /\ p.restarted = q.restarted

LEMMA TakenFromIs ==
    ASSUME SignatureTypes(req), NEW R, NEW r, NEW y, y = SignaturesForAddress(R),
           NEW p, p = [y EXCEPT !.reader = r]
    PROVE  \E part, here :
              /\ TakenFrom(p, req, R, r, part, here)
              /\ part = Upto(IF req.before = NoTx THEN Own(R) ELSE After(Own(R), req.before),
                             req.until, req.limit)
              /\ here <=> Has(Own(R), req.before)
<1>1. PICK part : part = Upto(IF req.before = NoTx THEN Own(R) ELSE After(Own(R), req.before),
                              req.until, req.limit)
  OBVIOUS
<1>2. PICK here : here = (req.before \in {Own(R)[i] : i \in DOMAIN Own(R)})  OBVIOUS
<1>3. here <=> Has(Own(R), req.before)  BY <1>2, Zenon DEF Has
<1>4. PICK a : a = IF here THEN NoTx ELSE req.before  OBVIOUS
<1>5. PICK q : q = [req EXCEPT !.got = part.txs, !.own = Len(part.txs), !.slot = highest_slot(R),
                               !.ahead = Level(R) \notin CanList(R, req.commit), !.after = a]
  OBVIOUS
<1>6. y = IF part.finished THEN [q EXCEPT !.stage = "result", !.finished = TRUE]
          ELSE [q EXCEPT !.stage = IF q.after = NoTx THEN "scan" ELSE "index"]
  BY <1>1, <1>2, <1>4, <1>5, ZenonT(40) DEF SignaturesForAddress
<1>7. DOMAIN req = SignatureFields /\ req = [f \in SignatureFields |-> req[f]]
      /\ req.kind = "getSignaturesForAddress"
  BY DEF SignatureTypes, IsSignatures
<1>8. /\ DOMAIN q = SignatureFields /\ q = [f \in SignatureFields |-> q[f]]
      /\ q.kind = req.kind /\ q.commit = req.commit /\ q.before = req.before /\ q.until = req.until
      /\ q.limit = req.limit /\ q.kept = req.kept /\ q.seen = req.seen
      /\ q.asked = req.asked /\ q.restarted = req.restarted
      /\ q.got = part.txs /\ q.own = Len(part.txs) /\ q.slot = highest_slot(R) /\ q.after = a
      /\ q.ahead = (Level(R) \notin CanList(R, req.commit))
  BY <1>5, <1>7 DEF SignatureFields
<1>9. \E stage, finished : /\ y = [q EXCEPT !.stage = stage, !.finished = finished]
                           /\ stage = IF part.finished THEN "result"
                                      ELSE IF a = NoTx THEN "scan" ELSE "index"
  <2>1. CASE part.finished
    <3>1. y = [q EXCEPT !.stage = "result", !.finished = TRUE]  BY <1>6, <2>1
    <3> QED  BY <2>1, <3>1, Zenon
  <2>2. CASE ~ part.finished
    <3>1. PICK stage : stage = IF a = NoTx THEN "scan" ELSE "index"  OBVIOUS
    <3>2. y = [q EXCEPT !.stage = stage]  BY <1>6, <1>8, <2>2, <3>1
    <3>3. [q EXCEPT !.stage = stage] = [q EXCEPT !.stage = stage, !.finished = q.finished]
      BY <1>8 DEF SignatureFields
    <3>4. stage = IF part.finished THEN "result" ELSE IF a = NoTx THEN "scan" ELSE "index"
      BY <2>2, <3>1
    <3>5. y = [q EXCEPT !.stage = stage, !.finished = q.finished]  BY <3>2, <3>3
    <3> QED  BY <3>4, <3>5, Zenon
  <2> QED  BY <2>1, <2>2, Zenon
<1> PICK stage, finished : /\ y = [q EXCEPT !.stage = stage, !.finished = finished]
                           /\ stage = IF part.finished THEN "result"
                                      ELSE IF a = NoTx THEN "scan" ELSE "index"
  BY <1>9, Zenon
<1>14. /\ y = [q EXCEPT !.stage = stage, !.finished = finished]
       /\ stage = IF part.finished THEN "result" ELSE IF a = NoTx THEN "scan" ELSE "index"
  OBVIOUS
<1>10. /\ DOMAIN p = SignatureFields /\ p = [f \in SignatureFields |-> p[f]]
       /\ p.stage = stage /\ p.reader = r
       /\ p.kind = q.kind /\ p.commit = q.commit /\ p.before = q.before /\ p.until = q.until
       /\ p.limit = q.limit /\ p.kept = q.kept /\ p.seen = q.seen
       /\ p.asked = q.asked /\ p.restarted = q.restarted
       /\ p.got = q.got /\ p.own = q.own /\ p.slot = q.slot /\ p.after = q.after /\ p.ahead = q.ahead
  BY <1>8, <1>14 DEF SignatureFields
<1>11. stage \in {"queued", "index", "scan", "scanned", "result", "done"}  BY <1>14
<1>12. IsSignatures(p)  BY <1>7, <1>8, <1>10, <1>11, Zenon DEF IsSignatures
<1>13. TakenFrom(p, req, R, r, part, here)
  BY <1>4, <1>8, <1>14, <1>10, <1>12 DEF TakenFrom, SameSignatures
<1> QED  BY <1>1, <1>3, <1>13

\* What is listed from the block in process, to end there or to go on.
LEMMA OwnGiven ==
    ASSUME NEW q, SignatureTypes(q), NEW S \in Nat, NEW n \in Int, NEW list \in Seq(TxType), InOrder(TRUE, list),
           \A tx : Has(list, tx) <=> Starts(q, S, tx) /\ tx[1] > n,
           q.got = Upto(list, q.until, q.limit).txs, ~ q.asked
    PROVE  /\ Listed(q, S)
           /\ ~ Upto(list, q.until, q.limit).finished =>
                 Len(q.got) < q.limit /\ \A tx : Starts(q, S, tx) /\ tx[1] > n => Has(q.got, tx)
           /\ Upto(list, q.until, q.limit).finished => Ended(q, S)
           /\ \A tx : Has(q.got, tx) => tx[1] > n
<1>1. PICK x : x = Upto(list, q.until, q.limit)  OBVIOUS
<1>2. q.limit \in Nat  BY DEF SignatureTypes
<1> PICK u, l : u = q.until /\ l = q.limit  OBVIOUS
<1>10. x = Upto(list, u, l) /\ l \in Nat  BY <1>1, <1>2
<1>11. /\ x.txs \in Seq(TxType) /\ InOrder(TRUE, x.txs) /\ Len(x.txs) <= l
       /\ \A tx : Has(x.txs, tx) => Has(list, tx) /\ tx # u
       /\ \A tx, z : Has(list, tx) /\ ~ Has(x.txs, tx) /\ Has(x.txs, z) => Newer(z, tx)
       /\ \A tx : Has(list, tx) /\ ~ Has(x.txs, tx) /\ Len(x.txs) < l =>
             Has(list, u) /\ (tx = u \/ Newer(u, tx))
       /\ x.finished => Has(list, u) \/ Len(x.txs) = l
       /\ ~ x.finished => Len(x.txs) < l /\ \A tx : Has(list, tx) => Has(x.txs, tx)
  BY <1>10, UptoIs, ZenonT(40)
<1>3. /\ x.txs \in Seq(TxType) /\ InOrder(TRUE, x.txs) /\ Len(x.txs) <= q.limit
      /\ \A tx : Has(x.txs, tx) => Has(list, tx) /\ tx # q.until
      /\ \A tx, z : Has(list, tx) /\ ~ Has(x.txs, tx) /\ Has(x.txs, z) => Newer(z, tx)
      /\ \A tx : Has(list, tx) /\ ~ Has(x.txs, tx) /\ Len(x.txs) < q.limit =>
            Has(list, q.until) /\ (tx = q.until \/ Newer(q.until, tx))
      /\ x.finished => Has(list, q.until) \/ Len(x.txs) = q.limit
      /\ ~ x.finished => Len(x.txs) < q.limit /\ \A tx : Has(list, tx) => Has(x.txs, tx)
  BY <1>11
<1>4. q.got = x.txs  BY <1>1
<1>5. Listed(q, S)  BY <1>3, <1>4 DEF Listed
<1>6. ASSUME NEW a, NEW b, Has(list, a), Starts(q, S, b), ~ Has(list, b) PROVE Newer(a, b)
  <2>1. a[1] > n /\ ~ (b[1] > n) /\ a \in TxSet /\ b \in TxSet  BY <1>6 DEF Starts
  <2>2. a[1] \in Int /\ b[1] \in Int  BY <2>1, TxsIs, TxIs
  <2> QED  BY <2>1, <2>2 DEF Newer
<1>7. Gapless(q, S)  BY <1>3, <1>4, <1>6 DEF Gapless
<1>8. ASSUME x.finished PROVE EndsWell(q, S)
  <2> SUFFICES ASSUME NEW tx, Starts(q, S, tx), ~ Has(q.got, tx), Len(q.got) < q.limit
               PROVE  tx = q.until \/ (Starts(q, S, q.until) /\ Newer(q.until, tx))
    BY DEF EndsWell
  <2>1. Len(x.txs) # q.limit  BY <1>2, <1>3, <1>4
  <2>2. Has(list, q.until)  BY <1>3, <1>8, <2>1
  <2>3. CASE Has(list, tx)  BY <1>3, <1>4, <2>2, <2>3
  <2>4. CASE ~ Has(list, tx)  BY <1>6, <2>2, <2>4
  <2> QED  BY <2>3, <2>4
<1>9. \A tx : Has(q.got, tx) => tx[1] > n  BY <1>3, <1>4
<1> QED  BY <1>1, <1>3, <1>4, <1>5, <1>7, <1>8, <1>9 DEF Ended

LEMMA HasNothing ==
    ASSUME NEW list \in Seq(TxType), \A tx : ~ Has(list, tx)
    PROVE  list = <<>> /\ Len(list) = 0
<1>1. PICK n \in Nat : n = Len(list) /\ DOMAIN list = 1 .. n  OBVIOUS
<1>2. ~ (1 \in DOMAIN list)  BY DEF Has
<1>3. n = 0  BY <1>1, <1>2
<1> QED  BY <1>1, <1>3

\* What was queued at a reader goes on to the scan, to the index, or ends.
LEMMA SignaturesTaken ==
    ASSUME IndexInv, MemoryInv, SignatureTypes(req), SignaturesOK(req), req.stage = "queued",
           NEW r \in Readers, NEW R, R = reader[r], NEW p, NEW part, NEW here,
           TakenFrom(p, req, R, r, part, here),
           part = Upto(IF req.before = NoTx THEN Own(R) ELSE After(Own(R), req.before),
                       req.until, req.limit),
           here <=> Has(Own(R), req.before)
    PROVE  SignatureTypes(p) /\ SignaturesOK(p)
<1>1. /\ SameSignatures(p, req) /\ IsSignatures(p)
      /\ p.commit = req.commit /\ p.before = req.before /\ p.until = req.until /\ p.limit = req.limit
      /\ p.kept = req.kept /\ p.seen = req.seen
      /\ p.got = part.txs /\ p.own = Len(part.txs) /\ p.slot = highest_slot(R) /\ p.reader = r
      /\ p.ahead = (Level(R) \notin CanList(R, req.commit))
      /\ p.after = IF here THEN NoTx ELSE req.before
      /\ p.stage = IF part.finished THEN "result" ELSE IF p.after = NoTx THEN "scan" ELSE "index"
  BY DEF TakenFrom, SameSignatures
<1>2. p.asked = req.asked /\ p.restarted = req.restarted  BY DEF TakenFrom
<1>3. ~ p.asked /\ ~ p.restarted  BY <1>2, Zenon DEF SignatureTypes
<1>4. PICK b, u, l : b = req.before /\ u = req.until /\ l = req.limit  OBVIOUS
<1>5. /\ b \in TxSet \union {NoTx} /\ u \in TxSet \union {NoTx} /\ l \in Nat \ {0}
      /\ req.commit \in Commitments /\ req.seen \in Nat
  BY <1>4 DEF SignatureTypes
<1>6. PICK own : own = Own(R)  OBVIOUS
<1>7. own \in Seq(TxType) /\ InOrder(TRUE, own)  BY <1>6, OwnIs
<1>8. PICK list : list = IF b = NoTx THEN own ELSE After(own, b)  OBVIOUS
<1>9. list \in Seq(TxType) /\ InOrder(TRUE, list)
      /\ (b # NoTx => \A z : Has(list, z) <=> Has(own, b) /\ Has(own, z) /\ Newer(b, z))
  BY <1>7, <1>8, AfterIs
<1>10. part = Upto(list, u, l)  BY <1>4, <1>6, <1>8
<1>11. /\ part.txs \in Seq(TxType) /\ Len(part.txs) <= l
       /\ \A tx : Has(part.txs, tx) => Has(list, tx)
       /\ part.finished => Has(list, u) \/ Len(part.txs) = l
  BY <1>5, <1>9, <1>10, UptoIs
<1>12. R.confirmed \in Nat /\ R.finalized \in Nat  BY DEF MemoryInv, Levels, ReaderLevels
<1>13. Level(R) \in Nat /\ highest_slot(R) \in Int  BY <1>12 DEF Level, highest_slot
<1>14. p.after \in {NoTx, p.before}  BY <1>1, Zenon
<1>15. SignatureTypes(p)
  <2>1. p.got \in Seq(TxType) /\ Len(p.got) <= p.limit  BY <1>1, <1>4, <1>11
  <2> QED  BY <1>1, <1>3, <1>13, <1>14, <2>1, SignatureTypesKept
<1>16. KeptOK(p)  BY <1>1 DEF SignaturesOK, KeptOK
<1>17. p.stage \in {"result", "scan", "index"}  BY <1>1, Zenon
<1>18. ASSUME ~ p.ahead
       PROVE  /\ p.stage = "index" => AtIndex(p)
              /\ p.stage = "scan" => \E S \in Tops(p) : AtScan(p, S)
              /\ p.stage = "result" => \E S \in Tops(p) : Ended(p, S)
  <2>1. Level(R) \in CanList(R, req.commit)  BY <1>1, <1>18
  <2>2. PICK S, n : S = Level(R) /\ n = highest_slot(R)  OBVIOUS
  <2>3. /\ S \in Nat /\ n \in Int /\ n <= S
        /\ own = <<>> => n = S
        /\ own # <<>> => n = S - 1 /\ \A tx : Has(own, tx) <=> tx \in TxSet /\ tx[1] = S
        /\ \A tx \in TxSet : tx[1] <= n => tx[1] < NextOf(R)
    BY <1>6, <2>1, <2>2, OwnListIs
  <2>4. S = LevelAt(reader[r], req.commit)  BY <2>2 DEF Level, LevelAt
  <2>5. req.seen <= S
    <3>1. Attained(reader[r], req.commit, req.seen)  BY DEF SignaturesOK
    <3> QED  BY <2>4, <3>1 DEF Attained, Reaches, LevelAt
  <2>6. S \in Tops(p)  BY <1>1, <2>3, <2>5 DEF Tops
  <2>7. p.slot = n /\ reader[p.reader] = R /\ p.before = b /\ p.until = u /\ p.limit = l
    BY <1>1, <1>4, <2>2
  <2>8. \A tx \in TxSet : tx[1] \in Int /\ tx[1] > 0  BY TxsIs, TxIs
  <2>9. \A tx : Has(own, tx) <=> tx \in TxSet /\ tx[1] <= S /\ tx[1] > n
    <3>1. CASE own = <<>>  BY <2>3, <2>8, <3>1, HasNone
    <3>2. CASE own # <<>>  BY <2>3, <2>8, <3>2
    <3> QED  BY <3>1, <3>2
  <2>10. CASE b = NoTx \/ here
    <3>1. p.after = NoTx  BY <1>1, <1>4, <2>10
    <3>2. b # NoTx => Has(own, b) /\ b \in TxSet /\ b[1] <= S /\ b[1] > n /\ b[1] \in Int
      BY <1>4, <1>6, <2>8, <2>9, <2>10
    <3>3. \A tx : Has(list, tx) <=> Starts(p, S, tx) /\ tx[1] > n
      <4>1. CASE b = NoTx  BY <1>8, <2>7, <2>9, <4>1 DEF Starts
      <4>2. CASE b # NoTx
        <5>1. \A tx : Has(list, tx) <=> Has(own, tx) /\ Newer(b, tx)  BY <1>9, <3>2, <4>2
        <5>2. \A tx : Starts(p, S, tx) <=> tx \in TxSet /\ Newer(b, tx)  BY <2>7, <4>2 DEF Starts
        <5>3. \A tx \in TxSet : Newer(b, tx) => tx[1] <= S
          BY <2>3, <2>8, <3>2, <4>2 DEF Newer
        <5> QED  BY <2>9, <5>1, <5>2, <5>3
      <4> QED  BY <4>1, <4>2
    <3>4. Upto(list, p.until, p.limit) = part  BY <1>10, <2>7
    <3>5. p.got = Upto(list, p.until, p.limit).txs  BY <1>1, <3>4
    <3>6. /\ Listed(p, S)
          /\ ~ part.finished => Len(p.got) < p.limit /\ \A tx : Starts(p, S, tx) /\ tx[1] > n => Has(p.got, tx)
          /\ part.finished => Ended(p, S)
          /\ \A tx : Has(p.got, tx) => tx[1] > n
      <4>1. /\ Listed(p, S)
            /\ ~ Upto(list, p.until, p.limit).finished =>
                  Len(p.got) < p.limit /\ \A tx : Starts(p, S, tx) /\ tx[1] > n => Has(p.got, tx)
            /\ Upto(list, p.until, p.limit).finished => Ended(p, S)
            /\ \A tx : Has(p.got, tx) => tx[1] > n
        <5>1. S \in Nat /\ n \in Int  BY <2>3
        <5>2. list \in Seq(TxType) /\ InOrder(TRUE, list)  BY <1>9
        <5> QED  BY <1>3, <1>15, <5>1, <5>2, <3>3, <3>5, OwnGiven
      <4> QED  BY <3>4, <4>1
    <3>7. \A tx \in TxSet : tx[1] <= n => Starts(p, S, tx)
      <4>1. CASE b = NoTx  BY <2>3, <2>7, <2>8, <4>1 DEF Starts
      <4>2. CASE b # NoTx  BY <2>3, <2>7, <2>8, <3>2, <4>2 DEF Starts, Newer
      <4> QED  BY <4>1, <4>2
    <3>8. ASSUME ~ part.finished PROVE p.stage = "scan" /\ AtScan(p, S)
      <4>1. Ready(p, S)  BY <2>3, <2>7, <3>6, <3>8 DEF Ready
      <4>2. p.stage = "scan" /\ p.own = Len(p.got)  BY <1>1, <3>1, <3>8
      <4> QED  BY <2>7, <3>1, <3>6, <3>7, <3>8, <4>1, <4>2 DEF AtScan
    <3>9. ASSUME part.finished PROVE p.stage = "result"  BY <1>1, <3>9
    <3> QED  BY <2>6, <3>6, <3>8, <3>9
  <2>11. CASE b # NoTx /\ ~ here
    <3>1. ~ Has(own, b)  BY <1>4, <1>6, <2>11
    <3>2. \A tx : ~ Has(list, tx)  BY <1>9, <2>11, <3>1
    <3>3. part.txs = <<>> /\ Len(part.txs) = 0  BY <1>11, <3>2, HasNothing
    <3>4. ~ part.finished  BY <1>5, <1>11, <3>2, <3>3
    <3>5. p.after = b /\ p.stage = "index" /\ p.got = <<>> /\ p.own = 0
      BY <1>1, <1>4, <2>11, <3>3, <3>4
    <3>6. b \in TxSet /\ b[1] \in Int  BY <1>5, <2>8, <2>11
    <3>7. b[1] > n => b[1] > req.seen
      BY <1>5, <2>3, <2>5, <2>9, <3>1, <3>6
    <3>8. AtIndex(p)  BY <1>1, <2>3, <2>7, <3>5, <3>6, <3>7 DEF AtIndex
    <3> QED  BY <3>5, <3>8
  <2> QED  BY <2>10, <2>11
<1>19. /\ p.stage # "queued" /\ p.stage # "scanned" /\ p.stage # "done"  BY <1>17
<1> QED  BY <1>15, <1>16, <1>18, <1>19 DEF SignaturesOK

\* The slot of before is looked up.
LEMMA SignaturesIndexed ==
    ASSUME IndexInv, MemoryInv, SignatureTypes(req), SignaturesOK(req), read_tx_index, NEW p, p = req'
    PROVE  SignatureTypes(p) /\ SignaturesOK(p)
<1>1. /\ req.stage = "index" /\ DOMAIN req = SignatureFields /\ req = [f \in SignatureFields |-> req[f]]
      /\ req.kind = "getSignaturesForAddress"
  BY DEF read_tx_index, SignatureTypes, IsSignatures
<1>2. PICK out : out = (req.after[1] \notin indexed \/ req.after[1] > req.slot)  OBVIOUS
<1>3. /\ out => p = [req EXCEPT !.stage = "result", !.finished = req.after[1] \in indexed]
      /\ ~ out => p = [req EXCEPT !.stage = "scan", !.slot = req.after[1]]
  BY <1>2 DEF read_tx_index
<1>4. /\ DOMAIN p = SignatureFields /\ p = [f \in SignatureFields |-> p[f]]
      /\ p.kind = req.kind /\ p.commit = req.commit /\ p.before = req.before /\ p.until = req.until
      /\ p.limit = req.limit /\ p.kept = req.kept /\ p.seen = req.seen
      /\ p.asked = req.asked /\ p.restarted = req.restarted /\ p.ahead = req.ahead
      /\ p.got = req.got /\ p.own = req.own /\ p.after = req.after /\ p.reader = req.reader
      /\ p.slot = IF out THEN req.slot ELSE req.after[1]
      /\ p.stage = IF out THEN "result" ELSE "scan"
  BY <1>1, <1>3, ZenonT(40) DEF SignatureFields
<1>5. p.stage \in {"result", "scan"}  BY <1>4, Zenon
<1>6. IsSignatures(p) /\ SameSignatures(p, req)  BY <1>1, <1>4, <1>5 DEF IsSignatures, SameSignatures
<1>7. ~ p.asked /\ ~ p.restarted  BY <1>1, <1>4, Zenon DEF SignatureTypes
<1>8. KeptOK(p)  BY <1>4 DEF SignaturesOK, KeptOK
<1>9. /\ req.got \in Seq(TxType) /\ Len(req.got) <= req.limit /\ req.after \in {NoTx, req.before}
      /\ req.reader \in Readers /\ req.slot \in Int
      /\ req.seen \in Nat /\ req.limit \in Nat \ {0} /\ req.before \in TxSet \union {NoTx}
  BY <1>1 DEF SignatureTypes
<1>10. req.after[1] \in Int
  <2>1. NoTx[1] = 0  BY DEF NoTx
  <2>2. \A tx \in TxSet : tx[1] \in Int  BY TxsIs, TxIs
  <2> QED  BY <1>9, <2>1, <2>2
<1>11. SignatureTypes(p)
  <2>1. p.slot \in Int  BY <1>4, <1>9, <1>10
  <2> QED  BY <1>4, <1>6, <1>7, <1>9, <2>1, SignatureTypesKept
<1>12. ASSUME ~ p.ahead
       PROVE  /\ p.stage = "scan" => \E S \in Tops(p) : AtScan(p, S)
              /\ p.stage = "result" => \E S \in Tops(p) : Ended(p, S)
  <2>1. AtIndex(req)
    <3>1. ~ req.ahead /\ ~ req.restarted  BY <1>1, <1>4, <1>12, Zenon DEF SignatureTypes
    <3> QED  BY <1>1, <3>1 DEF SignaturesOK
  <2>2. PICK b, r : b = req.before /\ r = req.reader  OBVIOUS
  <2>3. /\ req.after = b /\ b \in TxSet /\ req.got = <<>> /\ req.own = 0 /\ r \in Readers
        /\ b[1] > req.slot => b[1] > req.seen
        /\ \A tx \in TxSet : tx[1] <= req.slot => tx[1] < NextOf(reader[r])
    BY <1>9, <2>1, <2>2 DEF AtIndex
  <2>4. PICK S \in Nat : S = req.seen  BY <1>9
  <2>5. S \in Tops(p)  BY <1>4, <2>4 DEF Tops
  <2>6. b # NoTx /\ b \in TxType /\ b[1] \in Int /\ b[1] \in LiveSlots  BY <2>3, TxsIs, TxIs, NoTxIs DEF TxType
  <2>7. \A tx \in TxSet : tx \in TxType /\ tx[1] \in Int  BY TxsIs, TxIs
  <2>8. Len(p.got) = 0 /\ p.got = <<>> /\ p.before = b /\ p.own = 0  BY <1>4, <2>2, <2>3
  <2>9. Listed(p, S)
    <3>1. InOrder(TRUE, p.got)  BY <2>8 DEF InOrder
    <3>2. p.got \in Seq(TxType) /\ p.limit \in Nat \ {0}  BY <1>4, <1>9
    <3>3. Len(p.got) <= p.limit  BY <2>8, <3>2
    <3>4. \A z : ~ Has(p.got, z)  BY <2>8, HasNone
    <3> QED  BY <3>1, <3>2, <3>3, <3>4 DEF Listed
  <2>10. CASE out
    <3>1. Gapless(p, S)  BY <2>8, HasNone DEF Gapless
    <3>2. EndsWell(p, S)
      <4> SUFFICES ASSUME NEW tx, Starts(p, S, tx), b[1] <= p.seen, StillThere(p, tx) PROVE FALSE
        BY <1>7, <2>8 DEF EndsWell
      <4>1. tx \in TxSet /\ Newer(b, tx) /\ tx[1] \in DOMAIN ring
        BY <2>6, <2>8 DEF Starts, StillThere
      <4>2. tx[1] <= b[1] /\ tx[1] \in Int  BY <2>6, <2>7, <4>1 DEF Newer
      <4>3. ~ (b[1] > req.slot)  BY <1>4, <1>9, <2>3, <2>6
      <4>4. b[1] \notin indexed  BY <1>2, <2>3, <2>10, <4>3
      <4>5. b[1] < next
        <5>1. PICK a : a = NextOf(reader[r])  OBVIOUS
        <5>2. a \in Nat /\ a <= next /\ next \in Int  BY <2>3, <5>1, NextOfIs DEF IndexInv, Progress
        <5>3. b[1] < a  BY <1>9, <2>3, <2>6, <4>3, <5>1
        <5> QED  BY <2>6, <5>2, <5>3
      <4> QED  BY <2>6, <4>1, <4>2, <4>4, <4>5, RingRows
    <3> QED  BY <1>4, <2>5, <2>9, <2>10, <3>1, <3>2 DEF Ended
  <2>11. CASE ~ out
    <3>1. p.slot = b[1] /\ b[1] <= req.slot /\ p.stage = "scan" /\ p.reader = r /\ p.after = b
      <4>1. ~ (b[1] > req.slot)  BY <1>2, <2>3, <2>11
      <4>2. b[1] <= req.slot  BY <1>9, <2>6, <4>1
      <4>3. p.reader = r /\ p.after = b  BY <1>4, <2>2, <2>3
      <4>4. p.slot = b[1] /\ p.stage = "scan"  BY <1>4, <2>3, <2>11
      <4> QED  BY <4>2, <4>3, <4>4
    <3>2. Ready(p, S)
      <4>1. \A tx : Starts(p, S, tx) => tx \in TxSet /\ Newer(b, tx)  BY <2>6, <2>8 DEF Starts
      <4>2. \A tx \in TxSet : Newer(b, tx) => ~ (tx[1] > b[1])  BY <2>6, <2>7 DEF Newer
      <4>3. ASSUME NEW tx \in TxSet, tx[1] <= b[1] PROVE tx[1] < NextOf(reader[r])
        <5>1. tx[1] <= req.slot  BY <1>9, <2>6, <2>7, <3>1, <4>3
        <5> QED  BY <2>3, <5>1
      <4> QED  BY <3>1, <4>1, <4>2, <4>3 DEF Ready
    <3>3. AtScan(p, S)  BY <1>4, <1>9, <2>6, <2>8, <2>9, <3>1, <3>2, HasNone DEF AtScan
    <3> QED  BY <2>5, <3>1, <3>3
  <2> QED  BY <2>10, <2>11
<1> QED  BY <1>5, <1>7, <1>8, <1>11, <1>12 DEF SignaturesOK

\* The fields of a scanned list.
ScannedFrom(p, q, list, x) ==
    /\ SameSignatures(p, q) /\ p.stage = "scanned" /\ p.after = NoTx
    /\ p.got = q.got \o x.txs /\ p.own = q.own /\ p.slot = q.slot /\ p.reader = q.reader
    /\ p.asked = q.asked /\ p.restarted = q.restarted /\ p.ahead = q.ahead
    /\ x = Upto(list, q.until, q.limit - Len(q.got))

LEMMA ScannedFromIs ==
    ASSUME SignatureTypes(req), SignaturesForAddress2, NEW p, p = req'
    PROVE  \E rows, list, x :
              /\ ScannedFrom(p, req, list, x) /\ req.stage = "scan"
              /\ rows \in Seq(TxType) /\ InOrder(TRUE, rows)
              /\ \A tx : Has(rows, tx) <=> tx \in TxSet /\ tx[1] \in indexed /\ tx[1] <= req.slot
              /\ list = IF req.after = NoTx THEN rows ELSE After(rows, req.after)
<1>1. PICK slots : slots = {s \in indexed : s <= req.slot}  OBVIOUS
<1>2. PICK rows : rows = InSlots(slots)  OBVIOUS
<1>3. PICK list : list = IF req.after = NoTx THEN rows ELSE After(rows, req.after)  OBVIOUS
<1>4. PICK x : x = Upto(list, req.until, req.limit - Len(req.got))  OBVIOUS
<1>5. rows = Rows(slots, TRUE)  BY <1>2 DEF Rows
<1>6. /\ rows \in Seq(TxType) /\ InOrder(TRUE, rows)
      /\ \A tx : Has(rows, tx) <=> tx \in TxSet /\ tx[1] \in slots
  BY <1>5, RowsIs
<1>7. p = [req EXCEPT !.stage = "scanned", !.after = NoTx,
                      !.got = req.got \o x.txs, !.finished = x.finished]
  BY <1>1, <1>2, <1>3, <1>4 DEF SignaturesForAddress2, spawn_signatires_for_address
<1>8. DOMAIN req = SignatureFields /\ req = [f \in SignatureFields |-> req[f]]
      /\ req.kind = "getSignaturesForAddress"
  BY DEF SignatureTypes, IsSignatures
<1>9. /\ DOMAIN p = SignatureFields /\ p = [f \in SignatureFields |-> p[f]]
      /\ p.kind = req.kind /\ p.commit = req.commit /\ p.before = req.before /\ p.until = req.until
      /\ p.limit = req.limit /\ p.kept = req.kept /\ p.seen = req.seen
      /\ p.asked = req.asked /\ p.restarted = req.restarted /\ p.ahead = req.ahead
      /\ p.got = req.got \o x.txs /\ p.own = req.own /\ p.after = NoTx /\ p.reader = req.reader
      /\ p.slot = req.slot /\ p.stage = "scanned"
  BY <1>7, <1>8 DEF SignatureFields
<1>10. IsSignatures(p)  BY <1>8, <1>9 DEF IsSignatures
<1>11. ScannedFrom(p, req, list, x)  BY <1>4, <1>9, <1>10 DEF ScannedFrom, SameSignatures
<1>12. req.stage = "scan"  BY DEF SignaturesForAddress2
<1>13. \A tx : Has(rows, tx) <=> tx \in TxSet /\ tx[1] \in indexed /\ tx[1] <= req.slot
  BY <1>1, <1>6
<1> QED  BY <1>3, <1>6, <1>11, <1>12, <1>13

\* A scan of the rows that are there.
LEMMA SignaturesScanned ==
    ASSUME IndexInv, MemoryInv, RowsOK, NEW q, SignatureTypes(q), SignaturesOK(q), q.stage = "scan",
           NEW p, NEW list, NEW x, ScannedFrom(p, q, list, x),
           NEW rows \in Seq(TxType), InOrder(TRUE, rows),
           \A tx : Has(rows, tx) <=> tx \in TxSet /\ tx[1] \in indexed /\ tx[1] <= q.slot,
           list = IF q.after = NoTx THEN rows ELSE After(rows, q.after)
    PROVE  SignatureTypes(p) /\ SignaturesOK(p)
<1>1. /\ SameSignatures(p, q) /\ IsSignatures(p)
      /\ p.commit = q.commit /\ p.before = q.before /\ p.until = q.until /\ p.limit = q.limit
      /\ p.kept = q.kept /\ p.seen = q.seen /\ p.stage = "scanned" /\ p.after = NoTx
      /\ p.own = q.own /\ p.slot = q.slot /\ p.reader = q.reader
  BY DEF ScannedFrom, SameSignatures
<1>2. p.asked = q.asked /\ p.restarted = q.restarted /\ p.ahead = q.ahead  BY DEF ScannedFrom
<1>3. ~ q.asked /\ ~ q.restarted /\ ~ p.asked /\ ~ p.restarted  BY <1>2, Zenon DEF SignatureTypes
<1>4. PICK b, u, l, n, r, g : /\ b = q.before /\ u = q.until /\ l = q.limit /\ n = q.slot
                              /\ r = q.reader /\ g = q.got
  OBVIOUS
<1>5. /\ b \in TxSet \union {NoTx} /\ u \in TxSet \union {NoTx} /\ l \in Nat \ {0} /\ n \in Int
      /\ r \in Readers /\ g \in Seq(TxType) /\ Len(g) <= l /\ Len(g) \in Nat
      /\ q.seen \in Nat /\ q.after \in {NoTx, b}
  BY <1>4 DEF SignatureTypes
<1>6. PICK room : room = l - Len(g)  OBVIOUS
<1>7. room \in Nat /\ x = Upto(list, u, room)  BY <1>4, <1>5, <1>6 DEF ScannedFrom
<1>8. list \in Seq(TxType) /\ InOrder(TRUE, list)  BY AfterIs
<1>9. /\ x.txs \in Seq(TxType) /\ InOrder(TRUE, x.txs) /\ Len(x.txs) <= room
      /\ \A tx : Has(x.txs, tx) => Has(list, tx) /\ tx # u
      /\ \A tx, z : Has(list, tx) /\ ~ Has(x.txs, tx) /\ Has(x.txs, z) => Newer(z, tx)
      /\ \A tx : Has(list, tx) /\ ~ Has(x.txs, tx) /\ Len(x.txs) < room =>
            Has(list, u) /\ (tx = u \/ Newer(u, tx))
  BY <1>7, <1>8, UptoIs
<1>10. PICK t : t = x.txs  OBVIOUS
<1>11. t \in Seq(TxType) /\ Len(t) <= room /\ Len(t) \in Nat /\ p.got = g \o t
  <2>1. p.got = q.got \o x.txs  BY DEF ScannedFrom
  <2>2. p.got = g \o t  BY <1>4, <1>10, <2>1
  <2>3. t \in Seq(TxType) /\ Len(t) <= room  BY <1>9, <1>10
  <2>4. Len(t) \in Nat  BY <2>3
  <2> QED  BY <2>2, <2>3, <2>4
<1>12. /\ p.got \in Seq(TxType) /\ Len(p.got) = Len(g) + Len(t) /\ Len(p.got) <= l
       /\ \A tx : Has(p.got, tx) <=> Has(g, tx) \/ Has(t, tx)
       /\ InOrder(TRUE, g) /\ InOrder(TRUE, t)
          /\ (\A y, z : Has(g, y) /\ Has(t, z) => Comes(TRUE, y, z)) => InOrder(TRUE, p.got)
  <2>1. /\ g \o t \in Seq(TxType) /\ Len(g \o t) = Len(g) + Len(t)
        /\ \A tx : Has(g \o t, tx) <=> Has(g, tx) \/ Has(t, tx)
        /\ InOrder(TRUE, g) /\ InOrder(TRUE, t)
           /\ (\A y, z : Has(g, y) /\ Has(t, z) => Comes(TRUE, y, z)) => InOrder(TRUE, g \o t)
    BY <1>5, <1>11, AppendOrder
  <2>2. PICK h, k, m : h = Len(g) /\ k = Len(t) /\ m = Len(g \o t)  OBVIOUS
  <2>3. m = h + k /\ h \in Nat /\ k \in Nat /\ h <= l /\ k <= room /\ room = l - h /\ l \in Nat
    BY <1>5, <1>6, <1>11, <2>1, <2>2
  <2>4. m <= l  BY <2>3
  <2>5. Len(g \o t) <= l  BY <2>2, <2>4
  <2> QED  BY <1>11, <2>1, <2>5
<1>13. SignatureTypes(p)
  <2>1. Len(p.got) <= p.limit  BY <1>1, <1>4, <1>12
  <2>2. p.reader \in Readers /\ p.slot \in Int  BY <1>1, <1>4, <1>5
  <2> QED  BY <1>1, <1>3, <1>12, <2>1, <2>2, SignatureTypesKept
<1>14. KeptOK(p)  BY <1>1 DEF SignaturesOK, KeptOK
<1>15. ASSUME ~ p.ahead PROVE \E S \in Tops(p) : Scanned(p, S)
  <2>1. PICK S \in Tops(q) : AtScan(q, S)
    <3>1. ~ q.ahead  BY <1>2, <1>15
    <3> QED  BY <1>3, <3>1 DEF SignaturesOK
  <2>2. S \in Tops(p) /\ S \in Nat  BY <1>1, <2>1 DEF Tops
  <2>3. \A tx : Starts(p, S, tx) <=> Starts(q, S, tx)  BY <1>1 DEF Starts
  <2>4. /\ InOrder(TRUE, g)
        /\ \A z : Has(g, z) => Starts(q, S, z) /\ z # u
        /\ \A tx : Starts(q, S, tx) /\ tx[1] > n => Has(g, tx)
        /\ \A tx \in TxSet : tx[1] <= n => tx[1] < NextOf(reader[r])
        /\ q.own = Len(g) /\ \A z : Has(g, z) => z[1] > n
        /\ q.after = NoTx => \A tx \in TxSet : tx[1] <= n => Starts(q, S, tx)
        /\ q.after # NoTx => q.after = b /\ g = <<>> /\ n = b[1]
    BY <1>4, <2>1 DEF AtScan, Listed, Ready
  <2>5. \A tx : Starts(q, S, tx) => tx \in TxSet /\ tx[1] \in Int /\ tx[1] \in LiveSlots
    BY TxsIs, TxIs DEF Starts, TxType
  <2>6. \A tx \in TxSet : tx[1] <= n => tx[1] < next
    <3> SUFFICES ASSUME NEW tx \in TxSet, tx[1] <= n PROVE tx[1] < next  OBVIOUS
    <3>1. PICK a : a = NextOf(reader[r])  OBVIOUS
    <3>2. a \in Nat /\ a <= next /\ next \in Int  BY <1>5, <3>1, NextOfIs DEF IndexInv, Progress
    <3>3. tx[1] < a /\ tx[1] \in Int  BY <2>4, <3>1, TxsIs, TxIs
    <3> QED  BY <3>2, <3>3
  <2>7. PICK found : found = (q.after = NoTx \/ Has(rows, b))  OBVIOUS
  <2>8. \A tx : Has(list, tx) <=> found /\ Starts(q, S, tx) /\ tx[1] <= n /\ tx[1] \in indexed
    <3>1. CASE q.after = NoTx
      <4>1. found /\ list = rows  BY <2>7, <3>1
      <4> QED  BY <1>4, <2>4, <2>5, <3>1, <4>1
    <3>2. CASE q.after # NoTx
      <4>1. b # NoTx /\ list = After(rows, b) /\ (found <=> Has(rows, b))
        <5>1. q.after = b  BY <2>4, <3>2
        <5>2. found <=> Has(rows, b)  BY <2>7, <3>2
        <5>3. list = After(rows, q.after)  BY <3>2
        <5>4. list = After(rows, b)  BY <5>1, <5>3
        <5>5. b # NoTx  BY <3>2, <5>1
        <5> QED  BY <5>2, <5>4, <5>5
      <4>5. \A tx : Has(After(rows, b), tx) <=> Has(rows, b) /\ Has(rows, tx) /\ Newer(b, tx)  BY AfterIs
      <4>2. \A tx : Has(list, tx) <=> Has(rows, b) /\ Has(rows, tx) /\ Newer(b, tx)  BY <4>1, <4>5
      <4>3. \A tx : Starts(q, S, tx) <=> tx \in TxSet /\ Newer(b, tx)  BY <1>4, <4>1 DEF Starts
      <4> QED  BY <1>4, <4>1, <4>2, <4>3
    <3> QED  BY <3>1, <3>2
  <2>9. \A z : Has(t, z) => Has(list, z) /\ z # u /\ Starts(q, S, z) /\ z[1] <= n  BY <1>9, <1>10, <2>8
  <2>10. Listed(p, S)
    <3>1. \A y, z : Has(g, y) /\ Has(t, z) => Comes(TRUE, y, z)
      <4> SUFFICES ASSUME NEW y, NEW z, Has(g, y), Has(t, z) PROVE Newer(y, z)  BY DEF Comes
      <4>1. y[1] > n /\ z[1] <= n /\ y[1] \in Int /\ z[1] \in Int  BY <2>4, <2>5, <2>9
      <4> QED  BY <1>5, <4>1 DEF Newer
    <3>2. InOrder(TRUE, p.got)  BY <1>9, <1>10, <1>12, <2>4, <3>1
    <3>3. \A z : Has(p.got, z) => Starts(p, S, z) /\ z # p.until  BY <1>1, <1>4, <1>12, <2>3, <2>4, <2>9
    <3>4. Len(p.got) <= p.limit  BY <1>1, <1>4, <1>12
    <3> QED  BY <1>12, <3>2, <3>3, <3>4 DEF Listed
  <2>11. Ready(p, S)
    <3>1. \A tx : Starts(p, S, tx) /\ tx[1] > p.slot => Has(p.got, tx)  BY <1>1, <1>4, <1>12, <2>3, <2>4
    <3> QED  BY <1>1, <1>4, <2>4, <3>1 DEF Ready
  <2>12. ASSUME NEW i \in DOMAIN p.got PROVE i <= p.own <=> p.got[i][1] > p.slot
    <3>1. PICK h \in Nat, k \in Nat : h = Len(g) /\ k = Len(t)  BY <1>5, <1>11
    <3>2. i \in 1 .. (h + k) /\ p.own = h /\ p.slot = n /\ DOMAIN g = 1 .. h /\ DOMAIN t = 1 .. k
      BY <1>1, <1>4, <1>5, <1>11, <1>12, <2>4, <2>12, <3>1
    <3>3. CASE i <= h
      <4>1. i \in DOMAIN g /\ p.got[i] = g[i]  BY <1>5, <1>11, <3>1, <3>2, <3>3
      <4>2. Has(g, p.got[i])  BY <4>1 DEF Has
      <4> QED  BY <2>4, <3>2, <3>3, <4>2
    <3>4. CASE ~ (i <= h)
      <4>1. i - h \in DOMAIN t /\ p.got[i] = t[i - h]  BY <1>5, <1>11, <3>1, <3>2, <3>4
      <4>2. Has(t, p.got[i])  BY <4>1 DEF Has
      <4>3. p.got[i][1] <= n /\ p.got[i][1] \in Int  BY <2>5, <2>9, <4>2
      <4> QED  BY <1>5, <3>2, <3>4, <4>3
    <3> QED  BY <3>3, <3>4
  <2>13. EndsWell(p, S)
    <3> SUFFICES ASSUME NEW tx, Starts(q, S, tx), ~ Has(p.got, tx), Len(p.got) < l, StillThere(p, tx)
                 PROVE  tx = u \/ (Starts(q, S, u) /\ Newer(u, tx))
      BY <1>1, <1>3, <1>4, <2>3 DEF EndsWell
    <3>1. tx[1] <= n /\ tx[1] \in Int /\ tx[1] \in LiveSlots /\ tx \in TxSet
      BY <1>5, <1>12, <2>4, <2>5
    <3>2. tx[1] \in DOMAIN ring  BY DEF StillThere
    <3>3. \A s \in LiveSlots : tx[1] <= s /\ s < next => s \in indexed  BY <3>2, RingRows
    <3>4. tx[1] \in indexed
      <4>1. tx[1] <= tx[1] /\ tx[1] < next  BY <2>6, <3>1
      <4> QED  BY <3>1, <3>3, <4>1
    <3>5. found
      <4> SUFFICES ASSUME q.after # NoTx PROVE Has(rows, b)  BY <2>7
      <4>1. b \in TxSet /\ n = b[1] /\ b[1] \in Int /\ b[1] \in LiveSlots  BY <1>5, <2>4, TxsIs, TxIs DEF TxType
      <4>2. b[1] <= n /\ b[1] < next  BY <2>6, <4>1
      <4>3. b[1] \in indexed  BY <3>1, <3>3, <4>1, <4>2
      <4> QED  BY <1>4, <4>1, <4>2, <4>3
    <3>6. Has(list, tx)  BY <2>8, <3>1, <3>4, <3>5
    <3>7. Len(t) < room  BY <1>5, <1>6, <1>11, <1>12
    <3>8. ~ Has(t, tx)  BY <1>12
    <3>9. Has(list, u) /\ (tx = u \/ Newer(u, tx))  BY <1>9, <1>10, <3>6, <3>7, <3>8
    <3> QED  BY <2>8, <3>9
  <2>14. ASSUME NEW tx, NEW z, Starts(q, S, tx), ~ Has(p.got, tx), Has(p.got, z)
         PROVE  Newer(z, tx) \/ (Out(r, z[1]) /\ ~ StillThere(p, tx))
    <3>1. tx[1] <= n /\ tx[1] \in Int /\ tx[1] \in LiveSlots /\ tx \in TxSet
      BY <1>5, <1>12, <2>4, <2>5, <2>14
    <3>2. CASE Has(g, z)
      <4>1. z[1] > n /\ z[1] \in Int  BY <2>4, <2>5, <3>2
      <4> QED  BY <1>5, <3>1, <4>1 DEF Newer
    <3>3. CASE Has(t, z)
      <4>1. found /\ z[1] \in indexed /\ z[1] \in Int /\ z[1] \in LiveSlots  BY <2>5, <2>8, <2>9, <3>3
      <4>2. CASE tx[1] \in indexed
        <5>1. Has(list, tx) /\ ~ Has(t, tx)  BY <1>12, <2>8, <2>14, <3>1, <4>1, <4>2
        <5> QED  BY <1>9, <1>10, <3>3, <5>1
      <4>3. CASE tx[1] \notin indexed /\ z[1] > tx[1]  BY <4>3 DEF Newer
      <4>4. CASE tx[1] \notin indexed /\ z[1] < tx[1]
        <5>1. tx[1] < next  BY <2>6, <3>1
        <5>2. Out(r, z[1]) /\ tx[1] \notin DOMAIN ring  BY <1>5, <3>1, <4>1, <4>4, <5>1, BelowHole
        <5> QED  BY <5>2 DEF StillThere
      <4>5. tx[1] \notin indexed => z[1] # tx[1]  BY <4>1
      <4>6. z[1] > tx[1] \/ z[1] < tx[1] \/ z[1] = tx[1]  BY <3>1, <4>1
      <4> QED  BY <4>2, <4>3, <4>4, <4>5, <4>6
    <3> QED  BY <1>12, <2>14, <3>2, <3>3
  <2>15. \A tx, z : Starts(p, S, tx) /\ ~ Has(p.got, tx) /\ Has(p.got, z) =>
            Newer(z, tx) \/ (Out(p.reader, z[1]) /\ ~ StillThere(p, tx))
    <3>1. p.reader = r  BY <1>1, <1>4
    <3> QED  BY <2>3, <2>14, <3>1
  <2>16. Scanned(p, S)  BY <2>10, <2>11, <2>12, <2>13, <2>15 DEF Scanned
  <2> QED  BY <2>2, <2>16
<1> QED  BY <1>1, <1>13, <1>14, <1>15 DEF SignaturesOK

\* The fields of a list whose block times are looked up.
TimedFrom(p, q, R) ==
    /\ SameSignatures(p, q) /\ p.stage = "result"
    /\ p.got = Part(q.got, TimedAt(q, R)) /\ p.slot = q.slot /\ p.reader = q.reader /\ p.after = q.after
    /\ p.asked = q.asked /\ p.restarted = q.restarted /\ p.ahead = q.ahead

LEMMA TimedFromIs ==
    ASSUME SignatureTypes(req), NEW R, NEW p, p = AddBlockTimes(R)
    PROVE  TimedFrom(p, req, R)
<1>1. AddBlockTimes(R) =
        [req EXCEPT !.stage = "result", !.got = Part(req.got, TimedAt(req, R)),
                    !.finished = req.finished /\ TimedAt(req, R) = DOMAIN req.got]
  BY DEF AddBlockTimes, TimedAt
<1>2. PICK got, fin : got = Part(req.got, TimedAt(req, R))
                      /\ fin = (req.finished /\ TimedAt(req, R) = DOMAIN req.got)
  OBVIOUS
<1>3. p = [req EXCEPT !.stage = "result", !.got = got, !.finished = fin]  BY <1>1, <1>2
<1>4. DOMAIN req = SignatureFields /\ req = [f \in SignatureFields |-> req[f]]
      /\ req.kind = "getSignaturesForAddress"
  BY DEF SignatureTypes, IsSignatures
<1>5. /\ DOMAIN p = SignatureFields /\ p = [f \in SignatureFields |-> p[f]]
      /\ p.kind = req.kind /\ p.commit = req.commit /\ p.before = req.before /\ p.until = req.until
      /\ p.limit = req.limit /\ p.kept = req.kept /\ p.seen = req.seen
      /\ p.asked = req.asked /\ p.restarted = req.restarted /\ p.ahead = req.ahead
      /\ p.got = got /\ p.after = req.after /\ p.reader = req.reader
      /\ p.slot = req.slot /\ p.stage = "result"
  BY <1>3, <1>4 DEF SignatureFields
<1>6. IsSignatures(p)  BY <1>4, <1>5 DEF IsSignatures
<1> QED  BY <1>2, <1>5, <1>6 DEF TimedFrom, SameSignatures

\* A shorter list lacks one of the positions.
LEMMA PartShorter ==
    ASSUME NEW list \in Seq(TxType), NEW at, at \subseteq DOMAIN list
    PROVE  /\ Len(Part(list, at)) <= Len(list)
           /\ Len(Part(list, at)) < Len(list) => \E i \in DOMAIN list : i \notin at
<1>1. /\ Len(Part(list, at)) = Cardinality(at) /\ Cardinality(at) \in Nat
      /\ Cardinality(at) <= Len(list)
  BY PartIs
<1>2. PICK n \in Nat : n = Len(list) /\ DOMAIN list = 1 .. n  OBVIOUS
<1>3. Cardinality(1 .. n) = n  BY FS_Interval
<1>4. ASSUME \A i \in DOMAIN list : i \in at PROVE Cardinality(at) = n
  <2>1. at = 1 .. n  BY <1>2, <1>4
  <2> QED  BY <1>3, <2>1
<1> QED  BY <1>1, <1>2, <1>4

\* What was pruned since the scan is dropped from the end of the list.
LEMMA SignaturesTimed ==
    ASSUME IndexInv, MemoryInv, NEW q, SignatureTypes(q), SignaturesOK(q), q.stage = "scanned",
           NEW r \in Readers, r = q.reader, NEW R, R = reader[r], NEW p, TimedFrom(p, q, R)
    PROVE  SignatureTypes(p) /\ SignaturesOK(p)
<1>1. /\ SameSignatures(p, q) /\ IsSignatures(p)
      /\ p.commit = q.commit /\ p.before = q.before /\ p.until = q.until /\ p.limit = q.limit
      /\ p.kept = q.kept /\ p.seen = q.seen /\ p.stage = "result" /\ p.after = q.after
      /\ p.got = Part(q.got, TimedAt(q, R)) /\ p.slot = q.slot /\ p.reader = q.reader
  BY DEF TimedFrom, SameSignatures
<1>2. p.asked = q.asked /\ p.restarted = q.restarted /\ p.ahead = q.ahead  BY DEF TimedFrom
<1>3. ~ q.asked /\ ~ q.restarted /\ ~ p.asked /\ ~ p.restarted  BY <1>2, Zenon DEF SignatureTypes
<1>4. PICK u, l, n, g, at : /\ u = q.until /\ l = q.limit /\ n = q.slot /\ g = q.got
                            /\ at = TimedAt(q, R)
  OBVIOUS
<1>5. l \in Nat \ {0} /\ n \in Int /\ g \in Seq(TxType) /\ Len(g) <= l /\ Len(g) \in Nat
      /\ q.after \in {NoTx, q.before}
  BY <1>4 DEF SignatureTypes
<1>6. \A i : i \in at <=> i \in DOMAIN g /\ (i <= q.own \/ get_block_location(R.ring, g[i][1]) = "found")
  BY <1>4 DEF TimedAt
<1>7. p.got = Part(g, at) /\ at \subseteq DOMAIN g  BY <1>1, <1>4, <1>6
<1>8. /\ p.got \in Seq(TxType) /\ (InOrder(TRUE, g) => InOrder(TRUE, p.got))
      /\ \A tx : Has(p.got, tx) <=> \E i \in at : g[i] = tx
  <2>1. /\ Part(g, at) \in Seq(TxType) /\ (InOrder(TRUE, g) => InOrder(TRUE, Part(g, at)))
        /\ \A tx : Has(Part(g, at), tx) <=> \E i \in at : g[i] = tx
    BY <1>5, <1>7, PartOrder
  <2> QED  BY <1>7, <2>1
<1>9. Len(p.got) <= Len(g) /\ (Len(p.got) < Len(g) => \E i \in DOMAIN g : i \notin at) /\ Len(p.got) \in Nat
  <2>1. /\ Len(Part(g, at)) <= Len(g) /\ (Len(Part(g, at)) < Len(g) => \E i \in DOMAIN g : i \notin at)
    BY <1>5, <1>7, PartShorter
  <2>2. Len(p.got) \in Nat  BY <1>8
  <2> QED  BY <1>7, <2>1, <2>2
<1>10. Len(p.got) <= l
  <2>1. PICK h, k : h = Len(g) /\ k = Len(p.got)  OBVIOUS
  <2>2. h \in Nat /\ k \in Nat /\ k <= h /\ h <= l /\ l \in Nat  BY <1>5, <1>9, <2>1
  <2> QED  BY <2>1, <2>2
<1>11. SignatureTypes(p)  BY <1>1, <1>3, <1>4, <1>5, <1>8, <1>10, SignatureTypesKept
<1>12. KeptOK(p) /\ KeptOK(q)  BY <1>1 DEF SignaturesOK, KeptOK
<1>13. ASSUME ~ p.ahead PROVE \E S \in Tops(p) : Ended(p, S)
  <2>1. PICK S \in Tops(q) : Scanned(q, S)
    <3>1. ~ q.ahead  BY <1>2, <1>13
    <3> QED  BY <1>3, <3>1 DEF SignaturesOK
  <2>2. S \in Tops(p) /\ S \in Nat  BY <1>1, <2>1 DEF Tops
  <2>3. \A tx : Starts(p, S, tx) <=> Starts(q, S, tx)  BY <1>1 DEF Starts
  <2>4. \A tx : StillThere(p, tx) <=> StillThere(q, tx)  BY <1>1 DEF StillThere
  <2>5. /\ InOrder(TRUE, g)
        /\ \A z : Has(g, z) => Starts(q, S, z) /\ z # u
        /\ \A tx : Starts(q, S, tx) /\ tx[1] > n => Has(g, tx)
        /\ \A tx \in TxSet : tx[1] <= n => tx[1] < NextOf(R)
        /\ \A i \in DOMAIN g : i <= q.own <=> g[i][1] > n
        /\ \A tx, z : Starts(q, S, tx) /\ ~ Has(g, tx) /\ Has(g, z) =>
              Newer(z, tx) \/ (Out(r, z[1]) /\ ~ StillThere(q, tx))
        /\ EndsWell(q, S)
    BY <1>4, <2>1 DEF Scanned, Listed, Ready
  <2>6. \A tx : Starts(q, S, tx) => tx \in TxSet /\ tx[1] \in Nat /\ tx[1] \in LiveSlots /\ tx[1] \in Slots
    BY TxsIs, TxIs DEF Starts, TxType
  <2>7. View(R.ring, R.inproc)  BY ReaderView DEF MemoryInv
  <2>8. DOMAIN R.ring \subseteq Int  BY <2>7 DEF View, IsRows, Slots
  <2>9. \A tx : Has(g, tx) => Starts(q, S, tx) /\ \E i \in DOMAIN g : g[i] = tx  BY <2>5 DEF Has
  <2>10. \A i \in DOMAIN g : i \in at <=> g[i][1] > n \/ g[i][1] \in DOMAIN R.ring
    <3> SUFFICES ASSUME NEW i \in DOMAIN g
                 PROVE  i \in at <=> g[i][1] > n \/ g[i][1] \in DOMAIN R.ring
      OBVIOUS
    <3>1. Has(g, g[i])  BY DEF Has
    <3>2. g[i][1] \in Slots /\ g[i][1] \notin Skipped  BY <2>5, <2>6, <3>1 DEF LiveSlots
    <3>3. get_block_location(R.ring, g[i][1]) = "found" <=> g[i][1] \in DOMAIN R.ring
      BY <2>7, <3>2, LocationIs
    <3> QED  BY <1>6, <2>5, <3>3
  <2>11. \A tx : Has(p.got, tx) <=> Has(g, tx) /\ (tx[1] > n \/ tx[1] \in DOMAIN R.ring)
    <3> SUFFICES ASSUME NEW tx
                 PROVE  Has(p.got, tx) <=> Has(g, tx) /\ (tx[1] > n \/ tx[1] \in DOMAIN R.ring)
      OBVIOUS
    <3>1. Has(p.got, tx) <=> \E i \in at : g[i] = tx  BY <1>8
    <3>2. Has(g, tx) <=> \E i \in DOMAIN g : g[i] = tx  BY DEF Has
    <3> QED  BY <1>7, <2>10, <3>1, <3>2
  <2>12. ASSUME NEW tx, Starts(q, S, tx), ~ (tx[1] > n), tx[1] \notin DOMAIN R.ring
         PROVE  \A t \in DOMAIN R.ring : tx[1] < t
    <3>1. tx \in TxSet /\ tx[1] \in Nat /\ tx[1] <= n  BY <1>5, <2>6, <2>12
    <3>2. tx[1] < NextOf(R)  BY <2>5, <3>1
    <3>3. \A s \in Nat : s < NextOf(R) => s \in DOMAIN R.ring \/ \A t \in DOMAIN R.ring : s < t
      BY NextOfIs
    <3> QED  BY <2>12, <3>1, <3>2, <3>3
  <2>13. Listed(p, S)
    <3>1. \A z : Has(p.got, z) => Starts(p, S, z) /\ z # p.until  BY <1>1, <1>4, <2>3, <2>5, <2>11
    <3>2. Len(p.got) <= p.limit  BY <1>1, <1>4, <1>10
    <3> QED  BY <1>8, <2>5, <3>1, <3>2 DEF Listed
  <2>14. ASSUME NEW tx, NEW z, Starts(q, S, tx), ~ Has(p.got, tx), Has(p.got, z) PROVE Newer(z, tx)
    <3>1. Starts(q, S, z) /\ Has(g, z) /\ (z[1] > n \/ z[1] \in DOMAIN R.ring)  BY <2>5, <2>11, <2>14
    <3>2. z[1] \in Int /\ tx[1] \in Int  BY <2>6, <2>14, <3>1
    <3>3. ~ (tx[1] > n)  BY <2>5, <2>11, <2>14
    <3>4. CASE Has(g, tx)
      <4>1. tx[1] \notin DOMAIN R.ring  BY <2>11, <2>14, <3>4
      <4>2. \A t \in DOMAIN R.ring : tx[1] < t  BY <2>12, <2>14, <3>3, <4>1
      <4>3. z[1] > tx[1]  BY <1>5, <3>1, <3>2, <3>3, <4>2
      <4> QED  BY <4>3 DEF Newer
    <3>5. CASE ~ Has(g, tx)
      <4> SUFFICES ASSUME Out(r, z[1]) PROVE Newer(z, tx)  BY <2>5, <2>14, <3>1, <3>5
      <4>1. z[1] \notin DOMAIN R.ring  BY DEF Out
      <4>2. z[1] > tx[1]  BY <1>5, <3>1, <3>2, <3>3, <4>1
      <4> QED  BY <4>2 DEF Newer
    <3> QED  BY <3>4, <3>5
  <2>15. Gapless(p, S)  BY <2>3, <2>14 DEF Gapless
  <2>16. EndsWell(p, S)
    <3> SUFFICES ASSUME NEW tx, Starts(q, S, tx), ~ Has(p.got, tx), Len(p.got) < l,
                        q.before[1] <= q.seen, StillThere(q, tx)
                 PROVE  tx = u \/ (Starts(q, S, u) /\ Newer(u, tx))
      BY <1>1, <1>3, <1>4, <2>3, <2>4 DEF EndsWell
    <3>1. tx[1] \in DOMAIN ring /\ tx \in q.kept  BY DEF StillThere
    <3>2. tx[1] \in DOMAIN R.ring
      <4>1. DOMAIN ring \subseteq Slots  BY DEF IndexInv, StoreInv, Types, IsRows
      <4>2. Reached(tx[1])  BY <3>1, <4>1, LowestIn DEF Reached
      <4> QED  BY <1>12, <3>1, <4>2 DEF KeptOK, Lost
    <3>3. ~ Has(g, tx)  BY <2>11, <3>2
    <3>4. Len(g) < l
      <4> SUFFICES ASSUME ~ (Len(g) < l) PROVE FALSE  OBVIOUS
      <4>1. PICK h, k : h = Len(g) /\ k = Len(p.got)  OBVIOUS
      <4>2. h \in Nat /\ k \in Nat /\ h <= l /\ l \in Nat /\ k < l /\ ~ (h < l)  BY <1>5, <1>9, <4>1
      <4>3. k < h  BY <4>2
      <4>4. PICK i \in DOMAIN g : i \notin at  BY <1>9, <4>1, <4>3
      <4>5. Has(g, g[i])  BY DEF Has
      <4>6. ~ (g[i][1] > n) /\ g[i][1] \notin DOMAIN R.ring  BY <2>10, <4>4
      <4>7. Starts(q, S, g[i])  BY <2>5, <4>5
      <4>8. g[i][1] < tx[1] /\ g[i][1] \in Int /\ tx[1] \in Int  BY <2>6, <2>12, <3>2, <4>6, <4>7
      <4>9. Newer(g[i], tx)  BY <2>5, <3>3, <4>5
      <4> QED  BY <4>8, <4>9 DEF Newer
    <3> QED  BY <1>4, <2>5, <3>3, <3>4 DEF EndsWell
  <2> QED  BY <2>2, <2>13, <2>15, <2>16 DEF Ended
<1> QED  BY <1>1, <1>11, <1>12, <1>13 DEF SignaturesOK

\* The fields of an answer, and what an upstream added.
AnsweredFrom(p, q, more) ==
    /\ SameSignatures(p, q) /\ p.stage = "done" /\ p.got = q.got \o more
    /\ p.after = q.after /\ p.ahead = q.ahead

\* What an upstream is asked to begin after, and the list it has.
UpstreamList(q, from, tip, list) ==
    /\ from = IF q.got # <<>> THEN LastOf(q.got) ELSE q.after
    /\ list = IF from = NoTx THEN InSlots(1 .. tip) ELSE After(Txs, from)

LEMMA AnsweredIs ==
    ASSUME SignatureTypes(req), answer_address, NEW p, p = req'
    PROVE  \/ p = [req EXCEPT !.stage = "done"]
           \/ \E from, list : \E tip \in req.seen .. MaxSlot :
                 /\ UpstreamList(req, from, tip, list)
                 /\ AnsweredFrom(p, req, Upto(list, req.until, req.limit - Len(req.got)).txs)
                 /\ p.restarted = (req.before # NoTx /\ from = NoTx)
<1>1. DOMAIN req = SignatureFields /\ req = [f \in SignatureFields |-> req[f]]
      /\ req.kind = "getSignaturesForAddress"
  BY DEF SignatureTypes, IsSignatures
<1>2. p \in RpcRequestSignaturesForAddress  BY <1>1 DEF answer_address
<1> SUFFICES ASSUME p # [req EXCEPT !.stage = "done"]
             PROVE  \E from, list : \E tip \in req.seen .. MaxSlot :
                       /\ UpstreamList(req, from, tip, list)
                       /\ AnsweredFrom(p, req, Upto(list, req.until, req.limit - Len(req.got)).txs)
                       /\ p.restarted = (req.before # NoTx /\ from = NoTx)
  OBVIOUS
<1>3. PICK from, room : from = UpstreamBefore /\ room = req.limit - Len(req.got)  OBVIOUS
<1>4. PICK more \in get_signatures_for_address(from, room) :
         p = [req EXCEPT !.stage = "done", !.got = req.got \o more, !.asked = TRUE,
                         !.restarted = req.before # NoTx /\ from = NoTx]
  BY <1>2, <1>3, Zenon DEF RpcRequestSignaturesForAddress
<1>5. PICK tip \in req.seen .. MaxSlot :
         more = Upto(IF from = NoTx THEN InSlots(1 .. tip) ELSE After(Txs, from), req.until, room).txs
  BY <1>4 DEF get_signatures_for_address
<1>6. PICK list : list = IF from = NoTx THEN InSlots(1 .. tip) ELSE After(Txs, from)  OBVIOUS
<1>7. UpstreamList(req, from, tip, list)  BY <1>3, <1>6 DEF UpstreamList, UpstreamBefore
<1>8. PICK got, restarted : got = req.got \o more /\ restarted = (req.before # NoTx /\ from = NoTx)  OBVIOUS
<1>9. p = [req EXCEPT !.stage = "done", !.got = got, !.asked = TRUE, !.restarted = restarted]
  BY <1>4, <1>8
<1>10. /\ DOMAIN p = SignatureFields /\ p = [f \in SignatureFields |-> p[f]]
       /\ p.kind = req.kind /\ p.commit = req.commit /\ p.before = req.before /\ p.until = req.until
       /\ p.limit = req.limit /\ p.kept = req.kept /\ p.seen = req.seen
       /\ p.ahead = req.ahead /\ p.got = got /\ p.after = req.after /\ p.restarted = restarted
       /\ p.stage = "done"
  BY <1>1, <1>9 DEF SignatureFields
<1>11. IsSignatures(p)  BY <1>1, <1>10 DEF IsSignatures
<1>12. AnsweredFrom(p, req, more)  BY <1>8, <1>10, <1>11 DEF AnsweredFrom, SameSignatures
<1>13. more = Upto(list, req.until, req.limit - Len(req.got)).txs  BY <1>3, <1>5, <1>6
<1>14. p.restarted = (req.before # NoTx /\ from = NoTx)  BY <1>8, <1>10
<1>15. AnsweredFrom(p, req, Upto(list, req.until, req.limit - Len(req.got)).txs)  BY <1>12, <1>13
<1> QED  BY <1>7, <1>14, <1>15

\* An upstream goes on where the list ended.
LEMMA UpstreamListIs ==
    ASSUME NEW q, SignatureTypes(q), NEW S \in Tops(q), Ended(q, S), NEW from, NEW tip \in q.seen .. MaxSlot,
           NEW list, UpstreamList(q, from, tip, list), ~ (q.before # NoTx /\ from = NoTx)
    PROVE  \E T \in Tops(q) :
              /\ \A z : Has(list, z) <=> Starts(q, T, z) /\ ~ Has(q.got, z)
              /\ \A z : Has(q.got, z) => Starts(q, T, z) /\ z # q.until
              /\ Gapless(q, T)
<1>1. PICK b, g : b = q.before /\ g = q.got  OBVIOUS
<1>2. /\ b \in TxSet \union {NoTx} /\ g \in Seq(TxType) /\ q.after \in {NoTx, b} /\ q.seen \in Nat
  BY <1>1 DEF SignatureTypes
<1>3. InOrder(TRUE, g) /\ (\A z : Has(g, z) => Starts(q, S, z) /\ z # q.until) /\ Gapless(q, S)
  BY <1>1 DEF Ended, Listed
<1>4. /\ Txs \in Seq(TxType) /\ InOrder(TRUE, Txs) /\ TxSet \subseteq TxType
      /\ \A tx : tx \in TxSet <=> Has(Txs, tx)
  BY TxsIs
<1>5. ASSUME from # NoTx
      PROVE  \A z : Has(list, z) <=> from \in TxSet /\ z \in TxSet /\ Newer(from, z)
  <2>1. list = After(Txs, from)  BY <1>5 DEF UpstreamList
  <2>2. \A z : Has(After(Txs, from), z) <=> Has(Txs, from) /\ Has(Txs, z) /\ Newer(from, z)  BY <1>4, AfterIs
  <2> QED  BY <1>4, <2>1, <2>2
<1>6. CASE g # <<>>
  <2>1. from = LastOf(g)  BY <1>1, <1>6 DEF UpstreamList
  <2>2. /\ Has(g, from) /\ from \in TxType
        /\ \A tx : Has(g, tx) => tx = from \/ Comes(TRUE, tx, from)
    BY <1>2, <1>3, <1>6, <2>1, LastOrder
  <2>3. from # NoTx /\ from \in TxSet /\ Starts(q, S, from)  BY <1>3, <2>2, NoTxIs DEF Starts
  <2>4. S \in Int  BY DEF Tops
  <2>5. ASSUME NEW z PROVE Has(list, z) <=> Starts(q, S, z) /\ ~ Has(g, z)
    <3>1. Has(list, z) <=> z \in TxSet /\ Newer(from, z)  BY <1>5, <2>3
    <3>2. ASSUME z \in TxSet, Newer(from, z) PROVE Starts(q, S, z) /\ ~ Has(g, z)
      <4>1. Starts(q, S, z)  BY <1>1, <1>2, <2>3, <2>4, <3>2, StartsDown
      <4>2. z \in TxType  BY <1>4, <3>2
      <4>3. ~ Comes(TRUE, z, from) /\ z # from  BY <2>2, <3>2, <4>2, ComesIs DEF Comes
      <4> QED  BY <2>2, <4>1, <4>3
    <3>3. ASSUME Starts(q, S, z), ~ Has(g, z) PROVE z \in TxSet /\ Newer(from, z)
      <4>1. z \in TxSet  BY <3>3 DEF Starts
      <4> QED  BY <1>1, <1>3, <2>2, <3>3, <4>1 DEF Gapless
    <3> QED  BY <3>1, <3>2, <3>3
  <2> QED  BY <1>1, <1>3, <2>5
<1>7. CASE g = <<>>
  <2>1. from = q.after  BY <1>1, <1>7 DEF UpstreamList
  <2>2. \A z : ~ Has(g, z)  BY <1>7, HasNone
  <2>3. \A T : Gapless(q, T)  BY <1>1, <2>2 DEF Gapless
  <2>4. CASE b # NoTx
    <3>1. from # NoTx  BY <1>1, <2>4
    <3>2. from = b  BY <1>2, <2>1, <3>1
    <3>3. b \in TxSet  BY <1>2, <2>4
    <3>4. \A z : Has(list, z) <=> z \in TxSet /\ Newer(b, z)  BY <1>5, <3>1, <3>2, <3>3
    <3>5. \A z : Starts(q, S, z) <=> z \in TxSet /\ Newer(b, z)  BY <1>1, <2>4 DEF Starts
    <3> QED  BY <1>1, <2>2, <2>3, <3>4, <3>5
  <2>5. CASE b = NoTx
    <3>1. from = NoTx  BY <1>2, <2>1, <2>5
    <3>2. list = InSlots(1 .. tip)  BY <3>1 DEF UpstreamList
    <3>3. list = Rows(1 .. tip, TRUE)  BY <3>2 DEF Rows
    <3>4. \A z : Has(Rows(1 .. tip, TRUE), z) <=> z \in TxSet /\ z[1] \in 1 .. tip  BY RowsIs
    <3>5. \A z : Has(list, z) <=> z \in TxSet /\ z[1] \in 1 .. tip  BY <3>3, <3>4
    <3>6. MaxSlot \in Int /\ tip \in Nat /\ q.seen <= tip  BY <1>2, BlockStoreAssumption
    <3>7. \A z \in TxSet : z[1] \in Nat /\ z[1] > 0  BY TxsIs, TxIs
    <3>8. \A z : Starts(q, tip, z) <=> z \in TxSet /\ z[1] <= tip  BY <1>1, <2>5 DEF Starts
    <3>9. \A z : Has(list, z) <=> Starts(q, tip, z)  BY <3>5, <3>6, <3>7, <3>8
    <3>10. tip \in Tops(q)  BY <3>6 DEF Tops
    <3> QED  BY <1>1, <2>2, <2>3, <3>9, <3>10
  <2> QED  BY <2>4, <2>5
<1> QED  BY <1>6, <1>7

\* The answer, with or without an upstream.
LEMMA SignaturesAnswered ==
    ASSUME SignatureTypes(req), SignaturesOK(req), answer_address, NEW p, p = req'
    PROVE  SignatureTypes(p) /\ SignaturesOK(p)
<1>1. req.stage = "result" /\ KeptOK(req)  BY DEF answer_address, SignaturesOK
<1>2. ~ req.asked /\ ~ req.restarted  BY <1>1 DEF SignatureTypes
<1>3. CASE p = [req EXCEPT !.stage = "done"]
  <2>1. DOMAIN req = SignatureFields /\ req = [f \in SignatureFields |-> req[f]]
        /\ req.kind = "getSignaturesForAddress"
    BY DEF SignatureTypes, IsSignatures
  <2>2. /\ DOMAIN p = SignatureFields /\ p = [f \in SignatureFields |-> p[f]]
        /\ p.kind = req.kind /\ p.commit = req.commit /\ p.before = req.before /\ p.until = req.until
        /\ p.limit = req.limit /\ p.kept = req.kept /\ p.seen = req.seen
        /\ p.asked = req.asked /\ p.restarted = req.restarted
        /\ p.ahead = req.ahead /\ p.got = req.got /\ p.after = req.after /\ p.stage = "done"
    BY <1>3, <2>1 DEF SignatureFields
  <2>3. IsSignatures(p) /\ SameSignatures(p, req)  BY <2>1, <2>2 DEF IsSignatures, SameSignatures
  <2>4. SignatureTypes(p)
    <3>1. p.got \in Seq(TxType) /\ Len(p.got) <= p.limit /\ p.after \in {NoTx, p.before}
      BY <2>2 DEF SignatureTypes
    <3> QED  BY <2>2, <2>3, <3>1, SignatureTypesKept
  <2>5. KeptOK(p)  BY <1>1, <2>2 DEF KeptOK
  <2>6. ASSUME ~ p.ahead PROVE \E S \in Tops(p) : Ended(p, S)
    <3>1. ~ req.ahead  BY <2>2, <2>6
    <3>2. PICK S \in Tops(req) : Ended(req, S)  BY <1>1, <1>2, <3>1 DEF SignaturesOK
    <3>3. S \in Tops(p)  BY <2>2, <3>2 DEF Tops
    <3>4. \A tx : Starts(p, S, tx) <=> Starts(req, S, tx)  BY <2>2 DEF Starts
    <3>5. \A tx : StillThere(p, tx) <=> StillThere(req, tx)  BY <2>2 DEF StillThere
    <3>6. Listed(p, S)  BY <2>2, <3>2, <3>4 DEF Ended, Listed
    <3>7. Gapless(p, S)  BY <2>2, <3>2, <3>4 DEF Ended, Gapless
    <3>8. EndsWell(p, S)  BY <2>2, <3>2, <3>4, <3>5 DEF Ended, EndsWell
    <3> QED  BY <3>3, <3>6, <3>7, <3>8 DEF Ended
  <2> QED  BY <2>2, <2>4, <2>5, <2>6 DEF SignaturesOK
<1>4. CASE p # [req EXCEPT !.stage = "done"]
  <2>1. PICK from, list : \E tip \in req.seen .. MaxSlot :
           /\ UpstreamList(req, from, tip, list)
           /\ AnsweredFrom(p, req, Upto(list, req.until, req.limit - Len(req.got)).txs)
           /\ p.restarted = (req.before # NoTx /\ from = NoTx)
    BY <1>4, AnsweredIs
  <2>2. PICK tip \in req.seen .. MaxSlot :
           /\ UpstreamList(req, from, tip, list)
           /\ AnsweredFrom(p, req, Upto(list, req.until, req.limit - Len(req.got)).txs)
           /\ p.restarted = (req.before # NoTx /\ from = NoTx)
    BY <2>1
  <2>3. PICK u, l, g, room : u = req.until /\ l = req.limit /\ g = req.got /\ room = l - Len(g)  OBVIOUS
  <2>4. l \in Nat \ {0} /\ g \in Seq(TxType) /\ Len(g) <= l /\ Len(g) \in Nat /\ req.after \in {NoTx, req.before}
    BY <2>3 DEF SignatureTypes
  <2>5. PICK x : x = Upto(list, u, room)  OBVIOUS
  <2>6. room \in Nat  BY <2>3, <2>4
  <2>7. list \in Seq(TxType) /\ InOrder(TRUE, list)
    <3>1. CASE from = NoTx
      <4>1. list = Rows(1 .. tip, TRUE)  BY <2>2, <3>1 DEF UpstreamList, Rows
      <4> QED  BY <4>1, RowsIs
    <3>2. CASE from # NoTx
      <4>1. list = After(Txs, from)  BY <2>2, <3>2 DEF UpstreamList
      <4> QED  BY <4>1, TxsIs, AfterIs
    <3> QED  BY <3>1, <3>2
  <2>8. /\ x.txs \in Seq(TxType) /\ InOrder(TRUE, x.txs) /\ Len(x.txs) <= room
        /\ \A tx : Has(x.txs, tx) => Has(list, tx) /\ tx # u
        /\ \A tx, z : Has(list, tx) /\ ~ Has(x.txs, tx) /\ Has(x.txs, z) => Newer(z, tx)
        /\ \A tx : Has(list, tx) /\ ~ Has(x.txs, tx) /\ Len(x.txs) < room =>
              Has(list, u) /\ (tx = u \/ Newer(u, tx))
    BY <2>5, <2>6, <2>7, UptoIs
  <2>9. PICK t : t = x.txs  OBVIOUS
  <2>10. AnsweredFrom(p, req, t)  BY <2>2, <2>3, <2>5, <2>9
  <2>11. /\ SameSignatures(p, req) /\ IsSignatures(p)
         /\ p.commit = req.commit /\ p.before = req.before /\ p.until = req.until /\ p.limit = req.limit
         /\ p.kept = req.kept /\ p.seen = req.seen /\ p.stage = "done" /\ p.after = req.after
         /\ p.got = g \o t /\ p.ahead = req.ahead
    BY <2>3, <2>10 DEF AnsweredFrom, SameSignatures
  <2>12. t \in Seq(TxType) /\ Len(t) <= room /\ Len(t) \in Nat
    <3>1. t \in Seq(TxType) /\ Len(t) <= room  BY <2>8, <2>9
    <3>2. Len(t) \in Nat  BY <3>1
    <3> QED  BY <3>1, <3>2
  <2>13. /\ p.got \in Seq(TxType) /\ Len(p.got) = Len(g) + Len(t)
         /\ \A tx : Has(p.got, tx) <=> Has(g, tx) \/ Has(t, tx)
         /\ InOrder(TRUE, g) /\ InOrder(TRUE, t)
            /\ (\A y, z : Has(g, y) /\ Has(t, z) => Comes(TRUE, y, z)) => InOrder(TRUE, p.got)
    <3>1. /\ g \o t \in Seq(TxType) /\ Len(g \o t) = Len(g) + Len(t)
          /\ \A tx : Has(g \o t, tx) <=> Has(g, tx) \/ Has(t, tx)
          /\ InOrder(TRUE, g) /\ InOrder(TRUE, t)
             /\ (\A y, z : Has(g, y) /\ Has(t, z) => Comes(TRUE, y, z)) => InOrder(TRUE, g \o t)
      BY <2>4, <2>12, AppendOrder
    <3>2. p.got = g \o t  BY <2>11
    <3> QED  BY <3>1, <3>2
  <2>14. Len(p.got) <= l /\ (Len(p.got) < l => Len(t) < room)
    <3>1. PICK h, k, m : h = Len(g) /\ k = Len(t) /\ m = Len(p.got)  OBVIOUS
    <3>2. m = h + k /\ h \in Nat /\ k \in Nat /\ h <= l /\ k <= room /\ room = l - h /\ l \in Nat
      BY <2>3, <2>4, <2>12, <2>13, <3>1
    <3>3. m <= l /\ (m < l => k < room)  BY <3>2
    <3> QED  BY <3>1, <3>3
  <2>15. SignatureTypes(p)
    <3>1. Len(p.got) <= p.limit /\ p.after \in {NoTx, p.before}  BY <2>3, <2>4, <2>11, <2>14
    <3> QED  BY <2>11, <2>13, <3>1, SignatureTypesKept
  <2>16. KeptOK(p)  BY <1>1, <2>11 DEF KeptOK
  <2>17. ASSUME ~ p.ahead, ~ p.restarted PROVE \E S \in Tops(p) : Ended(p, S)
    <3>1. ~ req.ahead /\ ~ (req.before # NoTx /\ from = NoTx)  BY <2>2, <2>11, <2>17
    <3>2. PICK S0 \in Tops(req) : Ended(req, S0)  BY <1>1, <1>2, <3>1 DEF SignaturesOK
    <3>3. PICK S \in Tops(req) :
             /\ \A z : Has(list, z) <=> Starts(req, S, z) /\ ~ Has(req.got, z)
             /\ \A z : Has(req.got, z) => Starts(req, S, z) /\ z # req.until
             /\ Gapless(req, S)
      BY <2>2, <3>1, <3>2, UpstreamListIs
    <3>4. /\ \A z : Has(list, z) <=> Starts(req, S, z) /\ ~ Has(g, z)
          /\ \A z : Has(g, z) => Starts(req, S, z) /\ z # u
          /\ \A tx, z : Starts(req, S, tx) /\ ~ Has(g, tx) /\ Has(g, z) => Newer(z, tx)
      BY <2>3, <3>3 DEF Gapless
    <3>5. InOrder(TRUE, g)  BY <2>3, <3>2 DEF Ended, Listed
    <3>6. S \in Tops(p)  BY <2>11, <3>3 DEF Tops
    <3>7. \A tx : Starts(p, S, tx) <=> Starts(req, S, tx)  BY <2>11 DEF Starts
    <3>8. \A z : Has(t, z) => Starts(req, S, z) /\ ~ Has(g, z) /\ z # u  BY <2>8, <2>9, <3>4
    <3>9. Listed(p, S)
      <4>1. \A y, z : Has(g, y) /\ Has(t, z) => Comes(TRUE, y, z)  BY <3>4, <3>8 DEF Comes
      <4>2. InOrder(TRUE, p.got)  BY <2>8, <2>9, <2>13, <3>5, <4>1
      <4>3. \A z : Has(p.got, z) => Starts(p, S, z) /\ z # p.until  BY <2>3, <2>11, <2>13, <3>4, <3>7, <3>8
      <4>4. Len(p.got) <= p.limit  BY <2>3, <2>11, <2>14
      <4> QED  BY <2>13, <4>2, <4>3, <4>4 DEF Listed
    <3>10. \A tx : Starts(p, S, tx) /\ ~ Has(p.got, tx) => Has(list, tx) /\ ~ Has(t, tx) /\ ~ Has(g, tx)
                                                         /\ Starts(req, S, tx)
      BY <2>13, <3>4, <3>7
    <3>11. Gapless(p, S)
      <4> SUFFICES ASSUME NEW tx, NEW z, Starts(p, S, tx), ~ Has(p.got, tx), Has(p.got, z)
                   PROVE  Newer(z, tx)
        BY DEF Gapless
      <4>1. CASE Has(g, z)  BY <3>4, <3>10, <4>1
      <4>2. CASE Has(t, z)  BY <2>8, <2>9, <3>10, <4>2
      <4> QED  BY <2>13, <4>1, <4>2
    <3>12. EndsWell(p, S)
      <4> SUFFICES ASSUME NEW tx, Starts(p, S, tx), ~ Has(p.got, tx), Len(p.got) < l
                   PROVE  tx = u \/ (Starts(p, S, u) /\ Newer(u, tx))
        BY <2>3, <2>11 DEF EndsWell
      <4>1. Has(list, u) /\ (tx = u \/ Newer(u, tx))  BY <2>8, <2>9, <2>14, <3>10
      <4> QED  BY <3>4, <3>7, <4>1
    <3> QED  BY <3>6, <3>9, <3>11, <3>12 DEF Ended
  <2> QED  BY <2>11, <2>15, <2>16, <2>17 DEF SignaturesOK
<1> QED  BY <1>3, <1>4

-----------------------------------------------------------------------------
(***************************************************************************)
(* Positions in the address's list.                                        *)
(***************************************************************************)
LEMMA AtIs ==
    /\ \A i \in DOMAIN Txs : Txs[i] \in TxSet /\ At(Txs[i]) = i
    /\ \A tx \in TxSet : At(tx) \in DOMAIN Txs /\ Txs[At(tx)] = tx
    /\ \A x, y \in TxSet : Newer(x, y) <=> At(x) < At(y)
    /\ DOMAIN Txs = 1 .. Len(Txs) /\ Len(Txs) \in Nat
<1>1. Txs \in Seq(TxType) /\ InOrder(TRUE, Txs) /\ \A tx : tx \in TxSet <=> Has(Txs, tx)  BY TxsIs
<1>2. DOMAIN Txs = 1 .. Len(Txs) /\ Len(Txs) \in Nat  BY <1>1
<1>3. \A tx \in TxSet : At(tx) \in DOMAIN Txs /\ Txs[At(tx)] = tx  BY <1>1, PositionIs DEF At
<1>4. \A x \in TxSet : x \in TxType  BY TxsIs
<1>5. \A i, j \in DOMAIN Txs : i < j => Newer(Txs[i], Txs[j])  BY <1>1 DEF InOrder, Comes
<1>6. \A x, y \in TxSet : Newer(x, y) => ~ Newer(y, x) /\ x # y  BY <1>4, ComesIs DEF Comes
<1>7. \A i, j \in DOMAIN Txs : i < j \/ j < i \/ i = j  BY <1>2
<1>8. ASSUME NEW x \in TxSet, NEW y \in TxSet PROVE Newer(x, y) <=> At(x) < At(y)
  <2>1. PICK i \in DOMAIN Txs : i = At(x) /\ Txs[i] = x  BY <1>3
  <2>2. PICK j \in DOMAIN Txs : j = At(y) /\ Txs[j] = y  BY <1>3
  <2>3. i < j => Newer(x, y)  BY <1>5, <2>1, <2>2
  <2>4. j < i => Newer(y, x)  BY <1>5, <2>1, <2>2
  <2>5. i = j => x = y  BY <2>1, <2>2
  <2> QED  BY <1>6, <1>7, <2>1, <2>2, <2>3, <2>4, <2>5
<1>9. ASSUME NEW i \in DOMAIN Txs PROVE Txs[i] \in TxSet /\ At(Txs[i]) = i
  <2>1. Txs[i] \in TxSet  BY DEF TxSet
  <2>2. PICK j \in DOMAIN Txs : j = At(Txs[i]) /\ Txs[j] = Txs[i]  BY <1>3, <2>1
  <2>3. ~ Newer(Txs[i], Txs[i])  BY <1>6, <2>1
  <2>4. ~ (i < j) /\ ~ (j < i)  BY <1>5, <2>2, <2>3
  <2> QED  BY <1>7, <2>1, <2>2, <2>4
<1> QED  BY <1>2, <1>3, <1>8, <1>9

\* No transaction is between two that follow each other.
LEMMA NextTo ==
    ASSUME NEW x \in TxSet, NEW y \in TxSet, Newer(x, y), ~ \E z \in TxSet : Newer(x, z) /\ Newer(z, y)
    PROVE  At(y) = At(x) + 1
<1>1. PICK i \in DOMAIN Txs, j \in DOMAIN Txs : i = At(x) /\ j = At(y)  BY AtIs
<1>2. PICK n \in Nat : DOMAIN Txs = 1 .. n  BY AtIs, Zenon
<1>3. i < j /\ i \in 1 .. n /\ j \in 1 .. n  BY <1>1, <1>2, AtIs
<1>4. ASSUME j # i + 1 PROVE FALSE
  <2>1. i + 1 \in DOMAIN Txs /\ i < i + 1 /\ i + 1 < j  BY <1>2, <1>3, <1>4
  <2>2. PICK z : z = Txs[i + 1]  OBVIOUS
  <2>3. z \in TxSet /\ At(z) = i + 1  BY <2>1, <2>2, AtIs
  <2>4. Newer(x, z) /\ Newer(z, y)  BY <1>1, <2>1, <2>3, AtIs
  <2> QED  BY <2>3, <2>4
<1> QED  BY <1>1, <1>4

\* What ends well is a piece of the address's list.
LEMMA EndedExact ==
    ASSUME SignatureTypes(req), NEW S \in Tops(req), Ended(req, S)
    PROVE  SignaturesExact
<1>1. PICK b, u, l, g : b = req.before /\ u = req.until /\ l = req.limit /\ g = req.got  OBVIOUS
<1>2. /\ b \in TxSet \union {NoTx} /\ l \in Nat \ {0} /\ g \in Seq(TxType) /\ req.seen \in Nat
      /\ S \in Nat /\ S \in Int /\ req.seen <= S
  BY <1>1 DEF SignatureTypes, Tops
<1>3. /\ InOrder(TRUE, g) /\ Len(g) <= l
      /\ \A z : Has(g, z) => Starts(req, S, z) /\ z # u
      /\ \A tx, z : Starts(req, S, tx) /\ ~ Has(g, tx) /\ Has(g, z) => Newer(z, tx)
      /\ EndsWell(req, S)
  BY <1>1 DEF Ended, Listed, Gapless
<1>4. /\ \A tx : Starts(req, S, tx) => tx \in TxSet
      /\ b # NoTx => \A tx : Starts(req, S, tx) <=> tx \in TxSet /\ Newer(b, tx)
      /\ b = NoTx => \A tx : Starts(req, S, tx) <=> tx \in TxSet /\ tx[1] <= S
  BY <1>1 DEF Starts
<1>5. \A x, y \in TxSet : Newer(x, y) => ~ Newer(y, x) /\ x # y  BY TxsIs, ComesIs DEF Comes
<1>6. \A tx \in TxSet : tx[1] \in Int  BY TxsIs, TxIs
<1>7. \A x, y : Starts(req, S, x) /\ y \in TxSet /\ Newer(x, y) => Starts(req, S, y)
  BY <1>1, <1>2, StartsDown
<1>8. PICK n \in Nat : n = Len(g) /\ DOMAIN g = 1 .. n  BY <1>2
<1>9. \A i \in DOMAIN g : Has(g, g[i]) /\ Starts(req, S, g[i]) /\ g[i] \in TxSet /\ g[i] # u
  <2>1. \A i \in DOMAIN g : Has(g, g[i])  BY DEF Has
  <2> QED  BY <1>3, <1>4, <2>1
<1>10. \A i, j \in DOMAIN g : i < j => Newer(g[i], g[j])  BY <1>3 DEF InOrder, Comes
<1>11. ASSUME NEW i \in DOMAIN g, NEW tx, Starts(req, S, tx), Newer(tx, g[i])
       PROVE  \E j \in DOMAIN g : j < i /\ g[j] = tx
  <2>1. tx \in TxSet /\ ~ Newer(g[i], tx) /\ tx # g[i]  BY <1>4, <1>5, <1>9, <1>11
  <2>2. Has(g, tx)  BY <1>3, <1>9, <1>11, <2>1
  <2>3. PICK j \in DOMAIN g : g[j] = tx  BY <2>2 DEF Has
  <2>4. ~ (i < j) /\ i # j  BY <1>10, <2>1, <2>3
  <2> QED  BY <1>8, <2>3, <2>4
<1>12. ASSUME NEW i \in 2 .. Len(g) PROVE At(g[i]) = At(g[i - 1]) + 1
  <2>1. i \in DOMAIN g /\ i - 1 \in DOMAIN g /\ i - 1 < i /\ i \in Int  BY <1>8, <1>12
  <2>2. PICK x, y : x = g[i - 1] /\ y = g[i]  OBVIOUS
  <2>3. x \in TxSet /\ y \in TxSet /\ Newer(x, y) /\ Starts(req, S, x)  BY <1>9, <1>10, <2>1, <2>2
  <2>4. ASSUME NEW z \in TxSet, Newer(x, z), Newer(z, y) PROVE FALSE
    <3>1. Starts(req, S, z)  BY <1>7, <2>3, <2>4
    <3>2. PICK j \in DOMAIN g : j < i /\ g[j] = z  BY <1>11, <2>1, <2>2, <2>4, <3>1
    <3>3. j < i - 1 \/ j = i - 1  BY <1>8, <2>1, <3>2
    <3>4. Newer(z, x) \/ z = x  BY <1>10, <2>1, <2>2, <3>2, <3>3
    <3> QED  BY <1>5, <2>3, <2>4, <3>4
  <2> QED  BY <2>2, <2>3, <2>4, NextTo
<1>13. ASSUME g # <<>> PROVE IF b # NoTx THEN At(g[1]) = At(b) + 1
                             ELSE \A i \in 1 .. At(g[1]) - 1 : Txs[i][1] > req.seen
  <2>1. 1 \in DOMAIN g
    <3>1. n # 0  BY <1>2, <1>8, <1>13
    <3> QED  BY <1>8, <3>1
  <2>2. PICK x : x = g[1]  OBVIOUS
  <2>3. x \in TxSet /\ Starts(req, S, x)  BY <1>9, <2>1, <2>2
  <2>4. ASSUME NEW z, Starts(req, S, z), Newer(z, x) PROVE FALSE
    <3>1. PICK j \in DOMAIN g : j < 1  BY <1>11, <2>1, <2>2, <2>4
    <3> QED  BY <1>8, <3>1
  <2>5. CASE b # NoTx
    <3>1. b \in TxSet /\ Newer(b, x)  BY <1>2, <1>4, <2>3, <2>5
    <3>2. ~ \E z \in TxSet : Newer(b, z) /\ Newer(z, x)  BY <1>4, <2>4, <2>5
    <3>3. At(x) = At(b) + 1  BY <2>3, <3>1, <3>2, NextTo
    <3> QED  BY <2>2, <2>5, <3>3
  <2>6. CASE b = NoTx
    <3>1. ASSUME NEW i \in 1 .. At(x) - 1 PROVE Txs[i][1] > req.seen
      <4>1. PICK k \in DOMAIN Txs : k = At(x)  BY <2>3, AtIs
      <4>2. PICK m \in Nat : DOMAIN Txs = 1 .. m  BY AtIs, Zenon
      <4>3. i \in DOMAIN Txs /\ i < k  BY <3>1, <4>1, <4>2
      <4>4. PICK z : z = Txs[i]  OBVIOUS
      <4>5. z \in TxSet /\ At(z) = i  BY <4>3, <4>4, AtIs
      <4>6. Newer(z, x)  BY <2>3, <4>1, <4>3, <4>5, AtIs
      <4>7. ~ (z[1] <= S)  BY <1>4, <2>4, <2>6, <4>5, <4>6
      <4>8. z[1] > req.seen  BY <1>2, <1>6, <4>5, <4>7
      <4> QED  BY <4>4, <4>8
    <3> QED  BY <2>2, <2>6, <3>1
  <2> QED  BY <2>5, <2>6
<1>14. ASSUME NEW k, k = (IF g # <<>> THEN At(LastOf(g)) + 1 ELSE IF b # NoTx THEN At(b) + 1 ELSE 1),
              Len(g) < l, k \in DOMAIN Txs
       PROVE  \/ Txs[k] = u
              \/ Txs[k][1] > req.seen \/ b[1] > req.seen
              \/ ~ req.asked /\ (Txs[k] \notin req.kept \/ Txs[k][1] \notin DOMAIN ring)
  <2> SUFFICES ASSUME Txs[k] # u, ~ (Txs[k][1] > req.seen), ~ (b[1] > req.seen),
                      req.asked \/ (Txs[k] \in req.kept /\ Txs[k][1] \in DOMAIN ring)
               PROVE  FALSE
    OBVIOUS
  <2>1. PICK x : x = Txs[k]  OBVIOUS
  <2>2. x \in TxSet /\ At(x) = k /\ k \in Int
    <3>1. PICK m \in Nat : DOMAIN Txs = 1 .. m  BY AtIs, Zenon
    <3>2. k \in Int  BY <1>14, <3>1
    <3> QED  BY <1>14, <2>1, <3>2, AtIs
  <2>3. x[1] <= req.seen /\ x[1] <= S  BY <1>2, <1>6, <2>1, <2>2
  <2>4. b[1] <= req.seen
    <3>1. NoTx[1] = 0  BY DEF NoTx
    <3>2. b[1] \in Int  BY <1>2, <1>6, <3>1
    <3> QED  BY <1>2, <3>2
  <2>5. req.asked \/ StillThere(req, x)  BY <2>1 DEF StillThere
  <2>6. ASSUME Starts(req, S, x), ~ Has(g, x) PROVE Starts(req, S, u) /\ Newer(u, x)
    <3>1. Len(req.got) < req.limit /\ ~ Has(req.got, x) /\ req.before[1] <= req.seen
      BY <1>1, <1>14, <2>4, <2>6
    <3>2. x = req.until \/ (Starts(req, S, req.until) /\ Newer(req.until, x))
      BY <1>3, <2>5, <2>6, <3>1 DEF EndsWell
    <3> QED  BY <1>1, <2>1, <3>2
  <2>7. ASSUME NEW y \in TxSet, At(y) + 1 = k
        PROVE  Newer(y, x) /\ \A z \in TxSet : ~ (Newer(y, z) /\ Newer(z, x))
    <3>1. PICK m \in Nat : DOMAIN Txs = 1 .. m  BY AtIs, Zenon
    <3>2. PICK i \in 1 .. m : i = At(y)  BY <3>1, AtIs
    <3>3. i < k  BY <2>2, <2>7, <3>2
    <3>4. Newer(y, x)  BY <2>2, <3>2, <3>3, AtIs
    <3>5. ASSUME NEW z \in TxSet, Newer(y, z), Newer(z, x) PROVE FALSE
      <4>1. PICK j \in 1 .. m : j = At(z)  BY <3>1, AtIs
      <4>2. i < j /\ j < k  BY <2>2, <3>2, <3>5, <4>1, AtIs
      <4> QED  BY <2>2, <2>7, <3>2, <4>1, <4>2
    <3> QED  BY <3>4, <3>5
  <2>8. CASE g # <<>>
    <3>1. PICK y : y = LastOf(g)  OBVIOUS
    <3>2. Has(g, y) /\ \A tx : Has(g, tx) => tx = y \/ Comes(TRUE, tx, y)
      BY <1>2, <1>3, <2>8, <3>1, LastOrder
    <3>3. y \in TxSet /\ Starts(req, S, y) /\ At(y) + 1 = k  BY <1>3, <1>4, <1>14, <2>8, <3>1, <3>2
    <3>4. Newer(y, x)  BY <2>7, <3>3
    <3>5. Starts(req, S, x)  BY <1>7, <2>2, <3>3, <3>4
    <3>6. ~ Has(g, x)  BY <1>5, <2>2, <3>2, <3>3, <3>4 DEF Comes
    <3>7. Starts(req, S, u) /\ Newer(u, x) /\ u \in TxSet  BY <1>4, <2>6, <3>5, <3>6
    <3>8. ~ Has(g, u)  BY <1>3
    <3>9. Newer(y, u)  BY <1>3, <3>2, <3>7, <3>8
    <3> QED  BY <2>7, <3>3, <3>7, <3>9
  <2>9. CASE g = <<>> /\ b # NoTx
    <3>1. b \in TxSet /\ At(b) + 1 = k  BY <1>2, <1>14, <2>9
    <3>2. Newer(b, x)  BY <2>7, <3>1
    <3>3. Starts(req, S, x) /\ ~ Has(g, x)  BY <1>4, <2>2, <2>9, <3>2, HasNone
    <3>4. Newer(b, u) /\ Newer(u, x) /\ u \in TxSet  BY <1>4, <2>6, <2>9, <3>3
    <3> QED  BY <2>7, <3>1, <3>4
  <2>10. CASE g = <<>> /\ b = NoTx
    <3>1. k = 1  BY <1>14, <2>10
    <3>2. Starts(req, S, x) /\ ~ Has(g, x)  BY <1>4, <2>2, <2>3, <2>10, HasNone
    <3>3. Newer(u, x) /\ u \in TxSet  BY <1>4, <2>6, <3>2
    <3>4. PICK m \in Nat : DOMAIN Txs = 1 .. m  BY AtIs, Zenon
    <3>5. PICK j \in 1 .. m : j = At(u)  BY <3>3, <3>4, AtIs
    <3>6. j < 1  BY <2>2, <3>1, <3>3, <3>5, AtIs
    <3> QED  BY <3>5, <3>6
  <2> QED  BY <2>8, <2>9, <2>10
<1>15. \A i \in 2 .. Len(req.got) : At(req.got[i]) = At(req.got[i - 1]) + 1  BY <1>1, <1>12
<1>16. \A i \in DOMAIN req.got : req.got[i] # req.until  BY <1>1, <1>9
<1>17. req.got # <<>> => IF req.before # NoTx THEN At(req.got[1]) = At(req.before) + 1
                         ELSE \A i \in 1 .. At(req.got[1]) - 1 : Txs[i][1] > req.seen
  BY <1>1, <1>13
<1>18. Len(req.got) <= req.limit  BY <1>1, <1>3
<1>19. PICK k : k = (IF req.got # <<>> THEN At(LastOf(req.got)) + 1
                     ELSE IF req.before # NoTx THEN At(req.before) + 1 ELSE 1)
  OBVIOUS
<1>20. Len(req.got) < req.limit /\ k \in DOMAIN Txs =>
          \/ Txs[k] = req.until
          \/ Txs[k][1] > req.seen \/ req.before[1] > req.seen
          \/ ~ req.asked /\ (Txs[k] \notin req.kept \/ Txs[k][1] \notin DOMAIN ring)
  BY <1>1, <1>14, <1>19
<1> QED  BY <1>15, <1>16, <1>17, <1>18, <1>19, <1>20 DEF SignaturesExact

-----------------------------------------------------------------------------
(***************************************************************************)
(* Every step.                                                             *)
(***************************************************************************)
LEMMA SignaturesSame ==
    ASSUME UNCHANGED <<writer, inbox, reader, stored>>, NEW p, SignaturesOK(p)
    PROVE  SignaturesOK(p)'
<1>1. /\ ring' = ring /\ next' = next /\ next_back_slot' = next_back_slot /\ op' = op /\ reader' = reader
      /\ inbox' = inbox
  BY DEF writer
<1>2. KeptOK(p)'  BY <1>1 DEF SignaturesOK, KeptOK, Lost, Known, Reached
<1>3. \A r, s : Out(r, s)' <=> Out(r, s)  BY <1>1 DEF Out, Known, Pushes
<1>4. \A tx : StillThere(p, tx)' <=> StillThere(p, tx)  BY <1>1 DEF StillThere
<1>5. AtIndex(p) => AtIndex(p)'  BY <1>1 DEF AtIndex, NextOf
<1>6. \A S : Ready(p, S) => Ready(p, S)'  BY <1>1 DEF Ready, NextOf, Starts
<1>7. \A S : Listed(p, S) => Listed(p, S)'  BY DEF Listed, Starts
<1>8. \A S : AtScan(p, S) => AtScan(p, S)'  BY <1>6, <1>7 DEF AtScan, Starts
<1>9. \A S : EndsWell(p, S) => EndsWell(p, S)'  BY <1>4 DEF EndsWell, Starts
<1>10. \A S : Scanned(p, S) => Scanned(p, S)'  BY <1>3, <1>4, <1>6, <1>7, <1>9 DEF Scanned, Starts
<1>11. \A S : Ended(p, S) => Ended(p, S)'  BY <1>7, <1>9 DEF Ended, Gapless, Starts
<1> QED  BY <1>1, <1>2, <1>5, <1>8, <1>10, <1>11 DEF SignaturesOK, Tops

LEMMA SignaturesNext ==
    ASSUME IndexInv, MemoryInv, PagesInv, RowsOK, SignaturesInv, [AddressNext]_readvars
    PROVE  RowsOK' /\ SignaturesInv'
<1>0. IndexInv' /\ MemoryInv'  BY AddressMoves
<1>1. CASE ~ SettledAddress /\ (Storage \/ \E r \in Readers : handle(r))
  <2>1. req' = req  BY <1>1, StorageLeaves, HandleLeaves
  <2>2. RowsOK'  BY <1>1, RowsStorage, RowsHandle
  <2>4. CASE IsSignatures(req) /\ req.behind = {}
    <3>1. PICK q : q = req  OBVIOUS
    <3>2. SignatureTypes(q) /\ SignaturesOK(q) /\ Behind = {}  BY <2>4, <3>1 DEF SignaturesInv
    <3>8. Behind' = {} /\ (Storage \/ \E r \in Readers : receive(r))
      <4>1. CASE Storage
        <5>1. reader' = reader  BY <4>1, StorageQuiet
        <5>2. Behind' = Behind  BY <5>1 DEF Behind
        <5> QED  BY <3>2, <4>1, <5>2
      <4>2. CASE \E r \in Readers : handle(r)  BY <3>2, <4>2, HandleFollows
      <4> QED  BY <1>1, <4>1, <4>2
    <3>9. Waiting  BY <1>0, <3>8, WaitingIs
    <3>3. q.stage \notin {"result", "done"}  BY <1>1, <3>1 DEF SettledAddress
    <3>4. SignaturesOK(q)'  BY <3>2, <3>3, <3>9, SignaturesWaits
    <3>5. q = req'  BY <2>1, <3>1
    <3>6. SignaturesOK(req)'  BY <3>4, <3>5
    <3>7. SignatureTypes(req)'  BY <3>2, <3>5 DEF SignatureTypes, IsSignatures
    <3> QED  BY <2>2, <3>6, <3>7, <3>8 DEF SignaturesInv
  <2>5. CASE ~ IsSignatures(req)
    <3>1. ~ IsSignatures(req')  BY <2>1, <2>5
    <3> QED  BY <2>2, <3>1 DEF SignaturesInv, IsSignatures
  <2>6. CASE req.behind # {}  BY <2>1, <2>2, <2>6 DEF SignaturesInv
  <2> QED  BY <2>4, <2>5, <2>6
<1>2. CASE UNCHANGED <<writer, inbox, reader, stored>>
  <2>1. RowsOK'  BY <1>2, RowsSame
  <2> SUFFICES SignaturesInv'  BY <2>1
  <2>8. Behind' = Behind  BY <1>2 DEF Behind
  <2>9. ASSUME req'.behind # {} PROVE SignaturesInv'  BY <2>9 DEF SignaturesInv
  <2>2. ASSUME NEW p, p = req', SignatureTypes(p), SignaturesOK(p), Behind = {} PROVE SignaturesInv'
    <3>1. SignaturesOK(p)'  BY <1>2, <2>2, SignaturesSame
    <3>2. SignaturesOK(req)'  BY <2>2, <3>1
    <3>3. SignatureTypes(req)'  BY <2>2 DEF SignatureTypes, IsSignatures
    <3> QED  BY <2>2, <2>8, <3>2, <3>3 DEF SignaturesInv
  <2>3. ASSUME req' = [stage |-> "none"] \/ PageOK(req') PROVE SignaturesInv'
    <3>1. ~ IsSignatures(req')
      <4>1. CASE req' = [stage |-> "none"]
        <5>1. DOMAIN req' = {"stage"}  BY <4>1
        <5> QED  BY <5>1 DEF IsSignatures, SignatureFields
      <4>2. CASE PageOK(req')  BY <4>2 DEF IsSignatures, PageOK, PageTypes
      <4> QED  BY <2>3, <4>1, <4>2
    <3> QED  BY <3>1 DEF SignaturesInv, IsSignatures
  <2>4. PICK p : p = req'  OBVIOUS
  <2>5. CASE req = [stage |-> "none"]
    <3>1. ASSUME ask_address PROVE SignaturesInv'
      <4>1. CASE \E before \in Befores, until \in Untils, limit \in Limits, c \in Commitments :
                    req' = AskedSignatures(before, until, limit, c)
        <5>1. SignatureTypes(p) /\ SignaturesOK(p)  BY <2>4, <4>1, SignaturesAsked
        <5>2. p.behind = Behind  BY <2>4, <4>1, AskedSignaturesIs
        <5>3. CASE Behind = {}  BY <2>2, <2>4, <5>1, <5>3
        <5>4. CASE Behind # {}  BY <2>4, <2>9, <5>2, <5>4
        <5> QED  BY <5>3, <5>4
      <4>2. CASE \E desc \in BOOLEAN, limit \in Limits, f \in Filters, c \in Commitments :
                    req' = AskedTransactions(desc, limit, f, c)
        BY <2>3, <4>2, AskedPages
      <4> QED  BY <3>1, <4>1, <4>2 DEF ask_address
    <3>2. CASE UNCHANGED readvars
      <4>1. req' = req  BY <3>2 DEF readvars
      <4> QED  BY <2>3, <2>5, <4>1
    <3>3. CASE Storage \/ \E r \in Readers : handle(r)
      <4>1. req' = req  BY <3>3, StorageLeaves, HandleLeaves
      <4> QED  BY <2>3, <2>5, <4>1
    <3> QED  BY <2>5, <3>1, <3>2, <3>3, NothingAsked DEF AddressNext
  <2>6. CASE PageOK(req)
    <3>1. PageOK(req') \/ req' = [stage |-> "none"]  BY <2>6, PagesStay
    <3> QED  BY <2>3, <3>1
  <2>7. CASE IsSignatures(req) /\ req.behind = {}
    <3>0. /\ SignatureTypes(req) /\ SignaturesOK(req) /\ req.kind = "getSignaturesForAddress"
          /\ Behind = {}
      BY <2>7 DEF SignaturesInv, IsSignatures
    <3>1. ~ ask_address  BY <2>7 DEF ask_address, IsSignatures
    <3>2. ASSUME finish_address PROVE SignaturesInv'  BY <2>3, <3>2 DEF finish_address
    <3>3. ASSUME req' = req PROVE SignaturesInv'
      <4>1. p = req  BY <2>4, <3>3
      <4>2. SignatureTypes(p) /\ SignaturesOK(p)  BY <3>0, <4>1
      <4> QED  BY <2>2, <2>4, <3>0, <4>2
    <3>4. CASE Storage \/ \E r \in Readers : handle(r)
      <4>1. req' = req  BY <3>4, StorageLeaves, HandleLeaves
      <4> QED  BY <3>3, <4>1
    <3>5. CASE UNCHANGED readvars  BY <3>3, <3>5 DEF readvars
    <3>6. ASSUME NEW r \in Readers, take_address(r) PROVE SignaturesInv'
      <4>0. Copy(reader[r]) = reader[r]  BY <3>0, CopyIs
      <4>1. CASE /\ req.stage = "queued"
                 /\ req' = [SignaturesForAddress(reader[r]) EXCEPT !.reader = r]
        <5>1. PICK R, y : R = reader[r] /\ y = SignaturesForAddress(R)  OBVIOUS
        <5>2. p = [y EXCEPT !.reader = r]  BY <2>4, <4>1, <5>1
        <5>3. PICK part, here :
                 /\ TakenFrom(p, req, R, r, part, here)
                 /\ part = Upto(IF req.before = NoTx THEN Own(R) ELSE After(Own(R), req.before),
                                req.until, req.limit)
                 /\ here <=> Has(Own(R), req.before)
          BY <3>0, <5>1, <5>2, TakenFromIs
        <5>4. SignatureTypes(p) /\ SignaturesOK(p)  BY <3>0, <4>1, <5>1, <5>3, SignaturesTaken
        <5> QED  BY <2>2, <2>4, <3>0, <5>4
      <4>2. CASE req.stage = "scanned" /\ req.reader = r /\ req' = AddBlockTimes(reader[r])
        <5>1. PICK R : R = reader[r]  OBVIOUS
        <5>2. p = AddBlockTimes(R)  BY <2>4, <4>2, <5>1
        <5>3. TimedFrom(p, req, R)  BY <3>0, <5>2, TimedFromIs
        <5>4. SignatureTypes(p) /\ SignaturesOK(p)  BY <3>0, <4>2, <5>1, <5>3, SignaturesTimed
        <5> QED  BY <2>2, <2>4, <3>0, <5>4
      <4>3. PICK R : R = reader[r]  OBVIOUS
      <4>4. \/ req.stage = "queued" /\ req' = [SignaturesForAddress(R) EXCEPT !.reader = r]
            \/ req.stage = "scanned" /\ req.reader = r /\ req' = AddBlockTimes(R)
        BY <3>0, <3>6, <4>0, <4>3 DEF take_address, SignaturesForAddress3
      <4> QED  BY <4>1, <4>2, <4>3, <4>4
    <3>7. ASSUME read_tx_index PROVE SignaturesInv'
      <4>1. SignatureTypes(p) /\ SignaturesOK(p)  BY <2>4, <3>0, <3>7, SignaturesIndexed
      <4> QED  BY <2>2, <2>4, <3>0, <4>1
    <3>8. ASSUME SignaturesForAddress2 PROVE SignaturesInv'
      <4>1. PICK rows, list, x :
               /\ ScannedFrom(p, req, list, x) /\ req.stage = "scan"
               /\ rows \in Seq(TxType) /\ InOrder(TRUE, rows)
               /\ \A tx : Has(rows, tx) <=> tx \in TxSet /\ tx[1] \in indexed /\ tx[1] <= req.slot
               /\ list = IF req.after = NoTx THEN rows ELSE After(rows, req.after)
        BY <2>4, <3>0, <3>8, ScannedFromIs
      <4>2. SignatureTypes(p) /\ SignaturesOK(p)  BY <3>0, <4>1, SignaturesScanned
      <4> QED  BY <2>2, <2>4, <3>0, <4>2
    <3>9. ASSUME answer_address PROVE SignaturesInv'
      <4>1. SignatureTypes(p) /\ SignaturesOK(p)  BY <2>4, <3>0, <3>9, SignaturesAnswered
      <4> QED  BY <2>2, <2>4, <3>0, <4>1
    <3> QED  BY <2>7, <3>1, <3>2, <3>4, <3>5, <3>6, <3>7, <3>8, <3>9, SignaturesStay DEF AddressNext
  <2>10. CASE IsSignatures(req) /\ req.behind # {}
    <3>1. ~ ask_address  BY <2>10 DEF ask_address, IsSignatures
    <3>2. ASSUME finish_address PROVE SignaturesInv'  BY <2>3, <3>2 DEF finish_address
    <3>3. ASSUME req' = req \/ StaySignatures(req', req) PROVE SignaturesInv'
      BY <2>9, <2>10, <3>3 DEF StaySignatures
    <3>4. CASE Storage \/ \E r \in Readers : handle(r)  BY <3>3, <3>4, StorageLeaves, HandleLeaves
    <3>5. CASE UNCHANGED readvars  BY <3>3, <3>5 DEF readvars
    <3> QED  BY <2>10, <3>1, <3>2, <3>3, <3>4, <3>5, SignaturesStay DEF AddressNext
  <2> QED  BY <2>5, <2>6, <2>7, <2>10 DEF PagesInv
<1> QED
  BY <1>1, <1>2
  DEF AddressNext, take_address, read_tx_index, SignaturesForAddress2, TransactionsForAddress2,
      resolve_signature_position, ask_address, answer_address, next_page, finish_address, readvars, writer

\* The list getSignaturesForAddress gives, from the block in process, the
\* address index and an upstream together, is one piece of the address's list,
\* begins and ends where it should, for any transactions, limits, readers and
\* capacity, whatever is confirmed, stored and pruned between its reads.  (It is
\* asked for when the readers have handled what the start took back.)
THEOREM SignaturesExactAlways == AddressSpec => []SignaturesExact
<1>1. AddressInit => RowsOK /\ SignaturesInv
  <2> SUFFICES ASSUME AddressInit PROVE RowsOK /\ SignaturesInv  OBVIOUS
  <2>1. RowsOK  BY RowsStart DEF AddressInit
  <2>2. DOMAIN req = {"stage"}  BY DEF AddressInit
  <2>3. ~ IsSignatures(req)  BY <2>2 DEF IsSignatures, SignatureFields
  <2> QED  BY <2>1, <2>3 DEF SignaturesInv
<1>2. (IndexInv /\ MemoryInv /\ PagesInv /\ WholeInv) /\ (RowsOK /\ SignaturesInv) /\ [AddressNext]_readvars
        => (RowsOK /\ SignaturesInv)'
  BY SignaturesNext
<1>3. PagesInv /\ SignaturesInv => SignaturesExact
  <2> SUFFICES ASSUME PagesInv, SignaturesInv, SignaturesDone, ~ req.restarted, ~ req.ahead
               PROVE  SignaturesExact
    BY DEF SignaturesExact
  <2>1. req.kind = "getSignaturesForAddress" /\ req.stage = "done" /\ req.behind = {}
    BY DEF SignaturesDone
  <2>2. IsSignatures(req)
    <3>1. req # [stage |-> "none"]  BY <2>1
    <3>2. ~ PageOK(req)  BY <2>1 DEF PageOK, PageTypes
    <3> QED  BY <3>1, <3>2 DEF PagesInv
  <2>3. SignatureTypes(req) /\ SignaturesOK(req)  BY <2>1, <2>2 DEF SignaturesInv
  <2>4. PICK S \in Tops(req) : Ended(req, S)  BY <2>1, <2>3 DEF SignaturesOK
  <2> QED  BY <2>3, <2>4, EndedExact
<1>4. AddressSpec => [](IndexInv /\ MemoryInv /\ PagesInv /\ WholeInv)  BY WholeInvariant
<1>5. AddressSpec => [](RowsOK /\ SignaturesInv)  BY <1>1, <1>2, <1>4, PTL DEF AddressSpec
<1> QED  BY <1>3, <1>4, <1>5, PTL
============================================================================
