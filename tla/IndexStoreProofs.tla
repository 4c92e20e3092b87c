-------------------------- MODULE IndexStoreProofs --------------------------
(***************************************************************************)
(* Safety of one index on disk for every set of documents, every hash      *)
(* function, every choice of -numshards at the starts, and any number of   *)
(* crashes and failed removals.                                            *)
(***************************************************************************)
EXTENDS IndexStore, TLAPS, FiniteSetTheorems, WellFoundedInduction

(* The steps of NewIndex after which the directory is there. *)
InDirectory == {"create", "write", "shards", "bleve_new", "open", "removing"}

(* How far NewIndex has come, as its local variables know it. *)
Staged ==
  /\ shards \in Seq(Numbers)
  /\ shards # << >> => pc \in {"shards", "bleve_new", "open"}
  /\ batch # {} => pc = "open" /\ shards # << >>
  /\ pc \in InDirectory => dir
  /\ pc = "write" => endtime = "empty"
  /\ pc \in {"shards", "bleve_new"} =>
       /\ endtime = "full"
       /\ \A i \in DOMAIN shards : shards[i] = i - 1
  /\ pc = "bleve_new" => Len(shards) < numShards /\ shard[Len(shards)] = "torn"
  /\ pc \in Creating => numShards <= maxShardCount
  /\ pc \in {"create", "write", "shards", "bleve_new"} => (shardless <=> numShards <= 0)
  /\ \A n \in Existing : n < maxShardCount

(* A directory with nothing left unfinished in it is one OpenIndex takes,  *)
(* or NewIndex or DeleteIndex is at work on it.                            *)
Whole ==
  cut = {} =>
    /\ pc # "failed"
    /\ pc \in {"idle", "mkdir"} => ~dir
    /\ pc \in {"create", "write"} => Existing = {}
    /\ pc # "removing" =>
         \A n \in Numbers : shard[n] = "torn" => pc = "bleve_new" /\ n = Len(shards)
    /\ dir /\ pc \in {"down", "open"} => endtime = "full" /\ (Existing # {} \/ shardless)
    /\ pc = "open" => shards # << >> \/ shardless

(* Nothing that was deleted is still there, but in what is being removed.  *)
Gone ==
  /\ batch \cap deleted = {}
  /\ "removing" \notin cut /\ pc # "removing" =>
       \A n \in Numbers : docs[n] \cap deleted = {}

(* The shards there are have the numbers 0 to k - 1. *)
Dense(k) == Existing = 0..(k - 1)

(* With the shards that are there, every acknowledged document is in the   *)
(* shard a start would look for it in; a document of the batch under way   *)
(* is in no other shard than its own.                                      *)
Placed ==
  /\ pc \in {"idle", "removing"} \cup Creating => acked = {}
  /\ acked # {} => dir
  /\ \A d \in batch, n \in Numbers : d \in docs[n] => n = Shard(d)
  /\ "removing" \notin cut =>
       /\ pc \in {"idle", "mkdir"} => ~dir
       /\ pc \in {"create", "write"} => Existing = {}
       /\ pc = "shards" => Dense(Len(shards))
       /\ pc = "bleve_new" => Dense(Len(shards) + 1)
       /\ pc \in {"down", "failed", "open"} => \E k \in Nat : Dense(k)
       /\ pc = "open" => Dense(Len(shards)) /\ \A i \in DOMAIN shards : shards[i] = i - 1
       /\ \A k \in Nat : Dense(k) =>
            \A d \in acked : k > 0 /\ d \in docs[Hash[d] % k]

IInv == TypeOK /\ Staged /\ Whole /\ Gone /\ Placed

-----------------------------------------------------------------------------
(* What the constants are. *)
LEMMA Constants ==
  /\ Hash \in [Docs -> Nat]
  /\ ShardFlags \subseteq Int
  /\ NameBase \in Nat \ {0, 1}
  /\ NameWidth \in Nat
  /\ maxShardCount \in Nat
  /\ MaxBatch \in Nat
  /\ MaxCrashes \in Nat
  /\ MaxFaults \in Nat
BY StoreAssumption

USE Constants

(* The shards that -numshards asks for have numbers the model knows. *)
LEMMA NumbersOK ==
  /\ Numbers \subseteq Nat
  /\ \A k \in ShardFlags, n \in Nat : n < k => n \in Numbers
<1>1. \A n : n \in Numbers <=> \E k \in ShardFlags : n \in 0..(k - 1)
  BY DEF Numbers
<1> QED
  BY <1>1

(* A nonempty set of natural numbers has a least element. *)
LEMMA LeastNumber ==
  ASSUME NEW S \in SUBSET Nat, S # {}
  PROVE  \E n \in S : \A m \in S : n <= m
<1>1. PICK n \in S : \A m \in S : ~(<<m, n>> \in OpToRel(<, Nat))
  BY NatLessThanWellFounded, WFMin
<1>2. \A m \in S : <<m, n>> \in OpToRel(<, Nat) <=> m < n
  BY DEF OpToRel
<1>3. \A m \in S : ~(m < n)
  BY <1>1, <1>2, Zenon
<1> QED
  BY <1>3

(* The digits of k, if h has those of the smaller numbers. *)
Expand(h, k) ==
  IF k < NameBase THEN <<k>> ELSE Append(h[k \div NameBase], k % NameBase)

(* The functions that agree with Digits up to n. *)
DigitsUpTo(n) ==
  {h \in [0..n -> Seq(Nat)] : \A k \in 0..n : h[k] = Expand(h, k)}

(* Removing the last digit makes a number smaller. *)
LEMMA Shorter ==
  ASSUME NEW n \in Nat, NameBase <= n
  PROVE  /\ n \div NameBase \in Nat
         /\ n \div NameBase < n
         /\ n \div NameBase > 0
         /\ n % NameBase \in 0..(NameBase - 1)
         /\ n = NameBase * (n \div NameBase) + (n % NameBase)
<1> DEFINE q == n \div NameBase
           r == n % NameBase
<1>1. q \in Nat /\ r \in 0..(NameBase - 1) /\ n = NameBase * q + r
  BY Z3
<1> HIDE DEF q, r
<1>2. q > 0
  BY <1>1, Z3
<1>3. 2 * q <= NameBase * q
  BY <1>1, Z3
<1>4. q < n
  BY <1>1, <1>2, <1>3
<1> QED
  BY <1>1, <1>2, <1>4 DEF q, r

(* Such functions exist. *)
LEMMA DigitsExist ==
  ASSUME NEW n \in Nat
  PROVE  DigitsUpTo(n) # {}
<1> DEFINE Bad == {m \in Nat : DigitsUpTo(m) = {}}
<1> SUFFICES ASSUME Bad # {} PROVE FALSE
  OBVIOUS
<1>1. PICK m \in Bad : \A k \in Bad : m <= k
  BY LeastNumber
<1>2. CASE m = 0
  <2> DEFINE h == [k \in 0..0 |-> <<0>>]
  <2>1. h \in DigitsUpTo(0)
    BY DEF DigitsUpTo, Expand
  <2> QED
    BY <1>1, <1>2, <2>1
<1>3. CASE m > 0
  <2>1. m - 1 \in Nat /\ m - 1 \notin Bad
    BY <1>1, <1>3
  <2>2. PICK h : h \in DigitsUpTo(m - 1)
    BY <2>1
  <2> DEFINE g == [k \in 0..m |-> IF k = m THEN Expand(h, m) ELSE h[k]]
  <2>3. h \in [0..(m - 1) -> Seq(Nat)] /\ \A k \in 0..(m - 1) : h[k] = Expand(h, k)
    BY <2>2 DEF DigitsUpTo
  <2>4. Expand(h, m) \in Seq(Nat)
    <3>1. CASE m < NameBase
      BY <3>1 DEF Expand
    <3>2. CASE NameBase <= m
      <4>1. m \div NameBase \in 0..(m - 1) /\ m % NameBase \in Nat
        BY <3>2, Shorter
      <4>2. h[m \div NameBase] \in Seq(Nat)
        BY <2>3, <4>1
      <4> QED
        BY <3>2, <4>1, <4>2 DEF Expand
    <3> QED
      BY <3>1, <3>2
  <2>5. g \in [0..m -> Seq(Nat)]
    BY <2>3, <2>4
  <2>6. ASSUME NEW k \in 0..m PROVE g[k] = Expand(g, k)
    <3>1. NameBase <= k => k \div NameBase \in 0..(m - 1)
      BY Shorter, <2>6
    <3>2. NameBase <= k => g[k \div NameBase] = h[k \div NameBase]
      BY <3>1
    <3>3. Expand(g, k) = Expand(h, k)
      BY <3>2 DEF Expand
    <3>4. g[k] = Expand(h, k)
      BY <2>3
    <3> QED
      BY <3>3, <3>4
  <2>7. g \in DigitsUpTo(m)
    BY <2>5, <2>6 DEF DigitsUpTo
  <2> QED
    BY <1>1, <2>7
<1> QED
  BY <1>1, <1>2, <1>3

(* Two of them agree wherever both are defined. *)
LEMMA DigitsAgree ==
  ASSUME NEW m \in Nat, NEW n \in Nat, NEW g \in DigitsUpTo(m), NEW h \in DigitsUpTo(n),
         NEW k \in Nat, k <= m, k <= n
  PROVE  g[k] = h[k]
<1> DEFINE Bad == {i \in Nat : i <= m /\ i <= n /\ g[i] # h[i]}
<1> SUFFICES ASSUME Bad # {} PROVE FALSE
  OBVIOUS
<1>1. PICK i \in Bad : \A j \in Bad : i <= j
  BY LeastNumber
<1>2. g[i] = Expand(g, i) /\ h[i] = Expand(h, i)
  BY DEF DigitsUpTo
<1>3. NameBase <= i => g[i \div NameBase] = h[i \div NameBase]
  <2> SUFFICES ASSUME NameBase <= i PROVE g[i \div NameBase] = h[i \div NameBase]
    OBVIOUS
  <2>1. i \div NameBase \in Nat /\ i \div NameBase < i
    BY Shorter
  <2>2. i \div NameBase \notin Bad
    BY <1>1, <2>1
  <2> QED
    BY <2>1, <2>2
<1>4. Expand(g, i) = Expand(h, i)
  BY <1>3 DEF Expand
<1> QED
  BY <1>2, <1>4

(* Digits satisfies its definition. *)
LEMMA DigitsDef ==
  ASSUME NEW n \in Nat
  PROVE  Digits[n] \in Seq(Nat) /\ Digits[n] = Expand(Digits, n)
<1> DEFINE H(m) == CHOOSE h \in DigitsUpTo(m) : TRUE
           D == [m \in Nat |-> H(m)[m]]
<1>1. \A m \in Nat : H(m) \in DigitsUpTo(m)
  BY DigitsExist
<1> HIDE DEF H
<1>2. ASSUME NEW m \in Nat PROVE D[m] = Expand(D, m) /\ D[m] \in Seq(Nat)
  <2>1. H(m)[m] = Expand(H(m), m) /\ H(m)[m] \in Seq(Nat)
    <3>1. H(m) \in DigitsUpTo(m) /\ m \in 0..m
      BY <1>1
    <3> QED
      BY <3>1 DEF DigitsUpTo
  <2>2. NameBase <= m => H(m)[m \div NameBase] = D[m \div NameBase]
    <3> SUFFICES ASSUME NameBase <= m PROVE H(m)[m \div NameBase] = D[m \div NameBase]
      OBVIOUS
    <3>1. m \div NameBase \in Nat /\ m \div NameBase <= m
      BY Shorter
    <3> QED
      BY <1>1, <3>1, DigitsAgree
  <2>3. Expand(H(m), m) = Expand(D, m)
    BY <2>2 DEF Expand
  <2> QED
    BY <2>1, <2>3
<1>3. D = [m \in Nat |-> Expand(D, m)]
  BY <1>2
<1>4. Digits = [m \in Nat |-> Expand(Digits, m)]
  BY <1>3 DEF Digits, Expand
<1> HIDE DEF D
<1>5. ASSUME NEW m \in Nat PROVE Digits[m] = D[m]
  <2> DEFINE Bad == {k \in Nat : Digits[k] # D[k]}
  <2> SUFFICES ASSUME Bad # {} PROVE FALSE
    OBVIOUS
  <2>1. PICK k \in Bad : \A j \in Bad : k <= j
    BY LeastNumber
  <2>2. Digits[k] = Expand(Digits, k) /\ D[k] = Expand(D, k)
    BY <1>3, <1>4
  <2>3. NameBase <= k => Digits[k \div NameBase] = D[k \div NameBase]
    <3> SUFFICES ASSUME NameBase <= k
                 PROVE  Digits[k \div NameBase] = D[k \div NameBase]
      OBVIOUS
    <3>1. k \div NameBase \in Nat /\ k \div NameBase < k
      BY Shorter
    <3>2. k \div NameBase \notin Bad
      BY <2>1, <3>1
    <3> QED
      BY <3>1, <3>2
  <2>4. Expand(Digits, k) = Expand(D, k)
    BY <2>3 DEF Expand
  <2> QED
    BY <2>2, <2>4
<1>6. Digits[n] = Expand(Digits, n)
  BY <1>4
<1> QED
  BY <1>2, <1>5, <1>6

(* The quotients of two numbers are ordered as the numbers are; numbers    *)
(* with one quotient are ordered as their remainders.                      *)
LEMMA QuotientOrder ==
  ASSUME NEW m \in Nat, NEW n \in Nat, m <= n
  PROVE  /\ m \div NameBase \in Nat /\ n \div NameBase \in Nat
         /\ m % NameBase \in Nat /\ n % NameBase \in Nat
         /\ m \div NameBase <= n \div NameBase
         /\ m < n /\ m \div NameBase = n \div NameBase => m % NameBase < n % NameBase
         /\ n < NameBase => n \div NameBase = 0 /\ n % NameBase = n
<1> DEFINE q == m \div NameBase
           r == m % NameBase
           u == n \div NameBase
           v == n % NameBase
<1>1. q \in Nat /\ r \in 0..(NameBase - 1) /\ m = NameBase * q + r
  BY Z3
<1>2. u \in Nat /\ v \in 0..(NameBase - 1) /\ n = NameBase * u + v
  BY Z3
<1> HIDE DEF q, r, u, v
<1>3. q <= u
  <2> SUFFICES ASSUME u + 1 <= q PROVE FALSE
    BY <1>1, <1>2
  <2>1. NameBase * (u + 1) <= NameBase * q
    BY <1>1, <1>2, Z3
  <2>2. NameBase * (u + 1) = NameBase * u + NameBase
    BY <1>2, Z3
  <2> QED
    BY <1>1, <1>2, <2>1, <2>2
<1>4. m < n /\ q = u => r < v
  BY <1>1, <1>2
<1>5. n < NameBase => u = 0 /\ v = n
  <2> SUFFICES ASSUME n < NameBase, u >= 1 PROVE FALSE
    BY <1>2
  <2>1. NameBase <= NameBase * u
    BY <1>2, Z3
  <2> QED
    BY <1>2, <2>1
<1> QED
  BY <1>1, <1>2, <1>3, <1>4, <1>5 DEF q, r, u, v

(* A number has at least one digit, two if it is not a digit itself. *)
LEMMA DigitsLength ==
  ASSUME NEW n \in Nat
  PROVE  /\ Digits[n] \in Seq(Nat)
         /\ Len(Digits[n]) >= 1
         /\ n < NameBase => Digits[n] = <<n>>
         /\ NameBase <= n => /\ Digits[n] = Append(Digits[n \div NameBase], n % NameBase)
                             /\ Digits[n \div NameBase] \in Seq(Nat)
                             /\ Len(Digits[n]) = Len(Digits[n \div NameBase]) + 1
<1>1. Digits[n] \in Seq(Nat) /\ Digits[n] = Expand(Digits, n)
  BY DigitsDef
<1>2. CASE n < NameBase
  BY <1>1, <1>2 DEF Expand
<1>3. CASE NameBase <= n
  <2>1. Digits[n] = Append(Digits[n \div NameBase], n % NameBase)
    BY <1>1, <1>3 DEF Expand
  <2>2. Digits[n \div NameBase] \in Seq(Nat)
    BY <1>3, Shorter, DigitsDef
  <2> QED
    BY <1>1, <1>3, <2>1, <2>2
<1> QED
  BY <1>2, <1>3

(* A larger number has no fewer digits. *)
LEMMA DigitsMonotone ==
  ASSUME NEW m \in Nat, NEW n \in Nat, m <= n
  PROVE  Len(Digits[m]) <= Len(Digits[n])
<1> DEFINE Bad == {j \in Nat : \E i \in Nat : i <= j /\ Len(Digits[i]) > Len(Digits[j])}
<1>1. CASE Bad # {}
  <2>1. PICK j \in Bad : \A k \in Bad : j <= k
    BY <1>1, LeastNumber
  <2>2. PICK i \in Nat : i <= j /\ Len(Digits[i]) > Len(Digits[j])
    OBVIOUS
  <2> DEFINE p == i \div NameBase
             q == j \div NameBase
  <2>3. j \in Nat /\ Len(Digits[i]) \in Nat /\ Len(Digits[j]) \in Nat /\ Len(Digits[j]) >= 1
    <3>1. j \in Nat
      OBVIOUS
    <3>2. Digits[i] \in Seq(Nat)
      BY DigitsLength
    <3>3. Digits[j] \in Seq(Nat) /\ Len(Digits[j]) >= 1
      BY <3>1, DigitsLength
    <3> QED
      BY <3>1, <3>2, <3>3
  <2>4. NameBase <= i
    <3> SUFFICES ASSUME i < NameBase PROVE FALSE
      OBVIOUS
    <3>1. Digits[i] = <<i>>
      BY DigitsLength
    <3> QED
      BY <2>2, <2>3, <3>1
  <2>5. NameBase <= j
    BY <2>2, <2>3, <2>4
  <2>6. p \in Nat /\ q \in Nat /\ p <= q
    BY <2>2, <2>3, QuotientOrder
  <2>7. q < j
    BY <2>3, <2>5, Shorter
  <2>8. Len(Digits[i]) = Len(Digits[p]) + 1
    BY <2>4, DigitsLength
  <2>9. Len(Digits[j]) = Len(Digits[q]) + 1
    BY <2>3, <2>5, DigitsLength
  <2>10. Digits[p] \in Seq(Nat) /\ Digits[q] \in Seq(Nat)
    BY <2>6, DigitsLength
  <2> HIDE DEF p, q
  <2>11. Len(Digits[p]) > Len(Digits[q])
    BY <2>2, <2>8, <2>9, <2>10
  <2>12. q \in Bad
    BY <2>6, <2>11
  <2> QED
    BY <2>1, <2>3, <2>6, <2>7, <2>12
<1>2. CASE Bad = {}
  <2>1. ~(Len(Digits[m]) > Len(Digits[n]))
    BY <1>2
  <2>2. Len(Digits[m]) \in Nat /\ Len(Digits[n]) \in Nat
    <3>1. Digits[m] \in Seq(Nat) /\ Digits[n] \in Seq(Nat)
      BY DigitsLength
    <3> QED
      BY ONLY <3>1
  <2> QED
    BY <2>1, <2>2
<1> QED
  BY <1>1, <1>2

(* The digits of n, padded to w of them. *)
Zeros(k) == [i \in 1..k |-> 0]
Padded(n, w) == Zeros(w - Len(Digits[n])) \o Digits[n]

(* k zeros are a sequence of length k. *)
LEMMA ZerosOK ==
  ASSUME NEW k \in Nat
  PROVE  Zeros(k) \in Seq(Nat) /\ Len(Zeros(k)) = k
<1>1. Zeros(k) \in [1..k -> Nat]
  BY DEF Zeros
<1> QED
  BY <1>1

(* The last of the w digits is the remainder. *)
LEMMA PaddedLast ==
  ASSUME NEW n \in Nat, NEW w \in Nat, 2 <= w, Len(Digits[n]) <= w
  PROVE  LET q == n \div NameBase IN
         /\ q \in Nat
         /\ Len(Digits[q]) <= w - 1
         /\ Padded(q, w - 1) \in Seq(Nat)
         /\ Len(Padded(q, w - 1)) = w - 1
         /\ Padded(n, w) = Append(Padded(q, w - 1), n % NameBase)
<1> DEFINE q == n \div NameBase
           r == n % NameBase
<1>1. q \in Nat /\ r \in Nat
  BY QuotientOrder
<1>2. Digits[n] \in Seq(Nat) /\ Digits[q] \in Seq(Nat)
  BY <1>1, DigitsLength
<1>3. CASE NameBase <= n
  <2>1. Digits[n] = Append(Digits[q], r) /\ Len(Digits[n]) = Len(Digits[q]) + 1
    BY <1>3, DigitsLength
  <2> HIDE DEF q, r
  <2>2. Len(Digits[q]) <= w - 1 /\ w - Len(Digits[n]) = (w - 1) - Len(Digits[q])
    BY <1>2, <2>1
  <2> DEFINE k == (w - 1) - Len(Digits[q])
             d == Digits[q]
             z == Zeros(k)
  <2>3. k \in Nat
    BY <1>2, <2>2
  <2>4. Padded(n, w) = z \o Append(d, r) /\ Padded(q, w - 1) = z \o d
    BY <2>1, <2>2 DEF Padded
  <2>5. Len(d) + k = w - 1 /\ d \in Seq(Nat)
    BY <1>2, <2>2
  <2> HIDE DEF k, d
  <2>6. z \in Seq(Nat) /\ Len(z) = k
    BY <2>3, ZerosOK
  <2> HIDE DEF z
  <2>7. z \o Append(d, r) = Append(z \o d, r) /\ z \o d \in Seq(Nat) /\ Len(z \o d) = w - 1
    BY <1>1, <2>3, <2>5, <2>6
  <2>8. Len(Digits[q]) <= w - 1
    BY <2>2
  <2> QED
    BY <1>1, <2>4, <2>7, <2>8 DEF q, r
<1>4. CASE n < NameBase
  <2>1. q = 0 /\ r = n
    BY <1>4, QuotientOrder
  <2>2. Digits[n] = <<n>>
    BY <1>4, DigitsLength
  <2>3. Digits[0] = <<0>>
    BY DigitsLength
  <2> HIDE DEF q, r
  <2>4. Len(Digits[n]) = 1 /\ Len(Digits[q]) = 1 /\ (w - 1) - 1 = w - 2
    BY <2>1, <2>2, <2>3
  <2>5. Padded(n, w) = Zeros(w - 1) \o <<n>> /\ Padded(q, w - 1) = Zeros(w - 2) \o <<0>>
    BY <2>1, <2>2, <2>3, <2>4 DEF Padded
  <2>6. Zeros(w - 2) \o <<0>> = Zeros(w - 1)
    BY DEF Zeros
  <2>7. Zeros(w - 1) \in Seq(Nat) /\ Len(Zeros(w - 1)) = w - 1
    BY ZerosOK
  <2>8. Zeros(w - 1) \o <<n>> = Append(Zeros(w - 1), n)
    BY <2>7
  <2>9. Padded(n, w) = Append(Padded(q, w - 1), r)
    BY <2>1, <2>5, <2>6, <2>8
  <2>10. Padded(q, w - 1) \in Seq(Nat) /\ Len(Padded(q, w - 1)) = w - 1
    BY <2>5, <2>6, <2>7
  <2>11. Len(Digits[q]) <= w - 1
    BY <2>4
  <2> QED
    BY <1>1, <2>9, <2>10, <2>11 DEF q, r
<1> QED
  BY <1>3, <1>4

(* Where the padded digits of two numbers first differ. *)
DiffersAt(m, n, w, i) ==
  /\ \A j \in 1..(i - 1) : Padded(m, w)[j] = Padded(n, w)[j]
  /\ Padded(m, w)[i] < Padded(n, w)[i]

(* Of two numbers written with as many digits, the smaller one has the     *)
(* smaller digit where they first differ.                                  *)
LEMMA PaddedOrder ==
  ASSUME NEW m \in Nat, NEW n \in Nat, m < n, NEW w \in Nat, Len(Digits[n]) <= w
  PROVE  \E i \in 1..w : DiffersAt(m, n, w, i)
<1> DEFINE Bad == {k \in Nat : \E j, v \in Nat : /\ j < k /\ Len(Digits[k]) <= v
                                                 /\ ~(\E i \in 1..v : DiffersAt(j, k, v, i))}
<1> SUFFICES ASSUME Bad # {} PROVE FALSE
  OBVIOUS
<1>1. PICK k \in Bad : \A l \in Bad : k <= l
  BY LeastNumber
<1>2. PICK j \in Nat, v \in Nat : /\ j < k /\ Len(Digits[k]) <= v
                                  /\ ~(\E i \in 1..v : DiffersAt(j, k, v, i))
  OBVIOUS
<1>3. /\ Len(Digits[k]) \in Nat /\ Len(Digits[k]) >= 1
      /\ Len(Digits[j]) \in Nat /\ Len(Digits[j]) <= v
  <2>1. Digits[k] \in Seq(Nat) /\ Len(Digits[k]) >= 1
    BY DigitsLength
  <2>2. Digits[j] \in Seq(Nat)
    BY DigitsLength
  <2>3. Len(Digits[j]) <= Len(Digits[k])
    BY <1>2, DigitsMonotone
  <2>4. Len(Digits[j]) \in Nat /\ Len(Digits[k]) \in Nat
    BY <2>1, <2>2
  <2> QED
    BY <1>2, <2>1, <2>3, <2>4
<1>4. CASE v = 1
  <2>1. k < NameBase
    <3> SUFFICES ASSUME NameBase <= k PROVE FALSE
      OBVIOUS
    <3>1. Len(Digits[k]) = Len(Digits[k \div NameBase]) + 1
      BY DigitsLength
    <3>2. k \div NameBase \in Nat
      BY Shorter
    <3>3. Digits[k \div NameBase] \in Seq(Nat) /\ Len(Digits[k \div NameBase]) >= 1
      BY <3>2, DigitsLength
    <3> QED
      BY <1>2, <1>4, <3>1, <3>3
  <2>2. Digits[k] = <<k>> /\ Digits[j] = <<j>>
    <3>1. k \in Nat /\ j < NameBase
      BY <1>2, <2>1
    <3> QED
      BY <2>1, <3>1, DigitsLength
  <2>3. Padded(k, 1) = <<k>> /\ Padded(j, 1) = <<j>>
    BY <2>2 DEF Padded, Zeros
  <2>4. DiffersAt(j, k, 1, 1)
    BY <1>2, <2>3 DEF DiffersAt
  <2> QED
    BY <1>2, <1>4, <2>4
<1>5. CASE v >= 2
  <2> DEFINE p == j \div NameBase
             q == k \div NameBase
  <2>1. /\ p \in Nat /\ q \in Nat /\ p <= q
        /\ j % NameBase \in Nat /\ k % NameBase \in Nat
        /\ p = q => j % NameBase < k % NameBase
        /\ k < NameBase => q = 0
    <3>1. k \in Nat /\ j <= k
      BY <1>2
    <3> QED
      BY <1>2, <3>1, QuotientOrder
  <2>2. /\ Padded(p, v - 1) \in Seq(Nat) /\ Padded(q, v - 1) \in Seq(Nat)
        /\ Len(Padded(p, v - 1)) = v - 1 /\ Len(Padded(q, v - 1)) = v - 1
        /\ Padded(j, v) = Append(Padded(p, v - 1), j % NameBase)
        /\ Padded(k, v) = Append(Padded(q, v - 1), k % NameBase)
        /\ Len(Digits[q]) <= v - 1
    BY <1>2, <1>3, <1>5, PaddedLast
  <2> HIDE DEF p, q
  <2>3. CASE p = q
    <3> DEFINE s == Padded(p, v - 1)
    <3>a. /\ s \in Seq(Nat) /\ Len(s) = v - 1
          /\ Padded(j, v) = Append(s, j % NameBase) /\ Padded(k, v) = Append(s, k % NameBase)
      BY <2>2, <2>3
    <3> HIDE DEF s
    <3>b. \A e \in Nat : Append(s, e)[Len(s) + 1] = e /\ \A y \in 1..Len(s) : Append(s, e)[y] = s[y]
      <4>1. s \in Seq(Nat)
        BY <3>a
      <4> QED
        BY ONLY <4>1
    <3>c. Len(s) + 1 = v
      BY <1>5, <3>a
    <3>d. Padded(j, v)[v] = j % NameBase /\ Padded(k, v)[v] = k % NameBase
      BY <2>1, <3>a, <3>b, <3>c
    <3>e. \A y \in 1..(v - 1) : Padded(j, v)[y] = Padded(k, v)[y]
      BY <2>1, <3>a, <3>b
    <3>1. DiffersAt(j, k, v, v)
      BY <2>1, <2>3, <3>d, <3>e DEF DiffersAt
    <3> QED
      BY <1>2, <1>5, <3>1
  <2>4. CASE p < q
    <3>1. NameBase <= k
      BY <2>1, <2>4
    <3>2. q < k
      BY <3>1, Shorter DEF q
    <3>3. q \notin Bad
      BY <1>1, <2>1, <3>2
    <3>4. v - 1 \in Nat
      BY <1>5
    <3>5. PICK i \in 1..(v - 1) : DiffersAt(p, q, v - 1, i)
      BY <2>1, <2>2, <2>4, <3>3, <3>4
    <3>6. /\ \A y \in 1..(v - 1) : Padded(j, v)[y] = Padded(p, v - 1)[y]
          /\ \A y \in 1..(v - 1) : Padded(k, v)[y] = Padded(q, v - 1)[y]
      <4>1. \A s \in Seq(Nat), e \in Nat : \A y \in 1..Len(s) : Append(s, e)[y] = s[y]
        OBVIOUS
      <4> DEFINE s == Padded(p, v - 1)
                 t == Padded(q, v - 1)
      <4>2. \A y \in 1..Len(s) : Append(s, j % NameBase)[y] = s[y]
        BY <2>1, <2>2, <4>1
      <4>3. \A y \in 1..Len(t) : Append(t, k % NameBase)[y] = t[y]
        BY <2>1, <2>2, <4>1
      <4> QED
        BY <2>2, <4>2, <4>3
    <3>7. i \in 1..v /\ 1..(i - 1) \subseteq 1..(v - 1)
      BY <1>5
    <3>8. DiffersAt(j, k, v, i)
      BY <3>5, <3>6, <3>7 DEF DiffersAt
    <3> QED
      BY <1>2, <3>7, <3>8
  <2> QED
    BY <2>1, <2>3, <2>4
<1> QED
  BY <1>2, <1>3, <1>4, <1>5

(* The names of the shards that NewIndex creates sort as their numbers do. *)
LEMMA NamesSort ==
  ASSUME NEW m \in Nat, NEW n \in Nat, m <= maxShardCount, n <= maxShardCount
  PROVE  NameLess(m, n) <=> m < n
<1> DEFINE Short(k) == /\ Len(Digits[k]) \in Nat
                       /\ Len(Digits[k]) <= NameWidth
                       /\ Name(k) = Padded(k, NameWidth)
                       /\ Name(k) \in Seq(Nat)
                       /\ Len(Name(k)) = NameWidth
<1>1. ASSUME NEW k \in Nat, k <= maxShardCount PROVE Short(k)
  <2>1. Digits[k] \in Seq(Nat) /\ Len(Digits[k]) <= NameWidth
    <3>1. Len(Digits[k]) <= Len(Digits[maxShardCount])
      BY <1>1, DigitsMonotone
    <3>2. Digits[k] \in Seq(Nat)
      BY DigitsLength
    <3>3. Digits[maxShardCount] \in Seq(Nat)
      BY DigitsLength
    <3>4. Len(Digits[maxShardCount]) <= NameWidth
      BY StoreAssumption
    <3> QED
      BY <3>1, <3>2, <3>3, <3>4
  <2> DEFINE l == NameWidth - Len(Digits[k])
  <2>2. l \in Nat /\ (IF Len(Digits[k]) < NameWidth THEN NameWidth - Len(Digits[k]) ELSE 0) = l
    <3>1. Len(Digits[k]) \in Nat
      BY <2>1
    <3>2. \A x \in Nat : x <= NameWidth =>
             /\ NameWidth - x \in Nat
             /\ (IF x < NameWidth THEN NameWidth - x ELSE 0) = NameWidth - x
      OBVIOUS
    <3> QED
      BY <2>1, <3>1, <3>2
  <2>3. Name(k) = Zeros(l) \o Digits[k] /\ Zeros(l) \in Seq(Nat) /\ Len(Zeros(l)) = l
    BY <2>2, ZerosOK DEF Name, Zeros
  <2>4. Name(k) = Padded(k, NameWidth)
    BY <2>3 DEF Padded
  <2>5. Name(k) \in Seq(Nat) /\ Len(Name(k)) = l + Len(Digits[k]) /\ Len(Digits[k]) \in Nat
    <3>1. \A s, t \in Seq(Nat) : s \o t \in Seq(Nat) /\ Len(s \o t) = Len(s) + Len(t)
      OBVIOUS
    <3>2. Zeros(l) \in Seq(Nat) /\ Digits[k] \in Seq(Nat)
      BY <2>1, <2>3
    <3>3. /\ Zeros(l) \o Digits[k] \in Seq(Nat)
          /\ Len(Zeros(l) \o Digits[k]) = Len(Zeros(l)) + Len(Digits[k])
      BY <3>1, <3>2
    <3>4. Len(Digits[k]) \in Nat
      BY <3>2
    <3> HIDE DEF l
    <3> QED
      BY <2>3, <3>3, <3>4
  <2>6. Len(Name(k)) = NameWidth
    BY <2>5
  <2> QED
    BY <2>1, <2>4, <2>5, <2>6
<1>2. Short(m) /\ Short(n)
  BY <1>1
<1>3. ASSUME NEW i \in Nat, NEW k \in Nat, i < k, i <= maxShardCount, k <= maxShardCount
      PROVE  \E x \in 1..NameWidth : /\ \A y \in 1..(x - 1) : Name(i)[y] = Name(k)[y]
                                     /\ Name(i)[x] < Name(k)[x]
  <2>1. Short(i) /\ Short(k)
    BY <1>1, <1>3
  <2>2. PICK x \in 1..NameWidth : DiffersAt(i, k, NameWidth, x)
    BY <1>3, <2>1, PaddedOrder
  <2> QED
    BY <2>1, <2>2 DEF DiffersAt
<1> HIDE DEF Short
<1>4. ASSUME m < n PROVE NameLess(m, n)
  <2>1. PICK x \in 1..NameWidth : /\ \A y \in 1..(x - 1) : Name(m)[y] = Name(n)[y]
                                  /\ Name(m)[x] < Name(n)[x]
    BY <1>3, <1>4
  <2>2. SubSeq(Name(m), 1, x - 1) = SubSeq(Name(n), 1, x - 1)
    BY <1>2, <2>1 DEF Short
  <2> QED
    BY <1>2, <2>1, <2>2 DEF NameLess, Short
<1>5. ASSUME NameLess(m, n), n <= m PROVE FALSE
  <2>1. ~IsStrictPrefix(Name(m), Name(n))
    <3>1. SUFFICES ASSUME IsPrefix(Name(m), Name(n)) PROVE Name(m) = Name(n)
      BY DEF IsStrictPrefix
    <3> QED
      BY <1>2, <3>1 DEF IsPrefix, Short
  <2>2. PICK x \in 1..NameWidth : /\ SubSeq(Name(m), 1, x - 1) = SubSeq(Name(n), 1, x - 1)
                                  /\ Name(m)[x] < Name(n)[x]
    BY <1>2, <1>5, <2>1 DEF NameLess, Short
  <2>3. \A y \in 1..(x - 1) : Name(m)[y] = Name(n)[y]
    <3>1. \A y \in 1..(x - 1) : /\ SubSeq(Name(m), 1, x - 1)[y] = Name(m)[y]
                                /\ SubSeq(Name(n), 1, x - 1)[y] = Name(n)[y]
      BY <1>2 DEF Short
    <3> QED
      BY <2>2, <3>1
  <2>4. n < m
    BY <1>2, <1>5, <2>2 DEF Short
  <2>5. PICK z \in 1..NameWidth : /\ \A y \in 1..(z - 1) : Name(n)[y] = Name(m)[y]
                                  /\ Name(n)[z] < Name(m)[z]
    BY <1>3, <2>4
  <2>6. \A y \in 1..NameWidth : Name(m)[y] \in Nat /\ Name(n)[y] \in Nat
    BY <1>2 DEF Short
  <2>7. x = z
    BY <2>2, <2>3, <2>5, <2>6
  <2> QED
    BY <2>2, <2>5, <2>6, <2>7
<1> QED
  BY <1>4, <1>5

(* A finite set of numbers can be listed in increasing order. *)
LEMMA Enumerated ==
  ASSUME NEW S \in SUBSET Nat, IsFiniteSet(S)
  PROVE  /\ Cardinality(S) \in Nat
         /\ \E s \in [1..Cardinality(S) -> S] :
              \A i, j \in 1..Cardinality(S) : i < j => s[i] < s[j]
<1> DEFINE k == Cardinality(S)
           UpTo(x) == {y \in S : y <= x}
           f == [x \in S |-> Cardinality(UpTo(x))]
<1>1. k \in Nat
  BY FS_CardinalityType
<1>2. ASSUME NEW x \in S
      PROVE  IsFiniteSet(UpTo(x)) /\ Cardinality(UpTo(x)) \in Nat
             /\ Cardinality(UpTo(x)) <= k
  <2>1. UpTo(x) \in SUBSET S
    OBVIOUS
  <2>2. IsFiniteSet(UpTo(x)) /\ Cardinality(UpTo(x)) <= k
    BY <2>1, FS_Subset
  <2> QED
    BY <2>2, FS_CardinalityType
<1>3. ASSUME NEW x \in S PROVE Cardinality(UpTo(x)) >= 1
  <2>1. UpTo(x) # {}
    OBVIOUS
  <2> HIDE DEF UpTo
  <2>2. Cardinality(UpTo(x)) # 0
    BY <1>2, <2>1, FS_EmptySet
  <2> QED
    BY <1>2, <2>2
<1>4. ASSUME NEW x \in S, NEW y \in S, x < y
      PROVE  Cardinality(UpTo(x)) < Cardinality(UpTo(y))
  <2>1. UpTo(x) \in SUBSET UpTo(y)
    <3>1. \A z \in S : z <= x => z <= y
      BY <1>4
    <3> QED
      BY <3>1
  <2>2. UpTo(x) # UpTo(y)
    <3>1. x \in Nat /\ y \in Nat /\ y <= y /\ ~(y <= x)
      BY <1>4
    <3> QED
      BY <3>1
  <2> HIDE DEF UpTo
  <2>3. Cardinality(UpTo(x)) <= Cardinality(UpTo(y)) /\ Cardinality(UpTo(x)) # Cardinality(UpTo(y))
    BY <1>2, <2>1, <2>2, FS_Subset
  <2> QED
    BY <1>2, <2>3
<1> HIDE DEF UpTo
<1>5. f \in [S -> 1..k]
  BY <1>1, <1>2, <1>3
<1>6. \A x, y \in S : x < y => f[x] < f[y]
  BY <1>4
<1>7. \A x \in S : f[x] \in Nat
  BY <1>1, <1>5
<1> HIDE DEF f
<1>8. f \in Injection(S, 1..k)
  <2>1. ASSUME NEW x \in S, NEW y \in S, f[x] = f[y] PROVE x = y
    <3>1. x \in Nat /\ y \in Nat /\ ~(x < y) /\ ~(y < x)
      BY <1>6, <1>7, <2>1
    <3> QED
      BY <3>1
  <2> QED
    BY <1>5, <2>1 DEF Injection, IsInjective
<1>9. IsFiniteSet(1..k) /\ Cardinality(1..k) = k
  BY <1>1, FS_Interval
<1>10. f \in Surjection(S, 1..k)
  BY <1>8, <1>9, FS_Injection
<1>11. \A i \in 1..k : \E x \in S : f[x] = i
  BY <1>10 DEF Surjection
<1> DEFINE s == [i \in 1..k |-> CHOOSE x \in S : f[x] = i]
<1>12. s \in [1..k -> S] /\ \A i \in 1..k : f[s[i]] = i
  BY <1>11
<1> HIDE DEF s
<1>13. ASSUME NEW i \in 1..k, NEW j \in 1..k, i < j PROVE s[i] < s[j]
  <2>1. s[i] \in S /\ s[j] \in S /\ f[s[i]] = i /\ f[s[j]] = j
    BY <1>12
  <2>2. s[i] \in Nat /\ s[j] \in Nat
    BY <2>1
  <2>3. s[j] < s[i] => j < i
    BY <1>6, <2>1
  <2>4. s[i] # s[j]
    BY <1>13, <2>1
  <2> QED
    BY <1>13, <2>2, <2>3, <2>4
<1> QED
  BY <1>1, <1>12, <1>13

(* An increasing list of k of the numbers 0 to k - 1 is all of them. *)
LEMMA Increasing ==
  ASSUME NEW k \in Nat, NEW s \in [1..k -> 0..(k - 1)],
         \A i, j \in 1..k : i < j => s[i] < s[j],
         NEW n \in 1..k
  PROVE  s[n] = n - 1
<1>1. \A i \in 1..k : s[i] \in Nat /\ s[i] <= k - 1
  OBVIOUS
<1>2. s[n] >= n - 1
  <2> DEFINE Low == {i \in Nat : i \in 1..k /\ s[i] < i - 1}
  <2>1. CASE Low = {}
    <3>1. n \in Nat
      OBVIOUS
    <3>2. n \notin Low
      BY <2>1, Zenon
    <3>3. ~(s[n] < n - 1)
      BY <3>1, <3>2, Zenon
    <3> QED
      BY <1>1, <3>3
  <2>2. CASE Low # {}
    <3>1. PICK i \in Low : \A j \in Low : i <= j
      BY <2>2, LeastNumber
    <3>2. s[i] \in Nat /\ i \in 1..k /\ s[i] < i - 1
      BY <1>1
    <3>3. i - 1 \in 1..k /\ i - 1 \in Nat /\ i - 1 < i
      BY <3>2
    <3>4. s[i - 1] < s[i] /\ s[i - 1] \in Nat
      BY <1>1, <3>2, <3>3
    <3>5. i - 1 \in Low
      BY <3>2, <3>3, <3>4
    <3> QED
      BY <3>1, <3>3, <3>5
  <2> QED
    BY <2>1, <2>2
<1>3. s[n] <= n - 1
  <2> DEFINE High == {i \in Nat : i \in 0..(k - 1) /\ s[k - i] > (k - i) - 1}
  <2>1. CASE High = {}
    <3>1. k - n \in Nat /\ k - n \in 0..(k - 1) /\ k - (k - n) = n
      OBVIOUS
    <3>2. ~(s[n] > n - 1)
      BY <2>1, <3>1
    <3> QED
      BY <1>1, <3>2
  <2>2. CASE High # {}
    <3>1. PICK i \in High : \A j \in High : i <= j
      BY <2>2, LeastNumber
    <3>2. i \in 0..(k - 1) /\ s[k - i] > (k - i) - 1 /\ k - i \in 1..k
      OBVIOUS
    <3>3. s[k - i] \in Nat /\ s[k - i] <= k - 1
      BY <1>1, <3>2
    <3>4. i - 1 \in Nat /\ i - 1 \in 0..(k - 1) /\ k - (i - 1) \in 1..k
      BY <3>2, <3>3
    <3>5. k - i < k - (i - 1)
      BY <3>2
    <3>6. s[k - i] < s[k - (i - 1)] /\ s[k - (i - 1)] \in Nat
      BY <1>1, <3>2, <3>4, <3>5
    <3>7. s[k - (i - 1)] > (k - (i - 1)) - 1
      BY <3>2, <3>3, <3>6
    <3>8. i - 1 \in High
      BY <3>4, <3>7
    <3>9. i - 1 < i /\ i \in Nat
      BY <3>2
    <3>10. i <= i - 1
      BY <3>1, <3>8
    <3> QED
      BY <3>9, <3>10
  <2> QED
    BY <2>1, <2>2
<1>4. s[n] \in Nat /\ n \in Nat
  BY <1>1
<1>5. \A x, y \in Nat : x >= y - 1 /\ x <= y - 1 => x = y - 1
  OBVIOUS
<1> QED
  BY <1>2, <1>3, <1>4, <1>5

(* listShards lists the shards there are; shards 0 to k - 1 are listed in  *)
(* the order of their numbers.                                             *)
LEMMA Listed ==
  ASSUME Existing \subseteq Numbers, \A n \in Existing : n < maxShardCount
  PROVE  /\ listShards \in Seq(Existing)
         /\ Existing # {} => listShards # << >>
         /\ \A k \in Nat : Dense(k) => /\ Len(listShards) = k
                                     /\ \A i \in DOMAIN listShards : listShards[i] = i - 1
<1> DEFINE c == Cardinality(Existing)
           Listing(s) == \A i, j \in DOMAIN s : i < j => NameLess(s[i], s[j])
<1>1. Existing \in SUBSET Nat /\ \A n \in Existing : n \in 0..maxShardCount
  BY NumbersOK
<1>2. IsFiniteSet(Existing)
  <2>1. IsFiniteSet(0..maxShardCount)
    BY FS_Interval
  <2> QED
    BY <1>1, <2>1, FS_Subset
<1>3. c \in Nat
  BY <1>1, <1>2, Enumerated
<1>4. \A m, n \in Existing : NameLess(m, n) <=> m < n
  BY <1>1, NamesSort
<1>5. PICK s \in [1..c -> Existing] : \A i, j \in 1..c : i < j => s[i] < s[j]
  BY <1>1, <1>2, Enumerated
<1>6. Listing(s)
  BY <1>4, <1>5
<1> HIDE DEF c
<1>7. listShards \in [1..c -> Existing] /\ Listing(listShards)
  BY <1>6 DEF listShards, c
<1> HIDE DEF Listing
<1>8. listShards \in Seq(Existing) /\ Len(listShards) = c
  BY <1>3, <1>7
<1>9. Existing # {} => listShards # << >>
  <2>1. Existing # {} => c # 0
    BY <1>2, FS_EmptySet DEF c
  <2> QED
    BY <1>8, <2>1
<1>10. ASSUME NEW k \in Nat, Dense(k)
       PROVE  Len(listShards) = k /\ \A i \in DOMAIN listShards : listShards[i] = i - 1
  <2>1. Existing = 0..(k - 1)
    BY <1>10 DEF Dense
  <2>2. c = k
    BY <2>1, FS_Interval DEF c
  <2>3. \A i, j \in 1..k : i < j => listShards[i] < listShards[j]
    BY <1>4, <1>7, <2>2 DEF Listing
  <2>4. listShards \in [1..k -> 0..(k - 1)]
    BY <1>7, <2>1, <2>2
  <2>5. \A i \in 1..k : listShards[i] = i - 1
    BY <2>3, <2>4, Increasing
  <2> QED
    BY <1>8, <2>2, <2>5
<1> QED
  BY <1>8, <1>9, <1>10

(* With a shard open, the modulus picks one of the open shards. *)
LEMMA ShardIsOpen ==
  ASSUME shards \in Seq(Numbers), shards # << >>, NEW d \in Docs
  PROVE  /\ Hash[d] % Len(shards) \in 0..(Len(shards) - 1)
         /\ 1 + (Hash[d] % Len(shards)) \in DOMAIN shards
         /\ Shard(d) \in Numbers
<1>1. Len(shards) \in Nat \ {0} /\ Hash[d] \in Nat
  OBVIOUS
<1>2. Hash[d] % Len(shards) \in 0..(Len(shards) - 1)
  BY <1>1
<1> QED
  BY <1>1, <1>2 DEF Shard

(* The shards are 0 to k - 1 for one k only. *)
LEMMA DenseOnce ==
  ASSUME NEW j \in Nat, NEW k \in Nat, Dense(j), Dense(k)
  PROVE  j = k
<1>1. \A n \in Nat : n < j <=> n < k
  BY DEF Dense
<1> QED
  BY <1>1

(* At first there is no directory and no process. *)
LEMMA InitIInv == Init => IInv
<1> SUFFICES ASSUME Init PROVE IInv
  OBVIOUS
<1>1. TypeOK
  <2>1. crashes \in 0..MaxCrashes /\ faults \in 0..MaxFaults
    BY DEF Init
  <2>2. docs \in [Numbers -> SUBSET sent]
    BY DEF Init
  <2>3. DOMAIN shards = {}
    BY DEF Init
  <2> QED
    BY <2>1, <2>2, <2>3 DEF Init, TypeOK
<1>2. Staged
  <2>1. shards \in Seq(Numbers) /\ Existing = {}
    BY DEF Init, Existing
  <2> QED
    BY <2>1 DEF Init, Staged, Creating, InDirectory
<1>3. Whole
  BY DEF Init, Whole, Existing
<1>4. Gone
  BY DEF Init, Gone
<1>5. Placed
  <2>1. Dense(0)
    BY DEF Init, Existing, Dense
  <2> QED
    BY <2>1 DEF Init, Placed, Creating
<1> QED
  BY <1>1, <1>2, <1>3, <1>4, <1>5 DEF IInv

(* Every step keeps the types, and no shard is half written under a reader. *)
LEMMA TypeStep == IInv /\ [Next]_vars => TypeOK'
<1> SUFFICES ASSUME IInv, [Next]_vars PROVE TypeOK'
  OBVIOUS
<1> USE DEF IInv, Creating
<1>1. CASE Start
  <2>1. Existing \subseteq Numbers /\ \A n \in Existing : n < maxShardCount
    BY DEF Staged, Existing
  <2>2. listShards \in Seq(Existing)
    BY <2>1, Listed
  <2>3. CASE pc' = "open"
    <3>1. shards' = listShards /\ \A n \in Numbers : shard[n] # "torn"
      BY <1>1, <2>3 DEF Start, OpenIndex, Die
    <3>2. \A i \in DOMAIN shards' : shards'[i] \in Existing
      BY <2>2, <3>1
    <3>3. \A i \in DOMAIN shards' : shard[shards'[i]] = "ok"
      BY <3>1, <3>2 DEF Existing, TypeOK
    <3> QED
      BY <1>1, <2>3, <3>3 DEF Start, OpenIndex, Die, TypeOK, disk, history
  <2>4. CASE pc' # "open"
    BY <1>1, <2>4 DEF Start, OpenIndex, Die, TypeOK, Staged, disk, history
  <2> QED
    BY <2>3, <2>4
<1>2. CASE Crash
  BY <1>2 DEF Crash, Die, TypeOK, Staged, disk
<1>3. CASE NewIndex
  BY <1>3 DEF NewIndex, Die, TypeOK, Staged, disk, history
<1>4. CASE MkdirAll
  BY <1>4 DEF MkdirAll, TypeOK, history
<1>5. CASE CreateEndtime
  BY <1>5 DEF CreateEndtime, TypeOK, history, Staged, InDirectory
<1>6. CASE WriteEndtime
  BY <1>6 DEF WriteEndtime, TypeOK, history, Staged, InDirectory
<1>7. CASE ShardOpen
  <2>1. Len(shards) \in Numbers /\ dir
    BY <1>7, NumbersOK DEF ShardOpen, TypeOK, Staged, InDirectory
  <2>2. \A n \in Numbers : docs[n] # {} => shard'[n] = "ok"
    BY <1>7, <2>1 DEF ShardOpen, TypeOK
  <2>3. \A i \in DOMAIN shards' : shard'[shards'[i]] = "ok"
    <3> DEFINE n == Len(shards)
    <3>1. CASE shards' = shards
      BY <1>7, <2>1, <3>1 DEF ShardOpen, TypeOK, Staged
    <3>2. CASE shard[n] = "ok" /\ shard' = shard /\ shards' = Append(shards, n)
      <4>1. shards \in Seq(Numbers)
        BY DEF Staged
      <4>2. \A i \in DOMAIN shards' :
               shards'[i] = n \/ (i \in DOMAIN shards /\ shards'[i] = shards[i])
        BY <3>2, <4>1
      <4> QED
        BY <3>2, <4>2 DEF TypeOK
    <3>3. CASE shards' = << >>
      BY <3>3
    <3> QED
      BY <1>7, <3>1, <3>2, <3>3 DEF ShardOpen, Die
  <2> QED
    BY <1>7, <2>1, <2>2, <2>3 DEF ShardOpen, Die, TypeOK, history
<1>8. CASE BleveNewDone
  BY <1>8, NumbersOK DEF BleveNewDone, TypeOK, history, Staged, InDirectory
<1>9. CASE NewIndexReturns
  BY <1>9 DEF NewIndexReturns, TypeOK, disk, history
<1>10. ASSUME NEW D \in SUBSET (Docs \ sent), Index(D) PROVE TypeOK'
  BY <1>10 DEF Index, Die, TypeOK, disk
<1>11. ASSUME NEW n \in Numbers, ShardIndex(n) PROVE TypeOK'
  <2>1. PICK d \in batch : Shard(d) = n
    BY <1>11 DEF ShardIndex, Unwritten
  <2>2. shard[n] = "ok"
    BY <2>1, ShardIsOpen DEF TypeOK, Staged, Shard
  <2> QED
    BY <1>11, <2>2 DEF ShardIndex, Unwritten, TypeOK, history
<1>12. ASSUME NEW n \in Numbers, RemoveShard(n) PROVE TypeOK'
  BY <1>12 DEF RemoveShard, TypeOK, history, Staged, InDirectory
<1>13. CASE IndexReturns
  BY <1>13 DEF IndexReturns, TypeOK, disk
<1>14. CASE DeleteIndex
  BY <1>14 DEF DeleteIndex, TypeOK, disk
<1>15. CASE RemoveEndtime
  BY <1>15 DEF RemoveEndtime, TypeOK, history
<1>16. CASE RemoveDir
  BY <1>16 DEF RemoveDir, Removed, TypeOK, history
<1>17. CASE RemoveFails
  BY <1>17 DEF RemoveFails, TypeOK, disk
<1>18. CASE UNCHANGED vars
  BY <1>18 DEF vars, disk, history, TypeOK
<1>19. CASE MakeShardsPanics
  BY <1>19 DEF MakeShardsPanics, Die, TypeOK, Staged, disk, history
<1> QED
  BY <1>1, <1>2, <1>3, <1>4, <1>5, <1>6, <1>7, <1>8, <1>9, <1>10, <1>11,
     <1>12, <1>13, <1>14, <1>15, <1>16, <1>17, <1>18, <1>19 DEF Next

(* NewIndex goes through its steps in order, and no shard has a number     *)
(* that its name does not hold.                                            *)
LEMMA StagedStep == IInv /\ [Next]_vars => Staged'
<1> SUFFICES ASSUME IInv, [Next]_vars PROVE Staged'
  OBVIOUS
<1> USE DEF IInv, Creating, InDirectory
<1>1. CASE Start
  <2>1. Existing' = Existing
    BY <1>1 DEF Start, disk, Existing
  <2>2. shards' \in Seq(Numbers)
    <3>1. listShards \in Seq(Existing) /\ Existing \subseteq Numbers
      BY Listed DEF Staged, Existing
    <3> QED
      BY <1>1, <3>1 DEF Start, OpenIndex, Die, Staged
  <2> QED
    BY <1>1, <2>1, <2>2 DEF Start, OpenIndex, Die, disk, history, Staged, TypeOK
<1>2. CASE Crash
  BY <1>2 DEF Crash, Die, disk, Staged, TypeOK, Existing
<1>3. CASE NewIndex
  BY <1>3 DEF NewIndex, ShardCountOK, Die, disk, history, Staged, TypeOK, Existing
<1>4. CASE MkdirAll
  BY <1>4 DEF MkdirAll, history, Staged, TypeOK, Existing
<1>5. CASE CreateEndtime
  BY <1>5 DEF CreateEndtime, history, Staged, TypeOK, Existing
<1>6. CASE WriteEndtime
  BY <1>6 DEF WriteEndtime, history, Staged, TypeOK, Existing
<1>7. CASE ShardOpen
  <2> DEFINE n == Len(shards)
  <2>1. n \in Nat /\ n \in Numbers /\ numShards \in Nat /\ n < maxShardCount
    BY <1>7, NumbersOK DEF ShardOpen, TypeOK, Staged
  <2>2. \A m \in Existing' : m < maxShardCount
    BY <1>7, <2>1 DEF ShardOpen, TypeOK, Staged, Existing
  <2>3. shards' \in Seq(Numbers)
    <3>1. shards' = shards \/ shards' = Append(shards, n) \/ shards' = << >>
      BY <1>7 DEF ShardOpen, Die
    <3>2. shards \in Seq(Numbers)
      BY DEF Staged
    <3>3. Append(shards, n) \in Seq(Numbers) /\ << >> \in Seq(Numbers)
      BY <2>1, <3>2
    <3> QED
      BY <3>1, <3>2, <3>3
  <2>4. pc' \in {"shards", "bleve_new"} => \A i \in DOMAIN shards' : shards'[i] = i - 1
    <3>1. shards \in Seq(Numbers) /\ \A i \in DOMAIN shards : shards[i] = i - 1
      BY <1>7 DEF ShardOpen, Staged
    <3>2. \A i \in DOMAIN Append(shards, n) : Append(shards, n)[i] = i - 1
      BY <2>1, <3>1
    <3>3. \/ shards' \in {shards, Append(shards, n)}
          \/ pc' = "down"
      BY <1>7 DEF ShardOpen, Die
    <3> QED
      BY <3>1, <3>2, <3>3
  <2>5. pc' = "bleve_new" => shards' = shards /\ n < numShards /\ shard'[n] = "torn"
    BY <1>7, <2>1 DEF ShardOpen, Die, TypeOK
  <2> QED
    BY <1>7, <2>2, <2>3, <2>4, <2>5 DEF ShardOpen, Die, history, Staged
<1>8. CASE BleveNewDone
  <2> DEFINE n == Len(shards)
  <2>1. n \in Nat /\ n \in Numbers /\ numShards \in Nat /\ n < maxShardCount
    BY <1>8, NumbersOK DEF BleveNewDone, TypeOK, Staged
  <2>2. \A m \in Existing' : m < maxShardCount
    BY <1>8, <2>1 DEF BleveNewDone, TypeOK, Staged, Existing
  <2>3. shards' \in Seq(Numbers)
    BY <1>8, <2>1 DEF BleveNewDone, Staged
  <2>4. \A i \in DOMAIN shards' : shards'[i] = i - 1
    BY <1>8, <2>1 DEF BleveNewDone, Staged
  <2> QED
    BY <1>8, <2>2, <2>3, <2>4 DEF BleveNewDone, history, Staged
<1>9. CASE NewIndexReturns
  BY <1>9 DEF NewIndexReturns, disk, history, Staged, TypeOK, Existing
<1>10. ASSUME NEW D \in SUBSET (Docs \ sent), Index(D) PROVE Staged'
  BY <1>10 DEF Index, Die, disk, Staged, TypeOK, Existing
<1>11. ASSUME NEW n \in Numbers, ShardIndex(n) PROVE Staged'
  BY <1>11 DEF ShardIndex, Unwritten, history, Staged, TypeOK, Existing
<1>12. ASSUME NEW n \in Numbers, RemoveShard(n) PROVE Staged'
  BY <1>12 DEF RemoveShard, history, Staged, TypeOK, Existing
<1>13. CASE IndexReturns
  BY <1>13 DEF IndexReturns, disk, Staged, TypeOK, Existing
<1>14. CASE DeleteIndex
  BY <1>14 DEF DeleteIndex, disk, Staged, TypeOK, Existing
<1>15. CASE RemoveEndtime
  BY <1>15 DEF RemoveEndtime, history, Staged, TypeOK, Existing
<1>16. CASE RemoveDir
  BY <1>16 DEF RemoveDir, Removed, history, Staged, TypeOK, Existing
<1>17. CASE RemoveFails
  BY <1>17 DEF RemoveFails, disk, Staged, TypeOK, Existing
<1>18. CASE UNCHANGED vars
  BY <1>18 DEF vars, disk, history, Staged, TypeOK, Existing
<1>19. CASE MakeShardsPanics
  BY <1>19 DEF MakeShardsPanics, Die, disk, history, Staged, TypeOK, Existing
<1> QED
  BY <1>1, <1>2, <1>3, <1>4, <1>5, <1>6, <1>7, <1>8, <1>9, <1>10, <1>11,
     <1>12, <1>13, <1>14, <1>15, <1>16, <1>17, <1>18, <1>19 DEF Next

(* Only what is recorded in cut leaves the directory unfit for OpenIndex. *)
LEMMA WholeStep == IInv /\ [Next]_vars => Whole'
<1> SUFFICES ASSUME IInv, [Next]_vars PROVE Whole'
  OBVIOUS
<1> USE DEF IInv, Creating
<1>1. CASE Start
  <2>1. Existing' = Existing
    BY <1>1 DEF Start, disk, Existing
  <2>2. Existing # {} => listShards # << >>
    BY Listed DEF Staged, Existing
  <2> QED
    BY <1>1, <2>1, <2>2 DEF Start, OpenIndex, Die, disk, history, Whole, TypeOK
<1>2. CASE Crash
  BY <1>2 DEF Crash, Die, disk, Whole, Staged, TypeOK, Existing, InDirectory
<1>3. CASE NewIndex
  BY <1>3 DEF NewIndex, Die, disk, history, Whole, Staged, TypeOK, Existing, InDirectory
<1>4. CASE MkdirAll
  BY <1>4 DEF MkdirAll, history, Whole, Staged, TypeOK, Existing, InDirectory
<1>5. CASE CreateEndtime
  BY <1>5 DEF CreateEndtime, history, Whole, Staged, TypeOK, Existing, InDirectory
<1>6. CASE WriteEndtime
  BY <1>6 DEF WriteEndtime, history, Whole, Staged, TypeOK, Existing, InDirectory
<1>7. CASE ShardOpen
  BY <1>7 DEF ShardOpen, Die, history, Whole, Staged, TypeOK, Existing, InDirectory
<1>8. CASE BleveNewDone
  BY <1>8 DEF BleveNewDone, history, Whole, Staged, TypeOK, Existing, InDirectory
<1>9. CASE NewIndexReturns
  <2>1. shardless \/ shards # << >>
    <3>1. (shardless <=> numShards <= 0) /\ Len(shards) >= numShards
      BY <1>9 DEF NewIndexReturns, Staged
    <3>2. numShards \in Int /\ shards \in Seq(Numbers)
      BY DEF TypeOK, Staged
    <3> QED
      BY <3>1, <3>2
  <2>2. shards # << >> => Existing # {}
    <3>1. shards # << >> => 1 \in DOMAIN shards
      BY DEF Staged
    <3>2. shards # << >> => shards[1] \in Numbers /\ shard[shards[1]] = "ok"
      BY <3>1 DEF Staged, TypeOK
    <3> QED
      BY <3>2 DEF Existing
  <2>3. Existing' = Existing
    BY <1>9 DEF NewIndexReturns, disk, Existing
  <2> QED
    BY <1>9, <2>1, <2>2, <2>3 DEF NewIndexReturns, disk, history, Whole, Staged
<1>10. ASSUME NEW D \in SUBSET (Docs \ sent), Index(D) PROVE Whole'
  BY <1>10 DEF Index, Die, disk, Whole, Staged, TypeOK, Existing, InDirectory
<1>11. ASSUME NEW n \in Numbers, ShardIndex(n) PROVE Whole'
  BY <1>11 DEF ShardIndex, Unwritten, history, Whole, Staged, TypeOK, Existing, InDirectory
<1>12. ASSUME NEW n \in Numbers, RemoveShard(n) PROVE Whole'
  BY <1>12 DEF RemoveShard, history, Whole, Staged, TypeOK, Existing, InDirectory
<1>13. CASE IndexReturns
  BY <1>13 DEF IndexReturns, disk, Whole, Staged, TypeOK, Existing, InDirectory
<1>14. CASE DeleteIndex
  BY <1>14 DEF DeleteIndex, disk, Whole, Staged, TypeOK, Existing, InDirectory
<1>15. CASE RemoveEndtime
  BY <1>15 DEF RemoveEndtime, history, Whole, Staged, TypeOK, Existing, InDirectory
<1>16. CASE RemoveDir
  BY <1>16 DEF RemoveDir, Removed, history, Whole, Staged, TypeOK, Existing, InDirectory
<1>17. CASE RemoveFails
  BY <1>17 DEF RemoveFails, disk, Whole, Staged, TypeOK, Existing, InDirectory
<1>18. CASE UNCHANGED vars
  BY <1>18 DEF vars, disk, history, Whole, Staged, TypeOK, Existing, InDirectory
<1>19. CASE MakeShardsPanics
  <2>1. shardless
    <3>1. (shardless <=> numShards <= 0) /\ numShards < 0
      BY <1>19 DEF MakeShardsPanics, Staged
    <3>2. numShards \in Int
      BY DEF TypeOK
    <3> QED
      BY <3>1, <3>2
  <2>2. /\ Existing' = Existing
        /\ UNCHANGED <<dir, endtime, shard, cut, shardless>>
        /\ pc = "shards" /\ pc' = "down" /\ shards' = << >>
    BY <1>19 DEF MakeShardsPanics, Die, disk, history, Existing
  <2> QED
    BY <2>1, <2>2 DEF Whole, Staged
<1> QED
  BY <1>1, <1>2, <1>3, <1>4, <1>5, <1>6, <1>7, <1>8, <1>9, <1>10, <1>11,
     <1>12, <1>13, <1>14, <1>15, <1>16, <1>17, <1>18, <1>19 DEF Next

(* Deleted documents are in no shard. *)
LEMMA GoneStep == IInv /\ [Next]_vars => Gone'
<1> SUFFICES ASSUME IInv, [Next]_vars PROVE Gone'
  OBVIOUS
<1> USE DEF IInv
<1>1. CASE Start
  BY <1>1 DEF Start, OpenIndex, Die, disk, history, Gone, Staged, TypeOK
<1>2. CASE Crash
  BY <1>2 DEF Crash, Die, disk, Gone, Staged, TypeOK
<1>3. CASE NewIndex
  BY <1>3 DEF NewIndex, Die, disk, history, Gone, Staged, TypeOK
<1>4. CASE MkdirAll
  BY <1>4 DEF MkdirAll, history, Gone, Staged, TypeOK
<1>5. CASE CreateEndtime
  BY <1>5 DEF CreateEndtime, history, Gone, Staged, TypeOK
<1>6. CASE WriteEndtime
  BY <1>6 DEF WriteEndtime, history, Gone, Staged, TypeOK
<1>7. CASE ShardOpen
  BY <1>7 DEF ShardOpen, Die, history, Gone, Staged, TypeOK
<1>8. CASE BleveNewDone
  BY <1>8 DEF BleveNewDone, history, Gone, Staged, TypeOK
<1>9. CASE NewIndexReturns
  BY <1>9 DEF NewIndexReturns, disk, history, Gone, Staged, TypeOK
<1>10. ASSUME NEW D \in SUBSET (Docs \ sent), Index(D) PROVE Gone'
  BY <1>10 DEF Index, Die, disk, Gone, Staged, TypeOK
<1>11. ASSUME NEW n \in Numbers, ShardIndex(n) PROVE Gone'
  BY <1>11 DEF ShardIndex, Unwritten, history, Gone, Staged, TypeOK
<1>12. ASSUME NEW n \in Numbers, RemoveShard(n) PROVE Gone'
  BY <1>12 DEF RemoveShard, history, Gone, Staged, TypeOK
<1>13. CASE IndexReturns
  BY <1>13 DEF IndexReturns, disk, Gone, Staged, TypeOK
<1>14. CASE DeleteIndex
  BY <1>14 DEF DeleteIndex, disk, Gone, Staged, TypeOK
<1>15. CASE RemoveEndtime
  BY <1>15 DEF RemoveEndtime, history, Gone, Staged, TypeOK
<1>16. CASE RemoveDir
  BY <1>16 DEF RemoveDir, Removed, history, Gone, Staged, TypeOK
<1>17. CASE RemoveFails
  BY <1>17 DEF RemoveFails, disk, Gone, Staged, TypeOK
<1>18. CASE UNCHANGED vars
  BY <1>18 DEF vars, disk, history, Gone, Staged, TypeOK
<1>19. CASE MakeShardsPanics
  BY <1>19 DEF MakeShardsPanics, Die, disk, history, Gone, Staged, TypeOK
<1> QED
  BY <1>1, <1>2, <1>3, <1>4, <1>5, <1>6, <1>7, <1>8, <1>9, <1>10, <1>11,
     <1>12, <1>13, <1>14, <1>15, <1>16, <1>17, <1>18, <1>19 DEF Next

(* Every acknowledged document stays where the next start looks for it. *)
LEMMA PlacedStep == IInv /\ [Next]_vars => Placed'
<1> SUFFICES ASSUME IInv, [Next]_vars PROVE Placed'
  OBVIOUS
<1> USE DEF IInv, Creating
<1>1. CASE Start
  <2>1. /\ Existing' = Existing
        /\ UNCHANGED <<docs, acked, dir, cut>>
        /\ batch = {} /\ batch' = {}
    BY <1>1 DEF Start, OpenIndex, Die, disk, history, Existing, Staged
  <2>2. \A k \in Nat : Dense(k)' <=> Dense(k)
    BY <2>1 DEF Dense
  <2>3. CASE pc' = "idle"
    BY <1>1, <2>1, <2>2, <2>3 DEF Start, OpenIndex, Die, Placed
  <2>4. CASE pc' = "failed"
    BY <1>1, <2>1, <2>2, <2>4 DEF Start, OpenIndex, Die, Placed
  <2>5. CASE pc' = "open"
    <3>1. shards' = listShards
      BY <1>1, <2>5 DEF Start, OpenIndex, Die
    <3>2. "removing" \notin cut => /\ Dense(Len(listShards))
                                   /\ \A i \in DOMAIN listShards : listShards[i] = i - 1
      <4> SUFFICES ASSUME "removing" \notin cut
                   PROVE  /\ Dense(Len(listShards))
                          /\ \A i \in DOMAIN listShards : listShards[i] = i - 1
        OBVIOUS
      <4>1. PICK k \in Nat : Dense(k)
        BY <1>1 DEF Start, Placed
      <4> QED
        BY <4>1, Listed DEF Staged, Existing
    <3>3. listShards \in Seq(Existing)
      BY Listed DEF Staged, Existing
    <3>4. "removing" \notin cut => Dense(Len(shards))'
      BY <2>2, <3>1, <3>2, <3>3
    <3> QED
      BY <1>1, <2>1, <2>2, <2>5, <3>1, <3>2, <3>4 DEF Start, Placed
  <2> QED
    BY <1>1, <2>3, <2>4, <2>5 DEF Start, OpenIndex, Die
<1>2. CASE Crash
  <2>1. /\ Existing' = Existing
        /\ UNCHANGED <<docs, acked, dir>>
        /\ pc' = "down" /\ batch' = {} /\ shards' = << >>
    BY <1>2 DEF Crash, Die, disk, Existing
  <2>2. \A k \in Nat : Dense(k)' <=> Dense(k)
    BY <2>1 DEF Dense
  <2>3. "removing" \notin cut' => "removing" \notin cut /\ pc # "removing"
    BY <1>2 DEF Crash, Die
  <2>4. Existing = {} => Dense(0)
    BY DEF Dense
  <2>5. ~dir => Existing = {}
    BY DEF TypeOK, Existing
  <2>6. "removing" \notin cut' => \E k \in Nat : Dense(k)
    <3>1. Len(shards) \in Nat
      BY DEF Staged
    <3> QED
      BY <1>2, <2>3, <2>4, <2>5, <3>1 DEF Crash, Placed, TypeOK
  <2> QED
    BY <2>1, <2>2, <2>3, <2>6 DEF Placed
<1>3. CASE NewIndex
  <2>1. /\ Existing' = Existing
        /\ UNCHANGED <<docs, acked, dir, cut>>
        /\ pc = "idle" /\ pc' \in {"mkdir", "down"}
        /\ batch = {} /\ batch' = {}
    BY <1>3 DEF NewIndex, Die, disk, history, Staged, Existing
  <2>2. \A k \in Nat : Dense(k)' <=> Dense(k)
    BY <2>1 DEF Dense
  <2>3. ~dir => Dense(0)
    BY DEF TypeOK, Existing, Dense
  <2> QED
    BY <2>1, <2>2, <2>3 DEF Placed
<1>4. CASE MkdirAll
  BY <1>4 DEF MkdirAll, history, Placed, Staged, TypeOK, Existing, Dense
<1>5. CASE CreateEndtime
  BY <1>5 DEF CreateEndtime, history, Placed, Staged, TypeOK, Existing, Dense
<1>6. CASE WriteEndtime
  BY <1>6 DEF WriteEndtime, history, Placed, Staged, TypeOK, Existing, Dense
<1>7. CASE ShardOpen
  <2> DEFINE n == Len(shards)
  <2>1. n \in Nat /\ n \in Numbers /\ acked = {} /\ batch = {}
    BY <1>7, NumbersOK DEF ShardOpen, TypeOK, Staged, Placed
  <2>2. CASE "removing" \in cut
    BY <1>7, <2>1, <2>2 DEF ShardOpen, Die, history, Placed
  <2>3. CASE "removing" \notin cut
    <3>1. Existing = 0..(n - 1)
      BY <1>7, <2>3 DEF ShardOpen, Placed, Dense
    <3>2. shard[n] = "absent"
      BY <2>1, <3>1 DEF Existing
    <3>3. /\ shard' = [shard EXCEPT ![n] = "torn"] /\ pc' = "bleve_new"
          /\ UNCHANGED <<shards, batch, cut, acked, dir>>
      BY <1>7, <3>2 DEF ShardOpen, history
    <3>4. Existing' = Existing \cup {n}
      BY <2>1, <3>3 DEF Existing, TypeOK
    <3>5. Existing \cup {n} = 0..((n + 1) - 1)
      BY <2>1, <3>1
    <3>6. (Len(shards) + 1)' = n + 1
      BY <3>3
    <3>7. Dense(Len(shards) + 1)'
      BY <3>4, <3>5, <3>6 DEF Dense
    <3> QED
      BY <2>1, <3>3, <3>7 DEF Placed
  <2> QED
    BY <2>2, <2>3
<1>8. CASE BleveNewDone
  BY <1>8 DEF BleveNewDone, history, Placed, Staged, TypeOK, Existing, Dense
<1>9. CASE NewIndexReturns
  BY <1>9 DEF NewIndexReturns, disk, history, Placed, Staged, TypeOK, Existing, Dense
<1>10. ASSUME NEW D \in SUBSET (Docs \ sent), Index(D) PROVE Placed'
  <2>1. /\ Existing' = Existing
        /\ UNCHANGED <<docs, acked, dir, cut>>
        /\ shards' = shards \/ (pc' = "down" /\ batch' = {})
        /\ pc = "open" /\ pc' \in {"open", "down"} /\ batch' \in {D, {}}
    BY <1>10 DEF Index, Die, disk, Existing
  <2>2. \A k \in Nat : Dense(k)' <=> Dense(k)
    BY <2>1 DEF Dense
  <2>3. \A d \in D, n \in Numbers : d \notin docs[n]
    BY DEF TypeOK
  <2>4. pc' = "open" /\ "removing" \notin cut => Dense(Len(shards))'
    BY <2>1, <2>2 DEF Placed, Staged
  <2> QED
    BY <2>1, <2>2, <2>3, <2>4 DEF Placed
<1>11. ASSUME NEW n \in Numbers, ShardIndex(n) PROVE Placed'
  <2>1. /\ Existing' = Existing
        /\ UNCHANGED <<pc, shards, acked, dir, cut, batch>>
        /\ docs' = [docs EXCEPT ![n] = @ \cup {d \in Unwritten : Shard(d) = n}]
    BY <1>11 DEF ShardIndex, history, Existing
  <2>2. \A k \in Nat : Dense(k)' <=> Dense(k)
    BY <2>1 DEF Dense
  <2>3. \A m \in Numbers : docs[m] \subseteq docs'[m]
    BY <2>1 DEF TypeOK
  <2>4. \A d \in batch, m \in Numbers : d \in docs'[m] => m = Shard(d)
    BY <2>1 DEF TypeOK, Placed
  <2>5. \A d \in batch : Shard(d)' = Shard(d)
    BY <2>1 DEF Shard
  <2>6. \A d, m : m \in Numbers /\ d \in docs[m] => d \in docs'[m]
    BY <2>3
  <2>7. \A k \in Nat, d \in acked :
           k > 0 /\ Dense(k) => Hash[d] % k \in Numbers
    BY DEF TypeOK, Dense, Existing
  <2>8. pc = "open" /\ "removing" \notin cut => Dense(Len(shards))'
    BY <2>1, <2>2 DEF Placed, Staged
  <2> QED
    BY <2>1, <2>2, <2>4, <2>5, <2>6, <2>7, <2>8 DEF Placed
<1>12. ASSUME NEW n \in Numbers, RemoveShard(n) PROVE Placed'
  BY <1>12 DEF RemoveShard, history, Placed, Staged, TypeOK, Existing, Dense
<1>13. CASE IndexReturns
  <2>1. /\ Existing' = Existing
        /\ UNCHANGED <<pc, shards, docs, dir, cut>>
        /\ acked' = acked \cup batch /\ batch' = {}
        /\ pc = "open" /\ shards # << >> /\ dir
    BY <1>13 DEF IndexReturns, disk, Existing, Staged, InDirectory
  <2>2. \A k \in Nat : Dense(k)' <=> Dense(k)
    BY <2>1 DEF Dense
  <2>3. ASSUME "removing" \notin cut, NEW k \in Nat, Dense(k), NEW d \in batch
        PROVE  k > 0 /\ d \in docs[Hash[d] % k]
    <3>1. k = Len(shards) /\ \A i \in DOMAIN shards : shards[i] = i - 1
      BY <2>1, <2>3, DenseOnce DEF Placed, Staged
    <3>2. d \in Docs
      BY DEF TypeOK
    <3>3. Shard(d) = Hash[d] % k
      BY <2>1, <3>1, <3>2, ShardIsOpen DEF Shard, Staged
    <3>4. d \in docs[Shard(d)]
      BY <1>13 DEF IndexReturns, Unwritten, Placed
    <3> QED
      BY <2>1, <3>1, <3>3, <3>4 DEF Staged
  <2>4. "removing" \notin cut => Dense(Len(shards))'
    BY <2>1, <2>2 DEF Placed, Staged
  <2> QED
    BY <2>1, <2>2, <2>3, <2>4 DEF Placed
<1>14. CASE DeleteIndex
  BY <1>14 DEF DeleteIndex, disk, Placed, Staged, TypeOK, Existing, Dense
<1>15. CASE RemoveEndtime
  BY <1>15 DEF RemoveEndtime, history, Placed, Staged, TypeOK, Existing, Dense
<1>16. CASE RemoveDir
  BY <1>16 DEF RemoveDir, Removed, history, Placed, Staged, TypeOK, Existing, Dense
<1>17. CASE RemoveFails
  BY <1>17 DEF RemoveFails, disk, Placed, Staged, TypeOK, Existing, Dense
<1>18. CASE UNCHANGED vars
  BY <1>18 DEF vars, disk, history, Placed, Existing, Dense, Shard
<1>19. CASE MakeShardsPanics
  <2>1. /\ Existing' = Existing
        /\ UNCHANGED <<docs, acked, dir, cut>>
        /\ pc = "shards" /\ pc' = "down" /\ batch' = {} /\ shards' = << >>
    BY <1>19 DEF MakeShardsPanics, Die, disk, history, Existing
  <2>2. \A k \in Nat : Dense(k)' <=> Dense(k)
    BY <2>1 DEF Dense
  <2>3. "removing" \notin cut => Len(shards) \in Nat /\ Dense(Len(shards))
    BY <2>1 DEF Placed, Staged
  <2> QED
    BY <2>1, <2>2, <2>3 DEF Placed
<1> QED
  BY <1>1, <1>2, <1>3, <1>4, <1>5, <1>6, <1>7, <1>8, <1>9, <1>10, <1>11,
     <1>12, <1>13, <1>14, <1>15, <1>16, <1>17, <1>18, <1>19 DEF Next

(* The inductive invariant holds throughout. *)
THEOREM Invariance == Spec => []IInv
<1>1. IInv /\ [Next]_vars => IInv'
  BY TypeStep, StagedStep, WholeStep, GoneStep, PlacedStep DEF IInv
<1> QED
  BY InitIInv, <1>1, PTL DEF Spec

(* Types, and that only whole shards of an existing directory are open or  *)
(* hold documents, whenever the process dies.                              *)
THEOREM TypeCorrect == Spec => []TypeOK
<1>1. IInv => TypeOK
  BY DEF IInv
<1> QED
  BY Invariance, <1>1, PTL

(* OpenIndex refuses a directory only if NewIndex or a removal was         *)
(* interrupted in it, and finds it without a shard only then or if it was  *)
(* made under a -numshards of 0 or less.                                   *)
THEOREM StartsUnlessCut == Spec => []StartFailsOnlyIfCut
<1>1. IInv => StartFailsOnlyIfCut
  BY DEF IInv, Whole, StartFailsOnlyIfCut
<1> QED
  BY Invariance, <1>1, PTL

(* What DeleteIndex has deleted is in no open shard again, unless a        *)
(* removal was interrupted.                                                *)
THEOREM DeletionIsFinal == Spec => []DeletedStaysDeleted
<1>1. IInv => DeletedStaysDeleted
  <2> SUFFICES ASSUME IInv, NEW i \in DOMAIN shards, docs[shards[i]] \cap deleted # {}
               PROVE  "removing" \in cut
    BY DEF DeletedStaysDeleted
  <2>1. shards[i] \in Numbers /\ pc # "removing"
    BY DEF IInv, Staged
  <2> QED
    BY <2>1 DEF IInv, Gone
<1> QED
  BY Invariance, <1>1, PTL

(* Document finds every acknowledged document through any number of        *)
(* crashes and restarts and whatever -numshards is: listShards gives the   *)
(* shards back in the order in which NewIndex made them, because it made   *)
(* no more than their names can count.                                     *)
THEOREM AcknowledgedIsFound == Spec => []DocumentFound
<1>1. IInv => DocumentFound
  <2> SUFFICES ASSUME IInv, pc = "open", "removing" \notin cut, NEW d \in acked
               PROVE  shards # << >> /\ d \in docs[Shard(d)]
    BY DEF DocumentFound
  <2>1. /\ shards \in Seq(Numbers) /\ Len(shards) \in Nat /\ d \in Docs
        /\ Dense(Len(shards)) /\ \A i \in DOMAIN shards : shards[i] = i - 1
    BY DEF IInv, Staged, Placed, TypeOK
  <2>2. Len(shards) > 0 /\ d \in docs[Hash[d] % Len(shards)]
    BY <2>1 DEF IInv, Placed
  <2>3. Shard(d) = Hash[d] % Len(shards)
    BY <2>1, <2>2, ShardIsOpen DEF Shard
  <2> QED
    BY <2>1, <2>2, <2>3
<1> QED
  BY Invariance, <1>1, PTL
=============================================================================
