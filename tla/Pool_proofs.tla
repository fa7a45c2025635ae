----------------------------- MODULE Pool_proofs -----------------------------
(***************************************************************************)
(* Proofs about Pool, for any list of providers, capacities, chunk sizes   *)
(* and width of the cursor: candidates returns an order that ChunkUpload   *)
(* expects, whatever the cursor is, and load goes round-robin.             *)
(***************************************************************************)
EXTENDS Pool, ChunkUpload_proofs

-----------------------------------------------------------------------------
(* Remainders. *)

LEMMA DivisionFacts ==
  ASSUME NEW a \in Int, NEW b \in Nat \ {0}
  PROVE  a = (b * (a \div b)) + (a % b) /\ a \div b \in Int /\ a % b \in 0..b - 1
  OBVIOUS

(* A multiple of b strictly between -b and b is 0. *)
LEMMA SmallMultiple ==
  ASSUME NEW b \in Nat \ {0}, NEW d \in Int, NEW c \in Int, c = b * d, c < b, c > -b
  PROVE  d = 0
<1>1. d >= 1 => b * d >= b
  OBVIOUS
<1>2. d <= -1 => b * d <= -b
  OBVIOUS
<1> QED
  BY <1>1, <1>2

LEMMA RemainderUnique ==
  ASSUME NEW a \in Int, NEW b \in Nat \ {0}, NEW q \in Int, NEW r \in 0..b - 1,
         a = (b * q) + r
  PROVE  a % b = r
<1> DEFINE u == a \div b
           v == a % b
<1>1. a = (b * u) + v /\ u \in Int /\ v \in 0..b - 1
  BY DivisionFacts
<1> HIDE DEF u, v
<1>2. b * (q - u) = (b * q) - (b * u) /\ b * q \in Int /\ b * u \in Int
  BY <1>1
<1>3. b * (q - u) = v - r
  BY <1>1, <1>2
<1>4. v - r \in Int /\ v - r < b /\ v - r > -b /\ q - u \in Int
  BY <1>1
<1>5. q - u = 0
  BY <1>3, <1>4, SmallMultiple
<1> QED
  BY <1>1, <1>3, <1>5 DEF v

(* Go's remainder, moved up when negative, is the offset modulo the length;
   the next cursor begins one further, or at the beginning again. *)
LEMMA OffsetIsRemainder ==
  ASSUME NEW a \in Int, NEW b \in Nat \ {0}
  PROVE  Offset(a, b) = a % b
<1>1. CASE a >= 0
  <2>1. a % b \in 0..b - 1
    BY DivisionFacts
  <2> QED
    BY <1>1, <2>1 DEF Offset, Rem
<1>2. CASE a < 0
  <2> DEFINE u == (-a) \div b
             v == (-a) % b
  <2>1. -a = (b * u) + v /\ u \in Int /\ v \in 0..b - 1
    BY DivisionFacts
  <2>2. Offset(a, b) = IF -v < 0 THEN -v + b ELSE -v
    BY <1>2 DEF Offset, Rem
  <2> HIDE DEF u, v
  <2>3. PICK x \in Int, y \in Int : x = -u /\ y = -u - 1
    BY <2>1
  <2>4. PICK z \in Int : z = b * u
    BY <2>1
  <2>5. b * x = -z /\ b * y = -z - b
    BY <2>1, <2>3, <2>4
  <2>6. CASE v = 0
    <3>1. a = (b * x) + 0 /\ 0 \in 0..b - 1
      BY <2>1, <2>4, <2>5, <2>6
    <3>2. a % b = 0
      BY <3>1, RemainderUnique
    <3> QED
      BY <2>2, <2>6, <3>2
  <2>7. CASE v # 0
    <3>1. a = (b * y) + (b - v) /\ b - v \in 0..b - 1
      BY <2>1, <2>4, <2>5, <2>7
    <3>2. a % b = b - v
      BY <3>1, RemainderUnique
    <3> QED
      BY <2>1, <2>2, <2>7, <3>2
  <2> QED
    BY <2>6, <2>7
<1> QED
  BY <1>1, <1>2

LEMMA OffsetFacts ==
  ASSUME NEW a \in Int, NEW b \in Nat \ {0}
  PROVE  /\ Offset(a, b) \in 0..b - 1
         /\ Offset(a + 1, b) = IF Offset(a, b) + 1 = b THEN 0 ELSE Offset(a, b) + 1
<1> DEFINE u == a \div b
           v == a % b
<1>1. a = (b * u) + v /\ u \in Int /\ v \in 0..b - 1
  BY DivisionFacts
<1>2. Offset(a, b) = v /\ Offset(a + 1, b) = (a + 1) % b
  BY OffsetIsRemainder
<1> HIDE DEF u, v
<1>3. PICK x \in Int : x = u + 1 /\ b * x = (b * u) + b /\ b * u \in Int
  BY <1>1
<1>4. CASE v + 1 = b
  <2>1. PICK c \in Int : c = a + 1 /\ c = (b * x) + 0 /\ 0 \in 0..b - 1
    BY <1>1, <1>3, <1>4
  <2>2. c % b = 0
    BY <2>1, RemainderUnique
  <2> QED
    BY <1>1, <1>2, <1>4, <2>1, <2>2
<1>5. CASE v + 1 # b
  <2>1. PICK c \in Int : c = a + 1 /\ c = (b * u) + (v + 1) /\ v + 1 \in 0..b - 1
    BY <1>1, <1>3, <1>5
  <2>2. c % b = v + 1
    BY <1>1, <2>1, RemainderUnique
  <2> QED
    BY <1>1, <1>2, <1>5, <2>1, <2>2
<1> QED
  BY <1>4, <1>5

-----------------------------------------------------------------------------
(* Rotations and subsequences. *)

LEMMA RotateFacts ==
  ASSUME NEW S, NEW s \in Seq(S), NEW n \in Int
  PROVE  /\ rotate(s, n) \in Seq(S) /\ Len(rotate(s, n)) = Len(s)
         /\ Len(s) > 1 => \A i \in 1..Len(s) :
              rotate(s, n)[i] = s[IF i + Offset(n, Len(s)) <= Len(s)
                                    THEN i + Offset(n, Len(s))
                                    ELSE i + Offset(n, Len(s)) - Len(s)]
         /\ Image(rotate(s, n)) = Image(s)
         /\ NoDuplicates(s) => NoDuplicates(rotate(s, n))
<1>0. Len(s) \in Nat /\ \A i \in 1..Len(s) : s[i] \in S
  OBVIOUS
<1>1. CASE Len(s) <= 1
  <2>1. rotate(s, n) = s /\ ~ (Len(s) > 1)
    BY <1>0, <1>1 DEF rotate
  <2> QED
    BY <2>1
<1>2. CASE Len(s) > 1
  <2> DEFINE L == Len(s)
             k == Offset(n, L)
             at(i) == IF i + k <= L THEN i + k ELSE i + k - L
             t == rotate(s, n)
  <2>0. L \in Nat \ {0} /\ L > 1 /\ ~ (L <= 1)
    BY <1>0, <1>2
  <2>1. k \in 0..L - 1 /\ L \in Nat /\ L > 1
    BY <2>0, OffsetFacts
  <2>2. t = SubSeq(s, k + 1, L) \o SubSeq(s, 1, k)
    BY <2>0, Zenon DEF rotate
  <2> HIDE DEF k, t
  <2>3. /\ SubSeq(s, k + 1, L) \in Seq(S) /\ Len(SubSeq(s, k + 1, L)) = L - k
        /\ \A i \in 1..L - k : SubSeq(s, k + 1, L)[i] = s[k + i]
        /\ SubSeq(s, 1, k) \in Seq(S) /\ Len(SubSeq(s, 1, k)) = k
        /\ \A i \in 1..k : SubSeq(s, 1, k)[i] = s[i]
    BY <1>0, <2>1
  <2>4. /\ t \in Seq(S) /\ Len(t) = L
        /\ \A i \in 1..L : t[i] = s[at(i)]
    <3>1. t \in Seq(S) /\ Len(t) = (L - k) + k
      BY <2>2, <2>3, ConcatProperties, Zenon
    <3>2. \A i \in 1..Len(SubSeq(s, k + 1, L)) + Len(SubSeq(s, 1, k)) :
            t[i] = IF i <= Len(SubSeq(s, k + 1, L)) THEN SubSeq(s, k + 1, L)[i]
                   ELSE SubSeq(s, 1, k)[i - Len(SubSeq(s, k + 1, L))]
      BY <2>2, <2>3, ConcatProperties, Zenon
    <3>3. (L - k) + k = L
      BY <2>1
    <3>4. ASSUME NEW i \in 1..L
          PROVE  t[i] = s[at(i)]
      <4>1. CASE i <= L - k
        <5>1. i \in 1..L - k /\ at(i) = k + i
          BY <2>1, <4>1
        <5> QED
          BY <2>3, <3>2, <3>3, <4>1, <5>1
      <4>2. CASE ~ (i <= L - k)
        <5>1. i - (L - k) \in 1..k /\ at(i) = i - (L - k)
          BY <2>1, <4>2
        <5> QED
          BY <2>3, <3>2, <3>3, <4>2, <5>1
      <4> QED
        BY <4>1, <4>2
    <3> QED
      BY <3>1, <3>3, <3>4
  <2>5. /\ \A i \in 1..L : at(i) \in 1..L
        /\ \A i, j \in 1..L : at(i) = at(j) => i = j
    BY <2>1
  <2>6. \A j \in 1..L : \E i \in 1..L : at(i) = j
    <3> SUFFICES ASSUME NEW j \in 1..L
                 PROVE  \E i \in 1..L : at(i) = j
      OBVIOUS
    <3>1. CASE j > k
      <4>1. j - k \in 1..L /\ at(j - k) = j
        BY <2>1, <3>1
      <4> QED
        BY <4>1
    <3>2. CASE j <= k
      <4>1. j - k + L \in 1..L /\ at(j - k + L) = j
        BY <2>1, <3>2
      <4> QED
        BY <4>1
    <3> QED
      BY <2>1, <3>1, <3>2
  <2> HIDE DEF at
  <2>7. Image(t) = Image(s)
    <3>1. \A i \in 1..L : t[i] \in Image(s)
      BY <2>4, <2>5 DEF Image
    <3>2. \A j \in 1..L : s[j] \in Image(t)
      <4> SUFFICES ASSUME NEW j \in 1..L
                   PROVE  s[j] \in Image(t)
        OBVIOUS
      <4>1. PICK i \in 1..L : at(i) = j
        BY <2>6
      <4>2. t[i] = s[j]
        BY <2>4, <4>1
      <4> QED
        BY <2>4, <4>2 DEF Image
    <3> QED
      BY <2>4, <3>1, <3>2 DEF Image
  <2>8. NoDuplicates(s) => NoDuplicates(t)
    BY <2>4, <2>5 DEF NoDuplicates
  <2> QED
    BY <2>4, <2>7, <2>8 DEF at, k, t
<1> QED
  BY <1>0, <1>1, <1>2

(* The filter of candidates keeps the providers it selects, each once. *)
LEMMA SubsequenceFacts ==
  ASSUME NEW S, NEW s \in Seq(S), NEW I \in SUBSET (1..Len(s)), NoDuplicates(s)
  PROVE  /\ Subsequence(s, I) \in Seq(S) /\ Len(Subsequence(s, I)) = Cardinality(I)
         /\ Image(Subsequence(s, I)) = {s[i] : i \in I}
         /\ NoDuplicates(Subsequence(s, I))
<1> DEFINE upto(i) == {j \in I : j <= i}
           rank == [i \in I |-> Cardinality(upto(i))]
           N == Cardinality(I)
           pos(n) == CHOOSE i \in I : Cardinality(upto(i)) = n
<1>1. Len(s) \in Nat /\ IsFiniteSet(I) /\ N \in Nat /\ \A i \in I : i \in Nat
  <2>1. Len(s) \in Nat
    OBVIOUS
  <2>2. IsFiniteSet(1..Len(s))
    BY <2>1, FS_Interval
  <2>3. \A i \in 1..Len(s) : i \in Nat
    BY <2>1
  <2> QED
    BY <2>1, <2>2, <2>3, FS_Subset, FS_CardinalityType
<1>2. \A i \in I : /\ IsFiniteSet(upto(i)) /\ Cardinality(upto(i)) \in 1..N
  <2> SUFFICES ASSUME NEW i \in I
               PROVE  IsFiniteSet(upto(i)) /\ Cardinality(upto(i)) \in 1..N
    OBVIOUS
  <2>1. upto(i) \in SUBSET I /\ i \in upto(i)
    BY <1>1
  <2> HIDE DEF upto
  <2>2. IsFiniteSet(upto(i)) /\ Cardinality(upto(i)) <= N
    BY <1>1, <2>1, FS_Subset
  <2>3. Cardinality(upto(i)) \in Nat /\ Cardinality(upto(i)) # 0
    BY <2>1, <2>2, FS_CardinalityType, FS_EmptySet
  <2> QED
    BY <1>1, <2>2, <2>3
<1>3. \A i, j \in I : Cardinality(upto(i)) = Cardinality(upto(j)) => i = j
  <2>1. ASSUME NEW i \in I, NEW j \in I, i < j
        PROVE  Cardinality(upto(i)) # Cardinality(upto(j))
    <3>0. i \in Nat /\ j \in Nat /\ j <= j /\ ~ (j <= i) /\ \A x \in Nat : x <= i => x <= j
      BY <1>1, <2>1
    <3>1. upto(i) \in SUBSET upto(j) /\ j \in upto(j) /\ j \notin upto(i)
      BY <1>1, <3>0
    <3> HIDE DEF upto
    <3> QED
      BY <1>2, <3>1, FS_Subset
  <2> HIDE DEF upto
  <2> QED
    BY <1>1, <2>1
<1> HIDE DEF upto
<1>4. rank \in Injection(I, 1..N)
  BY <1>2, <1>3 DEF Injection, IsInjective
<1>5. IsFiniteSet(1..N) /\ Cardinality(1..N) = N
  BY <1>1, FS_Interval
<1>6. rank \in Surjection(I, 1..N)
  BY <1>4, <1>5, FS_Injection
<1>7. \A n \in 1..N : \E i \in I : Cardinality(upto(i)) = n
  BY <1>6 DEF Surjection
<1>8. \A n \in 1..N : pos(n) \in I /\ Cardinality(upto(pos(n))) = n
  BY <1>7
<1>9. Subsequence(s, I) = [n \in 1..N |-> s[pos(n)]]
  BY DEF Subsequence, upto
<1>10. \A i \in I : Cardinality(upto(i)) \in 1..N /\ pos(Cardinality(upto(i))) = i
  BY <1>2, <1>3, <1>8
<1> HIDE DEF pos, rank, N
<1> DEFINE t == Subsequence(s, I)
<1>11. t \in [1..N -> S]
  <2>1. ASSUME NEW n \in 1..N
        PROVE  s[pos(n)] \in S
    <3>1. pos(n) \in 1..Len(s)
      BY <1>8
    <3> QED
      BY <3>1
  <2> QED
    BY <1>9, <2>1
<1>12. t \in Seq(S) /\ Len(t) = N
  <2>1. t \in Seq(S) /\ DOMAIN t = 1..N
    BY <1>1, <1>11, SeqOfLength
  <2> QED
    BY <1>1, <2>1
<1>13. \A n \in 1..N : t[n] = s[pos(n)]
  BY <1>9
<1> HIDE DEF t
<1>14. Image(t) = {s[i] : i \in I}
  <2>1. \A n \in 1..N : t[n] \in {s[i] : i \in I}
    BY <1>8, <1>13
  <2>2. \A i \in I : s[i] \in Image(t)
    <3> SUFFICES ASSUME NEW i \in I
                 PROVE  \E n \in 1..N : t[n] = s[i]
      BY <1>12 DEF Image
    <3>1. Cardinality(upto(i)) \in 1..N /\ pos(Cardinality(upto(i))) = i
      BY <1>10
    <3>2. t[Cardinality(upto(i))] = s[i]
      BY <1>13, <3>1
    <3> QED
      BY <3>1, <3>2
  <2> QED
    BY <1>12, <2>1, <2>2 DEF Image
<1>15. NoDuplicates(t)
  <2> SUFFICES ASSUME NEW m \in 1..N, NEW n \in 1..N, t[m] = t[n]
               PROVE  m = n
    BY <1>12 DEF NoDuplicates
  <2>1. pos(m) = pos(n)
    BY <1>8, <1>13 DEF NoDuplicates
  <2> QED
    BY <1>8, <2>1
<1> QED
  BY <1>12, <1>14, <1>15 DEF t, N

-----------------------------------------------------------------------------
(* The order of the candidates. *)

(* No better tier after a worse one. *)
Ordered(c) == \A i, j \in 1..Len(c) : i < j => Tier(fails, c[i]) <= Tier(fails, c[j])

LEMMA ConcatOrdered ==
  ASSUME NEW S, NEW s \in Seq(S), NEW t \in Seq(S), Ordered(s), Ordered(t),
         \A a \in Image(s), b \in Image(t) : Tier(fails, a) <= Tier(fails, b)
  PROVE  Ordered(s \o t)
<1>1. Len(s) \in Nat /\ Len(t) \in Nat
  OBVIOUS
<1>2. /\ Len(s \o t) = Len(s) + Len(t)
      /\ \A i \in 1..Len(s) + Len(t) :
           (s \o t)[i] = IF i <= Len(s) THEN s[i] ELSE t[i - Len(s)]
  BY ConcatProperties, Zenon
<1> SUFFICES ASSUME NEW i \in 1..Len(s) + Len(t), NEW j \in 1..Len(s) + Len(t), i < j
             PROVE  Tier(fails, (s \o t)[i]) <= Tier(fails, (s \o t)[j])
  BY <1>2 DEF Ordered
<1>3. CASE j <= Len(s)
  <2>1. i <= Len(s) /\ i \in 1..Len(s) /\ j \in 1..Len(s)
    BY <1>1, <1>3
  <2>2. (s \o t)[i] = s[i] /\ (s \o t)[j] = s[j]
    BY <1>2, <1>3, <2>1
  <2> QED
    BY <2>1, <2>2 DEF Ordered
<1>4. CASE i <= Len(s) /\ ~ (j <= Len(s))
  <2>1. i \in 1..Len(s) /\ j - Len(s) \in 1..Len(t)
    BY <1>1, <1>4
  <2>2. (s \o t)[i] = s[i] /\ (s \o t)[j] = t[j - Len(s)]
    BY <1>2, <1>4
  <2>3. s[i] \in Image(s) /\ t[j - Len(s)] \in Image(t)
    BY <2>1 DEF Image
  <2> QED
    BY <2>2, <2>3
<1>5. CASE ~ (i <= Len(s))
  <2>1. /\ i - Len(s) \in 1..Len(t) /\ j - Len(s) \in 1..Len(t)
        /\ i - Len(s) < j - Len(s) /\ ~ (j <= Len(s))
    BY <1>1, <1>5
  <2>2. (s \o t)[i] = t[i - Len(s)] /\ (s \o t)[j] = t[j - Len(s)]
    BY <1>2, <1>5, <2>1
  <2> QED
    BY <2>1, <2>2 DEF Ordered
<1> QED
  BY <1>1, <1>3, <1>4, <1>5

(* A tier lists the providers that belong to it, each once. *)
LEMMA TierFacts ==
  ASSUME NEW size, NEW healthy \in BOOLEAN, NEW durable \in BOOLEAN
  PROVE  LET T == TierList(size, healthy, durable)
         IN /\ T \in Seq(Providers) /\ NoDuplicates(T)
            /\ Image(T) = {p \in Providers : Belongs(p, size, healthy, durable)}
<1> DEFINE I == {i \in 1..Len(ProviderList) : Belongs(ProviderList[i], size, healthy, durable)}
           T == TierList(size, healthy, durable)
<1>1. T \in Seq(Providers) /\ NoDuplicates(T) /\ Image(T) = {ProviderList[i] : i \in I}
  <2>1. T = Subsequence(ProviderList, I)
    BY DEF TierList
  <2>2. I \in SUBSET (1..Len(ProviderList))
    OBVIOUS
  <2> HIDE DEF I, T
  <2> QED
    BY <2>1, <2>2, SubsequenceFacts, PoolAssumption
<1>2. {ProviderList[i] : i \in I} = {p \in Providers : Belongs(p, size, healthy, durable)}
  <2>1. \A i \in 1..Len(ProviderList) : ProviderList[i] \in Providers
    BY PoolAssumption
  <2>2. \A p \in Providers : \E i \in 1..Len(ProviderList) : ProviderList[i] = p
    BY PoolAssumption DEF Image
  <2> HIDE DEF Belongs
  <2> QED
    BY <2>1, <2>2
<1> QED
  BY <1>1, <1>2

(* Behind providers of the tiers up to n come those of tier n + 1. *)
Upto(c, n) ==
  /\ c \in Seq(Providers) /\ NoDuplicates(c) /\ Ordered(c)
  /\ \A p \in Image(c) : Tier(fails, p) \in 0..n

LEMMA ConcatTier ==
  ASSUME NEW n \in Nat, NEW s, Upto(s, n), NEW t \in Seq(Providers), NoDuplicates(t),
         \A p \in Image(t) : Tier(fails, p) = n + 1
  PROVE  Upto(s \o t, n + 1) /\ Image(s \o t) = Image(s) \cup Image(t)
<1>1. /\ s \in Seq(Providers) /\ NoDuplicates(s) /\ Ordered(s)
      /\ \A p \in Image(s) : Tier(fails, p) \in 0..n
  BY DEF Upto
<1>2. Ordered(t)
  <2>1. \A i \in 1..Len(t) : Tier(fails, t[i]) = n + 1
    BY DEF Image
  <2> QED
    BY <2>1 DEF Ordered
<1>3. \A a \in Image(s), b \in Image(t) :
        Tier(fails, a) <= Tier(fails, b) /\ Tier(fails, a) # Tier(fails, b)
  BY <1>1
<1>4. Image(s) \cap Image(t) = {}
  BY <1>3
<1>5. Ordered(s \o t)
  BY <1>1, <1>2, <1>3, ConcatOrdered
<1>6. NoDuplicates(s \o t) /\ Image(s \o t) = Image(s) \cup Image(t)
  BY <1>1, <1>4, ConcatNoDuplicates, ImageConcat
<1>7. s \o t \in Seq(Providers)
  BY <1>1
<1>8. \A p \in Image(s) \cup Image(t) : Tier(fails, p) \in 0..n + 1
  BY <1>1
<1> QED
  BY <1>5, <1>6, <1>7, <1>8 DEF Upto

(* candidates returns every provider that can hold the chunk, once, best tier
   first, wherever the rotation begins. *)
LEMMA CandidatesOrdered ==
  ASSUME TypeOK, NEW size, NEW rot \in Int
  PROVE  candidates(size, rot)
           \in CandidateOrders({p \in Providers : MaxBytes[p] >= size})
<1> DEFINE A == rotate(TierList(size, TRUE, TRUE), rot)
           B == rotate(TierList(size, TRUE, FALSE), rot)
           C == TierList(size, FALSE, TRUE)
           D == TierList(size, FALSE, FALSE)
           eligible == {p \in Providers : MaxBytes[p] >= size}
           a == {p \in Providers : Belongs(p, size, TRUE, TRUE)}
           b == {p \in Providers : Belongs(p, size, TRUE, FALSE)}
           c == {p \in Providers : Belongs(p, size, FALSE, TRUE)}
           d == {p \in Providers : Belongs(p, size, FALSE, FALSE)}
<1>1. /\ (\A p \in a : Tier(fails, p) = 0) /\ (\A p \in b : Tier(fails, p) = 1)
      /\ (\A p \in c : Tier(fails, p) = 2) /\ (\A p \in d : Tier(fails, p) = 3)
  BY DEF Belongs, Healthy, Tier
<1>2. a \cup b \cup c \cup d = eligible
  BY DEF Belongs, Healthy
<1>3. A \in Seq(Providers) /\ NoDuplicates(A) /\ Image(A) = a
  <2> DEFINE T == TierList(size, TRUE, TRUE)
  <2>1. T \in Seq(Providers) /\ NoDuplicates(T) /\ Image(T) = a
    BY TierFacts, Zenon
  <2> HIDE DEF T, a
  <2>2. rotate(T, rot) \in Seq(Providers) /\ NoDuplicates(rotate(T, rot))
        /\ Image(rotate(T, rot)) = a
    BY <2>1, RotateFacts
  <2> QED
    BY <2>2 DEF T
<1>4. B \in Seq(Providers) /\ NoDuplicates(B) /\ Image(B) = b
  <2> DEFINE T == TierList(size, TRUE, FALSE)
  <2>1. T \in Seq(Providers) /\ NoDuplicates(T) /\ Image(T) = b
    BY TierFacts, Zenon
  <2> HIDE DEF T, b
  <2>2. rotate(T, rot) \in Seq(Providers) /\ NoDuplicates(rotate(T, rot))
        /\ Image(rotate(T, rot)) = b
    BY <2>1, RotateFacts
  <2> QED
    BY <2>2 DEF T
<1>5. C \in Seq(Providers) /\ NoDuplicates(C) /\ Image(C) = c
  BY TierFacts, Zenon
<1>6. D \in Seq(Providers) /\ NoDuplicates(D) /\ Image(D) = d
  BY TierFacts, Zenon
<1>7. candidates(size, rot) = ((A \o B) \o C) \o D
  BY DEF candidates
<1> HIDE DEF A, B, C, D, a, b, c, d, eligible
<1>8. Upto(A, 0)
  <2>1. \A i \in 1..Len(A) : Tier(fails, A[i]) = 0
    BY <1>1, <1>3 DEF Image
  <2> QED
    BY <1>1, <1>3, <2>1 DEF Upto, Ordered
<1>9. PICK E : E = A \o B /\ Upto(E, 1) /\ Image(E) = a \cup b
  <2>1. \A p \in Image(B) : Tier(fails, p) = 0 + 1
    BY <1>1, <1>4
  <2>2. Upto(A \o B, 0 + 1) /\ Image(A \o B) = Image(A) \cup Image(B)
    BY <1>4, <1>8, <2>1, ConcatTier
  <2>3. 0 + 1 = 1
    OBVIOUS
  <2> QED
    BY <1>3, <1>4, <2>2, <2>3, Zenon
<1>10. PICK F : F = E \o C /\ Upto(F, 2) /\ Image(F) = a \cup b \cup c
  <2>1. \A p \in Image(C) : Tier(fails, p) = 1 + 1
    BY <1>1, <1>5
  <2>2. Upto(E \o C, 1 + 1) /\ Image(E \o C) = Image(E) \cup Image(C)
    BY <1>5, <1>9, <2>1, ConcatTier
  <2>3. 1 + 1 = 2
    OBVIOUS
  <2> QED
    BY <1>5, <1>9, <2>2, <2>3, Zenon
<1>11. PICK G : G = F \o D /\ Upto(G, 3) /\ Image(G) = a \cup b \cup c \cup d
  <2>1. \A p \in Image(D) : Tier(fails, p) = 2 + 1
    BY <1>1, <1>6
  <2>2. Upto(F \o D, 2 + 1) /\ Image(F \o D) = Image(F) \cup Image(D)
    BY <1>6, <1>10, <2>1, ConcatTier
  <2>3. 2 + 1 = 3
    OBVIOUS
  <2> QED
    BY <1>6, <1>10, <2>2, <2>3, Zenon
<1>12. /\ G = candidates(size, rot) /\ Image(G) = eligible
       /\ G \in Seq(Providers) /\ NoDuplicates(G) /\ Ordered(G)
  BY <1>2, <1>7, <1>9, <1>10, <1>11 DEF Upto
<1>13. Len(G) = Cardinality(eligible) /\ Len(G) \in Nat
  BY <1>12, ImageCardinality
<1>14. G \in [1..Cardinality(eligible) -> eligible]
  <2>1. G \in [1..Len(G) -> Providers] /\ \A i \in 1..Len(G) : G[i] \in eligible
    BY <1>12 DEF Image
  <2> QED
    BY <1>13, <2>1
<1> QED
  BY <1>12, <1>14 DEF CandidateOrders, CandidateOrder, Ordered, eligible

-----------------------------------------------------------------------------
(* ChunkUpload's invariant holds when the pool selects the candidates. *)
PInv == rr \in Int /\ IInv

(* A step of the pool is one of the upload, or changes the health before the
   upload starts. *)
LEMMA PoolStep ==
  ASSUME PInv, [PoolNext]_poolVars
  PROVE  /\ rr' \in Int
         /\ \/ [Next]_vars
            \/ /\ caller = "start" /\ fails' \in [Providers -> Nat]
               /\ UNCHANGED <<callerVars, drainerVars, running, stored, cands, launched,
                              results, ready>>
<1>1. Increment(rr) \in Int
  <2>1. IntBits - 1 \in Nat
    BY PoolAssumption
  <2>2. 2^(IntBits - 1) \in Int
    BY <2>1
  <2> QED
    BY <2>2 DEF PInv, Increment
<1>2. TypeOK
  BY DEF PInv, IInv
<1>3. ASSUME NEW size \in ChunkSizes, Candidates(size)
      PROVE  rr' \in Int /\ Start
  <2> DEFINE eligible == {p \in Providers : MaxBytes[p] >= size}
  <2>1. candidates(size, Increment(rr)) \in CandidateOrders(eligible)
    BY <1>1, <1>2, CandidatesOrdered
  <2>2. eligible \in SUBSET Providers
    OBVIOUS
  <2> HIDE DEF eligible
  <2> QED
    BY <1>1, <1>3, <2>1, <2>2 DEF Candidates, Start
<1>4. CASE OtherCandidates
  BY <1>1, <1>4 DEF OtherCandidates
<1>5. ASSUME NEW p \in Providers, markHealthy(p) \/ markFailed(p)
      PROVE  /\ rr' = rr /\ caller = "start" /\ fails' \in [Providers -> Nat]
             /\ UNCHANGED <<callerVars, drainerVars, running, stored, cands, launched,
                            results, ready>>
  <2>1. fails \in [Providers -> Nat]
    BY <1>2 DEF TypeOK
  <2> QED
    BY <1>5, <2>1 DEF markHealthy, markFailed
<1>6. CASE /\ \/ CollectStep \/ CtxDone \/ CloseReady \/ DrainerStep
              \/ \E p \in Providers : UploadStep(p)
           /\ UNCHANGED rr
  BY <1>6 DEF PInv, CollectStep, Next, CallerStep
<1>7. CASE UNCHANGED poolVars
  BY <1>7 DEF PInv, poolVars
<1> QED
  BY <1>3, <1>4, <1>5, <1>6, <1>7 DEF PInv, PoolNext, Next, CallerStep

(* An upload that takes its candidates from the pool keeps the invariant that
   the upload's safety rests on, whatever other uploads did to the cursor and
   to the health of the providers before. *)
THEOREM PoolInvariance == PoolSpec => [](rr \in Int /\ IInv)
<1>1. PoolInit => PInv
  BY InitInv DEF PoolInit, PInv
<1>2. PInv /\ [PoolNext]_poolVars => PInv'
  <2> SUFFICES ASSUME PInv, [PoolNext]_poolVars
               PROVE  PInv'
    OBVIOUS
  <2>1. ASSUME fails' \in [Providers -> Nat],
               UNCHANGED <<callerVars, drainerVars, running, stored, cands, launched,
                           results, ready>>
        PROVE  IInv'
    <3>1. UNCHANGED <<caller, drainer, cands, launched, inflight, collected,
                      remaining, total, running, stored, results, synced, pending,
                      extras, ready>>
      BY <2>1 DEF callerVars, drainerVars
    <3>2. UNCHANGED <<Outstanding, Held, SyncN>>
      BY <3>1 DEF Outstanding, Held, SyncN
    <3>3. TypeOK'
      BY <2>1, <3>1 DEF PInv, IInv, TypeOK
    <3>4. ControlInv' /\ CountInv'
      BY <3>1, <3>2 DEF PInv, IInv, ControlInv, CountInv
    <3>5. BudgetInv' /\ PlacementInv' /\ OnceInv'
      BY <3>1, <3>2 DEF PInv, IInv, BudgetInv, TopsUpToR, PlacementInv, OnceInv
    <3> QED
      BY <3>3, <3>4, <3>5 DEF IInv
  <2> QED
    BY <2>1, PoolStep, StepInv DEF PInv
<1> QED
  BY <1>1, <1>2, PTL DEF PoolSpec, PInv

(* Everything that is promised of one upload holds of an upload that takes its
   candidates from the pool: its counts, its budget, its channel, what an error
   means and what it reports. *)
THEOREM PoolUploadSafe ==
  PoolSpec => [](/\ TypeOK /\ CountsOutstanding /\ ReplicaBudget /\ SendNeverBlocks
                 /\ FailureIsTotal /\ RegisteredAreStored)
<1>1. IInv => /\ TypeOK /\ CountsOutstanding /\ ReplicaBudget /\ SendNeverBlocks
              /\ FailureIsTotal /\ RegisteredAreStored
  BY CountsImplied, BudgetImplied, NeverBlocksImplied, FailureImplied, RegisteredImplied
     DEF IInv
<1> QED
  BY <1>1, PoolInvariance, PTL

(* An upload that takes its candidates from the pool implements the promise of
   ChunkReplication. *)
THEOREM PoolRefinement == PoolSpec => KeepsPromise
<1>1. PoolInit => Promise!Init
  BY DEF PoolInit, Init, Promise!Init
<1>2. PInv /\ PInv' /\ [PoolNext]_poolVars => [Promise!Next]_(Promise!vars)
  <2> SUFFICES ASSUME PInv, PInv', [PoolNext]_poolVars
               PROVE  [Promise!Next]_(Promise!vars)
    OBVIOUS
  <2>1. CASE [Next]_vars
    BY <2>1, PromiseStep DEF PInv
  <2>2. CASE UNCHANGED <<callerVars, drainerVars>>
    <3>1. UNCHANGED <<caller, synced, extras>>
      BY <2>2 DEF callerVars, drainerVars
    <3> QED
      BY <3>1 DEF Promise!vars, Registered
  <2> QED
    BY <2>1, <2>2, PoolStep
<1> QED
  BY <1>1, <1>2, PoolInvariance, PTL DEF PInv, PoolSpec, KeepsPromise, Promise!Spec

(* While a durable provider that can hold the chunk is healthy, the first
   uploads include a durable one, in the order that candidates computes. *)
THEOREM PoolDurableTried == PoolSpec => HealthyDurableIsTried
<1>1. PInv /\ [PoolNext]_poolVars => [caller = "start" => Tried]_vars
  <2> SUFFICES ASSUME PInv, [PoolNext]_poolVars, caller = "start"
               PROVE  Tried
    OBVIOUS
  <2>1. CASE [Next]_vars
    BY <2>1, TriedStep DEF PInv
  <2>2. CASE UNCHANGED cands
    <3>1. cands' = << >>
      BY <2>2 DEF PInv, IInv, ControlInv
    <3>2. Image(cands') = {}
      BY <3>1, ImageEmpty
    <3> QED
      BY <3>2 DEF Tried
  <2> QED
    BY <2>1, <2>2, PoolStep
<1> QED
  BY <1>1, PoolInvariance, PTL DEF PInv, PoolSpec, HealthyDurableIsTried, Tried

(* Whatever the health history, and even when the cursor has overflowed, the
   upload starts with every provider that can hold the chunk exactly once,
   best tier first. *)
THEOREM SelectionOrdered == PoolSpec => SelectionKeepsOrder
<1>1. PInv /\ [PoolNext]_poolVars => [caller = "start" /\ caller' # "start" => Start]_vars
  <2> SUFFICES ASSUME PInv, [PoolNext]_poolVars, caller = "start", caller' # "start"
               PROVE  Start
    OBVIOUS
  <2>1. ASSUME UNCHANGED <<callerVars>>
        PROVE  FALSE
    BY <2>1 DEF callerVars
  <2>2. [Next]_vars
    BY <2>1, PoolStep
  <2>3. \A p \in Providers : ~ UploadStep(p)
    BY DEF PInv, IInv, ControlInv, UploadStep, UploadOK, UploadFail
  <2>4. drainer = "none"
    BY DEF PInv, IInv, ControlInv, TypeOK
  <2>5. ~ DrainerStep
    BY <2>4 DEF DrainerStep, DrainOK, DeliverExtra, DrainFail, DrainDone, Draining
  <2> QED
    BY <2>1, <2>2, <2>3, <2>5 DEF Next, CallerStep, CollectOK, CollectFail, Collecting,
       CtxDone, Return, CloseReady, vars
<1> QED
  BY <1>1, PoolInvariance, PTL DEF PInv, PoolSpec, SelectionKeepsOrder

(* The next upload that finds the same two or more healthy durable providers
   starts with the one that is now second in line. *)
THEOREM RoundRobinKept == PoolSpec => []RoundRobin
<1>1. PInv => RoundRobin
  <2> SUFFICES ASSUME PInv, NEW size \in ChunkSizes, Len(TierList(size, TRUE, TRUE)) >= 2
               PROVE  candidates(size, rr + 2)[1] = candidates(size, rr + 1)[2]
    BY DEF RoundRobin
  <2> DEFINE T == TierList(size, TRUE, TRUE)
             L == Len(T)
             k(n) == Offset(n, L)
  <2>1. T \in Seq(Providers) /\ L \in Nat \ {0} /\ L >= 2
    <3>1. T \in Seq(Providers)
      BY TierFacts, Zenon
    <3>2. Len(T) >= 2
      OBVIOUS
    <3> HIDE DEF T
    <3>3. Len(T) \in Nat
      BY <3>1
    <3> QED
      BY <3>1, <3>2, <3>3
  <2>2. ASSUME NEW n \in Int, NEW i \in {1, 2}
        PROVE  candidates(size, n)[i] = rotate(T, n)[i]
    <3> DEFINE A == rotate(T, n)
               B == rotate(TierList(size, TRUE, FALSE), n)
               C == TierList(size, FALSE, TRUE)
               D == TierList(size, FALSE, FALSE)
    <3>1. A \in Seq(Providers) /\ Len(A) = L
      BY <2>1, RotateFacts
    <3>2. B \in Seq(Providers) /\ C \in Seq(Providers) /\ D \in Seq(Providers)
      BY TierFacts, RotateFacts
    <3>3. candidates(size, n) = ((A \o B) \o C) \o D
      BY DEF candidates
    <3> HIDE DEF A, B, C, D, T
    <3>4. ASSUME NEW s \in Seq(Providers), NEW t \in Seq(Providers), Len(s) >= 2
          PROVE  s \o t \in Seq(Providers) /\ Len(s \o t) >= 2 /\ (s \o t)[i] = s[i]
      <4>1. /\ s \o t \in Seq(Providers) /\ Len(s \o t) = Len(s) + Len(t)
            /\ \A j \in 1..Len(s) + Len(t) :
                 (s \o t)[j] = IF j <= Len(s) THEN s[j] ELSE t[j - Len(s)]
        BY ConcatProperties, Zenon
      <4>2. Len(s) \in Nat /\ Len(t) \in Nat /\ i \in 1..Len(s) + Len(t) /\ i <= Len(s)
        BY <3>4
      <4> QED
        BY <3>4, <4>1, <4>2
    <3>5. PICK E \in Seq(Providers) : E = A \o B /\ Len(E) >= 2 /\ E[i] = A[i]
      BY <2>1, <3>1, <3>2, <3>4
    <3>6. PICK F \in Seq(Providers) : F = E \o C /\ Len(F) >= 2 /\ F[i] = E[i]
      BY <3>2, <3>4, <3>5
    <3>7. (F \o D)[i] = F[i]
      BY <3>2, <3>4, <3>6
    <3> QED
      BY <3>3, <3>5, <3>6, <3>7 DEF A
  <2>3. rr + 1 \in Int /\ rr + 2 \in Int /\ rr + 2 = (rr + 1) + 1
    BY DEF PInv
  <2> HIDE DEF T
  <2>4. /\ k(rr + 1) \in 0..L - 1 /\ k(rr + 2) \in 0..L - 1
        /\ k(rr + 2) = IF k(rr + 1) + 1 = L THEN 0 ELSE k(rr + 1) + 1
    BY <2>1, <2>3, OffsetFacts
  <2>5. \A n \in Int : \A i \in 1..L :
          rotate(T, n)[i] = T[IF i + k(n) <= L THEN i + k(n) ELSE i + k(n) - L]
    BY <2>1, RotateFacts
  <2> HIDE DEF k
  <2>6. rotate(T, rr + 2)[1] = T[k(rr + 2) + 1]
    <3>1. 1 \in 1..L /\ 1 + k(rr + 2) <= L /\ 1 + k(rr + 2) = k(rr + 2) + 1
      BY <2>1, <2>4
    <3> QED
      BY <2>3, <2>5, <3>1
  <2>7. rotate(T, rr + 1)[2] = T[k(rr + 2) + 1]
    <3>1. /\ 2 \in 1..L
          /\ (IF 2 + k(rr + 1) <= L THEN 2 + k(rr + 1) ELSE 2 + k(rr + 1) - L)
               = k(rr + 2) + 1
      BY <2>1, <2>4
    <3> QED
      BY <2>3, <2>5, <3>1
  <2> QED
    BY <2>2, <2>3, <2>6, <2>7 DEF T
<1> QED
  BY <1>1, PoolInvariance, PTL DEF PInv

=============================================================================
