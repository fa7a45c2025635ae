------------------------- MODULE ChunkUpload_proofs -------------------------
(***************************************************************************)
(* Proofs about ChunkUpload, for any finite set of providers, any R and    *)
(* any number of synchronous replicas: the inductive invariant IInv, the   *)
(* safety properties it implies, and the refinement of ChunkReplication.   *)
(***************************************************************************)
EXTENDS ChunkUpload, FiniteSetTheorems, SequenceTheorems, TLAPS

-----------------------------------------------------------------------------
(* Sequences as they are used here: images, heads and duplicates. *)

(* A sequence has no more distinct elements than its length. *)
LEMMA ImageCardinality ==
  ASSUME NEW S, NEW s \in Seq(S)
  PROVE  /\ IsFiniteSet(Image(s))
         /\ Cardinality(Image(s)) <= Len(s)
         /\ NoDuplicates(s) => Cardinality(Image(s)) = Len(s)
<1>1. /\ Len(s) \in Nat
      /\ s \in [1..Len(s) -> S]
  OBVIOUS
<1>2. s \in Surjection(1..Len(s), Image(s))
  BY <1>1 DEF Surjection, Image
<1>3. IsFiniteSet(1..Len(s)) /\ Cardinality(1..Len(s)) = Len(s)
  BY <1>1, FS_Interval, SMTT(30)
<1>4. NoDuplicates(s) => s \in Injection(1..Len(s), Image(s))
  BY <1>1 DEF Injection, IsInjective, Image, NoDuplicates
<1>5. QED
  BY <1>2, <1>3, <1>4, FS_Surjection

(* Append adds its element to the image. *)
LEMMA ImageAppend ==
  ASSUME NEW S, NEW s \in Seq(S), NEW e \in S
  PROVE  Image(Append(s, e)) = Image(s) \cup {e}
<1>1. /\ Len(Append(s, e)) = Len(s) + 1
      /\ Len(s) \in Nat
      /\ \A i \in 1..Len(s) : Append(s, e)[i] = s[i]
      /\ Append(s, e)[Len(s) + 1] = e
  OBVIOUS
<1>2. 1..(Len(s) + 1) = 1..Len(s) \cup {Len(s) + 1}
  BY <1>1
<1>3. QED
  BY <1>1, <1>2 DEF Image

(* The image of a non-empty sequence: its head and the image of its tail. *)
LEMMA ImageHeadTail ==
  ASSUME NEW S, NEW s \in Seq(S), s # << >>
  PROVE  Image(s) = {Head(s)} \cup Image(Tail(s))
<1>1. /\ Len(s) \in Nat \ {0}
      /\ Len(Tail(s)) = Len(s) - 1
      /\ Head(s) = s[1]
      /\ \A i \in 1..Len(Tail(s)) : Tail(s)[i] = s[i + 1]
  OBVIOUS
<1>2. ASSUME NEW i \in 1..Len(s), i # 1
      PROVE  i - 1 \in 1..Len(Tail(s)) /\ s[i] = Tail(s)[i - 1]
  BY <1>1, <1>2
<1>3. Image(s) \subseteq {Head(s)} \cup Image(Tail(s))
  BY <1>1, <1>2 DEF Image
<1>4. {Head(s)} \cup Image(Tail(s)) \subseteq Image(s)
  BY <1>1 DEF Image
<1>5. QED
  BY <1>3, <1>4

(* The elements of a sequence over S are in S. *)
LEMMA ImageSubset ==
  ASSUME NEW S, NEW s \in Seq(S)
  PROVE  Image(s) \subseteq S
BY DEF Image

(* The empty sequence has an empty image. *)
LEMMA ImageEmpty ==
  Image(<< >>) = {}
BY DEF Image

(* Concatenation: the union of the images. *)
LEMMA ImageConcat ==
  ASSUME NEW S, NEW s \in Seq(S), NEW t \in Seq(S)
  PROVE  Image(s \o t) = Image(s) \cup Image(t)
<1>1. /\ Len(s \o t) = Len(s) + Len(t)
      /\ Len(s) \in Nat /\ Len(t) \in Nat
      /\ \A i \in 1..Len(s) + Len(t) :
            (s \o t)[i] = IF i <= Len(s) THEN s[i] ELSE t[i - Len(s)]
  OBVIOUS
<1>2. Image(s \o t) \subseteq Image(s) \cup Image(t)
  BY <1>1 DEF Image
<1>3. Image(s) \subseteq Image(s \o t)
  BY <1>1 DEF Image
<1>4. ASSUME NEW i \in 1..Len(t)
      PROVE  /\ Len(s) + i \in 1..Len(s \o t)
             /\ (s \o t)[Len(s) + i] = t[i]
  BY <1>1
<1>5. Image(t) \subseteq Image(s \o t)
  BY <1>4 DEF Image
<1>6. QED
  BY <1>2, <1>3, <1>5

(* Concatenating disjoint duplicate-free sequences gives one. *)
LEMMA ConcatNoDuplicates ==
  ASSUME NEW S, NEW s \in Seq(S), NEW t \in Seq(S),
         NoDuplicates(s), NoDuplicates(t), Image(s) \cap Image(t) = {}
  PROVE  NoDuplicates(s \o t)
<1>1. /\ Len(s \o t) = Len(s) + Len(t)
      /\ Len(s) \in Nat /\ Len(t) \in Nat
      /\ \A i \in 1..Len(s) + Len(t) :
            (s \o t)[i] = IF i <= Len(s) THEN s[i] ELSE t[i - Len(s)]
  OBVIOUS
<1>2. \A i \in 1..Len(s) : s[i] \in Image(s)
  BY DEF Image
<1>3. \A i \in 1..Len(t) : t[i] \in Image(t)
  BY DEF Image
<1>4. SUFFICES ASSUME NEW i \in 1..Len(s) + Len(t), NEW j \in 1..Len(s) + Len(t),
                      (s \o t)[i] = (s \o t)[j]
               PROVE  i = j
  BY <1>1 DEF NoDuplicates
<1>5. CASE i <= Len(s) /\ j <= Len(s)
  BY <1>1, <1>4, <1>5 DEF NoDuplicates
<1>6. CASE i > Len(s) /\ j > Len(s)
  BY <1>1, <1>4, <1>6 DEF NoDuplicates
<1>7. CASE i <= Len(s) /\ j > Len(s)
  BY <1>1, <1>2, <1>3, <1>4, <1>7
<1>8. CASE i > Len(s) /\ j <= Len(s)
  BY <1>1, <1>2, <1>3, <1>4, <1>8
<1>9. QED
  BY <1>1, <1>5, <1>6, <1>7, <1>8

(* Appending a new element keeps a sequence free of duplicates. *)
LEMMA AppendNoDuplicates ==
  ASSUME NEW S, NEW s \in Seq(S), NEW e \in S, NoDuplicates(s), e \notin Image(s)
  PROVE  NoDuplicates(Append(s, e))
<1>1. /\ Len(Append(s, e)) = Len(s) + 1
      /\ Len(s) \in Nat
      /\ \A i \in 1..Len(s) : Append(s, e)[i] = s[i] /\ s[i] # e
      /\ Append(s, e)[Len(s) + 1] = e
  BY DEF Image
<1>2. QED
  BY <1>1 DEF NoDuplicates

-----------------------------------------------------------------------------
(* A bound on the size of a union. *)
LEMMA CardinalityUnion ==
  ASSUME NEW S, NEW T, IsFiniteSet(S), IsFiniteSet(T),
         NEW m \in Nat, NEW n \in Nat,
         Cardinality(S) <= m, Cardinality(T) <= n
  PROVE  IsFiniteSet(S \cup T) /\ Cardinality(S \cup T) <= m + n
<1>1. /\ Cardinality(S) \in Nat /\ Cardinality(T) \in Nat
      /\ IsFiniteSet(S \cap T) /\ IsFiniteSet(S \cup T)
      /\ Cardinality(S \cup T) =
           Cardinality(S) + Cardinality(T) - Cardinality(S \cap T)
  BY FS_CardinalityType, FS_Union, FS_Intersection
<1>2. Cardinality(S \cap T) \in Nat
  BY <1>1, FS_CardinalityType
<1>3. QED
  BY <1>1, <1>2

(* A function on 1..n is a sequence. *)
LEMMA SeqOfLength ==
  ASSUME NEW S, NEW n \in Nat, NEW f \in [1..n -> S]
  PROVE  f \in Seq(S)
<1>1. [1..n -> S] \in {[1..m -> S] : m \in Nat}
  OBVIOUS
<1>2. QED
  BY <1>1, SeqDef, Zenon

(* SyncN is between 1 and R, whatever the configured value. *)
LEMMA SyncNRange ==
  SyncN \in 1..R
BY UploadAssumption DEF SyncN

(* launchNext starts providers only. *)
LEMMA LaunchNextType ==
  ASSUME TypeOK, LaunchNext
  PROVE  launched' \in Nat /\ running' \subseteq Providers
<1>1. CASE MoreCandidates
  <2>1. launched + 1 \in 1..Len(cands)
    BY <1>1 DEF MoreCandidates, TypeOK
  <2>2. cands[launched + 1] \in Providers
    BY <2>1 DEF TypeOK
  <2>3. QED
    BY <1>1, <2>2 DEF LaunchNext, TypeOK
<1>2. CASE ~ MoreCandidates
  BY <1>2 DEF LaunchNext, TypeOK
<1>3. QED
  BY <1>1, <1>2

(* Every step preserves the type invariant. *)
LEMMA TypeStep == TypeOK /\ [Next]_vars => TypeOK'
<1> SUFFICES ASSUME TypeOK, [Next]_vars
             PROVE  TypeOK'
  OBVIOUS
<1> USE UploadAssumption DEF TypeOK, callerVars, drainerVars, uploadVars
<1>1. CASE Start
  <2>0. PICK eligible \in SUBSET Providers :
          \E c \in CandidateOrders(eligible) : StartWith(c)
    BY <1>1 DEF Start
  <2>1. PICK c \in CandidateOrders(eligible) : StartWith(c)
    BY <2>0
  <2>2. IsFiniteSet(eligible)
    BY FS_Subset
  <2>3. Cardinality(eligible) \in Nat
    BY <2>2, FS_CardinalityType
  <2>4. c \in Seq(Providers)
    <3>1. c \in [1..Cardinality(eligible) -> Providers]
      BY DEF CandidateOrders
    <3>2. QED
      BY <2>3, <3>1, SeqOfLength
  <2>5. InitialLaunch(c) \in Nat /\ InitialLaunch(c) <= Len(c)
    BY <2>4 DEF InitialLaunch
  <2>6. {c[i] : i \in 1..InitialLaunch(c)} \subseteq Providers
    BY <2>4, <2>5
  <2>7. QED
    BY <2>1, <2>4, <2>5, <2>6 DEF StartWith
<1>2. ASSUME NEW p \in Providers, UploadOK(p) PROVE TypeOK'
  BY <1>2 DEF UploadOK
<1>3. ASSUME NEW p \in Providers, UploadFail(p) PROVE TypeOK'
  BY <1>3 DEF UploadFail
<1>4. CASE CollectOK
  BY <1>4 DEF CollectOK
<1>5. CASE CollectFail
  <2>1. launched' \in Nat /\ running' \subseteq Providers
    BY <1>5, LaunchNextType DEF CollectFail
  <2>2. QED
    BY <1>5, <2>1 DEF CollectFail
<1>6. CASE CtxDone
  BY <1>6 DEF CtxDone
<1>7. CASE Return
  BY <1>7 DEF Return
<1>8. CASE CloseReady
  BY <1>8 DEF CloseReady
<1>9. CASE DrainOK
  BY <1>9 DEF DrainOK, Draining
<1>10. CASE DeliverExtra
  BY <1>10 DEF DeliverExtra
<1>11. CASE DrainFail
  <2>1. launched' \in Nat /\ running' \subseteq Providers
    BY <1>11, LaunchNextType DEF DrainFail
  <2>2. QED
    BY <1>11, <2>1 DEF DrainFail, Draining
<1>12. CASE DrainDone
  BY <1>12 DEF DrainDone
<1>13. CASE UNCHANGED vars
  BY <1>13 DEF vars
<1>14. QED
  BY <1>1, <1>2, <1>3, <1>4, <1>5, <1>6, <1>7, <1>8, <1>9, <1>10, <1>11,
     <1>12, <1>13 DEF Next, CallerStep, DrainerStep, UploadStep

(* The type invariant holds initially. *)
LEMMA TypeInit == Init => TypeOK
<1> SUFFICES ASSUME Init PROVE TypeOK
  OBVIOUS
<1>1. fails \in [Providers -> Nat]
  BY UploadAssumption DEF Init
<1>2. << >> \in Seq(Providers) /\ << >> \in Seq(Providers \cup {NoReplica})
  OBVIOUS
<1>3. QED
  BY <1>1, <1>2 DEF Init, TypeOK

(* The type invariant, which needs no other invariant. *)
THEOREM TypeCorrect == Spec => []TypeOK
BY TypeInit, TypeStep, PTL DEF Spec

-----------------------------------------------------------------------------
(* The inductive invariant. *)

(* The set of running uploads is finite. *)
LEMMA RunningFinite ==
  ASSUME TypeOK
  PROVE  IsFiniteSet(running) /\ Cardinality(running) \in Nat
BY FS_Subset, FS_CardinalityType, UploadAssumption DEF TypeOK

(* launchNext starts a provider that was not used before. *)
LEMMA LaunchNextFresh ==
  ASSUME IInv, LaunchNext, MoreCandidates
  PROVE  /\ launched' = launched + 1
         /\ running' = running \cup {cands[launched + 1]}
         /\ cands[launched + 1] \in Providers
         /\ cands[launched + 1] \notin running \cup stored
         /\ Cardinality(running') = Cardinality(running) + 1
<1>1. launched + 1 \in 1..Len(cands) /\ launched \in Nat
  BY DEF MoreCandidates, IInv, TypeOK
<1>2. \A i \in 1..launched : cands[i] # cands[launched + 1]
  BY <1>1 DEF IInv, PlacementInv, NoDuplicates
<1>3. cands[launched + 1] \notin running \cup stored
  BY <1>2 DEF IInv, PlacementInv
<1>4. launched' = launched + 1 /\ running' = running \cup {cands[launched + 1]}
  BY DEF LaunchNext
<1>5. Cardinality(running') = Cardinality(running) + 1
  BY <1>3, <1>4, RunningFinite, FS_AddElement DEF IInv
<1>6. QED
  BY <1>1, <1>3, <1>4, <1>5 DEF IInv, TypeOK

(* A received outcome leaves the channel. *)
LEMMA Received ==
  ASSUME IInv, results # << >>, results' = Tail(results)
  PROVE  /\ Len(results) \in Nat \ {0}
         /\ Len(results') = Len(results) - 1
         /\ Head(results) \in Providers \cup {NoReplica}
         /\ Image(results) = {Head(results)} \cup Image(results')
         /\ Head(results) # NoReplica => Head(results) \notin Image(results')
         /\ \A i, j \in 1..Len(results') :
              results'[i] = results'[j] /\ results'[i] # NoReplica => i = j
<1>1. results \in Seq(Providers \cup {NoReplica})
  BY DEF IInv, TypeOK
<1>2. /\ Len(results) \in Nat \ {0}
      /\ Len(results') = Len(results) - 1
      /\ Head(results) \in Providers \cup {NoReplica}
      /\ Head(results) = results[1]
      /\ \A i \in 1..Len(results') : results'[i] = results[i + 1]
  BY <1>1
<1>3. Image(results) = {Head(results)} \cup Image(results')
  BY <1>1, ImageHeadTail
<1>4. \A i, j \in 1..Len(results) :
        results[i] = results[j] /\ results[i] # NoReplica => i = j
  BY DEF IInv, OnceInv
<1>5. Head(results) # NoReplica => Head(results) \notin Image(results')
  BY <1>2, <1>4 DEF Image
<1>6. \A i, j \in 1..Len(results') :
        results'[i] = results'[j] /\ results'[i] # NoReplica => i = j
  BY <1>2, <1>4
<1>7. QED
  BY <1>2, <1>3, <1>5, <1>6

(* Launching the first candidates. *)
LEMMA StartInv ==
  ASSUME IInv, TypeOK', NEW eligible \in SUBSET Providers,
         NEW c \in CandidateOrders(eligible), caller = "start", StartWith(c)
  PROVE  IInv'
<1> USE UploadAssumption
<1> DEFINE n == InitialLaunch(c)
<1>1. /\ c \in Seq(Providers) /\ Len(c) \in Nat /\ cands' = c
      /\ NoDuplicates(c)
  BY DEF StartWith, TypeOK, CandidateOrders, CandidateOrder
<1>2. n \in Nat /\ n <= Len(c) /\ n <= R /\ (n = R \/ n = Len(c))
  BY <1>1 DEF InitialLaunch
<1>3. Cardinality({c[i] : i \in 1..n}) = n
  <2>1. [i \in 1..n |-> c[i]] \in Injection(1..n, {c[i] : i \in 1..n})
    BY <1>1, <1>2 DEF Injection, IsInjective, NoDuplicates
  <2>2. [i \in 1..n |-> c[i]] \in Surjection(1..n, {c[i] : i \in 1..n})
    BY <2>1 DEF Surjection, Injection
  <2>3. IsFiniteSet(1..n) /\ Cardinality(1..n) = n
    BY <1>2, FS_Interval, SMTT(30)
  <2>4. QED
    BY <2>1, <2>2, <2>3, FS_Surjection
<1>4. /\ launched = 0 /\ inflight = 0 /\ collected = 0
      /\ running = {} /\ results = << >> /\ synced = << >>
      /\ drainer = "none" /\ extras = << >> /\ pending = NoReplica
      /\ stored = {}
  BY ImageEmpty DEF StartWith, IInv, ControlInv, TypeOK, PlacementInv
<1>5. /\ launched' = n /\ inflight' = n /\ collected' = 0
      /\ running' = {c[i] : i \in 1..n} /\ results' = << >> /\ synced' = << >>
      /\ drainer' = "none" /\ extras' = << >> /\ pending' = NoReplica
      /\ stored' = {} /\ remaining' = remaining /\ total' = total
      /\ caller' = IF c = << >> THEN "failed" ELSE "collect"
  BY <1>4 DEF StartWith, drainerVars
<1>6. Outstanding' = n /\ Held' = 0
  BY <1>2, <1>3, <1>5 DEF Outstanding, Held
<1>7. ControlInv'
  BY <1>5 DEF ControlInv
<1>8. CountInv'
  <2>1. SyncN' \in 1..R
    BY SyncNRange DEF SyncN
  <2>2. c = << >> => n = 0
    BY <1>2
  <2>3. QED
    BY <1>1, <1>2, <1>5, <1>6, <2>1, <2>2 DEF CountInv
<1>9. BudgetInv'
  BY <1>1, <1>2, <1>5, <1>6 DEF BudgetInv, TopsUpToR
<1>10. PlacementInv'
  BY <1>1, <1>5, ImageEmpty DEF PlacementInv
<1>11. OnceInv'
  BY <1>5, ImageEmpty DEF OnceInv, NoDuplicates
<1>12. QED
  BY <1>7, <1>8, <1>9, <1>10, <1>11 DEF IInv

(* An upload goroutine sends its outcome and ends. *)
LEMMA UploadInv ==
  ASSUME IInv, TypeOK', NEW p \in Providers, UploadStep(p)
  PROVE  IInv'
<1> USE UploadAssumption
<1>1. PICK o \in {p, NoReplica} :
        /\ results' = Append(results, o)
        /\ running' = running \ {p}
        /\ stored' = IF o = p THEN stored \cup {p} ELSE stored
        /\ p \in running
        /\ UNCHANGED <<callerVars, drainerVars, cands, launched, ready>>
  BY DEF UploadStep, UploadOK, UploadFail, IInv, TypeOK
<1>2. UNCHANGED <<caller, drainer, launched, inflight, collected, remaining,
                  total, cands, synced, extras, pending>>
  BY <1>1 DEF callerVars, drainerVars
<1>3. results \in Seq(Providers \cup {NoReplica}) /\ o \in Providers \cup {NoReplica}
  BY DEF IInv, TypeOK
<1>4. /\ Len(results) \in Nat /\ Len(results') = Len(results) + 1
      /\ \A i \in 1..Len(results) : results'[i] = results[i]
      /\ results'[Len(results) + 1] = o
  BY <1>1, <1>3
<1>5. Cardinality(running') = Cardinality(running) - 1 /\ Cardinality(running) \in Nat
  BY <1>1, RunningFinite, FS_RemoveElement DEF IInv
<1>6. Outstanding' = Outstanding /\ Held' = Held
  BY <1>2, <1>4, <1>5 DEF Outstanding, Held
<1>7. Image(results') = Image(results) \cup {o}
  BY <1>1, <1>3, ImageAppend
<1>8. p \notin stored /\ p # NoReplica
  BY <1>1 DEF IInv, PlacementInv
<1>9. p \notin Image(synced) \cup Image(extras) \cup Image(results) \cup {pending}
  BY <1>8 DEF IInv, PlacementInv
<1>10. NoReplica \notin Image(synced) \cup Image(extras)
  BY ImageSubset DEF IInv, TypeOK
<1>11. ControlInv'
  BY <1>1, <1>2 DEF IInv, ControlInv
<1>12. CountInv'
  BY <1>2, <1>6 DEF IInv, CountInv, SyncN
<1>13. BudgetInv'
  BY <1>2, <1>6 DEF IInv, BudgetInv, TopsUpToR
<1>14. PlacementInv'
  <2>1. NoDuplicates(cands)'
    BY <1>2 DEF IInv, PlacementInv
  <2>2. (running \cup stored \subseteq {cands[i] : i \in 1..launched})'
    BY <1>1, <1>2 DEF IInv, PlacementInv
  <2>3. (running \cap stored = {})'
    BY <1>1 DEF IInv, PlacementInv
  <2>4. (stored = Image(synced) \cup Image(extras)
                 \cup ((Image(results) \cup {pending}) \ {NoReplica}))'
    BY <1>1, <1>2, <1>7, <1>8 DEF IInv, PlacementInv
  <2>5. QED
    BY <2>1, <2>2, <2>3, <2>4 DEF PlacementInv
<1>15. OnceInv'
  <2>1. \A i \in 1..Len(results) : results[i] # p
    BY <1>9 DEF Image
  <2>2. \A i, j \in 1..Len(results') :
          results'[i] = results'[j] /\ results'[i] # NoReplica => i = j
    BY <1>3, <1>4, <2>1 DEF IInv, OnceInv
  <2>3. (Image(results) \cap (Image(synced) \cup Image(extras)) = {})'
    BY <1>2, <1>7, <1>9, <1>10 DEF IInv, OnceInv
  <2>4. (pending # NoReplica => pending \notin Image(results))'
    BY <1>2, <1>7, <1>9 DEF IInv, OnceInv
  <2>5. QED
    BY <1>2, <2>2, <2>3, <2>4 DEF IInv, OnceInv
<1>16. QED
  BY <1>11, <1>12, <1>13, <1>14, <1>15 DEF IInv

(* The caller keeps a replica it received. *)
LEMMA CollectOKInv ==
  ASSUME IInv, TypeOK', CollectOK
  PROVE  IInv'
<1> USE UploadAssumption
<1> DEFINE h == Head(results)
<1>1. /\ caller = "collect" /\ Len(synced) < SyncN /\ collected < inflight
      /\ results # << >> /\ h # NoReplica
      /\ collected' = collected + 1 /\ synced' = Append(synced, h)
      /\ results' = Tail(results)
      /\ UNCHANGED <<caller, inflight, drainer, remaining, total, pending, extras,
                     running, stored, cands, launched>>
  BY DEF CollectOK, Collecting, drainerVars, uploadVars
<1>2. /\ Len(results) \in Nat \ {0} /\ Len(results') = Len(results) - 1
      /\ h \in Providers
      /\ Image(results) = {h} \cup Image(results')
      /\ h \notin Image(results')
      /\ \A i, j \in 1..Len(results') :
           results'[i] = results'[j] /\ results'[i] # NoReplica => i = j
  BY <1>1, Received
<1>3. synced \in Seq(Providers) /\ Cardinality(running) \in Nat
  BY RunningFinite DEF IInv, TypeOK
<1>4. Len(synced') = Len(synced) + 1 /\ Len(synced) \in Nat /\ synced' # << >>
  BY <1>1, <1>2, <1>3
<1>5. Image(synced') = Image(synced) \cup {h}
  BY <1>1, <1>2, <1>3, ImageAppend
<1>6. Outstanding' = Outstanding - 1 /\ Held' = Held
  BY <1>1, <1>2, <1>3 DEF Outstanding, Held
<1>7. drainer = "none" /\ extras = << >> /\ pending = NoReplica
  BY <1>1 DEF IInv, ControlInv, TypeOK
<1>8. h \notin Image(synced)
  BY <1>2 DEF IInv, OnceInv
<1>9. ControlInv'
  BY <1>1, <1>4, <1>7 DEF IInv, ControlInv
<1>10. CountInv'
  <2>1. SyncN' = SyncN
    BY DEF SyncN
  <2>2. Len(synced') <= SyncN
    BY <1>1, <1>4, SyncNRange
  <2>3. launched \in Nat /\ collected \in Nat /\ Len(cands) \in Nat
    BY DEF IInv, TypeOK
  <2>4. Outstanding \in Nat
    BY <1>2, <1>3 DEF Outstanding
  <2>5. QED
    BY <1>1, <1>6, <1>7, <2>1, <2>2, <2>3, <2>4 DEF IInv, CountInv
<1>11. BudgetInv'
  BY <1>1, <1>2, <1>3, <1>4, <1>6 DEF IInv, BudgetInv, TopsUpToR, Outstanding, TypeOK, Held
<1>12. PlacementInv'
  BY <1>1, <1>2, <1>5 DEF IInv, PlacementInv
<1>13. OnceInv'
  <2>1. NoDuplicates(synced')
    BY <1>1, <1>2, <1>3, <1>8, AppendNoDuplicates DEF IInv, OnceInv
  <2>2. Image(extras') = {} /\ Image(extras) = {}
    BY <1>1, <1>7, ImageEmpty
  <2>3. NoReplica \notin Image(synced')
    BY ImageSubset DEF TypeOK
  <2>4. QED
    BY <1>1, <1>2, <1>5, <1>7, <2>1, <2>2, <2>3 DEF IInv, OnceInv
<1>14. QED
  BY <1>9, <1>10, <1>11, <1>12, <1>13 DEF IInv

(* Receiving a failure and launching a replacement, or not, moves no replica;
   the caller and the drainer both do it. *)
LEMMA ReplacementPlaced ==
  ASSUME IInv, TypeOK',
         results # << >>, Head(results) = NoReplica, results' = Tail(results),
         LaunchNext \/ UNCHANGED <<launched, running>>,
         UNCHANGED <<synced, extras, pending, stored, cands>>
  PROVE  PlacementInv' /\ OnceInv'
<1> USE UploadAssumption
<1>1. /\ Image(results) = {NoReplica} \cup Image(results')
      /\ \A i, j \in 1..Len(results') :
           results'[i] = results'[j] /\ results'[i] # NoReplica => i = j
  BY Received
<1>2. OnceInv'
  BY <1>1 DEF IInv, OnceInv
<1>3. CASE LaunchNext /\ MoreCandidates
  <2>1. /\ launched' = launched + 1
        /\ running' = running \cup {cands[launched + 1]}
        /\ cands[launched + 1] \notin running \cup stored
    BY <1>3, LaunchNextFresh
  <2>2. launched \in Nat
    BY DEF IInv, TypeOK
  <2>3. (running \cup stored \subseteq {cands[i] : i \in 1..launched})'
    <3>1. {cands[i] : i \in 1..launched'}
            = {cands[i] : i \in 1..launched} \cup {cands[launched + 1]}
      <4>1. 1..launched' = 1..launched \cup {launched + 1}
        BY <2>1, <2>2
      <4>2. QED
        BY <4>1
    <3>2. running \cup stored \subseteq {cands[i] : i \in 1..launched}
      BY DEF IInv, PlacementInv
    <3>3. cands' = cands /\ stored' = stored
      OBVIOUS
    <3>4. {cands'[i] : i \in 1..launched'} = {cands[i] : i \in 1..launched'}
      BY <3>3
    <3>5. QED
      BY <2>1, <3>1, <3>2, <3>3, <3>4
  <2>4. (stored = Image(synced) \cup Image(extras)
                 \cup ((Image(results) \cup {pending}) \ {NoReplica}))'
    BY <1>1 DEF IInv, PlacementInv
  <2>5. QED
    BY <1>2, <2>1, <2>3, <2>4 DEF IInv, PlacementInv
<1>4. CASE UNCHANGED <<launched, running>>
  <2>1. (running \cup stored \subseteq {cands[i] : i \in 1..launched})'
    BY <1>4 DEF IInv, PlacementInv
  <2>2. (stored = Image(synced) \cup Image(extras)
                 \cup ((Image(results) \cup {pending}) \ {NoReplica}))'
    BY <1>1 DEF IInv, PlacementInv
  <2>3. QED
    BY <1>2, <1>4, <2>1, <2>2 DEF IInv, PlacementInv
<1>5. QED
  BY <1>3, <1>4 DEF LaunchNext

(* The caller receives a failure and launches a replacement, if any. *)
LEMMA CollectFailInv ==
  ASSUME IInv, TypeOK', CollectFail
  PROVE  IInv'
<1> USE UploadAssumption
<1>1. /\ caller = "collect"
      /\ results # << >> /\ Head(results) = NoReplica
      /\ collected' = collected + 1
      /\ results' = Tail(results)
      /\ LaunchNext
      /\ inflight' = IF MoreCandidates THEN inflight + 1 ELSE inflight
      /\ UNCHANGED <<caller, synced, drainer, remaining, total, pending, extras,
                     stored, cands>>
  BY DEF CollectFail, Collecting, drainerVars
<1>2. SyncN' = SyncN
  BY DEF SyncN
<1>3. drainer = "none" /\ extras = << >> /\ pending = NoReplica
  BY <1>1 DEF IInv, ControlInv, TypeOK
<1>4. /\ launched \in Nat /\ collected \in Nat /\ Len(cands) \in Nat
      /\ Cardinality(running) \in Nat /\ Len(synced) \in Nat /\ Held' = Held
      /\ Len(extras) = 0 /\ Held = 0
  BY <1>1, <1>3, RunningFinite DEF IInv, TypeOK, Held
<1>5. /\ Len(results) \in Nat \ {0} /\ Len(results') = Len(results) - 1
  BY <1>1, Received
<1>6. ControlInv'
  BY <1>1, <1>3 DEF IInv, ControlInv
<1>7. PlacementInv' /\ OnceInv'
  BY <1>1, ReplacementPlaced
<1>8. CASE MoreCandidates
  <2>1. launched' = launched + 1 /\ Cardinality(running') = Cardinality(running) + 1
    BY <1>1, <1>8, LaunchNextFresh
  <2>2. Outstanding' = Outstanding
    BY <1>4, <1>5, <2>1 DEF Outstanding
  <2>3. CountInv'
    BY <1>1, <1>2, <1>3, <1>4, <1>5, <1>8, <2>1, <2>2
       DEF IInv, CountInv, MoreCandidates, Outstanding
  <2>4. BudgetInv'
    BY <1>1, <1>3, <1>4, <1>8, <2>1, <2>2
       DEF IInv, BudgetInv, TopsUpToR, MoreCandidates
  <2>5. QED
    BY <1>6, <1>7, <2>3, <2>4 DEF IInv
<1>9. CASE ~ MoreCandidates
  <2>1. UNCHANGED <<launched, running>>
    BY <1>1, <1>9 DEF LaunchNext
  <2>2. Outstanding' = Outstanding - 1 /\ Outstanding \in Nat
    BY <1>4, <1>5, <2>1 DEF Outstanding
  <2>3. CountInv'
    BY <1>1, <1>2, <1>3, <1>4, <1>9, <2>1, <2>2 DEF IInv, CountInv
  <2>4. BudgetInv'
    <3>1. launched = Len(cands)
      BY <1>4, <1>9 DEF IInv, CountInv, MoreCandidates
    <3>2. QED
      BY <1>1, <1>3, <1>4, <2>1, <2>2, <3>1 DEF IInv, BudgetInv, TopsUpToR
  <2>5. QED
    BY <1>6, <1>7, <2>3, <2>4 DEF IInv
<1>10. QED
  BY <1>8, <1>9

(* The caller's request ends during the wait, or the handler returns: no
   replica and no counter changes. *)
LEMMA LeaveInv ==
  ASSUME IInv, TypeOK', CtxDone \/ CloseReady
  PROVE  IInv'
<1>1. UNCHANGED <<drainer, cands, launched, inflight, collected, remaining, total,
                  running, stored, results, synced, pending, extras>>
  BY DEF CtxDone, CloseReady, callerVars, drainerVars, uploadVars
<1>2. \/ caller' = caller
      \/ caller = "collect" /\ caller' = "cancelled"
  BY DEF CtxDone, CloseReady, Collecting, callerVars
<1>3. UNCHANGED <<Outstanding, Held, SyncN>>
  BY <1>1 DEF Outstanding, Held, SyncN
<1>4. ControlInv'
  BY <1>1, <1>2 DEF IInv, ControlInv
<1>5. CountInv'
  BY <1>1, <1>2, <1>3 DEF IInv, CountInv
<1>6. BudgetInv'
  BY <1>1, <1>2, <1>3 DEF IInv, BudgetInv, TopsUpToR
<1>7. PlacementInv' /\ OnceInv'
  BY <1>1 DEF IInv, PlacementInv, OnceInv
<1>8. QED
  BY <1>4, <1>5, <1>6, <1>7 DEF IInv

(* The caller returns; the drainer starts if outcomes are outstanding. *)
LEMMA ReturnInv ==
  ASSUME IInv, TypeOK', Return
  PROVE  IInv'
<1> USE UploadAssumption
<1>1. /\ caller = "collect"
      /\ Len(synced) >= SyncN \/ collected >= inflight
      /\ caller' = IF synced = << >> THEN "failed" ELSE "ok"
      /\ IF synced # << >> /\ inflight - collected > 0
           THEN drainer' = "run" /\ remaining' = inflight - collected
                /\ total' = Len(synced)
           ELSE UNCHANGED <<drainer, remaining, total>>
      /\ UNCHANGED <<cands, launched, inflight, collected, running, stored,
                     results, synced, pending, extras>>
  <2>1. Len(synced) \in Nat /\ collected \in Nat /\ inflight \in Nat
    BY DEF IInv, TypeOK
  <2>2. QED
    BY <2>1, SyncNRange DEF Return, Collecting, uploadVars
<1>2. UNCHANGED <<Outstanding, Held, SyncN>>
  BY <1>1 DEF Outstanding, Held, SyncN
<1>3. drainer = "none" /\ extras = << >> /\ pending = NoReplica /\ Held = 0
  BY <1>1 DEF IInv, ControlInv, TypeOK, Held
<1>4. inflight = launched /\ launched = collected + Outstanding
  BY <1>1 DEF IInv, CountInv
<1>5. /\ launched \in Nat /\ collected \in Nat /\ Len(synced) \in Nat
      /\ Len(extras) = 0
  BY <1>3 DEF IInv, TypeOK
<1>6. Outstanding \in Nat
  <2>1. Cardinality(running) \in Nat /\ Len(results) \in Nat
    BY RunningFinite DEF IInv, TypeOK
  <2>2. QED
    BY <2>1 DEF Outstanding
<1>7. inflight - collected = Outstanding
  BY <1>4, <1>5, <1>6
<1>8. synced = << >> => Outstanding = 0
  <2>1. synced = << >> => Len(synced) = 0
    OBVIOUS
  <2>2. QED
    BY <1>1, <1>4, <1>5, <1>6, <2>1, SyncNRange
<1>9. ControlInv'
  BY <1>1, <1>3 DEF IInv, ControlInv
<1>10. CountInv'
  <2>1. CASE drainer' = "run"
    BY <1>1, <1>2, <1>3, <1>5, <1>7, <2>1 DEF IInv, CountInv
  <2>2. CASE drainer' # "run"
    <3>1. Outstanding = 0 /\ drainer' = "none"
      BY <1>1, <1>3, <1>6, <1>7, <1>8, <2>2
    <3>2. QED
      BY <1>1, <1>2, <1>3, <3>1 DEF IInv, CountInv
  <2>3. QED
    BY <2>1, <2>2
<1>11. BudgetInv'
  BY <1>1, <1>2 DEF IInv, BudgetInv, TopsUpToR
<1>12. PlacementInv' /\ OnceInv'
  BY <1>1 DEF IInv, PlacementInv, OnceInv
<1>13. QED
  BY <1>9, <1>10, <1>11, <1>12 DEF IInv

(* The drainer takes a late replica from the channel. *)
LEMMA DrainOKInv ==
  ASSUME IInv, TypeOK', DrainOK
  PROVE  IInv'
<1> USE UploadAssumption
<1> DEFINE h == Head(results)
<1>1. /\ drainer = "run" /\ remaining > 0
      /\ results # << >> /\ h # NoReplica
      /\ results' = Tail(results)
      /\ remaining' = remaining - 1 /\ total' = total + 1
      /\ drainer' = "extra" /\ pending' = h
      /\ UNCHANGED <<caller, inflight, collected, synced, extras, running, stored,
                     cands, launched>>
  BY DEF DrainOK, Draining, callerVars, uploadVars
<1>2. /\ Len(results) \in Nat \ {0} /\ Len(results') = Len(results) - 1
      /\ h \in Providers
      /\ Image(results) = {h} \cup Image(results')
      /\ h \notin Image(results')
      /\ \A i, j \in 1..Len(results') :
           results'[i] = results'[j] /\ results'[i] # NoReplica => i = j
  BY <1>1, Received
<1>3. caller = "ok" /\ pending = NoReplica
  BY <1>1 DEF IInv, ControlInv
<1>4. Cardinality(running) \in Nat
  BY RunningFinite DEF IInv
<1>5. Outstanding' = Outstanding - 1 /\ Outstanding \in Nat
  BY <1>1, <1>2, <1>4 DEF Outstanding
<1>6. Held = 0 /\ Held' = 1
  BY <1>1, <1>3 DEF Held
<1>7. /\ Len(synced) \in Nat /\ Len(extras) \in Nat /\ total \in Nat
      /\ remaining \in Nat /\ launched \in Nat /\ Len(cands) \in Nat
  BY SMTT(30) DEF IInv, TypeOK
<1>8. ControlInv'
  BY <1>1, <1>3 DEF IInv, ControlInv
<1>9. CountInv'
  <2>1. SyncN' = SyncN
    BY DEF SyncN
  <2>2. QED
    BY <1>1, <1>3, <1>5, <1>6, <1>7, <2>1 DEF IInv, CountInv
<1>10. BudgetInv'
  BY <1>1, <1>3, <1>5, <1>6, <1>7 DEF IInv, BudgetInv, TopsUpToR
<1>11. PlacementInv'
  BY <1>1, <1>2, <1>3 DEF IInv, PlacementInv
<1>12. OnceInv'
  BY <1>1, <1>2, <1>3 DEF IInv, OnceInv
<1>13. QED
  BY <1>8, <1>9, <1>10, <1>11, <1>12 DEF IInv

(* onExtra returns: the late replica is delivered. *)
LEMMA DeliverExtraInv ==
  ASSUME IInv, TypeOK', DeliverExtra
  PROVE  IInv'
<1> USE UploadAssumption
<1>1. /\ drainer = "extra" /\ drainer' = "run"
      /\ extras' = Append(extras, pending) /\ pending' = NoReplica
      /\ UNCHANGED <<caller, inflight, collected, synced, remaining, total,
                     running, stored, results, cands, launched>>
  BY DEF DeliverExtra, callerVars, uploadVars
<1>2. pending \in Providers /\ pending # NoReplica /\ extras \in Seq(Providers)
  BY <1>1 DEF IInv, TypeOK
<1>3. Len(extras') = Len(extras) + 1 /\ Len(extras) \in Nat
  BY <1>1, <1>2
<1>4. Image(extras') = Image(extras) \cup {pending}
  BY <1>1, <1>2, ImageAppend
<1>5. Held = 1 /\ Held' = 0 /\ UNCHANGED <<Outstanding, SyncN>>
  BY <1>1, <1>2 DEF Held, Outstanding, SyncN
<1>6. caller = "ok"
  BY <1>1 DEF IInv, ControlInv
<1>7. Len(synced) \in Nat /\ total \in Nat
  BY DEF IInv, TypeOK
<1>8. ControlInv'
  BY <1>1, <1>6 DEF IInv, ControlInv
<1>9. CountInv'
  BY <1>1, <1>3, <1>5, <1>6, <1>7 DEF IInv, CountInv
<1>10. BudgetInv'
  <2>1. Len(synced') + Len(extras') + Held' + Outstanding'
          = Len(synced) + Len(extras) + Held + Outstanding
    <3>1. Outstanding \in Nat
      <4>1. Cardinality(running) \in Nat /\ Len(results) \in Nat
        BY RunningFinite DEF IInv, TypeOK
      <4>2. QED
        BY <4>1 DEF Outstanding
    <3>2. QED
      BY <1>1, <1>3, <1>5, <1>7, <3>1
  <2>2. QED
    BY <1>1, <2>1 DEF IInv, BudgetInv, TopsUpToR
<1>11. PlacementInv'
  BY <1>1, <1>2, <1>4 DEF IInv, PlacementInv
<1>12. OnceInv'
  <2>1. pending \notin Image(extras) \cup Image(synced) \cup Image(results)
    BY <1>2 DEF IInv, OnceInv
  <2>2. NoDuplicates(extras')
    BY <1>1, <1>2, <2>1, AppendNoDuplicates DEF IInv, OnceInv
  <2>3. NoReplica \notin Image(synced') \cup Image(extras')
    BY ImageSubset DEF TypeOK
  <2>4. QED
    BY <1>1, <1>2, <1>4, <2>1, <2>2, <2>3 DEF IInv, OnceInv
<1>13. QED
  BY <1>8, <1>9, <1>10, <1>11, <1>12 DEF IInv

(* The drainer receives a failure and tops up. *)
LEMMA DrainFailInv ==
  ASSUME IInv, TypeOK', DrainFail
  PROVE  IInv'
<1> USE UploadAssumption
<1>1. /\ drainer = "run" /\ remaining > 0
      /\ results # << >> /\ Head(results) = NoReplica
      /\ results' = Tail(results)
      /\ IF total < R
           THEN /\ LaunchNext
                /\ remaining' = IF MoreCandidates THEN remaining ELSE remaining - 1
           ELSE UNCHANGED <<launched, running>> /\ remaining' = remaining - 1
      /\ UNCHANGED <<caller, inflight, collected, synced, drainer, total, pending,
                     extras, stored, cands>>
  BY DEF DrainFail, Draining, callerVars
<1>2. SyncN' = SyncN /\ Held' = Held
  BY <1>1 DEF SyncN, Held
<1>3. caller = "ok" /\ pending = NoReplica /\ Held = 0
  BY <1>1 DEF IInv, ControlInv, Held
<1>4. /\ launched \in Nat /\ Len(cands) \in Nat /\ Len(synced) \in Nat
      /\ Len(extras) \in Nat /\ total \in Nat /\ remaining \in Nat
  BY SMTT(30) DEF IInv, TypeOK
<1>5. Cardinality(running) \in Nat
  BY RunningFinite DEF IInv
<1>6. Len(results) \in Nat \ {0} /\ Len(results') = Len(results) - 1
  BY <1>1, Received
<1>7. total < R
  <2>1. total = Len(synced) + Len(extras) /\ Outstanding >= 1
    BY <1>1, <1>3, <1>4, <1>5, <1>6 DEF IInv, CountInv, Outstanding
  <2>2. Outstanding \in Nat
    BY <1>5, <1>6 DEF Outstanding
  <2>3. QED
    BY <1>3, <1>4, <2>1, <2>2 DEF IInv, BudgetInv
<1>8. ControlInv'
  BY <1>1 DEF IInv, ControlInv
<1>9. PlacementInv' /\ OnceInv'
  BY <1>1, ReplacementPlaced
<1>10. CASE MoreCandidates
  <2>1. launched' = launched + 1 /\ Cardinality(running') = Cardinality(running) + 1
    BY <1>1, <1>7, <1>10, LaunchNextFresh
  <2>2. Outstanding' = Outstanding /\ Outstanding \in Nat
    BY <1>5, <1>6, <2>1 DEF Outstanding
  <2>3. CountInv'
    BY <1>1, <1>2, <1>3, <1>4, <1>7, <1>10, <2>1, <2>2
       DEF IInv, CountInv, MoreCandidates
  <2>4. BudgetInv'
    BY <1>1, <1>2, <1>3, <1>4, <1>10, <2>1, <2>2
       DEF IInv, BudgetInv, TopsUpToR, MoreCandidates
  <2>5. QED
    BY <1>8, <1>9, <2>3, <2>4 DEF IInv
<1>11. CASE ~ MoreCandidates
  <2>1. UNCHANGED <<launched, running>> /\ launched = Len(cands)
    BY <1>1, <1>4, <1>7, <1>11 DEF LaunchNext, MoreCandidates, IInv, CountInv
  <2>2. Outstanding' = Outstanding - 1 /\ Outstanding \in Nat
    BY <1>5, <1>6, <2>1 DEF Outstanding
  <2>3. CountInv'
    BY <1>1, <1>2, <1>3, <1>4, <1>7, <1>11, <2>1, <2>2 DEF IInv, CountInv
  <2>4. BudgetInv'
    BY <1>1, <1>2, <1>3, <1>4, <2>1, <2>2 DEF IInv, BudgetInv, TopsUpToR
  <2>5. QED
    BY <1>8, <1>9, <2>3, <2>4 DEF IInv
<1>12. QED
  BY <1>10, <1>11

(* The drainer ends. *)
LEMMA DrainDoneInv ==
  ASSUME IInv, TypeOK', DrainDone
  PROVE  IInv'
<1>1. /\ drainer = "run" /\ remaining = 0 /\ drainer' = "done"
      /\ UNCHANGED <<caller, inflight, collected, synced, remaining, total, pending,
                     extras, running, stored, results, cands, launched>>
  BY DEF DrainDone, callerVars, uploadVars
<1>2. UNCHANGED <<Outstanding, Held, SyncN>>
  BY <1>1 DEF Outstanding, Held, SyncN
<1>3. caller = "ok" /\ pending = NoReplica
  BY <1>1 DEF IInv, ControlInv
<1>4. ControlInv'
  BY <1>1, <1>3 DEF IInv, ControlInv
<1>5. CountInv'
  BY <1>1, <1>2, <1>3 DEF IInv, CountInv
<1>6. BudgetInv'
  BY <1>1, <1>2 DEF IInv, BudgetInv, TopsUpToR
<1>7. PlacementInv' /\ OnceInv'
  BY <1>1 DEF IInv, PlacementInv, OnceInv
<1>8. QED
  BY <1>4, <1>5, <1>6, <1>7 DEF IInv

(* The invariant holds initially. *)
LEMMA InitInv == Init => IInv
<1> SUFFICES ASSUME Init PROVE IInv
  OBVIOUS
<1> USE UploadAssumption
<1>1. TypeOK
  BY TypeInit
<1>2. Outstanding = 0 /\ Held = 0
  BY FS_EmptySet DEF Init, Outstanding, Held
<1>3. ControlInv
  BY DEF Init, ControlInv
<1>4. CountInv
  BY <1>2, SyncNRange DEF Init, CountInv
<1>5. BudgetInv
  BY <1>2 DEF Init, BudgetInv, TopsUpToR
<1>6. PlacementInv /\ OnceInv
  BY ImageEmpty DEF Init, PlacementInv, OnceInv, NoDuplicates
<1>7. QED
  BY <1>1, <1>3, <1>4, <1>5, <1>6 DEF IInv

(* Every step preserves the invariant. *)
LEMMA StepInv == IInv /\ [Next]_vars => IInv'
<1> SUFFICES ASSUME IInv, [Next]_vars PROVE IInv'
  OBVIOUS
<1>1. TypeOK'
  BY TypeStep DEF IInv
<1>2. CASE Start
  BY <1>1, <1>2, StartInv DEF Start
<1>3. ASSUME NEW p \in Providers, UploadStep(p) PROVE IInv'
  BY <1>1, <1>3, UploadInv
<1>4. CASE CollectOK \/ CollectFail \/ CtxDone \/ CloseReady \/ Return
  BY <1>1, <1>4, CollectOKInv, CollectFailInv, LeaveInv, ReturnInv
<1>5. CASE DrainerStep
  BY <1>1, <1>5, DrainOKInv, DeliverExtraInv, DrainFailInv, DrainDoneInv
     DEF DrainerStep
<1>6. CASE UNCHANGED vars
  <2>1. UNCHANGED <<caller, drainer, cands, launched, inflight, collected,
                    remaining, total, running, stored, results, synced, pending,
                    extras>>
    BY <1>6 DEF vars, callerVars, drainerVars, uploadVars
  <2>2. UNCHANGED <<Outstanding, Held, SyncN>>
    BY <2>1 DEF Outstanding, Held, SyncN
  <2>3. ControlInv' /\ CountInv'
    BY <2>1, <2>2 DEF IInv, ControlInv, CountInv
  <2>4. BudgetInv' /\ PlacementInv' /\ OnceInv'
    BY <2>1, <2>2 DEF IInv, BudgetInv, TopsUpToR, PlacementInv, OnceInv
  <2>5. QED
    BY <1>1, <2>3, <2>4 DEF IInv
<1>7. QED
  BY <1>2, <1>3, <1>4, <1>5, <1>6 DEF Next, CallerStep

(* IInv is an invariant of uploadChunk. *)
THEOREM Invariance == Spec => []IInv
BY InitInv, StepInv, PTL DEF Spec

-----------------------------------------------------------------------------
(* What the invariant implies. *)

(* The counts follow from CountInv. *)
LEMMA CountsImplied == IInv => CountsOutstanding
<1> SUFFICES ASSUME IInv PROVE CountsOutstanding
  OBVIOUS
<1>1. Outstanding \in Nat
  <2>1. Cardinality(running) \in Nat /\ Len(results) \in Nat
    BY RunningFinite DEF IInv, TypeOK
  <2>2. QED
    BY <2>1 DEF Outstanding
<1>2. launched \in Nat /\ collected \in Nat
  BY DEF IInv, TypeOK
<1>3. QED
  BY <1>1, <1>2 DEF IInv, CountInv, CountsOutstanding

(* The loops wait for exactly the outcomes to come (backend.go 208-248). *)
THEOREM CountsCorrect == Spec => []CountsOutstanding
<1> QED
  BY CountsImplied, Invariance, PTL

(* The budget of AtMostR, from the places a stored replica is recorded in. *)
LEMMA BudgetImplied == IInv => ReplicaBudget
<1>1. IInv => AtMostR
  <2> SUFFICES ASSUME IInv PROVE AtMostR
    OBVIOUS
  <2> DEFINE held == {pending} \ {NoReplica}
  <2>1. /\ IsFiniteSet(Image(synced)) /\ Cardinality(Image(synced)) <= Len(synced)
        /\ IsFiniteSet(Image(extras)) /\ Cardinality(Image(extras)) <= Len(extras)
        /\ IsFiniteSet(Image(results)) /\ Cardinality(Image(results)) <= Len(results)
    BY ImageCardinality DEF IInv, TypeOK
  <2>2. IsFiniteSet(held) /\ Cardinality(held) = Held
    <3>1. CASE pending = NoReplica
      BY <3>1, FS_EmptySet DEF Held
    <3>2. CASE pending # NoReplica
      <4>1. held = {pending}
        BY <3>2
      <4>2. QED
        BY <3>2, <4>1, FS_Singleton DEF Held
    <3>3. QED
      BY <3>1, <3>2
  <2> DEFINE A == Image(synced) \cup Image(extras)
             B == A \cup Image(results)
             C == B \cup held
  <2>3. IsFiniteSet(A) /\ Cardinality(A) <= Len(synced) + Len(extras)
    <3>1. Len(synced) \in Nat /\ Len(extras) \in Nat
      BY DEF IInv, TypeOK
    <3>2. QED
      BY <2>1, <3>1, CardinalityUnion
  <2>4. IsFiniteSet(B) /\ Cardinality(B) <= Len(synced) + Len(extras) + Len(results)
    <3>1. Len(synced) + Len(extras) \in Nat /\ Len(results) \in Nat
      BY DEF IInv, TypeOK
    <3>2. QED
      BY <2>1, <2>3, <3>1, CardinalityUnion
  <2>5. /\ IsFiniteSet(C)
        /\ Cardinality(C) <= Len(synced) + Len(extras) + Len(results) + Held
    <3>1. Len(synced) + Len(extras) + Len(results) \in Nat /\ Held \in Nat
      BY DEF IInv, TypeOK, Held
    <3>2. Cardinality(held) <= Held
      BY <2>2, <3>1
    <3>3. QED
      BY <2>2, <2>4, <3>1, <3>2, CardinalityUnion
  <2>6. stored \subseteq C
    BY DEF IInv, PlacementInv
  <2>7. Cardinality(stored) <= Cardinality(C) /\ IsFiniteSet(stored)
    BY <2>5, <2>6, FS_Subset
  <2>8. /\ Cardinality(stored) \in Nat /\ Cardinality(C) \in Nat
        /\ Cardinality(running) \in Nat /\ Held \in Nat
        /\ Len(synced) \in Nat /\ Len(extras) \in Nat /\ Len(results) \in Nat
    BY <2>5, <2>7, FS_CardinalityType, RunningFinite DEF IInv, TypeOK, Held
  <2>9. Len(synced) + Len(extras) + Held + Outstanding <= R
    BY DEF IInv, BudgetInv
  <2>10. QED
    BY <2>5, <2>7, <2>8, <2>9, UploadAssumption DEF AtMostR, Outstanding
<1>2. IInv => TopsUpToR
  BY DEF IInv, BudgetInv
<1> QED
  BY <1>1, <1>2 DEF ReplicaBudget

(* Never more than R replicas of a chunk, uploads in progress included, and
   fewer only when the candidates are used up. *)
THEOREM BudgetKept == Spec => []ReplicaBudget
<1> QED
  BY BudgetImplied, Invariance, PTL

(* As many free places as there are goroutines still to send. *)
LEMMA NeverBlocksImplied == IInv => SendNeverBlocks
<1> SUFFICES ASSUME IInv, running # {} PROVE CanSend
  BY DEF SendNeverBlocks
<1>1. IsFiniteSet(running) /\ Cardinality(running) \in Nat /\ Cardinality(running) # 0
  BY RunningFinite, FS_EmptySet DEF IInv
<1>2. Len(results) \in Nat /\ launched \in Nat /\ Len(cands) \in Nat
  BY DEF IInv, TypeOK
<1>3. QED
  BY <1>1, <1>2 DEF IInv, CountInv, Outstanding, CanSend

(* No upload goroutine ever blocks on its send. *)
THEOREM NeverBlocks == Spec => []SendNeverBlocks
<1> QED
  BY NeverBlocksImplied, Invariance, PTL

(* A failed call has counted every outcome and used every candidate. *)
LEMMA FailureImplied == IInv => FailureIsTotal
<1> SUFFICES ASSUME IInv, caller = "failed"
             PROVE  stored = {} /\ running = {} /\ launched = Len(cands)
  BY DEF FailureIsTotal
<1>1. /\ synced = << >> /\ drainer = "none" /\ extras = << >>
      /\ pending = NoReplica
  BY DEF IInv, ControlInv, TypeOK
<1>2. Outstanding = 0
  BY <1>1 DEF IInv, CountInv
<1>3. Len(results) \in Nat /\ Cardinality(running) \in Nat /\ IsFiniteSet(running)
  BY RunningFinite DEF IInv, TypeOK
<1>4. Len(results) = 0 /\ Cardinality(running) = 0
  BY <1>2, <1>3 DEF Outstanding
<1>5. running = {}
  BY <1>3, <1>4, FS_EmptySet
<1>6. results = << >>
  BY <1>4 DEF IInv, TypeOK
<1>7. stored = {}
  BY <1>1, <1>6, ImageEmpty DEF IInv, PlacementInv
<1>8. launched = Len(cands)
  <2>1. Len(synced) + Len(extras) + Held + Outstanding = 0
    BY <1>1, <1>2 DEF Held
  <2>2. QED
    BY <2>1, UploadAssumption DEF IInv, BudgetInv, TopsUpToR
<1>9. QED
  BY <1>5, <1>7, <1>8

(* An error answer leaves no replica and no upload behind. *)
THEOREM FailureTotal == Spec => []FailureIsTotal
<1> QED
  BY FailureImplied, Invariance, PTL

(* What is reported is recorded once, and stored. *)
LEMMA RegisteredImplied == IInv => RegisteredAreStored
<1> SUFFICES ASSUME IInv PROVE RegisteredAreStored
  OBVIOUS
<1>1. synced \in Seq(Providers) /\ extras \in Seq(Providers)
  BY DEF IInv, TypeOK
<1>2. Image(Registered) = Image(synced) \cup Image(extras)
  BY <1>1, ImageConcat DEF Registered
<1>3. NoDuplicates(Registered)
  BY <1>1, ConcatNoDuplicates DEF IInv, OnceInv, Registered
<1>4. QED
  BY <1>2, <1>3 DEF IInv, PlacementInv, RegisteredAreStored

(* The replicas reported are stored blobs on distinct providers. *)
THEOREM RegisteredTrue == Spec => []RegisteredAreStored
<1> QED
  BY RegisteredImplied, Invariance, PTL

(* With syncN = R nothing is left in flight when the call succeeds. *)
THEOREM SynchronousFinal == Spec => []SynchronousPathIsFinal
<1>1. IInv /\ SyncInv => SynchronousPathIsFinal
  BY DEF SyncInv, SynchronousPathIsFinal, IInv, CountInv
<1>2. Init => SyncInv
  BY DEF Init, SyncInv
<1>3. IInv /\ SyncInv /\ [Next]_vars => SyncInv'
  <2> SUFFICES ASSUME IInv, SyncInv, [Next]_vars, SyncN = R, caller' = "ok"
               PROVE  drainer' = "none"
    BY DEF SyncInv, SyncN
  <2>1. CASE Return
    <3>1. /\ caller = "collect" /\ drainer = "none"
          /\ Len(synced) >= SyncN \/ collected >= inflight
      <4>1. Len(synced) \in Nat /\ collected \in Nat /\ inflight \in Nat
        BY DEF IInv, TypeOK
      <4>2. QED
        BY <2>1, <4>1, SyncNRange DEF Return, Collecting, IInv, ControlInv
    <3>2. inflight = launched /\ launched = collected + Outstanding
      BY <3>1 DEF IInv, CountInv
    <3>3. /\ Outstanding \in Nat /\ Held \in Nat /\ Len(extras) \in Nat
          /\ Len(synced) \in Nat /\ collected \in Nat /\ launched \in Nat
      <4>1. Cardinality(running) \in Nat /\ Len(results) \in Nat
        BY RunningFinite DEF IInv, TypeOK
      <4>2. Outstanding \in Nat
        BY <4>1 DEF Outstanding
      <4>3. QED
        BY <4>2 DEF Held, IInv, TypeOK
    <3>4. Outstanding = 0
      BY <3>1, <3>2, <3>3, UploadAssumption DEF IInv, BudgetInv
    <3>5. QED
      BY <2>1, <3>1, <3>2, <3>3, <3>4 DEF Return
  <2>2. CASE DrainerStep
    BY <2>2 DEF DrainerStep, DrainOK, DeliverExtra, DrainFail, DrainDone, Draining,
       callerVars, SyncInv, IInv, ControlInv
  <2>3. CASE ~ Return /\ ~ DrainerStep
    BY <2>3 DEF Next, CallerStep, UploadStep, Start, StartWith, CollectOK,
       CollectFail, CtxDone, CloseReady, UploadOK, UploadFail, SyncInv, vars,
       callerVars, drainerVars
  <2>4. QED
    BY <2>1, <2>2, <2>3
<1>4. QED
  BY <1>1, <1>2, <1>3, Invariance, PTL DEF Spec

-----------------------------------------------------------------------------
(* Return and DeliverExtra are steps of the promise, all others stutter. *)
LEMMA PromiseStep == IInv /\ IInv' /\ [Next]_vars => [Promise!Next]_(Promise!vars)
<1> DEFINE st == CASE caller = "ok" -> "acked"
                   [] caller \in {"failed", "cancelled"} -> "failed"
                   [] OTHER -> "pending"
           reps == IF caller = "ok" THEN Image(Registered) ELSE {}
<1> SUFFICES ASSUME IInv, IInv', [Next]_vars
             PROVE  Promise!Next \/ UNCHANGED <<st, reps>>
  BY DEF Promise!vars
<1>1. /\ synced \in Seq(Providers) /\ extras \in Seq(Providers)
      /\ synced' \in Seq(Providers) /\ extras' \in Seq(Providers)
  BY DEF IInv, TypeOK
<1>2. /\ Image(Registered) = Image(synced) \cup Image(extras)
      /\ Image(Registered') = Image(synced') \cup Image(extras')
  BY <1>1, ImageConcat DEF Registered
<1>3. /\ IsFiniteSet(Image(synced)) /\ IsFiniteSet(Image(extras))
      /\ Cardinality(Image(synced)) <= Len(synced)
      /\ Cardinality(Image(extras)) <= Len(extras)
      /\ Len(synced) \in Nat /\ Len(extras) \in Nat
  BY <1>1, ImageCardinality
<1>4. CASE Return
  <2>1. /\ caller = "collect" /\ UNCHANGED <<synced, extras>>
        /\ caller' = IF synced = << >> THEN "failed" ELSE "ok"
        /\ extras = << >>
    BY <1>4 DEF Return, IInv, ControlInv
  <2>2. CASE synced = << >>
    <3>1. Promise!Fail
      BY <2>1, <2>2 DEF Promise!Fail
    <3>2. QED
      BY <3>1 DEF Promise!Next
  <2>3. CASE synced # << >>
    <3>1. Image(synced) # {} /\ Image(synced) \in SUBSET Providers
      BY <1>1, <2>3, ImageHeadTail, ImageSubset
    <3>2. Cardinality(Image(synced)) <= SyncN
      <4>1. Len(synced) <= SyncN /\ Cardinality(Image(synced)) \in Nat
        BY <1>3, FS_CardinalityType DEF IInv, CountInv
      <4>2. QED
        BY <1>3, <4>1, SyncNRange
    <3>3. reps' = Image(synced)
      BY <1>2, <2>1, <2>3, ImageEmpty
    <3>4. Promise!Ack(Image(synced))
      <4>1. st = "pending" /\ st' = "acked"
        BY <2>1, <2>3
      <4>2. QED
        BY <3>1, <3>2, <3>3, <4>1 DEF Promise!Ack, Promise!Cardinality, Cardinality
    <3>5. QED
      BY <3>1, <3>4 DEF Promise!Next
  <2>4. QED
    BY <2>2, <2>3
<1>5. CASE DeliverExtra
  <2>1. /\ drainer = "extra" /\ caller = "ok" /\ caller' = "ok"
        /\ extras' = Append(extras, pending) /\ synced' = synced
        /\ pending \in Providers /\ pending # NoReplica
    BY <1>5 DEF DeliverExtra, callerVars, IInv, ControlInv, TypeOK
  <2>2. pending \notin Image(Registered)
    BY <1>2 DEF IInv, OnceInv
  <2>3. Image(extras') = Image(extras) \cup {pending}
    BY <1>1, <2>1, ImageAppend
  <2>4. Image(Registered') = Image(Registered) \cup {pending}
    BY <1>2, <2>1, <2>3
  <2>5. Cardinality(Image(Registered)) < R
    <3>1. Len(synced) + Len(extras) + 1 <= R
      <4>1. Cardinality(running) \in Nat /\ Len(results) \in Nat
        BY RunningFinite DEF IInv, TypeOK
      <4>2. Outstanding \in Nat
        BY <4>1 DEF Outstanding
      <4>3. Held = 1
        BY <2>1 DEF Held
      <4>4. QED
        BY <1>3, <4>2, <4>3, UploadAssumption DEF IInv, BudgetInv
    <3>2. /\ IsFiniteSet(Image(Registered))
          /\ Cardinality(Image(Registered)) <= Len(synced) + Len(extras)
      BY <1>2, <1>3, CardinalityUnion
    <3>3. Cardinality(Image(Registered)) \in Nat
      BY <3>2, FS_CardinalityType
    <3>4. QED
      BY <1>3, <3>1, <3>2, <3>3, UploadAssumption
  <2>6. Promise!Extra(pending)
    <3>1. st = "acked" /\ st' = "acked"
      BY <2>1
    <3>2. reps = Image(Registered) /\ reps' = Image(Registered) \cup {pending}
      BY <2>1, <2>4
    <3>3. QED
      BY <2>2, <2>5, <3>1, <3>2 DEF Promise!Extra, Promise!Cardinality, Cardinality
  <2>7. QED
    BY <2>1, <2>6 DEF Promise!Next
<1>6. CASE CtxDone
  <2>1. caller = "collect" /\ caller' = "cancelled"
    BY <1>6 DEF CtxDone, Collecting
  <2>2. Promise!Fail
    BY <2>1 DEF Promise!Fail
  <2>3. QED
    BY <2>2 DEF Promise!Next
<1>7. CASE Start
  <2>1. caller = "start" /\ caller' \in {"failed", "collect"}
    BY <1>7 DEF Start, StartWith
  <2>2. CASE caller' = "failed"
    <3>1. Promise!Fail
      BY <2>1, <2>2 DEF Promise!Fail
    <3>2. QED
      BY <3>1 DEF Promise!Next
  <2>3. CASE caller' = "collect"
    BY <2>1, <2>3
  <2>4. QED
    BY <2>1, <2>2, <2>3
<1>8. CASE CollectOK \/ CollectFail
  <2>1. caller = "collect" /\ caller' = "collect"
    BY <1>8 DEF CollectOK, CollectFail, Collecting
  <2>2. QED
    BY <2>1
<1>9. CASE ~ (Return \/ DeliverExtra \/ CtxDone \/ Start \/ CollectOK \/ CollectFail)
  <2>1. UNCHANGED <<caller, synced, extras>>
    BY <1>9 DEF Next, CallerStep, DrainerStep, UploadStep, CloseReady, UploadOK,
       UploadFail, DrainOK, DrainFail, DrainDone, vars, callerVars, drainerVars
  <2>2. QED
    BY <1>2, <2>1
<1>10. QED
  BY <1>4, <1>5, <1>6, <1>7, <1>8, <1>9

(* uploadChunk implements what ChunkReplication promises its caller. *)
THEOREM Refinement == Spec => KeepsPromise
<1>1. Init => Promise!Init
  BY DEF Init, Promise!Init
<1> QED
  BY <1>1, PromiseStep, Invariance, PTL DEF Spec, KeepsPromise, Promise!Spec

-----------------------------------------------------------------------------
(* The durable-first order puts a healthy durable provider among the first
   uploads. *)
Tried ==
  (\E p \in Image(cands') \cap Durable : Healthy(fails, p)) => running' \cap Durable # {}

LEMMA TriedStep ==
  ASSUME IInv, [Next]_vars, caller = "start"
  PROVE  Tried
<1>1. CASE Start
  <2>0. PICK eligible \in SUBSET Providers : \E c \in CandidateOrders(eligible) : StartWith(c)
    BY <1>1 DEF Start
  <2>1. PICK c \in CandidateOrders(eligible) : StartWith(c)
    BY <2>0
  <2>2. /\ cands' = c /\ running' = {c[i] : i \in 1..InitialLaunch(c)}
        /\ c \in [1..Cardinality(eligible) -> eligible]
        /\ \A i, j \in 1..Len(c) : i < j => Tier(fails, c[i]) <= Tier(fails, c[j])
    BY <2>1 DEF StartWith, CandidateOrders, CandidateOrder
  <2>3. Cardinality(eligible) \in Nat /\ Len(c) = Cardinality(eligible)
    <3>1. Cardinality(eligible) \in Nat
      BY UploadAssumption, FS_Subset, FS_CardinalityType
    <3>2. c \in Seq(eligible)
      BY <2>2, <3>1
    <3> QED
      BY <2>2, <3>1, <3>2
  <2>4. SUFFICES ASSUME NEW p \in Image(c) \cap Durable, Healthy(fails, p)
                 PROVE  running' \cap Durable # {}
    BY <2>2 DEF Tried
  <2>5. PICK k \in 1..Len(c) : c[k] = p
    BY DEF Image
  <2>6. Tier(fails, p) = 0
    BY <2>4 DEF Tier
  <2>7. 1 \in 1..Len(c) /\ 1 \in 1..InitialLaunch(c) /\ k \in Nat /\ 1 <= k
    BY <2>3, <2>5, UploadAssumption DEF InitialLaunch
  <2>8. Tier(fails, c[1]) \in Nat /\ (c[1] \notin Durable => Tier(fails, c[1]) # 0)
    BY DEF Tier
  <2>9. Tier(fails, c[1]) = 0
    <3>1. CASE k = 1
      BY <2>5, <2>6, <3>1
    <3>2. CASE 1 < k
      <4>1. Tier(fails, c[1]) <= Tier(fails, c[k])
        BY <2>2, <2>7, <3>2
      <4> QED
        BY <2>5, <2>6, <2>8, <4>1
    <3> QED
      BY <2>7, <3>1, <3>2
  <2>10. c[1] \in running' /\ c[1] \in Durable
    BY <2>2, <2>7, <2>8, <2>9
  <2> QED
    BY <2>10
<1>2. CASE ~ Start
  <2>1. cands' = cands
    BY <1>2 DEF Next, CallerStep, DrainerStep, UploadStep, CollectOK, CollectFail,
       CtxDone, CloseReady, Return, UploadOK, UploadFail, DrainOK, DrainFail, DeliverExtra,
       DrainDone, vars
  <2>2. cands = << >>
    BY DEF IInv, ControlInv
  <2>3. Image(cands') = {}
    BY <2>1, <2>2, ImageEmpty
  <2> QED
    BY <2>3 DEF Tried
<1> QED
  BY <1>1, <1>2

(* The order that pool.candidates promises, and a loop that launches at least
   one upload, are enough for a durable copy to be attempted at once: while a
   durable provider that can hold the chunk is healthy, the first uploads of
   uploadChunk include a durable one. *)
THEOREM DurableTried == Spec => HealthyDurableIsTried
<1>1. IInv /\ [Next]_vars => [caller = "start" => Tried]_vars
  BY TriedStep
<1> QED
  BY <1>1, Invariance, PTL DEF Spec, HealthyDurableIsTried, Tried
=============================================================================
