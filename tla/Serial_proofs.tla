---------------------------- MODULE Serial_proofs ----------------------------
(***************************************************************************)
(* Proofs about ObjectStore when requests and sweeps run one at a time and *)
(* only hosts misbehave, by dropping files: nothing is left on the hosts   *)
(* that the store does not know of, and a sweep restores every chunk that  *)
(* still has a copy.  Late replicas still race with the end of their PUT.  *)
(***************************************************************************)
EXTENDS ObjectStore_proofs

Orderly == Serial /\ Faults \subseteq {"expire"}

(* One process at a time; a late replica runs on only beside its own PUT. *)
AloneInv ==
  /\ gone = {}
  /\ \A x, y \in Procs : Active(x) /\ Active(y) => x = y
  /\ \A b \in background : \A x \in Procs : Active(x) => x = b.put

(* The chunk map holds the object's chunks only. *)
MapInv ==
  /\ obj = None => \A s \in Seqs : reps[s] = {}
  /\ \A s \in Seqs : s \notin rows => reps[s] = {}
  /\ \A s \in Seqs : \A b \in reps[s] : b.seq = s
  /\ \A p \in Puts : Active(p) => bucket /\ pc[p] # "cleanup"
  /\ \A x \in BucketDels : pc[x] = "dropbucket" => obj = None
  /\ \A w \in Sweeps : Active(w) => obj # None
  /\ \A p \in Puts : \A s \in Seqs : cur[p] < s => up[p][s] = {}

(* A late replica is of a chunk its PUT has gone past, on a provider that holds
   no replica of that chunk; once the PUT has committed, the object is still
   its version, and when the PUT is done it has set persistExtras. *)
LateInv ==
  \A b \in background :
    /\ b.by = b.put /\ b.seq <= cur[b.put]
    /\ pc[b.put] \in {"upload", "rows", "reps", "commit", "reap", "done"}
    /\ \A a \in up[b.put][b.seq] : a.prov # b.prov
    /\ pc[b.put] \in {"reap", "done"} =>
         obj = b.put /\ \A r \in reps[b.seq] : r.prov # b.prov
    /\ pc[b.put] = "done" => b.put \in persist

(* What the process at work has read is what the store holds. *)
SnapInv ==
  \A q \in Procs :
    /\ pc[q] \in {"idle", "upload", "rows"} => \A s \in Seqs : seen[q].reps[s] = {}
    /\ pc[q] = "reps" => seen[q].rows = rows
    /\ pc[q] \in {"commit", "purge"} => \A s \in Seqs : seen[q].reps[s] = reps[s]
    /\ pc[q] = "drop" => hosted = {}
    /\ pc[q] \in {"repair", "writeback"} =>
         /\ seen[q].rows = rows
         /\ \A s \in Seqs : s > cur[q] => seen[q].reps[s] = reps[s]

(* A blob is on a host because the chunk map names it or the process at work
   does. *)
OwnInv ==
  \A b \in hosted :
    \/ b \in reps[b.seq]
    \/ \E p \in Puts : pc[p] \in {"upload", "rows", "reps", "commit"} /\ b \in up[p][b.seq]
    \/ \E p \in Puts : pc[p] = "reap" /\ b \in seen[p].reps[b.seq]
    \/ \E w \in Sweeps : pc[w] = "writeback" /\ b \in fix[w]

(* A set of replicas that the sweep leaves alone. *)
Enough(S) == Cardinality(S) >= R \/ {b.prov : b \in S} = Providers

Restored(m, h, s) == m[s] \cap h # {} => m[s] \subseteq h /\ Enough(m[s])

(* The chunks that a sweep has gone past are restored; what it is about to
   write back is live, enough, and all that is live of the chunk. *)
RestInv ==
  \A w \in Sweeps :
    /\ pc[w] \in {"idle", "rows", "reps"} => cur[w] = 0
    /\ pc[w] \in {"repair", "writeback"} =>
         \A s \in rows : s <= cur[w] => Restored(reps, hosted, s)
    /\ pc[w] = "writeback" =>
         /\ cur[w] + 1 \in rows
         /\ fix[w] \subseteq hosted /\ Enough(fix[w])
         /\ reps[cur[w] + 1] \cap hosted \subseteq fix[w]
         /\ \A b \in fix[w] : b.seq = cur[w] + 1

SInv == AloneInv /\ MapInv /\ LateInv /\ SnapInv /\ OwnInv /\ RestInv

-----------------------------------------------------------------------------
(* A set with one replica per provider is finite. *)
LEMMA ReplicasFinite ==
  ASSUME NEW S \in SUBSET Blobs, OnePerProvider(S)
  PROVE  IsFiniteSet(S)
<1> DEFINE f == [b \in S |-> b.prov]
<1>1. f \in Injection(S, Providers)
  BY BlobFacts DEF OnePerProvider, Injection, IsInjective
<1> QED
  BY <1>1, FS_Injection, ProviderAssumption

(* replicateExtra fills a chunk up to R replicas, or uses every provider: when
   no upload fails, the survivors and the fresh replicas are enough. *)
LEMMA RefillsEnough ==
  ASSUME "upload" \notin Faults,
         NEW w \in Sweeps, NEW k \in Seqs,
         NEW live \in SUBSET Blobs, live # {}, OnePerProvider(live),
         NEW new \in Refills(w, k, live, IF Cardinality(live) < R
                                           THEN R - Cardinality(live) ELSE 0)
  PROVE  /\ new \subseteq Blobs
         /\ \A b \in new : b.seq = k
         /\ Enough(live \cup new)
<1> DEFINE c == CHOOSE b \in live : TRUE
           unused == Providers \ {b.prov : b \in live}
           need == IF Cardinality(live) < R THEN R - Cardinality(live) ELSE 0
           blob(x) == [put |-> c.put, seq |-> k, prov |-> x, by |-> w]
<1>1. c \in live
  OBVIOUS
<1>2. PICK N \in SUBSET unused :
        /\ new = {blob(x) : x \in N}
        /\ Cardinality(N) = need \/ N = unused
  BY Zenon DEF Refills
<1> HIDE DEF c
<1>3. c.put \in Puts
  BY <1>1, BlobFacts
<1>4. new \subseteq Blobs /\ \A b \in new : b.seq = k
  BY <1>2, <1>3, BlobFacts
<1>5. ASSUME N = unused
      PROVE  Enough(live \cup new)
  <2>1. \A x \in Providers : \E b \in live \cup new : b.prov = x
    <3> SUFFICES ASSUME NEW x \in Providers, \A b \in live : b.prov # x
                 PROVE  \E b \in new : b.prov = x
      OBVIOUS
    <3>1. x \in N
      BY <1>5
    <3>2. blob(x) \in new /\ blob(x).prov = x
      BY <1>2, <3>1
    <3> QED
      BY <3>2
  <2>2. \A b \in live \cup new : b.prov \in Providers
    BY <1>4, BlobFacts
  <2> QED
    BY <2>1, <2>2 DEF Enough
<1>6. ASSUME Cardinality(N) = need
      PROVE  Enough(live \cup new)
  <2>1. IsFiniteSet(live) /\ Cardinality(live) \in Nat
    BY ReplicasFinite, FS_CardinalityType
  <2>2. IsFiniteSet(N)
    BY ProviderAssumption, FS_Subset
  <2>3. IsFiniteSet(new) /\ Cardinality(new) = Cardinality(N)
    <3> DEFINE f == [x \in N |-> blob(x)]
    <3>1. f \in Bijection(N, new)
      <4>1. f \in [N -> new]
        BY <1>2
      <4>2. \A x, y \in N : f[x] = f[y] => x = y
        <5> SUFFICES ASSUME NEW x \in N, NEW y \in N, f[x] = f[y]
                     PROVE  x = y
          OBVIOUS
        <5>1. f[x].prov = x /\ f[y].prov = y
          OBVIOUS
        <5> QED
          BY <5>1
      <4>3. \A b \in new : \E x \in N : f[x] = b
        BY <1>2
      <4> QED
        BY <4>1, <4>2, <4>3, Zenon DEF Bijection, Injection, Surjection, IsInjective
    <3> QED
      BY <3>1, <2>2, FS_Bijection DEF ExistsBijection
  <2>4. live \cap new = {}
    <3>1. \A b \in new : b.prov \in N
      BY <1>2
    <3> QED
      BY <3>1
  <2>5. Cardinality(live \cup new) = Cardinality(live) + Cardinality(new)
    <3>1. Cardinality(live \cup new)
            = Cardinality(live) + Cardinality(new) - Cardinality(live \cap new)
      BY <2>1, <2>3, FS_Union
    <3>2. Cardinality(live \cap new) = 0 /\ Cardinality(new) \in Nat
      BY <2>3, <2>4, FS_EmptySet, FS_CardinalityType
    <3> QED
      BY <2>1, <3>1, <3>2
  <2>6. Cardinality(live \cup new) >= R
    BY <1>6, <2>1, <2>3, <2>5, StoreAssumption
  <2> QED
    BY <2>6 DEF Enough
<1> QED
  BY <1>2, <1>4, <1>5, <1>6

-----------------------------------------------------------------------------
(* The process at work has the store to itself; only its own late replicas run
   beside it. *)
LEMMA Working ==
  ASSUME IInv, SInv, NEW q \in Procs, Active(q)
  PROVE  /\ \A x \in Procs \ {q} : pc[x] \in Final \cup {"idle"}
         /\ \A b \in background : b.put = q
         /\ q \notin Puts => background = {}
<1>1. \A x \in Procs \ {q} : ~ Active(x)
  BY DEF SInv, AloneInv
<1>2. \A b \in background : b.put = q
  BY DEF SInv, AloneInv
<1>3. q \notin Puts => background = {}
  BY <1>2, BlobFacts DEF IInv, TypeOK
<1> QED
  BY <1>1, <1>2, <1>3 DEF Active

(* A step of one process alone leaves it alone. *)
LEMMA AloneKept ==
  ASSUME NEW q \in Procs, gone' = {},
         \A x \in Procs \ {q} : pc'[x] \in Final \cup {"idle"},
         \A b \in background' : b.put = q
  PROVE  AloneInv'
  BY DEF AloneInv, Active

(* A step that only moves one process from one control state to the next. *)
LEMMA ControlStep ==
  ASSUME IInv, SInv, NEW q \in Procs,
         \A x \in Procs \ {q} : pc[x] \in Final \cup {"idle"} /\ pc'[x] = pc[x],
         \A b \in background : b.put = q,
         UNCHANGED <<bucket, obj, rows, reps, hosted, up, fix, background, persist, gone>>,
         \A x \in Procs : seen'[x].rows = seen[x].rows /\ seen'[x].reps = seen[x].reps,
         \A x \in Procs \ Gets : cur'[x] = cur[x],
         \/ pc[q] \in {"idle", "stream", "repair"} /\ pc'[q] \in Final
         \/ q \in Gets /\ pc[q] = "stream" /\ pc'[q] = "stream"
         \/ q \in Puts /\ pc[q] = "idle" /\ pc'[q] = "upload" /\ bucket
         \/ q \in Puts /\ pc[q] = "upload" /\ pc'[q] = "rows"
         \/ q \notin Puts /\ pc[q] = "idle" /\ pc'[q] = "rows" /\ obj # None
         \/ q \in BucketDels /\ pc[q] = "idle" /\ pc'[q] = "dropbucket" /\ obj = None
  PROVE  SInv'
<1>1. /\ \A p \in Puts : p \in Procs \ Gets
      /\ \A w \in BucketDels \cup Sweeps : w \in Procs \ Gets
      /\ Puts \cap (BucketDels \cup Sweeps) = {} /\ BucketDels \cap Sweeps = {}
  BY StoreAssumption DEF Procs, Requests
<1>2. AloneInv'
  BY AloneKept DEF SInv, AloneInv
<1>3. MapInv'
  BY <1>1 DEF SInv, MapInv, Active, Final
<1>4. LateInv'
  <2>1. \A b \in background : b.put \in Puts
    BY BlobFacts DEF IInv, TypeOK
  <2> QED
    BY <1>1, <2>1 DEF SInv, LateInv, Final
<1>5. SnapInv'
  BY <1>1 DEF SInv, SnapInv, Final, IInv, KindInv
<1>6. OwnInv'
  BY <1>1 DEF SInv, OwnInv, Final
<1>7. RestInv'
  BY <1>1 DEF SInv, RestInv, Final, Restored
<1> QED
  BY <1>2, <1>3, <1>4, <1>5, <1>6, <1>7 DEF SInv

(* SInv is an invariant when requests are serial and only hosts fail. *)
LEMMA SerialInvariance == ASSUME Orderly PROVE Spec => []SInv
<1>1. Init => SInv
  <2> SUFFICES ASSUME Init
               PROVE  SInv
    OBVIOUS
  <2>1. \A q \in Procs : pc[q] = "idle" /\ cur[q] = 0 /\ seen[q].reps = NoReps
    BY DEF Init
  <2>2. \A p \in Puts : p \in Procs /\ up[p] = NoReps
    BY DEF Init, Procs, Requests
  <2>3. \A s \in Seqs : NoReps[s] = {}
    BY DEF NoReps
  <2>4. \A w \in BucketDels \cup Sweeps : w \in Procs
    BY DEF Procs, Requests
  <2>5. AloneInv /\ MapInv /\ LateInv /\ OwnInv
    BY <2>1, <2>2, <2>3, <2>4 DEF Init, AloneInv, MapInv, LateInv, OwnInv, Active
  <2>6. SnapInv /\ RestInv
    BY <2>1, <2>3, <2>4 DEF SnapInv, RestInv
  <2> QED
    BY <2>5, <2>6 DEF SInv
<1>2. IInv /\ IInv' /\ SInv /\ [Next]_vars => SInv'
  <2> SUFFICES ASSUME IInv, IInv', SInv, [Next]_vars
               PROVE  SInv'
    OBVIOUS
  <2>a. /\ Serial /\ gone = {}
        /\ \A f \in {"upload", "body", "delete", "verify", "store", "disconnect", "crash"} :
             f \notin Faults
    BY DEF Orderly, SInv, AloneInv
  <2>b. /\ \A p \in Puts : p \in Procs /\ p \notin Dels \cup Gets \cup BucketDels \cup Sweeps
        /\ \A d \in Dels : d \in Procs /\ d \notin Puts \cup Gets \cup BucketDels \cup Sweeps
        /\ \A g \in Gets : g \in Procs /\ g \notin Puts \cup Dels \cup BucketDels \cup Sweeps
        /\ \A x \in BucketDels : x \in Procs /\ x \notin Puts \cup Dels \cup Gets \cup Sweeps
        /\ \A w \in Sweeps : w \in Procs /\ w \notin Puts \cup Dels \cup Gets \cup BucketDels
    BY StoreAssumption DEF Procs, Requests
  <2>c. /\ DOMAIN pc = Procs /\ cur \in [Procs -> Nat] /\ seen \in [Procs -> Snapshots]
    BY DEF IInv, TypeOK, Snapshots
  <2>1. ASSUME NEW p \in Puts, PutStart(p)
        PROVE  SInv'
    <3>1. /\ \A x \in Procs : pc[x] \in Final \cup {"idle"}
          /\ background = {} /\ pc[p] = "idle"
          /\ pc' = [pc EXCEPT ![p] = IF bucket THEN "upload" ELSE "notfound"]
          /\ UNCHANGED <<bucket, obj, rows, reps, hosted, cur, seen, up, fix, background,
                         persist, gone>>
      BY <2>1, <2>a DEF PutStart, Begins, Active, Goto, storeVars, procVars, envVars
    <3> QED
      BY <2>b, <2>c, <3>1, ControlStep DEF Final
  <2>2. ASSUME NEW p \in Puts, UploadChunk(p)
        PROVE  SInv'
    <3> DEFINE k == cur[p] + 1
               blob(x) == [put |-> p, seq |-> k, prov |-> x, by |-> p]
    <3>1. /\ pc[p] = "upload" /\ cur[p] < Chunks[p]
          /\ cur' = [cur EXCEPT ![p] = k]
          /\ UNCHANGED <<bucket, obj, rows, reps, pc, seen, fix, persist, gone>>
      BY <2>2 DEF UploadChunk, Uploading, storeVars
    <3>2. PICK S \in SUBSET Providers : \E E \in SUBSET Providers :
            /\ S \cap E = {}
            /\ hosted' = hosted \cup {blob(x) : x \in S}
            /\ up' = [up EXCEPT ![p] = [up[p] EXCEPT ![k] = {blob(x) : x \in S}]]
            /\ background' = background \cup {blob(x) : x \in E}
      BY <2>2 DEF UploadChunk, NextBlob
    <3>3. PICK E \in SUBSET Providers :
            /\ S \cap E = {}
            /\ hosted' = hosted \cup {blob(x) : x \in S}
            /\ up' = [up EXCEPT ![p] = [up[p] EXCEPT ![k] = {blob(x) : x \in S}]]
            /\ background' = background \cup {blob(x) : x \in E}
      BY <3>2
    <3>4. /\ \A x \in Procs \ {p} : pc[x] \in Final \cup {"idle"}
          /\ \A b \in background : b.put = p
      BY <2>b, <3>1, Working DEF Active, Final
    <3>5. cur[p] \in Nat /\ k \in Seqs /\ k > cur[p]
      BY <2>b, <2>c, <3>1, SeqFacts, StoreAssumption
    <3>6. /\ cur'[p] = k /\ \A x \in Procs \ {p} : cur'[x] = cur[x]
          /\ \A x \in Puts \ {p} : up'[x] = up[x]
          /\ up'[p][k] = {blob(x) : x \in S}
          /\ \A s \in Seqs \ {k} : up'[p][s] = up[p][s]
      BY <2>b, <2>c, <3>1, <3>3, <3>5 DEF IInv, TypeOK
    <3>7. AloneInv'
      BY <2>a, <2>b, <3>1, <3>3, <3>4, AloneKept
    <3>8. MapInv'
      <4>1. \A x \in Puts : \A s \in Seqs : cur'[x] < s => up'[x][s] = {}
        <5>1. ASSUME NEW s \in Seqs, k < s
              PROVE  up'[p][s] = {}
          BY <3>5, <3>6, <5>1, SeqFacts DEF SInv, MapInv
        <5> QED
          BY <2>b, <3>6, <5>1 DEF SInv, MapInv
      <4> QED
        BY <3>1, <4>1 DEF SInv, MapInv, Active
    <3>9. LateInv'
      <4>1. ASSUME NEW b \in background
            PROVE  /\ b.put = p /\ b.by = p /\ b.seq <= k
                   /\ \A a \in up'[p][b.seq] : a.prov # b.prov
        <5>1. b.put = p /\ b.by = p /\ b.seq \in Seqs /\ b.seq <= cur[p]
          BY <3>4, BlobFacts DEF SInv, LateInv, IInv, TypeOK
        <5>2. b.seq # k /\ b.seq <= k
          BY <3>5, <5>1, SeqFacts
        <5> QED
          BY <3>6, <5>1, <5>2 DEF SInv, LateInv
      <4>2. ASSUME NEW x \in E
            PROVE  /\ blob(x).put = p /\ blob(x).by = p /\ blob(x).seq = k
                   /\ \A a \in up'[p][k] : a.prov # blob(x).prov
        BY <3>3, <3>6
      <4>3. k <= k
        BY <3>5
      <4> QED
        BY <3>1, <3>3, <3>6, <4>1, <4>2, <4>3 DEF LateInv
    <3>10. SnapInv'
      BY <2>b, <3>1, <3>4, <3>6 DEF SInv, SnapInv, Final
    <3>11. OwnInv'
      <4>1. ASSUME NEW b \in hosted
            PROVE  b \in reps[b.seq] \/ b \in up'[p][b.seq]
        <5>1. b \in reps[b.seq] \/ b \in up[p][b.seq]
          BY <2>b, <3>1, <3>4 DEF SInv, OwnInv, Final
        <5>2. b.seq \in Seqs
          BY BlobFacts DEF IInv, TypeOK
        <5>3. up[p][k] = {}
          BY <3>5 DEF SInv, MapInv
        <5> QED
          BY <3>6, <5>1, <5>2, <5>3
      <4>2. ASSUME NEW x \in S
            PROVE  blob(x) \in up'[p][blob(x).seq]
        BY <3>6
      <4> QED
        BY <3>1, <3>3, <4>1, <4>2 DEF OwnInv
    <3>12. RestInv'
      BY <2>b, <3>1, <3>4, <3>6 DEF SInv, RestInv, Final
    <3> QED
      BY <3>7, <3>8, <3>9, <3>10, <3>11, <3>12 DEF SInv
  <2>3. ASSUME NEW p \in Puts, UploadError(p)
        PROVE  FALSE
    BY <2>3, <2>a DEF UploadError
  <2>4. ASSUME NEW p \in Puts, UploadEnd(p)
        PROVE  SInv'
    <3>1. /\ pc[p] = "upload" /\ pc' = [pc EXCEPT ![p] = "rows"]
          /\ UNCHANGED <<bucket, obj, rows, reps, hosted, cur, seen, up, fix, background,
                         persist, gone>>
      BY <2>4 DEF UploadEnd, Goto, storeVars, procVars, envVars
    <3>2. /\ \A x \in Procs \ {p} : pc[x] \in Final \cup {"idle"}
          /\ \A b \in background : b.put = p
      BY <2>b, <3>1, Working DEF Active, Final
    <3> QED
      BY <2>b, <2>c, <3>1, <3>2, ControlStep
  <2>5. ASSUME NEW p \in Puts, RejectBody(p)
        PROVE  FALSE
    BY <2>5, <2>a DEF RejectBody
  <2>6. ASSUME NEW p \in Puts, PutObject(p)
        PROVE  SInv'
    <3>1. /\ pc[p] = "commit" /\ pc' = [pc EXCEPT ![p] = "reap"]
          /\ obj' = p /\ rows' = 1..cur[p] /\ reps' = up[p]
          /\ UNCHANGED <<bucket, hosted, cur, seen, up, fix, background, persist, gone>>
      BY <2>6 DEF PutObject, ChunkRows, Goto, procVars
    <3>2. /\ \A x \in Procs \ {p} : pc[x] \in Final \cup {"idle"}
          /\ \A b \in background : b.put = p
      BY <2>b, <3>1, Working DEF Active, Final
    <3>3. pc'[p] = "reap" /\ \A x \in Procs \ {p} : pc'[x] = pc[x]
      BY <2>b, <2>c, <3>1
    <3>4. AloneInv'
      BY <2>a, <2>b, <3>1, <3>2, <3>3, AloneKept
    <3>5. MapInv'
      <4>1. \A s \in Seqs : s \notin 1..cur[p] => up[p][s] = {}
        <5>1. ASSUME NEW s \in Seqs, s \notin 1..cur[p]
              PROVE  cur[p] < s
          BY <2>b, <2>c, <5>1, SeqFacts
        <5> QED
          BY <5>1 DEF SInv, MapInv
      <4>2. p # None /\ \A s \in Seqs : \A b \in up[p][s] : b.seq = s
        BY StoreAssumption DEF IInv, PutInv
      <4> QED
        BY <2>b, <3>1, <3>2, <3>3, <4>1, <4>2 DEF SInv, MapInv, Active, Final
    <3>6. LateInv'
      BY <3>1, <3>2, <3>3 DEF SInv, LateInv
    <3>7. SnapInv'
      BY <2>b, <3>1, <3>2, <3>3 DEF SInv, SnapInv, Final
    <3>8. OwnInv'
      <4>1. ASSUME NEW b \in hosted
            PROVE  b \in up[p][b.seq] \/ b \in seen[p].reps[b.seq]
        <5>1. b \in reps[b.seq] \/ b \in up[p][b.seq]
          BY <2>b, <3>1, <3>2 DEF SInv, OwnInv, Final
        <5>2. b.seq \in Seqs
          BY BlobFacts DEF IInv, TypeOK
        <5>3. \A s \in Seqs : seen[p].reps[s] = reps[s]
          BY <2>b, <3>1 DEF SInv, SnapInv
        <5> QED
          BY <5>1, <5>2, <5>3
      <4> QED
        BY <3>1, <3>3, <4>1 DEF OwnInv
    <3>9. RestInv'
      BY <2>b, <3>1, <3>2, <3>3 DEF SInv, RestInv, Final
    <3> QED
      BY <3>4, <3>5, <3>6, <3>7, <3>8, <3>9 DEF SInv
  <2>7. ASSUME NEW p \in Puts, PutObjectFails(p)
        PROVE  FALSE
    BY <2>7, <2>a DEF PutObjectFails, StoreCallFails, SInv, MapInv, Active, Final
  <2>8. ASSUME NEW p \in Puts, Reap(p)
        PROVE  SInv'
    <3>1. /\ pc[p] = "reap" /\ pc' = [pc EXCEPT ![p] = "done"]
          /\ hosted' = hosted \ AllBlobs(seen[p].reps)
          /\ persist' = persist \cup {p}
          /\ UNCHANGED <<bucket, obj, rows, reps, cur, seen, up, fix, background, gone>>
      BY <2>8, <2>a DEF Reap, DeleteBatch, Goto, storeVars, procVars
    <3>2. /\ \A x \in Procs \ {p} : pc[x] \in Final \cup {"idle"}
          /\ \A b \in background : b.put = p
      BY <2>b, <3>1, Working DEF Active, Final
    <3>3. pc'[p] = "done" /\ \A x \in Procs \ {p} : pc'[x] = pc[x]
      BY <2>b, <2>c, <3>1
    <3>4. AloneInv'
      BY <2>a, <2>b, <3>1, <3>2, <3>3, AloneKept
    <3>5. MapInv'
      BY <2>b, <3>1, <3>2, <3>3 DEF SInv, MapInv, Active, Final
    <3>6. LateInv'
      BY <3>1, <3>2, <3>3 DEF SInv, LateInv
    <3>7. SnapInv'
      BY <2>b, <3>1, <3>2, <3>3 DEF SInv, SnapInv, Final
    <3>8. OwnInv'
      <4>1. ASSUME NEW b \in hosted, b \notin AllBlobs(seen[p].reps)
            PROVE  b \in reps[b.seq]
        <5>1. b \in reps[b.seq] \/ b \in seen[p].reps[b.seq]
          BY <2>b, <3>1, <3>2 DEF SInv, OwnInv, Final
        <5>2. b.seq \in Seqs
          BY BlobFacts DEF IInv, TypeOK
        <5> QED
          BY <4>1, <5>1, <5>2 DEF AllBlobs
      <4> QED
        BY <3>1, <4>1 DEF OwnInv
    <3>9. RestInv'
      BY <2>b, <3>1, <3>2, <3>3 DEF SInv, RestInv, Final
    <3> QED
      BY <3>4, <3>5, <3>6, <3>7, <3>8, <3>9 DEF SInv
  <2>9. ASSUME NEW p \in Puts, Cleanup(p)
        PROVE  FALSE
    BY <2>9 DEF Cleanup, SInv, MapInv, Active, Final
  <2>10. ASSUME NEW d \in Dels, DelStart(d)
        PROVE  SInv'
    <3>1. /\ \A x \in Procs : pc[x] \in Final \cup {"idle"}
          /\ background = {} /\ pc[d] = "idle"
          /\ pc' = [pc EXCEPT ![d] = IF obj = None THEN "done" ELSE "rows"]
          /\ UNCHANGED <<bucket, obj, rows, reps, hosted, cur, seen, up, fix, background,
                         persist, gone>>
      BY <2>10, <2>a DEF DelStart, Begins, Active, Goto, storeVars, procVars, envVars
    <3> QED
      BY <2>b, <2>c, <3>1, ControlStep DEF Final
  <2>11. ASSUME NEW d \in Dels, Purge(d)
        PROVE  SInv'
    <3>1. /\ pc[d] = "purge" /\ pc' = [pc EXCEPT ![d] = "drop"]
          /\ hosted' = hosted \ AllBlobs(seen[d].reps)
          /\ UNCHANGED <<bucket, obj, rows, reps, cur, seen, up, fix, background, persist, gone>>
      BY <2>11, <2>a DEF Purge, DeleteBatch, Goto, storeVars, procVars
    <3>2. /\ \A x \in Procs \ {d} : pc[x] \in Final \cup {"idle"}
          /\ background = {}
      BY <2>b, <3>1, Working DEF Active, Final
    <3>3. pc'[d] = "drop" /\ \A x \in Procs \ {d} : pc'[x] = pc[x]
      BY <2>b, <2>c, <3>1
    <3>4. hosted' = {}
      <4> SUFFICES ASSUME NEW b \in hosted
                   PROVE  b \in AllBlobs(seen[d].reps)
        BY <3>1
      <4>1. b \in reps[b.seq]
        BY <2>b, <3>1, <3>2 DEF SInv, OwnInv, Final
      <4>2. b.seq \in Seqs
        BY BlobFacts DEF IInv, TypeOK
      <4>3. \A s \in Seqs : seen[d].reps[s] = reps[s]
        BY <2>b, <3>1 DEF SInv, SnapInv
      <4> QED
        BY <4>1, <4>2, <4>3 DEF AllBlobs
    <3>5. AloneInv'
      BY <2>a, <2>b, <3>1, <3>2, <3>3, AloneKept
    <3>6. MapInv'
      BY <2>b, <3>1, <3>2, <3>3 DEF SInv, MapInv, Active, Final
    <3>7. LateInv' /\ OwnInv'
      BY <3>1, <3>2, <3>4 DEF LateInv, OwnInv
    <3>8. SnapInv'
      BY <2>b, <3>1, <3>2, <3>3, <3>4 DEF SInv, SnapInv, Final
    <3>9. RestInv'
      BY <2>b, <3>1, <3>2, <3>3 DEF SInv, RestInv, Final
    <3> QED
      BY <3>5, <3>6, <3>7, <3>8, <3>9 DEF SInv
  <2>12. ASSUME NEW d \in Dels, DeleteObject(d)
        PROVE  SInv'
    <3>1. /\ pc[d] = "drop" /\ pc' = [pc EXCEPT ![d] = "done"]
          /\ obj' = None /\ rows' = {} /\ reps' = NoReps
          /\ UNCHANGED <<bucket, hosted, cur, seen, up, fix, background, persist, gone>>
      BY <2>12 DEF DeleteObject, Goto, procVars
    <3>2. /\ \A x \in Procs \ {d} : pc[x] \in Final \cup {"idle"}
          /\ background = {}
      BY <2>b, <3>1, Working DEF Active, Final
    <3>3. pc'[d] = "done" /\ \A x \in Procs \ {d} : pc'[x] = pc[x]
      BY <2>b, <2>c, <3>1
    <3>4. hosted = {} /\ \A s \in Seqs : reps'[s] = {}
      BY <2>b, <3>1 DEF SInv, SnapInv, NoReps
    <3>5. AloneInv'
      BY <2>a, <2>b, <3>1, <3>2, <3>3, AloneKept
    <3>6. MapInv'
      BY <2>b, <3>1, <3>2, <3>3, <3>4 DEF SInv, MapInv, Active, Final
    <3>7. LateInv' /\ OwnInv'
      BY <3>1, <3>2, <3>4 DEF LateInv, OwnInv
    <3>8. SnapInv'
      BY <2>b, <3>1, <3>2, <3>3 DEF SInv, SnapInv, Final
    <3>9. RestInv'
      BY <2>b, <3>1, <3>2, <3>3 DEF SInv, RestInv, Final
    <3> QED
      BY <3>5, <3>6, <3>7, <3>8, <3>9 DEF SInv
  <2>13. ASSUME NEW d \in Dels, DeleteObjectFails(d)
        PROVE  FALSE
    BY <2>13, <2>a DEF DeleteObjectFails, StoreCallFails
  <2>14. ASSUME NEW g \in Gets, GetStart(g)
        PROVE  SInv'
    <3>1. /\ \A x \in Procs : pc[x] \in Final \cup {"idle"}
          /\ background = {} /\ pc[g] = "idle"
          /\ pc' = [pc EXCEPT ![g] = IF obj = None THEN "notfound" ELSE "rows"]
          /\ seen' = [seen EXCEPT ![g] = [seen[g] EXCEPT !.obj = obj]]
          /\ UNCHANGED <<bucket, obj, rows, reps, hosted, cur, up, fix, background,
                         persist, gone>>
      BY <2>14, <2>a DEF GetStart, Begins, Active, Goto, storeVars, envVars
    <3>2. \A x \in Procs : seen'[x].rows = seen[x].rows /\ seen'[x].reps = seen[x].reps
      <4>1. seen[g] \in Snapshots /\ obj \in Puts \cup {None}
        BY <2>b, <2>c DEF IInv, TypeOK
      <4>2. [seen[g] EXCEPT !.obj = obj].rows = seen[g].rows
            /\ [seen[g] EXCEPT !.obj = obj].reps = seen[g].reps
        BY <4>1, SnapshotFacts
      <4> QED
        BY <2>b, <2>c, <3>1, <4>2
    <3> QED
      BY <2>b, <2>c, <3>1, <3>2, ControlStep DEF Final
  <2>15. ASSUME NEW g \in Gets, StreamChunk(g)
        PROVE  SInv'
    <3>1. /\ pc[g] = "stream"
          /\ \/ pc' = pc /\ cur' = [cur EXCEPT ![g] = cur[g] + 1]
             \/ pc' = [pc EXCEPT ![g] = "failed"] /\ cur' = cur
          /\ UNCHANGED <<bucket, obj, rows, reps, hosted, seen, up, fix, background,
                         persist, gone>>
      BY <2>15 DEF StreamChunk, Goto, storeVars, envVars
    <3>2. /\ \A x \in Procs \ {g} : pc[x] \in Final \cup {"idle"}
          /\ background = {}
      BY <2>b, <3>1, Working DEF Active, Final
    <3>3. /\ \A x \in Procs \ {g} : pc'[x] = pc[x]
          /\ \A x \in Procs \ Gets : cur'[x] = cur[x]
          /\ pc'[g] \in {"stream", "failed"}
      BY <2>b, <2>c, <3>1
    <3> QED
      BY <2>b, <3>1, <3>2, <3>3, ControlStep DEF Final
  <2>16. ASSUME NEW g \in Gets, StreamEnd(g)
        PROVE  SInv'
    <3>1. /\ pc[g] = "stream"
          /\ \E l \in {"done", "failed"} : pc' = [pc EXCEPT ![g] = l]
          /\ UNCHANGED <<bucket, obj, rows, reps, hosted, cur, seen, up, fix, background,
                         persist, gone>>
      BY <2>16 DEF StreamEnd, Goto, storeVars, procVars, envVars
    <3>2. /\ \A x \in Procs \ {g} : pc[x] \in Final \cup {"idle"}
          /\ background = {}
      BY <2>b, <3>1, Working DEF Active, Final
    <3>3. pc'[g] \in Final /\ \A x \in Procs \ {g} : pc'[x] = pc[x]
      BY <2>b, <2>c, <3>1 DEF Final
    <3> QED
      BY <2>b, <3>1, <3>2, <3>3, ControlStep
  <2>17. ASSUME NEW z \in BucketDels, BucketDelStart(z)
        PROVE  SInv'
    <3>1. /\ \A x \in Procs : pc[x] \in Final \cup {"idle"}
          /\ background = {} /\ pc[z] = "idle"
          /\ pc' = [pc EXCEPT ![z] = IF obj # None THEN "failed" ELSE "dropbucket"]
          /\ UNCHANGED <<bucket, obj, rows, reps, hosted, cur, seen, up, fix, background,
                         persist, gone>>
      BY <2>17, <2>a DEF BucketDelStart, Begins, Active, Goto, storeVars, procVars, envVars
    <3> QED
      BY <2>b, <2>c, <3>1, ControlStep DEF Final
  <2>18. ASSUME NEW z \in BucketDels, DeleteBucket(z)
        PROVE  SInv'
    <3>1. /\ pc[z] = "dropbucket" /\ obj' = None
          /\ \E l \in {"done", "notfound"} : pc' = [pc EXCEPT ![z] = l]
          /\ UNCHANGED <<rows, reps, hosted, cur, seen, up, fix, background, persist, gone>>
      BY <2>18 DEF DeleteBucket, Goto, procVars
    <3>2. /\ \A x \in Procs \ {z} : pc[x] \in Final \cup {"idle"}
          /\ background = {} /\ obj = None
      BY <2>b, <3>1, Working DEF Active, Final, SInv, MapInv
    <3>3. pc'[z] \in Final /\ \A x \in Procs \ {z} : pc'[x] = pc[x]
      BY <2>b, <2>c, <3>1 DEF Final
    <3>4. AloneInv'
      BY <2>a, <2>b, <3>1, <3>2, <3>3, AloneKept
    <3>5. MapInv'
      BY <2>b, <3>1, <3>2, <3>3 DEF SInv, MapInv, Active, Final
    <3>6. LateInv'
      BY <3>1, <3>2 DEF LateInv
    <3>7. SnapInv'
      BY <2>b, <3>1, <3>2, <3>3 DEF SInv, SnapInv, Final
    <3>8. OwnInv'
      BY <2>b, <3>1, <3>2, <3>3 DEF SInv, OwnInv, Final
    <3>9. RestInv'
      BY <2>b, <3>1, <3>2, <3>3 DEF SInv, RestInv, Final
    <3> QED
      BY <3>4, <3>5, <3>6, <3>7, <3>8, <3>9 DEF SInv
  <2>19. ASSUME NEW z \in BucketDels, DeleteBucketFails(z)
        PROVE  FALSE
    BY <2>19, <2>a DEF DeleteBucketFails, StoreCallFails
  <2>20. ASSUME NEW w \in Sweeps, SweepStart(w)
        PROVE  SInv'
    <3>1. /\ \A x \in Procs : pc[x] \in Final \cup {"idle"}
          /\ background = {} /\ pc[w] = "idle"
          /\ pc' = [pc EXCEPT ![w] = IF obj = None THEN "done" ELSE "rows"]
          /\ UNCHANGED <<bucket, obj, rows, reps, hosted, cur, seen, up, fix, background,
                         persist, gone>>
      BY <2>20, <2>a DEF SweepStart, Begins, Active, Goto, storeVars, procVars, envVars
    <3> QED
      BY <2>b, <2>c, <3>1, ControlStep DEF Final
  <2>21. ASSUME NEW w \in Sweeps, RepairChunk(w)
        PROVE  SInv'
    <3> DEFINE k == cur[w] + 1
               live == reps[k] \cap hosted
               need == IF Cardinality(live) < R THEN R - Cardinality(live) ELSE 0
    <3>1. /\ pc[w] = "repair" /\ cur[w] < Cardinality(seen[w].rows)
          /\ UNCHANGED <<bucket, obj, rows, reps, seen, up, background, persist, gone>>
      BY <2>21 DEF RepairChunk, Checking, storeVars, envVars
    <3>2. /\ \A x \in Procs \ {w} : pc[x] \in Final \cup {"idle"}
          /\ background = {} /\ obj # None
      BY <2>b, <3>1, Working DEF Active, Final, SInv, MapInv
    <3>3. cur[w] \in Nat /\ k > cur[w] /\ k \in Seqs /\ k \in rows
      <4>1. obj \in Puts /\ Chunks[obj] \in Nat /\ rows = 1..Chunks[obj]
        BY <3>2, StoreAssumption DEF IInv, TypeOK, ChunkMapComplete
      <4>2. Cardinality(rows) = Chunks[obj]
        BY <4>1, FS_Interval
      <4>3. seen[w].rows = rows /\ cur[w] \in Nat
        BY <2>b, <2>c, <3>1 DEF SInv, SnapInv
      <4>4. k \in rows
        BY <3>1, <4>1, <4>2, <4>3
      <4> QED
        BY <4>3, <4>4 DEF IInv, TypeOK
    <3>4. seen[w].reps[k] = reps[k]
      BY <2>b, <3>1, <3>3 DEF SInv, SnapInv
    <3>5. \/ /\ live = {} \/ (live = reps[k] /\ Cardinality(live) >= R)
             /\ cur' = [cur EXCEPT ![w] = k] /\ UNCHANGED <<pc, fix, hosted>>
          \/ /\ live # {}
             /\ \E new \in Refills(w, k, live, need) :
                  /\ hosted' = hosted \cup new
                  /\ fix' = [fix EXCEPT ![w] = live \cup new]
                  /\ \/ pc' = [pc EXCEPT ![w] = "writeback"] /\ cur' = cur
                     \/ /\ live \cup new = reps[k]
                        /\ cur' = [cur EXCEPT ![w] = k] /\ pc' = pc
      <4>1. VerifiedSets(reps[k]) = {live}
        BY <2>a DEF VerifiedSets
      <4> QED
        BY <2>21, <3>4, <4>1 DEF RepairChunk, Goto
    <3>6. /\ live \in SUBSET Blobs /\ OnePerProvider(live)
          /\ \A s \in Seqs : \A b \in reps[s] : b.seq = s
      BY <3>3 DEF IInv, TypeOK, DistinctProviders, OnePerProvider, SInv, MapInv
    <3> HIDE DEF live
    <3>7. PICK new \in SUBSET Blobs :
            /\ hosted' = hosted \cup new /\ \A b \in new : b.seq = k
            /\ \/ /\ cur'[w] = k /\ pc'[w] = "repair" /\ new \subseteq reps[k]
                  /\ Restored(reps, hosted', k)
               \/ /\ cur'[w] = cur[w] /\ pc'[w] = "writeback"
                  /\ fix'[w] = live \cup new /\ Enough(fix'[w])
      <4>1. CASE /\ live = {} \/ (live = reps[k] /\ Cardinality(live) >= R)
                 /\ cur' = [cur EXCEPT ![w] = k] /\ UNCHANGED <<pc, fix, hosted>>
        <5>1. cur'[w] = k /\ pc'[w] = "repair" /\ hosted' = hosted \cup {}
          BY <2>b, <2>c, <3>1, <4>1
        <5>2. Restored(reps, hosted', k)
          BY <4>1 DEF Restored, Enough, live
        <5> WITNESS {} \in SUBSET Blobs
        <5> QED
          BY <5>1, <5>2
      <4>2. ASSUME live # {}, NEW new \in Refills(w, k, live, need),
                   hosted' = hosted \cup new, fix' = [fix EXCEPT ![w] = live \cup new],
                   \/ pc' = [pc EXCEPT ![w] = "writeback"] /\ cur' = cur
                   \/ /\ live \cup new = reps[k]
                      /\ cur' = [cur EXCEPT ![w] = k] /\ pc' = pc
            PROVE  /\ new \subseteq Blobs /\ \A b \in new : b.seq = k
                   /\ \/ /\ cur'[w] = k /\ pc'[w] = "repair" /\ new \subseteq reps[k]
                         /\ Restored(reps, hosted', k)
                      \/ /\ cur'[w] = cur[w] /\ pc'[w] = "writeback"
                         /\ fix'[w] = live \cup new /\ Enough(fix'[w])
        <5>1. new \subseteq Blobs /\ (\A b \in new : b.seq = k) /\ Enough(live \cup new)
          <6>1. "upload" \notin Faults /\ k \in Seqs
            BY <2>a, <3>3
          <6> HIDE DEF k
          <6> QED
            BY <3>6, <4>2, <6>1, RefillsEnough, Zenon
        <5>2. fix'[w] = live \cup new
          BY <4>2 DEF IInv, TypeOK
        <5>3. live \cup new \subseteq hosted'
          BY <4>2 DEF live
        <5>4. CASE pc' = [pc EXCEPT ![w] = "writeback"] /\ cur' = cur
          BY <2>b, <2>c, <5>1, <5>2, <5>4
        <5>5. CASE live \cup new = reps[k] /\ cur' = [cur EXCEPT ![w] = k] /\ pc' = pc
          <6>1. Restored(reps, hosted', k)
            BY <5>1, <5>3, <5>5 DEF Restored
          <6>2. cur'[w] = k /\ pc'[w] = "repair" /\ new \subseteq reps[k]
            BY <2>b, <2>c, <3>1, <5>5
          <6> QED
            BY <5>1, <6>1, <6>2
        <5> QED
          BY <4>2, <5>4, <5>5
      <4>3. CASE live # {} /\ \E new \in Refills(w, k, live, need) :
                  /\ hosted' = hosted \cup new
                  /\ fix' = [fix EXCEPT ![w] = live \cup new]
                  /\ \/ pc' = [pc EXCEPT ![w] = "writeback"] /\ cur' = cur
                     \/ /\ live \cup new = reps[k]
                        /\ cur' = [cur EXCEPT ![w] = k] /\ pc' = pc
        <5>1. PICK new \in Refills(w, k, live, need) :
                  /\ hosted' = hosted \cup new
                  /\ fix' = [fix EXCEPT ![w] = live \cup new]
                  /\ \/ pc' = [pc EXCEPT ![w] = "writeback"] /\ cur' = cur
                     \/ /\ live \cup new = reps[k]
                        /\ cur' = [cur EXCEPT ![w] = k] /\ pc' = pc
          BY <4>3
        <5> QED
          BY <4>2, <4>3, <5>1
      <4> QED
        BY <3>5, <4>1, <4>3
    <3>8. \A x \in Procs \ {w} : pc'[x] = pc[x] /\ cur'[x] = cur[x]
      BY <2>c, <3>5
    <3>9. AloneInv'
      BY <2>a, <2>b, <3>1, <3>2, <3>8, AloneKept
    <3>10. MapInv'
      BY <2>b, <3>1, <3>2, <3>8 DEF SInv, MapInv, Active, Final
    <3>11. LateInv'
      BY <3>1, <3>2 DEF LateInv
    <3>12. SnapInv'
      <4>1. \A s \in Seqs : s > cur'[w] => s > cur[w]
        BY <3>3, <3>7, SeqFacts
      <4>2. /\ pc'[w] \in {"repair", "writeback"} /\ seen'[w].rows = rows'
            /\ \A s \in Seqs : s > cur'[w] => seen'[w].reps[s] = reps'[s]
        BY <2>b, <3>1, <3>7, <4>1 DEF SInv, SnapInv
      <4> QED
        BY <2>b, <3>1, <3>2, <3>8, <4>2 DEF SInv, SnapInv, Final
    <3>13. OwnInv'
      <4>1. ASSUME NEW b \in hosted
            PROVE  b \in reps[b.seq]
        BY <2>b, <3>1, <3>2 DEF SInv, OwnInv, Final
      <4>2. ASSUME NEW b \in new
            PROVE  b \in reps[b.seq] \/ (pc'[w] = "writeback" /\ b \in fix'[w])
        BY <3>7
      <4> QED
        BY <3>1, <3>7, <4>1, <4>2 DEF OwnInv
    <3>14. RestInv'
      <4>1. ASSUME NEW s \in rows, s <= cur[w]
            PROVE  Restored(reps, hosted', s)
        <5>1. s \in Seqs /\ s # k
          BY <3>3, <4>1, SeqFacts DEF IInv, TypeOK
        <5>2. Restored(reps, hosted, s)
          BY <3>1, <4>1 DEF SInv, RestInv
        <5>3. reps[s] \cap hosted' = reps[s] \cap hosted
          BY <3>6, <3>7, <5>1
        <5>4. reps[s] \cap hosted # {} => reps[s] \subseteq hosted'
          BY <3>7, <5>2 DEF Restored
        <5> QED
          BY <5>2, <5>3, <5>4 DEF Restored
      <4>2. \A s \in rows : s <= cur'[w] => Restored(reps, hosted', s)
        <5>1. ASSUME NEW s \in rows, s <= k, s # k
              PROVE  s <= cur[w]
          BY <3>3, <5>1, SeqFacts DEF IInv, TypeOK
        <5> QED
          BY <3>7, <4>1, <5>1
      <4>3. ASSUME pc'[w] = "writeback"
            PROVE  /\ cur'[w] + 1 = k
                   /\ fix'[w] \subseteq hosted' /\ Enough(fix'[w])
                   /\ reps[k] \cap hosted' \subseteq fix'[w]
                   /\ \A b \in fix'[w] : b.seq = k
        <5>1. cur'[w] = cur[w] /\ fix'[w] = live \cup new /\ Enough(fix'[w])
          BY <3>7, <4>3
        <5> QED
          BY <3>3, <3>6, <3>7, <5>1 DEF live
      <4>4. pc'[w] \in {"repair", "writeback"}
        BY <3>7
      <4> QED
        BY <2>b, <3>1, <3>2, <3>3, <3>8, <4>2, <4>3, <4>4 DEF SInv, RestInv, Final
    <3> QED
      BY <3>9, <3>10, <3>11, <3>12, <3>13, <3>14 DEF SInv
  <2>22. ASSUME NEW w \in Sweeps, RepairFails(w)
        PROVE  FALSE
    BY <2>22, <2>a DEF RepairFails
  <2>23. ASSUME NEW w \in Sweeps, UpdateChunkReplicas(w)
        PROVE  SInv'
    <3> DEFINE k == cur[w] + 1
    <3>1. /\ pc[w] = "writeback" /\ pc' = [pc EXCEPT ![w] = "repair"]
          /\ reps' = [reps EXCEPT ![k] = fix[w]] /\ cur' = [cur EXCEPT ![w] = k]
          /\ UNCHANGED <<bucket, obj, rows, hosted, seen, up, fix, background, persist, gone>>
      BY <2>23 DEF UpdateChunkReplicas, Goto
    <3>2. /\ \A x \in Procs \ {w} : pc[x] \in Final \cup {"idle"}
          /\ background = {} /\ obj # None
      BY <2>b, <3>1, Working DEF Active, Final, SInv, MapInv
    <3>3. /\ cur[w] \in Nat /\ k > cur[w] /\ k \in rows /\ k \in Seqs
          /\ fix[w] \subseteq hosted /\ Enough(fix[w])
          /\ reps[k] \cap hosted \subseteq fix[w]
          /\ \A b \in fix[w] : b.seq = k
      <4>1. cur[w] \in Nat
        BY <2>b, <2>c
      <4> QED
        BY <3>1, <4>1 DEF SInv, RestInv, IInv, TypeOK
    <3>4. /\ pc'[w] = "repair" /\ cur'[w] = k /\ reps'[k] = fix[w]
          /\ \A x \in Procs \ {w} : pc'[x] = pc[x] /\ cur'[x] = cur[x]
          /\ \A s \in Seqs \ {k} : reps'[s] = reps[s]
      BY <2>b, <2>c, <3>1, <3>3 DEF IInv, TypeOK
    <3>5. AloneInv'
      BY <2>a, <2>b, <3>1, <3>2, <3>4, AloneKept
    <3>6. MapInv'
      BY <2>b, <3>1, <3>2, <3>3, <3>4 DEF SInv, MapInv, Active, Final
    <3>7. LateInv'
      BY <3>1, <3>2 DEF LateInv
    <3>8. SnapInv'
      <4>1. \A s \in Seqs : s > k => s > cur[w] /\ s # k
        BY <3>3, SeqFacts
      <4>2. /\ seen'[w].rows = rows'
            /\ \A s \in Seqs : s > cur'[w] => seen'[w].reps[s] = reps'[s]
        BY <2>b, <3>1, <3>4, <4>1 DEF SInv, SnapInv
      <4> QED
        BY <2>b, <3>1, <3>2, <3>4, <4>2 DEF SInv, SnapInv, Final
    <3>9. OwnInv'
      <4> SUFFICES ASSUME NEW b \in hosted
                   PROVE  b \in reps'[b.seq]
        BY <3>1 DEF OwnInv
      <4>1. b \in reps[b.seq] \/ b \in fix[w]
        BY <2>b, <3>1, <3>2 DEF SInv, OwnInv, Final
      <4>2. b.seq \in Seqs
        BY BlobFacts DEF IInv, TypeOK
      <4> QED
        BY <3>3, <3>4, <4>1, <4>2
    <3>10. RestInv'
      <4>1. ASSUME NEW s \in rows, s <= k
            PROVE  Restored(reps', hosted', s)
        <5>0. s \in Seqs
          BY DEF IInv, TypeOK
        <5>1. s # k => s <= cur[w]
          BY <3>3, <4>1, <5>0, SeqFacts
        <5>2. CASE s = k
          BY <3>1, <3>3, <3>4, <5>2 DEF Restored
        <5>3. CASE s # k
          <6>1. Restored(reps, hosted, s)
            BY <3>1, <5>1, <5>3 DEF SInv, RestInv
          <6> QED
            BY <3>1, <3>4, <5>0, <5>3, <6>1 DEF Restored
        <5> QED
          BY <5>2, <5>3
      <4>2. \A s \in rows' : s <= cur'[w] => Restored(reps, hosted, s)'
        BY <3>1, <3>4, <4>1
      <4> QED
        BY <2>b, <3>1, <3>2, <3>4, <4>2 DEF SInv, RestInv, Final
    <3> QED
      BY <3>5, <3>6, <3>7, <3>8, <3>9, <3>10 DEF SInv
  <2>24. ASSUME NEW w \in Sweeps, SweepEnd(w)
        PROVE  SInv'
    <3>1. /\ pc[w] = "repair" /\ pc' = [pc EXCEPT ![w] = "done"]
          /\ UNCHANGED <<bucket, obj, rows, reps, hosted, cur, seen, up, fix, background,
                         persist, gone>>
      BY <2>24 DEF SweepEnd, Goto, storeVars, procVars, envVars
    <3>2. /\ \A x \in Procs \ {w} : pc[x] \in Final \cup {"idle"}
          /\ background = {}
      BY <2>b, <3>1, Working DEF Active, Final
    <3> QED
      BY <2>b, <2>c, <3>1, <3>2, ControlStep DEF Final
  <2>25. ASSUME NEW q \in Procs, ReadRows(q)
        PROVE  SInv'
    <3>1. /\ pc[q] = "rows"
          /\ pc' = [pc EXCEPT ![q] = IF rows = {} THEN After(q) ELSE "reps"]
          /\ seen' = [seen EXCEPT ![q] = [seen[q] EXCEPT !.rows = rows]]
          /\ UNCHANGED <<bucket, obj, rows, reps, hosted, cur, up, fix, background, persist,
                         gone>>
      BY <2>25 DEF ReadRows, Goto, storeVars, envVars
    <3>2. /\ \A x \in Procs \ {q} : pc[x] \in Final \cup {"idle"}
          /\ \A b \in background : b.put = q
      BY <3>1, Working DEF Active, Final
    <3>3. /\ \A x \in Procs \ {q} : pc'[x] = pc[x] /\ seen'[x] = seen[x]
          /\ pc'[q] = "reps" \/ (rows = {} /\ pc'[q] = After(q))
      BY <2>c, <3>1
    <3>4. seen'[q].rows = rows /\ seen'[q].reps = seen[q].reps
      <4>1. seen[q] \in Snapshots /\ rows \in SUBSET Seqs
        BY <2>c DEF IInv, TypeOK
      <4>2. /\ [seen[q] EXCEPT !.rows = rows].rows = rows
            /\ [seen[q] EXCEPT !.rows = rows].reps = seen[q].reps
        BY <4>1, SnapshotFacts
      <4> QED
        BY <2>c, <3>1, <4>2
    <3>5. /\ q \in Puts => After(q) = "commit"
          /\ q \in Dels => After(q) = "purge"
          /\ q \in Gets => After(q) = "stream"
          /\ q \in Sweeps => After(q) = "repair"
          /\ q \in Puts \cup Dels \cup Gets \cup Sweeps
      <4>1. q \notin BucketDels
        BY <3>1 DEF IInv, KindInv, Final
      <4> QED
        BY <2>b, <4>1 DEF After, Procs, Requests
    <3>6. \A s \in Seqs : seen'[q].reps[s] = {} /\ (rows = {} => reps[s] = {})
      BY <3>1, <3>4 DEF SInv, SnapInv, MapInv
    <3>7. AloneInv'
      BY <2>a, <3>1, <3>2, <3>3, AloneKept
    <3>8. MapInv'
      BY <2>b, <3>1, <3>2, <3>3, <3>5 DEF SInv, MapInv, Active, Final
    <3>9. LateInv'
      <4>1. \A b \in background : b.put \in Puts
        BY BlobFacts DEF IInv, TypeOK
      <4> QED
        BY <2>b, <3>1, <3>2, <3>3, <3>5, <4>1 DEF SInv, LateInv
    <3>10. SnapInv'
      <4>1. /\ pc'[q] \in {"reps", "commit", "purge", "stream", "repair"}
            /\ pc'[q] # "reps" => \A s \in Seqs : seen'[q].reps[s] = reps[s]
        BY <3>3, <3>5, <3>6
      <4> QED
        BY <3>1, <3>2, <3>3, <3>4, <4>1 DEF SInv, SnapInv, Final
    <3>11. OwnInv'
      BY <2>b, <3>1, <3>2, <3>3, <3>5 DEF SInv, OwnInv, Final
    <3>12. RestInv'
      <4>1. \A s \in rows : ~ (s <= 0)
        BY SeqFacts DEF IInv, TypeOK
      <4>2. q \in Sweeps => cur[q] = 0 /\ pc'[q] \in {"reps", "repair"}
        BY <3>1, <3>3, <3>5 DEF SInv, RestInv
      <4> QED
        BY <2>b, <3>1, <3>2, <3>3, <4>1, <4>2 DEF SInv, RestInv, Final
    <3> QED
      BY <3>7, <3>8, <3>9, <3>10, <3>11, <3>12 DEF SInv
  <2>26. ASSUME NEW q \in Procs, ReadReps(q)
        PROVE  SInv'
    <3> DEFINE m == [s \in Seqs |-> IF s \in seen[q].rows THEN reps[s] ELSE {}]
    <3>1. /\ pc[q] = "reps" /\ pc' = [pc EXCEPT ![q] = After(q)]
          /\ seen' = [seen EXCEPT ![q] = [seen[q] EXCEPT !.reps = m]]
          /\ UNCHANGED <<bucket, obj, rows, reps, hosted, cur, up, fix, background, persist,
                         gone>>
      BY <2>26 DEF ReadReps, Goto, storeVars, envVars
    <3>2. /\ \A x \in Procs \ {q} : pc[x] \in Final \cup {"idle"}
          /\ \A b \in background : b.put = q
      BY <3>1, Working DEF Active, Final
    <3>3. /\ \A x \in Procs \ {q} : pc'[x] = pc[x] /\ seen'[x] = seen[x]
          /\ pc'[q] = After(q)
      BY <2>c, <3>1
    <3>4. seen'[q].rows = rows /\ \A s \in Seqs : seen'[q].reps[s] = reps[s]
      <4>1. seen[q] \in Snapshots /\ m \in [Seqs -> SUBSET Blobs]
        BY <2>c DEF IInv, TypeOK
      <4>2. /\ [seen[q] EXCEPT !.reps = m].rows = seen[q].rows
            /\ [seen[q] EXCEPT !.reps = m].reps = m
        BY <4>1, SnapshotFacts
      <4>3. seen'[q].rows = seen[q].rows /\ seen'[q].reps = m
        BY <2>c, <3>1, <4>2
      <4>4. seen[q].rows = rows /\ \A s \in Seqs : s \notin rows => reps[s] = {}
        BY <3>1 DEF SInv, SnapInv, MapInv
      <4> QED
        BY <4>3, <4>4
    <3>5. /\ q \in Puts => After(q) = "commit"
          /\ q \in Dels => After(q) = "purge"
          /\ q \in Gets => After(q) = "stream"
          /\ q \in Sweeps => After(q) = "repair"
          /\ q \in Puts \cup Dels \cup Gets \cup Sweeps
      <4>1. q \notin BucketDels
        BY <3>1 DEF IInv, KindInv, Final
      <4> QED
        BY <2>b, <4>1 DEF After, Procs, Requests
    <3>6. AloneInv'
      BY <2>a, <3>1, <3>2, <3>3, AloneKept
    <3>7. MapInv'
      BY <2>b, <3>1, <3>2, <3>3, <3>5 DEF SInv, MapInv, Active, Final
    <3>8. LateInv'
      <4>1. \A b \in background : b.put \in Puts
        BY BlobFacts DEF IInv, TypeOK
      <4> QED
        BY <2>b, <3>1, <3>2, <3>3, <3>5, <4>1 DEF SInv, LateInv
    <3>9. SnapInv'
      <4>1. pc'[q] \in {"commit", "purge", "stream", "repair"}
        BY <3>3, <3>5
      <4> QED
        BY <3>1, <3>2, <3>3, <3>4, <4>1 DEF SInv, SnapInv, Final
    <3>10. OwnInv'
      <4>1. ASSUME NEW b \in hosted
            PROVE  b \in reps[b.seq] \/ (q \in Puts /\ b \in up[q][b.seq])
        BY <2>b, <3>1, <3>2 DEF SInv, OwnInv, Final
      <4>2. q \in Puts => pc'[q] = "commit"
        BY <3>3, <3>5
      <4> QED
        BY <3>1, <4>1, <4>2 DEF OwnInv
    <3>11. RestInv'
      <4>1. \A s \in rows : ~ (s <= 0)
        BY SeqFacts DEF IInv, TypeOK
      <4>2. q \in Sweeps => cur[q] = 0 /\ pc'[q] = "repair"
        BY <3>1, <3>3, <3>5 DEF SInv, RestInv
      <4> QED
        BY <2>b, <3>1, <3>2, <3>3, <4>1, <4>2 DEF SInv, RestInv, Final
    <3> QED
      BY <3>6, <3>7, <3>8, <3>9, <3>10, <3>11 DEF SInv
  <2>27. ASSUME NEW q \in Procs, ReadFails(q) \/ StartFails(q)
        PROVE  FALSE
    BY <2>27, <2>a DEF ReadFails, StartFails, StoreCallFails
  <2>28. ASSUME NEW q \in Requests, Disconnect(q)
        PROVE  FALSE
    BY <2>28, <2>a DEF Disconnect
  <2>29. ASSUME NEW b \in background, PersistExtra(b)
        PROVE  SInv'
    <3>1. /\ background' = background \ {b} /\ hosted' = hosted \cup {b}
          /\ UNCHANGED <<bucket, obj, rows, pc, cur, seen, up, fix, persist, gone>>
      BY <2>29 DEF PersistExtra, procVars
    <3>2. /\ b \in Blobs /\ b.put \in Puts /\ b.seq \in Seqs
          /\ b.put \in Procs
      BY <2>b, BlobFacts DEF IInv, TypeOK
    <3>3. /\ pc[b.put] = "done" /\ b.put \in persist /\ obj = b.put
          /\ b.by = b.put /\ b.seq <= cur[b.put]
          /\ \A r \in reps[b.seq] : r.prov # b.prov
      BY <2>29 DEF PersistExtra, SInv, LateInv, Final
    <3>4. \A x \in Procs : pc[x] \in Final \cup {"idle"}
      BY <3>3 DEF SInv, AloneInv, Active, Final
    <3>5. reps' = [reps EXCEPT ![b.seq] = reps[b.seq] \cup {b}] /\ obj # None
      BY <2>29, <3>2, <3>3, StoreAssumption DEF PersistExtra, AppendChunkReplica
    <3>6. /\ reps'[b.seq] = reps[b.seq] \cup {b}
          /\ \A s \in Seqs \ {b.seq} : reps'[s] = reps[s]
      BY <3>2, <3>5 DEF IInv, TypeOK
    <3>7. b.seq \in rows
      <4>1. rows = 1..Chunks[b.put] /\ cur[b.put] <= Chunks[b.put]
        BY <3>2, <3>3, <3>5 DEF IInv, ChunkMapComplete, PutInv
      <4>2. cur[b.put] \in Nat /\ Chunks[b.put] \in Nat
        BY <2>c, <3>2, StoreAssumption
      <4>3. b.seq \in Nat /\ b.seq >= 1
        BY <3>2, SeqFacts
      <4> QED
        BY <3>3, <4>1, <4>2, <4>3
    <3>8. AloneInv'
      BY <3>1 DEF SInv, AloneInv, Active
    <3>9. MapInv'
      BY <2>b, <3>1, <3>4, <3>5, <3>6, <3>7 DEF SInv, MapInv, Active
    <3>10. LateInv'
      <4> SUFFICES ASSUME NEW c \in background, c # b
                   PROVE  \A r \in reps'[c.seq] : r.prov # c.prov
        BY <3>1 DEF SInv, LateInv
      <4>1. /\ c \in Blobs /\ c.put \in Procs /\ c.seq \in Seqs /\ c.by = c.put
            /\ pc[c.put] \in {"upload", "rows", "reps", "commit", "reap", "done"}
        BY <2>b, BlobFacts DEF SInv, LateInv, IInv, TypeOK
      <4>2. pc[c.put] = "done"
        BY <3>4, <4>1 DEF Final
      <4>3. c.put = b.put /\ \A r \in reps[c.seq] : r.prov # c.prov
        BY <3>3, <4>2 DEF SInv, LateInv
      <4>4. c.seq = b.seq => c.prov # b.prov
        BY <3>2, <3>3, <4>1, <4>3, BlobFacts
      <4> QED
        BY <3>6, <4>1, <4>3, <4>4
    <3>11. SnapInv'
      BY <3>1, <3>4 DEF SInv, SnapInv, Final
    <3>12. OwnInv'
      <4> SUFFICES ASSUME NEW c \in hosted
                   PROVE  c \in reps'[c.seq]
        BY <3>1, <3>6 DEF OwnInv
      <4>1. c \in reps[c.seq]
        BY <2>b, <3>4 DEF SInv, OwnInv, Final
      <4>2. c.seq \in Seqs
        BY BlobFacts DEF IInv, TypeOK
      <4> QED
        BY <3>6, <4>1, <4>2
    <3>13. RestInv'
      BY <2>b, <3>1, <3>4 DEF SInv, RestInv, Final
    <3> QED
      BY <3>8, <3>9, <3>10, <3>11, <3>12, <3>13 DEF SInv
  <2>30. ASSUME NEW b \in hosted, Expire(b)
        PROVE  SInv'
    <3>1. /\ hosted' \subseteq hosted
          /\ UNCHANGED <<bucket, obj, rows, reps, pc, cur, seen, up, fix, background, persist,
                         gone>>
          /\ \A x \in Procs : pc[x] \in Final \cup {"idle"}
      BY <2>30, <2>a DEF Expire, Active, storeVars, procVars
    <3>2. AloneInv' /\ MapInv' /\ LateInv'
      BY <3>1 DEF SInv, AloneInv, MapInv, LateInv, Active
    <3>3. SnapInv'
      BY <3>1 DEF SInv, SnapInv, Final
    <3>4. OwnInv'
      BY <3>1 DEF SInv, OwnInv
    <3>5. RestInv'
      BY <2>b, <3>1 DEF SInv, RestInv, Final
    <3> QED
      BY <3>2, <3>3, <3>4, <3>5 DEF SInv
  <2>31. ASSUME CreateBucket
        PROVE  SInv'
    <3>1. /\ bucket' = TRUE
          /\ UNCHANGED <<obj, rows, reps, hosted, pc, cur, seen, up, fix, background, persist,
                         gone>>
      BY <2>31 DEF CreateBucket, procVars, envVars
    <3>2. AloneInv' /\ MapInv' /\ LateInv'
      BY <3>1 DEF SInv, AloneInv, MapInv, LateInv, Active
    <3>3. SnapInv' /\ OwnInv'
      BY <3>1 DEF SInv, SnapInv, OwnInv
    <3>4. RestInv'
      BY <3>1 DEF SInv, RestInv, Restored
    <3> QED
      BY <3>2, <3>3, <3>4 DEF SInv
  <2>32. ASSUME Crash
        PROVE  FALSE
    BY <2>32, <2>a DEF Crash
  <2>33. ASSUME UNCHANGED vars
        PROVE  SInv'
    <3>1. UNCHANGED <<bucket, obj, rows, reps, hosted, pc, cur, seen, up, fix, background,
                      persist, gone>>
      BY <2>33 DEF vars, storeVars, procVars, envVars
    <3>2. AloneInv' /\ MapInv' /\ LateInv'
      BY <3>1 DEF SInv, AloneInv, MapInv, LateInv, Active
    <3>3. SnapInv' /\ OwnInv'
      BY <3>1 DEF SInv, SnapInv, OwnInv
    <3>4. RestInv'
      BY <3>1 DEF SInv, RestInv, Restored
    <3> QED
      BY <3>2, <3>3, <3>4 DEF SInv
  <2>34. QED
    BY <2>1, <2>2, <2>3, <2>4, <2>5, <2>6, <2>7, <2>8, <2>9, <2>10, <2>11, <2>12, <2>13,
       <2>14, <2>15, <2>16, <2>17, <2>18, <2>19, <2>20, <2>21, <2>22, <2>23, <2>24, <2>25,
       <2>26, <2>27, <2>28, <2>29, <2>30, <2>31, <2>32, <2>33
    DEF Next, PutStep, DelStep, GetStep, BucketDelStep, SweepStep, ReadStep
<1> QED
  BY <1>1, <1>2, Invariance, PTL DEF Spec

-----------------------------------------------------------------------------
(* Requests that run one after the other, late replicas included, leave no
   blob on a host that the chunk map does not name. *)
THEOREM NoneOrphaned ==
  ASSUME Serial, Faults \subseteq {"expire"}
  PROVE  Spec => []NoOrphans
<1>1. IInv /\ SInv => NoOrphans
  <2> SUFFICES ASSUME IInv, SInv, \A q \in Procs : ~ Active(q), NEW b \in hosted
               PROVE  b \in AllBlobs(reps)
    BY DEF NoOrphans
  <2>1. \A q \in Puts \cup Sweeps : pc[q] \in Final \cup {"idle"}
    BY DEF Active, Procs, Requests
  <2>2. b \in reps[b.seq]
    BY <2>1 DEF SInv, OwnInv, Final
  <2>3. b.seq \in Seqs
    BY BlobFacts DEF IInv, TypeOK
  <2> QED
    BY <2>2, <2>3 DEF AllBlobs
<1> QED
  BY <1>1, Invariance, SerialInvariance, PTL DEF Orderly

(* A sweep that ends has restored every chunk that still had a live copy: R
   live replicas, or one on every provider, and no dead ones. *)
THEOREM SweepsRestore ==
  ASSUME Serial, Faults \subseteq {"expire"}
  PROVE  Spec => SweepRestores
<1> DEFINE Step == \A w \in Sweeps :
       pc[w] = "repair" /\ pc'[w] = "done" =>
         \A s \in rows : reps[s] \cap hosted # {} =>
           /\ reps[s] \subseteq hosted
           /\ \/ Cardinality(reps[s]) >= R
              \/ {b.prov : b \in reps[s]} = Providers
<1>1. IInv /\ SInv /\ [Next]_vars => [Step]_vars
  <2> SUFFICES ASSUME IInv, SInv, [Next]_vars, NEW w \in Sweeps,
                      pc[w] = "repair", pc'[w] = "done", NEW s \in rows
               PROVE  Restored(reps, hosted, s)
    BY DEF Restored, Enough
  <2>1. w \in Procs /\ w \notin Puts \cup Dels \cup Gets \cup BucketDels \cup Requests
        /\ DOMAIN pc = Procs
    BY StoreAssumption DEF IInv, TypeOK, Procs, Requests
  <2>2. SweepEnd(w)
    <3>1. ASSUME NEW p \in Puts, PutStep(p)
          PROVE  FALSE
      BY <2>1, <3>1 DEF PutStep, PutStart, UploadChunk, UploadError, UploadEnd, RejectBody,
         PutObject, PutObjectFails, Reap, Cleanup, Goto
    <3>2. ASSUME NEW d \in Dels, DelStep(d)
          PROVE  FALSE
      BY <2>1, <3>2 DEF DelStep, DelStart, Purge, DeleteObject, DeleteObjectFails, Goto
    <3>3. ASSUME NEW g \in Gets, GetStep(g)
          PROVE  FALSE
      BY <2>1, <3>3 DEF GetStep, GetStart, StreamChunk, StreamEnd, Goto
    <3>4. ASSUME NEW x \in BucketDels, BucketDelStep(x)
          PROVE  FALSE
      BY <2>1, <3>4 DEF BucketDelStep, BucketDelStart, DeleteBucket, DeleteBucketFails, Goto
    <3>5. ASSUME NEW v \in Sweeps, SweepStep(v)
          PROVE  v = w /\ SweepEnd(w)
      <4>1. ASSUME RepairChunk(v)
            PROVE  pc' = pc \/ pc' = [pc EXCEPT ![v] = "writeback"]
        BY <4>1 DEF RepairChunk, Goto
      <4> QED
        BY <2>1, <3>5, <4>1 DEF SweepStep, SweepStart, Begins, RepairFails,
           UpdateChunkReplicas, SweepEnd, Goto
    <3>6. ASSUME NEW q \in Procs, ReadStep(q)
          PROVE  FALSE
      BY <2>1, <3>6 DEF ReadStep, ReadRows, ReadReps, ReadFails, StartFails, Begins, Goto
    <3>7. ~ Crash
      BY DEF Crash
    <3>8. ASSUME UNCHANGED pc
          PROVE  FALSE
      BY <3>8
    <3> QED
      BY <3>1, <3>2, <3>3, <3>4, <3>5, <3>6, <3>7, <3>8
      DEF Next, Disconnect, PersistExtra, Expire, CreateBucket, vars
  <2>3. cur[w] \in Nat /\ seen[w].rows = rows /\ ~ (cur[w] < Cardinality(rows))
    BY <2>1, <2>2 DEF SweepEnd, Checking, SInv, SnapInv, IInv, TypeOK
  <2>4. obj \in Puts /\ Chunks[obj] \in Nat /\ rows = 1..Chunks[obj]
    <3>1. obj # None
      BY DEF SInv, MapInv, Active, Final
    <3> QED
      BY <3>1, StoreAssumption DEF IInv, TypeOK, ChunkMapComplete
  <2>5. Cardinality(rows) = Chunks[obj]
    BY <2>4, FS_Interval
  <2>6. s <= cur[w]
    BY <2>3, <2>4, <2>5
  <2> QED
    BY <2>6 DEF SInv, RestInv
<1> QED
  BY <1>1, Invariance, SerialInvariance, PTL DEF Orderly, Spec, SweepRestores

=============================================================================
