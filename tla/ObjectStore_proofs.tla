------------------------- MODULE ObjectStore_proofs -------------------------
(***************************************************************************)
(* Proofs about ObjectStore, for any requests, contents, providers and     *)
(* faults.  IInv is inductive for every configuration.  VInv, about which  *)
(* version's blobs are where, is inductive when no sweep runs: a sweep     *)
(* writes back replicas of a snapshot that may be of another version.      *)
(***************************************************************************)
EXTENDS ObjectStore, FiniteSetTheorems, TLAPS

Snapshots ==
  [obj : Puts \cup {None}, rows : SUBSET Seqs, reps : [Seqs -> SUBSET Blobs]]

(* At most one replica per provider. *)
OnePerProvider(S) == \A a, b \in S : a.prov = b.prov => a = b

(* The control states of each kind of process. *)
KindInv ==
  /\ \A p \in Puts : pc[p] \in Final \cup
       {"idle", "upload", "rows", "reps", "commit", "reap", "cleanup"}
  /\ \A d \in Dels : pc[d] \in Final \cup {"idle", "rows", "reps", "purge", "drop"}
  /\ \A g \in Gets : pc[g] \in Final \cup {"idle", "rows", "reps", "stream"}
  /\ \A x \in BucketDels : pc[x] \in Final \cup {"idle", "dropbucket"}
  /\ \A w \in Sweeps : pc[w] \in Final \cup {"idle", "rows", "reps", "repair", "writeback"}

(* A PUT has uploaded every chunk up to cur, each to a provider or more; it
   leaves the upload loop early only if its client is gone. *)
PutInv ==
  \A p \in Puts :
    /\ cur[p] <= Chunks[p]
    /\ \A s \in Seqs : \A b \in up[p][s] : b.put = p /\ b.seq = s /\ b.by = p
    /\ \A s \in Seqs : s <= cur[p] => up[p][s] # {}
    /\ pc[p] \in {"rows", "reps", "commit"} => cur[p] = Chunks[p] \/ p \in gone

(* What a GET streams by its row, and what a sweep writes back, fits the map. *)
GetInv ==
  \A g \in Gets : pc[g] \in {"rows", "reps", "stream"} => seen[g].obj # None

SweepInv ==
  \A w \in Sweeps :
    /\ \A s \in Seqs : OnePerProvider(seen[w].reps[s])
    /\ pc[w] = "writeback" =>
         cur[w] + 1 \in Seqs /\ fix[w] # {} /\ OnePerProvider(fix[w])

IInv ==
  /\ TypeOK /\ KindInv /\ PutInv /\ GetInv /\ SweepInv
  /\ DistinctProviders /\ ChunkMapComplete

-----------------------------------------------------------------------------
(* A PUT that wrote the object row, if it ever does: it will not again. *)
Landed(p) == pc[p] \in {"reap", "done", "crashed"}

(* Replicas that rows or snapshots name belong to PUTs that landed, and have
   left the background. *)
Known(m) ==
  \A s \in Seqs : \A b \in m[s] : b.seq = s /\ Landed(b.put) /\ b \notin background

Uniform(m) ==
  \A s, t \in Seqs : \A a \in m[s], b \in m[t] : Content[a.put] = Content[b.put]

KnownInv == Known(reps) /\ \A q \in Procs : Known(seen[q].reps)
UniformInv == Uniform(reps) /\ \A q \in Procs : Uniform(seen[q].reps)

(* A background upload is of a chunk that its PUT has gone past, and not one of
   the replicas that were answered; a PUT persists extras when it is done. *)
BackgroundInv ==
  /\ \A b \in background : b.by = b.put /\ b.seq <= cur[b.put]
  /\ \A p \in Puts, s \in Seqs : up[p][s] \cap background = {}
  /\ \A p \in persist : pc[p] = "done"

(* Until a PUT commits, its chunks stay where they are. *)
HostedInv ==
  /\ \A s \in Seqs : reps[s] \subseteq hosted \cup forsaken
  /\ \A p \in Puts : pc[p] \in {"idle", "upload", "rows", "reps", "commit"} =>
       \A s \in Seqs : up[p][s] \subseteq hosted \cup forsaken

(* What a PUT is about to reap is in no row any more. *)
ReapInv ==
  \A p \in Puts : pc[p] = "reap" => \A s \in Seqs : seen[p].reps[s] \cap reps[s] = {}

(* What a GET sent came from its snapshot. *)
Contents == {Content[p] : p \in Puts}

ServedInv ==
  /\ served \in [Gets -> Seq(Contents)]
  /\ \A g \in Gets :
       /\ Len(served[g]) = cur[g]
       /\ pc[g] \in {"idle", "rows", "reps"} => cur[g] = 0
       /\ \A i \in 1..cur[g] : \E s \in Seqs : \E b \in seen[g].reps[s] :
            served[g][i] = Content[b.put]

(* The snapshot of a GET that no write disturbs is of the current version. *)
SnapshotInv ==
  \A g \in Gets \ disturbed :
    /\ pc[g] \in {"rows", "reps", "stream"} => seen[g].obj = obj
    /\ pc[g] \in {"reps", "stream"} => seen[g].rows = rows
    /\ pc[g] = "stream" => \A s \in rows :
         seen[g].reps[s] # {} /\ seen[g].reps[s] \subseteq reps[s]
    /\ pc[g] = "stream" => \A i \in 1..cur[g] :
         served[g][i] = Content[seen[g].obj]

VInv ==
  /\ KnownInv /\ UniformInv /\ BackgroundInv /\ HostedInv /\ ReapInv
  /\ ServedInv /\ SnapshotInv
  /\ ReplicasMatchVersion /\ UndisturbedGetIsExact

-----------------------------------------------------------------------------
(* Blobs are told apart by their four fields. *)
LEMMA BlobFacts ==
  /\ \A b \in Blobs : /\ b.put \in Puts /\ b.seq \in Seqs /\ b.prov \in Providers
                      /\ b.by \in Puts \cup Sweeps
  /\ \A a, b \in Blobs : a.put = b.put /\ a.seq = b.seq /\ a.prov = b.prov /\ a.by = b.by
                           => a = b
  /\ \A p \in Puts, s \in Seqs, x \in Providers, w \in Puts \cup Sweeps :
       [put |-> p, seq |-> s, prov |-> x, by |-> w] \in Blobs
  BY DEF Blobs

(* What a process reads from the store; a query replaces one field. *)
LEMMA SnapshotFacts ==
  ASSUME NEW v \in Snapshots
  PROVE  /\ v.obj \in Puts \cup {None} /\ v.rows \in SUBSET Seqs
         /\ v.reps \in [Seqs -> SUBSET Blobs]
         /\ \A o \in Puts \cup {None} :
              LET u == [v EXCEPT !.obj = o]
              IN u \in Snapshots /\ u.obj = o /\ u.rows = v.rows /\ u.reps = v.reps
         /\ \A S \in SUBSET Seqs :
              LET u == [v EXCEPT !.rows = S]
              IN u \in Snapshots /\ u.obj = v.obj /\ u.rows = S /\ u.reps = v.reps
         /\ \A m \in [Seqs -> SUBSET Blobs] :
              LET u == [v EXCEPT !.reps = m]
              IN u \in Snapshots /\ u.obj = v.obj /\ u.rows = v.rows /\ u.reps = m
  BY DEF Snapshots

(* Chunk numbers, and how many of them there can be. *)
LEMMA SeqFacts ==
  /\ \A s \in Seqs : s \in Nat /\ s >= 1 /\ s <= MaxChunks
  /\ \A n \in Nat : n < MaxChunks => n + 1 \in Seqs
  /\ \A S \in SUBSET Seqs : Cardinality(S) \in Nat /\ Cardinality(S) <= MaxChunks
<1>1. /\ \A s \in Seqs : s \in Nat /\ s >= 1 /\ s <= MaxChunks
      /\ \A n \in Nat : n < MaxChunks => n + 1 \in Seqs
  BY StoreAssumption DEF Seqs
<1>2. IsFiniteSet(Seqs) /\ Cardinality(Seqs) = MaxChunks
  BY StoreAssumption, FS_Interval DEF Seqs
<1>3. \A S \in SUBSET Seqs : Cardinality(S) \in Nat /\ Cardinality(S) <= MaxChunks
  BY <1>2, FS_Subset, FS_CardinalityType
<1> QED
  BY <1>1, <1>3

-----------------------------------------------------------------------------
(* IInv is an invariant of every configuration. *)
LEMMA Invariance == Spec => []IInv
<1>1. Init => IInv
  BY StoreAssumption, SeqFacts DEF Init, NoReps, Requests, Procs, Final,
     Active, Goto, storeVars, procVars, envVars, TypeOK, IInv, KindInv,
     PutInv, GetInv, SweepInv, DistinctProviders, ChunkMapComplete,
     OnePerProvider, Seqs
<1>2. IInv /\ [Next]_vars => IInv'
  <2> SUFFICES ASSUME IInv, [Next]_vars
               PROVE  IInv'
    OBVIOUS
  <2> USE StoreAssumption DEF Requests, Procs, Final, Active, Goto, storeVars,
         procVars, envVars, TypeOK
  <2>1. ASSUME NEW p \in Puts, PutStart(p)
       PROVE  IInv'
    <3> USE <2>1 DEF PutStart, Begins
    <3>1. /\ TypeOK' /\ KindInv' /\ PutInv' /\ GetInv' /\ SweepInv'
         /\ DistinctProviders' /\ ChunkMapComplete'
      BY DEF IInv, KindInv, PutInv, GetInv, SweepInv, DistinctProviders,
           ChunkMapComplete, OnePerProvider
    <3> QED BY <3>1 DEF IInv
  <2>2. ASSUME NEW p \in Puts, UploadChunk(p)
       PROVE  IInv'
    <3> USE <2>2 DEF UploadChunk, Uploading, NextBlob
    <3>1. /\ KindInv' /\ GetInv' /\ SweepInv' /\ DistinctProviders'
         /\ ChunkMapComplete'
      BY DEF IInv, KindInv, GetInv, SweepInv, DistinctProviders,
           ChunkMapComplete, OnePerProvider
    <3>2. TypeOK'
      BY BlobFacts, SeqFacts DEF IInv
    <3>3. PutInv'
      <4>1. PICK S \in SUBSET Providers :
              /\ S # {}
              /\ up' = [up EXCEPT ![p] = [up[p] EXCEPT ![cur[p] + 1] =
                         {[put |-> p, seq |-> cur[p] + 1, prov |-> x, by |-> p] : x \in S}]]
        OBVIOUS
      <4>2. cur[p] \in Nat /\ Chunks[p] \in Nat /\ cur'[p] = cur[p] + 1 /\ pc'[p] = "upload"
        BY DEF IInv
      <4>3. \A q \in Puts \ {p} : cur'[q] = cur[q] /\ up'[q] = up[q] /\ pc'[q] = pc[q]
        BY <4>1 DEF IInv
      <4>4. \A s \in Seqs \ {cur[p] + 1} : up'[p][s] = up[p][s]
        BY <4>1 DEF IInv
      <4>5. cur[p] + 1 \in Seqs => up'[p][cur[p] + 1] =
              {[put |-> p, seq |-> cur[p] + 1, prov |-> x, by |-> p] : x \in S}
        BY <4>1 DEF IInv
      <4>6. \A s \in Seqs : s <= cur[p] + 1 => s <= cur[p] \/ s = cur[p] + 1
        BY <4>2, SeqFacts
      <4>7. \A s \in Seqs : \A b \in up'[p][s] : b.put = p /\ b.seq = s /\ b.by = p
        BY <4>4, <4>5 DEF IInv, PutInv
      <4>8. \A s \in Seqs : s <= cur[p] + 1 => up'[p][s] # {}
        <5>1. ASSUME NEW s \in Seqs, s <= cur[p]
              PROVE  up'[p][s] # {}
          <6>1. s # cur[p] + 1 /\ up[p][s] # {}
            BY <4>2, <5>1, SeqFacts DEF IInv, PutInv
          <6> QED
            BY <4>4, <6>1
        <5>2. cur[p] + 1 \in Seqs => up'[p][cur[p] + 1] # {}
          <6>1. PICK x \in S : TRUE
            BY <4>1
          <6>2. cur[p] + 1 \in Seqs => [put |-> p, seq |-> cur[p] + 1, prov |-> x, by |-> p]
                  \in up'[p][cur[p] + 1]
            BY <4>5, ZenonT(60)
          <6> QED
            BY <6>2
        <5> QED
          BY <4>6, <5>1, <5>2
      <4>9. cur[p] + 1 <= Chunks[p]
        BY <4>2
      <4> QED
        BY <4>2, <4>3, <4>7, <4>8, <4>9 DEF IInv, PutInv
    <3> QED BY <3>1, <3>2, <3>3 DEF IInv
  <2>3. ASSUME NEW p \in Puts, UploadError(p)
       PROVE  IInv'
    <3> USE <2>3 DEF UploadError, Uploading, NextBlob
    <3>1. /\ KindInv' /\ PutInv' /\ GetInv' /\ SweepInv' /\ DistinctProviders'
         /\ ChunkMapComplete'
      BY DEF IInv, KindInv, PutInv, GetInv, SweepInv, DistinctProviders,
           ChunkMapComplete, OnePerProvider
    <3>2. TypeOK'
      BY BlobFacts, SeqFacts DEF IInv, GetInv, ChunkMapComplete, Seqs
    <3> QED BY <3>1, <3>2 DEF IInv
  <2>4. ASSUME NEW p \in Puts, UploadEnd(p)
       PROVE  IInv'
    <3> USE <2>4 DEF UploadEnd
    <3>1. /\ TypeOK' /\ KindInv' /\ PutInv' /\ GetInv' /\ SweepInv'
         /\ DistinctProviders' /\ ChunkMapComplete'
      BY DEF IInv, KindInv, PutInv, GetInv, SweepInv, DistinctProviders,
           ChunkMapComplete, OnePerProvider
    <3> QED BY <3>1 DEF IInv
  <2>5. ASSUME NEW p \in Puts, RejectBody(p)
       PROVE  IInv'
    <3> USE <2>5 DEF RejectBody
    <3>1. /\ TypeOK' /\ KindInv' /\ PutInv' /\ GetInv' /\ SweepInv'
         /\ DistinctProviders' /\ ChunkMapComplete'
      BY DEF IInv, KindInv, PutInv, GetInv, SweepInv, DistinctProviders,
           ChunkMapComplete, OnePerProvider
    <3> QED BY <3>1 DEF IInv
  <2>6. ASSUME NEW p \in Puts, PutObject(p)
       PROVE  IInv'
    <3> USE <2>6 DEF PutObject, ChunkRows, Disturb
    <3>1. /\ KindInv' /\ PutInv' /\ GetInv' /\ SweepInv'
      BY DEF IInv, KindInv, PutInv, GetInv, SweepInv, OnePerProvider
    <3>2. TypeOK'
      BY DEF IInv, PutInv, Seqs
    <3>3. DistinctProviders'
      <4> SUFFICES ASSUME NEW s \in Seqs, NEW a \in up[p][s], NEW b \in up[p][s], a.prov = b.prov
                   PROVE  a = b
        BY DEF DistinctProviders
      <4>1. a \in Blobs /\ b \in Blobs
        BY DEF IInv
      <4>2. a.put = p /\ a.seq = s /\ a.by = p /\ b.put = p /\ b.seq = s /\ b.by = p
        BY DEF IInv, PutInv
      <4> QED
        BY <4>1, <4>2, BlobFacts
    <3>4. ChunkMapComplete'
      BY SeqFacts DEF IInv, ChunkMapComplete, PutInv, GetInv, SweepInv,
           DistinctProviders, Seqs
    <3> QED BY <3>1, <3>2, <3>3, <3>4 DEF IInv
  <2>7. ASSUME NEW p \in Puts, PutObjectFails(p)
       PROVE  IInv'
    <3> USE <2>7 DEF PutObjectFails
    <3>1. /\ TypeOK' /\ KindInv' /\ PutInv' /\ GetInv' /\ SweepInv'
         /\ DistinctProviders' /\ ChunkMapComplete'
      BY DEF IInv, KindInv, PutInv, GetInv, SweepInv, DistinctProviders,
           ChunkMapComplete, OnePerProvider
    <3> QED BY <3>1 DEF IInv
  <2>8. ASSUME NEW p \in Puts, Reap(p)
       PROVE  IInv'
    <3> USE <2>8 DEF Reap, DeleteBatch
    <3>1. /\ TypeOK' /\ KindInv' /\ PutInv' /\ GetInv' /\ SweepInv'
         /\ DistinctProviders' /\ ChunkMapComplete'
      BY DEF IInv, KindInv, PutInv, GetInv, SweepInv, DistinctProviders,
           ChunkMapComplete, OnePerProvider
    <3> QED BY <3>1 DEF IInv
  <2>9. ASSUME NEW p \in Puts, Cleanup(p)
       PROVE  IInv'
    <3> USE <2>9 DEF Cleanup, DeleteBatch
    <3>1. /\ TypeOK' /\ KindInv' /\ PutInv' /\ GetInv' /\ SweepInv'
         /\ DistinctProviders' /\ ChunkMapComplete'
      BY DEF IInv, KindInv, PutInv, GetInv, SweepInv, DistinctProviders,
           ChunkMapComplete, OnePerProvider
    <3> QED BY <3>1 DEF IInv
  <2>10. ASSUME NEW d \in Dels, DelStart(d)
       PROVE  IInv'
    <3> USE <2>10 DEF DelStart, Begins
    <3>1. /\ TypeOK' /\ KindInv' /\ PutInv' /\ GetInv' /\ SweepInv'
         /\ DistinctProviders' /\ ChunkMapComplete'
      BY DEF IInv, KindInv, PutInv, GetInv, SweepInv, DistinctProviders,
           ChunkMapComplete, OnePerProvider
    <3> QED BY <3>1 DEF IInv
  <2>11. ASSUME NEW d \in Dels, Purge(d)
       PROVE  IInv'
    <3> USE <2>11 DEF Purge, DeleteBatch
    <3>1. /\ KindInv' /\ PutInv' /\ GetInv' /\ SweepInv' /\ DistinctProviders'
         /\ ChunkMapComplete'
      BY DEF IInv, KindInv, PutInv, GetInv, SweepInv, DistinctProviders,
           ChunkMapComplete, OnePerProvider
    <3>2. TypeOK'
      <4>1. AllBlobs(seen[d].reps) \subseteq Blobs
        BY DEF IInv, AllBlobs
      <4>2. hosted' \subseteq Blobs
        BY DEF IInv
      <4> QED
        BY <4>1, <4>2 DEF IInv
    <3> QED BY <3>1, <3>2 DEF IInv
  <2>12. ASSUME NEW d \in Dels, DeleteObject(d)
       PROVE  IInv'
    <3> USE <2>12 DEF DeleteObject, Disturb, NoReps
    <3>1. /\ TypeOK' /\ KindInv' /\ PutInv' /\ GetInv' /\ SweepInv'
         /\ DistinctProviders' /\ ChunkMapComplete'
      BY DEF IInv, KindInv, PutInv, GetInv, SweepInv, DistinctProviders,
           ChunkMapComplete, OnePerProvider
    <3> QED BY <3>1 DEF IInv
  <2>13. ASSUME NEW d \in Dels, DeleteObjectFails(d)
       PROVE  IInv'
    <3> USE <2>13 DEF DeleteObjectFails
    <3>1. /\ TypeOK' /\ KindInv' /\ PutInv' /\ GetInv' /\ SweepInv'
         /\ DistinctProviders' /\ ChunkMapComplete'
      BY DEF IInv, KindInv, PutInv, GetInv, SweepInv, DistinctProviders,
           ChunkMapComplete, OnePerProvider
    <3> QED BY <3>1 DEF IInv
  <2>14. ASSUME NEW g \in Gets, GetStart(g)
       PROVE  IInv'
    <3> USE <2>14 DEF GetStart, Begins
    <3>a. seen \in [Procs -> Snapshots]
      BY DEF IInv, Snapshots
    <3>b. [seen[g] EXCEPT !.obj = obj] \in Snapshots
      BY <3>a, SnapshotFacts DEF IInv
    <3>c. /\ seen' = [seen EXCEPT ![g] = [seen[g] EXCEPT !.obj = obj]]
          /\ seen' \in [Procs -> Snapshots]
      BY <3>a, <3>b
    <3>1. /\ KindInv' /\ PutInv' /\ GetInv' /\ SweepInv' /\ DistinctProviders'
         /\ ChunkMapComplete'
      BY DEF IInv, KindInv, PutInv, GetInv, SweepInv, DistinctProviders,
           ChunkMapComplete, OnePerProvider
    <3>2. TypeOK'
      <4>1. pc' \in [Procs -> Final \cup {"idle", "upload", "rows", "reps", "commit", "reap",
                           "cleanup", "purge", "drop", "stream", "dropbucket", "repair",
                           "writeback"}]
        BY DEF IInv, KindInv
      <4> QED
        BY <3>c, <4>1 DEF IInv, Snapshots
    <3> QED BY <3>1, <3>2 DEF IInv
  <2>15. ASSUME NEW g \in Gets, StreamChunk(g)
       PROVE  IInv'
    <3> USE <2>15 DEF StreamChunk, Locations
    <3>1. /\ PutInv' /\ GetInv' /\ DistinctProviders' /\ ChunkMapComplete'
      BY DEF IInv, PutInv, GetInv, DistinctProviders, ChunkMapComplete
    <3>2. TypeOK'
      <4>1. cur' \in [Procs -> Nat]
        BY SMTT(30) DEF IInv
      <4>2. pc' \in [Procs -> Final \cup {"idle", "upload", "rows", "reps", "commit", "reap",
                           "cleanup", "purge", "drop", "stream", "dropbucket", "repair",
                           "writeback"}]
        BY DEF IInv
      <4> QED
        BY <4>1, <4>2 DEF IInv
    <3>3. KindInv'
      <4>1. \A q \in Procs \ {g} : pc'[q] = pc[q]
        BY DEF IInv
      <4>2. pc'[g] \in {"stream", "failed"}
        BY DEF IInv
      <4> QED
        BY <4>1, <4>2 DEF IInv, KindInv
    <3>4. SweepInv'
      BY DEF IInv, SweepInv
    <3> QED BY <3>1, <3>2, <3>3, <3>4 DEF IInv
  <2>16. ASSUME NEW g \in Gets, StreamEnd(g)
       PROVE  IInv'
    <3> USE <2>16 DEF StreamEnd
    <3>1. /\ TypeOK' /\ KindInv' /\ PutInv' /\ GetInv' /\ SweepInv'
         /\ DistinctProviders' /\ ChunkMapComplete'
      BY DEF IInv, KindInv, PutInv, GetInv, SweepInv, DistinctProviders,
           ChunkMapComplete, OnePerProvider
    <3> QED BY <3>1 DEF IInv
  <2>17. ASSUME NEW x \in BucketDels, BucketDelStart(x)
       PROVE  IInv'
    <3> USE <2>17 DEF BucketDelStart, Begins
    <3>1. /\ TypeOK' /\ KindInv' /\ PutInv' /\ GetInv' /\ SweepInv'
         /\ DistinctProviders' /\ ChunkMapComplete'
      BY DEF IInv, KindInv, PutInv, GetInv, SweepInv, DistinctProviders,
           ChunkMapComplete, OnePerProvider
    <3> QED BY <3>1 DEF IInv
  <2>18. ASSUME NEW x \in BucketDels, DeleteBucket(x)
       PROVE  IInv'
    <3> USE <2>18 DEF DeleteBucket, Disturb
    <3>1. /\ GetInv' /\ SweepInv' /\ DistinctProviders' /\ ChunkMapComplete'
      BY DEF IInv, GetInv, SweepInv, DistinctProviders, ChunkMapComplete,
           OnePerProvider
    <3>2. TypeOK'
      BY DEF IInv
    <3>3. KindInv'
      BY DEF IInv, KindInv
    <3>4. PutInv'
      BY DEF IInv, PutInv
    <3> QED BY <3>1, <3>2, <3>3, <3>4 DEF IInv
  <2>19. ASSUME NEW x \in BucketDels, DeleteBucketFails(x)
       PROVE  IInv'
    <3> USE <2>19 DEF DeleteBucketFails
    <3>1. /\ TypeOK' /\ KindInv' /\ PutInv' /\ GetInv' /\ SweepInv'
         /\ DistinctProviders' /\ ChunkMapComplete'
      BY DEF IInv, KindInv, PutInv, GetInv, SweepInv, DistinctProviders,
           ChunkMapComplete, OnePerProvider
    <3> QED BY <3>1 DEF IInv
  <2>20. ASSUME NEW w \in Sweeps, SweepStart(w)
       PROVE  IInv'
    <3> USE <2>20 DEF SweepStart, Begins
    <3>1. /\ TypeOK' /\ KindInv' /\ PutInv' /\ GetInv' /\ SweepInv'
         /\ DistinctProviders' /\ ChunkMapComplete'
      BY DEF IInv, KindInv, PutInv, GetInv, SweepInv, DistinctProviders,
           ChunkMapComplete, OnePerProvider
    <3> QED BY <3>1 DEF IInv
  <2>21. ASSUME NEW w \in Sweeps, RepairChunk(w)
       PROVE  IInv'
    <3> USE <2>21 DEF RepairChunk, Checking
    <3>a. /\ cur[w] \in Nat /\ cur[w] + 1 \in Seqs
          /\ seen[w].reps \in [Seqs -> SUBSET Blobs]
      BY SeqFacts DEF IInv
    <3>v. \A S : VerifiedSets(S) \subseteq SUBSET S
      BY DEF VerifiedSets
    <3>b. PICK live \in SUBSET seen[w].reps[cur[w] + 1] :
            \/ cur' = [cur EXCEPT ![w] = cur[w] + 1] /\ UNCHANGED <<pc, fix, hosted>>
            \/ /\ live # {}
               /\ \E n : \E new \in Refills(w, cur[w] + 1, live, n) :
                    /\ hosted' = hosted \cup new
                    /\ fix' = [fix EXCEPT ![w] = live \cup new]
                    /\ \/ Goto(w, "writeback") /\ UNCHANGED cur
                       \/ cur' = [cur EXCEPT ![w] = cur[w] + 1] /\ UNCHANGED pc
      BY <3>v
    <3>c. live \in SUBSET Blobs
      BY <3>a
    <3>d. ASSUME NEW n, NEW new \in Refills(w, cur[w] + 1, live, n), live # {}
          PROVE  /\ new \subseteq Blobs
                 /\ \A b \in new : \A a \in live : a.prov # b.prov
                 /\ \A a, b \in new : a.prov = b.prov => a = b
      <4> HIDE DEF RepairChunk, Checking
      <4> DEFINE c == CHOOSE b \in live : TRUE
      <4>1. c \in live
        BY <3>d
      <4>2. PICK N \in SUBSET (Providers \ {b.prov : b \in live}) :
              new = {[put |-> c.put, seq |-> cur[w] + 1, prov |-> x, by |-> w] : x \in N}
        BY <3>d, Zenon DEF Refills
      <4> HIDE DEF c
      <4>3. c.put \in Puts
        BY <3>c, <4>1, BlobFacts
      <4> QED
        BY <3>a, <4>2, <4>3, BlobFacts
    <3>1. /\ PutInv' /\ GetInv' /\ DistinctProviders' /\ ChunkMapComplete'
      BY DEF IInv, PutInv, GetInv, DistinctProviders, ChunkMapComplete
    <3>2. TypeOK'
      <4>0. UNCHANGED <<storeVars, seen, up, served, envVars>>
        OBVIOUS
      <4> HIDE DEF RepairChunk, Checking
      <4>1. hosted' \subseteq Blobs /\ fix' \in [Sweeps -> SUBSET Blobs]
        <5>1. CASE UNCHANGED <<fix, hosted>>
          BY <5>1 DEF IInv
        <5>2. CASE live # {} /\ \E n : \E new \in Refills(w, cur[w] + 1, live, n) :
                     hosted' = hosted \cup new /\ fix' = [fix EXCEPT ![w] = live \cup new]
          <6>1. PICK new \in SUBSET Blobs :
                  hosted' = hosted \cup new /\ fix' = [fix EXCEPT ![w] = live \cup new]
            BY <3>d, <5>2
          <6> QED
            BY <3>c, <6>1 DEF IInv
        <5> QED
          BY <3>b, <5>1, <5>2
      <4>2. cur' \in [Procs -> Nat]
        <5>1. cur' = cur \/ cur' = [cur EXCEPT ![w] = cur[w] + 1]
          BY <3>b
        <5>2. cur \in [Procs -> Nat] /\ cur[w] + 1 \in Nat
          BY <3>a DEF IInv
        <5> QED
          BY <5>1, <5>2
      <4>3. pc' \in [Procs -> Final \cup {"idle", "upload", "rows", "reps", "commit", "reap",
                           "cleanup", "purge", "drop", "stream", "dropbucket", "repair",
                           "writeback"}]
        BY <3>b DEF IInv
      <4> QED
        BY <4>0, <4>1, <4>2, <4>3 DEF IInv
    <3>3. KindInv'
      <4>1. \A q \in Procs \ {w} : pc'[q] = pc[q]
        BY <3>b DEF IInv
      <4>2. pc'[w] \in {"repair", "writeback"}
        BY <3>b DEF IInv
      <4>3. w \notin Puts \cup Dels \cup Gets \cup BucketDels
        OBVIOUS
      <4> HIDE DEF RepairChunk, Checking
      <4>4. \A q \in Puts \cup Dels \cup Gets \cup BucketDels : pc'[q] = pc[q]
        BY <4>1, <4>3
      <4>5. \A v \in Sweeps : pc'[v] \in {pc[v], "repair", "writeback"}
        BY <4>1, <4>2
      <4> QED
        BY <4>4, <4>5 DEF IInv, KindInv
    <3>4. SweepInv'
      <4>1. UNCHANGED seen /\ pc[w] = "repair"
        OBVIOUS
      <4>2. \A v \in Sweeps \ {w} : pc'[v] = pc[v] /\ cur'[v] = cur[v] /\ fix'[v] = fix[v]
        BY <3>b DEF IInv
      <4>3. OnePerProvider(live)
        BY <3>a DEF IInv, SweepInv, OnePerProvider
      <4>4. pc'[w] = "writeback" =>
              cur'[w] + 1 \in Seqs /\ fix'[w] # {} /\ OnePerProvider(fix'[w])
        <5> SUFFICES ASSUME pc'[w] = "writeback"
                     PROVE  cur'[w] + 1 \in Seqs /\ fix'[w] # {} /\ OnePerProvider(fix'[w])
          OBVIOUS
        <5>1. PICK n : \E new \in Refills(w, cur[w] + 1, live, n) :
                fix' = [fix EXCEPT ![w] = live \cup new]
          BY <3>b, <4>1 DEF IInv
        <5>2. PICK new \in Refills(w, cur[w] + 1, live, n) : fix'[w] = live \cup new
          BY <5>1 DEF IInv
        <5>3. live # {} /\ UNCHANGED cur
          BY <3>b, <4>1 DEF IInv
        <5> QED
          BY <3>a, <3>d, <4>3, <5>2, <5>3 DEF OnePerProvider
      <4> HIDE DEF RepairChunk, Checking
      <4> QED
        BY <4>1, <4>2, <4>4 DEF IInv, SweepInv, OnePerProvider
    <3> QED BY <3>1, <3>2, <3>3, <3>4 DEF IInv
  <2>22. ASSUME NEW w \in Sweeps, RepairFails(w)
       PROVE  IInv'
    <3> USE <2>22 DEF RepairFails, Checking
    <3>1. /\ TypeOK' /\ KindInv' /\ PutInv' /\ GetInv' /\ SweepInv'
         /\ DistinctProviders' /\ ChunkMapComplete'
      BY DEF IInv, KindInv, PutInv, GetInv, SweepInv, DistinctProviders,
           ChunkMapComplete, OnePerProvider
    <3> QED BY <3>1 DEF IInv
  <2>23. ASSUME NEW w \in Sweeps, UpdateChunkReplicas(w)
       PROVE  IInv'
    <3> USE <2>23 DEF UpdateChunkReplicas, Disturb
    <3>1. /\ KindInv' /\ PutInv' /\ GetInv' /\ SweepInv'
      BY DEF IInv, KindInv, PutInv, GetInv, SweepInv, OnePerProvider
    <3>2. TypeOK'
      BY DEF IInv, SweepInv
    <3>3. DistinctProviders'
      BY DEF IInv, DistinctProviders, SweepInv, OnePerProvider
    <3>4. ChunkMapComplete'
      BY DEF IInv, ChunkMapComplete, SweepInv
    <3> QED BY <3>1, <3>2, <3>3, <3>4 DEF IInv
  <2>24. ASSUME NEW w \in Sweeps, SweepEnd(w)
       PROVE  IInv'
    <3> USE <2>24 DEF SweepEnd
    <3>1. /\ TypeOK' /\ KindInv' /\ PutInv' /\ GetInv' /\ SweepInv'
         /\ DistinctProviders' /\ ChunkMapComplete'
      BY DEF IInv, KindInv, PutInv, GetInv, SweepInv, DistinctProviders,
           ChunkMapComplete, OnePerProvider
    <3> QED BY <3>1 DEF IInv
  <2>25. ASSUME NEW q \in Procs, ReadRows(q)
       PROVE  IInv'
    <3> USE <2>25 DEF ReadRows, After
    <3>a. seen \in [Procs -> Snapshots]
      BY DEF IInv, Snapshots
    <3>b. [seen[q] EXCEPT !.rows = rows] \in Snapshots
      BY <3>a, SnapshotFacts DEF IInv
    <3>c. /\ seen' = [seen EXCEPT ![q] = [seen[q] EXCEPT !.rows = rows]]
          /\ seen' \in [Procs -> Snapshots]
      BY <3>a, <3>b
    <3>1. /\ PutInv' /\ GetInv' /\ SweepInv' /\ DistinctProviders' /\ ChunkMapComplete'
      BY DEF IInv, PutInv, GetInv, SweepInv, DistinctProviders,
           ChunkMapComplete, OnePerProvider
    <3>2. TypeOK'
      <4>1. pc' \in [Procs -> Final \cup {"idle", "upload", "rows", "reps", "commit", "reap",
                           "cleanup", "purge", "drop", "stream", "dropbucket", "repair",
                           "writeback"}]
        BY DEF IInv, KindInv
      <4> QED
        BY <3>c, <4>1 DEF IInv, Snapshots
    <3>3. KindInv'
      BY BlobFacts DEF IInv, KindInv, GetInv, SweepInv, OnePerProvider, Seqs
    <3> QED BY <3>1, <3>2, <3>3 DEF IInv
  <2>26. ASSUME NEW q \in Procs, ReadReps(q)
       PROVE  IInv'
    <3> USE <2>26 DEF ReadReps, After
    <3>a. seen \in [Procs -> Snapshots]
      BY DEF IInv, Snapshots
    <3>b. [seen[q] EXCEPT !.reps = [s \in Seqs |-> IF s \in seen[q].rows THEN reps[s] ELSE {}]] \in Snapshots
      <4> DEFINE m == [s \in Seqs |-> IF s \in seen[q].rows THEN reps[s] ELSE {}]
      <4>1. m \in [Seqs -> SUBSET Blobs]
        BY DEF IInv
      <4>2. seen[q] \in Snapshots
        BY <3>a
      <4> HIDE DEF m
      <4>3. [seen[q] EXCEPT !.reps = m] \in Snapshots
        BY <4>1, <4>2, SnapshotFacts, ZenonT(30)
      <4> QED
        BY <4>3 DEF m
    <3>c. /\ seen' = [seen EXCEPT ![q] = [seen[q] EXCEPT !.reps = [s \in Seqs |-> IF s \in seen[q].rows THEN reps[s] ELSE {}]]]
          /\ seen' \in [Procs -> Snapshots]
      BY <3>a, <3>b
    <3>d. /\ q \in Puts => After(q) = "commit"
          /\ q \in Dels => After(q) = "purge"
          /\ q \in Gets => After(q) = "stream"
          /\ q \in Sweeps => After(q) = "repair"
      OBVIOUS
    <3>1. /\ PutInv' /\ GetInv' /\ DistinctProviders' /\ ChunkMapComplete'
      BY DEF IInv, PutInv, GetInv, DistinctProviders, ChunkMapComplete
    <3>2. TypeOK'
      <4>1. pc' \in [Procs -> Final \cup {"idle", "upload", "rows", "reps", "commit", "reap",
                           "cleanup", "purge", "drop", "stream", "dropbucket", "repair",
                           "writeback"}]
        BY <3>d DEF IInv, KindInv
      <4> QED
        BY <3>c, <4>1 DEF IInv, Snapshots
    <3>3. KindInv'
      <4>1. pc' = [pc EXCEPT ![q] = After(q)] /\ q \notin BucketDels
        BY DEF IInv, KindInv
      <4> HIDE <2>26 DEF After
      <4> QED
        BY <3>d, <4>1 DEF IInv, KindInv
    <3>4. SweepInv'
      BY DEF IInv, SweepInv, OnePerProvider, DistinctProviders
    <3> QED BY <3>1, <3>2, <3>3, <3>4 DEF IInv
  <2>27. ASSUME NEW q \in Procs, ReadFails(q)
       PROVE  IInv'
    <3> USE <2>27 DEF ReadFails
    <3>a. seen \in [Procs -> Snapshots]
      BY DEF IInv, Snapshots
    <3>b. [seen[q] EXCEPT !.rows = {}] \in Snapshots
      BY <3>a, SnapshotFacts DEF IInv
    <3>c. /\ seen' = [seen EXCEPT ![q] = [seen[q] EXCEPT !.rows = {}]]
          /\ seen' \in [Procs -> Snapshots]
      BY <3>a, <3>b
    <3>1. /\ KindInv' /\ PutInv' /\ GetInv' /\ SweepInv' /\ DistinctProviders'
         /\ ChunkMapComplete'
      BY DEF IInv, KindInv, PutInv, GetInv, SweepInv, DistinctProviders,
           ChunkMapComplete, OnePerProvider
    <3>2. TypeOK'
      <4>1. pc' \in [Procs -> Final \cup {"idle", "upload", "rows", "reps", "commit", "reap",
                           "cleanup", "purge", "drop", "stream", "dropbucket", "repair",
                           "writeback"}]
        BY DEF IInv, KindInv
      <4> QED
        BY <3>c, <4>1 DEF IInv, Snapshots
    <3> QED BY <3>1, <3>2 DEF IInv
  <2>28. ASSUME NEW q \in Procs, StartFails(q)
       PROVE  IInv'
    <3> USE <2>28 DEF StartFails, Begins
    <3>1. /\ TypeOK' /\ KindInv' /\ PutInv' /\ GetInv' /\ SweepInv'
         /\ DistinctProviders' /\ ChunkMapComplete'
      BY DEF IInv, KindInv, PutInv, GetInv, SweepInv, DistinctProviders,
           ChunkMapComplete, OnePerProvider
    <3> QED BY <3>1 DEF IInv
  <2>29. ASSUME NEW q \in Requests, Disconnect(q)
       PROVE  IInv'
    <3> USE <2>29 DEF Disconnect
    <3>1. /\ TypeOK' /\ KindInv' /\ PutInv' /\ GetInv' /\ SweepInv'
         /\ DistinctProviders' /\ ChunkMapComplete'
      BY DEF IInv, KindInv, PutInv, GetInv, SweepInv, DistinctProviders,
           ChunkMapComplete, OnePerProvider
    <3> QED BY <3>1 DEF IInv
  <2>30. ASSUME NEW b \in background, PersistExtra(b)
       PROVE  IInv'
    <3> USE <2>30 DEF PersistExtra, AppendChunkReplica
    <3>1. /\ GetInv' /\ SweepInv' /\ ChunkMapComplete'
      BY DEF IInv, GetInv, SweepInv, ChunkMapComplete, OnePerProvider
    <3>2. TypeOK'
      BY SMTT(30) DEF IInv
    <3>3. KindInv'
      BY DEF IInv, KindInv
    <3>4. PutInv'
      BY DEF IInv, PutInv
    <3>5. DistinctProviders'
      <4>1. b \in Blobs
        BY DEF IInv
      <4>2. \/ UNCHANGED reps
            \/ /\ \A r \in reps[b.seq] : r.prov # b.prov
               /\ reps' = [reps EXCEPT ![b.seq] = reps[b.seq] \cup {b}]
        OBVIOUS
      <4> HIDE <2>30
      <4> QED
        BY <4>2 DEF IInv, DistinctProviders
    <3> QED BY <3>1, <3>2, <3>3, <3>4, <3>5 DEF IInv
  <2>31. ASSUME NEW b \in hosted, Expire(b)
       PROVE  IInv'
    <3> USE <2>31 DEF Expire
    <3>1. /\ TypeOK' /\ KindInv' /\ PutInv' /\ GetInv' /\ SweepInv'
         /\ DistinctProviders' /\ ChunkMapComplete'
      BY DEF IInv, KindInv, PutInv, GetInv, SweepInv, DistinctProviders,
           ChunkMapComplete, OnePerProvider
    <3> QED BY <3>1 DEF IInv
  <2>32. ASSUME CreateBucket
       PROVE  IInv'
    <3> USE <2>32 DEF CreateBucket
    <3>1. /\ TypeOK' /\ KindInv' /\ PutInv' /\ GetInv' /\ SweepInv'
         /\ DistinctProviders' /\ ChunkMapComplete'
      BY DEF IInv, KindInv, PutInv, GetInv, SweepInv, DistinctProviders,
           ChunkMapComplete, OnePerProvider
    <3> QED BY <3>1 DEF IInv
  <2>33. ASSUME Crash
       PROVE  IInv'
    <3> USE <2>33 DEF Crash
    <3>1. /\ TypeOK' /\ KindInv' /\ PutInv' /\ GetInv' /\ SweepInv'
         /\ DistinctProviders' /\ ChunkMapComplete'
      BY DEF IInv, KindInv, PutInv, GetInv, SweepInv, DistinctProviders,
           ChunkMapComplete, OnePerProvider
    <3> QED BY <3>1 DEF IInv
  <2>34. ASSUME UNCHANGED vars
       PROVE  IInv'
    BY <2>34 DEF vars, IInv, KindInv, PutInv, GetInv, SweepInv, DistinctProviders,
     ChunkMapComplete, OnePerProvider
  <2>35. QED
    BY <2>1, <2>2, <2>3, <2>4, <2>5, <2>6, <2>7, <2>8, <2>9,
       <2>10, <2>11, <2>12, <2>13, <2>14, <2>15, <2>16, <2>17, <2>18, <2>19,
       <2>20, <2>21, <2>22, <2>23, <2>24, <2>25, <2>26, <2>27, <2>28, <2>29,
       <2>30, <2>31, <2>32, <2>33, <2>34
    DEF Next, PutStep, DelStep, GetStep, BucketDelStep, SweepStep, ReadStep
<1>3. QED
  BY <1>1, <1>2, PTL DEF Spec

-----------------------------------------------------------------------------
(* Without sweeps VInv is an invariant too. *)
LEMMA VersionInvariance == ASSUME Sweeps = {} PROVE Spec => []VInv
<1>1. Init => VInv
  BY StoreAssumption, SeqFacts DEF Init, NoReps, Requests, Procs, Final,
     Active, Goto, storeVars, procVars, envVars, TypeOK, VInv, KnownInv,
     UniformInv, BackgroundInv, HostedInv, ReapInv, ServedInv, SnapshotInv,
     ReplicasMatchVersion, UndisturbedGetIsExact, Known, Landed, Uniform,
     UndisturbedGetIsExact
<1>2. IInv /\ IInv' /\ VInv /\ [Next]_vars => VInv'
  <2> SUFFICES ASSUME IInv, IInv', VInv, [Next]_vars
               PROVE  VInv'
    OBVIOUS
  <2> USE StoreAssumption DEF Requests, Procs, Final, Active, Goto, storeVars,
         procVars, envVars, TypeOK
  <2>1. ASSUME NEW p \in Puts, PutStart(p)
       PROVE  VInv'
    <3> USE <2>1 DEF PutStart, Begins
    <3>1. /\ KnownInv' /\ UniformInv' /\ BackgroundInv' /\ HostedInv' /\ ReapInv'
      BY DEF IInv, VInv, KnownInv, UniformInv, BackgroundInv, HostedInv,
           ReapInv, Known, Landed, Uniform
    <3>2. /\ ServedInv' /\ SnapshotInv' /\ ReplicasMatchVersion'
         /\ UndisturbedGetIsExact'
      BY DEF IInv, VInv, ServedInv, SnapshotInv, ReplicasMatchVersion,
           UndisturbedGetIsExact
    <3> QED BY <3>1, <3>2 DEF VInv
  <2>2. ASSUME NEW p \in Puts, UploadChunk(p)
       PROVE  VInv'
    <3> USE <2>2 DEF UploadChunk, Uploading, NextBlob
    <3>1. /\ KnownInv' /\ UniformInv' /\ HostedInv' /\ ReapInv'
      BY DEF IInv, VInv, KnownInv, UniformInv, HostedInv, ReapInv, Known,
           Landed, Uniform
    <3>2. /\ ServedInv' /\ SnapshotInv' /\ ReplicasMatchVersion'
         /\ UndisturbedGetIsExact'
      BY DEF IInv, VInv, ServedInv, SnapshotInv, ReplicasMatchVersion,
           UndisturbedGetIsExact
    <3>3. BackgroundInv'
      BY BlobFacts, SeqFacts DEF IInv, VInv, BackgroundInv, PutInv
    <3> QED BY <3>1, <3>2, <3>3 DEF VInv
  <2>3. ASSUME NEW p \in Puts, UploadError(p)
       PROVE  VInv'
    <3> USE <2>3 DEF UploadError, Uploading, NextBlob
    <3>1. /\ KnownInv' /\ UniformInv' /\ BackgroundInv' /\ HostedInv' /\ ReapInv'
      BY DEF IInv, VInv, KnownInv, UniformInv, BackgroundInv, HostedInv,
           ReapInv, Known, Landed, Uniform
    <3>2. /\ ServedInv' /\ SnapshotInv' /\ ReplicasMatchVersion'
         /\ UndisturbedGetIsExact'
      BY DEF IInv, VInv, ServedInv, SnapshotInv, ReplicasMatchVersion,
           UndisturbedGetIsExact
    <3> QED BY <3>1, <3>2 DEF VInv
  <2>4. ASSUME NEW p \in Puts, UploadEnd(p)
       PROVE  VInv'
    <3> USE <2>4 DEF UploadEnd
    <3>1. /\ KnownInv' /\ UniformInv' /\ BackgroundInv' /\ HostedInv' /\ ReapInv'
      BY DEF IInv, VInv, KnownInv, UniformInv, BackgroundInv, HostedInv,
           ReapInv, Known, Landed, Uniform
    <3>2. /\ ServedInv' /\ SnapshotInv' /\ ReplicasMatchVersion'
         /\ UndisturbedGetIsExact'
      BY DEF IInv, VInv, ServedInv, SnapshotInv, ReplicasMatchVersion,
           UndisturbedGetIsExact
    <3> QED BY <3>1, <3>2 DEF VInv
  <2>5. ASSUME NEW p \in Puts, RejectBody(p)
       PROVE  VInv'
    <3> USE <2>5 DEF RejectBody
    <3>1. /\ KnownInv' /\ UniformInv' /\ BackgroundInv' /\ HostedInv' /\ ReapInv'
      BY DEF IInv, VInv, KnownInv, UniformInv, BackgroundInv, HostedInv,
           ReapInv, Known, Landed, Uniform
    <3>2. /\ ServedInv' /\ SnapshotInv' /\ ReplicasMatchVersion'
         /\ UndisturbedGetIsExact'
      BY DEF IInv, VInv, ServedInv, SnapshotInv, ReplicasMatchVersion,
           UndisturbedGetIsExact
    <3> QED BY <3>1, <3>2 DEF VInv
  <2>6. ASSUME NEW p \in Puts, PutObject(p)
       PROVE  VInv'
    <3> USE <2>6 DEF PutObject, ChunkRows, Disturb
    <3>1. /\ BackgroundInv' /\ HostedInv' /\ ServedInv' /\ SnapshotInv'
         /\ UndisturbedGetIsExact'
      BY DEF IInv, VInv, BackgroundInv, HostedInv, ServedInv, SnapshotInv,
           UndisturbedGetIsExact
    <3>2. KnownInv'
      BY DEF IInv, VInv, KnownInv, Known, Landed, PutInv, BackgroundInv
    <3>3. UniformInv'
      BY DEF IInv, VInv, UniformInv, Uniform, PutInv
    <3>4. ReapInv'
      <4>1. \A s \in Seqs : \A b \in up[p][s] : b.put = p /\ ~ Landed(b.put)
        BY DEF IInv, PutInv, Landed
      <4>2. \A x \in Puts, s \in Seqs : \A b \in seen[x].reps[s] : Landed(b.put)
        BY DEF VInv, KnownInv, Known
      <4> QED
        BY <4>1, <4>2 DEF ReapInv
    <3>5. ReplicasMatchVersion'
      BY DEF IInv, VInv, ReplicasMatchVersion, PutInv
    <3> QED BY <3>1, <3>2, <3>3, <3>4, <3>5 DEF VInv
  <2>7. ASSUME NEW p \in Puts, PutObjectFails(p)
       PROVE  VInv'
    <3> USE <2>7 DEF PutObjectFails
    <3>1. /\ KnownInv' /\ UniformInv' /\ BackgroundInv' /\ HostedInv' /\ ReapInv'
      BY DEF IInv, VInv, KnownInv, UniformInv, BackgroundInv, HostedInv,
           ReapInv, Known, Landed, Uniform
    <3>2. /\ ServedInv' /\ SnapshotInv' /\ ReplicasMatchVersion'
         /\ UndisturbedGetIsExact'
      BY DEF IInv, VInv, ServedInv, SnapshotInv, ReplicasMatchVersion,
           UndisturbedGetIsExact
    <3> QED BY <3>1, <3>2 DEF VInv
  <2>8. ASSUME NEW p \in Puts, Reap(p)
       PROVE  VInv'
    <3> USE <2>8 DEF Reap, DeleteBatch
    <3>1. /\ KnownInv' /\ UniformInv' /\ BackgroundInv' /\ ReapInv'
      BY DEF IInv, VInv, KnownInv, UniformInv, BackgroundInv, ReapInv, Known,
           Landed, Uniform
    <3>2. /\ ServedInv' /\ SnapshotInv' /\ ReplicasMatchVersion'
         /\ UndisturbedGetIsExact'
      BY DEF IInv, VInv, ServedInv, SnapshotInv, ReplicasMatchVersion,
           UndisturbedGetIsExact
    <3>3. HostedInv'
      <4>1. hosted \ AllBlobs(seen[p].reps) \subseteq hosted'
        OBVIOUS
      <4>2. ASSUME NEW b \in AllBlobs(seen[p].reps)
            PROVE  Landed(b.put) /\ \A s \in Seqs : b \notin reps[s]
        <5>1. PICK t \in Seqs : b \in seen[p].reps[t]
          BY <4>2 DEF AllBlobs
        <5>2. b.seq = t /\ Landed(b.put) /\ b \notin reps[t]
          BY <5>1 DEF VInv, KnownInv, Known, ReapInv
        <5>3. \A s \in Seqs : b \in reps[s] => b.seq = s
          BY DEF VInv, KnownInv, Known
        <5> QED
          BY <5>2, <5>3
      <4>3. \A x \in Puts : pc'[x] \in {"idle", "upload", "rows", "reps", "commit"} =>
              /\ pc'[x] = pc[x]
              /\ \A s \in Seqs : \A b \in up[x][s] : b.put = x /\ ~ Landed(b.put)
        BY DEF IInv, PutInv, Landed
      <4> HIDE DEF DeleteBatch
      <4> QED
        BY <4>1, <4>2, <4>3 DEF VInv, HostedInv
    <3> QED BY <3>1, <3>2, <3>3 DEF VInv
  <2>9. ASSUME NEW p \in Puts, Cleanup(p)
       PROVE  VInv'
    <3> USE <2>9 DEF Cleanup, DeleteBatch
    <3>1. /\ KnownInv' /\ UniformInv' /\ BackgroundInv' /\ ReapInv'
      BY DEF IInv, VInv, KnownInv, UniformInv, BackgroundInv, ReapInv, Known,
           Landed, Uniform
    <3>2. /\ ServedInv' /\ SnapshotInv' /\ ReplicasMatchVersion'
         /\ UndisturbedGetIsExact'
      BY DEF IInv, VInv, ServedInv, SnapshotInv, ReplicasMatchVersion,
           UndisturbedGetIsExact
    <3>3. HostedInv'
      <4>1. hosted \ AllBlobs(up[p]) \subseteq hosted'
        OBVIOUS
      <4>2. \A b \in AllBlobs(up[p]) : b.put = p /\ ~ Landed(b.put)
        BY DEF IInv, PutInv, AllBlobs, Landed
      <4>3. \A s \in Seqs : \A b \in reps[s] : Landed(b.put)
        BY DEF VInv, KnownInv, Known
      <4>4. \A x \in Puts : pc'[x] \in {"idle", "upload", "rows", "reps", "commit"} =>
              x # p /\ pc'[x] = pc[x] /\ \A s \in Seqs : \A b \in up[x][s] : b.put = x
        BY DEF IInv, PutInv
      <4> HIDE DEF DeleteBatch
      <4> QED
        BY <4>1, <4>2, <4>3, <4>4 DEF VInv, HostedInv
    <3> QED BY <3>1, <3>2, <3>3 DEF VInv
  <2>10. ASSUME NEW d \in Dels, DelStart(d)
       PROVE  VInv'
    <3> USE <2>10 DEF DelStart, Begins
    <3>1. /\ KnownInv' /\ UniformInv' /\ BackgroundInv' /\ HostedInv' /\ ReapInv'
      BY DEF IInv, VInv, KnownInv, UniformInv, BackgroundInv, HostedInv,
           ReapInv, Known, Landed, Uniform
    <3>2. /\ ServedInv' /\ SnapshotInv' /\ ReplicasMatchVersion'
         /\ UndisturbedGetIsExact'
      BY DEF IInv, VInv, ServedInv, SnapshotInv, ReplicasMatchVersion,
           UndisturbedGetIsExact
    <3> QED BY <3>1, <3>2 DEF VInv
  <2>11. ASSUME NEW d \in Dels, Purge(d)
       PROVE  VInv'
    <3> USE <2>11 DEF Purge, DeleteBatch
    <3>1. /\ KnownInv' /\ UniformInv' /\ BackgroundInv' /\ HostedInv' /\ ReapInv'
      BY DEF IInv, VInv, KnownInv, UniformInv, BackgroundInv, HostedInv,
           ReapInv, Known, Landed, Uniform
    <3>2. /\ ServedInv' /\ SnapshotInv' /\ ReplicasMatchVersion'
         /\ UndisturbedGetIsExact'
      BY DEF IInv, VInv, ServedInv, SnapshotInv, ReplicasMatchVersion,
           UndisturbedGetIsExact
    <3> QED BY <3>1, <3>2 DEF VInv
  <2>12. ASSUME NEW d \in Dels, DeleteObject(d)
       PROVE  VInv'
    <3> USE <2>12 DEF DeleteObject, Disturb, NoReps
    <3>1. /\ KnownInv' /\ UniformInv' /\ BackgroundInv' /\ HostedInv' /\ ReapInv'
      BY DEF IInv, VInv, KnownInv, UniformInv, BackgroundInv, HostedInv,
           ReapInv, Known, Landed, Uniform
    <3>2. /\ ServedInv' /\ SnapshotInv' /\ ReplicasMatchVersion'
         /\ UndisturbedGetIsExact'
      BY DEF IInv, VInv, ServedInv, SnapshotInv, ReplicasMatchVersion,
           UndisturbedGetIsExact
    <3> QED BY <3>1, <3>2 DEF VInv
  <2>13. ASSUME NEW d \in Dels, DeleteObjectFails(d)
       PROVE  VInv'
    <3> USE <2>13 DEF DeleteObjectFails
    <3>1. /\ KnownInv' /\ UniformInv' /\ BackgroundInv' /\ HostedInv' /\ ReapInv'
      BY DEF IInv, VInv, KnownInv, UniformInv, BackgroundInv, HostedInv,
           ReapInv, Known, Landed, Uniform
    <3>2. /\ ServedInv' /\ SnapshotInv' /\ ReplicasMatchVersion'
         /\ UndisturbedGetIsExact'
      BY DEF IInv, VInv, ServedInv, SnapshotInv, ReplicasMatchVersion,
           UndisturbedGetIsExact
    <3> QED BY <3>1, <3>2 DEF VInv
  <2>14. ASSUME NEW g \in Gets, GetStart(g)
       PROVE  VInv'
    <3> USE <2>14 DEF GetStart, Begins
    <3>1. /\ KnownInv' /\ UniformInv' /\ BackgroundInv' /\ HostedInv' /\ ReapInv'
      BY DEF IInv, VInv, KnownInv, UniformInv, BackgroundInv, HostedInv,
           ReapInv, Known, Landed, Uniform
    <3>2. /\ ServedInv' /\ SnapshotInv' /\ ReplicasMatchVersion'
         /\ UndisturbedGetIsExact'
      BY DEF IInv, VInv, ServedInv, SnapshotInv, ReplicasMatchVersion,
           UndisturbedGetIsExact
    <3> QED BY <3>1, <3>2 DEF VInv
  <2>15. ASSUME NEW g \in Gets, StreamChunk(g)
       PROVE  VInv'
    <3> USE <2>15 DEF StreamChunk, Locations
    <3>a. /\ pc[g] = "stream" /\ seen[g].obj \in Puts /\ cur[g] \in Nat
          /\ cur[g] + 1 \in Seqs /\ cur[g] + 1 \in 1..Chunks[seen[g].obj]
      BY SeqFacts DEF IInv, GetInv
    <3>b. \/ \E b \in seen[g].reps[cur[g] + 1] :
               /\ served' = [served EXCEPT ![g] = Append(served[g], Content[b.put])]
               /\ cur' = [cur EXCEPT ![g] = cur[g] + 1]
               /\ UNCHANGED pc
          \/ /\ seen[g].reps[cur[g] + 1] \cap hosted = {}
             /\ pc' = [pc EXCEPT ![g] = "failed"]
             /\ UNCHANGED <<served, cur>>
      OBVIOUS
    <3>c. UNCHANGED <<storeVars, hosted, seen, up, fix, envVars>>
      OBVIOUS
    <3> HIDE DEF StreamChunk
    <3>d. /\ \A x \in Procs \ {g} : pc'[x] = pc[x] /\ cur'[x] = cur[x]
          /\ \A x \in Puts : pc'[x] = pc[x] /\ cur'[x] = cur[x]
      BY <3>b DEF IInv
    <3>e. ASSUME pc'[g] # "failed"
          PROVE  \E b \in seen[g].reps[cur[g] + 1] :
                   /\ served' = [served EXCEPT ![g] = Append(served[g], Content[b.put])]
                   /\ cur'[g] = cur[g] + 1 /\ pc' = pc
      BY <3>b, <3>e DEF IInv
    <3>f. served \in [Gets -> Seq(Contents)] /\ served[g] \in Seq(Contents) /\ Len(served[g]) = cur[g]
      BY DEF VInv, ServedInv
    <3>g. ASSUME NEW b \in seen[g].reps[cur[g] + 1],
                 served' = [served EXCEPT ![g] = Append(served[g], Content[b.put])]
          PROVE  /\ served' \in [Gets -> Seq(Contents)] /\ Len(served'[g]) = cur[g] + 1
                 /\ \A i \in 1..cur[g] : served'[g][i] = served[g][i]
                 /\ served'[g][cur[g] + 1] = Content[b.put]
      <4>1. Content[b.put] \in Contents
        BY <3>a, BlobFacts DEF IInv, Contents
      <4>2. /\ Append(served[g], Content[b.put]) \in Seq(Contents)
            /\ Len(Append(served[g], Content[b.put])) = cur[g] + 1
            /\ \A i \in 1..cur[g] : Append(served[g], Content[b.put])[i] = served[g][i]
            /\ Append(served[g], Content[b.put])[cur[g] + 1] = Content[b.put]
        BY <3>a, <3>f, <4>1
      <4>3. served'[g] = Append(served[g], Content[b.put])
        BY <3>f, <3>g
      <4> QED
        BY <3>f, <3>g, <4>2, <4>3
    <3>h. \A x \in Gets \ {g} : served'[x] = served[x]
      BY <3>b, <3>f
    <3>1. KnownInv'
      <4>1. \A b \in Blobs : Landed(b.put)' <=> Landed(b.put)
        BY <3>d, BlobFacts DEF Landed
      <4> QED
        BY <3>c, <4>1 DEF IInv, VInv, KnownInv, Known
    <3>2. UniformInv'
      BY <3>c, <3>d DEF IInv, VInv, UniformInv, Uniform
    <3>3. BackgroundInv'
      <4>1. \A b \in background : b.put \in Puts
        BY BlobFacts DEF IInv
      <4>2. \A p \in persist : p \in Puts
        BY DEF IInv
      <4> QED
        BY <3>c, <3>d, <4>1, <4>2 DEF VInv, BackgroundInv
    <3>4. HostedInv'
      BY <3>c, <3>d DEF IInv, VInv, HostedInv
    <3>5. ReapInv'
      BY <3>c, <3>d DEF IInv, VInv, ReapInv
    <3>6. ServedInv'
      <4> DEFINE From(x, i) == \E s \in Seqs : \E b \in seen[x].reps[s] : served'[x][i] = Content[b.put]
      <4>1. \A x \in Gets \ {g} :
              /\ Len(served'[x]) = cur'[x]
              /\ pc'[x] \in {"idle", "rows", "reps"} => cur'[x] = 0
              /\ \A i \in 1..cur'[x] : From(x, i)
        BY <3>d, <3>h DEF VInv, ServedInv
      <4>2. ASSUME pc'[g] = "failed"
            PROVE  /\ Len(served'[g]) = cur'[g]
                   /\ pc'[g] \in {"idle", "rows", "reps"} => cur'[g] = 0
                   /\ \A i \in 1..cur'[g] : From(g, i)
        <5>1. pc' = [pc EXCEPT ![g] = "failed"] /\ UNCHANGED <<served, cur>>
          BY <3>a, <3>b, <4>2
        <5>2. \A i \in 1..cur[g] : From(g, i)
          BY <5>1 DEF VInv, ServedInv
        <5> QED
          BY <3>f, <4>1, <4>2, <5>1, <5>2
      <4>3. ASSUME pc'[g] # "failed"
            PROVE  /\ Len(served'[g]) = cur'[g]
                   /\ pc'[g] \in {"idle", "rows", "reps"} => cur'[g] = 0
                   /\ \A i \in 1..cur'[g] : From(g, i)
        <5>1. PICK b \in seen[g].reps[cur[g] + 1] :
                /\ served' = [served EXCEPT ![g] = Append(served[g], Content[b.put])]
                /\ cur'[g] = cur[g] + 1 /\ pc' = pc
          BY <3>e, <4>3
        <5>2. ASSUME NEW i \in 1..(cur[g] + 1)
              PROVE  From(g, i)
          <6>1. CASE i = cur[g] + 1
            <7>1. served'[g][cur[g] + 1] = Content[b.put]
              BY <3>g, <5>1
            <7> QED
              BY <3>a, <5>1, <6>1, <7>1
          <6>2. CASE i # cur[g] + 1
            <7>1. i \in 1..cur[g]
              BY <3>a, <6>2
            <7>2. \E s \in Seqs : \E c \in seen[g].reps[s] : served[g][i] = Content[c.put]
              BY <7>1 DEF VInv, ServedInv
            <7> QED
              BY <3>g, <5>1, <7>1, <7>2
          <6> QED
            BY <6>1, <6>2
        <5> QED
          BY <3>a, <3>g, <5>1, <5>2
      <4>4. served' \in [Gets -> Seq(Contents)]
        BY <3>b, <3>f, <3>g
      <4>5. \A x \in Gets :
              /\ Len(served'[x]) = cur'[x]
              /\ pc'[x] \in {"idle", "rows", "reps"} => cur'[x] = 0
              /\ \A i \in 1..cur'[x] : From(x, i)
        <5> HIDE DEF From
        <5> QED
          BY <4>1, <4>2, <4>3
      <4> QED
        BY <3>c, <4>4, <4>5 DEF ServedInv
    <3>7. SnapshotInv'
      <4>1. \A x \in Gets \ {g} : served'[x] = served[x] /\ pc'[x] = pc[x] /\ cur'[x] = cur[x]
        BY <3>d, <3>h
      <4>2. ASSUME g \notin disturbed, pc'[g] = "stream"
            PROVE  \A i \in 1..cur'[g] : served'[g][i] = Content[seen[g].obj]
        <5>1. PICK b \in seen[g].reps[cur[g] + 1] :
                /\ served' = [served EXCEPT ![g] = Append(served[g], Content[b.put])]
                /\ cur'[g] = cur[g] + 1 /\ pc' = pc
          BY <3>e, <4>2
        <5>2. seen[g].obj = obj /\ cur[g] + 1 \in rows /\ obj # None
          BY <3>a, <4>2 DEF IInv, ChunkMapComplete, VInv, SnapshotInv, GetInv
        <5>3. b \in reps[cur[g] + 1]
          BY <3>a, <4>2, <5>1, <5>2 DEF VInv, SnapshotInv
        <5>4. Content[b.put] = Content[obj]
          BY <3>a, <5>2, <5>3 DEF VInv, ReplicasMatchVersion
        <5>5. \A i \in 1..cur[g] : served[g][i] = Content[seen[g].obj]
          BY <3>a, <4>2 DEF VInv, SnapshotInv
        <5>6. \A i \in 1..(cur[g] + 1) : i \in 1..cur[g] \/ i = cur[g] + 1
          BY <3>a
        <5> QED
          BY <3>g, <5>1, <5>2, <5>4, <5>5, <5>6
      <4>3. pc'[g] \in {"stream", "failed"}
        BY <3>a, <3>b DEF IInv
      <4> QED
        BY <3>a, <3>c, <4>1, <4>2, <4>3 DEF VInv, SnapshotInv
    <3>8. ReplicasMatchVersion'
      BY <3>c, <3>d DEF IInv, VInv, ReplicasMatchVersion
    <3>9. UndisturbedGetIsExact'
      <4>1. \A x \in Gets \ {g} : served'[x] = served[x] /\ pc'[x] = pc[x]
        BY <3>d, <3>h
      <4>2. ASSUME g \notin disturbed, pc'[g] = "failed"
            PROVE  \E s \in seen[g].rows : seen[g].reps[s] \subseteq forsaken
        <5>1. seen[g].reps[cur[g] + 1] \cap hosted = {}
          BY <3>a, <3>b, <4>2
        <5>2. seen[g].obj = obj /\ cur[g] + 1 \in rows /\ seen[g].rows = rows
          BY <3>a, <4>2 DEF IInv, ChunkMapComplete, VInv, SnapshotInv, GetInv
        <5>3. seen[g].reps[cur[g] + 1] \subseteq hosted \cup forsaken
          BY <3>a, <4>2, <5>2 DEF VInv, SnapshotInv, HostedInv
        <5> QED
          BY <5>1, <5>2, <5>3
      <4>3. pc'[g] \in {"stream", "failed"}
        BY <3>a, <3>b DEF IInv
      <4> QED
        BY <3>c, <4>1, <4>2, <4>3 DEF VInv, UndisturbedGetIsExact
    <3> QED BY <3>1, <3>2, <3>3, <3>4, <3>5, <3>6, <3>7, <3>8, <3>9 DEF VInv
  <2>16. ASSUME NEW g \in Gets, StreamEnd(g)
       PROVE  VInv'
    <3> USE <2>16 DEF StreamEnd
    <3>1. /\ KnownInv' /\ UniformInv' /\ BackgroundInv' /\ HostedInv'
      BY DEF IInv, VInv, KnownInv, UniformInv, BackgroundInv, HostedInv,
           Known, Landed, Uniform
    <3>2. /\ ReapInv' /\ ServedInv' /\ SnapshotInv' /\ ReplicasMatchVersion'
      BY DEF IInv, VInv, ReapInv, ServedInv, SnapshotInv, ReplicasMatchVersion
    <3>3. UndisturbedGetIsExact'
      BY BlobFacts DEF VInv, UndisturbedGetIsExact, ServedInv, SnapshotInv
    <3> QED BY <3>1, <3>2, <3>3 DEF VInv
  <2>17. ASSUME NEW x \in BucketDels, BucketDelStart(x)
       PROVE  VInv'
    <3> USE <2>17 DEF BucketDelStart, Begins
    <3>1. /\ KnownInv' /\ UniformInv' /\ BackgroundInv' /\ HostedInv' /\ ReapInv'
      BY DEF IInv, VInv, KnownInv, UniformInv, BackgroundInv, HostedInv,
           ReapInv, Known, Landed, Uniform
    <3>2. /\ ServedInv' /\ SnapshotInv' /\ ReplicasMatchVersion'
         /\ UndisturbedGetIsExact'
      BY DEF IInv, VInv, ServedInv, SnapshotInv, ReplicasMatchVersion,
           UndisturbedGetIsExact
    <3> QED BY <3>1, <3>2 DEF VInv
  <2>18. ASSUME NEW x \in BucketDels, DeleteBucket(x)
       PROVE  VInv'
    <3> USE <2>18 DEF DeleteBucket, Disturb
    <3>1. /\ KnownInv' /\ UniformInv' /\ BackgroundInv' /\ HostedInv' /\ ReapInv'
      BY DEF IInv, VInv, KnownInv, UniformInv, BackgroundInv, HostedInv,
           ReapInv, Known, Landed, Uniform
    <3>2. /\ ServedInv' /\ SnapshotInv' /\ ReplicasMatchVersion'
         /\ UndisturbedGetIsExact'
      BY DEF IInv, VInv, ServedInv, SnapshotInv, ReplicasMatchVersion,
           UndisturbedGetIsExact
    <3> QED BY <3>1, <3>2 DEF VInv
  <2>19. ASSUME NEW x \in BucketDels, DeleteBucketFails(x)
       PROVE  VInv'
    <3> USE <2>19 DEF DeleteBucketFails
    <3>1. /\ KnownInv' /\ UniformInv' /\ BackgroundInv' /\ HostedInv' /\ ReapInv'
      BY DEF IInv, VInv, KnownInv, UniformInv, BackgroundInv, HostedInv,
           ReapInv, Known, Landed, Uniform
    <3>2. /\ ServedInv' /\ SnapshotInv' /\ ReplicasMatchVersion'
         /\ UndisturbedGetIsExact'
      BY DEF IInv, VInv, ServedInv, SnapshotInv, ReplicasMatchVersion,
           UndisturbedGetIsExact
    <3> QED BY <3>1, <3>2 DEF VInv
  <2>20. ASSUME NEW q \in Procs, ReadRows(q)
       PROVE  VInv'
    <3> USE <2>20 DEF ReadRows, After
    <3>a. seen \in [Procs -> Snapshots]
      BY DEF IInv, Snapshots
    <3>b. /\ seen'[q].rows = rows
          /\ seen'[q].obj = seen[q].obj /\ seen'[q].reps = seen[q].reps
          /\ \A x \in Procs \ {q} : seen'[x] = seen[x] /\ pc'[x] = pc[x]
      BY <3>a, SnapshotFacts DEF IInv
    <3>1. /\ HostedInv' /\ ReapInv' /\ ServedInv' /\ ReplicasMatchVersion'
      BY DEF IInv, VInv, HostedInv, ReapInv, ServedInv, ReplicasMatchVersion
    <3>2. KnownInv'
      BY DEF IInv, VInv, KnownInv, Known, Landed
    <3>3. UniformInv'
      BY DEF IInv, VInv, UniformInv, Uniform
    <3>4. BackgroundInv'
      BY DEF IInv, VInv, BackgroundInv
    <3>5. SnapshotInv'
      <4>1. \A x \in Gets \ {q} : seen'[x] = seen[x] /\ pc'[x] = pc[x]
        BY <3>b
      <4>2. q \in Gets => pc'[q] = IF rows = {} THEN "stream" ELSE "reps"
        BY DEF IInv
      <4>3. q \in Gets => cur[q] = 0
        BY DEF VInv, ServedInv
      <4>4. pc[q] = "rows" /\ UNCHANGED <<storeVars, cur, served, disturbed>>
        OBVIOUS
      <4> HIDE DEF ReadRows, After
      <4> QED
        BY <3>b, <4>1, <4>2, <4>3, <4>4 DEF VInv, SnapshotInv
    <3>6. UndisturbedGetIsExact'
      BY DEF VInv, UndisturbedGetIsExact, ServedInv
    <3> QED BY <3>1, <3>2, <3>3, <3>4, <3>5, <3>6 DEF VInv
  <2>21. ASSUME NEW q \in Procs, ReadReps(q)
       PROVE  VInv'
    <3> USE <2>21 DEF ReadReps, After
    <3> DEFINE m == [s \in Seqs |-> IF s \in seen[q].rows THEN reps[s] ELSE {}]
    <3>a. seen \in [Procs -> Snapshots] /\ m \in [Seqs -> SUBSET Blobs]
      BY DEF IInv, Snapshots
    <3>b. /\ seen'[q].reps = m /\ seen'[q].obj = seen[q].obj /\ seen'[q].rows = seen[q].rows
          /\ \A x \in Procs \ {q} : seen'[x] = seen[x] /\ pc'[x] = pc[x]
      <4>1. seen' = [seen EXCEPT ![q] = [seen[q] EXCEPT !.reps = m]]
        OBVIOUS
      <4> HIDE DEF m
      <4> QED
        BY <3>a, <4>1, SnapshotFacts DEF IInv
    <3>1. /\ KnownInv' /\ UniformInv' /\ BackgroundInv' /\ HostedInv'
      BY DEF IInv, VInv, KnownInv, UniformInv, BackgroundInv, HostedInv,
           Known, Landed, Uniform
    <3>2. ReapInv'
      BY DEF IInv, VInv, ReapInv
    <3>3. ServedInv'
      BY DEF IInv, VInv, ServedInv
    <3>4. SnapshotInv'
      <4>1. \A x \in Gets \ {q} : seen'[x] = seen[x] /\ pc'[x] = pc[x]
        BY <3>b
      <4>2. q \in Gets => pc'[q] = "stream" /\ cur[q] = 0
        BY DEF IInv, VInv, ServedInv
      <4>3. pc[q] = "reps" /\ UNCHANGED <<storeVars, cur, served, disturbed>>
        OBVIOUS
      <4> HIDE DEF ReadReps, After
      <4>4. ASSUME q \in Gets \ disturbed
            PROVE  \A s \in rows : seen'[q].reps[s] = reps[s] /\ reps[s] # {}
        BY <3>b, <4>3, <4>4 DEF IInv, VInv, SnapshotInv, ChunkMapComplete, GetInv
      <4> QED
        BY <3>b, <4>1, <4>2, <4>3, <4>4, SMTT(30) DEF VInv, SnapshotInv
    <3>5. ReplicasMatchVersion'
      BY DEF IInv, VInv, ReplicasMatchVersion
    <3>6. UndisturbedGetIsExact'
      BY DEF IInv, VInv, UndisturbedGetIsExact, ServedInv
    <3> QED BY <3>1, <3>2, <3>3, <3>4, <3>5, <3>6 DEF VInv
  <2>22. ASSUME NEW q \in Procs, ReadFails(q)
       PROVE  VInv'
    <3> USE <2>22 DEF ReadFails
    <3>1. /\ KnownInv' /\ UniformInv' /\ BackgroundInv' /\ HostedInv' /\ ReapInv'
      BY DEF IInv, VInv, KnownInv, UniformInv, BackgroundInv, HostedInv,
           ReapInv, Known, Landed, Uniform
    <3>2. /\ ServedInv' /\ SnapshotInv' /\ ReplicasMatchVersion'
         /\ UndisturbedGetIsExact'
      BY DEF IInv, VInv, ServedInv, SnapshotInv, ReplicasMatchVersion,
           UndisturbedGetIsExact
    <3> QED BY <3>1, <3>2 DEF VInv
  <2>23. ASSUME NEW q \in Procs, StartFails(q)
       PROVE  VInv'
    <3> USE <2>23 DEF StartFails, Begins
    <3>1. /\ KnownInv' /\ UniformInv' /\ BackgroundInv' /\ HostedInv' /\ ReapInv'
      BY DEF IInv, VInv, KnownInv, UniformInv, BackgroundInv, HostedInv,
           ReapInv, Known, Landed, Uniform
    <3>2. /\ ServedInv' /\ SnapshotInv' /\ ReplicasMatchVersion'
         /\ UndisturbedGetIsExact'
      BY DEF IInv, VInv, ServedInv, SnapshotInv, ReplicasMatchVersion,
           UndisturbedGetIsExact
    <3> QED BY <3>1, <3>2 DEF VInv
  <2>24. ASSUME NEW q \in Requests, Disconnect(q)
       PROVE  VInv'
    <3> USE <2>24 DEF Disconnect
    <3>1. /\ KnownInv' /\ UniformInv' /\ BackgroundInv' /\ HostedInv' /\ ReapInv'
      BY DEF IInv, VInv, KnownInv, UniformInv, BackgroundInv, HostedInv,
           ReapInv, Known, Landed, Uniform
    <3>2. /\ ServedInv' /\ SnapshotInv' /\ ReplicasMatchVersion'
         /\ UndisturbedGetIsExact'
      BY DEF IInv, VInv, ServedInv, SnapshotInv, ReplicasMatchVersion,
           UndisturbedGetIsExact
    <3> QED BY <3>1, <3>2 DEF VInv
  <2>25. ASSUME NEW b \in background, PersistExtra(b)
       PROVE  VInv'
    <3> USE <2>25 DEF PersistExtra, AppendChunkReplica
    <3>a. b \in Blobs /\ b.put \in Puts /\ b.seq \in Seqs
      BY BlobFacts DEF IInv
    <3>b. \/ UNCHANGED reps
          \/ /\ b.put \in persist /\ obj # None /\ Content[obj] = Content[b.put]
             /\ reps' = [reps EXCEPT ![b.seq] = reps[b.seq] \cup {b}]
      OBVIOUS
    <3>c. \A s \in Seqs : reps'[s] = reps[s] \/ (b.put \in persist /\ s = b.seq /\ reps'[s] = reps[s] \cup {b})
      BY <3>a, <3>b DEF IInv
    <3>d. background' = background \ {b} /\ hosted' = hosted \cup {b}
          /\ UNCHANGED <<bucket, obj, rows, pc, procVars, persist, gone, forsaken, disturbed>>
      OBVIOUS
    <3>1. KnownInv'
      <4> HIDE DEF PersistExtra
      <4>1. b.put \in persist => Landed(b.put)
        BY DEF VInv, BackgroundInv, Landed
      <4>2. Known(reps)'
        BY <3>c, <3>d, <4>1 DEF VInv, KnownInv, Known, Landed
      <4> QED
        BY <3>d, <4>2 DEF VInv, KnownInv, Known, Landed
    <3>2. UniformInv'
      <4> HIDE DEF PersistExtra
      <4>1. UNCHANGED reps \/ \A s \in Seqs : \A a \in reps'[s] : Content[a.put] = Content[obj]
        BY <3>b, <3>c DEF VInv, ReplicasMatchVersion
      <4>2. Uniform(reps)'
        BY <4>1 DEF VInv, UniformInv, Uniform
      <4> QED
        BY <3>d, <4>2 DEF VInv, UniformInv, Uniform
    <3>3. BackgroundInv'
      BY DEF IInv, VInv, BackgroundInv
    <3>4. HostedInv'
      <4> HIDE DEF PersistExtra
      <4> QED
        BY <3>c, <3>d DEF VInv, HostedInv
    <3>5. ReapInv'
      <4> HIDE DEF PersistExtra
      <4>1. \A x \in Puts, s \in Seqs : b \notin seen[x].reps[s]
        BY DEF VInv, KnownInv, Known
      <4> QED
        BY <3>c, <3>d, <4>1 DEF VInv, ReapInv
    <3>6. ServedInv'
      BY DEF IInv, VInv, ServedInv
    <3>7. SnapshotInv'
      BY BlobFacts DEF IInv, VInv, SnapshotInv, KnownInv, Known
    <3>8. ReplicasMatchVersion'
      BY DEF IInv, VInv, ReplicasMatchVersion
    <3>9. UndisturbedGetIsExact'
      BY DEF IInv, VInv, UndisturbedGetIsExact
    <3> QED BY <3>1, <3>2, <3>3, <3>4, <3>5, <3>6, <3>7, <3>8, <3>9 DEF VInv
  <2>26. ASSUME NEW b \in hosted, Expire(b)
       PROVE  VInv'
    <3> USE <2>26 DEF Expire
    <3>1. /\ KnownInv' /\ UniformInv' /\ BackgroundInv' /\ HostedInv' /\ ReapInv'
      BY DEF IInv, VInv, KnownInv, UniformInv, BackgroundInv, HostedInv,
           ReapInv, Known, Landed, Uniform
    <3>2. /\ ServedInv' /\ SnapshotInv' /\ ReplicasMatchVersion'
         /\ UndisturbedGetIsExact'
      BY DEF IInv, VInv, ServedInv, SnapshotInv, ReplicasMatchVersion,
           UndisturbedGetIsExact
    <3> QED BY <3>1, <3>2 DEF VInv
  <2>27. ASSUME CreateBucket
       PROVE  VInv'
    <3> USE <2>27 DEF CreateBucket
    <3>1. /\ KnownInv' /\ UniformInv' /\ BackgroundInv' /\ HostedInv' /\ ReapInv'
      BY DEF IInv, VInv, KnownInv, UniformInv, BackgroundInv, HostedInv,
           ReapInv, Known, Landed, Uniform
    <3>2. /\ ServedInv' /\ SnapshotInv' /\ ReplicasMatchVersion'
         /\ UndisturbedGetIsExact'
      BY DEF IInv, VInv, ServedInv, SnapshotInv, ReplicasMatchVersion,
           UndisturbedGetIsExact
    <3> QED BY <3>1, <3>2 DEF VInv
  <2>28. ASSUME Crash
       PROVE  VInv'
    <3> USE <2>28 DEF Crash
    <3>1. /\ UniformInv' /\ BackgroundInv' /\ HostedInv' /\ ReapInv'
      BY DEF IInv, VInv, UniformInv, BackgroundInv, HostedInv, ReapInv,
           Uniform
    <3>2. /\ ServedInv' /\ SnapshotInv' /\ ReplicasMatchVersion'
         /\ UndisturbedGetIsExact'
      BY DEF IInv, VInv, ServedInv, SnapshotInv, ReplicasMatchVersion,
           UndisturbedGetIsExact
    <3>3. KnownInv'
      BY BlobFacts DEF IInv, VInv, KnownInv, Known, Landed
    <3> QED BY <3>1, <3>2, <3>3 DEF VInv
  <2>29. ASSUME UNCHANGED vars
       PROVE  VInv'
    BY <2>29 DEF vars, VInv, KnownInv, UniformInv, BackgroundInv, HostedInv,
     ReapInv, ServedInv, SnapshotInv, ReplicasMatchVersion,
     UndisturbedGetIsExact, Known, Landed, Uniform, UndisturbedGetIsExact
  <2>30. QED
    BY <2>1, <2>2, <2>3, <2>4, <2>5, <2>6, <2>7, <2>8, <2>9,
       <2>10, <2>11, <2>12, <2>13, <2>14, <2>15, <2>16, <2>17, <2>18, <2>19,
       <2>20, <2>21, <2>22, <2>23, <2>24, <2>25, <2>26, <2>27, <2>28, <2>29
    DEF Next, PutStep, DelStep, GetStep, BucketDelStep, SweepStep, ReadStep
<1>3. QED
  BY <1>1, <1>2, Invariance, PTL DEF Spec

-----------------------------------------------------------------------------
(* Every variable keeps its type. *)
THEOREM TypeCorrect == Spec => []TypeOK
  BY Invariance, PTL DEF IInv

(* No mix of PUTs, late replicas and sweeps gives a chunk two replicas on one
   provider: appending checks the rows, refilling avoids the survivors'. *)
THEOREM ProvidersDistinct == Spec => []DistinctProviders
  BY Invariance, PTL DEF IInv

(* A committed object has all its chunk rows, each with a replica: a body cut
   short is never committed, and a sweep never empties a chunk. *)
THEOREM MapComplete == Spec => []ChunkMapComplete
  BY Invariance, PTL DEF IInv

(* Without sweeps, a replica row always holds the bytes of the object row's
   version: a late replica cannot attach to another version's chunk. *)
THEOREM VersionsMatch == ASSUME Sweeps = {} PROVE Spec => []ReplicasMatchVersion
  BY VersionInvariance, PTL DEF VInv

(* Without sweeps, no reap or clean-up of the gateway destroys a blob that the
   current object refers to. *)
THEOREM NoneDangling == ASSUME Sweeps = {} PROVE Spec => []NoDanglingReplica
<1>1. VInv => NoDanglingReplica
  BY DEF VInv, HostedInv, NoDanglingReplica, AllBlobs
<1> QED
  BY <1>1, VersionInvariance, PTL

(* Without sweeps, every chunk of a response is of the same content, whatever
   commits between the queries and the downloads of the GET. *)
THEOREM GetsNeverMix == ASSUME Sweeps = {} PROVE Spec => []GetNeverMixes
<1>1. IInv /\ VInv => GetNeverMixes
  <2> SUFFICES ASSUME IInv, VInv, NEW g \in Gets,
                      NEW i \in 1..Len(served[g]), NEW j \in 1..Len(served[g])
               PROVE  served[g][i] = served[g][j]
    BY DEF GetNeverMixes
  <2>1. i \in 1..cur[g] /\ j \in 1..cur[g]
    BY DEF VInv, ServedInv
  <2>2. PICK s \in Seqs : \E a \in seen[g].reps[s] : served[g][i] = Content[a.put]
    BY <2>1 DEF VInv, ServedInv
  <2>3. PICK t \in Seqs : \E b \in seen[g].reps[t] : served[g][j] = Content[b.put]
    BY <2>1 DEF VInv, ServedInv
  <2>4. Uniform(seen[g].reps)
    BY DEF VInv, UniformInv, Procs, Requests
  <2> QED
    BY <2>2, <2>3, <2>4 DEF Uniform
<1> QED
  BY <1>1, Invariance, VersionInvariance, PTL

(* Without sweeps, a GET that no write overlaps sends the committed version, or
   fails because some chunk's replicas are all gone from their hosts. *)
THEOREM GetExact == ASSUME Sweeps = {} PROVE Spec => []UndisturbedGetIsExact
  BY VersionInvariance, PTL DEF VInv

=============================================================================
