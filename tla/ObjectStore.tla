----------------------------- MODULE ObjectStore -----------------------------
(***************************************************************************)
(* The gateway on one key of one bucket: the request handlers of           *)
(* internal/s3api (PUT, copy, GET, DELETE, DeleteBucket, CreateBucket), the*)
(* self-heal sweep of internal/keepalive and the late replicas of          *)
(* internal/storage/freehost, sharing the SQLite rows of internal/metadata *)
(* and the blobs on the free hosts.                                        *)
(*                                                                         *)
(* One action is one store transaction, one store query, one chunk upload  *)
(* or one batch of host calls; requests interleave between them.  The      *)
(* store's write transactions are serial (one writer connection); reads    *)
(* are single queries on other connections, and GetObjectChunks makes two. *)
(*                                                                         *)
(* A version of the object is named by the PUT that wrote it; its ETag is  *)
(* the PUT's content, so two PUTs of equal content have equal ETags.  A    *)
(* chunk upload is used by its promise (ChunkReplication, implemented by   *)
(* ChunkUpload): at most SyncN replicas with the answer, up to R in all.   *)
(* Every content is a whole number of chunks.                              *)
(***************************************************************************)
EXTENDS Naturals, FiniteSets, Sequences

CONSTANTS
  Puts, Dels, Gets, BucketDels, Sweeps,   \* the requests and sweep passes
  Copies,      \* the PUTs with x-amz-copy-source: uploaded synchronously
  Content,     \* the content each PUT uploads
  Chunks,      \* the number of chunks of each PUT's content
  MaxChunks,   \* bound on the number of chunks
  Providers,   \* enabled providers
  R, SyncN,    \* replicas wanted, and confirmed before uploadChunk returns
  Faults,      \* the environment failures that may happen
  Serial,      \* TRUE: a request starts only when nothing else is going on
  None         \* no object row

Requests == Puts \cup Dels \cup Gets \cup BucketDels
Procs == Requests \cup Sweeps
Seqs == 1..MaxChunks

ASSUME StoreAssumption ==
  /\ Copies \subseteq Puts
  /\ Chunks \in [Puts -> 0..MaxChunks]
  /\ \A p, q \in Puts : Content[p] = Content[q] => Chunks[p] = Chunks[q]
  /\ MaxChunks \in Nat /\ R \in Nat \ {0} /\ SyncN \in 1..R
  /\ Faults \subseteq {"upload", "body", "delete", "expire", "verify", "store",
                       "disconnect", "crash"}
  /\ Serial \in BOOLEAN
  /\ None \notin Puts
  /\ Puts \cap (Dels \cup Gets \cup BucketDels \cup Sweeps) = {}
  /\ Dels \cap (Gets \cup BucketDels \cup Sweeps) = {}
  /\ Gets \cap (BucketDels \cup Sweeps) = {} /\ BucketDels \cap Sweeps = {}

ASSUME ProviderAssumption == IsFiniteSet(Providers)

(* A blob on a host: chunk seq of PUT put's content, uploaded by that PUT or
   by a sweep.  Hosts hand out a fresh locator per upload. *)
Blobs == [put : Puts, seq : Seqs, prov : Providers, by : Puts \cup Sweeps]

VARIABLES
  bucket,      \* the buckets row exists
  obj,         \* the objects row: the PUT that wrote it, or None
  rows,        \* the object_chunks rows: their part_seq
  reps,        \* the chunk_replicas rows of each part_seq
  hosted,      \* blobs on the hosts
  pc,          \* control state of each request and sweep
  cur,         \* chunks uploaded, served or checked so far
  seen,        \* what each process read from the store
  up,          \* the chunks each PUT uploaded, with their replicas
  fix,         \* the replica set a sweep is about to write back
  background,  \* uploads still running after their PUT got its answer
  persist,     \* PUTs that set persistExtras
  gone,        \* requests whose client disconnected (context cancelled)
  served,      \* the contents of the chunks each GET sent
  forsaken,    \* history: blobs a DELETE targeted or a host dropped
  disturbed    \* history: GETs during which the store was written

storeVars == <<bucket, obj, rows, reps>>
procVars == <<cur, seen, up, fix, served>>
envVars == <<background, persist, gone, forsaken, disturbed>>
vars == <<storeVars, hosted, pc, procVars, envVars>>

NoReps == [s \in Seqs |-> {}]
AllBlobs(m) == UNION {m[s] : s \in Seqs}

(* "refused" is a store error (500), "failed" any other error answer. *)
Final == {"done", "failed", "refused", "notfound", "crashed"}
Active(q) == pc[q] \notin Final \cup {"idle"}

(* A process may begin. *)
Begins(q) ==
  /\ pc[q] = "idle"
  /\ Serial => background = {} /\ \A x \in Procs : ~ Active(x)

Goto(q, l) == pc' = [pc EXCEPT ![q] = l]

(* Any store call fails once the request's context is cancelled. *)
StoreCallFails(q) == q \in gone \/ "store" \in Faults

(* A write to the key's rows is seen by the GETs in progress. *)
Disturb == disturbed' = disturbed \cup {g \in Gets : Active(g)}

Init ==
  /\ bucket = TRUE /\ obj = None /\ rows = {} /\ reps = NoReps
  /\ hosted = {}
  /\ pc = [q \in Procs |-> "idle"]
  /\ cur = [q \in Procs |-> 0]
  /\ seen = [q \in Procs |-> [obj |-> None, rows |-> {}, reps |-> NoReps]]
  /\ up = [p \in Puts |-> NoReps]
  /\ fix = [s \in Sweeps |-> {}]
  /\ background = {} /\ persist = {} /\ gone = {}
  /\ served = [g \in Gets |-> << >>]
  /\ forsaken = {} /\ disturbed = {}

-----------------------------------------------------------------------------
(* GetObjectChunks: two queries on the read connections. *)

After(q) == CASE q \in Puts -> "commit"
              [] q \in Dels -> "purge"
              [] q \in Gets -> "stream"
              [] q \in Sweeps -> "repair"

ReadRows(q) ==
  /\ pc[q] = "rows" /\ q \notin gone
  /\ seen' = [seen EXCEPT ![q].rows = rows]
  /\ Goto(q, IF rows = {} THEN After(q) ELSE "reps")
  /\ UNCHANGED <<storeVars, hosted, cur, up, fix, served, envVars>>

ReadReps(q) ==
  /\ pc[q] = "reps" /\ q \notin gone
  /\ seen' = [seen EXCEPT ![q].reps =
                [s \in Seqs |-> IF s \in seen[q].rows THEN reps[s] ELSE {}]]
  /\ Goto(q, After(q))
  /\ UNCHANGED <<storeVars, hosted, cur, up, fix, served, envVars>>

(* A query fails.  A PUT ignores the error and goes on with no old chunks; a
   sweep skips the object; the others answer 500. *)
ReadFails(q) ==
  /\ pc[q] \in {"rows", "reps"}
  /\ StoreCallFails(q)
  /\ seen' = [seen EXCEPT ![q].rows = {}]
  /\ Goto(q, CASE q \in Puts -> "commit" [] q \in Sweeps -> "done" [] OTHER -> "refused")
  /\ UNCHANGED <<storeVars, hosted, cur, up, fix, served, envVars>>

(* A request's first query fails: 500, nothing done. *)
StartFails(q) ==
  /\ Begins(q) /\ q \in Requests
  /\ StoreCallFails(q)
  /\ Goto(q, "refused")
  /\ UNCHANGED <<storeVars, hosted, procVars, envVars>>

-----------------------------------------------------------------------------
(* Backend.DeleteBatch: every replica is tried; failures are only logged. *)
DeleteBatch(q, blobs) ==
  \E kept \in IF q \in gone \/ "delete" \in Faults THEN SUBSET blobs ELSE {{}} :
    hosted' = hosted \ (blobs \ kept)

(* Mutants: without the ETag guard, and without the check for a duplicate. *)
AppendUnguardedMutant(b) ==
  IF obj # None /\ \A r \in reps[b.seq] : r.prov # b.prov
    THEN reps' = [reps EXCEPT ![b.seq] = @ \cup {b}]
    ELSE UNCHANGED reps

AppendTwiceMutant(b) ==
  IF obj # None /\ Content[obj] = Content[b.put]
    THEN reps' = [reps EXCEPT ![b.seq] = @ \cup {b}]
    ELSE UNCHANGED reps

(* AppendChunkReplica: a no-op unless the object still has the ETag of the
   PUT and the provider holds no replica of the chunk yet. *)
AppendChunkReplica(b) ==
  IF /\ obj # None
     /\ Content[obj] = Content[b.put]
     /\ \A r \in reps[b.seq] : r.prov # b.prov
    THEN reps' = [reps EXCEPT ![b.seq] = @ \cup {b}]
    ELSE UNCHANGED reps

-----------------------------------------------------------------------------
(* PUT: putObject, and copyObject for the PUTs in Copies, whose body is read
   from another key: they upload synchronously and check no declared size. *)

(* BucketExists. *)
PutStart(p) ==
  /\ Begins(p) /\ p \notin gone
  /\ Goto(p, IF bucket THEN "upload" ELSE "notfound")
  /\ UNCHANGED <<storeVars, hosted, procVars, envVars>>

NextBlob(p, x) == [put |-> p, seq |-> cur[p] + 1, prov |-> x, by |-> p]
Uploading(p) == pc[p] = "upload" /\ cur[p] < Chunks[p]

(* uploadChunk answers with the replicas S; those in E finish later. *)
UploadChunk(p) ==
  /\ Uploading(p)
  /\ \E S \in SUBSET Providers, E \in SUBSET Providers :
       /\ S # {} /\ S \cap E = {}
       /\ Cardinality(S) <= IF p \in Copies THEN R ELSE SyncN
       /\ Cardinality(S) + Cardinality(E) <= R
       /\ E # {} => p \notin Copies /\ Cardinality(S) = SyncN
       /\ hosted' = hosted \cup {NextBlob(p, x) : x \in S}
       /\ up' = [up EXCEPT ![p][cur[p] + 1] = {NextBlob(p, x) : x \in S}]
       /\ background' = background \cup {NextBlob(p, x) : x \in E}
  /\ cur' = [cur EXCEPT ![p] = @ + 1]
  /\ UNCHANGED <<storeVars, pc, seen, fix, served, persist, gone, forsaken, disturbed>>

(* The upload fails: every provider failed, or the client is gone and the
   running uploads go on unobserved.  502; the earlier chunks stay. *)
UploadError(p) ==
  /\ Uploading(p)
  /\ \/ "upload" \in Faults /\ UNCHANGED hosted
     \/ /\ p \in gone
        /\ \E S \in SUBSET Providers :
             /\ Cardinality(S) <= R
             /\ hosted' = hosted \cup {NextBlob(p, x) : x \in S}
  /\ Goto(p, "failed")
  /\ UNCHANGED <<storeVars, procVars, envVars>>

(* The body ends.  A body cut short by a disconnect reads as io.ErrUnexpectedEOF,
   which the chunk loop takes for the end. *)
UploadEnd(p) ==
  /\ pc[p] = "upload"
  /\ cur[p] = Chunks[p] \/ p \in gone \ Copies
  /\ Goto(p, "rows")
  /\ UNCHANGED <<storeVars, hosted, procVars, envVars>>

(* Malformed aws-chunked framing, or a decoded size other than declared. *)
RejectBody(p) ==
  /\ pc[p] = "upload" /\ p \notin Copies
  /\ "body" \in Faults
  /\ Goto(p, "cleanup")
  /\ UNCHANGED <<storeVars, hosted, procVars, envVars>>

(* The object_chunks rows of an upload. *)
ChunkRowsMutant(p) == 1..cur[p] + 1
ChunkRows(p) == 1..cur[p]

(* Mutant: the commit does not use the request's context. *)
PutObjectMutant(p) ==
  /\ pc[p] = "commit" /\ bucket
  /\ obj' = p /\ rows' = ChunkRows(p) /\ reps' = up[p]
  /\ Disturb
  /\ Goto(p, "reap")
  /\ UNCHANGED <<bucket, hosted, procVars, background, persist, gone, forsaken>>

(* Store.PutObject: one transaction writes the row and replaces the chunk map. *)
PutObject(p) ==
  /\ pc[p] = "commit" /\ p \notin gone
  /\ bucket                              \* foreign key
  /\ obj' = p
  /\ rows' = ChunkRows(p)
  /\ reps' = up[p]
  /\ Disturb
  /\ Goto(p, "reap")
  /\ UNCHANGED <<bucket, hosted, procVars, background, persist, gone, forsaken>>

PutObjectFails(p) ==
  /\ pc[p] = "commit"
  /\ StoreCallFails(p) \/ ~ bucket
  /\ Goto(p, "cleanup")
  /\ UNCHANGED <<storeVars, hosted, procVars, envVars>>

(* Mutant: the old chunk map is read after the commit. *)
ReapMutant(p) ==
  /\ pc[p] = "reap"
  /\ DeleteBatch(p, AllBlobs(reps))
  /\ persist' = persist \cup {p}
  /\ Goto(p, "done")
  /\ UNCHANGED <<storeVars, procVars, background, gone, forsaken, disturbed>>

(* reapSupersededChunks, then persistExtras is set and the handler returns,
   closing `ready'. *)
Reap(p) ==
  /\ pc[p] = "reap"
  /\ DeleteBatch(p, AllBlobs(seen[p].reps))
  /\ persist' = persist \cup {p}
  /\ Goto(p, "done")
  /\ UNCHANGED <<storeVars, procVars, background, gone, forsaken, disturbed>>

(* deleteChunks after a rejected body or a failed commit. *)
Cleanup(p) ==
  /\ pc[p] = "cleanup"
  /\ DeleteBatch(p, AllBlobs(up[p]))
  /\ Goto(p, "failed")
  /\ UNCHANGED <<storeVars, procVars, envVars>>

(* A background upload has landed and its PUT's handler has returned:
   persistExtra registers the replica or drops it.  (The blob is counted as
   hosted from here on; nothing refers to it earlier.) *)
PersistExtra(b) ==
  /\ b \in background
  /\ pc[b.put] \in Final
  /\ background' = background \ {b}
  /\ hosted' = hosted \cup {b}
  /\ IF b.put \in persist THEN AppendChunkReplica(b) ELSE UNCHANGED reps
  /\ UNCHANGED <<bucket, obj, rows, pc, procVars, persist, gone, forsaken, disturbed>>

-----------------------------------------------------------------------------
(* DELETE: deleteOneObject. *)

DelStart(d) ==
  /\ Begins(d) /\ d \notin gone
  /\ Goto(d, IF obj = None THEN "done" ELSE "rows")
  /\ UNCHANGED <<storeVars, hosted, procVars, envVars>>

(* Mutant: only the first chunk's replicas are deleted. *)
PurgeMutant(d) ==
  /\ pc[d] = "purge"
  /\ DeleteBatch(d, seen[d].reps[1])
  /\ forsaken' = forsaken \cup AllBlobs(seen[d].reps)
  /\ Goto(d, "drop")
  /\ UNCHANGED <<storeVars, procVars, background, persist, gone, disturbed>>

(* The hosts are told first, while the replica list is still readable. *)
Purge(d) ==
  /\ pc[d] = "purge"
  /\ DeleteBatch(d, AllBlobs(seen[d].reps))
  /\ forsaken' = forsaken \cup AllBlobs(seen[d].reps)
  /\ Goto(d, "drop")
  /\ UNCHANGED <<storeVars, procVars, background, persist, gone, disturbed>>

(* Store.DeleteObject: one transaction. *)
DeleteObject(d) ==
  /\ pc[d] = "drop" /\ d \notin gone
  /\ obj' = None /\ rows' = {} /\ reps' = NoReps
  /\ Disturb
  /\ Goto(d, "done")
  /\ UNCHANGED <<bucket, hosted, procVars, background, persist, gone, forsaken>>

DeleteObjectFails(d) ==
  /\ pc[d] = "drop" /\ StoreCallFails(d)
  /\ Goto(d, "failed")
  /\ UNCHANGED <<storeVars, hosted, procVars, envVars>>

-----------------------------------------------------------------------------
(* GET: getObject and streamObject. *)

GetStart(g) ==
  /\ Begins(g) /\ g \notin gone
  /\ seen' = [seen EXCEPT ![g].obj = obj]
  /\ Goto(g, IF obj = None THEN "notfound" ELSE "rows")
  /\ UNCHANGED <<storeVars, hosted, cur, up, fix, served, envVars>>

(* Where the next chunk is read from: the map loaded before streaming. *)
LocationsMutant(g) == reps[cur[g] + 1]
Locations(g) == seen[g].reps[cur[g] + 1]

(* The body is as long as the object row says; its bytes come from the chunk
   map.  The next chunk is sent from some replica that still serves it, and
   without one the response is cut short (502 if it is the first chunk). *)
StreamChunk(g) ==
  /\ pc[g] = "stream" /\ g \notin gone
  /\ cur[g] < Chunks[seen[g].obj]
  /\ LET live == Locations(g) \cap hosted
     IN \/ \E b \in live :
             /\ served' = [served EXCEPT ![g] = Append(@, Content[b.put])]
             /\ cur' = [cur EXCEPT ![g] = @ + 1]
             /\ UNCHANGED pc
        \/ /\ live = {}
           /\ Goto(g, "failed")
           /\ UNCHANGED <<served, cur>>
  /\ UNCHANGED <<storeVars, hosted, seen, up, fix, envVars>>

StreamEnd(g) ==
  /\ pc[g] = "stream"
  /\ g \in gone \/ cur[g] = Chunks[seen[g].obj]
  /\ Goto(g, IF cur[g] = Chunks[seen[g].obj] THEN "done" ELSE "failed")
  /\ UNCHANGED <<storeVars, hosted, procVars, envVars>>

-----------------------------------------------------------------------------
(* Buckets. *)

(* deleteBucket: list at most one object, then delete in another statement. *)
BucketDelStart(x) ==
  /\ Begins(x) /\ x \notin gone
  /\ Goto(x, IF obj # None THEN "failed" ELSE "dropbucket")
  /\ UNCHANGED <<storeVars, hosted, procVars, envVars>>

(* Store.DeleteBucket: the foreign key cascades to the objects row, and to no
   other table. *)
DeleteBucket(x) ==
  /\ pc[x] = "dropbucket" /\ x \notin gone
  /\ bucket' = FALSE
  /\ obj' = None
  /\ Disturb
  /\ Goto(x, IF bucket THEN "done" ELSE "notfound")
  /\ UNCHANGED <<rows, reps, hosted, procVars, background, persist, gone, forsaken>>

DeleteBucketFails(x) ==
  /\ pc[x] = "dropbucket" /\ StoreCallFails(x)
  /\ Goto(x, "failed")
  /\ UNCHANGED <<storeVars, hosted, procVars, envVars>>

CreateBucket ==
  /\ ~ bucket
  /\ bucket' = TRUE
  /\ UNCHANGED <<obj, rows, reps, hosted, pc, procVars, envVars>>

-----------------------------------------------------------------------------
(* The self-heal sweep: RunOnce with RepairChunk and replicateExtra. *)

SweepStart(w) ==
  /\ Begins(w)
  /\ Goto(w, IF obj = None THEN "done" ELSE "rows")
  /\ UNCHANGED <<storeVars, hosted, procVars, envVars>>

Checking(w) == pc[w] = "repair" /\ cur[w] < Cardinality(seen[w].rows)

(* Replicas that verification can find alive: any that is hosted, but a
   transient error counts as dead. *)
VerifiedSets(old) ==
  IF "verify" \in Faults THEN SUBSET (old \cap hosted) ELSE {old \cap hosted}

(* Mutants: nothing is uploaded; providers already used are not excluded. *)
RefillsNothingMutant(w, k, live, need) == {{}}

RefillsAnywhereMutant(w, k, live, need) ==
  LET content == CHOOSE b \in live : TRUE
  IN {{[put |-> content.put, seq |-> k, prov |-> x, by |-> w] : x \in N} :
        N \in {M \in SUBSET Providers : Cardinality(M) = need}}

(* The fresh uploads of replicateExtra: on unused providers, up to need. *)
Refills(w, k, live, need) ==
  LET unused == Providers \ {b.prov : b \in live}
      content == CHOOSE b \in live : TRUE
  IN {{[put |-> content.put, seq |-> k, prov |-> x, by |-> w] : x \in N} :
        N \in {M \in SUBSET unused :
                 \/ Cardinality(M) = need
                 \/ Cardinality(M) < need /\ ("upload" \in Faults \/ M = unused)}}

(* RepairChunk on the next chunk of the snapshot: unrecoverable or healthy
   chunks are skipped, any other is refilled and must be written back. *)
RepairChunk(w) ==
  /\ Checking(w)
  /\ LET k == cur[w] + 1
         old == seen[w].reps[k]
     IN \E live \in VerifiedSets(old) :
          IF live = {} \/ (live = old /\ Cardinality(live) >= R)
            THEN /\ cur' = [cur EXCEPT ![w] = k]
                 /\ UNCHANGED <<pc, fix, hosted>>
            ELSE \E new \in Refills(w, k, live, IF Cardinality(live) < R
                                                  THEN R - Cardinality(live) ELSE 0) :
                   /\ hosted' = hosted \cup new
                   /\ fix' = [fix EXCEPT ![w] = live \cup new]
                   /\ IF live \cup new # old
                        THEN Goto(w, "writeback") /\ UNCHANGED cur
                        ELSE cur' = [cur EXCEPT ![w] = k] /\ UNCHANGED pc
  /\ UNCHANGED <<storeVars, seen, up, served, envVars>>

(* Reading the surviving copy or the write-back fails: the chunk is skipped. *)
RepairFails(w) ==
  /\ \/ Checking(w) /\ "verify" \in Faults
     \/ pc[w] = "writeback" /\ "store" \in Faults
  /\ cur' = [cur EXCEPT ![w] = @ + 1]
  /\ Goto(w, "repair")
  /\ UNCHANGED <<storeVars, hosted, seen, up, fix, served, envVars>>

(* Mutant: only the fresh replicas are written, the survivors forgotten. *)
UpdateChunkReplicasMutant(w) ==
  /\ pc[w] = "writeback"
  /\ reps' = [reps EXCEPT ![cur[w] + 1] = fix[w] \ seen[w].reps[cur[w] + 1]]
  /\ cur' = [cur EXCEPT ![w] = @ + 1]
  /\ Disturb
  /\ Goto(w, "repair")
  /\ UNCHANGED <<bucket, obj, rows, hosted, seen, up, fix, served, background,
                 persist, gone, forsaken>>

(* Store.UpdateChunkReplicas: one transaction, whatever the rows are now. *)
UpdateChunkReplicas(w) ==
  /\ pc[w] = "writeback"
  /\ reps' = [reps EXCEPT ![cur[w] + 1] = fix[w]]
  /\ cur' = [cur EXCEPT ![w] = @ + 1]
  /\ Disturb
  /\ Goto(w, "repair")
  /\ UNCHANGED <<bucket, obj, rows, hosted, seen, up, fix, served, background,
                 persist, gone, forsaken>>

SweepEnd(w) ==
  /\ pc[w] = "repair" /\ ~ Checking(w)
  /\ Goto(w, "done")
  /\ UNCHANGED <<storeVars, hosted, procVars, envVars>>

-----------------------------------------------------------------------------
(* The environment. *)

(* The client of a request in progress goes away. *)
Disconnect(q) ==
  /\ "disconnect" \in Faults
  /\ Active(q) /\ q \notin gone
  /\ gone' = gone \cup {q}
  /\ UNCHANGED <<storeVars, hosted, pc, procVars, background, persist, forsaken, disturbed>>

(* A host drops a file. *)
Expire(b) ==
  /\ "expire" \in Faults
  /\ Serial => \A x \in Procs : ~ Active(x)
  /\ hosted' = hosted \ {b}
  /\ forsaken' = forsaken \cup {b}
  /\ UNCHANGED <<storeVars, pc, procVars, background, persist, gone, disturbed>>

(* The gateway dies: the store and the hosts keep what they have, background
   uploads may or may not have landed. *)
Crash ==
  /\ "crash" \in Faults
  /\ background # {} \/ \E q \in Procs : Active(q)
  /\ pc' = [q \in Procs |-> IF Active(q) THEN "crashed" ELSE pc[q]]
  /\ \E landed \in SUBSET background : hosted' = hosted \cup landed
  /\ background' = {}
  /\ UNCHANGED <<storeVars, procVars, persist, gone, forsaken, disturbed>>

-----------------------------------------------------------------------------
PutStep(p) ==
  \/ PutStart(p) \/ UploadChunk(p) \/ UploadError(p) \/ UploadEnd(p)
  \/ RejectBody(p) \/ PutObject(p) \/ PutObjectFails(p) \/ Reap(p) \/ Cleanup(p)

DelStep(d) ==
  DelStart(d) \/ Purge(d) \/ DeleteObject(d) \/ DeleteObjectFails(d)

GetStep(g) == GetStart(g) \/ StreamChunk(g) \/ StreamEnd(g)

BucketDelStep(x) ==
  BucketDelStart(x) \/ DeleteBucket(x) \/ DeleteBucketFails(x)

SweepStep(w) ==
  \/ SweepStart(w) \/ RepairChunk(w) \/ RepairFails(w)
  \/ UpdateChunkReplicas(w) \/ SweepEnd(w)

ReadStep(q) == ReadRows(q) \/ ReadReps(q) \/ ReadFails(q) \/ StartFails(q)

Next ==
  \/ \E p \in Puts : PutStep(p)
  \/ \E d \in Dels : DelStep(d)
  \/ \E g \in Gets : GetStep(g)
  \/ \E x \in BucketDels : BucketDelStep(x)
  \/ \E w \in Sweeps : SweepStep(w)
  \/ \E q \in Procs : ReadStep(q)
  \/ \E q \in Requests : Disconnect(q)
  \/ \E b \in background : PersistExtra(b)
  \/ \E b \in hosted : Expire(b)
  \/ CreateBucket
  \/ Crash

Spec == Init /\ [][Next]_vars

-----------------------------------------------------------------------------
(* Properties. *)

(* Type invariant. *)
TypeOK ==
  /\ bucket \in BOOLEAN
  /\ obj \in Puts \cup {None}
  /\ rows \subseteq Seqs
  /\ reps \in [Seqs -> SUBSET Blobs]
  /\ hosted \subseteq Blobs
  /\ pc \in [Procs -> Final \cup {"idle", "upload", "rows", "reps", "commit", "reap",
                     "cleanup", "purge", "drop", "stream", "dropbucket", "repair",
                     "writeback"}]
  /\ cur \in [Procs -> Nat]
  /\ seen \in [Procs -> [obj : Puts \cup {None}, rows : SUBSET Seqs,
                         reps : [Seqs -> SUBSET Blobs]]]
  /\ up \in [Puts -> [Seqs -> SUBSET Blobs]]
  /\ fix \in [Sweeps -> SUBSET Blobs]
  /\ background \subseteq Blobs
  /\ persist \subseteq Puts /\ gone \subseteq Requests
  /\ forsaken \subseteq Blobs /\ disturbed \subseteq Gets

(* store.go 499-501: a late replica can never attach to a different version's
   chunk.  Every replica row of the object holds the current version's bytes
   of that chunk, whatever PUTs, deletes and late replicas did before. *)
ReplicasMatchVersion ==
  obj # None =>
    \A s \in Seqs : \A b \in reps[s] :
      b.seq = s /\ Content[b.put] = Content[obj]

(* An object in the namespace has a complete chunk map, each chunk with a
   replica: in particular a body cut short by a disconnect, which the upload
   loop takes for a complete one, is never committed. *)
ChunkMapComplete ==
  obj # None =>
    /\ rows = 1..Chunks[obj]
    /\ \A s \in rows : reps[s] # {}

(* The gateway destroys no blob that the current object refers to, through any
   interleaving of reaps, clean-ups and failures: one that is missing was
   targeted by a DELETE of the object or dropped by its host. *)
NoDanglingReplica ==
  obj # None => AllBlobs(reps) \subseteq hosted \cup forsaken

(* The replicas of a chunk are on distinct providers, whichever mix of PUT,
   late replica and sweep recorded them. *)
DistinctProviders ==
  \A s \in Seqs : \A a, b \in reps[s] : a.prov = b.prov => a = b

(* The chunks of one response come from one version, even when PUTs and
   deletes commit between the queries and the downloads of the GET. *)
GetNeverMixes ==
  \A g \in Gets : \A i, j \in 1..Len(served[g]) : served[g][i] = served[g][j]

(* A GET that no store write overlaps sends exactly the committed version, and
   fails only if a chunk lost every replica to a DELETE or to its hosts. *)
UndisturbedGetIsExact ==
  \A g \in Gets \ (disturbed \cup gone) :
    LET v == seen[g].obj
    IN /\ pc[g] = "done" =>
            served[g] = [i \in 1..Chunks[v] |-> Content[v]]
       /\ pc[g] = "failed" => \E s \in seen[g].rows : seen[g].reps[s] \subseteq forsaken

(* Requests that run one after the other leave no blob behind that the store
   does not know of. *)
NoOrphans ==
  (background = {} /\ \A q \in Procs : ~ Active(q)) => hosted \subseteq AllBlobs(reps)

(* After a sweep that nothing interrupts, every chunk with a live copy has R
   live replicas (or one on every provider) and no dead ones. *)
SweepRestores ==
  [][\A w \in Sweeps :
       pc[w] = "repair" /\ pc'[w] = "done" =>
         \A s \in rows : reps[s] \cap hosted # {} =>
           /\ reps[s] \subseteq hosted
           /\ \/ Cardinality(reps[s]) >= R
              \/ {b.prov : b \in reps[s]} = Providers]_vars

(* handler.go 172-175 and list_test.go 267: deleting a bucket never takes an
   object with it. *)
DeleteBucketKeepsObjects == [][bucket /\ ~ bucket' => obj = None]_vars

=============================================================================
