# free-s3: a TLA+ model of the gateway

free-s3 is an S3 gateway that keeps object bytes on free file hosts and object
metadata in SQLite. An object is cut into chunks; each chunk is uploaded to
several hosts ("providers"); rows in SQLite say which blob on which host is
which replica of which chunk. Nothing ties the hosts and the database together
except the order in which the code calls them, and every call to a host may
fail, be slow, or succeed and be forgotten. That is what these modules are
about.

Source lines below are of the repository's `internal/` packages.

## 1. The system

| Component | State it keeps | Operations | What makes it correct |
|---|---|---|---|
| `storage/freehost/backend.go` `uploadChunk` | counters of one call, the `results` channel, a drainer goroutine | replicate one chunk to up to R providers, answer after `syncN`, deliver late replicas to `onExtra` | the counters agree with the goroutines; never more than R replicas, fewer only when candidates run out; what is reported exists; nothing blocks or leaks |
| `storage/freehost/pool.go` | consecutive failures per provider, round-robin cursor | `candidates`, `markHealthy`, `markFailed` | every eligible provider once, healthy and durable first, whatever the cursor's sign |
| `s3api/handler.go`, `copy.go`, `deleteobjects.go` | none of their own; a chunk map read earlier and used later | PUT, copy, GET, DELETE, bulk delete, bucket create and delete | an object's rows refer to blobs of that version that exist; a GET sends one version |
| `metadata/store.go` | SQLite tables for buckets, objects, chunks, replicas, multipart uploads and parts | transactions and queries | one version's rows at a time, complete chunk maps |
| `keepalive/keepalive.go` with `Verify` and `RepairChunk` | a cursor; a snapshot of each object's chunk map | check replicas, refill to R, write back | the write-back never damages a newer version |
| `s3api/multipart.go`, `janitor.go` | a chunk map and a part list read earlier | create, upload part, copy part, complete, abort, janitor pass | the completed object is the listed parts; nothing it refers to is reaped |
| `reader/reader.go`, `chunk_source.go` | worker pool, one slot per window, delivery channel | New, Prime, Read, Close | bytes in order, failures visible, termination |
| `chunk_source.go` `Chunk`, `backend.go` `DownloadRangeBytes` | position in a window; attempts in flight, a hedge timer | cut a window along the stored chunks, read each piece by a race of replicas | the window's bytes and no others, or an error when all replicas failed; a hanging host holds nothing up; all attempts end |
| `s3api/chunked.go`, the loop of `Backend.upload`, `validateDecodedSize` | decoder state, buffer, offset | turn a request body into chunks | what is committed is the whole payload, each byte at its offset |
| `handler.go`, `subresource.go`, `store.go` listing | none: the client carries the cursor | ListObjects v1 and v2, ListObjectVersions, a page at a time | a walk shows what was there, once |
| `handler.go`, `objectmeta.go` conditionals and ranges | none: the client carries the validators | If-*, If-Range, Range | a file put together from several answers is one version |
| `httputil.go`, provider adapters | none | HTTP requests with retries and timeouts | bounded attempts (this is what the fairness assumptions rest on) |
| `subresource.go`, signatures | none | fixed documents, string work | input/output relations |
| `cache/cache.go` | a TTL map | get, set | not used by any other package |
| `config`, `cmd/free-s3/main.go` | configuration | start-up and shutdown order | background replication is waited for |

**How they interact.** A request goroutine calls the backend and the store in
turn, with the request's context. `uploadChunk` leaves a drainer behind that
outlives the request, on the server's context, and calls back into the handler
(`persistExtra`), which waits until the handler has returned and then writes to
the store. The sweeper and the janitor run on timers beside the requests. The
store has one writer connection (transactions are serial) and several reading
ones; there are no locks across calls, so every value read is stale by the
next call.

**What is hard.** Interleavings of writers that each "read the old map, commit,
reap the old blobs"; late replicas that arrive after an overwrite or a delete;
cancelled contexts, which make the next store or host call fail but not the
previous one unhappen; crashes between upload, commit and reap; hosts that lose
blobs; counters shared between a caller and its drainer; a pool of prefetching
goroutines cancelled at any moment; bodies that break off at any byte, seen
through two layers that each translate errors; hosts that hang, ignore Range or
keep a prefix; clients whose cursor or validator is older than the store.
`PROJECT.json` lists these as hazards, each
at its line.

## 2. The modules

| Module | Models | Actions |
|---|---|---|
| `Selection` | what `pool.candidates` promises | (operators only) |
| `Pool` | `pool.go`, computation included (tiers, rotation, overflow of the cursor), composed with `ChunkUpload`, whose candidates it supplies | `Candidates`, `OtherCandidates`, `markHealthy`, `markFailed`, then those of `ChunkUpload` |
| `ChunkReplication` | the abstract promise of `uploadChunk` | `Ack`, `Fail`, `Extra` |
| `ChunkUpload` | `uploadChunk`: caller, upload goroutines, drainer, channel, `ready` | `Start`, `UploadOK/Fail`, `CollectOK/Fail`, `CtxDone`, `Return`, `CloseReady`, `DrainOK/Fail`, `DeliverExtra`, `DrainDone` |
| `ObjectStore` | one key of one bucket: handlers, store, hosts, late replicas, sweep | PUT and copy (`PutStart` ... `Reap`, `Cleanup`), `PersistExtra`, DELETE (`DelStart`, `Purge`, `DeleteObject`), GET (`GetStart`, `StreamChunk`, `StreamEnd`), buckets, sweep (`SweepStart`, `RepairChunk`, `UpdateChunkReplicas`, `SweepEnd`), `Expire`, `Disconnect`, `Crash` |
| `Multipart` | one multipart upload of a key that already holds an object | `createMultipartUpload`, `resolveUpload`, `UploadPart`, `PutMultipartPart`, `ListParts`, `CollectChunks`, `CollectReplicas`, `ReadOldObject`, `FinalizeMultipartUpload`, `AllMultipartChunks`, `Purge`, `DeleteMultipartUpload`, `Reap`, failures, `Disconnect`, `Crash` |
| `PrefetchReader` | the reader as `streamObject` drives it | `Claim`, `CheckCtx`, `Fetch`, `FetchShort`, `FetchFails`, `Publish`, `Abandon`, `DrainRecv`, `Deliver`, `DrainCancelled`, `Prime`, `ReadNext`, `ReadSome`, `WriteFails`, `Cancel`, `Close`, `Sink`, `CloseReturns` |
| `WindowFetch` | the abstract promise of a window read | `Environment`, `Whole`, `Short`, `Fail` |
| `WindowRead` | `backendSource.Chunk`, `locate`, `DownloadRangeBytes`, `rangeGet` | `Chunk`, `NextPiece`, `AttemptOK`, `AttemptFails`, `Hedge`, `CollectOK`, `CollectError`, `CtxEnds`, `RaceCancelled`, `ChunkDone` |
| `BodyUpload` | `decodeUpload`, `awsChunkedReader`, the loop of `Backend.upload`, `validateDecodedSize`, the commit | `PlainRead`, `FinalFrame`, `BadHeader`, `NextFrame`, `FrameData`, `AfterFinal`, `StoreChunk`, `StoreChunkFails`, `ValidateSize`, `Commit` |
| `RoundTrip` | composition: the chunk map that `BodyUpload` commits is the one `WindowRead` reads | `Upload`, `Publish`, `Request`, `Download` |
| `Keyspace` | the ordered keys of a bucket and their changes | `PutKey`, `DeleteKey` |
| `Listing` | `ListObjectsPage`, `prefixUpperBound`, `listObjects`, `listObjectVersions` | `listObjects`, `listObjectVersions` |
| `SweepCursor` | which objects a tick of `RunOnce` visits | `RunOnce`, `RunOnceFails`, `Restart` |
| `ReadPlan` | `parseByteRange`, `conditionalStatus`, `ifRangeAllows`, `planRead`, the decisions of `getObject` | (operators only) |
| `ResumedGet` | a client that resumes and revalidates downloads while the key is overwritten | `Overwrite`, `Tick`, `Fresh`, `FreshMalformed`, `Resume`, `Revalidate` |
| `Clients` | composition of the three walks with a store that changes | `Listings`, `Sweeps`, `Changes`, `Downloads` |
| `MCPool`, `MCObjectStore`, `MCMultipart`, `MCPrefetchReader`, `MCRoundTrip`, `MCClients` | instances for TLC | |
| `ChunkUpload_proofs`, `Pool_proofs`, `ObjectStore_proofs`, `Serial_proofs`, `Multipart_proofs`, `PrefetchReader_proofs`, `RoundTrip_proofs`, `Clients_proofs` | the theorems about these modules (section 4) | |

The modules are linked by promises. `ChunkUpload` takes any order of providers
that `Selection` allows; in `Pool` the order is the one `candidates` computes,
and it is proved that every such start is one `ChunkUpload` allows, so that the
theorems on an upload hold of the composition. `ChunkUpload` is proved to
implement `ChunkReplication`, and
`ObjectStore` uses a chunk upload only by that promise: some non-empty set of
at most SyncN providers at once, the rest later and one at a time, at most R in
all, or a failure. `WindowRead`, fed by `BodyUpload`, is proved to implement `WindowFetch`, and
`PrefetchReader` uses a fetch only by that promise: the whole window, a prefix
of it, or an error.

Operators whose name ends in `Mutant` are deliberate errors (a dropped guard, a
swapped order). They are not used by the specifications; each stands beside the
definition it alters and shows which property that definition is needed for.

### Grain and abstraction

- **`ChunkUpload`**. One step is one send or receive on `results` with the
  bookkeeping around it. The provider stands for the blob; `fails` starts
  anywhere, because other uploads share the pool. A failed upload may have left
  a blob on the host that the code cannot know of: `stored` holds confirmed
  ones only. `ready` is closed by the handler at any time after the answer.
- **`ObjectStore`**. One step is one store transaction or query, one chunk
  upload or one batch of host deletions. A version is named by the PUT that
  wrote it, its ETag by its content; PUTs of equal content exist in the
  instances, because the ETag guard of `AppendChunkReplica` cannot tell them
  apart. `GetObjectChunks` is two queries, `getObject` three, and other
  requests run between them. A disconnect makes the request's later store and
  host calls fail; it does not stop the request, and it may cut a body short,
  which the upload loop takes for its end (`backend.go` 140).
- **`Multipart`**. The blobs of a part are one blob, named by the part upload.
  The previous version of the key is one blob, `Old`. A part's chunk map is two
  queries, chunk rows and replica rows, and a completion makes both: it may see
  the rows of two uploads. What is read only to be deleted is one action.
- **`PrefetchReader`**. A byte is its offset and a buffer a run of offsets, so
  trimming and order are checked on the bytes themselves. Window size and
  alignment follow `ChunkSize` and `New`; the halving loop of `ChunkSize` is
  given by its runs (`ChunkSizeRuns`, the sequences of values its variable
  takes). A window comes back whole, short, or as an error.
- **`WindowRead`**. One step is one send or receive of a race, or one turn of
  `Chunk`'s loop. Elapsed time is left out: the hedge timer may fire whenever it
  is armed, and the worker's deadline may pass at any time. Hedging is on or
  off (`hedging`): with `READ_HEDGE_DELAY=0` the timer is never armed and only an
  error starts the next replica (`backend.go` 383). An attempt ends with
  the bytes `rangeGet` gives for what its host still has, or fails. A host in
  `Stuck` need not end by itself. The candidates are those of a chunk's replicas
  whose provider is enabled, in the order of the rows (`InOrder`). Bytes are
  positions in the body, so a shifted,
  repeated or missing byte is seen.
- **`BodyUpload`**. One step is one `Read` of the body, with whatever bytes and
  error it returns, chosen as the wire allows: the stream may end or break at
  any point, a header or terminator may be malformed. `Receive` is
  `io.ReadFull`, which drops an error that comes with the last byte of a full
  buffer. Signatures and trailers are not looked at, as in the code.
- **`Listing`**. A key is a sequence of bytes of a small alphabet with one
  delimiter and one highest byte. A page is a pure function of its request. The
  cursor is modelled as it travels: raw, URL-encoded on request, or in a token,
  and the client undoes only what it asked for.
- **`SweepCursor`**. A tick lists the keys and takes its window; what a visit
  does to an object is in `ObjectStore`. A visit is one step here, because the
  window is fixed before the first object is visited.
- **`ReadPlan`, `ResumedGet`**. The four preconditions, If-Range and Range are
  evaluated in the code's order on header values, not strings. The client
  belongs to the environment: it appends what an answer says belongs there. A
  byte is the version it came from. Dates are ticks divided by `PerSecond`.

## 3. What is checked

| Run | Instance | Properties | Distinct states |
|---|---|---|---|
| `upload` | 2 durable and 2 temporary providers with different caps, R=2, answer after 1, a cursor of 3 bits, any history of health | `CountsOutstanding`, `ReplicaBudget`, `SendNeverBlocks`, `FailureIsTotal`, `RegisteredAreStored`, `RoundRobin`, `HealthyDurableIsTried`, `SelectionKeepsOrder`, `KeepsPromise`, `EventuallyQuiet` | 0.23 million |
| `writers` | a PUT, a copy of other and a copy of equal content, DELETE, DeleteBucket; store errors, late replicas | `ReplicasMatchVersion`, `DistinctProviders`, `NoDanglingReplica` | 3.4 million |
| `faults` | 2 PUTs of two chunks, DELETE, GET; every failure | `ChunkMapComplete`, `GetNeverMixes`, `UndisturbedGetIsExact` | 1.7 million |
| `serial` | 2 PUTs, DELETE, sweep, one after the other, hosts lose blobs | `NoOrphans`, `SweepRestores` | 0.4 million |
| `sweep_race` | 2 PUTs, DELETE, sweep with failing steps, hosts lose blobs | `DistinctProviders`, `ChunkMapComplete` | 1.9 million |
| `multipart` | 2 uploads of one part, 1 of another, a completion of both, an aborting janitor pass; every failure | `PreviousVersionIntact`, `UndisturbedCompletionIsExact`, `PartRowsAreStored` | 4.4 million |
| `reader` | 2 workers, 6 ranges of up to 3 windows; failing and short windows, cancellation, broken connections | `BytesInOrder`, `EofMeansComplete`, `FirstFailureBeforeHeaders`, `PrimeReturns`, `CloseReleases` | 0.3 million |
| `roundtrip` | bodies of up to 4 bytes, framed or not, any declared length, chunks of 2; then any window, from 3 replicas of which one hangs, one ignores Range and one truncates, with all, two or none of them enabled, and hedging on or off | `CommittedBodyIsWhole`, `ReadKeepsPromise`, `ReadComesToRest` | 0.23 million |
| `walks` | a listing, a sweep of 2 objects a tick, or downloads of up to 3 versions, with up to 3 changes of the keys or overwrites in between | `WalkIsFaithful`, `EveryObjectIsVisited`, `FileIsOneVersion` | 0.17 million |

Every module's `TypeOK` is checked in one of its runs.

**Bounds, and why they are enough.** R=2 with four providers allows each kind
of outcome twice: two first uploads, two replacements, and one collected by the
caller while the other is left to the drainer. In `ObjectStore` a conflict needs
a version that is replaced, the one that replaces it, and one more writer (the
DELETE, a third writer or the sweep) acting on what it read before: hence two
writers plus one of each. Two chunks are enough for a partly uploaded or partly served
object. In `Multipart` the two uploads of one part race with each other and
with the completion, and the upload of the other part makes the completion read
twice; the janitor's pass stands for an abort, which takes the same steps
(`abortUploadInternal`) and differs in its client's disconnect only, which the
proofs cover. The cursor's width in `Pool` is small so that it overflows within the
run. In `PrefetchReader` three windows and two workers give a worker that is a
window ahead and one that is behind; the ranges cover an empty one, one within
a window, one whose window is halved, aligned ones, and cuts on either side.
In `RoundTrip` a body of four bytes in chunks of two has an empty, a partial, a
full and a second chunk, frames that straddle them and end with them, and
windows within, across and beyond chunks; three replicas are a lead, a hedge
and one more. In `Clients` the keys include two that share a common prefix, one
before and one behind them and one that ends in the highest byte; page sizes of
1 and 2 make a page end before, within and after the run of a common prefix. A
sample of two makes the sweep's window wrap. Three versions and two ticks a
second give overwrites within a second, in the next, and out of order.
Providers are symmetric in `ObjectStore` (used only in runs without temporal
properties).

**Deadlock** is not checked: all of these systems come to rest when the
requests of the instance are done. That they do come to rest, where waiting is
involved, is stated as liveness (`EventuallyQuiet`, `PrimeReturns`,
`CloseReleases`, `ReadComesToRest`).

**Fairness.** `ChunkUpload`: weak fairness of each upload goroutine's outcome,
of the caller, of the handler's return and of the drainer. An upload ends
because every request has a timeout and `retry` (`httputil.go` 59-83) makes a
bounded number of attempts; the handler's `close(ready)` is deferred.
`PrefetchReader`: weak fairness of workers, drainer, `Prime` and `Close`; a
fetch ends because `worker` gives it a deadline (`reader.go` 163-167).
`WindowRead`: weak fairness of the worker, of the hedge timer while armed
(never, with delay 0), of
noticing a cancelled context, and of each attempt, except that an attempt on a
stuck host is fair only once it is cancelled (`http.NewRequestWithContext`).
Nothing is assumed of the worker's deadline, so that a read which only the
deadline ends shows: `ReadComesToRest` excepts a read all of whose candidates
hang or failed, and, with hedging off, one all of whose launched candidates do
(`LastHopeHangs`).
`SweepCursor`: `RunOnce` again and again (a ticker, and `AllObjectKeys` does not
fail for ever); changes and restarts are bounded, so the namespace comes to
rest. While it does not, the code promises nothing, and neither does
`EveryObjectIsVisited`.
Nothing is assumed of `Read`, which waits for the client. Choices between
outcomes are never fair: a run in which every upload fails is allowed.

### Where the code disagrees with its own words

- `sweep_overwrite`: the sweep writes back replica rows computed from a chunk
  map it read earlier, with no check of the version (`store.go` 468). When an
  overwrite commits in between and has not reaped yet, the old version's
  replicas become the new object's rows: a GET then serves old bytes under the
  new ETag. `AppendChunkReplica` has the guard that is missing here.
- `bucket_race`: `deleteBucket` probes for objects and then deletes (`handler.go`
  166-176). An object committed in between is removed by the cascade, after its
  PUT has committed.
- `complete_twice`: two overlapping completions of one upload. The second reads
  as "prior version" what the first committed, which is made of the same blobs,
  and reaps them after its own commit (`multipart.go` 216-224). The object stays
  listed and cannot be read.

Observed while modelling, without a run of their own:

- `provider.go` 43 says that replica selection always includes a durable
  provider. With the durable providers demoted, the first R candidates may all
  be temporary; `uploadChunk` then only logs a warning. What does hold is
  `HealthyDurableIsTried`.
- `backend.go` 135 says that the caller reaps the partial set of a failed
  upload. `putObject`, `uploadPart` and `copyObject` do so for malformed bodies
  only; on any other upload error the earlier chunks stay on the hosts.
- A window that comes back short is passed on without an error
  (`chunk_source.go` 120-125). In the middle of a range this leaves a gap;
  `BytesInOrder` therefore excepts it.
- A late replica that `AppendChunkReplica` rejects is not deleted from its host.
- `UploadConcurrency` of `config.go` is read and not used.
- `reader.go` 50-52 says that workers block on their slot. Each window has its
  own slot with capacity 1 (`reader.go` 124), so no worker ever blocks, and a
  slow client makes the gateway fetch the whole remaining range into memory.
- A cut that surfaces as `io.ErrUnexpectedEOF` is taken for the end of the body
  by the upload loop (`backend.go` 140; `chunked.go` 69 maps only `io.EOF`). With
  no declared length, nothing in the repository keeps the shorter object from
  being committed but the request's context, on which `PutObject` runs: net/http
  cancels it in the very read that finds the connection broken.
  `CommittedBodyIsWhole` rests on that.
- A malformed frame terminator after the byte that fills a chunk buffer is
  dropped with the error by `io.ReadFull` (`chunked.go` 73-76, `backend.go`
  129). The payload is whole all the same.
- `DownloadRangeBytes` takes the first answer without an error, also a short
  one; its comment speaks of the first replica "to deliver the full window".
- A common prefix may come on two pages when a key is put under it meanwhile:
  the cursor is the last key consumed, not the prefix.
- `UpdatedAt` is taken before the write connection is waited for (`store.go`
  275), so overlapping PUTs may commit with dates in the other order. A
  validator by date is good only when the dates are in order and in different
  seconds; one by ETag always.
- `main.go` 90 passes sample 0, so production sweeps visit every object in each
  tick and do not use the cursor.
- A retried upload whose answer was lost leaves a blob that nothing refers to.

## 4. What is proved

Each theorem holds for every value of the constants that the named assumption
of its module admits: any number of providers, requests, chunks, workers, hosts
and bytes. None of the properties is inductive. Each proof module therefore
defines an inductive invariant as a conjunction of named parts (checked with TLC
on the run's instance before it was proved), shows that it holds initially and
that every action keeps it, one lemma or step per action, and derives the
properties from it.

### `ChunkUpload_proofs` (`UploadAssumption`)

`IInv` consists of `TypeOK` and of

- `ControlInv`: the drainer exists only after a successful answer; what is still
  at its initial value in which control state;
- `CountInv`: the caller's `inflight - collected`, and later the drainer's
  `remaining`, equal the number of running goroutines plus outcomes in the
  channel;
- `BudgetInv`: replicas obtained or still possible never exceed R, and are
  exactly R unless every candidate was used;
- `PlacementInv`, `OnceInv`: each confirmed replica is recorded in exactly one
  place (channel, answer, drainer's hand, delivered), once.

| Theorem | States |
|---|---|
| `TypeCorrect` | `TypeOK` |
| `CountsCorrect` | whoever collects waits for exactly the outcomes to come |
| `BudgetKept` | never more than R replicas, fewer only when every candidate was used |
| `NeverBlocks` | a send on `results` never blocks |
| `FailureTotal` | an error means that every eligible provider failed |
| `RegisteredTrue` | every reported replica is stored, on distinct providers |
| `SynchronousFinal` | with `syncN` = R (also by clamping) nothing is left in flight |
| `Refinement` | `ChunkUpload` implements `ChunkReplication` |
| `DurableTried` | while a durable provider that can hold the chunk is healthy, the first uploads include a durable one (an action property, for any order `Selection` allows) |

`SynchronousFinal` adds one conjunct, `SyncInv` (no drainer on the synchronous
path). `Refinement` maps the caller's state to the abstract status and the
reported replicas to the abstract set; only `Return` and `DeliverExtra` are
abstract steps, all others stutter.

### `Pool_proofs` (`PoolAssumption`, `UploadAssumption`)

What `candidates` computes, for any list of distinct providers, capacities,
width of the cursor and failure counts. The lemmas go from the arithmetic of
Go's `%` on a negative cursor (`OffsetIsRemainder`, `OffsetFacts`) over the
rotation (`RotateFacts`: a permutation, which element is where) and the filter
(`SubsequenceFacts`: by counting positions, so that no induction over sequences
is needed) to `CandidatesOrdered`: the concatenation of the tiers has every
eligible provider once, best tier first. The invariant is `ChunkUpload`'s `IInv`
and `rr \in Int`; `PoolStep` shows that a step of the composition is a step of
`ChunkUpload` or changes only the cursor and the health.

| Theorem | States |
|---|---|
| `SelectionOrdered` | every start is one `ChunkUpload` allows (an action property) |
| `RoundRobinKept` | the next upload starts with the provider now second in line |
| `PoolInvariance`, `PoolUploadSafe` | the invariants of `ChunkUpload` hold of the composition |
| `PoolRefinement` | the composition implements `ChunkReplication` |
| `PoolDurableTried` | the first uploads include a healthy durable provider if there is one |

### `ObjectStore_proofs` (`StoreAssumption`)

Two invariants. `IInv` is inductive for every configuration: which control
states each kind of request has (`KindInv`), what a PUT has uploaded when it
commits (`PutInv`), that a GET has an object (`GetInv`) and that a sweep writes
back a non-empty set with one replica per provider (`SweepInv`).

| Theorem | States |
|---|---|
| `TypeCorrect` | `TypeOK` |
| `ProvidersDistinct` | no chunk has two replica rows on one provider |
| `MapComplete` | a committed object has all its chunk rows, each with a replica |

`VInv` is about which version's blobs are where: blobs named by rows or by
somebody's snapshot belong to PUTs that have committed and are not still
arriving in the background (`KnownInv`, `BackgroundInv`); all chunks of a map,
current or read earlier, are of one content (`UniformInv`); what the current
object or an uncommitted PUT needs is on its host unless the host lost it
(`HostedInv`); what a PUT is about to reap is in no row (`ReapInv`); what a GET
sent came from its snapshot, which is current as long as nobody wrote
(`ServedInv`, `SnapshotInv`). It is inductive only without sweeps, and the four
theorems on it assume `Sweeps = {}`:

| Theorem | States, without sweeps |
|---|---|
| `VersionsMatch` | replica rows hold bytes of the version of the object row |
| `NoneDangling` | no reap or clean-up destroys a blob the object refers to |
| `GetsNeverMix` | all chunks of a response are of one content |
| `GetExact` | a GET that no write overlaps sends the committed version |

The hypothesis is not a convenience: with a sweep these are false of the code,
which is what the run `sweep_overwrite` shows. Overwrites, copies, deletes,
bucket deletions, late replicas, lost blobs, disconnects and crashes are all in.

### `Serial_proofs` (`StoreAssumption`, `ProviderAssumption`)

Two properties of the store are promised only when requests and sweeps run one
after the other and the only fault is a host that drops a file; the theorems
assume exactly what the run `serial` sets, `Serial` and
`Faults \subseteq {"expire"}`. A late replica still arrives in the background of
its own PUT. On top of `IInv`, `SInv` says: one process is active, and late
replicas are of its PUT (`AloneInv`); the chunk map holds chunks of the object
only (`MapInv`); a late replica's chunk is behind its PUT's position, its
provider has no replica of that chunk, and after the commit the PUT's version is
the object and it will be appended (`LateInv`); what the active process has read
is what the store holds (`SnapInv`); every blob on a host is in the chunk map or
in the hands of the active process (`OwnInv`); chunks behind a sweep are
restored and what it is about to write back is live and enough (`RestInv`).
Refilling to R or to every provider rests on cardinalities (`RefillsEnough`),
hence the assumption that there are finitely many providers.

| Theorem | States, for requests one after the other |
|---|---|
| `NoneOrphaned` | nothing is left on a host that the chunk map does not name |
| `SweepsRestore` | a sweep that ends has restored every chunk with a live copy (an action property) |

Without these hypotheses both fail of the code: a deletion on a host that fails
is not retried, and section 3 names other ways to leave blobs behind.

### `Multipart_proofs` (`MultipartAssumption`)

`IInv`: a part row names a part upload of its number that has written it, and
an upload's blob is on its host until then (`RowInv`); what a part upload is to
reap was a row of the same part and is none any more when it reaps
(`PartReapInv`); the object's parts are in no row (`ObjectInv`); a completion
reaps the previous version or parts of an object, never a row's blob, and only
once the object row is no longer the previous version (`ObjectReapInv`); aborts
and the janitor read the blobs they purge once (`AbortInv`); the rows of an
undisturbed completion's listed parts stay
those it validated until it commits, and it collects these (`ListedInv`); and
nobody who may still reap has a part of it (`KeptInv`). The last two hold
through every step that leaves rows and collected parts alone (lemmas
`ListedFrame`, `ExactFrame`, `ControlStepKeeps`), so that only uploads, commits
and reads need a case of their own.

| Theorem | States |
|---|---|
| `TypeCorrect` | `TypeOK` |
| `PreviousVersionKept` | the version to be replaced stays until a completion commits |
| `PartRowsStored` | a part row's blob is on its host, unless an abort or the janitor set out to delete it |
| `CompletionExact` | a completion commits exactly the listed parts, unless an upload of one of them, an abort or another completion commits in between, or an abort purged the part |

### `RoundTrip_proofs` (`BodyAssumption`, `WindowAssumption`)

The upload's invariant `BInv`: the chunks stored so far hold the bytes read so
far up to the buffer, each at its offset, without gap or overlap (`Mapped` in
`ChunkInv`), the buffer holds the bytes after them (`BufInv`), and each way the
loop can end says what the wire did (`EndInv`).

The read's invariant `WInv`: the published map is such a map (`MapInv`); what
`Chunk` has collected is the window up to its position (`OutInv`); `inflight`
counts running attempts and uncollected results (`RaceInv`); a launched
candidate runs, failed, or sent the bytes (`RaceInv`, `WinInv`); a result that
may win is the piece, or a part of it from a truncated blob (`WinInv`); a chunk
whose turn is to come has no attempts yet (`FreshInv`).

| Theorem | States |
|---|---|
| `CommittedIsWhole` | what is committed is a finished body, of the declared length if any, whole and in place |
| `TypeCorrect` | `TypeOK` |
| `ReadImplementsPromise` | the hedged window read implements `WindowFetch` |

### `PrefetchReader_proofs` (`ReaderAssumption`)

First the arithmetic of `New` (lemmas `Cover`, `ChunkSizeFacts`,
`InitGeometry`): the windows cover the range, and the trimmed windows meet at
the bounds `Bounds[i]`. Then `PInv`:

- `WorkInv`, `SlotInv`, `DrainInv`, `ChanInv`: every claimed window is with
  exactly one worker, in its slot, with the drainer, in the channel, or
  consumed; buffers between the drainer and the consumer are consecutive and
  fill their bounds, unless a window came back short;
- `ReadInv`, `StatusInv`: the consumer's position is the number of bytes sent;
  a channel closed without cancellation has delivered every window or ends in an
  error;
- `FailInv`, `FirstInv`: as long as the request streams and is not cancelled, a
  failure that happened is still on its way in one of those places;
- `CountInv`: the index counter passes the number of windows once per worker
  that has stopped.

| Theorem | States |
|---|---|
| `TypeCorrect` | `TypeOK` |
| `DeliveredInOrder` | `BytesInOrder` |
| `EofComplete` | a stream that ends with `io.EOF` is complete, unless it was cancelled or a window came back short |
| `FirstFailureSeen` | a failing first window is seen before the status line |

### `Clients_proofs` (`KeyspaceAssumption`, `ListingAssumption`, `SampleAssumption`, `ResumeAssumption`)

The download. The lemmas say what `parseByteRange`, the preconditions and
`ifRangeAllows` give for every request; the invariant `GInv` says that the
client's validators are those of the version its bytes came from. It covers any
sizes, dates and number of versions.

The listing. The lemmas lead from the bytes of a key to a page:

- `LessTransitive`, `LessTotal`: keys are totally ordered, two of them compared
  at the first byte where they differ; `SortedFacts`: `ORDER BY key` lists a
  finite set once each, in increasing order;
- `StartsBetween`, `PrefixRange`: the keys under a prefix are an interval, and
  `prefixUpperBound` is its end, for prefixes that end in or consist of 0xff too;
- `EntryBetween`: the keys of one common prefix follow each other;
- `PageFacts`: a page shows the rows up to its cut and at most `max` entries,
  and no row behind the cut is listed by an entry of the page.

The invariant `WInv` relates the pages to the cursor: `SteadyInv` (what stayed
and is not ahead of the cursor has been shown), `AheadInv` (what is ahead has
not, but for a common prefix under which a key was put), `OnceInv` (the pages
are disjoint, with the same exception), `CursorInv` and `PagesInv` (the cursor
and what is shown are asked for). `SInv` is the sweep's: its cursor lies in the
list of objects.

| Theorem | States |
|---|---|
| `FilesAreOneVersion` | a file put together from answers of `getObject` is one version, unless its validator is a date and dates mislead |
| `WalksFaithful` | `WalkIsFaithful`: the pages miss nothing that stayed and repeat nothing |
| `TypeCorrect` | `TypeOK`; a page has at most `max` entries |

### Only model-checked

- Liveness (`EventuallyQuiet`, `PrimeReturns`, `CloseReleases`,
  `ReadComesToRest`, `EveryObjectIsVisited`): the provers handle no fairness.

## 5. What is not modelled

- Elapsed time: deadlines and timers may fire whenever they are set.
- Retries within a provider: an upload is one success or failure. What a lost
  answer leaves on a host is unknown to the code and to the model.
- Memory and connection limits.
- Header mapping of user metadata, XML answers, the listing of multipart
  uploads and parts, schema migration: string work and reads.
- The shutdown in `main.go`: it waits for the drainers (`EventuallyQuiet`) and
  leaves the rest to the end of the process, which is `Crash`.
- Provider adapters: request and response formats are pure I/O. Hosts appear as
  an environment that stores, loses and deletes blobs.
- Signatures, fixed subresources and CORS: string and cryptographic work without
  state.
- `cache`: unused by the rest of the program.
- Several keys at once: the handlers share nothing across keys but the pool,
  which `Pool` models for any interleaving of calls.

## 6. Plan

Done: the modules of section 2, their runs, and the proofs of section 4, which
cover every safety property of the passing runs.

Left: the liveness properties stay with TLC, and a theorem that the sweep's
window moves on by `Sample` objects each tick would be the safety half of
`EveryObjectIsVisited`.
