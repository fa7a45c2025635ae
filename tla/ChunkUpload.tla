----------------------------- MODULE ChunkUpload -----------------------------
(***************************************************************************)
(* Backend.uploadChunk of internal/storage/freehost/backend.go: one chunk  *)
(* is replicated to up to R providers.  The processes are                  *)
(*                                                                         *)
(*   - the caller, which launches the first R candidates and collects      *)
(*     outcomes until SyncN uploads succeeded;                             *)
(*   - one goroutine per launched candidate, which uploads the data on the *)
(*     server-lifetime context and sends its outcome on `results';         *)
(*   - the drainer, the goroutine uploadChunk leaves behind to collect the *)
(*     outstanding outcomes and to deliver late replicas to onExtra.       *)
(*                                                                         *)
(* onExtra is putObject's persistExtra, which waits on the channel `ready' *)
(* that the request handler closes when it returns.                        *)
(*                                                                         *)
(* Abstracted: the bytes, names, locators and timings of an upload.  A     *)
(* replica is the provider that holds it.  pool.candidates is used by what *)
(* it promises (module Selection); Pool models its computation.            *)
(***************************************************************************)
EXTENDS Selection, FiniteSets

CONSTANTS
  Providers,      \* the enabled providers
  R,              \* Backend.replicas
  SyncReplicas,   \* the syncN argument, before uploadChunk clamps it
  NoReplica       \* the outcome of a failed upload: carries no replica

ASSUME UploadAssumption ==
  /\ IsFiniteSet(Providers)
  /\ Durable \subseteq Providers
  /\ R \in Nat \ {0}
  /\ SyncReplicas \in Nat
  /\ FailThreshold \in Nat \ {0}
  /\ NoReplica \notin Providers

VARIABLES
  caller,     \* control state of the calling goroutine
  drainer,    \* control state of the background goroutine
  cands,      \* the candidate providers, in selection order
  launched,   \* how many candidates were started (guarded by mu)
  inflight,   \* the caller's count of started uploads
  collected,  \* the caller's count of received outcomes
  remaining,  \* the drainer's count of outcomes still to receive
  total,      \* the drainer's count of successful replicas
  running,    \* providers whose upload goroutine has not sent its outcome
  stored,     \* providers that confirmed a blob of the chunk
  results,    \* contents of the buffered channel `results'
  synced,     \* replicas returned to the caller
  pending,    \* the replica the drainer is delivering, or NoReplica
  extras,     \* replicas delivered to onExtra, in order
  ready,      \* the handler returned: persistExtra no longer waits
  fails       \* pool.fails: consecutive failures per provider

callerVars == <<caller, inflight, collected, synced>>
drainerVars == <<drainer, remaining, total, pending, extras>>
uploadVars == <<running, stored, fails>>
vars == <<callerVars, drainerVars, uploadVars, cands, launched, results, ready>>

(* backend.go 168-170: a syncN out of range means "wait for all R". *)
SyncN == IF SyncReplicas < 1 \/ SyncReplicas > R THEN R ELSE SyncReplicas

-----------------------------------------------------------------------------
(* What pool.candidates may return when these providers can hold the chunk.
   The round-robin position is left open: other uploads advance it. *)
CandidateOrders(eligible) ==
  {c \in [1..Cardinality(eligible) -> eligible] : CandidateOrder(fails, eligible, c)}

-----------------------------------------------------------------------------
(* The first n candidates' goroutines: for launched < R && launchNext() {} *)
InitialLaunch(c) == IF Len(c) < R THEN Len(c) ELSE R

Init ==
  /\ caller = "start"
  /\ drainer = "none"
  /\ cands = << >>
  /\ launched = 0 /\ inflight = 0 /\ collected = 0
  /\ remaining = 0 /\ total = 0
  /\ running = {} /\ stored = {}
  /\ results = << >>
  /\ synced = << >> /\ extras = << >> /\ pending = NoReplica
  /\ ready = FALSE
  /\ fails \in [Providers -> 0..FailThreshold]

(* Launch the first R of the candidates c; with no candidate, fail. *)
StartWith(c) ==
  /\ cands' = c
  /\ launched' = InitialLaunch(c)
  /\ inflight' = InitialLaunch(c)
  /\ running' = {c[i] : i \in 1..InitialLaunch(c)}
  /\ caller' = IF c = << >> THEN "failed" ELSE "collect"
  /\ UNCHANGED <<collected, synced, drainerVars, stored, fails, results, ready>>

(* Select the candidates for a chunk of some size. *)
Start ==
  /\ caller = "start"
  /\ \E eligible \in SUBSET Providers :
       \E c \in CandidateOrders(eligible) : StartWith(c)

-----------------------------------------------------------------------------
(* The upload goroutines. *)

CanSendMutant == Len(results) < SyncN  \* Mutant: a buffer for the caller only
CanSend == Len(results) < Len(cands)   \* results has capacity len(cands)

(* prov.Upload succeeds: the blob exists, markHealthy, send the replica. *)
UploadOK(p) ==
  /\ p \in running
  /\ CanSend
  /\ stored' = stored \cup {p}
  /\ fails' = [fails EXCEPT ![p] = 0]
  /\ results' = Append(results, p)
  /\ running' = running \ {p}
  /\ UNCHANGED <<callerVars, drainerVars, cands, launched, ready>>

(* prov.Upload fails after its retries: markFailed, send an empty outcome.  A
   blob the host kept although the answer got lost is not counted. *)
UploadFail(p) ==
  /\ p \in running
  /\ CanSend
  /\ fails' = [fails EXCEPT ![p] = @ + 1]
  /\ results' = Append(results, NoReplica)
  /\ running' = running \ {p}
  /\ UNCHANGED <<callerVars, drainerVars, stored, cands, launched, ready>>

(* Mutant: no candidate beyond the first R is used. *)
MoreCandidatesMutant == launched < Len(cands) /\ launched < R

(* launchNext: start the next unused candidate, if there is one. *)
MoreCandidates == launched < Len(cands)

(* Mutant: off by one, the latest candidate is started again. *)
LaunchNextMutant ==
  IF MoreCandidates
    THEN /\ launched' = launched + 1
         /\ running' = running \cup {cands[launched]}
    ELSE UNCHANGED <<launched, running>>

LaunchNext ==
  IF MoreCandidates
    THEN /\ launched' = launched + 1
         /\ running' = running \cup {cands[launched + 1]}
    ELSE UNCHANGED <<launched, running>>

-----------------------------------------------------------------------------
(* The caller. *)

Collecting ==
  /\ caller = "collect"
  /\ Len(synced) < SyncN
  /\ collected < inflight

(* A received outcome is a replica: keep it. *)
CollectOK ==
  /\ Collecting
  /\ results # << >>
  /\ Head(results) # NoReplica
  /\ collected' = collected + 1
  /\ synced' = Append(synced, Head(results))
  /\ results' = Tail(results)
  /\ UNCHANGED <<caller, inflight, drainerVars, uploadVars, cands, launched, ready>>

(* Mutant: a replacement upload is started but not counted. *)
CollectFailMutant ==
  /\ Collecting
  /\ results # << >>
  /\ Head(results) = NoReplica
  /\ collected' = collected + 1
  /\ results' = Tail(results)
  /\ LaunchNext
  /\ UNCHANGED <<inflight, caller, synced, drainerVars, stored, fails, cands, ready>>

(* A received outcome is a failure: pull in the next candidate. *)
CollectFail ==
  /\ Collecting
  /\ results # << >>
  /\ Head(results) = NoReplica
  /\ collected' = collected + 1
  /\ results' = Tail(results)
  /\ LaunchNext
  /\ inflight' = IF MoreCandidates THEN inflight + 1 ELSE inflight
  /\ UNCHANGED <<caller, synced, drainerVars, stored, fails, cands, ready>>

(* The request context ends during the wait: return at once.  The running
   uploads go on and nothing will collect their outcomes. *)
CtxDone ==
  /\ Collecting
  /\ caller' = "cancelled"
  /\ UNCHANGED <<inflight, collected, synced, drainerVars, uploadVars, cands,
                 launched, results, ready>>

(* Mutant: an empty result is answered as a success. *)
ReturnMutant ==
  /\ caller = "collect"
  /\ ~ Collecting
  /\ caller' = "ok"
  /\ UNCHANGED <<inflight, collected, synced, drainerVars, uploadVars,
                 cands, launched, results, ready>>

(* The wait is over: fail if no upload succeeded, else answer and leave the
   outstanding outcomes to the drainer. *)
Return ==
  /\ caller = "collect"
  /\ ~ Collecting
  /\ caller' = IF synced = << >> THEN "failed" ELSE "ok"
  /\ LET rest == inflight - collected
     IN IF synced # << >> /\ rest > 0
          THEN /\ drainer' = "run"
               /\ remaining' = rest
               /\ total' = Len(synced)
          ELSE UNCHANGED <<drainer, remaining, total>>
  /\ UNCHANGED <<inflight, collected, synced, pending, extras, uploadVars,
                 cands, launched, results, ready>>

(* Mutant: only the error paths close `ready'. *)
CloseReadyMutant ==
  /\ caller \in {"failed", "cancelled"}
  /\ ~ ready
  /\ ready' = TRUE
  /\ UNCHANGED <<callerVars, drainerVars, uploadVars, cands, launched, results>>

(* The handler that called uploadChunk returns and closes `ready'. *)
CloseReady ==
  /\ caller \in {"ok", "failed", "cancelled"}
  /\ ~ ready
  /\ ready' = TRUE
  /\ UNCHANGED <<callerVars, drainerVars, uploadVars, cands, launched, results>>

-----------------------------------------------------------------------------
(* The drainer. *)

Draining ==
  /\ drainer = "run"
  /\ remaining > 0
  /\ results # << >>

(* Mutant: every late outcome is delivered, failed or not. *)
DrainOKMutant ==
  /\ Draining
  /\ results' = Tail(results)
  /\ remaining' = remaining - 1
  /\ total' = total + 1
  /\ drainer' = "extra"
  /\ pending' = Head(results)
  /\ UNCHANGED <<callerVars, extras, uploadVars, cands, launched, ready>>

(* A late replica landed: count it and call onExtra, which may block. *)
DrainOK ==
  /\ Draining
  /\ Head(results) # NoReplica
  /\ results' = Tail(results)
  /\ remaining' = remaining - 1
  /\ total' = total + 1
  /\ drainer' = "extra"
  /\ pending' = Head(results)
  /\ UNCHANGED <<callerVars, extras, uploadVars, cands, launched, ready>>

(* persistExtra gets past `ready' and the call returns. *)
DeliverExtra ==
  /\ drainer = "extra"
  /\ ready
  /\ extras' = Append(extras, pending)
  /\ pending' = NoReplica
  /\ drainer' = "run"
  /\ UNCHANGED <<callerVars, remaining, total, uploadVars, cands, launched,
                 results, ready>>

(* Mutant: late failures are not replaced. *)
DrainFailMutant ==
  /\ Draining
  /\ Head(results) = NoReplica
  /\ results' = Tail(results)
  /\ remaining' = remaining - 1
  /\ UNCHANGED <<launched, running, callerVars, drainer, total, pending, extras,
                 stored, fails, cands, ready>>

(* A late upload failed: top up towards R with the next candidate. *)
DrainFail ==
  /\ Draining
  /\ Head(results) = NoReplica
  /\ results' = Tail(results)
  /\ IF total < R
       THEN /\ LaunchNext
            /\ remaining' = IF MoreCandidates THEN remaining ELSE remaining - 1
       ELSE /\ UNCHANGED <<launched, running>>
            /\ remaining' = remaining - 1
  /\ UNCHANGED <<callerVars, drainer, total, pending, extras, stored, fails,
                 cands, ready>>

DrainDone ==
  /\ drainer = "run"
  /\ remaining = 0
  /\ drainer' = "done"
  /\ UNCHANGED <<callerVars, remaining, total, pending, extras, uploadVars,
                 cands, launched, results, ready>>

-----------------------------------------------------------------------------
CallerStep == Start \/ CollectOK \/ CollectFail \/ CtxDone \/ Return \/ CloseReady
DrainerStep == DrainOK \/ DeliverExtra \/ DrainFail \/ DrainDone
UploadStep(p) == UploadOK(p) \/ UploadFail(p)

Next ==
  \/ CallerStep
  \/ DrainerStep
  \/ \E p \in Providers : UploadStep(p)

(* Every HTTP upload is bounded by a timeout and a retry limit, so a running
   upload ends and the runtime lets it send when the channel has room.  The
   goroutines of the caller, the handler and the drainer are scheduled.
   Nothing makes a client disconnect: CtxDone is not required to happen. *)
Fairness ==
  /\ \A p \in Providers : WF_vars(UploadStep(p))
  /\ WF_vars(Start \/ CollectOK \/ CollectFail \/ Return)
  /\ WF_vars(CloseReady)
  /\ WF_vars(DrainerStep)

Spec == Init /\ [][Next]_vars

FairSpec == Spec /\ Fairness

-----------------------------------------------------------------------------
(* Properties. *)

Registered == synced \o extras   \* replicas the metadata can learn of

(* Outcomes on their way: buffered in the channel or still being produced. *)
Outstanding == Len(results) + Cardinality(running)

(* The replica, if any, that the drainer holds while onExtra blocks. *)
Held == IF pending = NoReplica THEN 0 ELSE 1

(* Type invariant. *)
TypeOK ==
  /\ caller \in {"start", "collect", "ok", "failed", "cancelled"}
  /\ drainer \in {"none", "run", "extra", "done"}
  /\ cands \in Seq(Providers)
  /\ launched \in Nat /\ inflight \in Nat /\ collected \in Nat
  /\ remaining \in Nat /\ total \in Nat
  /\ running \subseteq Providers /\ stored \subseteq Providers
  /\ results \in Seq(Providers \cup {NoReplica})
  /\ synced \in Seq(Providers) /\ extras \in Seq(Providers)
  /\ pending \in Providers \cup {NoReplica}
  /\ drainer = "extra" => pending \in Providers
  /\ ready \in BOOLEAN
  /\ fails \in [Providers -> Nat]

(* The counters of backend.go 208-248 agree with the goroutines: whoever is
   collecting waits for exactly the outcomes still to come, so neither loop
   can stop early and lose a replica, or wait for an outcome nobody sends. *)
CountsOutstanding ==
  /\ caller = "collect" => inflight - collected = Outstanding
  /\ drainer \in {"run", "extra"} => remaining = Outstanding
  /\ drainer = "done" => Outstanding = 0

(* At most R replicas are stored or on their way. *)
AtMostR == Cardinality(stored) + Cardinality(running) <= R

(* Less than R are confirmed or on their way only when no candidate is left. *)
TopsUpToR ==
  \/ caller \in {"start", "cancelled"}
  \/ launched = Len(cands)
  \/ Len(synced) + Len(extras) + Held + Outstanding = R

(* Replication aims at exactly R.  A chunk never has more than R confirmed
   replicas, uploads in progress and undelivered outcomes included, although
   failures keep pulling in new candidates from two places; and it stops short
   of R only when no candidate is left: every failure was replaced while a
   replacement existed. *)
ReplicaBudget == AtMostR /\ TopsUpToR

(* The channel is sized so that no upload goroutine ever blocks on its send
   (backend.go 176, 238-240), in particular not after the caller left. *)
SendNeverBlocks == running # {} => CanSend

(* An error means that no host confirmed the chunk: every eligible provider was
   tried and failed.  (A disconnect is not such an error.) *)
FailureIsTotal ==
  caller = "failed" =>
    /\ stored = {} /\ running = {}
    /\ launched = Len(cands)

(* What the caller is told is true: every replica returned or delivered late
   is a stored blob, at most one per provider. *)
RegisteredAreStored ==
  /\ Image(Registered) \subseteq stored
  /\ NoDuplicates(Registered)

(* On the synchronous path (syncN >= R: Upload, used by copies and parts) the
   answer is final: onExtra is never called and nothing stays in flight
   (backend.go 158-159). *)
SynchronousPathIsFinal ==
  caller = "ok" /\ SyncN = R => drainer = "none" /\ Outstanding = 0

(* pool.go 53-55: while a durable provider is healthy and can hold the chunk,
   the first uploads launched include a durable one. *)
HealthyDurableIsTried ==
  [][caller = "start" =>
       ((\E p \in Image(cands') \cap Durable : Healthy(fails, p))
          => running' \cap Durable # {})]_vars

(* Every call comes to rest: the caller has an answer, every upload goroutine
   has ended, and the drainer, if any, has delivered everything. *)
EventuallyQuiet ==
  <>[](/\ caller \in {"ok", "failed", "cancelled"}
       /\ running = {}
       /\ drainer \in {"none", "done"}
       /\ caller = "ok" => Image(Registered) = stored)

-----------------------------------------------------------------------------
(* The inductive invariant behind the properties. *)

(* Which control states of the caller and of the drainer go together, and
   what is still at its initial value in them. *)
ControlInv ==
  /\ caller = "start" =>
       /\ launched = 0 /\ inflight = 0 /\ collected = 0 /\ cands = << >>
       /\ running = {} /\ results = << >> /\ synced = << >>
  /\ drainer # "none" => caller = "ok"
  /\ drainer = "none" => extras = << >>
  /\ pending # NoReplica <=> drainer = "extra"
  /\ caller = "failed" => synced = << >>
  /\ caller = "ok" => synced # << >>

(* The counters against the goroutines and the channel. *)
CountInv ==
  /\ launched <= Len(cands)
  /\ Outstanding <= launched
  /\ Len(synced) <= SyncN
  /\ caller = "collect" => inflight = launched /\ launched = collected + Outstanding
  /\ drainer \in {"run", "extra"} =>
       /\ remaining = Outstanding
       /\ total = Len(synced) + Len(extras) + Held
  /\ drainer = "done" => Outstanding = 0
  /\ drainer = "none" /\ caller \in {"ok", "failed"} => Outstanding = 0

(* Replicas obtained or still possible: never above R, and below it only
   when every candidate has been used. *)
BudgetInv ==
  /\ Len(synced) + Len(extras) + Held + Outstanding <= R
  /\ TopsUpToR

(* Where each stored replica is recorded: in exactly one place. *)
PlacementInv ==
  /\ NoDuplicates(cands)
  /\ running \cup stored \subseteq {cands[i] : i \in 1..launched}
  /\ running \cap stored = {}
  /\ stored = Image(synced) \cup Image(extras)
                 \cup ((Image(results) \cup {pending}) \ {NoReplica})

(* ... and recorded once. *)
OnceInv ==
  /\ NoDuplicates(synced) /\ NoDuplicates(extras)
  /\ \A i, j \in 1..Len(results) :
       results[i] = results[j] /\ results[i] # NoReplica => i = j
  /\ Image(synced) \cap Image(extras) = {}
  /\ Image(results) \cap (Image(synced) \cup Image(extras)) = {}
  /\ pending \notin Image(synced) \cup Image(extras)
  /\ pending # NoReplica => pending \notin Image(results)

(* No drainer on the synchronous path (for SynchronousPathIsFinal). *)
SyncInv == SyncN = R /\ caller = "ok" => drainer = "none"

IInv ==
  TypeOK /\ ControlInv /\ CountInv /\ BudgetInv /\ PlacementInv /\ OnceInv

-----------------------------------------------------------------------------
(* The promise to the caller. *)
Promise ==
  INSTANCE ChunkReplication
    WITH status <- CASE caller = "ok" -> "acked"
                     [] caller \in {"failed", "cancelled"} -> "failed"
                     [] OTHER -> "pending",
         replicas <- IF caller = "ok" THEN Image(Registered) ELSE {}

(* uploadChunk implements ChunkReplication. *)
KeepsPromise == Promise!Spec

=============================================================================
