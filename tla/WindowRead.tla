----------------------------- MODULE WindowRead -----------------------------
(***************************************************************************)
(* One window of an object, read from its replicas: backendSource.Chunk    *)
(* (internal/reader/chunk_source.go), which cuts the window along the      *)
(* stored chunks, and Backend.DownloadRangeBytes (backend.go), which reads *)
(* each piece by a hedged race of the chunk's replicas.                    *)
(*                                                                         *)
(* The processes are the reader's worker, which runs Chunk, and one        *)
(* goroutine per started attempt.  An attempt outlives its race when       *)
(* another one wins; every race has a results channel of its own.  Elapsed *)
(* time is not modelled: the hedge timer may fire whenever it is armed.    *)
(***************************************************************************)
EXTENDS Integers, Sequences, FiniteSets

CONSTANTS
  ReplicaList,  \* the providers of a chunk's replicas, in replica_idx order
  EnabledSets,  \* which of them the pool may have enabled
  NoRange,      \* hosts that ignore the Range header and answer 200
  Truncating,   \* hosts that may have kept only a prefix of a blob
  Stuck,        \* hosts that may never finish an answer by themselves
  MaxBlob,      \* bound on the size of a stored chunk
  MaxWindow     \* bound on the length of a window

Replicas == {ReplicaList[k] : k \in 1..Len(ReplicaList)}

ASSUME WindowAssumption ==
  /\ ReplicaList \in Seq(Replicas)
  /\ \A k, l \in 1..Len(ReplicaList) : ReplicaList[k] = ReplicaList[l] => k = l
  /\ EnabledSets \subseteq SUBSET Replicas
  /\ NoRange \cup Truncating \cup Stuck \subseteq Replicas
  /\ {MaxBlob, MaxWindow} \subseteq Nat \ {0}

VARIABLES
  locs,       \* the chunk map: [offset, data] of each stored chunk
  objSize,    \* the size in the object row
  cands,      \* the replicas whose provider is enabled, in order
  keeps,      \* how many bytes of a blob each host kept, at most
  hedging,    \* a setting: hedgeDelay > 0
  lo, hi,     \* the window, cut off at objSize
  cur,        \* Chunk's position
  out,        \* the bytes Chunk has collected
  rpc,        \* "idle", "loop", "race"; "bytes", "error"
  loc,        \* the stored chunk being read (an index of locs)
  next,       \* how many candidates were launched
  inflight,   \* the race's count of attempts not collected
  hedge,      \* the hedge timer is armed
  running,    \* attempts <<chunk, replica>> that have not sent their result
  results,    \* per chunk: the contents of its race's results channel
  ctxDone,    \* the worker's context ended
  failed      \* history: the replicas that failed in this race

mapVars == <<locs, objSize, cands, keeps, hedging>>
chunkVars == <<lo, hi, cur, out, rpc>>
raceVars == <<loc, next, inflight, hedge>>
windowVars == <<mapVars, chunkVars, raceVars, running, results, ctxDone, failed>>

Min2(a, b) == IF a < b THEN a ELSE b

(* The replicas in on, in the order of the list. *)
Rank(r) == CHOOSE k \in 1..Len(ReplicaList) : ReplicaList[k] = r
InOrder(on) ==
  {c \in [1..Cardinality(on) -> on] :
     \A k, l \in 1..Cardinality(on) : k < l => Rank(c[k]) < Rank(c[l])}

(* Nothing is asked for yet. *)
WindowIdle ==
  /\ \E on \in EnabledSets : cands \in InOrder(on)
  /\ keeps = [r \in Replicas |-> MaxBlob]
  /\ hedging \in BOOLEAN
  /\ lo = 0 /\ hi = 0 /\ cur = 0 /\ out = << >> /\ rpc = "idle"
  /\ loc = 0 /\ next = 0 /\ inflight = 0 /\ hedge = FALSE
  /\ running = {} /\ results = << >> /\ ctxDone = FALSE /\ failed = {}

-----------------------------------------------------------------------------
(* Chunk. *)

Size(i) == Len(locs[i].data)

(* A window is asked for; a read past the object's end is cut off there.  By
   now hosts may have truncated blobs. *)
Chunk(from, limit) ==
  /\ rpc = "idle"
  /\ lo' = from /\ cur' = from
  /\ hi' = IF from >= objSize THEN from ELSE Min2(from + limit, objSize)
  /\ \E k \in 0..MaxBlob :
       keeps' = [r \in Replicas |-> IF r \in Truncating THEN k ELSE MaxBlob]
  /\ results' = [i \in 1..Len(locs) |-> << >>]
  /\ rpc' = "loop"
  /\ UNCHANGED <<locs, objSize, cands, hedging, out, raceVars, running, ctxDone, failed>>

(* locate: the last chunk that starts at or before the offset, if it reaches
   beyond it; 0 if there is none. *)
locate(off) ==
  LET S == {i \in 1..Len(locs) : locs[i].offset <= off}
      i == CHOOSE x \in S : \A y \in S : y <= x
  IN IF S = {} THEN 0
     ELSE IF off >= locs[i].offset + Size(i) THEN 0 ELSE i

localOff == cur - locs[loc].offset
ReadEnd(i) == Min2(locs[i].offset + Size(i), hi)
Want == ReadEnd(loc) - cur

(* Mutant: the timer is never armed. *)
armHedgeMutant(n) == FALSE
(* armHedge, after n candidates were launched: while there is another one, and
   unless the operator chose pure failover with a delay of 0. *)
armHedge(n) == n < Len(cands) /\ hedging

(* The next piece: locate its chunk and start the lead replica. *)
NextPiece ==
  /\ rpc = "loop" /\ cur < hi
  /\ LET i == locate(cur)
     IN IF i = 0 \/ cands = << >>
          THEN rpc' = "error" /\ UNCHANGED <<raceVars, running>>
          ELSE /\ rpc' = "race" /\ loc' = i
               /\ running' = running \cup {<<i, cands[1]>>}
               /\ next' = 1 /\ inflight' = 1
               /\ hedge' = armHedge(1)
  /\ failed' = {}
  /\ UNCHANGED <<mapVars, lo, hi, cur, out, results, ctxDone>>

(* The window is complete. *)
ChunkDone ==
  /\ rpc = "loop" /\ cur >= hi
  /\ rpc' = "bytes"
  /\ UNCHANGED <<mapVars, lo, hi, cur, out, raceVars, running, results, ctxDone, failed>>

-----------------------------------------------------------------------------
(* The attempts: readReplicaBytes over rangeGet. *)

(* The blob of chunk i that host r still has. *)
Blob(i, r) == SubSeq(locs[i].data, 1, Min2(keeps[r], Size(i)))

Failure == [ok |-> FALSE, data |-> << >>]

(* Mutant: the emulated window is not skipped to. *)
rangeGetMutant(blob, off, len, ranged) ==
  CASE ranged /\ off >= Len(blob) -> Failure
    [] ~ ranged /\ off > Len(blob) -> Failure
    [] ranged -> [ok |-> TRUE, data |-> SubSeq(blob, off + 1, Min2(off + len, Len(blob)))]
    [] OTHER -> [ok |-> TRUE, data |-> SubSeq(blob, 1, Min2(len, Len(blob)))]

(* rangeGet: with Range honoured (206) the body is the window, cut at the end
   of the blob, and an offset at or past the end is refused (416); with 200
   the window is emulated by skipping off bytes, which fails past the end but
   not at it, and limiting to len. *)
rangeGet(blob, off, len, ranged) ==
  IF off > Len(blob) \/ (ranged /\ off = Len(blob))
    THEN Failure
    ELSE [ok |-> TRUE, data |-> SubSeq(blob, off + 1, Min2(off + len, Len(blob)))]

(* The race that an attempt belongs to is still on. *)
Current(i) == rpc = "race" /\ loc = i

(* results has room for every candidate. *)
CanSend(i) == Len(results[i]) < Len(cands)

Send(i, r, res) ==
  /\ CanSend(i)
  /\ results' = [results EXCEPT ![i] = Append(@, res)]
  /\ running' = running \ {<<i, r>>}
  /\ failed' = IF Current(i) /\ ~ res.ok THEN failed \cup {r} ELSE failed
  /\ UNCHANGED <<mapVars, chunkVars, raceVars, ctxDone>>

(* The host answers.  (What a lost race would have read does not matter.) *)
AttemptOK(i, r) ==
  /\ <<i, r>> \in running
  /\ Send(i, r, IF Current(i)
                  THEN rangeGet(Blob(i, r), localOff, Want, r \notin NoRange)
                  ELSE Failure)

(* An error, the replica's deadline, or the race's cancelled context. *)
AttemptFails(i, r) ==
  /\ <<i, r>> \in running
  /\ Send(i, r, Failure)

-----------------------------------------------------------------------------
(* The race. *)

(* Start the next candidate and set the timer. *)
Launch ==
  /\ running' = running \cup {<<loc, cands[next + 1]>>}
  /\ next' = next + 1
  /\ hedge' = armHedge(next + 1)

(* The lead is slow: race the next replica against it. *)
Hedge ==
  /\ rpc = "race" /\ hedge
  /\ Launch
  /\ inflight' = inflight + 1
  /\ UNCHANGED <<mapVars, chunkVars, loc, results, ctxDone, failed>>

(* The first answer without an error wins and its race is cancelled; a piece
   that comes back short ends the window without an error. *)
CollectOK ==
  /\ rpc = "race" /\ results[loc] # << >> /\ Head(results[loc]).ok
  /\ LET b == Head(results[loc]).data
     IN /\ out' = out \o b
        /\ cur' = cur + Len(b)
        /\ rpc' = IF Len(b) < Want THEN "bytes" ELSE "loop"
  /\ results' = [results EXCEPT ![loc] = Tail(@)]
  /\ inflight' = inflight - 1 /\ hedge' = FALSE
  /\ UNCHANGED <<mapVars, lo, hi, loc, next, running, ctxDone, failed>>

(* A failed attempt brings in the next candidate; with none left and none in
   flight the read fails. *)
CollectError ==
  /\ rpc = "race" /\ results[loc] # << >> /\ ~ Head(results[loc]).ok
  /\ results' = [results EXCEPT ![loc] = Tail(@)]
  /\ IF next < Len(cands)
       THEN Launch /\ inflight' = inflight
       ELSE inflight' = inflight - 1 /\ UNCHANGED <<running, next, hedge>>
  /\ rpc' = IF inflight' = 0 THEN "error" ELSE "race"
  /\ UNCHANGED <<mapVars, lo, hi, cur, out, loc, ctxDone, failed>>

(* The worker's context ends (its deadline, a disconnect, Close). *)
CtxEnds ==
  /\ ~ ctxDone /\ rpc \in {"loop", "race"}
  /\ ctxDone' = TRUE
  /\ UNCHANGED <<mapVars, chunkVars, raceVars, running, results, failed>>

(* select sees it: the read returns at once. *)
RaceCancelled ==
  /\ rpc = "race" /\ ctxDone
  /\ rpc' = "error"
  /\ UNCHANGED <<mapVars, lo, hi, cur, out, raceVars, running, results, ctxDone, failed>>

-----------------------------------------------------------------------------
Pieces == 1..Len(locs)
AttemptStep(i, r) == AttemptOK(i, r) \/ AttemptFails(i, r)
WorkerStep == NextPiece \/ ChunkDone \/ CollectOK \/ CollectError

WindowStep ==
  \/ WorkerStep \/ Hedge \/ CtxEnds \/ RaceCancelled
  \/ \E i \in Pieces, r \in Replicas : AttemptStep(i, r)

(* The context of an attempt is cancelled: its race is over or ctx ended. *)
Cancelled(i) == ctxDone \/ ~ Current(i)

-----------------------------------------------------------------------------
WindowTypeOK ==
  /\ objSize \in Nat /\ lo \in 0..objSize /\ hi \in lo..objSize /\ cur \in lo..hi
  /\ cands \in Seq(Replicas)
  /\ keeps \in [Replicas -> 0..MaxBlob] /\ hedging \in BOOLEAN
  /\ rpc \in {"idle", "loop", "race", "bytes", "error"}
  /\ loc \in 0..Len(locs) /\ next \in 0..Len(cands) /\ inflight \in 0..next
  /\ hedge \in BOOLEAN /\ ctxDone \in BOOLEAN
  /\ running \subseteq Pieces \X Replicas /\ failed \subseteq Replicas

(* What a window read promises, with the bytes of the object named by their
   positions in its body. *)
Promise ==
  INSTANCE WindowFetch
    WITH wanted <- [k \in 1..hi - lo |-> lo + k - 1],
         answer <- IF rpc \in {"bytes", "error"} THEN rpc ELSE "none",
         bytes <- IF rpc = "bytes" THEN out ELSE << >>,
         cut <- \E i \in Pieces : \E k \in 1..Len(cands) : keeps[cands[k]] < Size(i),
         lost <- \/ ctxDone \/ cands = << >>
                 \/ \A k \in 1..Len(cands) : cands[k] \in failed

(* A window read keeps the promise of WindowFetch: through chunk boundaries
   inside the window, hosts that ignore Range and any race of slow, failing
   and truncated replicas the answer is the window's bytes, a prefix only when
   a host truncated a blob, and an error only when the context ended or every
   enabled replica of a chunk failed. *)
ReadKeepsPromise == Promise!Spec

(* The race waits for a host that hangs, and nothing but a deadline
   (replicaRead, the worker's context) ends that: every replica it may turn to
   hangs or has failed.  With hedging these are all, in pure failover those
   launched, for only a failure brings in another one. *)
LastHopeHangs ==
  /\ rpc = "race"
  /\ \E r \in Stuck : <<loc, r>> \in running
  /\ \A k \in 1..(IF hedging THEN Len(cands) ELSE next) : cands[k] \in Stuck \cup failed

(* A read returns although a host hangs, before any deadline, unless all the
   other replicas of the chunk failed: the hedge timer or a failure brings in
   the next one.  With hedging disabled it may wait for the one that hangs, but
   for no other.  And every attempt it started ends, the losers too: none is
   left blocked on its send. *)
ReadComesToRest ==
  rpc = "loop" ~> (rpc \in {"bytes", "error"} /\ running = {}) \/ LastHopeHangs
=============================================================================
