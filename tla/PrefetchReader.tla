--------------------------- MODULE PrefetchReader ---------------------------
(***************************************************************************)
(* The parallel-prefetch reader (internal/reader) as streamObject          *)
(* (internal/s3api/handler.go) uses it: a pool of workers fetches aligned  *)
(* windows of the object out of order, a drainer hands them on in order,   *)
(* and the request's goroutine primes the stream, commits the status line, *)
(* copies the bytes to the client and closes the reader.                   *)
(*                                                                         *)
(* A byte is its object-space offset.  A buffer is the run of bytes        *)
(* lo .. hi - 1, or an error.  A window of the ChunkSource may come back   *)
(* whole, short (a truncated replica) or as an error: the promise of       *)
(* WindowFetch, which WindowRead is checked to keep.                       *)
(***************************************************************************)
EXTENDS Integers, Sequences, FiniteSets

CONSTANTS
  Workers,     \* worker goroutines (the configured concurrency)
  OutBuffers,  \* capacity of the ordered delivery channel
  ObjSize,     \* size of the object
  Ranges,      \* the ranges <<start, end>> that may be asked for
  StreamChunk, \* configured prefetch window
  MinChunk,    \* the floor of the window (64 KiB)
  ReadSize,    \* length of the slice the consumer passes to Read
  Faults,      \* what may go wrong: "fetch", "short", "cancel", "write"
  None         \* an empty slot

(* A buffer: the bytes lo .. hi - 1 of the object, or an error. *)
Buffers == [lo : 0..ObjSize, hi : 0..ObjSize, err : {"nil", "fetch", "ctx"}]

ASSUME ReaderAssumption ==
  /\ IsFiniteSet(Workers) /\ Workers # {}
  /\ {OutBuffers, ObjSize, StreamChunk, MinChunk, ReadSize} \subseteq Nat \ {0}
  /\ \A r \in Ranges : r[1] \in 0..ObjSize /\ r[2] \in r[1]..ObjSize
  /\ Faults \subseteq {"fetch", "short", "cancel", "write"}
  /\ None \notin Buffers

VARIABLES
  start, end,  \* the requested range [start, end)
  chunkSize, alignedStart, nChunks,  \* its windows, fixed by New
  idx,         \* the workers' shared index counter
  wpc,         \* control state of each worker
  wi,          \* the window each worker is on
  wbuf,        \* the buffer each worker is about to publish
  results,     \* results[i]: the slot (capacity 1) of window i
  dpc, di,     \* the drainer: control state and window
  dbuf,        \* the buffer the drainer is about to deliver
  out, closed, \* the delivery channel
  ctxDone,     \* the reader's context is cancelled
  cpc,         \* the consumer: "prime", "read", "close", "wait", "closed"
  cur,         \* the buffer Read is draining
  err,         \* the sticky read error: "nil", "EOF", "fetch" or "ctx"
  status,      \* the committed status line: "none", "ok" or "502"
  sent,        \* bytes copied to the client, in order
  sink,        \* Close's draining goroutine: "off", "on" or "done"
  trouble      \* history of what went wrong; "first": window 0 failed

rangeVars == <<start, end, chunkSize, alignedStart, nChunks>>
fetchVars == <<idx, wpc, wi, wbuf>>
drainVars == <<dpc, di, dbuf, closed>>
readVars == <<cpc, cur, err, status, sent, sink>>
vars == <<rangeVars, fetchVars, results, drainVars, out, ctxDone, readVars, trouble>>

Smaller(a, b) == IF a < b THEN a ELSE b
Larger(a, b) == IF a < b THEN b ELSE a

-----------------------------------------------------------------------------
(* Geometry of a range. *)

(* ChunkSource.ChunkSize: the configured window, halved while it is above the
   floor and more than twice the span.  A run of its loop is the sequence of
   the values cs takes. *)
Halves(cs, span) == cs > MinChunk /\ cs > 2 * span /\ span > 0
ChunkSizeRuns(span) ==
  {h \in UNION {[1..n -> 0..StreamChunk] : n \in 1..StreamChunk} :
     /\ h[1] = StreamChunk
     /\ \A k \in 1..Len(h) - 1 : Halves(h[k], span) /\ h[k + 1] = h[k] \div 2
     /\ ~ Halves(h[Len(h)], span)}

(* Number of windows from first, a window boundary, that cover up to e. *)
Windows(first, e, size) ==
  LET rem == e % size
      alignedEnd == IF rem # 0 THEN e + (size - rem) ELSE e
  IN (alignedEnd - first) \div size

Offset(i) == alignedStart + i * chunkSize
Indices == 0..nChunks - 1

Data(lo, hi) == [lo |-> lo, hi |-> hi, err |-> "nil"]
Error(e) == [lo |-> 0, hi |-> 0, err |-> e]

(* The whole window i: a read past the object's end is cut off there. *)
Window(i) == Data(Offset(i), Smaller(Offset(i) + chunkSize, ObjSize))

(* The part of a buffer inside [start, end). *)
Trim(b) ==
  LET lo == Larger(b.lo, start)
      hi == Smaller(b.hi, end)
  IN IF hi <= lo THEN Data(lo, lo) ELSE Data(lo, hi)

-----------------------------------------------------------------------------
(* New: workers and drainer start; an empty range has neither. *)
Init ==
  /\ \E r \in Ranges : start = r[1] /\ end = r[2]
  /\ \E h \in ChunkSizeRuns(end - start) : chunkSize = h[Len(h)]
  /\ alignedStart = start - (start % chunkSize)
  /\ nChunks = IF start >= end THEN 0 ELSE Windows(alignedStart, end, chunkSize)
  /\ idx = 0
  /\ wpc \in [Workers -> {"claim", "done"}]
  /\ Cardinality({w \in Workers : wpc[w] = "claim"}) =
       Smaller(nChunks, Cardinality(Workers))
  /\ wi = [w \in Workers |-> 0]
  /\ wbuf = [w \in Workers |-> None]
  /\ results = [i \in Indices |-> None]
  /\ dpc = (IF nChunks = 0 THEN "done" ELSE "recv")
  /\ di = 0 /\ dbuf = None
  /\ out = <<>> /\ closed = (nChunks = 0)
  /\ ctxDone = FALSE
  /\ cpc = "prime" /\ cur = None /\ err = "nil"
  /\ status = "none" /\ sent = <<>> /\ sink = "off"
  /\ trouble = {}

-----------------------------------------------------------------------------
(* worker *)

(* Mutant: the bound is checked one index too late. *)
ClaimMutant(w) ==
  /\ wpc[w] = "claim"
  /\ idx' = idx + 1
  /\ wi' = [wi EXCEPT ![w] = idx]
  /\ wpc' = [wpc EXCEPT ![w] = IF idx > nChunks THEN "done" ELSE "check"]
  /\ UNCHANGED <<rangeVars, wbuf, results, drainVars, out, ctxDone, readVars, trouble>>

Claim(w) ==
  /\ wpc[w] = "claim"
  /\ idx' = idx + 1
  /\ IF idx >= nChunks
       THEN wpc' = [wpc EXCEPT ![w] = "done"] /\ UNCHANGED wi
       ELSE wpc' = [wpc EXCEPT ![w] = "check"] /\ wi' = [wi EXCEPT ![w] = idx]
  /\ UNCHANGED <<rangeVars, wbuf, results, drainVars, out, ctxDone, readVars, trouble>>

(* A cancelled worker publishes the cancellation, if the slot is free. *)
CheckCtx(w) ==
  /\ wpc[w] = "check"
  /\ IF ctxDone
       THEN /\ wpc' = [wpc EXCEPT ![w] = "done"]
            /\ results' = [results EXCEPT ![wi[w]] = IF @ = None THEN Error("ctx") ELSE @]
       ELSE wpc' = [wpc EXCEPT ![w] = "fetch"] /\ UNCHANGED results
  /\ UNCHANGED <<rangeVars, idx, wi, wbuf, drainVars, out, ctxDone, readVars, trouble>>

(* ChunkSource.Chunk returns: the window, a prefix of it, or an error (of the
   hosts, of the window's timeout or of the cancelled context). *)
Fetched(w, b, t) ==
  /\ wpc[w] = "fetch"
  /\ wbuf' = [wbuf EXCEPT ![w] = b]
  /\ wpc' = [wpc EXCEPT ![w] = "send"]
  /\ trouble' = trouble \cup t
  /\ UNCHANGED <<rangeVars, idx, wi, results, drainVars, out, ctxDone, readVars>>

Fetch(w) == Fetched(w, Window(wi[w]), {})

FetchShort(w) ==
  /\ "short" \in Faults
  /\ \E hi \in Offset(wi[w])..Window(wi[w]).hi - 1 :
       Fetched(w, Data(Offset(wi[w]), hi), {"short"})

FetchFails(w) ==
  /\ "fetch" \in Faults \/ ctxDone
  /\ Fetched(w, Error("fetch"), IF wi[w] = 0 THEN {"fetch", "first"} ELSE {"fetch"})

(* Mutant: a worker that failed stops without publishing its error. *)
PublishMutant(w) ==
  /\ wpc[w] = "send" /\ results[wi[w]] = None
  /\ IF wbuf[w].err # "nil"
       THEN UNCHANGED results /\ wpc' = [wpc EXCEPT ![w] = "done"]
       ELSE /\ results' = [results EXCEPT ![wi[w]] = wbuf[w]]
            /\ wpc' = [wpc EXCEPT ![w] = "claim"]
  /\ wbuf' = [wbuf EXCEPT ![w] = None]
  /\ UNCHANGED <<rangeVars, idx, wi, drainVars, out, ctxDone, readVars, trouble>>

Publish(w) ==
  /\ wpc[w] = "send" /\ results[wi[w]] = None
  /\ results' = [results EXCEPT ![wi[w]] = wbuf[w]]
  /\ wbuf' = [wbuf EXCEPT ![w] = None]
  /\ wpc' = [wpc EXCEPT ![w] = "claim"]
  /\ UNCHANGED <<rangeVars, idx, wi, drainVars, out, ctxDone, readVars, trouble>>

(* select prefers neither side: a cancelled worker may drop its buffer. *)
Abandon(w) ==
  /\ wpc[w] = "send" /\ ctxDone
  /\ wbuf' = [wbuf EXCEPT ![w] = None]
  /\ wpc' = [wpc EXCEPT ![w] = "done"]
  /\ UNCHANGED <<rangeVars, idx, wi, results, drainVars, out, ctxDone, readVars, trouble>>

-----------------------------------------------------------------------------
(* drain *)

(* Mutant: takes whichever window is ready. *)
DrainRecvMutant ==
  /\ dpc = "recv"
  /\ \E i \in Indices :
       /\ results[i] # None
       /\ dbuf' = IF results[i].err # "nil" THEN results[i] ELSE Trim(results[i])
       /\ results' = [results EXCEPT ![i] = None]
  /\ dpc' = "deliver"
  /\ UNCHANGED <<rangeVars, fetchVars, di, closed, out, ctxDone, readVars, trouble>>

DrainRecv ==
  /\ dpc = "recv" /\ results[di] # None
  /\ dbuf' = IF results[di].err # "nil" THEN results[di] ELSE Trim(results[di])
  /\ results' = [results EXCEPT ![di] = None]
  /\ dpc' = "deliver"
  /\ UNCHANGED <<rangeVars, fetchVars, di, closed, out, ctxDone, readVars, trouble>>

(* Mutant: an error ends the stream without being delivered. *)
DeliverMutant ==
  /\ dpc = "deliver" /\ Len(out) < OutBuffers
  /\ out' = IF dbuf.err # "nil" THEN out ELSE Append(out, dbuf)
  /\ dbuf' = None /\ di' = di + 1
  /\ LET last == dbuf.err # "nil" \/ di + 1 = nChunks
     IN dpc' = (IF last THEN "done" ELSE "recv") /\ closed' = last
  /\ UNCHANGED <<rangeVars, fetchVars, results, ctxDone, readVars, trouble>>

(* After an error, and after the last window, the channel is closed. *)
Deliver ==
  /\ dpc = "deliver" /\ Len(out) < OutBuffers
  /\ out' = Append(out, dbuf)
  /\ dbuf' = None /\ di' = di + 1
  /\ LET last == dbuf.err # "nil" \/ di + 1 = nChunks
     IN dpc' = (IF last THEN "done" ELSE "recv") /\ closed' = last
  /\ UNCHANGED <<rangeVars, fetchVars, results, ctxDone, readVars, trouble>>

(* Mutant: the receive does not watch the context. *)
DrainCancelledMutant ==
  /\ dpc = "deliver" /\ ctxDone
  /\ dpc' = "done" /\ closed' = TRUE /\ dbuf' = None
  /\ UNCHANGED <<rangeVars, fetchVars, results, di, out, ctxDone, readVars, trouble>>

DrainCancelled ==
  /\ dpc \in {"recv", "deliver"} /\ ctxDone
  /\ dpc' = "done" /\ closed' = TRUE /\ dbuf' = None
  /\ UNCHANGED <<rangeVars, fetchVars, results, di, out, ctxDone, readVars, trouble>>

-----------------------------------------------------------------------------
(* streamObject: Prime, headers, io.Copy, deferred Close. *)

(* Mutant: the status line is committed before the stream is primed. *)
PrimeMutant ==
  /\ cpc = "prime"
  /\ \/ /\ out # <<>>
        /\ out' = Tail(out)
        /\ IF Head(out).err # "nil"
             THEN cpc' = "close" /\ err' = Head(out).err /\ UNCHANGED cur
             ELSE cpc' = "read" /\ cur' = Head(out) /\ UNCHANGED err
     \/ out = <<>> /\ closed /\ cpc' = "read" /\ UNCHANGED <<out, cur, err>>
  /\ status' = "ok"
  /\ UNCHANGED <<rangeVars, fetchVars, results, drainVars, ctxDone, sent, sink, trouble>>

Prime ==
  /\ cpc = "prime"
  /\ \/ /\ out # <<>>
        /\ out' = Tail(out)
        /\ IF Head(out).err # "nil"
             THEN cpc' = "close" /\ err' = Head(out).err /\ status' = "502" /\ UNCHANGED cur
             ELSE cpc' = "read" /\ cur' = Head(out) /\ status' = "ok" /\ UNCHANGED err
     \/ /\ out = <<>> /\ closed          \* io.EOF is no failure
        /\ cpc' = "read" /\ status' = "ok"
        /\ UNCHANGED <<out, cur, err>>
  /\ UNCHANGED <<rangeVars, fetchVars, results, drainVars, ctxDone, sent, sink, trouble>>

(* Read waits for the next buffer; an error or the end of the stream ends the
   copy. *)
ReadNext ==
  /\ cpc = "read" /\ cur = None
  /\ \/ /\ out # <<>>
        /\ out' = Tail(out)
        /\ IF Head(out).err # "nil"
             THEN cpc' = "close" /\ err' = Head(out).err /\ UNCHANGED cur
             ELSE cur' = Head(out) /\ UNCHANGED <<cpc, err>>
     \/ /\ out = <<>> /\ closed
        /\ cpc' = "close" /\ err' = "EOF"
        /\ UNCHANGED <<out, cur>>
  /\ UNCHANGED <<rangeVars, fetchVars, results, drainVars, ctxDone, status, sent, sink, trouble>>

(* Read copies at most ReadSize bytes and io.Copy writes them on; an empty
   buffer is dropped. *)
ReadSome ==
  /\ cpc = "read" /\ cur # None
  /\ IF cur.lo >= cur.hi
       THEN cur' = None /\ UNCHANGED sent
       ELSE LET n == Smaller(ReadSize, cur.hi - cur.lo)
            IN /\ sent' = sent \o [k \in 1..n |-> cur.lo + k - 1]
               /\ cur' = [cur EXCEPT !.lo = @ + n]
  /\ UNCHANGED <<rangeVars, fetchVars, results, drainVars, out, ctxDone,
                 cpc, err, status, sink, trouble>>

(* The client's connection breaks: io.Copy stops early. *)
WriteFails ==
  /\ "write" \in Faults /\ cpc = "read" /\ cur # None
  /\ cpc' = "close"
  /\ trouble' = trouble \cup {"write"}
  /\ UNCHANGED <<rangeVars, fetchVars, results, drainVars, out, ctxDone,
                 cur, err, status, sent, sink>>

(* The request's context is cancelled. *)
Cancel ==
  /\ "cancel" \in Faults /\ ~ctxDone /\ cpc \in {"prime", "read"}
  /\ ctxDone' = TRUE
  /\ trouble' = trouble \cup {"cancel"}
  /\ UNCHANGED <<rangeVars, fetchVars, results, drainVars, out, readVars>>

Close ==
  /\ cpc = "close"
  /\ ctxDone' = TRUE /\ sink' = "on" /\ cpc' = "wait"
  /\ UNCHANGED <<rangeVars, fetchVars, results, drainVars, out, cur, err, status, sent, trouble>>

Sink ==
  /\ sink = "on"
  /\ \/ out # <<>> /\ out' = Tail(out) /\ UNCHANGED sink
     \/ out = <<>> /\ closed /\ sink' = "done" /\ UNCHANGED out
  /\ UNCHANGED <<rangeVars, fetchVars, results, drainVars, ctxDone,
                 cpc, cur, err, status, sent, trouble>>

GoroutinesDone == dpc = "done" /\ \A w \in Workers : wpc[w] = "done"

CloseReturns ==
  /\ cpc = "wait" /\ GoroutinesDone
  /\ cpc' = "closed"
  /\ UNCHANGED <<rangeVars, fetchVars, results, drainVars, out, ctxDone,
                 cur, err, status, sent, sink, trouble>>

WorkerStep(w) ==
  \/ Claim(w) \/ CheckCtx(w) \/ Publish(w) \/ Abandon(w)
  \/ Fetch(w) \/ FetchShort(w) \/ FetchFails(w)
DrainStep == DrainRecv \/ Deliver \/ DrainCancelled

Next ==
  \/ \E w \in Workers : WorkerStep(w)
  \/ DrainStep
  \/ Prime \/ ReadNext \/ ReadSome \/ WriteFails \/ Cancel
  \/ Close \/ Sink \/ CloseReturns

(* Goroutines run, and a fetch returns because its context has a deadline.
   Nothing is assumed of ReadNext and ReadSome, which wait for the client. *)
Fairness ==
  /\ \A w \in Workers : WF_vars(WorkerStep(w))
  /\ WF_vars(DrainStep)
  /\ WF_vars(Prime) /\ WF_vars(Close) /\ WF_vars(Sink) /\ WF_vars(CloseReturns)

Spec == Init /\ [][Next]_vars /\ Fairness

-----------------------------------------------------------------------------
(* Properties. *)

(* Type invariant. *)
TypeOK ==
  /\ start \in 0..ObjSize /\ end \in start..ObjSize
  /\ chunkSize \in 1..StreamChunk /\ alignedStart \in 0..start /\ nChunks \in 0..ObjSize
  /\ idx \in 0..nChunks + Cardinality(Workers)
  /\ wpc \in [Workers -> {"claim", "check", "fetch", "send", "done"}]
  /\ wi \in [Workers -> Indices \cup {0}]
  /\ wbuf \in [Workers -> Buffers \cup {None}]
  /\ results \in [Indices -> Buffers \cup {None}]
  /\ dpc \in {"recv", "deliver", "done"} /\ di \in 0..nChunks
  /\ dbuf \in Buffers \cup {None}
  /\ out \in Seq(Buffers) /\ Len(out) <= OutBuffers
  /\ {closed, ctxDone} \subseteq BOOLEAN
  /\ cpc \in {"prime", "read", "close", "wait", "closed"}
  /\ cur \in Buffers \cup {None}
  /\ err \in {"nil", "EOF", "fetch", "ctx"}
  /\ status \in {"none", "ok", "502"}
  /\ sink \in {"off", "on", "done"}

(* reader.go 10: bytes are delivered strictly in order regardless of fetch
   order.  The client gets a prefix of the range, byte by byte; only a window
   that came back short leaves a gap, and even then the order is kept. *)
BytesInOrder ==
  /\ \A k \in 1..Len(sent) : sent[k] \in start..end - 1
  /\ \A k \in 1..Len(sent) - 1 : sent[k] < sent[k + 1]
  /\ "short" \notin trouble => \A k \in 1..Len(sent) : sent[k] = start + k - 1

(* A stream that ends with io.EOF is complete: a window that failed shows as
   an error and never as an early end, unless the request itself was cancelled
   or a window came back short. *)
EofMeansComplete ==
  err = "EOF" /\ trouble \cap {"cancel", "short"} = {} =>
    Len(sent) = end - start /\ trouble = {}

(* reader.go 11-13: a failure of the first window surfaces before any byte is
   returned, so that the status line is still free for a 502; and a 502 has no
   byte before it. *)
FirstFailureBeforeHeaders ==
  /\ "first" \in trouble /\ status = "ok" => ctxDone
  /\ status = "502" => sent = <<>> /\ err # "nil"

(* A handler that waits in Prime gets an answer, whatever fails. *)
PrimeReturns == cpc = "prime" ~> cpc # "prime"

(* reader.go 14-15: Close stops all workers, the drainer and its own draining
   goroutine, from whatever state the consumer left the stream in. *)
CloseReleases == cpc = "close" ~> cpc = "closed" /\ sink = "done"
=============================================================================
