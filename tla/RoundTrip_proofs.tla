-------------------------- MODULE RoundTrip_proofs --------------------------
(***************************************************************************)
(* Proofs about RoundTrip: what the upload commits, and that a window read *)
(* implements WindowFetch, for any chunk size, body, frames, set of hosts  *)
(* and window.                                                             *)
(***************************************************************************)
EXTENDS RoundTrip, FiniteSetTheorems, SequenceTheorems, TLAPS

-----------------------------------------------------------------------------
(* The upload's invariant. *)

End(c) == c.offset + Len(c.data)

(* The chunks m hold the bytes 0..n - 1, each at its offset: they are not
   empty, do not overlap and are in order. *)
Mapped(m, n) ==
  /\ \A i \in 1..Len(m) :
       /\ Len(m[i].data) > 0 /\ End(m[i]) <= n
       /\ \A j \in 1..Len(m[i].data) : m[i].data[j] = m[i].offset + j - 1
  /\ \A i, k \in 1..Len(m) : i < k => End(m[i]) <= m[k].offset
  /\ \A b \in 0..n - 1 : \E i \in 1..Len(m) : m[i].offset <= b /\ b < End(m[i])

BufInv ==
  /\ got = offset + Len(buf)
  /\ \A j \in 1..Len(buf) : buf[j] = offset + j - 1

ChunkInv ==
  /\ Mapped(chunks, offset)
  /\ \A i \in 1..Len(chunks) :
       i < Len(chunks) \/ bpc \in {"read", "upload"} => Len(chunks[i].data) = ChunkBytes

(* Why a body ended. *)
EndInv ==
  /\ bpc = "read" => rerr = "nil" /\ Len(buf) < ChunkBytes
  /\ bpc = "upload" /\ rerr = "nil" => Len(buf) = ChunkBytes
  /\ bpc \in {"size", "commit", "stored"} => buf = << >> /\ rerr \in {"EOF", "unexpected"}
  /\ bpc \in {"commit", "stored"} => declared \in {Undeclared, got}
  /\ rerr = "unexpected" => wire = "broken"
  /\ bpc = "stored" => wire # "broken"
  /\ rerr = "EOF" => IF framed THEN done ELSE wire = "eof"
  /\ done => framed /\ wire = "open" /\ remaining = 0

BInv == BodyTypeOK /\ BufInv /\ ChunkInv /\ EndInv

-----------------------------------------------------------------------------
(* The read's invariant. *)

Bytes == Seq(0..MaxBody)
Results == [ok : BOOLEAN, data : Bytes]

MapInv == locs \in Seq(Frames) /\ Mapped(locs, objSize)

CandInv ==
  /\ cands \in Seq(Replicas)
  /\ \A k, l \in 1..Len(cands) : cands[k] = cands[l] => k = l

IdleInv ==
  /\ bpc # "gone" => rpc = "idle"
  /\ rpc = "idle" =>
       /\ lo = 0 /\ hi = 0 /\ cur = 0 /\ out = << >> /\ loc = 0 /\ next = 0 /\ inflight = 0
       /\ hedge = FALSE /\ running = {} /\ ctxDone = FALSE /\ failed = {}
  /\ rpc # "idle" => results \in [Pieces -> Seq(Results)]

(* What Chunk has collected is the window up to its position. *)
OutInv == out = [k \in 1..cur - lo |-> lo + k - 1]

Runners(i) == {r \in Replicas : <<i, r>> \in running}
Fresh(i) == results[i] = << >> /\ Runners(i) = {}
Won == \E m \in 1..Len(results[loc]) : results[loc][m].ok

SomeCut == \E i \in Pieces : \E k \in 1..Len(cands) : keeps[cands[k]] < Size(i)

(* An answer that may win the race: the piece, or a truncated blob's part. *)
Good(d, from, want, short) ==
  /\ Len(d) <= want /\ (Len(d) < want => short)
  /\ \A k \in 1..Len(d) : d[k] = from + k - 1

PieceInv ==
  rpc = "race" =>
    /\ loc \in Pieces /\ locs[loc].offset <= cur /\ cur < End(locs[loc]) /\ cur < hi
    /\ next \in 1..Len(cands)

(* Chunks whose turn is still to come have no attempts and no results. *)
FreshInv ==
  /\ rpc = "race" => \A i \in Pieces : i # loc /\ End(locs[i]) > cur => Fresh(i)
  /\ rpc = "loop" /\ cur < hi => \A i \in Pieces : End(locs[i]) > cur => Fresh(i)

(* inflight counts the attempts that run and those not collected; a launched
   candidate runs, has failed, or has sent the bytes. *)
RaceInv ==
  rpc = "race" =>
    /\ inflight = Cardinality(Runners(loc)) + Len(results[loc])
    /\ \A r \in Runners(loc) : r \notin failed /\ \E k \in 1..next : r = cands[k]
    /\ \A r \in failed : \E k \in 1..next : r = cands[k]
    /\ \A k \in 1..next : cands[k] \in Runners(loc) \/ cands[k] \in failed \/ Won

(* Results that may win are good, and whoever sent one did not fail. *)
WinInv ==
  /\ rpc = "race" =>
       /\ \A m \in 1..Len(results[loc]) :
            results[loc][m].ok => Good(results[loc][m].data, cur, Want, SomeCut)
       /\ Won => \E k \in 1..next : cands[k] \notin failed /\ cands[k] \notin Runners(loc)
  /\ rpc = "loop" /\ cands # << >> => \E k \in 1..Len(cands) : cands[k] \notin failed

HedgeInv == hedge => next < Len(cands)

WInv ==
  /\ WindowTypeOK /\ MapInv /\ CandInv /\ IdleInv /\ OutInv /\ PieceInv /\ FreshInv
  /\ RaceInv /\ WinInv /\ HedgeInv

-----------------------------------------------------------------------------
(* The upload. *)
Errors == {"nil", "EOF", "unexpected", "network", "malformed"}

LEMMA AmountFacts ==
  ASSUME BInv, NEW limit \in Nat, NEW n \in Amounts(limit)
  PROVE  n \in Nat /\ n <= limit /\ Len(buf) + n <= ChunkBytes /\ got + n <= MaxBody
<1>1. Len(buf) \in Nat /\ Len(buf) <= ChunkBytes /\ got \in Nat /\ got <= MaxBody
      /\ ChunkBytes \in Nat /\ MaxBody \in Nat
  BY BodyAssumption DEF BInv, BodyTypeOK
<1> QED
  BY <1>1 DEF Amounts, Space

(* A Read that fits keeps the invariant, if the error it returns is what the
   state of the body says. *)
LEMMA ReceiveKeeps ==
  ASSUME BInv, bpc = "read", NEW n \in Nat, NEW e \in Errors, Receive(n, e),
         Len(buf) + n <= ChunkBytes, got + n <= MaxBody,
         framed' \in BOOLEAN, done' \in BOOLEAN,
         declared' \in 0..MaxBody \cup {Undeclared, Unparsable},
         wire' \in {"open", "eof", "broken"}, remaining' \in 0..MaxFrame,
         e = "unexpected" => wire' = "broken",
         e = "EOF" => IF framed' THEN done' ELSE wire' = "eof",
         done' => framed' /\ wire' = "open" /\ remaining' = 0
  PROVE  BInv'
<1> DEFINE new == [k \in 1..n |-> got + k - 1]
<1>1. /\ Len(buf) \in Nat /\ got \in Nat /\ got <= MaxBody /\ offset \in 0..got
      /\ ChunkBytes \in Nat /\ MaxBody \in Nat /\ buf \in Seq(0..MaxBody)
      /\ got = offset + Len(buf)
  BY BodyAssumption DEF BInv, BodyTypeOK, BufInv
<1>2. /\ got' = got + n /\ offset' = offset /\ chunks' = chunks
      /\ rerr' = IF n = Space THEN "nil" ELSE e
      /\ bpc' = IF n = Space \/ e # "nil" THEN "upload" ELSE "read"
      /\ buf' = buf \o new
  BY DEF Receive
<1>3. new \in Seq(0..MaxBody) /\ Len(new) = n /\ \A k \in 1..n : new[k] = got + k - 1
  BY <1>1
<1> HIDE DEF new
<1>4. /\ buf' \in Seq(0..MaxBody) /\ Len(buf') = Len(buf) + n
      /\ \A k \in 1..Len(buf) + n :
           buf'[k] = IF k <= Len(buf) THEN buf[k] ELSE new[k - Len(buf)]
  BY <1>1, <1>2, <1>3, ConcatProperties, Zenon
<1>5. ASSUME NEW j \in 1..Len(buf') PROVE buf'[j] = offset + j - 1
  <2>1. CASE j <= Len(buf)
    <3>1. j \in 1..Len(buf) + n /\ j \in 1..Len(buf)
      BY <1>1, <1>4, <2>1
    <3>2. buf'[j] = buf[j]
      BY <1>4, <2>1, <3>1, Zenon
    <3> QED
      BY <3>1, <3>2 DEF BInv, BufInv
  <2>2. CASE ~ (j <= Len(buf))
    <3>1. j \in 1..Len(buf) + n /\ j - Len(buf) \in 1..n
      BY <1>1, <1>4, <2>2
    <3>2. buf'[j] = new[j - Len(buf)]
      BY <1>4, <2>2, <3>1, Zenon
    <3>3. new[j - Len(buf)] = got + (j - Len(buf)) - 1
      BY <1>3, <3>1
    <3> QED
      BY <1>1, <3>1, <3>2, <3>3
  <2> QED
    BY <2>1, <2>2
<1>6. BufInv'
  <2>1. got' = offset' + Len(buf')
    BY <1>1, <1>2, <1>4
  <2>2. \A j \in 1..Len(buf') : buf'[j] = offset' + j - 1
    BY <1>2, <1>5
  <2> QED
    BY <2>1, <2>2 DEF BufInv
<1>7. ChunkInv'
  BY <1>2 DEF BInv, ChunkInv
<1>8. EndInv'
  <2>1. bpc' \in {"read", "upload"} /\ (bpc' = "read" => rerr' = "nil" /\ n # Space)
        /\ (bpc' = "upload" /\ rerr' = "nil" => n = Space)
        /\ (rerr' \in {"EOF", "unexpected"} => rerr' = e)
    BY <1>2
  <2>2. n = Space <=> Len(buf') = ChunkBytes
    BY <1>1, <1>4 DEF Space
  <2>3. Len(buf') <= ChunkBytes /\ Len(buf') \in Nat /\ ChunkBytes \in Nat
    BY <1>1, <1>4
  <2>4. /\ bpc' = "read" => rerr' = "nil" /\ Len(buf') < ChunkBytes
        /\ bpc' = "upload" /\ rerr' = "nil" => Len(buf') = ChunkBytes
        /\ bpc' \notin {"size", "commit", "stored"}
    BY <2>1, <2>2, <2>3
  <2>5. /\ rerr' = "unexpected" => wire' = "broken"
        /\ rerr' = "EOF" => IF framed' THEN done' ELSE wire' = "eof"
    BY <2>1
  <2> QED
    BY <2>4, <2>5 DEF EndInv
<1>9. BodyTypeOK'
  <2>1. offset' \in 0..got' /\ got' \in 0..MaxBody /\ Len(buf') <= ChunkBytes
    BY <1>1, <1>2, <1>4
  <2>2. rerr' \in Errors /\ bpc' \in {"read", "upload"} /\ chunks' \in Seq(Frames)
    BY <1>2 DEF BInv, BodyTypeOK, Errors
  <2> QED
    BY <1>4, <2>1, <2>2 DEF BodyTypeOK, Errors, Answered
<1> QED
  BY <1>6, <1>7, <1>8, <1>9 DEF BInv

(* The end of the stream, as the decoder reports it. *)
LEMMA CutFacts ==
  ASSUME NEW e \in {"EOF", "unexpected", "network"}, Cut(e)
  PROVE  /\ e = "EOF" => wire' = "eof"
         /\ e # "EOF" => wire' = "broken"
         /\ wire' \in {"eof", "broken"}
         /\ Deframed(e) \in {"malformed", "unexpected", "network"}
         /\ Deframed(e) = "unexpected" => wire' = "broken"
  BY DEF Cut, Deframed

LEMMA PlainKeeps ==
  ASSUME BInv, PlainRead
  PROVE  BInv'
<1>1. PICK n \in Amounts(MaxBody) :
        \/ wire = "open" /\ n > 0 /\ Receive(n, "nil") /\ UNCHANGED wire
        \/ \E e \in {"EOF", "unexpected", "network"} : Cut(e) /\ Receive(n, e)
  BY DEF PlainRead
<1>2. n \in Nat /\ Len(buf) + n <= ChunkBytes /\ got + n <= MaxBody
  BY AmountFacts, BodyAssumption
<1>3. /\ bpc = "read" /\ framed' = framed /\ declared' = declared /\ remaining' = remaining
      /\ done' = done /\ framed = FALSE /\ done = FALSE
      /\ declared \in 0..MaxBody \cup {Undeclared, Unparsable} /\ remaining \in 0..MaxFrame
      /\ wire \in {"open", "eof", "broken"}
  BY DEF PlainRead, BInv, BodyTypeOK, EndInv
<1>4. CASE wire = "open" /\ n > 0 /\ Receive(n, "nil") /\ UNCHANGED wire
  BY <1>2, <1>3, <1>4, ReceiveKeeps DEF Errors
<1>5. ASSUME NEW e \in {"EOF", "unexpected", "network"}, Cut(e), Receive(n, e)
      PROVE  BInv'
  BY <1>2, <1>3, <1>5, CutFacts, ReceiveKeeps DEF Errors
<1> QED
  BY <1>1, <1>4, <1>5

LEMMA HeaderKeeps ==
  ASSUME BInv, FinalFrame \/ BadHeader \/ AfterFinal
  PROVE  BInv'
<1>1. /\ bpc = "read" /\ framed' = framed /\ declared' = declared /\ remaining' = remaining
      /\ framed = TRUE /\ remaining = 0 /\ done \in BOOLEAN
      /\ declared \in 0..MaxBody \cup {Undeclared, Unparsable} /\ remaining \in 0..MaxFrame
      /\ wire \in {"open", "eof", "broken"}
  BY DEF FinalFrame, BadHeader, AfterFinal, AtHeader, BInv, BodyTypeOK, EndInv, wireVars
<1>2. 0 \in Nat /\ Len(buf) + 0 <= ChunkBytes /\ got + 0 <= MaxBody
  BY BodyAssumption DEF BInv, BodyTypeOK
<1>3. CASE FinalFrame
  BY <1>1, <1>2, <1>3, ReceiveKeeps DEF FinalFrame, Errors
<1>4. CASE AfterFinal
  <2>1. done = TRUE /\ done' = TRUE /\ wire' = wire /\ wire = "open"
    BY <1>4 DEF AfterFinal, wireVars, BInv, EndInv
  <2> QED
    BY <1>1, <1>2, <1>4, <2>1, ReceiveKeeps DEF AfterFinal, Errors
<1>5. CASE BadHeader
  <2>1. done = FALSE /\ done' = FALSE
    BY <1>1, <1>5 DEF BadHeader, AtHeader
  <2>2. CASE wire = "open" /\ Receive(0, "malformed") /\ UNCHANGED wire
    BY <1>1, <1>2, <2>1, <2>2, ReceiveKeeps DEF Errors
  <2>3. ASSUME NEW e \in {"EOF", "unexpected", "network"}, Cut(e), Receive(0, Deframed(e))
        PROVE  BInv'
    BY <1>1, <1>2, <2>1, <2>3, CutFacts, ReceiveKeeps DEF Errors
  <2> QED
    BY <1>5, <2>2, <2>3 DEF BadHeader
<1> QED
  BY <1>3, <1>4, <1>5

LEMMA FrameKeeps ==
  ASSUME BInv, NextFrame \/ FrameData
  PROVE  BInv'
<1>1. /\ bpc = "read" /\ framed' = framed /\ declared' = declared
      /\ framed = TRUE /\ done' = FALSE
      /\ declared \in 0..MaxBody \cup {Undeclared, Unparsable} /\ remaining \in 0..MaxFrame
      /\ wire \in {"open", "eof", "broken"}
  BY DEF NextFrame, FrameData, AtHeader, BInv, BodyTypeOK, EndInv
<1>2. PICK left \in 1..MaxFrame : ReadData(left)
  BY <1>1 DEF NextFrame, FrameData
<1>3. MaxFrame \in Nat /\ left \in Nat
  BY BodyAssumption
<1>4. PICK n \in Amounts(left) :
        /\ remaining' = left - n
        /\ \/ wire = "open" /\ n > 0 /\ n < left /\ Receive(n, "nil") /\ UNCHANGED wire
           \/ \E e \in {"EOF", "unexpected", "network"} : Cut(e) /\ Receive(n, Deframed(e))
           \/ n = left /\ Terminator(n)
  BY <1>2 DEF ReadData
<1>5. n \in Nat /\ n <= left /\ Len(buf) + n <= ChunkBytes /\ got + n <= MaxBody
  BY <1>3, AmountFacts
<1>6. remaining' \in 0..MaxFrame
  BY <1>3, <1>4, <1>5
<1>7. ASSUME NEW e \in Errors \ {"EOF"}, Receive(n, e), wire' \in {"open", "eof", "broken"},
             e = "unexpected" => wire' = "broken"
      PROVE  BInv'
  BY <1>1, <1>5, <1>6, <1>7, ReceiveKeeps
<1>8. CASE wire = "open" /\ Receive(n, "nil") /\ UNCHANGED wire
  BY <1>7, <1>8 DEF Errors
<1>9. ASSUME NEW e \in {"EOF", "unexpected", "network"}, Cut(e), Receive(n, Deframed(e))
      PROVE  BInv'
  BY <1>7, <1>9, CutFacts DEF Errors
<1>10. CASE Terminator(n)
  <2>1. CASE wire = "open" /\ UNCHANGED wire /\ \E e \in {"nil", "malformed"} : Receive(n, e)
    BY <1>7, <2>1 DEF Errors
  <2>2. ASSUME NEW e \in {"EOF", "unexpected"}, Cut(e), Receive(n, "malformed")
        PROVE  BInv'
    BY <1>7, <2>2, CutFacts DEF Errors
  <2>3. CASE Cut("network") /\ Receive(n, "network")
    BY <1>7, <2>3, CutFacts DEF Errors
  <2> QED
    BY <1>10, <2>1, <2>2, <2>3 DEF Terminator
<1> QED
  BY <1>4, <1>8, <1>9, <1>10

(* A chunk is stored. *)
LEMMA StoreKeeps ==
  ASSUME BInv, StoreChunk
  PROVE  BInv'
<1> DEFINE c == [offset |-> offset, data |-> buf]
           N == Len(chunks)
<1>1. /\ Len(buf) \in Nat /\ got \in Nat /\ got <= MaxBody /\ offset \in 0..got /\ offset \in Nat
      /\ ChunkBytes \in Nat \ {0} /\ MaxBody \in Nat /\ buf \in Seq(0..MaxBody)
      /\ got = offset + Len(buf) /\ chunks \in Seq(Frames) /\ N \in Nat
      /\ rerr \in Errors
  BY BodyAssumption DEF BInv, BodyTypeOK, BufInv, Errors
<1>2. /\ bpc = "upload" /\ buf' = << >> /\ bpc' = AfterChunk
      /\ framed' = framed /\ declared' = declared /\ wire' = wire /\ remaining' = remaining
      /\ done' = done /\ got' = got /\ rerr' = rerr
  BY DEF StoreChunk, wireVars
<1>3. /\ bpc' = "read" => rerr = "nil" /\ Len(buf) = ChunkBytes
      /\ bpc' \in {"read", "size", "400", "502"}
      /\ bpc' = "size" => rerr \in {"EOF", "unexpected"}
  <2>1. /\ AfterChunk = "read" => rerr = "nil"
        /\ AfterChunk = "size" => rerr \in {"EOF", "unexpected"}
        /\ AfterChunk \in {"read", "size", "400", "502"}
    BY DEF AfterChunk
  <2> QED
    BY <1>2, <2>1 DEF BInv, EndInv
<1>4. CASE buf = << >>
  <2>1. chunks' = chunks /\ offset' = offset /\ got = offset /\ Len(buf) = 0
    BY <1>1, <1>4 DEF StoreChunk
  <2>2. bpc' # "read"
    BY <1>1, <1>3, <2>1
  <2>3. ChunkInv'
    BY <1>2, <2>1 DEF BInv, ChunkInv
  <2>4. BufInv' /\ BodyTypeOK'
    BY <1>1, <1>2, <1>3, <1>4, <2>1 DEF BInv, BodyTypeOK, BufInv, Answered
  <2>5. EndInv'
    BY <1>2, <1>3, <2>2 DEF BInv, EndInv
  <2> QED
    BY <2>3, <2>4, <2>5 DEF BInv
<1>5. CASE buf # << >>
  <2>1. chunks' = Append(chunks, c) /\ offset' = offset + Len(buf) /\ Len(buf) > 0 /\ offset' = got
    BY <1>1, <1>5 DEF StoreChunk
  <2>2. c \in Frames /\ c.offset = offset /\ c.data = buf /\ End(c) = got
    BY <1>1 DEF Frames, End
  <2> HIDE DEF c
  <2>3. /\ chunks' \in Seq(Frames) /\ Len(chunks') = N + 1
        /\ \A i \in 1..N : chunks'[i] = chunks[i]
        /\ chunks'[N + 1] = c
    BY <1>1, <2>1, <2>2
  <2>4. Mapped(chunks', offset')
    <3>1. ASSUME NEW i \in 1..N + 1
          PROVE  /\ Len(chunks'[i].data) > 0 /\ End(chunks'[i]) <= got
                 /\ \A j \in 1..Len(chunks'[i].data) :
                      chunks'[i].data[j] = chunks'[i].offset + j - 1
      <4>1. CASE i = N + 1
        <5>1. chunks'[i] = c /\ c.data = buf /\ c.offset = offset /\ End(c) <= got
          BY <1>1, <2>2, <2>3, <4>1
        <5>2. Len(buf) > 0 /\ \A j \in 1..Len(buf) : buf[j] = offset + j - 1
          BY <2>1 DEF BInv, BufInv
        <5> QED
          BY <5>1, <5>2
      <4>2. CASE i \in 1..N
        <5>1. /\ Len(chunks[i].data) > 0 /\ End(chunks[i]) <= offset
              /\ \A j \in 1..Len(chunks[i].data) : chunks[i].data[j] = chunks[i].offset + j - 1
          BY <4>2 DEF BInv, ChunkInv, Mapped
        <5>2. chunks[i] \in Frames
          BY <1>1, <4>2
        <5>3. End(chunks[i]) \in Int
          BY <1>1, <5>2 DEF Frames, End
        <5>4. chunks'[i] = chunks[i]
          BY <2>3, <4>2
        <5>5. End(chunks[i]) <= got
          BY <1>1, <5>1, <5>3
        <5> QED
          BY <5>1, <5>4, <5>5
      <4> QED
        BY <1>1, <4>1, <4>2
    <3>2. ASSUME NEW i \in 1..N + 1, NEW k \in 1..N + 1, i < k
          PROVE  End(chunks'[i]) <= chunks'[k].offset
      <4>1. i \in 1..N /\ chunks'[i] = chunks[i]
        BY <1>1, <2>3, <3>2
      <4>2. CASE k = N + 1
        <5>1. End(chunks[i]) <= offset
          BY <4>1 DEF BInv, ChunkInv, Mapped
        <5>2. chunks'[k].offset = offset
          BY <2>2, <2>3, <4>2
        <5> QED
          BY <4>1, <5>1, <5>2
      <4>3. CASE k \in 1..N
        <5>1. End(chunks[i]) <= chunks[k].offset
          BY <3>2, <4>1, <4>3 DEF BInv, ChunkInv, Mapped
        <5>2. chunks'[k] = chunks[k]
          BY <2>3, <4>3
        <5> QED
          BY <4>1, <5>1, <5>2
      <4> QED
        BY <1>1, <4>2, <4>3
    <3>3. ASSUME NEW b \in 0..got - 1
          PROVE  \E i \in 1..N + 1 : chunks'[i].offset <= b /\ b < End(chunks'[i])
      <4>1. CASE b \in 0..offset - 1
        <5>1. PICK i \in 1..N : chunks[i].offset <= b /\ b < End(chunks[i])
          BY <4>1 DEF BInv, ChunkInv, Mapped
        <5> QED
          BY <1>1, <2>3, <5>1
      <4>2. CASE offset <= b
        BY <1>1, <2>2, <2>3, <4>2
      <4> QED
        BY <1>1, <4>1, <4>2
    <3> QED
      BY <2>1, <2>3, <3>1, <3>2, <3>3 DEF Mapped
  <2>5. ChunkInv'
    <3>1. \A i \in 1..N : Len(chunks[i].data) = ChunkBytes
      BY <1>2 DEF BInv, ChunkInv
    <3>2. bpc' \in {"read", "upload"} => Len(c.data) = ChunkBytes
      BY <1>3, <2>2
    <3> QED
      <4>1. ASSUME NEW i \in 1..N + 1, i < N + 1 \/ bpc' \in {"read", "upload"}
            PROVE  Len(chunks'[i].data) = ChunkBytes
        <5>1. CASE i \in 1..N
          BY <2>3, <3>1, <5>1
        <5>2. CASE i = N + 1
          BY <1>1, <2>3, <3>2, <4>1, <5>2
        <5> QED
          BY <1>1, <5>1, <5>2
      <4> QED
        BY <2>3, <2>4, <4>1 DEF ChunkInv
  <2>6. BufInv' /\ BodyTypeOK'
    BY <1>1, <1>2, <1>3, <2>1, <2>3 DEF BInv, BodyTypeOK, BufInv, Answered
  <2>7. EndInv'
    BY <1>1, <1>2, <1>3 DEF BInv, EndInv
  <2> QED
    BY <2>5, <2>6, <2>7 DEF BInv
<1> QED
  BY <1>4, <1>5

LEMMA UploadInvariance == Spec => []BInv
<1>1. Init => BInv
  <2> SUFFICES ASSUME Init PROVE BInv
    OBVIOUS
  <2>1. BodyTypeOK
    <3>1. /\ << >> \in Seq(0..MaxBody) /\ << >> \in Seq(Frames) /\ Len(<< >>) <= ChunkBytes
          /\ 0 \in 0..MaxFrame /\ 0 \in 0..MaxBody /\ 0 \in 0..0
      BY BodyAssumption
    <3> QED
      BY <3>1, Zenon DEF Init, BodyInit, BodyTypeOK
  <2>2. BufInv /\ EndInv
    BY BodyAssumption DEF Init, BodyInit, BufInv, EndInv
  <2>3. ChunkInv
    BY DEF Init, BodyInit, ChunkInv, Mapped
  <2> QED
    BY <2>1, <2>2, <2>3 DEF BInv
<1>2. BInv /\ [Next]_vars => BInv'
  <2> SUFFICES ASSUME BInv, [Next]_vars PROVE BInv'
    OBVIOUS
  <2>1. CASE UNCHANGED bodyVars
    BY <2>1 DEF BInv, BodyTypeOK, BufInv, ChunkInv, Mapped, EndInv, bodyVars, wireVars, loopVars
  <2>2. CASE StoreChunkFails \/ ValidateSize \/ Commit
    <3>1. /\ UNCHANGED <<wireVars, got, buf, rerr, offset, chunks>>
          /\ bpc' \in {"502", "commit", "400", "stored", "500"}
          /\ bpc' \in {"commit", "stored"} => bpc \in {"size", "commit"} /\ declared \in {Undeclared, got}
          /\ bpc' = "stored" => wire # "broken"
      BY <2>2 DEF StoreChunkFails, ValidateSize, Commit, BInv, EndInv
    <3>2. BodyTypeOK' /\ BufInv'
      BY <3>1 DEF BInv, BodyTypeOK, BufInv, Answered, wireVars
    <3>3. ChunkInv'
      BY <3>1 DEF BInv, ChunkInv, Mapped
    <3>4. EndInv'
      BY <3>1 DEF BInv, EndInv, wireVars
    <3> QED
      BY <3>2, <3>3, <3>4 DEF BInv
  <2>3. CASE Request
    <3>1. BodyTypeOK'
      <4>1. /\ << >> \in Seq(0..MaxBody) /\ << >> \in Seq(Frames) /\ Len(<< >>) <= ChunkBytes
            /\ 0 \in 0..MaxFrame /\ 0 \in 0..MaxBody /\ 0 \in 0..0
        BY BodyAssumption
      <4> QED
        BY <2>3, <4>1, Zenon DEF Request, BodyTypeOK, Answered
    <3>2. BufInv' /\ EndInv'
      BY <2>3 DEF Request, BufInv, EndInv
    <3>3. ChunkInv'
      BY <2>3 DEF Request, ChunkInv, Mapped
    <3> QED
      BY <3>1, <3>2, <3>3 DEF BInv
  <2> QED
    BY <2>1, <2>2, <2>3, PlainKeeps, HeaderKeeps, FrameKeeps, StoreKeeps
    DEF Next, Upload, Publish, Download, vars
<1> QED
  BY <1>1, <1>2, PTL DEF Spec

-----------------------------------------------------------------------------
(* What putObject commits is the body that was sent, whole and in place: the
   loop of Backend.upload, awsChunkedReader and validateDecodedSize together,
   wherever the stream is cut into frames and reads, and wherever it ends. *)
THEOREM CommittedIsWhole == Spec => []CommittedBodyIsWhole
<1>1. BInv => CommittedBodyIsWhole
  <2> SUFFICES ASSUME BInv, bpc = "stored"
               PROVE  /\ IF framed THEN done ELSE wire = "eof"
                      /\ declared \in {Undeclared, got}
                      /\ \A b \in 0..got - 1 :
                           \E i \in 1..Len(chunks) : \E j \in 1..Len(chunks[i].data) :
                             chunks[i].data[j] = b /\ chunks[i].offset + j - 1 = b
                      /\ \A i \in 1..Len(chunks) - 1 : Len(chunks[i].data) = ChunkBytes
                      /\ chunks = << >> <=> got = 0
    BY DEF CommittedBodyIsWhole
  <2>1. got = offset /\ got \in Nat /\ Len(chunks) \in Nat /\ chunks \in Seq(Frames) /\ MaxBody \in Nat
    BY BodyAssumption DEF BInv, EndInv, BufInv, BodyTypeOK
  <2>2. IF framed THEN done ELSE wire = "eof"
    BY DEF BInv, EndInv
  <2>3. declared \in {Undeclared, got}
    BY DEF BInv, EndInv
  <2>4. \A i \in 1..Len(chunks) - 1 : Len(chunks[i].data) = ChunkBytes
    BY <2>1 DEF BInv, ChunkInv
  <2>5. ASSUME NEW b \in 0..got - 1
        PROVE  \E i \in 1..Len(chunks) : \E j \in 1..Len(chunks[i].data) :
                 chunks[i].data[j] = b /\ chunks[i].offset + j - 1 = b
    <3>1. PICK i \in 1..Len(chunks) : chunks[i].offset <= b /\ b < End(chunks[i])
      BY <2>1 DEF BInv, ChunkInv, Mapped
    <3>2. chunks[i] \in Frames
      BY <2>1
    <3>3. chunks[i].offset \in Nat /\ Len(chunks[i].data) \in Nat
      BY <2>1, <3>2 DEF Frames
    <3>4. b - chunks[i].offset + 1 \in 1..Len(chunks[i].data)
      BY <2>1, <3>1, <3>3 DEF End
    <3>5. \A j \in 1..Len(chunks[i].data) : chunks[i].data[j] = chunks[i].offset + j - 1
      BY DEF BInv, ChunkInv, Mapped
    <3> DEFINE j == b - chunks[i].offset + 1
    <3>6. j \in 1..Len(chunks[i].data) /\ chunks[i].offset + j - 1 = b
      BY <2>1, <3>3, <3>4
    <3> HIDE DEF j
    <3>7. chunks[i].data[j] = b
      BY <3>5, <3>6, Zenon
    <3> QED
      BY <3>6, <3>7
  <2>6. chunks = << >> <=> got = 0
    <3>1. ASSUME chunks # << >> PROVE got # 0
      <4>1. 1 \in 1..Len(chunks) /\ chunks[1] \in Frames
        BY <2>1, <3>1
      <4>2. chunks[1].offset \in Nat /\ Len(chunks[1].data) \in Nat
        BY <2>1, <4>1 DEF Frames
      <4>3. Len(chunks[1].data) > 0 /\ End(chunks[1]) <= got
        BY <2>1, <4>1 DEF BInv, ChunkInv, Mapped
      <4> QED
        BY <2>1, <4>2, <4>3 DEF End
    <3>2. ASSUME got # 0 PROVE chunks # << >>
      <4>1. 0 \in 0..got - 1
        BY <2>1, <3>2
      <4> QED
        BY <2>5, <4>1
    <3> QED
      BY <3>1, <3>2
  <2> QED
    BY <2>2, <2>3, <2>4, <2>5, <2>6
<1> QED
  BY <1>1, UploadInvariance, PTL

-----------------------------------------------------------------------------
(* The window. *)
LEMMA ReplicasFinite == IsFiniteSet(Replicas)
<1> DEFINE f == [k \in 1..Len(ReplicaList) |-> ReplicaList[k]]
<1>1. Len(ReplicaList) \in Nat
  BY WindowAssumption
<1>2. IsFiniteSet(1..Len(ReplicaList))
  BY <1>1, FS_Interval
<1>3. f \in Surjection(1..Len(ReplicaList), Replicas)
  BY DEF Surjection, Replicas
<1> QED
  BY <1>2, <1>3, FS_Surjection

LEMMA WindowFacts ==
  ASSUME WInv
  PROVE  /\ Len(cands) \in Nat /\ Len(locs) \in Nat /\ objSize \in Nat /\ lo \in Nat /\ hi \in Nat
         /\ cur \in Nat /\ next \in Nat /\ inflight \in Nat /\ loc \in Nat
         /\ lo <= cur /\ cur <= hi /\ hi <= objSize
         /\ \A i \in Pieces :
              /\ i \in Nat /\ locs[i].offset \in Nat /\ locs[i].data \in Bytes
              /\ Size(i) \in Nat /\ Size(i) > 0 /\ End(locs[i]) = locs[i].offset + Size(i)
              /\ End(locs[i]) \in Nat
              /\ \A j \in 1..Size(i) : locs[i].data[j] = locs[i].offset + j - 1
         /\ \A k \in 1..Len(cands) : cands[k] \in Replicas
         /\ \A i \in Pieces : IsFiniteSet(Runners(i)) /\ Cardinality(Runners(i)) \in Nat
         /\ rpc # "idle" => \A i \in Pieces : results[i] \in Seq(Results) /\ Len(results[i]) \in Nat
<1>1. Len(cands) \in Nat /\ Len(locs) \in Nat /\ cands \in Seq(Replicas) /\ locs \in Seq(Frames)
  BY DEF WInv, CandInv, MapInv
<1>2. /\ objSize \in Nat /\ lo \in Nat /\ hi \in Nat /\ cur \in Nat /\ next \in Nat
      /\ inflight \in Nat /\ loc \in Nat /\ lo <= cur /\ cur <= hi /\ hi <= objSize
  BY <1>1 DEF WInv, WindowTypeOK
<1>3. ASSUME NEW i \in Pieces
      PROVE  /\ i \in Nat /\ locs[i].offset \in Nat /\ locs[i].data \in Bytes
             /\ Size(i) \in Nat /\ Size(i) > 0 /\ End(locs[i]) = locs[i].offset + Size(i)
             /\ End(locs[i]) \in Nat
             /\ \A j \in 1..Size(i) : locs[i].data[j] = locs[i].offset + j - 1
  <2>1. i \in 1..Len(locs) /\ locs[i] \in Frames
    BY <1>1 DEF Pieces
  <2>2. locs[i].offset \in Nat /\ locs[i].data \in Bytes /\ Len(locs[i].data) \in Nat
    BY <2>1, BodyAssumption DEF Frames, Bytes
  <2>3. /\ Len(locs[i].data) > 0
        /\ \A j \in 1..Len(locs[i].data) : locs[i].data[j] = locs[i].offset + j - 1
    BY <2>1 DEF WInv, MapInv, Mapped
  <2> QED
    BY <1>1, <2>1, <2>2, <2>3 DEF Size, End
<1>4. \A k \in 1..Len(cands) : cands[k] \in Replicas
  BY <1>1
<1>5. \A i \in Pieces : IsFiniteSet(Runners(i)) /\ Cardinality(Runners(i)) \in Nat
  <2>1. \A i \in Pieces : Runners(i) \subseteq Replicas
    BY DEF Runners
  <2>2. \A i \in Pieces : IsFiniteSet(Runners(i))
    BY <2>1, ReplicasFinite, FS_Subset
  <2> QED
    BY <2>2, FS_CardinalityType
<1>6. rpc # "idle" => \A i \in Pieces : results[i] \in Seq(Results) /\ Len(results[i]) \in Nat
  BY DEF WInv, IdleInv
<1> QED
  BY <1>1, <1>2, <1>3, <1>4, <1>5, <1>6

(* locate finds the chunk of every byte of the object: the last one that
   starts at or before it. *)
LEMMA LocateFacts ==
  ASSUME WInv, NEW off \in 0..objSize - 1
  PROVE  /\ locate(off) \in Pieces /\ locate(off) # 0
         /\ locs[locate(off)].offset <= off /\ off < End(locs[locate(off)])
<1> DEFINE S == {i \in 1..Len(locs) : locs[i].offset <= off}
           P(x) == x \in S /\ \A y \in S : y <= x
<1>1. PICK i \in 1..Len(locs) : locs[i].offset <= off /\ off < End(locs[i])
  BY DEF WInv, MapInv, Mapped
<1>2. i \in S /\ Len(locs) \in Nat /\ objSize \in Nat
  BY <1>1, WindowFacts
<1>3. ASSUME NEW y \in S PROVE y <= i
  <2>1. y \in 1..Len(locs) /\ i \in 1..Len(locs) /\ y \in Nat /\ i \in Nat /\ locs[y].offset <= off
    BY <1>2
  <2>2. i < y => End(locs[i]) <= locs[y].offset
    BY <2>1 DEF WInv, MapInv, Mapped
  <2>3. locs[y].offset \in Nat /\ End(locs[i]) \in Nat
    BY <2>1, WindowFacts DEF Pieces
  <2> QED
    BY <1>1, <1>2, <2>1, <2>2, <2>3
<1>4. \A x \in S : (\A y \in S : y <= x) => x = i
  BY <1>2, <1>3
<1>5. (CHOOSE x \in S : \A y \in S : y <= x) = i
  BY <1>2, <1>3, <1>4, Zenon
<1>6. End(locs[i]) = locs[i].offset + Size(i) /\ locs[i].offset \in Nat /\ Size(i) \in Nat /\ i # 0
  BY <1>1, WindowFacts DEF Pieces
<1>7. locate(off) = i
  <2>1. ~ (off >= locs[i].offset + Size(i)) /\ S # {}
    BY <1>1, <1>2, <1>6
  <2> QED
    BY <1>5, <2>1, Zenon DEF locate
<1> QED
  BY <1>1, <1>6, <1>7 DEF Pieces

(* The piece that a race reads. *)
LEMMA WantFacts ==
  ASSUME WInv, rpc = "race"
  PROVE  /\ loc \in Pieces /\ Want \in Nat /\ Want > 0 /\ cur + Want <= hi
         /\ localOff \in Nat /\ localOff + Want <= Size(loc)
         /\ locs[loc].offset + localOff = cur
         /\ cur + Want = End(locs[loc]) \/ cur + Want = hi
<1>1. loc \in Pieces /\ locs[loc].offset <= cur /\ cur < End(locs[loc]) /\ cur < hi
  BY DEF WInv, PieceInv
<1>2. /\ locs[loc].offset \in Nat /\ Size(loc) \in Nat /\ End(locs[loc]) = locs[loc].offset + Size(loc)
      /\ cur \in Nat /\ hi \in Nat
  BY <1>1, WindowFacts
<1> QED
  BY <1>1, <1>2 DEF Want, ReadEnd, Min2, localOff

LEMMA PartFacts ==
  ASSUME NEW s \in Bytes, NEW m \in Nat, NEW n \in Nat, m <= n, n <= Len(s)
  PROVE  /\ SubSeq(s, m + 1, n) \in Bytes /\ Len(SubSeq(s, m + 1, n)) = n - m
         /\ \A k \in 1..n - m : SubSeq(s, m + 1, n)[k] = s[m + k]
<1> DEFINE S == 0..MaxBody
<1>1. s \in Seq(S) /\ Len(s) \in Nat
  BY DEF Bytes
<1> HIDE DEF S
<1>2. \A i \in m + 1..n : s[i] \in S
  BY <1>1
<1>3. m + 1 \in Int /\ n \in Int
  OBVIOUS
<1> DEFINE t == SubSeq(s, m + 1, n)
<1>4. /\ t \in Seq(S) /\ Len(t) = IF m + 1 <= n THEN n - (m + 1) + 1 ELSE 0
      /\ \A i \in 1..n - (m + 1) + 1 : t[i] = s[m + 1 + i - 1]
  BY <1>2, <1>3, SubSeqProperties
<1> HIDE DEF t
<1>5. Len(t) = n - m
  BY <1>4
<1>6. ASSUME NEW k \in 1..n - m PROVE t[k] = s[m + k]
  <2>1. k \in 1..n - (m + 1) + 1 /\ m + 1 + k - 1 = m + k
    OBVIOUS
  <2> QED
    BY <1>4, <2>1
<1> QED
  BY <1>4, <1>5, <1>6 DEF t, S, Bytes

(* What rangeGet returns of a blob, perhaps a truncated one. *)
LEMMA RangeFacts ==
  ASSUME WInv, rpc = "race", NEW r \in Runners(loc), NEW ranged \in BOOLEAN
  PROVE  LET res == rangeGet(Blob(loc, r), localOff, Want, ranged)
         IN res \in Results /\ (res.ok => Good(res.data, cur, Want, SomeCut))
<1> DEFINE blob == Blob(loc, r)
           top == Min2(keeps[r], Size(loc))
           to == Min2(localOff + Want, Len(blob))
           d == SubSeq(blob, localOff + 1, to)
<1>1. /\ loc \in Pieces /\ Want \in Nat /\ localOff \in Nat /\ localOff + Want <= Size(loc)
      /\ locs[loc].offset + localOff = cur /\ Size(loc) \in Nat /\ locs[loc].data \in Bytes
      /\ Len(locs[loc].data) = Size(loc) /\ cur \in Nat /\ locs[loc].offset \in Nat
      /\ \A j \in 1..Size(loc) : locs[loc].data[j] = locs[loc].offset + j - 1
  BY WantFacts, WindowFacts DEF Size
<1>2. keeps[r] \in Nat
  BY WindowAssumption DEF WInv, WindowTypeOK, Runners
<1>3. top \in Nat /\ top <= Size(loc) /\ (top < Size(loc) => keeps[r] < Size(loc))
  BY <1>1, <1>2 DEF Min2
<1>4. blob \in Bytes /\ Len(blob) = top /\ \A j \in 1..top : blob[j] = locs[loc].data[j]
  <2> DEFINE m == 0
  <2>1. m \in Nat /\ m + 1 = 1 /\ m <= top /\ top - m = top /\ \A k \in 1..top : m + k = k
    BY <1>3
  <2>2. blob = SubSeq(locs[loc].data, m + 1, top) /\ top <= Len(locs[loc].data)
    BY <1>1, <1>3 DEF Blob
  <2> HIDE DEF blob, top, m
  <2>3. /\ blob \in Bytes /\ Len(blob) = top - m
        /\ \A k \in 1..top - m : blob[k] = locs[loc].data[m + k]
    <3> DEFINE s == locs[loc].data
    <3>1. s \in Bytes /\ m \in Nat /\ top \in Nat /\ m <= top /\ top <= Len(s)
      BY <1>1, <1>3, <2>1, <2>2
    <3> HIDE DEF s
    <3>2. /\ SubSeq(s, m + 1, top) \in Bytes /\ Len(SubSeq(s, m + 1, top)) = top - m
          /\ \A k \in 1..top - m : SubSeq(s, m + 1, top)[k] = s[m + k]
      BY <3>1, PartFacts, Zenon
    <3>3. blob = SubSeq(s, m + 1, top)
      BY <2>2 DEF s
    <3> QED
      BY <3>2, <3>3, Zenon DEF s
  <2> QED
    BY <2>1, <2>3
<1> HIDE DEF blob, top
<1>5. Failure \in Results /\ Failure.ok = FALSE
  BY DEF Failure, Results, Bytes
<1>6. ASSUME localOff <= Len(blob)
      PROVE  [ok |-> TRUE, data |-> d] \in Results /\ Good(d, cur, Want, SomeCut)
  <2>1. to \in Nat /\ localOff <= to /\ to <= top /\ to <= localOff + Want
        /\ (to < localOff + Want => to = top)
    <3>1. \A a, w, t \in Nat : a <= t =>
            LET x == IF a + w < t THEN a + w ELSE t
            IN x \in Nat /\ a <= x /\ x <= t /\ x <= a + w /\ (x < a + w => x = t)
      OBVIOUS
    <3>2. to = IF localOff + Want < top THEN localOff + Want ELSE top
      BY <1>4 DEF Min2
    <3>3. localOff <= top
      BY <1>4, <1>6
    <3> HIDE DEF to
    <3> QED
      BY <1>1, <1>3, <3>1, <3>2, <3>3, Zenon
  <2> HIDE DEF to
  <2>2. d \in Bytes /\ Len(d) = to - localOff
        /\ \A k \in 1..to - localOff : d[k] = blob[localOff + k]
    BY <1>1, <1>4, <2>1, PartFacts
  <2> HIDE DEF d
  <2>3. Len(d) <= Want
    BY <1>1, <2>1, <2>2
  <2>4. ASSUME NEW k \in 1..Len(d) PROVE d[k] = cur + k - 1
    <3>1. k \in 1..to - localOff /\ localOff + k \in 1..top /\ localOff + k \in 1..Size(loc)
      BY <1>1, <1>3, <2>1, <2>2
    <3>2. d[k] = locs[loc].offset + (localOff + k) - 1
      BY <1>1, <1>4, <2>2, <3>1
    <3>3. k \in Int
      BY <1>1, <2>1, <3>1
    <3> QED
      BY <1>1, <3>2, <3>3
  <2>5. Len(d) < Want => SomeCut
    <3> SUFFICES ASSUME Len(d) < Want PROVE SomeCut
      OBVIOUS
    <3>1. keeps[r] < Size(loc)
      BY <1>1, <1>3, <2>1, <2>2
    <3>2. PICK k \in 1..next : r = cands[k]
      BY DEF WInv, RaceInv
    <3>3. k \in 1..Len(cands)
      BY <3>2 DEF WInv, PieceInv
    <3> QED
      BY <1>1, <3>1, <3>2, <3>3 DEF SomeCut
  <2>6. Good(d, cur, Want, SomeCut)
    BY <2>3, <2>4, <2>5 DEF Good
  <2> QED
    BY <2>2, <2>6 DEF Results
<1>7. rangeGet(blob, localOff, Want, ranged) \in {Failure, [ok |-> TRUE, data |-> d]}
      /\ (rangeGet(blob, localOff, Want, ranged) # Failure => localOff <= Len(blob))
  <2>1. CASE localOff > Len(blob) \/ (ranged /\ localOff = Len(blob))
    BY <2>1, Zenon DEF rangeGet
  <2>2. CASE ~ (localOff > Len(blob) \/ (ranged /\ localOff = Len(blob)))
    <3>1. localOff <= Len(blob)
      BY <1>1, <1>3, <1>4, <2>2
    <3> QED
      BY <2>2, <3>1, Zenon DEF rangeGet
  <2> QED
    BY <2>1, <2>2
<1> DEFINE won == [ok |-> TRUE, data |-> d]
<1>8. won.data = d
  OBVIOUS
<1> HIDE DEF won, d
<1>9. CASE rangeGet(blob, localOff, Want, ranged) = Failure
  BY <1>5, <1>9 DEF blob
<1>10. CASE rangeGet(blob, localOff, Want, ranged) # Failure
  <2>1. rangeGet(blob, localOff, Want, ranged) = won /\ localOff <= Len(blob)
    BY <1>7, <1>10 DEF won
  <2>2. won \in Results /\ Good(won.data, cur, Want, SomeCut)
    BY <1>6, <1>8, <2>1 DEF won
  <2> QED
    BY <2>1, <2>2 DEF blob
<1> QED
  BY <1>9, <1>10

-----------------------------------------------------------------------------
(* The steps of a window keep its invariant. *)

(* Steps that start, end or collect no attempt. *)
LEMMA QuietKeeps ==
  ASSUME WInv, UNCHANGED bodyVars, ChunkDone \/ CtxEnds \/ RaceCancelled
  PROVE  WInv'
<1> USE DEF WInv
<1>1. /\ UNCHANGED <<mapVars, lo, hi, cur, out, raceVars, running, results, failed>>
      /\ rpc # "idle" /\ bpc' = bpc
      /\ \/ rpc' = rpc /\ ctxDone' = TRUE
         \/ rpc' \in {"bytes", "error"} /\ ctxDone' = ctxDone
  BY DEF ChunkDone, CtxEnds, RaceCancelled, chunkVars, bodyVars, loopVars
<1>2. /\ locs' = locs /\ objSize' = objSize /\ cands' = cands /\ keeps' = keeps /\ hedging' = hedging
      /\ lo' = lo /\ hi' = hi /\ cur' = cur /\ out' = out
      /\ loc' = loc /\ next' = next /\ inflight' = inflight /\ hedge' = hedge
      /\ running' = running /\ results' = results /\ failed' = failed
  BY <1>1 DEF mapVars, raceVars
<1>3. WindowTypeOK' /\ MapInv' /\ CandInv'
  BY <1>1, <1>2 DEF WindowTypeOK, MapInv, CandInv, Mapped, Pieces
<1>4. IdleInv' /\ OutInv' /\ HedgeInv' /\ PieceInv'
  BY <1>1, <1>2 DEF IdleInv, OutInv, HedgeInv, PieceInv, Pieces
<1>5. FreshInv'
  BY <1>1, <1>2 DEF FreshInv, Pieces, Fresh, Runners
<1>6. RaceInv'
  BY <1>1, <1>2 DEF RaceInv, Runners, Won
<1>7. WinInv'
  <2>1. CASE rpc' = rpc
    <3>1. Want' = Want /\ (SomeCut' <=> SomeCut)
      BY <1>2 DEF Want, ReadEnd, Size, SomeCut, Pieces
    <3> QED
      BY <1>2, <2>1, <3>1 DEF WinInv, Won, Runners
  <2>2. CASE rpc' \in {"bytes", "error"}
    BY <2>2 DEF WinInv
  <2> QED
    BY <1>1, <2>1, <2>2
<1> QED
  BY <1>3, <1>4, <1>5, <1>6, <1>7

(* A window is asked for. *)
LEMMA RequestKeeps ==
  ASSUME WInv, Request
  PROVE  WInv'
<1> USE DEF WInv
<1>1. PICK from \in 0..objSize, limit \in 1..MaxWindow : Chunk(from, limit)
  BY DEF Request
<1>2. /\ rpc = "idle" /\ lo' = from /\ cur' = from /\ rpc' = "loop"
      /\ hi' = IF from >= objSize THEN from ELSE Min2(from + limit, objSize)
      /\ results' = [i \in 1..Len(locs) |-> << >>]
      /\ locs' = locs /\ objSize' = objSize /\ cands' = cands
      /\ out' = out /\ loc' = loc /\ next' = next /\ inflight' = inflight /\ hedge' = hedge
      /\ hedging' = hedging /\ running' = running /\ ctxDone' = ctxDone /\ failed' = failed
      /\ bpc' = "gone"
  BY <1>1 DEF Chunk, Request, raceVars
<1>3. /\ out = << >> /\ loc = 0 /\ next = 0 /\ inflight = 0 /\ hedge = FALSE /\ running = {}
      /\ ctxDone = FALSE /\ failed = {}
  BY <1>2 DEF IdleInv
<1>4. from \in Nat /\ from <= objSize /\ hi' \in from..objSize /\ objSize \in Nat
      /\ Len(locs) \in Nat /\ Len(cands) \in Nat
  <2>1. objSize \in Nat /\ Len(locs) \in Nat /\ Len(cands) \in Nat
    BY WindowFacts
  <2>2. from \in Nat /\ from <= objSize /\ limit \in Nat \ {0}
    BY <2>1, WindowAssumption
  <2> QED
    BY <1>2, <2>1, <2>2 DEF Min2
<1>5. keeps' \in [Replicas -> 0..MaxBlob]
  <2>1. PICK k \in 0..MaxBlob :
          keeps' = [r \in Replicas |-> IF r \in Truncating THEN k ELSE MaxBlob]
    BY <1>1 DEF Chunk
  <2>2. MaxBlob \in 0..MaxBlob
    BY WindowAssumption
  <2> QED
    BY <2>1, <2>2
<1>6. WindowTypeOK'
  BY <1>2, <1>3, <1>4, <1>5 DEF WindowTypeOK, Pieces
<1>7. MapInv' /\ CandInv'
  BY <1>2 DEF MapInv, CandInv, Mapped
<1>8. IdleInv'
  <2>1. << >> \in Seq(Results)
    OBVIOUS
  <2>2. results' \in [Pieces -> Seq(Results)]
    BY <1>2, <2>1 DEF Pieces
  <2> QED
    BY <1>2, <2>2 DEF IdleInv, Pieces
<1>9. OutInv'
  BY <1>2, <1>3, <1>4 DEF OutInv
<1>10. FreshInv'
  BY <1>2, <1>3 DEF FreshInv, Fresh, Runners, Pieces
<1>11. WinInv'
  <2>1. cands # << >> => 1 \in 1..Len(cands)
    BY <1>4 DEF CandInv
  <2> QED
    BY <1>2, <1>3, <2>1 DEF WinInv
<1>12. PieceInv' /\ RaceInv' /\ HedgeInv'
  BY <1>2, <1>3 DEF PieceInv, RaceInv, HedgeInv
<1> QED
  BY <1>6, <1>7, <1>8, <1>9, <1>10, <1>11, <1>12

(* The body's steps: the map changes with the commit. *)
LEMMA PublishKeeps ==
  ASSUME WInv, BInv, Publish
  PROVE  WInv'
<1> USE DEF WInv
<1>1. /\ bpc = "commit" /\ bpc' \in {"stored", "500"}
      /\ cands' = cands /\ keeps' = keeps /\ hedging' = hedging
      /\ lo' = lo /\ hi' = hi /\ cur' = cur /\ out' = out
      /\ rpc' = rpc /\ loc' = loc /\ next' = next /\ inflight' = inflight /\ hedge' = hedge
      /\ running' = running /\ results' = results /\ ctxDone' = ctxDone /\ failed' = failed
  BY DEF Publish, Commit, chunkVars, raceVars
<1>2. /\ rpc = "idle" /\ lo = 0 /\ hi = 0 /\ cur = 0 /\ out = << >> /\ loc = 0 /\ next = 0
      /\ inflight = 0 /\ hedge = FALSE /\ running = {} /\ ctxDone = FALSE /\ failed = {}
  BY <1>1 DEF IdleInv
<1>3. got = offset /\ got \in Nat /\ chunks \in Seq(Frames) /\ Mapped(chunks, offset)
  BY <1>1, BodyAssumption DEF BInv, BufInv, EndInv, BodyTypeOK, ChunkInv
<1>4. MapInv' /\ objSize' \in Nat /\ Len(locs') \in Nat
  <2>1. CASE bpc' = "stored"
    <3>1. locs' = chunks /\ objSize' = offset
      BY <1>3, <2>1 DEF Publish
    <3> QED
      BY <1>3, <3>1 DEF MapInv
  <2>2. CASE bpc' # "stored"
    <3>1. locs' = << >> /\ objSize' = 0
      BY <2>2 DEF Publish
    <3>2. Mapped(<< >>, 0)
      BY DEF Mapped
    <3> QED
      BY <3>1, <3>2 DEF MapInv
  <2> QED
    BY <2>1, <2>2
<1>5. WindowTypeOK'
  BY <1>1, <1>2, <1>4, WindowFacts DEF WindowTypeOK
<1>6. CandInv' /\ IdleInv' /\ OutInv' /\ PieceInv' /\ FreshInv' /\ RaceInv' /\ WinInv' /\ HedgeInv'
  <2>1. CandInv' /\ IdleInv'
    BY <1>1, <1>2 DEF CandInv, IdleInv
  <2>2. OutInv'
    BY <1>1 DEF OutInv
  <2>3. PieceInv' /\ FreshInv' /\ RaceInv' /\ WinInv' /\ HedgeInv'
    BY <1>1, <1>2 DEF PieceInv, FreshInv, RaceInv, WinInv, HedgeInv
  <2> QED
    BY <2>1, <2>2, <2>3
<1> QED
  BY <1>4, <1>5, <1>6

LEMMA UploadKeeps ==
  ASSUME WInv, UNCHANGED windowVars, bpc' = bpc \/ (bpc # "gone" /\ bpc' # "gone")
  PROVE  WInv'
<1> USE DEF WInv, windowVars, mapVars, chunkVars, raceVars
<1>1. WindowTypeOK' /\ MapInv' /\ CandInv' /\ IdleInv' /\ OutInv' /\ PieceInv' /\ HedgeInv'
  BY DEF WindowTypeOK, MapInv, Mapped, CandInv, IdleInv, OutInv, PieceInv, HedgeInv, Pieces
<1>2. FreshInv' /\ RaceInv'
  BY DEF FreshInv, RaceInv, Pieces, Fresh, Runners, Won
<1>3. WinInv'
  <2>1. Want' = Want /\ (SomeCut' <=> SomeCut)
    BY DEF Want, ReadEnd, Size, SomeCut, Pieces
  <2> QED
    BY <2>1 DEF WinInv, Won, Runners
<1> QED
  BY <1>1, <1>2, <1>3

(* The next piece starts its race with the first candidate. *)
LEMMA NextPieceKeeps ==
  ASSUME WInv, UNCHANGED bodyVars, NextPiece
  PROVE  WInv'
<1> USE DEF WInv
<1>1. /\ rpc = "loop" /\ cur < hi /\ failed' = {} /\ bpc' = bpc
      /\ locs' = locs /\ objSize' = objSize /\ cands' = cands /\ keeps' = keeps /\ hedging' = hedging
      /\ lo' = lo /\ hi' = hi /\ cur' = cur /\ out' = out /\ results' = results /\ ctxDone' = ctxDone
  BY DEF NextPiece, mapVars, bodyVars, loopVars
<1>2. PICK i \in Pieces :
        i = locate(cur) /\ i # 0 /\ locs[i].offset <= cur /\ cur < End(locs[i])
  <2>1. cur \in 0..objSize - 1
    BY <1>1, WindowFacts
  <2> QED
    BY <2>1, LocateFacts
<1>3. MapInv' /\ CandInv' /\ OutInv'
  BY <1>1 DEF MapInv, Mapped, CandInv, OutInv
<1>4. CASE cands = << >>
  <2>1. rpc' = "error" /\ loc' = loc /\ next' = next /\ inflight' = inflight /\ hedge' = hedge
        /\ running' = running
    BY <1>4 DEF NextPiece, raceVars
  <2>2. WindowTypeOK' /\ IdleInv'
    BY <1>1, <2>1 DEF WindowTypeOK, IdleInv, Pieces
  <2>3. PieceInv' /\ FreshInv' /\ RaceInv' /\ WinInv' /\ HedgeInv'
    BY <1>1, <2>1 DEF PieceInv, FreshInv, RaceInv, WinInv, HedgeInv
  <2> QED
    BY <1>3, <2>2, <2>3
<1>5. CASE cands # << >>
  <2>0. PICK c \in {cands[1]} : TRUE
    OBVIOUS
  <2>1. /\ rpc' = "race" /\ loc' = i /\ running' = running \cup {<<i, c>>}
        /\ next' = 1 /\ inflight' = 1 /\ hedge' = armHedge(1)
    BY <1>2, <1>5, <2>0 DEF NextPiece
  <2>2. Len(cands) \in Nat /\ 1 \in 1..Len(cands) /\ c \in Replicas
    <3>1. Len(cands) \in Nat /\ Len(cands) # 0
      BY <1>5 DEF CandInv
    <3> QED
      BY <2>0, <3>1, WindowFacts
  <2>3. \A j \in Pieces : End(locs[j]) > cur => results[j] = << >> /\ Runners(j) = {}
    BY <1>1 DEF FreshInv, Fresh
  <2>4. Runners(i) = {} /\ results[i] = << >> /\ i \in Nat
    BY <1>2, <2>3, WindowFacts
  <2>5. Runners(i)' = {c} /\ \A j \in Pieces : j # i => Runners(j)' = Runners(j)
    BY <2>1, <2>2, <2>4 DEF Runners
  <2>6. Cardinality({c}) = 1
    BY FS_Singleton
  <2>7. Pieces' = Pieces
    BY <1>1 DEF Pieces
  <2>8. WindowTypeOK'
    <3>1. running' \subseteq Pieces \X Replicas
      BY <1>2, <2>1, <2>2 DEF WindowTypeOK
    <3>2. hedge' \in BOOLEAN
      BY <2>1 DEF armHedge
    <3>3. loc' \in 0..Len(locs')
      BY <1>1, <1>2, <2>1, WindowFacts DEF Pieces
    <3> QED
      BY <1>1, <2>1, <2>2, <2>7, <3>1, <3>2, <3>3 DEF WindowTypeOK
  <2>9. IdleInv' /\ PieceInv'
    BY <1>1, <1>2, <2>1, <2>2, <2>7 DEF IdleInv, PieceInv
  <2>10. FreshInv'
    BY <1>1, <2>1, <2>3, <2>5, <2>7 DEF FreshInv, Fresh
  <2>11. RaceInv'
    <3>1. (inflight = Cardinality(Runners(loc)) + Len(results[loc]))'
      BY <1>1, <2>1, <2>4, <2>5, <2>6
    <3>2. 1 \in 1..next' /\ \A k \in 1..next' : k = 1
      BY <2>1
    <3>3. c = cands'[1]
      BY <1>1, <2>0
    <3>4. Runners(loc)' = {c}
      BY <2>1, <2>5
    <3> QED
      BY <1>1, <2>1, <3>1, <3>2, <3>3, <3>4 DEF RaceInv
  <2>12. WinInv'
    <3>1. Len(results'[loc']) = 0
      BY <1>1, <2>1, <2>4
    <3> QED
      BY <2>1, <3>1 DEF WinInv, Won
  <2>13. HedgeInv'
    BY <1>1, <2>1, <2>2 DEF HedgeInv, armHedge
  <2> QED
    BY <1>3, <2>8, <2>9, <2>10, <2>11, <2>12, <2>13
<1> QED
  BY <1>4, <1>5

(* Another candidate is launched, by the timer or for one that failed. *)
LEMMA LaunchFacts ==
  ASSUME WInv, rpc = "race", next < Len(cands), Launch, NEW p \in Pieces, p = loc
  PROVE  \E c \in Replicas :
           /\ c = cands[next + 1] /\ c \notin failed
           /\ Runners(p)' = Runners(p) \cup {c}
           /\ \A j \in Pieces : j # p => Runners(j)' = Runners(j)
           /\ Cardinality(Runners(p)') = Cardinality(Runners(p)) + 1
           /\ running' \subseteq Pieces \X Replicas
           /\ next' = next + 1 /\ hedge' \in BOOLEAN /\ (hedge' => next + 1 < Len(cands))
<1> USE DEF WInv
<1>1. next \in Nat /\ Len(cands) \in Nat /\ next + 1 \in 1..Len(cands)
      /\ \A k \in 1..next : k \in 1..Len(cands) /\ k # next + 1
  BY WindowFacts
<1>2. PICK c \in Replicas : c = cands[next + 1]
  BY <1>1, WindowFacts
<1>3. \A k \in 1..next : cands[k] # c
  BY <1>1, <1>2 DEF CandInv
<1>4. c \notin Runners(p) /\ c \notin failed
  BY <1>3 DEF RaceInv
<1>5. /\ running' = running \cup {<<p, c>>} /\ next' = next + 1
      /\ hedge' = (next + 1 < Len(cands) /\ hedging)
  BY <1>2, Zenon DEF Launch, armHedge
<1>6. Runners(p)' = Runners(p) \cup {c} /\ \A j \in Pieces : j # p => Runners(j)' = Runners(j)
  BY <1>5 DEF Runners
<1>7. Cardinality(Runners(p) \cup {c}) = Cardinality(Runners(p)) + 1
  BY <1>4, WindowFacts, FS_AddElement
<1>8. running' \subseteq Pieces \X Replicas
  BY <1>5 DEF WindowTypeOK
<1>9. hedge' \in BOOLEAN /\ (hedge' => next + 1 < Len(cands))
  BY <1>5
<1> QED
  BY <1>2, <1>4, <1>5, <1>6, <1>7, <1>8, <1>9

(* What a launch, or the collection of a failure, leaves alone. *)
RaceFrame ==
  /\ locs' = locs /\ objSize' = objSize /\ cands' = cands /\ keeps' = keeps /\ hedging' = hedging
  /\ lo' = lo /\ hi' = hi /\ cur' = cur /\ out' = out /\ loc' = loc /\ failed' = failed
  /\ ctxDone' = ctxDone /\ bpc' = bpc

LEMMA FrameFacts ==
  ASSUME WInv, RaceFrame
  PROVE  /\ MapInv' /\ CandInv' /\ OutInv' /\ Pieces' = Pieces
         /\ Want' = Want /\ (SomeCut' <=> SomeCut)
<1>1. MapInv' /\ CandInv' /\ OutInv' /\ Pieces' = Pieces
  BY DEF WInv, RaceFrame, MapInv, Mapped, CandInv, OutInv, Pieces
<1>2. Want' = Want /\ (SomeCut' <=> SomeCut)
  BY DEF RaceFrame, Want, ReadEnd, Size, SomeCut, Pieces
<1> QED
  BY <1>1, <1>2

LEMMA HedgeKeeps ==
  ASSUME WInv, UNCHANGED bodyVars, Hedge
  PROVE  WInv'
<1> USE DEF WInv
<1>1. RaceFrame /\ rpc = "race" /\ rpc' = rpc /\ results' = results /\ inflight' = inflight + 1
      /\ Launch /\ next < Len(cands)
  BY DEF Hedge, RaceFrame, HedgeInv, mapVars, chunkVars, bodyVars, loopVars
<1>2. PICK p \in Pieces : p = loc
  BY <1>1 DEF PieceInv
<1>3. PICK c \in Replicas :
        /\ c = cands[next + 1] /\ c \notin failed
        /\ Runners(p)' = Runners(p) \cup {c}
        /\ \A j \in Pieces : j # p => Runners(j)' = Runners(j)
        /\ Cardinality(Runners(p)') = Cardinality(Runners(p)) + 1
        /\ running' \subseteq Pieces \X Replicas
        /\ next' = next + 1 /\ hedge' \in BOOLEAN /\ (hedge' => next + 1 < Len(cands))
  BY <1>1, <1>2, LaunchFacts
<1>4. /\ next \in Nat /\ Len(cands) \in Nat /\ inflight \in Nat
      /\ Cardinality(Runners(p)) \in Nat /\ Len(results[p]) \in Nat
      /\ inflight = Cardinality(Runners(p)) + Len(results[p])
  BY <1>1, <1>2, WindowFacts DEF RaceInv
<1>5. MapInv' /\ CandInv' /\ OutInv' /\ Pieces' = Pieces /\ Want' = Want /\ (SomeCut' <=> SomeCut)
  BY <1>1, FrameFacts
<1>6. WindowTypeOK'
  <2>0. inflight <= next
    BY DEF WindowTypeOK
  <2>1. next' \in 0..Len(cands) /\ inflight' \in 0..next'
    <3>1. /\ next' = next + 1 /\ inflight' = inflight + 1 /\ next < Len(cands)
          /\ next \in Nat /\ inflight \in Nat /\ Len(cands) \in Nat
      BY <1>1, <1>3, <1>4
    <3> QED
      BY <2>0, <3>1
  <2>2. hedge' \in BOOLEAN
    BY <1>3
  <2> QED
    BY <1>1, <1>3, <1>5, <2>1, <2>2 DEF WindowTypeOK, RaceFrame
<1>7. IdleInv' /\ PieceInv' /\ HedgeInv'
  <2>1. IdleInv' /\ PieceInv'
    BY <1>1, <1>3, <1>4, <1>5 DEF IdleInv, PieceInv, RaceFrame
  <2>2. HedgeInv'
    BY <1>1, <1>3 DEF HedgeInv, RaceFrame
  <2> QED
    BY <2>1, <2>2
<1>8. FreshInv'
  BY <1>1, <1>2, <1>3, <1>5 DEF FreshInv, Fresh, RaceFrame
<1>9. Runners(loc)' = Runners(loc) \cup {c} /\ Won' = Won
  BY <1>1, <1>2, <1>3 DEF RaceFrame, Won
<1>10. RaceInv'
  <2>1. (inflight = Cardinality(Runners(loc)) + Len(results[loc]))'
    <3>1. inflight' = inflight + 1 /\ Len(results[loc])' = Len(results[p])
          /\ Cardinality(Runners(loc))' = Cardinality(Runners(p)) + 1
      BY <1>1, <1>2, <1>3 DEF RaceFrame
    <3>2. inflight' = Cardinality(Runners(loc))' + Len(results[loc])'
      BY <1>4, <3>1
    <3> QED
      BY <3>2
  <2>2. next + 1 \in 1..next' /\ cands'[next + 1] = c /\ \A k \in 1..next : k \in 1..next'
    BY <1>1, <1>3, <1>4 DEF RaceFrame
  <2>3. \A r \in Runners(loc)' : r \notin failed' /\ \E k \in 1..next' : r = cands'[k]
    BY <1>1, <1>3, <1>9, <2>2 DEF RaceInv, RaceFrame
  <2>4. \A r \in failed' : \E k \in 1..next' : r = cands'[k]
    BY <1>1, <2>2 DEF RaceInv, RaceFrame
  <2>5. ASSUME NEW k \in 1..next'
        PROVE  cands'[k] \in Runners(loc)' \/ cands'[k] \in failed' \/ Won'
    <3>1. k \in 1..next \/ k = next + 1
      BY <1>3, <1>4
    <3> QED
      BY <1>1, <1>9, <2>2, <3>1 DEF RaceInv, RaceFrame
  <2> QED
    BY <2>1, <2>3, <2>4, <2>5 DEF RaceInv
<1>11. WinInv'
  <2>1. \A m \in 1..Len(results'[loc']) :
          results'[loc'][m].ok => Good(results'[loc'][m].data, cur', Want', SomeCut')
    BY <1>1, <1>5 DEF WinInv, RaceFrame, Good
  <2>2. Won => \E k \in 1..next' : cands'[k] \notin failed' /\ cands'[k] \notin Runners(loc)'
    <3> SUFFICES ASSUME Won
                 PROVE  \E k \in 1..next' : cands'[k] \notin failed' /\ cands'[k] \notin Runners(loc)'
      OBVIOUS
    <3>1. PICK k \in 1..next : cands[k] \notin failed /\ cands[k] \notin Runners(loc)
      BY <1>1 DEF WinInv
    <3>2. k \in 1..next' /\ k \in 1..Len(cands) /\ next + 1 \in 1..Len(cands) /\ k # next + 1
      BY <1>1, <1>3, <1>4
    <3>3. cands[k] # c
      BY <1>3, <3>2 DEF CandInv
    <3> QED
      BY <1>1, <1>9, <3>1, <3>2, <3>3 DEF RaceFrame
  <2> QED
    BY <1>1, <1>9, <2>1, <2>2 DEF WinInv
<1> QED
  BY <1>5, <1>6, <1>7, <1>8, <1>10, <1>11

(* The first result of the race's channel is taken out. *)
LEMMA TakenFacts ==
  ASSUME WInv, rpc = "race", results[loc] # << >>,
         results' = [results EXCEPT ![loc] = Tail(@)]
  PROVE  /\ results' \in [Pieces -> Seq(Results)]
         /\ results'[loc] \in Seq(Results) /\ Len(results'[loc]) = Len(results[loc]) - 1
         /\ Len(results[loc]) \in Nat \ {0}
         /\ \A m \in 1..Len(results[loc]) - 1 : results'[loc][m] = results[loc][m + 1]
         /\ \A j \in Pieces : j # loc => results'[j] = results[j]
         /\ Head(results[loc]) = results[loc][1] /\ Head(results[loc]) \in Results
<1>1. loc \in Pieces /\ results \in [Pieces -> Seq(Results)] /\ results[loc] \in Seq(Results)
  BY DEF WInv, PieceInv, IdleInv
<1> DEFINE q == results[loc]
<1>2. /\ Tail(q) \in Seq(Results) /\ Len(Tail(q)) = Len(q) - 1 /\ Len(q) \in Nat \ {0}
      /\ \A m \in 1..Len(q) - 1 : Tail(q)[m] = q[m + 1]
      /\ Head(q) = q[1] /\ Head(q) \in Results
  <2>1. q \in Seq(Results) /\ q # << >>
    BY <1>1
  <2> HIDE DEF q
  <2> QED
    BY <2>1
<1>3. results'[loc] = Tail(q) /\ \A j \in Pieces : j # loc => results'[j] = results[j]
  BY <1>1
<1>4. results' \in [Pieces -> Seq(Results)]
  BY <1>1, <1>2
<1> QED
  BY <1>2, <1>3, <1>4

LEMMA CollectErrorKeeps ==
  ASSUME WInv, UNCHANGED bodyVars, CollectError
  PROVE  WInv'
<1> USE DEF WInv
<1>1. /\ RaceFrame /\ rpc = "race" /\ results[loc] # << >> /\ ~ Head(results[loc]).ok
      /\ results' = [results EXCEPT ![loc] = Tail(@)]
      /\ rpc' = IF inflight' = 0 THEN "error" ELSE "race"
  BY DEF CollectError, RaceFrame, mapVars, bodyVars, loopVars
<1>2. PICK p \in Pieces : p = loc
  BY <1>1 DEF PieceInv
<1>3. /\ next \in Nat /\ Len(cands) \in Nat /\ inflight \in Nat
      /\ Cardinality(Runners(p)) \in Nat /\ IsFiniteSet(Runners(p))
      /\ next \in 1..Len(cands)
      /\ inflight = Cardinality(Runners(p)) + Len(results[p])
  BY <1>1, <1>2, WindowFacts DEF RaceInv, PieceInv
<1>4. /\ results' \in [Pieces -> Seq(Results)]
      /\ results'[p] \in Seq(Results) /\ Len(results'[p]) = Len(results[p]) - 1
      /\ Len(results[p]) \in Nat \ {0}
      /\ \A m \in 1..Len(results[p]) - 1 : results'[p][m] = results[p][m + 1]
      /\ \A j \in Pieces : j # p => results'[j] = results[j]
      /\ Head(results[p]) = results[p][1]
  BY <1>1, <1>2, TakenFacts
<1>5. MapInv' /\ CandInv' /\ OutInv' /\ Pieces' = Pieces /\ Want' = Want /\ (SomeCut' <=> SomeCut)
  BY <1>1, FrameFacts
<1>6. \A m \in 1..Len(results'[p]) : m + 1 \in 1..Len(results[p]) /\ results'[p][m] = results[p][m + 1]
  BY <1>4
<1>7. Won' <=> Won
  <2>1. Won' <=> \E m \in 1..Len(results'[p]) : results'[p][m].ok
    BY <1>1, <1>2 DEF Won, RaceFrame
  <2>2. Won <=> \E m \in 1..Len(results[p]) : results[p][m].ok
    BY <1>2 DEF Won
  <2>3. ASSUME NEW m \in 1..Len(results[p]), results[p][m].ok
        PROVE  \E n \in 1..Len(results'[p]) : results'[p][n].ok
    <3>1. m # 1
      BY <1>1, <1>2, <1>4, <2>3
    <3>2. m - 1 \in 1..Len(results'[p]) /\ m - 1 \in 1..Len(results[p]) - 1 /\ (m - 1) + 1 = m
      BY <1>4, <3>1
    <3>3. results'[p][m - 1] = results[p][m]
      BY <1>4, <3>2
    <3> QED
      BY <2>3, <3>2, <3>3
  <2> QED
    BY <1>6, <2>1, <2>2, <2>3
<1>8. \A m \in 1..Len(results'[loc']) :
        results'[loc'][m].ok => Good(results'[loc'][m].data, cur', Want', SomeCut')
  <2>1. cur' = cur /\ loc' = p /\ Want' = Want
    BY <1>1, <1>2, <1>5 DEF RaceFrame
  <2>2. ASSUME NEW m \in 1..Len(results'[p]), results'[p][m].ok
        PROVE  Good(results'[p][m].data, cur', Want', SomeCut')
    <3>1. m + 1 \in 1..Len(results[p]) /\ results'[p][m] = results[p][m + 1]
      BY <1>6
    <3>2. Good(results[p][m + 1].data, cur, Want, SomeCut)
      BY <1>1, <1>2, <2>2, <3>1 DEF WinInv
    <3> QED
      BY <1>5, <2>1, <3>1, <3>2 DEF Good
  <2> QED
    BY <2>1, <2>2
<1>9. CASE next < Len(cands)
  <2>1. Launch /\ inflight' = inflight
    BY <1>9 DEF CollectError
  <2>2. PICK c \in Replicas :
          /\ c = cands[next + 1] /\ c \notin failed
          /\ Runners(p)' = Runners(p) \cup {c}
          /\ \A j \in Pieces : j # p => Runners(j)' = Runners(j)
          /\ Cardinality(Runners(p)') = Cardinality(Runners(p)) + 1
          /\ running' \subseteq Pieces \X Replicas
          /\ next' = next + 1 /\ hedge' \in BOOLEAN /\ (hedge' => next + 1 < Len(cands))
    BY <1>1, <1>2, <1>9, <2>1, LaunchFacts
  <2>3. rpc' = "race"
    BY <1>1, <1>3, <1>4, <2>1
  <2>4. WindowTypeOK'
    <3>1. next' \in 0..Len(cands) /\ inflight' \in 0..next'
      <4>1. inflight' = inflight /\ inflight \in 0..next /\ next' = next + 1
        BY <2>1, <2>2 DEF WindowTypeOK
      <4> QED
        BY <1>3, <1>9, <4>1
    <3>2. hedge' \in BOOLEAN
      BY <2>2
    <3> QED
      BY <1>1, <1>5, <2>2, <2>3, <3>1, <3>2 DEF WindowTypeOK, RaceFrame
  <2>5. IdleInv' /\ PieceInv' /\ HedgeInv'
    <3>1. IdleInv'
      BY <1>1, <1>4, <1>5, <2>3 DEF IdleInv, RaceFrame
    <3>2. PieceInv'
      BY <1>1, <1>3, <1>5, <1>9, <2>2 DEF PieceInv, RaceFrame
    <3>3. HedgeInv'
      BY <1>1, <2>2 DEF HedgeInv, RaceFrame
    <3> QED
      BY <3>1, <3>2, <3>3
  <2>6. FreshInv'
    BY <1>1, <1>2, <1>4, <1>5, <2>2, <2>3 DEF FreshInv, Fresh, RaceFrame
  <2>7. Runners(loc)' = Runners(loc) \cup {c}
    BY <1>1, <1>2, <2>2 DEF RaceFrame
  <2>8. RaceInv'
    <3>1. (inflight = Cardinality(Runners(loc)) + Len(results[loc]))'
      BY <1>1, <1>2, <1>3, <1>4, <2>1, <2>2 DEF RaceFrame
    <3>2. next + 1 \in 1..next' /\ cands'[next + 1] = c /\ \A k \in 1..next : k \in 1..next'
      BY <1>1, <1>3, <2>2 DEF RaceFrame
    <3>3. \A r \in Runners(loc)' : r \notin failed' /\ \E k \in 1..next' : r = cands'[k]
      BY <1>1, <2>2, <2>7, <3>2 DEF RaceInv, RaceFrame
    <3>4. \A r \in failed' : \E k \in 1..next' : r = cands'[k]
      BY <1>1, <3>2 DEF RaceInv, RaceFrame
    <3>5. ASSUME NEW k \in 1..next'
          PROVE  cands'[k] \in Runners(loc)' \/ cands'[k] \in failed' \/ Won'
      <4>1. k \in 1..next \/ k = next + 1
        BY <1>3, <2>2
      <4> QED
        BY <1>1, <1>7, <2>7, <3>2, <4>1 DEF RaceInv, RaceFrame
    <3> QED
      BY <3>1, <3>3, <3>4, <3>5 DEF RaceInv
  <2>9. WinInv'
    <3>1. Won => \E k \in 1..next' : cands'[k] \notin failed' /\ cands'[k] \notin Runners(loc)'
      <4> SUFFICES ASSUME Won
                   PROVE  \E k \in 1..next' : cands'[k] \notin failed' /\ cands'[k] \notin Runners(loc)'
        OBVIOUS
      <4>1. PICK k \in 1..next : cands[k] \notin failed /\ cands[k] \notin Runners(loc)
        BY <1>1 DEF WinInv
      <4>2. k \in 1..next' /\ k \in 1..Len(cands) /\ next + 1 \in 1..Len(cands) /\ k # next + 1
        BY <1>3, <1>9, <2>2
      <4>3. cands[k] # c
        BY <2>2, <4>2 DEF CandInv
      <4> QED
        BY <1>1, <2>7, <4>1, <4>2, <4>3 DEF RaceFrame
    <3> QED
      BY <1>1, <1>2, <1>7, <1>8, <2>3, <3>1 DEF WinInv, RaceFrame
  <2> QED
    BY <1>5, <2>4, <2>5, <2>6, <2>8, <2>9
<1>10. CASE ~ (next < Len(cands))
  <2>1. inflight' = inflight - 1 /\ running' = running /\ next' = next /\ hedge' = hedge
    BY <1>10 DEF CollectError
  <2>2. \A j : Runners(j)' = Runners(j)
    BY <2>1 DEF Runners
  <2>3. Runners(loc)' = Runners(loc) /\ Runners(p)' = Runners(p)
    BY <1>1, <2>1 DEF Runners, RaceFrame
  <2>4. inflight' \in Nat /\ inflight' <= next' /\ rpc' \in {"race", "error"}
    <3>1. inflight \in 0..next /\ rpc' \in {"race", "error"}
      BY <1>1, <2>1 DEF WindowTypeOK, CollectError
    <3>2. inflight \in Nat \ {0}
      BY <1>3, <1>4
    <3> QED
      BY <1>3, <2>1, <3>1, <3>2
  <2>5. WindowTypeOK'
    <3>1. next' \in 0..Len(cands') /\ inflight' \in 0..next'
      BY <1>1, <1>3, <2>1, <2>4 DEF WindowTypeOK, RaceFrame
    <3> QED
      BY <1>1, <1>4, <1>5, <2>1, <2>4, <3>1 DEF WindowTypeOK, RaceFrame
  <2>6. IdleInv' /\ PieceInv' /\ HedgeInv'
    BY <1>1, <1>3, <1>4, <1>5, <2>1, <2>4 DEF IdleInv, PieceInv, HedgeInv, RaceFrame
  <2>7. FreshInv'
    BY <1>1, <1>2, <1>4, <1>5, <2>2, <2>4 DEF FreshInv, Fresh, RaceFrame
  <2>8. RaceInv'
    <3>1. (inflight = Cardinality(Runners(loc)) + Len(results[loc]))'
      BY <1>1, <1>2, <1>3, <1>4, <2>1, <2>3 DEF RaceFrame
    <3> QED
      BY <1>1, <1>7, <2>1, <2>3, <3>1 DEF RaceInv, RaceFrame
  <2>9. WinInv'
    BY <1>1, <1>2, <1>7, <1>8, <2>1, <2>3, <2>4 DEF WinInv, RaceFrame
  <2> QED
    BY <1>5, <2>5, <2>6, <2>7, <2>8, <2>9
<1> QED
  BY <1>9, <1>10

(* The winner's bytes are the next of the window. *)
LEMMA CollectOKKeeps ==
  ASSUME WInv, UNCHANGED bodyVars, CollectOK
  PROVE  WInv' /\ Len(out') = cur' - lo /\ (rpc' = "bytes" => SomeCut /\ cur' < hi)
<1> USE DEF WInv
<1>1. /\ rpc = "race" /\ results[loc] # << >> /\ Head(results[loc]).ok
      /\ results' = [results EXCEPT ![loc] = Tail(@)]
      /\ locs' = locs /\ objSize' = objSize /\ cands' = cands /\ keeps' = keeps /\ hedging' = hedging
      /\ lo' = lo /\ hi' = hi /\ loc' = loc /\ next' = next /\ running' = running
      /\ ctxDone' = ctxDone /\ failed' = failed /\ bpc' = bpc
      /\ inflight' = inflight - 1 /\ hedge' = FALSE
  BY DEF CollectOK, mapVars, bodyVars, loopVars
<1>2. PICK b : b = Head(results[loc]).data
  OBVIOUS
<1>3. /\ out' = out \o b /\ cur' = cur + Len(b)
      /\ rpc' = IF Len(b) < Want THEN "bytes" ELSE "loop"
  BY <1>2 DEF CollectOK
<1>4. /\ results' \in [Pieces -> Seq(Results)]
      /\ Len(results[loc]) \in Nat \ {0}
      /\ \A j \in Pieces : j # loc => results'[j] = results[j]
      /\ Head(results[loc]) = results[loc][1] /\ Head(results[loc]) \in Results
  BY <1>1, TakenFacts
<1>5. b \in Bytes /\ Len(b) \in Nat /\ Good(b, cur, Want, SomeCut) /\ Won
  <2>1. 1 \in 1..Len(results[loc])
    BY <1>4
  <2>2. Good(results[loc][1].data, cur, Want, SomeCut) /\ Won
    BY <1>1, <1>4, <2>1 DEF WinInv, Won
  <2> QED
    BY <1>2, <1>4, <2>2 DEF Results, Bytes
<1>6. /\ loc \in Pieces /\ Want \in Nat /\ Want > 0 /\ cur + Want <= hi
      /\ cur + Want = End(locs[loc]) \/ cur + Want = hi
  BY <1>1, WantFacts
<1>7. lo \in Nat /\ hi \in Nat /\ cur \in Nat /\ lo <= cur /\ inflight \in Nat /\ next \in Nat
      /\ Cardinality(Runners(loc)) \in Nat /\ Len(cands) \in Nat
  BY <1>6, WindowFacts
<1>8. Len(b) <= Want /\ (Len(b) < Want => SomeCut) /\ \A k \in 1..Len(b) : b[k] = cur + k - 1
  BY <1>5 DEF Good
<1>9. cur' \in Nat /\ lo <= cur' /\ cur' <= hi /\ (Len(b) < Want => cur' < hi)
  BY <1>3, <1>5, <1>6, <1>7, <1>8
<1>10. OutInv' /\ Len(out') = cur' - lo
  <2>1. /\ out = [k \in 1..cur - lo |-> lo + k - 1] /\ cur - lo \in Nat
    BY <1>7 DEF OutInv
  <2>2. out \in Seq(Nat) /\ Len(out) = cur - lo /\ \A k \in 1..cur - lo : out[k] = lo + k - 1
    BY <1>7, <2>1
  <2>3. b \in Seq(Nat)
    BY <1>5, <1>8, <1>7, BodyAssumption DEF Bytes
  <2>4. /\ out \o b \in Seq(Nat) /\ Len(out \o b) = Len(out) + Len(b)
        /\ \A k \in 1..Len(out) + Len(b) :
             (out \o b)[k] = IF k <= Len(out) THEN out[k] ELSE b[k - Len(out)]
    BY <2>2, <2>3, ConcatProperties
  <2>5. Len(out') = cur' - lo /\ out' \in Seq(Nat)
    BY <1>3, <1>5, <1>7, <2>2, <2>4
  <2>6. ASSUME NEW k \in 1..cur' - lo PROVE out'[k] = lo + k - 1
    <3>1. k \in 1..Len(out) + Len(b) /\ k \in Int
      BY <1>3, <1>5, <1>7, <1>9, <2>2
    <3>2. out'[k] = IF k <= Len(out) THEN out[k] ELSE b[k - Len(out)]
      BY <1>3, <2>4, <3>1
    <3>3. CASE k <= Len(out)
      <4>1. k \in 1..cur - lo
        BY <1>7, <2>2, <3>1, <3>3
      <4> QED
        BY <2>2, <3>2, <3>3, <4>1
    <3>4. CASE ~ (k <= Len(out))
      <4>1. k - Len(out) \in 1..Len(b)
        BY <1>5, <1>7, <2>2, <3>1, <3>4
      <4>2. b[k - Len(out)] = cur + (k - Len(out)) - 1
        BY <1>8, <4>1
      <4>3. out'[k] = b[k - Len(out)]
        BY <3>2, <3>4
      <4> QED
        BY <1>7, <2>2, <3>1, <4>2, <4>3
    <3> QED
      BY <3>3, <3>4
  <2>7. out' = [k \in 1..cur' - lo |-> lo + k - 1]
    <3> DEFINE all == [k \in 1..cur' - lo |-> lo + k - 1]
    <3>1. cur' - lo \in Nat
      <4>1. cur' \in Nat /\ lo \in Nat /\ lo <= cur'
        BY <1>7, <1>9
      <4>2. \A x, y \in Nat : x <= y => y - x \in Nat
        OBVIOUS
      <4> QED
        BY <4>1, <4>2, Zenon
    <3>2. all \in Seq(Nat) /\ Len(all) = cur' - lo /\ \A k \in 1..cur' - lo : all[k] = lo + k - 1
      BY <1>7, <3>1
    <3> HIDE DEF all
    <3>3. Len(out') = Len(all) /\ \A k \in 1..Len(out') : out'[k] = all[k]
      BY <2>5, <2>6, <3>2
    <3>4. out' = all
      BY <2>5, <3>2, <3>3, SeqEqual
    <3> QED
      BY <3>4 DEF all
  <2> QED
    BY <1>1, <2>5, <2>7 DEF OutInv
<1>11. Pieces' = Pieces /\ MapInv' /\ CandInv' /\ \A j : Runners(j)' = Runners(j)
  BY <1>1 DEF Pieces, MapInv, Mapped, CandInv, Runners
<1>12. rpc' \in {"bytes", "loop"} /\ (rpc' = "loop" => Len(b) = Want)
       /\ (rpc' = "bytes" => Len(b) < Want)
  BY <1>3, <1>5, <1>6, <1>8
<1>13. WindowTypeOK'
  <2>1. inflight' \in 0..next
    <3>1. inflight \in 0..next /\ inflight = Cardinality(Runners(loc)) + Len(results[loc])
      BY <1>1 DEF RaceInv, WindowTypeOK
    <3>2. inflight \in Nat \ {0} /\ inflight <= next
      BY <1>4, <1>7, <3>1
    <3> QED
      BY <1>1, <1>7, <3>2
  <2>2. cur' \in lo..hi
    BY <1>7, <1>9
  <2> QED
    BY <1>1, <1>11, <1>12, <2>1, <2>2 DEF WindowTypeOK
<1>14. IdleInv' /\ PieceInv' /\ HedgeInv' /\ RaceInv'
  BY <1>1, <1>4, <1>11, <1>12 DEF IdleInv, PieceInv, HedgeInv, RaceInv
<1>15. FreshInv'
  <2> SUFFICES ASSUME rpc' = "loop", cur' < hi, NEW j \in Pieces, End(locs[j]) > cur'
               PROVE  results'[j] = << >> /\ Runners(j) = {}
    BY <1>1, <1>11, <1>12 DEF FreshInv, Fresh
  <2>1. cur' = End(locs[loc]) /\ cur < cur'
    BY <1>3, <1>6, <1>7, <1>12
  <2>2. End(locs[j]) \in Nat /\ End(locs[loc]) \in Nat
    BY <1>6, WindowFacts
  <2>3. j # loc /\ End(locs[j]) > cur
    BY <1>7, <2>1, <2>2
  <2> QED
    BY <1>1, <1>4, <2>3 DEF FreshInv, Fresh
<1>16. WinInv'
  <2>1. PICK k \in 1..next : cands[k] \notin failed
    BY <1>1, <1>5 DEF WinInv
  <2>2. k \in 1..Len(cands)
    BY <1>1 DEF PieceInv
  <2> QED
    BY <1>1, <1>12, <2>1, <2>2 DEF WinInv
<1> QED
  BY <1>8, <1>9, <1>10, <1>11, <1>12, <1>13, <1>14, <1>15, <1>16

(* An attempt sends its result. *)
LEMMA SendKeeps ==
  ASSUME WInv, UNCHANGED bodyVars, NEW i, NEW r, NEW res \in Results, <<i, r>> \in running,
         Send(i, r, res), Current(i) /\ res.ok => Good(res.data, cur, Want, SomeCut)
  PROVE  WInv'
<1> USE DEF WInv
<1>1. i \in Pieces /\ r \in Replicas /\ rpc # "idle"
  BY DEF WindowTypeOK, IdleInv
<1>2. /\ locs' = locs /\ objSize' = objSize /\ cands' = cands /\ keeps' = keeps /\ hedging' = hedging
      /\ lo' = lo /\ hi' = hi /\ cur' = cur /\ out' = out /\ rpc' = rpc
      /\ loc' = loc /\ next' = next /\ inflight' = inflight /\ hedge' = hedge
      /\ ctxDone' = ctxDone /\ bpc' = bpc
      /\ results' = [results EXCEPT ![i] = Append(@, res)]
      /\ running' = running \ {<<i, r>>}
      /\ failed' = IF Current(i) /\ ~ res.ok THEN failed \cup {r} ELSE failed
  BY DEF Send, mapVars, chunkVars, raceVars, bodyVars, loopVars
<1>3. /\ results \in [Pieces -> Seq(Results)] /\ results[i] \in Seq(Results)
      /\ Len(results[i]) \in Nat
  BY <1>1 DEF IdleInv
<1>4. /\ results' \in [Pieces -> Seq(Results)] /\ results'[i] = Append(results[i], res)
      /\ \A j \in Pieces : j # i => results'[j] = results[j]
  BY <1>1, <1>2, <1>3
<1>5. /\ Runners(i)' = Runners(i) \ {r} /\ r \in Runners(i)
      /\ \A j \in Pieces : j # i => Runners(j)' = Runners(j)
  BY <1>1, <1>2 DEF Runners
<1>6. Pieces' = Pieces /\ MapInv' /\ CandInv' /\ OutInv' /\ Want' = Want /\ (SomeCut' <=> SomeCut)
  BY <1>2 DEF Pieces, MapInv, Mapped, CandInv, OutInv, Want, ReadEnd, Size, SomeCut
<1>7. WindowTypeOK'
  BY <1>1, <1>2, <1>6 DEF WindowTypeOK
<1>8. IdleInv' /\ PieceInv' /\ HedgeInv'
  BY <1>1, <1>2, <1>4, <1>6 DEF IdleInv, PieceInv, HedgeInv
<1>9. FreshInv'
  <2>1. ASSUME NEW j \in Pieces, Fresh(j) PROVE j # i /\ Fresh(j)'
    BY <1>4, <1>5, <2>1 DEF Fresh
  <2> QED
    BY <1>2, <1>6, <2>1 DEF FreshInv
<1>10. CASE ~ Current(i)
  <2>1. failed' = failed
    BY <1>2, <1>10
  <2>2. CASE rpc = "race"
    <3>1. PICK p \in Pieces : p = loc /\ p # i
      BY <1>10, <2>2 DEF PieceInv, Current
    <3>2. Runners(p)' = Runners(p) /\ results'[p] = results[p] /\ loc' = p
      BY <1>2, <1>4, <1>5, <3>1
    <3>3. Runners(loc)' = Runners(loc) /\ Won' = Won
      BY <3>1, <3>2 DEF Won, Runners
    <3>4. RaceInv'
      BY <1>2, <2>1, <3>1, <3>2, <3>3 DEF RaceInv
    <3>5. \A m \in 1..Len(results'[p]) :
            results'[p][m].ok => Good(results'[p][m].data, cur', Want', SomeCut')
      BY <1>2, <1>6, <2>2, <3>1, <3>2 DEF WinInv, Good
    <3>6. WinInv'
      BY <1>2, <2>1, <2>2, <3>1, <3>2, <3>3, <3>5 DEF WinInv
    <3> QED
      BY <1>6, <1>7, <1>8, <1>9, <3>4, <3>6
  <2>3. CASE rpc # "race"
    <3>1. RaceInv' /\ WinInv'
      BY <1>2, <2>1, <2>3 DEF RaceInv, WinInv
    <3> QED
      BY <1>6, <1>7, <1>8, <1>9, <3>1
  <2> QED
    BY <2>2, <2>3
<1>11. CASE Current(i)
  <2>1. rpc = "race" /\ i = loc
    BY <1>11 DEF Current
  <2>2. /\ inflight = Cardinality(Runners(i)) + Len(results[i]) /\ inflight \in Nat
        /\ Cardinality(Runners(i)) \in Nat /\ IsFiniteSet(Runners(i))
    BY <1>1, <2>1, WindowFacts DEF RaceInv
  <2>3. Cardinality(Runners(i)') = Cardinality(Runners(i)) - 1
    BY <1>5, <2>2, FS_RemoveElement
  <2>4. /\ Len(results'[i]) = Len(results[i]) + 1 /\ results'[i][Len(results[i]) + 1] = res
        /\ \A m \in 1..Len(results[i]) : results'[i][m] = results[i][m]
    BY <1>3, <1>4
  <2>5. loc' = i /\ Runners(loc)' = Runners(i)'
    BY <1>2, <2>1 DEF Runners
  <2>6. PICK k0 \in 1..next : r = cands[k0]
    BY <1>5, <2>1 DEF RaceInv
  <2>7. r \notin failed
    BY <1>5, <2>1 DEF RaceInv
  <2>8. Won' <=> Won \/ res.ok
    <3>1. Won' <=> \E m \in 1..Len(results'[i]) : results'[i][m].ok
      BY <2>5 DEF Won
    <3>2. Won <=> \E m \in 1..Len(results[i]) : results[i][m].ok
      BY <2>1 DEF Won
    <3>3. \A m \in 1..Len(results'[i]) : m \in 1..Len(results[i]) \/ m = Len(results[i]) + 1
      BY <1>3, <2>4
    <3>4. Len(results[i]) + 1 \in 1..Len(results'[i])
          /\ \A m \in 1..Len(results[i]) : m \in 1..Len(results'[i])
      BY <1>3, <2>4
    <3> QED
      BY <2>4, <3>1, <3>2, <3>3, <3>4
  <2>9. failed' = IF res.ok THEN failed ELSE failed \cup {r}
    BY <1>2, <1>11
  <2>10. RaceInv'
    <3>1. (inflight = Cardinality(Runners(loc)) + Len(results[loc]))'
      BY <1>2, <1>3, <2>2, <2>3, <2>4, <2>5
    <3>2. \A x \in Runners(i)' : x \notin failed' /\ \E k \in 1..next' : x = cands'[k]
      BY <1>2, <1>5, <2>1, <2>9 DEF RaceInv
    <3>3. \A x \in failed' : \E k \in 1..next' : x = cands'[k]
      BY <1>2, <2>1, <2>6, <2>9 DEF RaceInv
    <3>4. \A k \in 1..next' : cands'[k] \in Runners(i)' \/ cands'[k] \in failed' \/ Won'
      BY <1>2, <1>5, <2>1, <2>8, <2>9 DEF RaceInv
    <3> QED
      BY <2>5, <3>1, <3>2, <3>3, <3>4 DEF RaceInv
  <2>11. WinInv'
    <3>1. ASSUME NEW m \in 1..Len(results'[i]), results'[i][m].ok
          PROVE  Good(results'[i][m].data, cur', Want', SomeCut')
      <4>1. CASE m \in 1..Len(results[i])
        <5>1. Good(results[i][m].data, cur, Want, SomeCut)
          BY <2>1, <2>4, <3>1, <4>1 DEF WinInv
        <5> QED
          BY <1>2, <1>6, <2>4, <4>1, <5>1 DEF Good
      <4>2. CASE m = Len(results[i]) + 1
        <5>1. results'[i][m] = res
          BY <2>4, <4>2
        <5>2. Good(res.data, cur, Want, SomeCut)
          BY <1>11, <3>1, <5>1
        <5> QED
          BY <1>2, <1>6, <5>1, <5>2 DEF Good
      <4> QED
        BY <1>3, <2>4, <4>1, <4>2
    <3>2. Won' => \E k \in 1..next' : cands'[k] \notin failed' /\ cands'[k] \notin Runners(i)'
      <4>1. CASE res.ok
        BY <1>2, <1>5, <2>6, <2>7, <2>9, <4>1
      <4>2. CASE ~ res.ok
        <5> SUFFICES ASSUME Won
                     PROVE  \E k \in 1..next' : cands'[k] \notin failed' /\ cands'[k] \notin Runners(i)'
          BY <2>8, <4>2
        <5>1. PICK k \in 1..next : cands[k] \notin failed /\ cands[k] \notin Runners(i)
          BY <2>1 DEF WinInv
        <5> QED
          BY <1>2, <1>5, <2>9, <5>1
      <4> QED
        BY <4>1, <4>2
    <3> QED
      BY <1>2, <2>1, <2>5, <3>1, <3>2 DEF WinInv
  <2> QED
    BY <1>6, <1>7, <1>8, <1>9, <2>10, <2>11
<1> QED
  BY <1>10, <1>11

LEMMA AttemptKeeps ==
  ASSUME WInv, UNCHANGED bodyVars, NEW i, NEW r, AttemptStep(i, r)
  PROVE  WInv'
<1>1. <<i, r>> \in running
  BY DEF AttemptStep, AttemptOK, AttemptFails
<1>2. Failure \in Results /\ ~ Failure.ok
  BY DEF Failure, Results, Bytes
<1>3. CASE AttemptFails(i, r)
  BY <1>1, <1>2, <1>3, SendKeeps DEF AttemptFails
<1>4. CASE AttemptOK(i, r) /\ ~ Current(i)
  <2>1. Send(i, r, Failure)
    BY <1>4, Zenon DEF AttemptOK
  <2> QED
    BY <1>1, <1>2, <2>1, SendKeeps
<1>5. CASE AttemptOK(i, r) /\ Current(i)
  <2> DEFINE res == rangeGet(Blob(i, r), localOff, Want, r \notin NoRange)
  <2>1. Send(i, r, res)
    BY <1>5, Zenon DEF AttemptOK
  <2>2. rpc = "race" /\ i = loc /\ r \in Runners(loc) /\ (r \notin NoRange) \in BOOLEAN
    BY <1>1, <1>5 DEF Current, Runners, WInv, WindowTypeOK
  <2>3. res \in Results /\ (res.ok => Good(res.data, cur, Want, SomeCut))
    BY <2>2, RangeFacts
  <2> HIDE DEF res
  <2> QED
    BY <1>1, <2>1, <2>3, SendKeeps
<1> QED
  BY <1>3, <1>4, <1>5 DEF AttemptStep

LEMMA WindowInvariance == Spec => []WInv
<1>1. Init => WInv
  <2> SUFFICES ASSUME Init PROVE WInv
    OBVIOUS
  <2>1. /\ hedging \in BOOLEAN
        /\ keeps = [r \in Replicas |-> MaxBlob] /\ lo = 0 /\ hi = 0 /\ cur = 0 /\ out = << >>
        /\ rpc = "idle" /\ loc = 0 /\ next = 0 /\ inflight = 0 /\ hedge = FALSE /\ running = {}
        /\ ctxDone = FALSE /\ failed = {} /\ locs = << >> /\ objSize = 0 /\ bpc = "read"
    BY DEF Init, WindowIdle, BodyInit
  <2>2. PICK on \in EnabledSets : cands \in InOrder(on)
    BY DEF Init, WindowIdle
  <2>3. on \subseteq Replicas /\ IsFiniteSet(on)
    BY WindowAssumption, ReplicasFinite, FS_Subset
  <2>4. PICK n \in Nat : n = Cardinality(on)
    BY <2>3, FS_CardinalityType
  <2>5. /\ cands \in [1..n -> on]
        /\ \A k, l \in 1..n : k < l => Rank(cands[k]) < Rank(cands[l])
    BY <2>2, <2>4, Zenon DEF InOrder
  <2>6. cands \in Seq(Replicas) /\ Len(cands) = n
    <3>1. cands \in Seq(on) /\ Len(cands) = n
      BY <2>4, <2>5
    <3> QED
      BY <2>3, <3>1, SeqMonotonic
  <2>7. \A r \in Replicas : Rank(r) \in Nat
    <3> SUFFICES ASSUME NEW r \in Replicas PROVE Rank(r) \in Nat
      OBVIOUS
    <3>1. \E k \in 1..Len(ReplicaList) : ReplicaList[k] = r
      BY DEF Replicas
    <3>2. Rank(r) \in 1..Len(ReplicaList)
      BY <3>1, Zenon DEF Rank
    <3> QED
      BY <3>2, WindowAssumption
  <2>8. CandInv
    <3>1. ASSUME NEW k \in 1..n, NEW l \in 1..n, cands[k] = cands[l] PROVE k = l
      <4>1. cands[k] \in Replicas /\ Rank(cands[k]) \in Nat
        BY <2>3, <2>5, <2>7
      <4>2. ~ (k < l) /\ ~ (l < k)
        BY <2>5, <3>1, <4>1
      <4> QED
        BY <2>4, <4>2
    <3> QED
      BY <2>6, <3>1 DEF CandInv
  <2>9. MapInv /\ IdleInv /\ HedgeInv
    <3>1. MapInv
      BY <2>1 DEF MapInv, Mapped
    <3> QED
      BY <2>1, <3>1 DEF IdleInv, HedgeInv
  <2>10. OutInv
    BY <2>1 DEF OutInv
  <2>11. WindowTypeOK
    <3>1. MaxBlob \in 0..MaxBlob
      BY WindowAssumption
    <3>2. keeps \in [Replicas -> 0..MaxBlob]
      BY <2>1, <3>1
    <3>3. Len(locs) = 0 /\ 0 \in 0..0 /\ 0 \in Nat /\ 0 \in 0..Len(cands)
      BY <2>1, <2>4, <2>6
    <3>4. /\ objSize \in Nat /\ lo \in 0..objSize /\ hi \in lo..objSize /\ cur \in lo..hi
          /\ loc \in 0..Len(locs) /\ next \in 0..Len(cands) /\ inflight \in 0..next
      BY <2>1, <3>3
    <3>5. /\ rpc \in {"idle", "loop", "race", "bytes", "error"}
          /\ hedge \in BOOLEAN /\ ctxDone \in BOOLEAN /\ hedging \in BOOLEAN
          /\ running \subseteq Pieces \X Replicas /\ failed \subseteq Replicas
      BY <2>1
    <3> QED
      BY <2>6, <3>2, <3>4, <3>5 DEF WindowTypeOK
  <2>12. PieceInv /\ FreshInv /\ RaceInv /\ WinInv
    BY <2>1 DEF PieceInv, FreshInv, RaceInv, WinInv
  <2> QED
    BY <2>8, <2>9, <2>10, <2>11, <2>12 DEF WInv
<1>2. WInv /\ BInv /\ [Next]_vars => WInv'
  <2> SUFFICES ASSUME WInv, BInv, [Next]_vars PROVE WInv'
    OBVIOUS
  <2>1. CASE UNCHANGED vars
    BY <2>1, UploadKeeps DEF vars, bodyVars, loopVars
  <2>2. CASE Upload
    <3>1. UNCHANGED windowVars
      BY <2>2 DEF Upload
    <3>2. bpc \in {"read", "upload", "size"} /\ bpc' # "gone"
      <4>1. AfterChunk # "gone"
        BY DEF AfterChunk, BInv, BodyTypeOK
      <4>2. CASE StoreChunk \/ StoreChunkFails \/ ValidateSize
        BY <4>1, <4>2 DEF StoreChunk, StoreChunkFails, ValidateSize
      <4>3. ASSUME NEW n, NEW e, Receive(n, e) PROVE bpc' # "gone"
        BY <4>3 DEF Receive
      <4>4. CASE PlainRead \/ FinalFrame \/ BadHeader \/ AfterFinal
        BY <4>3, <4>4 DEF PlainRead, FinalFrame, BadHeader, AfterFinal, AtHeader
      <4>5. CASE NextFrame \/ FrameData
        BY <4>3, <4>5 DEF NextFrame, FrameData, ReadData, Terminator, AtHeader
      <4> QED
        BY <2>2, <4>2, <4>4, <4>5 DEF Upload
    <3> QED
      BY <3>1, <3>2, UploadKeeps
  <2>3. CASE Download(WindowStep)
    <3>1. UNCHANGED bodyVars /\ WindowStep
      BY <2>3 DEF Download
    <3> QED
      BY <3>1, QuietKeeps, NextPieceKeeps, HedgeKeeps, CollectErrorKeeps, CollectOKKeeps, AttemptKeeps
      DEF WindowStep, WorkerStep
  <2> QED
    BY <2>1, <2>2, <2>3, PublishKeeps, RequestKeeps DEF Next
<1> QED
  BY <1>1, <1>2, UploadInvariance, PTL DEF Spec

(* Type correctness of the upload's and the read's state. *)
THEOREM TypeCorrect == Spec => []TypeOK
<1>1. BInv /\ WInv => TypeOK
  BY DEF BInv, WInv, TypeOK
<1> QED
  BY <1>1, UploadInvariance, WindowInvariance, PTL

-----------------------------------------------------------------------------
(* The refinement. *)
Wanted == [k \in 1..hi - lo |-> lo + k - 1]
Answer == IF rpc \in {"bytes", "error"} THEN rpc ELSE "none"
Returned == IF rpc = "bytes" THEN out ELSE << >>
Lost ==
  \/ ctxDone \/ cands = << >>
  \/ \A k \in 1..Len(cands) : cands[k] \in failed

(* The abstract actions, in terms of the concrete state. *)
LEMMA AbstractSteps ==
  /\ Answer = "none" /\ (Lost => Lost') /\ Answer' = Answer /\ Returned' = Returned
     => Promise!Next
  /\ Answer = "none" /\ Answer' = "bytes" /\ Returned' = Wanted
     /\ Wanted' = Wanted /\ SomeCut' = SomeCut /\ Lost' = Lost => Promise!Next
  /\ SomeCut /\ Answer = "none" /\ Answer' = "bytes"
     /\ (\E n \in 0..Len(Wanted) - 1 : Returned' = SubSeq(Wanted, 1, n))
     /\ Wanted' = Wanted /\ SomeCut' = SomeCut /\ Lost' = Lost => Promise!Next
  /\ Lost' /\ Answer = "none" /\ Answer' = "error"
     /\ Wanted' = Wanted /\ Returned' = Returned /\ SomeCut' = SomeCut => Promise!Next
  /\ Wanted' = Wanted /\ Answer' = Answer /\ Returned' = Returned /\ SomeCut' = SomeCut
     /\ Lost' = Lost => UNCHANGED Promise!vars
  BY Zenon DEF Promise!Next, Promise!Environment, Promise!Whole, Promise!Short, Promise!Fail,
     Promise!vars, Wanted, Answer, Returned, SomeCut, Lost

(* Every candidate of the race has failed when none is left in flight. *)
LEMMA AllFailed ==
  ASSUME WInv, CollectError, rpc' = "error"
  PROVE  Lost' /\ inflight' = 0
<1> USE DEF WInv
<1>1. /\ rpc = "race" /\ results[loc] # << >> /\ ~ Head(results[loc]).ok
      /\ results' = [results EXCEPT ![loc] = Tail(@)] /\ inflight' = 0
      /\ cands' = cands /\ failed' = failed
  BY DEF CollectError, mapVars
<1>2. /\ next \in 1..Len(cands) /\ Len(cands) \in Nat /\ loc \in Pieces
      /\ inflight = Cardinality(Runners(loc)) + Len(results[loc])
      /\ Cardinality(Runners(loc)) \in Nat /\ IsFiniteSet(Runners(loc))
  BY <1>1, WindowFacts DEF PieceInv, RaceInv
<1>3. Len(results[loc]) \in Nat \ {0} /\ Head(results[loc]) = results[loc][1]
  BY <1>1, TakenFacts
<1>4. ~ (next < Len(cands)) /\ inflight' = inflight - 1
  BY <1>1, <1>2, <1>3 DEF CollectError
<1>5. next = Len(cands) /\ Cardinality(Runners(loc)) = 0 /\ Len(results[loc]) = 1
  <2> DEFINE n == Cardinality(Runners(loc))
             l == Len(results[loc])
             m == Len(cands)
  <2>1. n \in Nat /\ l \in Nat \ {0} /\ m \in Nat /\ next \in 1..m /\ ~ (next < m)
        /\ 0 = n + l - 1
    <3>1. inflight = n + l /\ inflight - 1 = 0
      BY <1>1, <1>2, <1>4
    <3> QED
      BY <3>1, <1>2, <1>3, <1>4
  <2> HIDE DEF n, l, m
  <2>2. next = m /\ n = 0 /\ l = 1
    BY <2>1
  <2> QED
    BY <2>2 DEF n, l, m
<1>6. Runners(loc) = {}
  BY <1>2, <1>5, FS_EmptySet
<1>7. ~ Won
  BY <1>1, <1>3, <1>5 DEF Won
<1>8. \A k \in 1..Len(cands) : cands[k] \in failed
  BY <1>1, <1>5, <1>6, <1>7 DEF RaceInv
<1> QED
  BY <1>1, <1>8 DEF Lost

(* What Promise is told of changes only with these variables. *)
LEMMA SameFacts ==
  /\ lo' = lo /\ hi' = hi => Wanted' = Wanted
  /\ locs' = locs /\ cands' = cands /\ keeps' = keeps => SomeCut' = SomeCut
  /\ ctxDone' = ctxDone /\ cands' = cands /\ failed' = failed => Lost' = Lost
  /\ (ctxDone => ctxDone') /\ cands' = cands /\ failed \subseteq failed' => (Lost => Lost')
<1>1. lo' = lo /\ hi' = hi => Wanted' = Wanted
  BY DEF Wanted
<1>2. locs' = locs /\ cands' = cands /\ keeps' = keeps => SomeCut' = SomeCut
  BY DEF SomeCut, Pieces, Size
<1>3. ctxDone' = ctxDone /\ cands' = cands /\ failed' = failed => Lost' = Lost
  BY DEF Lost
<1>4. (ctxDone => ctxDone') /\ cands' = cands /\ failed \subseteq failed' => (Lost => Lost')
  BY DEF Lost
<1> QED
  BY <1>1, <1>2, <1>3, <1>4, Zenon

LEMMA StepsImplement ==
  ASSUME WInv, WInv', [Next]_vars
  PROVE  Promise!Next \/ UNCHANGED Promise!vars
<1> DEFINE Steps == Promise!Next \/ UNCHANGED Promise!vars
<1> SUFFICES Steps
  OBVIOUS
<1>1. ASSUME rpc \notin {"bytes", "error"}, rpc' \notin {"bytes", "error"}, Lost => Lost'
      PROVE  Steps
  BY <1>1, AbstractSteps DEF Answer, Returned
<1>2. ASSUME rpc \notin {"bytes", "error"}, rpc' = "error", Lost', lo' = lo, hi' = hi, locs' = locs,
             cands' = cands, keeps' = keeps
      PROVE  Steps
  BY <1>2, AbstractSteps, SameFacts DEF Answer, Returned
<1>3. CASE UNCHANGED windowVars
  <2>1. Wanted' = Wanted /\ SomeCut' = SomeCut /\ Lost' = Lost
    BY <1>3, SameFacts DEF windowVars, mapVars, chunkVars
  <2>2. Answer' = Answer /\ Returned' = Returned
    BY <1>3 DEF windowVars, chunkVars, Answer, Returned
  <2> QED
    BY <2>1, <2>2, AbstractSteps
<1>4. CASE Publish
  <2>1. rpc = "idle" /\ rpc' = "idle" /\ (Lost => Lost')
    BY <1>4, SameFacts DEF Publish, Commit, chunkVars, WInv, IdleInv
  <2> QED
    BY <1>1, <2>1
<1>5. CASE Request
  <2>1. rpc = "idle" /\ rpc' = "loop" /\ (Lost => Lost')
    BY <1>5, SameFacts DEF Request, Chunk
  <2> QED
    BY <1>1, <2>1
<1>6. CASE NextPiece
  <2>1. /\ rpc = "loop" /\ lo' = lo /\ hi' = hi /\ locs' = locs /\ cands' = cands
        /\ keeps' = keeps /\ ctxDone' = ctxDone /\ failed' = {} /\ rpc' \in {"race", "error"}
    BY <1>6 DEF NextPiece, mapVars
  <2>2. CASE cands = << >>
    <3>1. Lost' /\ rpc' = "error"
      BY <1>6, <2>1, <2>2 DEF NextPiece, Lost
    <3> QED
      BY <1>2, <2>1, <3>1
  <2>3. CASE cands # << >>
    <3>1. Lost => ctxDone
      BY <2>1, <2>3 DEF Lost, WInv, WinInv
    <3>2. Lost => Lost'
      BY <2>1, <3>1 DEF Lost
    <3>3. rpc' # "error"
      <4>1. cur \in 0..objSize - 1
        BY <1>6, WindowFacts DEF NextPiece
      <4>2. locate(cur) # 0
        BY <4>1, LocateFacts
      <4> QED
        BY <1>6, <2>3, <4>2 DEF NextPiece
    <3> QED
      BY <1>1, <2>1, <3>2, <3>3
  <2> QED
    BY <2>2, <2>3
<1>7. CASE ChunkDone
  <2>1. /\ rpc = "loop" /\ rpc' = "bytes" /\ lo' = lo /\ hi' = hi /\ locs' = locs
        /\ cands' = cands /\ keeps' = keeps /\ ctxDone' = ctxDone /\ failed' = failed
        /\ out' = out /\ cur = hi
    BY <1>7, WindowFacts DEF ChunkDone, mapVars
  <2>2. out = Wanted
    BY <2>1 DEF Wanted, WInv, OutInv
  <2>3. Wanted' = Wanted /\ SomeCut' = SomeCut /\ Lost' = Lost
    BY <2>1, SameFacts
  <2>4. Answer = "none" /\ Answer' = "bytes" /\ Returned' = Wanted
    BY <2>1, <2>2 DEF Answer, Returned
  <2> QED
    BY <2>3, <2>4, AbstractSteps
<1>8. CASE CtxEnds \/ Hedge
  <2>1. rpc \in {"loop", "race"} /\ rpc' = rpc /\ (Lost => Lost')
    BY <1>8, SameFacts DEF CtxEnds, Hedge, mapVars, chunkVars
  <2> QED
    BY <1>1, <2>1
<1>9. CASE RaceCancelled
  <2>1. /\ rpc = "race" /\ rpc' = "error" /\ lo' = lo /\ hi' = hi /\ locs' = locs
        /\ cands' = cands /\ keeps' = keeps /\ Lost'
    BY <1>9 DEF RaceCancelled, mapVars, Lost
  <2> QED
    BY <1>2, <2>1
<1>10. CASE CollectOK /\ UNCHANGED bodyVars
  <2>1. /\ rpc = "race" /\ rpc' \in {"bytes", "loop"} /\ lo' = lo /\ hi' = hi /\ locs' = locs
        /\ cands' = cands /\ keeps' = keeps /\ ctxDone' = ctxDone /\ failed' = failed
    BY <1>10 DEF CollectOK, mapVars
  <2>2. Wanted' = Wanted /\ SomeCut' = SomeCut /\ Lost' = Lost
    BY <2>1, SameFacts
  <2>3. CASE rpc' = "loop"
    BY <1>1, <2>1, <2>2, <2>3
  <2>4. CASE rpc' = "bytes"
    <3>1. SomeCut /\ cur' < hi
      BY <1>10, <2>4, CollectOKKeeps
    <3>2. PICK n \in Nat, h \in Nat : n = cur' - lo /\ h = hi - lo /\ n < h
      <4>1. cur' \in Nat /\ lo \in Nat /\ hi \in Nat /\ lo <= cur'
        <5>1. cur' \in Nat /\ lo' <= cur'
          BY WindowFacts DEF WInv, WindowTypeOK
        <5> QED
          BY <2>1, <5>1, WindowFacts
      <4>2. \A x, y, z \in Nat : x <= y /\ y < z => y - x \in Nat /\ z - x \in Nat /\ y - x < z - x
        OBVIOUS
      <4> QED
        BY <3>1, <4>1, <4>2
    <3>3. out' = [k \in 1..n |-> lo + k - 1]
      BY <2>1, <3>2 DEF WInv, OutInv
    <3>4. Wanted = [k \in 1..h |-> lo + k - 1] /\ lo \in Nat
      BY <3>2, WindowFacts DEF Wanted
    <3>5. Wanted \in Seq(Nat) /\ Len(Wanted) = h /\ n \in 0..Len(Wanted) - 1
      BY <3>2, <3>4
    <3>6. SubSeq(Wanted, 1, n) = [k \in 1..n |-> Wanted[k]]
      BY <3>2, <3>5
    <3>7. out' = SubSeq(Wanted, 1, n)
      BY <3>2, <3>3, <3>4, <3>6
    <3>8. Answer = "none" /\ Answer' = "bytes" /\ Returned' = SubSeq(Wanted, 1, n)
      BY <2>1, <2>4, <3>7 DEF Answer, Returned
    <3> QED
      BY <2>2, <3>1, <3>5, <3>8, AbstractSteps
  <2> QED
    BY <2>1, <2>3, <2>4
<1>11. CASE CollectError
  <2>1. /\ rpc = "race" /\ rpc' \in {"race", "error"} /\ lo' = lo /\ hi' = hi /\ locs' = locs
        /\ cands' = cands /\ keeps' = keeps /\ ctxDone' = ctxDone /\ failed' = failed
    BY <1>11 DEF CollectError, mapVars
  <2>2. Lost' = Lost
    BY <2>1, SameFacts
  <2>3. rpc' = "error" => Lost'
    BY <1>11, AllFailed
  <2> QED
    BY <1>1, <1>2, <2>1, <2>2, <2>3
<1>12. ASSUME NEW i, NEW r, AttemptStep(i, r)
       PROVE  Steps
  <2>1. PICK res : Send(i, r, res)
    BY <1>12, Zenon DEF AttemptStep, AttemptOK, AttemptFails
  <2>2. /\ rpc' = rpc /\ lo' = lo /\ hi' = hi /\ locs' = locs /\ out' = out
        /\ cands' = cands /\ keeps' = keeps /\ ctxDone' = ctxDone
        /\ failed \subseteq failed' /\ (rpc # "race" => failed' = failed)
    BY <2>1 DEF Send, mapVars, chunkVars, Current
  <2>3. CASE rpc \in {"bytes", "error"}
    <3>1. failed' = failed
      BY <2>2, <2>3
    <3>2. Wanted' = Wanted /\ SomeCut' = SomeCut /\ Lost' = Lost
      BY <2>2, <3>1, SameFacts
    <3>3. Answer' = Answer /\ Returned' = Returned
      BY <2>2 DEF Answer, Returned
    <3> QED
      BY <3>2, <3>3, AbstractSteps
  <2>4. CASE rpc \notin {"bytes", "error"}
    BY <1>1, <2>2, <2>4, SameFacts
  <2> QED
    BY <2>3, <2>4
<1>13. CASE Download(WindowStep)
  <2>1. WindowStep /\ UNCHANGED bodyVars
    BY <1>13 DEF Download
  <2> QED
    BY <2>1, <1>6, <1>7, <1>8, <1>9, <1>10, <1>11, <1>12 DEF WindowStep, WorkerStep
<1> QED
  BY <1>3, <1>4, <1>5, <1>13 DEF Next, Upload, vars

(* DownloadRangeBytes and backendSource.Chunk implement the promise of
   WindowFetch: for every chunk map that an upload commits, every window, any
   hosts that fail, hang, ignore Range or truncate, and any timing of the
   hedge, the answer is the bytes asked for, a prefix only if some host has
   truncated a blob, and an error only if all replicas of a chunk failed or the
   context ended. *)
THEOREM ReadImplementsPromise == Spec => ReadKeepsPromise
<1>1. Init => Promise!Init
  BY DEF Init, WindowIdle, Promise!Init
<1>2. WInv /\ WInv' /\ [Next]_vars => [Promise!Next]_(Promise!vars)
  BY StepsImplement
<1> QED
  BY <1>1, <1>2, WindowInvariance, PTL DEF Spec, ReadKeepsPromise, Promise!Spec
=============================================================================
