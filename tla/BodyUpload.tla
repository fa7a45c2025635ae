----------------------------- MODULE BodyUpload -----------------------------
(***************************************************************************)
(* How the body of one PUT becomes stored chunks: decodeUpload and         *)
(* awsChunkedReader (internal/s3api), io.ReadFull in the loop of           *)
(* Backend.upload, validateDecodedSize and the commit.                     *)
(*                                                                         *)
(* The wire is what the decoder makes of it, chosen step by step: a frame  *)
(* header that parses (to some size) or does not, data, a terminator that  *)
(* is CRLF or something else, and at any point the end of the stream or a  *)
(* broken connection.  A byte of the payload is its position.              *)
(***************************************************************************)
EXTENDS Integers, Sequences, FiniteSets

CONSTANTS
  ChunkBytes,   \* Backend.chunkSize
  MaxFrame,     \* bound on the size of one aws-chunked frame
  MaxBody,      \* bound on the length of the payload
  Undeclared,   \* no X-Amz-Decoded-Content-Length header
  Unparsable    \* a header that is no number

ASSUME BodyAssumption ==
  /\ {ChunkBytes, MaxFrame, MaxBody} \subseteq Nat \ {0}
  /\ {Undeclared, Unparsable} \cap Nat = {} /\ Undeclared # Unparsable

VARIABLES
  framed,      \* isAWSChunked: the body is framed
  declared,    \* the declared payload length
  wire,        \* "open", "eof" (ended) or "broken" (cut off)
  remaining,   \* awsChunkedReader.remaining
  done,        \* awsChunkedReader.done
  got,         \* countingReader.n
  buf,         \* what io.ReadFull has put into the buffer
  rerr,        \* the error io.ReadFull returns with the buffer
  offset,      \* object-space offset of the next chunk
  chunks,      \* the uploaded chunks
  bpc          \* "read", "upload", "size", "commit"; "stored", "400", "502", "500", then "gone"

wireVars == <<framed, declared, wire, remaining, done>>
loopVars == <<got, buf, rerr, offset, chunks, bpc>>
bodyVars == <<wireVars, loopVars>>

Answered == {"stored", "400", "502", "500", "gone"}

BodyInit ==
  /\ framed \in BOOLEAN
  /\ declared \in 0..MaxBody \cup {Undeclared, Unparsable}
  /\ wire = "open" /\ remaining = 0 /\ done = FALSE
  /\ got = 0 /\ buf = << >> /\ rerr = "nil"
  /\ offset = 0 /\ chunks = << >>
  /\ bpc = "read"

-----------------------------------------------------------------------------
Space == ChunkBytes - Len(buf)

(* One Read of the body returns n bytes and e to io.ReadFull, which goes on
   until the buffer is full, and then forgets e, or until an error. *)
Receive(n, e) ==
  /\ got' = got + n
  /\ buf' = buf \o [k \in 1..n |-> got + k - 1]
  /\ rerr' = IF n = Space THEN "nil" ELSE e
  /\ bpc' = IF n = Space \/ e # "nil" THEN "upload" ELSE "read"
  /\ UNCHANGED <<offset, chunks>>

(* Mutant: a Read is not limited to its frame. *)
AmountsMutant(limit) == 0..(IF MaxBody - got < Space THEN MaxBody - got ELSE Space)
(* How many bytes one Read may return, of at most limit. *)
Amounts(limit) ==
  LET room == MaxBody - got
      top == IF Space < limit THEN Space ELSE limit
  IN 0..(IF room < top THEN room ELSE top)

(* A cut: the stream ends or breaks, now or before.  A broken connection reads
   as io.ErrUnexpectedEOF or as another network error. *)
Cut(e) ==
  \/ wire \in {"open", "eof"} /\ wire' = "eof" /\ e = "EOF"
  \/ wire \in {"open", "broken"} /\ wire' = "broken" /\ e \in {"unexpected", "network"}

(* Bytes arrive only while the stream is open. *)
Arrives(n) == n > 0 => wire = "open"

(* Mutant: a truncated frame is reported as io.EOF. *)
DeframedMutant(e) == e
(* What awsChunkedReader makes of the end of the stream. *)
Deframed(e) == IF e = "EOF" THEN "malformed" ELSE e

(* r.Body without framing. *)
PlainRead ==
  /\ bpc = "read" /\ ~ framed
  /\ \E n \in Amounts(MaxBody) :
       /\ Arrives(n)
       /\ \/ wire = "open" /\ n > 0 /\ Receive(n, "nil") /\ UNCHANGED wire
          \/ \E e \in {"EOF", "unexpected", "network"} : Cut(e) /\ Receive(n, e)
  /\ UNCHANGED <<framed, declared, remaining, done>>

AtHeader == bpc = "read" /\ framed /\ ~ done /\ remaining = 0

(* The 0-sized frame: the trailer is left unread. *)
FinalFrame ==
  /\ AtHeader /\ wire = "open"
  /\ done' = TRUE
  /\ Receive(0, "EOF")
  /\ UNCHANGED <<framed, declared, wire, remaining>>

(* A header that is too long or no size, or that the stream ends within. *)
BadHeader ==
  /\ AtHeader
  /\ \/ wire = "open" /\ Receive(0, "malformed") /\ UNCHANGED wire
     \/ \E e \in {"EOF", "unexpected", "network"} : Cut(e) /\ Receive(0, Deframed(e))
  /\ UNCHANGED <<framed, declared, remaining, done>>

(* consumeCRLF, after the n last bytes of a frame. *)
Terminator(n) ==
  \/ wire = "open" /\ UNCHANGED wire /\ \E e \in {"nil", "malformed"} : Receive(n, e)
  \/ \E e \in {"EOF", "unexpected"} : Cut(e) /\ Receive(n, "malformed")
  \/ Cut("network") /\ Receive(n, "network")

(* The rest of Read with left bytes of the frame to come: data, and after the
   last of it the terminator. *)
ReadData(left) ==
  \E n \in Amounts(left) :
    /\ Arrives(n)
    /\ remaining' = left - n
    /\ \/ wire = "open" /\ n > 0 /\ n < left /\ Receive(n, "nil") /\ UNCHANGED wire
       \/ \E e \in {"EOF", "unexpected", "network"} : Cut(e) /\ Receive(n, Deframed(e))
       \/ n = left /\ Terminator(n)

(* A frame header, and the data that the same Read returns. *)
NextFrame ==
  /\ AtHeader /\ wire = "open"
  /\ \E size \in 1..MaxFrame : ReadData(size)
  /\ UNCHANGED <<framed, declared, done>>

FrameData ==
  /\ bpc = "read" /\ framed /\ remaining > 0
  /\ ReadData(remaining)
  /\ UNCHANGED <<framed, declared, done>>

(* After the final frame every Read returns io.EOF. *)
AfterFinal ==
  /\ bpc = "read" /\ framed /\ done
  /\ Receive(0, "EOF")
  /\ UNCHANGED wireVars

-----------------------------------------------------------------------------
(* After the chunk, the loop of upload goes on, ends, or returns the error;
   putObject answers a malformed body with 400 (and reaps the chunks), any
   other error with 502. *)
AfterChunk ==
  CASE rerr = "nil" -> "read"
    [] rerr \in {"EOF", "unexpected"} -> "size"
    [] rerr = "malformed" -> "400"
    [] OTHER -> "502"

(* Backend.upload: a non-empty buffer is uploaded as one chunk. *)
StoreChunk ==
  /\ bpc = "upload"
  /\ IF buf = << >> THEN UNCHANGED <<chunks, offset>>
     ELSE /\ chunks' = Append(chunks, [offset |-> offset, data |-> buf])
          /\ offset' = offset + Len(buf)
  /\ buf' = << >>
  /\ bpc' = AfterChunk
  /\ UNCHANGED <<wireVars, got, rerr>>

(* uploadChunk fails. *)
StoreChunkFails ==
  /\ bpc = "upload" /\ buf # << >>
  /\ bpc' = "502"
  /\ UNCHANGED <<wireVars, got, buf, rerr, offset, chunks>>

(* validateDecodedSize; on a mismatch the chunks are reaped. *)
ValidateSize ==
  /\ bpc = "size"
  /\ bpc' = IF declared \in {Undeclared, got} THEN "commit" ELSE "400"
  /\ UNCHANGED <<wireVars, got, buf, rerr, offset, chunks>>

(* PutObject.  Its transaction runs on the request's context, which net/http
   cancels in the very read that finds the connection broken. *)
Commit ==
  /\ bpc = "commit"
  /\ \/ wire # "broken" /\ bpc' = "stored"
     \/ bpc' = "500"
  /\ UNCHANGED <<wireVars, got, buf, rerr, offset, chunks>>

-----------------------------------------------------------------------------
Frames == [offset : 0..MaxBody, data : Seq(0..MaxBody)]

BodyTypeOK ==
  /\ framed \in BOOLEAN /\ done \in BOOLEAN
  /\ declared \in 0..MaxBody \cup {Undeclared, Unparsable}
  /\ wire \in {"open", "eof", "broken"}
  /\ remaining \in 0..MaxFrame
  /\ got \in 0..MaxBody /\ offset \in 0..got
  /\ buf \in Seq(0..MaxBody) /\ Len(buf) <= ChunkBytes
  /\ rerr \in {"nil", "EOF", "unexpected", "network", "malformed"}
  /\ chunks \in Seq(Frames)
  /\ bpc \in {"read", "upload", "size", "commit"} \cup Answered

(* A stored object is a whole payload: its sender finished it (the final frame,
   or the end of a plain body), and it has the length declared, if any was.  Its
   chunk map holds every byte once, at its offset, in full chunks but the last.
   A cut that surfaces as ErrUnexpectedEOF, which the upload loop takes for the
   end of the body, commits no prefix, for the context is cancelled by then; an
   error that arrives with the last byte of a full buffer, which io.ReadFull
   forgets, surfaces again in the next read. *)
CommittedBodyIsWhole ==
  bpc = "stored" =>
    /\ IF framed THEN done ELSE wire = "eof"
    /\ declared \in {Undeclared, got}
    /\ \A b \in 0..got - 1 :
         \E i \in 1..Len(chunks) : \E j \in 1..Len(chunks[i].data) :
           chunks[i].data[j] = b /\ chunks[i].offset + j - 1 = b
    /\ \A i \in 1..Len(chunks) - 1 : Len(chunks[i].data) = ChunkBytes
    /\ chunks = << >> <=> got = 0
=============================================================================
