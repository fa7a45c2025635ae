------------------------------ MODULE Multipart ------------------------------
(***************************************************************************)
(* Multipart uploads (internal/s3api/multipart.go, janitor.go, the part    *)
(* copies of copy.go and the multipart tables of internal/metadata): one   *)
(* upload of one key that already holds an object, and the requests that   *)
(* may run against it at the same time: part uploads, completions, aborts  *)
(* and the janitor.                                                        *)
(*                                                                         *)
(* One action is one store query or transaction, one upload or one batch   *)
(* of host deletions.  The blobs of a part are one blob, named by the part *)
(* upload that stored it; a part's ETag is its content.  A chunk map is    *)
(* read by two queries, the chunk rows and then the replica rows of the    *)
(* chunks seen.  A completion uses both.  What is read only to be deleted  *)
(* is one action: of a part without rows at the first query nothing is     *)
(* deleted, of any other part nothing but what the second one finds.       *)
(***************************************************************************)
EXTENDS Naturals, FiniteSets

CONSTANTS
  PartPuts,    \* UploadPart and UploadPartCopy requests
  Completes,   \* CompleteMultipartUpload requests
  Aborts,      \* AbortMultipartUpload requests
  Janitors,    \* janitor passes that find the upload stale
  PartNo,      \* part number of each part upload
  Content,     \* content of each part upload
  Wants,       \* per completion: part number -> ETag (content) it names
  Parts,       \* the part numbers in use
  Faults,      \* environment failures that may happen
  Old,         \* the previous version of the object, and its blob
  None         \* no part row, no replica

Requests == PartPuts \cup Completes \cup Aborts
Procs == Requests \cup Janitors
Blobs == PartPuts \cup {Old}

ASSUME MultipartAssumption ==
  /\ Parts \subseteq Nat \ {0} /\ IsFiniteSet(Parts)
  /\ PartNo \in [PartPuts -> Parts]
  /\ \A c \in Completes : DOMAIN Wants[c] \subseteq Parts /\ DOMAIN Wants[c] # {}
  /\ Faults \subseteq {"upload", "body", "delete", "store", "disconnect", "crash"}
  /\ Old \notin PartPuts \cup Completes /\ None \notin Blobs
  /\ PartPuts \cap Completes = {}
  /\ (Aborts \cup Janitors) \cap (PartPuts \cup Completes) = {}

VARIABLES
  upload,      \* the multipart_uploads row: "new", "open" or "closed"
  part,        \* the part rows: the upload that wrote each part, or None
  obj,         \* the object row: Old or the completion that wrote it
  hosted,      \* blobs on the hosts
  pc,          \* control state of each process
  read,        \* the listed parts a completion has collected
  sized,       \* by part number: whose chunk rows a completion collected
  got,         \* and whose replicas
  old,         \* the blobs each process will reap or purge
  gone,        \* requests whose client disconnected
  disturbed    \* history: completions whose parts were replaced or dropped

vars == <<upload, part, obj, hosted, pc, read, sized, got, old, gone, disturbed>>

Final == {"done", "failed", "crashed"}
Active(q) == pc[q] \notin Final \cup {"idle"}
Goto(q, l) == pc' = [pc EXCEPT ![q] = l]
StoreCallFails(q) == q \in gone \/ "store" \in Faults

(* The blobs the current object row refers to. *)
ObjBlobs ==
  IF obj = Old THEN {Old}
  ELSE {got[obj][n] : n \in DOMAIN Wants[obj]} \ {None}

Init ==
  /\ upload = "new"
  /\ part = [n \in Parts |-> None]
  /\ obj = Old /\ hosted = {Old}
  /\ pc = [q \in Procs |-> "idle"]
  /\ read = [c \in Completes |-> {}]
  /\ sized = [c \in Completes |-> [n \in Parts |-> None]]
  /\ got = [c \in Completes |-> [n \in Parts |-> None]]
  /\ old = [q \in Procs |-> {}]
  /\ gone = {} /\ disturbed = {}

-----------------------------------------------------------------------------
createMultipartUpload ==
  /\ upload = "new"
  /\ upload' = "open"
  /\ UNCHANGED <<part, obj, hosted, pc, read, sized, got, old, gone, disturbed>>

First(q) == CASE q \in PartPuts -> "upload"
              [] q \in Completes -> "list"
              [] OTHER -> "chunks"

(* resolveUpload, and the janitor's list of stale uploads: go on only if the
   upload exists. *)
resolveUpload(q) ==
  /\ pc[q] = "idle" /\ upload # "new"
  /\ \/ upload = "open" /\ Goto(q, First(q))
     \/ upload = "closed" /\ Goto(q, "failed")
     \/ "store" \in Faults /\ Goto(q, "failed")
  /\ UNCHANGED <<upload, part, obj, hosted, read, sized, got, old, gone, disturbed>>

(* Any store call of the handler that fails and ends it with no clean-up. *)
StoreError(q) ==
  /\ pc[q] \in {"list", "parts", "reps", "finalize", "chunks", "drop"}
  /\ StoreCallFails(q)
  /\ Goto(q, "failed")
  /\ UNCHANGED <<upload, part, obj, hosted, read, sized, got, old, gone, disturbed>>

(* A completion relies on the parts it listed until it commits. *)
Assembling(c) == pc[c] \in {"parts", "reps", "finalize"}

(* Backend.DeleteBatch: best effort. *)
DeleteBatch(q, blobs) ==
  \E kept \in IF q \in gone \/ "delete" \in Faults THEN SUBSET blobs ELSE {{}} :
    hosted' = hosted \ (blobs \ kept)

-----------------------------------------------------------------------------
(* uploadPart and uploadPartCopy. *)

(* Backend.Upload: synchronous. *)
UploadPart(p) ==
  /\ pc[p] = "upload" /\ p \notin gone
  /\ hosted' = hosted \cup {p}
  /\ \/ Goto(p, "old")
     \/ "body" \in Faults /\ Goto(p, "cleanup")   \* malformed or wrong size
  /\ UNCHANGED <<upload, part, obj, read, sized, got, old, gone, disturbed>>

(* 502: some chunks of the part may stay on the hosts. *)
UploadPartFails(p) ==
  /\ pc[p] = "upload"
  /\ p \in gone \/ "upload" \in Faults
  /\ hosted' \in {hosted, hosted \cup {p}}
  /\ Goto(p, "failed")
  /\ UNCHANGED <<upload, part, obj, read, sized, got, old, gone, disturbed>>

(* Mutant: takes a part without rows for a part with one blob. *)
ReadOldPartMutant(p) ==
  /\ pc[p] = "old"
  /\ old' = [old EXCEPT ![p] = {part[PartNo[p]]}]
  /\ Goto(p, "commit")
  /\ UNCHANGED <<upload, part, obj, hosted, read, sized, got, gone, disturbed>>

(* GetMultipartPartChunks: what the part held before; an error is ignored. *)
ReadOldPart(p) ==
  /\ pc[p] = "old"
  /\ \/ p \notin gone /\ old' = [old EXCEPT ![p] = {part[PartNo[p]]} \ {None}]
     \/ StoreCallFails(p) /\ UNCHANGED old
  /\ Goto(p, "commit")
  /\ UNCHANGED <<upload, part, obj, hosted, read, sized, got, gone, disturbed>>

(* Store.PutMultipartPart: one transaction, which does not look at the
   multipart_uploads row. *)
PutMultipartPart(p) ==
  /\ pc[p] = "commit" /\ p \notin gone
  /\ part' = [part EXCEPT ![PartNo[p]] = p]
  /\ Goto(p, "reap")
  /\ disturbed' = disturbed \cup
       {c \in Completes : PartNo[p] \in DOMAIN Wants[c] /\ (Assembling(c) \/ obj = c)}
  /\ UNCHANGED <<upload, obj, hosted, read, sized, got, old, gone>>

PutMultipartPartFails(p) ==
  /\ pc[p] = "commit" /\ StoreCallFails(p)
  /\ Goto(p, "cleanup")
  /\ UNCHANGED <<upload, part, obj, hosted, read, sized, got, old, gone, disturbed>>

(* Mutant: a failed part upload reaps the part it meant to replace too. *)
CleanupPartMutant(p) ==
  /\ pc[p] = "cleanup"
  /\ DeleteBatch(p, {p} \cup old[p])
  /\ Goto(p, "failed")
  /\ UNCHANGED <<upload, part, obj, read, sized, got, old, gone, disturbed>>

CleanupPart(p) ==
  /\ pc[p] = "cleanup"
  /\ DeleteBatch(p, {p})
  /\ Goto(p, "failed")
  /\ UNCHANGED <<upload, part, obj, read, sized, got, old, gone, disturbed>>

-----------------------------------------------------------------------------
(* completeMultipartUpload. *)

(* The parts the client lists, by ascending number (a list in any other order
   is rejected before anything is read). *)
Listed(c) == DOMAIN Wants[c]

(* Mutant: checks that the parts exist, not their ETags. *)
ValidMutant(c, rows) == \A n \in Listed(c) : rows[n] # None

Valid(c, rows) ==
  \A n \in Listed(c) : rows[n] # None /\ Content[rows[n]] = Wants[c][n]

(* ListMultipartParts and the check of every listed ETag against it.  The code
   checks a part just before it collects it, but always against this list. *)
ListParts(c) ==
  /\ pc[c] = "list" /\ c \notin gone
  /\ \/ Valid(c, part) /\ Goto(c, "parts")
     \/ ~ Valid(c, part) /\ Goto(c, "failed")
     \/ "body" \in Faults /\ Goto(c, "failed")   \* bad XML, bad order, small part
  /\ UNCHANGED <<upload, part, obj, hosted, read, sized, got, old, gone, disturbed>>

(* The next listed part. *)
NextPart(c, n) ==
  n \in Listed(c) \ read[c] /\ \A m \in Listed(c) \ read[c] : n <= m

(* GetMultipartPartChunks of the next part, whatever it holds now: the chunk
   rows.  Without any, it has no chunks. *)
CollectChunks(c) ==
  /\ pc[c] = "parts" /\ c \notin gone
  /\ \E n \in Parts :
       /\ NextPart(c, n)
       /\ sized' = [sized EXCEPT ![c][n] = part[n]]
       /\ IF part[n] = None THEN read' = [read EXCEPT ![c] = @ \cup {n}] /\ UNCHANGED pc
                            ELSE Goto(c, "reps") /\ UNCHANGED read
  /\ UNCHANGED <<upload, part, obj, hosted, got, old, gone, disturbed>>

(* The replica rows, whosever they are by now. *)
CollectReplicas(c) ==
  /\ pc[c] = "reps" /\ c \notin gone
  /\ \E n \in Parts :
       /\ NextPart(c, n)
       /\ got' = [got EXCEPT ![c][n] = part[n]]
       /\ read' = [read EXCEPT ![c] = @ \cup {n}]
  /\ Goto(c, "parts")
  /\ UNCHANGED <<upload, part, obj, hosted, sized, old, gone, disturbed>>

(* GetObjectChunks of the key: the version to reap; an error is ignored. *)
ReadOldObject(c) ==
  /\ pc[c] = "parts" /\ read[c] = Listed(c)
  /\ \/ c \notin gone /\ old' = [old EXCEPT ![c] = ObjBlobs]
     \/ StoreCallFails(c) /\ UNCHANGED old
  /\ Goto(c, "finalize")
  /\ UNCHANGED <<upload, part, obj, hosted, read, sized, got, gone, disturbed>>

(* Store.FinalizeMultipartUpload: one transaction writes the object and drops
   all bookkeeping of the upload, which it does not check still exists. *)
FinalizeMultipartUpload(c) ==
  /\ pc[c] = "finalize" /\ c \notin gone
  /\ obj' = c
  /\ part' = [n \in Parts |-> None]
  /\ upload' = "closed"
  /\ Goto(c, "reap")
  /\ disturbed' = disturbed \cup {x \in Completes \ {c} : Assembling(x)}
  /\ UNCHANGED <<hosted, read, sized, got, old, gone>>

(* The superseded chunks of a part upload or of a completion. *)
Reap(q) ==
  /\ pc[q] = "reap"
  /\ DeleteBatch(q, old[q])
  /\ Goto(q, "done")
  /\ UNCHANGED <<upload, part, obj, read, sized, got, old, gone, disturbed>>

-----------------------------------------------------------------------------
(* abortUploadInternal: the abort request and the janitor. *)

(* Mutant: an abort purges the key's object along with the parts. *)
AllMultipartChunksMutant(a) ==
  /\ pc[a] = "chunks" /\ a \notin gone
  /\ old' = [old EXCEPT ![a] = ({part[n] : n \in Parts} \ {None}) \cup ObjBlobs]
  /\ Goto(a, "purge")
  /\ UNCHANGED <<upload, part, obj, hosted, read, sized, got, gone, disturbed>>

AllMultipartChunks(a) ==
  /\ pc[a] = "chunks" /\ a \notin gone
  /\ old' = [old EXCEPT ![a] = {part[n] : n \in Parts} \ {None}]
  /\ Goto(a, "purge")
  /\ UNCHANGED <<upload, part, obj, hosted, read, sized, got, gone, disturbed>>

Purge(a) ==
  /\ pc[a] = "purge"
  /\ DeleteBatch(a, old[a])
  /\ Goto(a, "drop")
  /\ UNCHANGED <<upload, part, obj, read, sized, got, old, gone, disturbed>>

DeleteMultipartUpload(a) ==
  /\ pc[a] = "drop" /\ a \notin gone
  /\ part' = [n \in Parts |-> None]
  /\ upload' = "closed"
  /\ Goto(a, "done")
  /\ disturbed' = disturbed \cup {x \in Completes : Assembling(x)}
  /\ UNCHANGED <<obj, hosted, read, sized, got, old, gone>>

-----------------------------------------------------------------------------
Disconnect(q) ==
  /\ "disconnect" \in Faults
  /\ Active(q) /\ q \notin gone
  /\ gone' = gone \cup {q}
  /\ UNCHANGED <<upload, part, obj, hosted, pc, read, sized, got, old, disturbed>>

(* The gateway dies; rows and blobs stay. *)
Crash ==
  /\ "crash" \in Faults
  /\ \E q \in Procs : Active(q)
  /\ pc' = [q \in Procs |-> IF Active(q) THEN "crashed" ELSE pc[q]]
  /\ UNCHANGED <<upload, part, obj, hosted, read, sized, got, old, gone, disturbed>>

PartStep(p) ==
  \/ UploadPart(p) \/ UploadPartFails(p) \/ ReadOldPart(p)
  \/ PutMultipartPart(p) \/ PutMultipartPartFails(p) \/ CleanupPart(p)

CompleteStep(c) ==
  \/ ListParts(c) \/ CollectChunks(c) \/ CollectReplicas(c)
  \/ ReadOldObject(c) \/ FinalizeMultipartUpload(c)

AbortStep(a) == AllMultipartChunks(a) \/ Purge(a) \/ DeleteMultipartUpload(a)

Next ==
  \/ createMultipartUpload
  \/ \E q \in Procs : resolveUpload(q) \/ StoreError(q)
  \/ \E p \in PartPuts : PartStep(p)
  \/ \E c \in Completes : CompleteStep(c)
  \/ \E q \in PartPuts \cup Completes : Reap(q)
  \/ \E a \in Aborts \cup Janitors : AbortStep(a)
  \/ \E q \in Requests : Disconnect(q)
  \/ Crash

Spec == Init /\ [][Next]_vars

-----------------------------------------------------------------------------
(* Properties. *)

(* Type invariant. *)
TypeOK ==
  /\ upload \in {"new", "open", "closed"}
  /\ part \in [Parts -> PartPuts \cup {None}]
  /\ obj \in Completes \cup {Old}
  /\ hosted \subseteq Blobs
  /\ pc \in [Procs -> Final \cup {"idle", "upload", "old", "commit", "reap", "cleanup",
                     "list", "parts", "reps", "finalize", "chunks", "purge", "drop"}]
  /\ read \in [Completes -> SUBSET Parts]
  /\ sized \in [Completes -> [Parts -> PartPuts \cup {None}]]
  /\ got \in [Completes -> [Parts -> PartPuts \cup {None}]]
  /\ old \in [Procs -> SUBSET Blobs]
  /\ gone \subseteq Requests /\ disturbed \subseteq Completes

(* Until a completion commits, the previous version stays whole: no part
   upload, abort, janitor pass, failure or crash takes its blobs away. *)
PreviousVersionIntact == obj = Old => Old \in hosted

(* A blob that an abort or the janitor set out to delete. *)
Purged(b) == \E a \in Aborts \cup Janitors : b \in old[a]

(* What a completion commits is what its client named: part by part the chunk
   rows and the replicas of the listed ETag's content, every blob on its host.
   It is not if, after the listing, an upload of a listed part commits (before
   the commit it slips in, after it it reaps what it replaced), or an abort or
   another completion drops the rows; or if an abort purged the part.  Nothing
   else that runs beside the completion takes a part from it: uploads of other
   parts, of listed parts up to the listing with their reaps still to come, and
   any that fail. *)
UndisturbedCompletionIsExact ==
  \A c \in Completes \ disturbed :
    pc[c] \in {"reap", "done"} \/ obj = c =>
      \A n \in Listed(c) :
        /\ got[c][n] # None /\ sized[c][n] = got[c][n]
        /\ Content[got[c][n]] = Wants[c][n]
        /\ obj = c => got[c][n] \in hosted \/ Purged(got[c][n])

(* A part row refers to a stored blob, unless an abort has purged it: a part
   that was acknowledged can be completed, whatever re-uploads of the same
   part failed, were cut off or raced. *)
PartRowsAreStored ==
  \A n \in Parts : part[n] # None /\ part[n] \notin hosted =>
    Purged(part[n])

(* multipart.go 216-217: a completion reaps the prior version.  It never reaps
   a blob of the object it has itself just committed. *)
CompletionKeepsItsParts ==
  \A c \in Completes : pc[c] = "done" /\ obj = c => ObjBlobs \subseteq hosted

=============================================================================
