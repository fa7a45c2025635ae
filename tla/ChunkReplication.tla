-------------------------- MODULE ChunkReplication --------------------------
(***************************************************************************)
(* What Backend.uploadChunk promises its caller, whatever happens on the   *)
(* free hosts: one answer, either a failure with no replica or a non-empty *)
(* set of at most SyncN replicas on distinct providers, and after a        *)
(* successful answer further replicas, one at a time, each on a provider   *)
(* the chunk does not have yet, never more than R in all.                  *)
(*                                                                         *)
(* ChunkUpload implements this specification; ObjectStore composes it.     *)
(***************************************************************************)
EXTENDS Naturals, FiniteSets

CONSTANTS
  Providers,   \* names of the enabled providers
  R,           \* ReplicationFactor: replicas wanted per chunk
  SyncN        \* replicas confirmed before the caller gets its answer

VARIABLES
  status,      \* "pending", "acked" or "failed": the answer given so far
  replicas     \* providers of the replicas the caller has been told of

vars == <<status, replicas>>

Init ==
  /\ status = "pending"
  /\ replicas = {}

(* uploadChunk returns a Chunk. *)
Ack(S) ==
  /\ status = "pending"
  /\ S # {}
  /\ Cardinality(S) <= SyncN
  /\ status' = "acked"
  /\ replicas' = S

(* uploadChunk returns an error; the caller learns of no replica. *)
Fail ==
  /\ status = "pending"
  /\ status' = "failed"
  /\ UNCHANGED replicas

(* A background replica is handed to onExtra. *)
Extra(p) ==
  /\ status = "acked"
  /\ p \notin replicas
  /\ Cardinality(replicas) < R
  /\ replicas' = replicas \cup {p}
  /\ UNCHANGED status

Next ==
  \/ \E S \in SUBSET Providers : Ack(S)
  \/ Fail
  \/ \E p \in Providers : Extra(p)

Spec == Init /\ [][Next]_vars

=============================================================================
