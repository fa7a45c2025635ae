------------------------------ MODULE Selection ------------------------------
(***************************************************************************)
(* What pool.candidates (internal/storage/freehost/pool.go) promises about *)
(* the providers it returns: the order that replica selection relies on.   *)
(* Pool computes such an order; ChunkUpload uses any such order.           *)
(***************************************************************************)
EXTENDS Naturals, Sequences

CONSTANTS
  Durable,        \* providers whose Durable() is true
  FailThreshold   \* failThreshold of pool.go

Image(s) == {s[i] : i \in 1..Len(s)}

NoDuplicates(s) == \A i, j \in 1..Len(s) : s[i] = s[j] => i = j

(* f maps each provider to its consecutive upload failures. *)
Healthy(f, p) == f[p] < FailThreshold

(* Selection tiers, best first: healthy durable, healthy temporary, failing
   durable, failing temporary. *)
Tier(f, p) ==
  (IF Healthy(f, p) THEN 0 ELSE 2) + (IF p \in Durable THEN 0 ELSE 1)

(* Every eligible provider, failing ones included, once; no better tier
   after a worse one. *)
CandidateOrder(f, eligible, c) ==
  /\ Image(c) = eligible
  /\ NoDuplicates(c)
  /\ \A i, j \in 1..Len(c) : i < j => Tier(f, c[i]) <= Tier(f, c[j])

=============================================================================
