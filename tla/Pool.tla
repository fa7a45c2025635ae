-------------------------------- MODULE Pool --------------------------------
(***************************************************************************)
(* internal/storage/freehost/pool.go composed with one chunk upload: the   *)
(* enabled providers, their health (consecutive upload failures) and the   *)
(* round-robin order in which they are offered.  Every method runs under   *)
(* pool.mu, so each is one action.  Until the upload asks for candidates,  *)
(* any number of other uploads have advanced the cursor and reported their *)
(* successes and failures; from then on ChunkUpload's actions take over.   *)
(***************************************************************************)
EXTENDS ChunkUpload, Integers

CONSTANTS
  ProviderList,   \* pool.providers: the enabled providers in config order
  MaxBytes,       \* per-file cap of each provider
  ChunkSizes,     \* sizes of the chunks to place
  IntBits,        \* width of Go's int, small here so that rr overflows
  MaxFails        \* bound on the failures other uploads report

ASSUME PoolAssumption ==
  /\ ProviderList \in Seq(Providers)
  /\ NoDuplicates(ProviderList) /\ Image(ProviderList) = Providers
  /\ Durable # {}                               \* New insists on a durable
  /\ MaxBytes \in [Providers -> Nat]
  /\ ChunkSizes \subseteq Nat
  /\ IntBits \in Nat \ {0}
  /\ MaxFails \in Nat

VARIABLE rr       \* round-robin cursor, an int

poolVars == <<vars, rr>>

(* p.rr++ on a two's complement int. *)
Increment(n) == IF n = 2^(IntBits - 1) - 1 THEN -(2^(IntBits - 1)) ELSE n + 1

(* Go's %, which takes the sign of the dividend. *)
Rem(a, b) == IF a >= 0 THEN a % b ELSE -((-a) % b)

(* Mutant: no rotation. *)
rotateNotMutant(s, n) == s

(* Where the rotation by n, of any sign, begins. *)
Offset(n, len) == LET m == Rem(n, len) IN IF m < 0 THEN m + len ELSE m

(* rotate: left-rotate s by n positions. *)
rotate(s, n) ==
  LET k == Offset(n, Len(s))
  IN IF Len(s) <= 1 THEN s ELSE SubSeq(s, k + 1, Len(s)) \o SubSeq(s, 1, k)

(* The elements of s at the positions in I, in order: the n-th is at the
   position in I that n positions of I are up to. *)
Subsequence(s, I) ==
  [n \in 1..Cardinality(I) |-> s[CHOOSE i \in I : Cardinality({j \in I : j <= i}) = n]]

(* The providers of one health and durability that can hold size bytes, in
   config order. *)
Belongs(p, size, healthy, durable) ==
  MaxBytes[p] >= size /\ Healthy(fails, p) = healthy /\ (p \in Durable) = durable

TierList(size, healthy, durable) ==
  Subsequence(ProviderList, {i \in 1..Len(ProviderList) :
                               Belongs(ProviderList[i], size, healthy, durable)})

(* Mutant: the two healthy tiers are swapped. *)
candidatesMutant(size, rot) ==
  rotate(TierList(size, TRUE, FALSE), rot) \o rotate(TierList(size, TRUE, TRUE), rot)
    \o TierList(size, FALSE, TRUE) \o TierList(size, FALSE, FALSE)

(* Healthy providers rotated, then the failing ones as a fallback. *)
candidates(size, rot) ==
  rotate(TierList(size, TRUE, TRUE), rot) \o rotate(TierList(size, TRUE, FALSE), rot)
    \o TierList(size, FALSE, TRUE) \o TierList(size, FALSE, FALSE)

PoolInit ==
  /\ Init
  /\ fails = [p \in Providers |-> 0]
  /\ rr = 0

(* uploadChunk asks where to put its chunk and launches the first R. *)
Candidates(size) ==
  /\ caller = "start"
  /\ rr' = Increment(rr)
  /\ StartWith(candidates(size, Increment(rr)))

-----------------------------------------------------------------------------
(* Other uploads, until this one starts. *)

OtherCandidates ==
  /\ caller = "start"
  /\ rr' = Increment(rr)
  /\ UNCHANGED vars

(* An upload to p succeeded. *)
markHealthy(p) ==
  /\ caller = "start"
  /\ fails' = [fails EXCEPT ![p] = 0]
  /\ UNCHANGED <<callerVars, drainerVars, running, stored, cands, launched,
                 results, ready, rr>>

(* An upload to p failed. *)
markFailed(p) ==
  /\ caller = "start" /\ fails[p] < MaxFails
  /\ fails' = [fails EXCEPT ![p] = @ + 1]
  /\ UNCHANGED <<callerVars, drainerVars, running, stored, cands, launched,
                 results, ready, rr>>

-----------------------------------------------------------------------------
CollectStep == CollectOK \/ CollectFail \/ Return

PoolNext ==
  \/ \E size \in ChunkSizes : Candidates(size)
  \/ OtherCandidates
  \/ \E p \in Providers : markHealthy(p) \/ markFailed(p)
  \/ /\ \/ CollectStep \/ CtxDone \/ CloseReady \/ DrainerStep
        \/ \E p \in Providers : UploadStep(p)
     /\ UNCHANGED rr

(* As in ChunkUpload, with Candidates in the place of Start. *)
PoolFairness ==
  /\ \A p \in Providers : WF_poolVars(UploadStep(p) /\ UNCHANGED rr)
  /\ WF_poolVars(\/ \E size \in ChunkSizes : Candidates(size)
                 \/ CollectStep /\ UNCHANGED rr)
  /\ WF_poolVars(CloseReady /\ UNCHANGED rr)
  /\ WF_poolVars(DrainerStep /\ UNCHANGED rr)

PoolSpec == PoolInit /\ [][PoolNext]_poolVars /\ PoolFairness

-----------------------------------------------------------------------------
(* Whatever the health history, and even when the cursor has overflowed, the
   upload starts with every provider that can hold the chunk exactly once,
   best tier first: a step that ChunkUpload allows. *)
SelectionKeepsOrder ==
  [][caller = "start" /\ caller' # "start" => Start]_vars

(* pool.go 52-53: load spreads round-robin.  The next upload that finds the
   same two or more healthy durable providers starts with the one that is now
   second in line, so that none is hammered or starved. *)
RoundRobin ==
  rr < 2^(IntBits - 1) - 2 =>
    \A size \in ChunkSizes :
      Len(TierList(size, TRUE, TRUE)) >= 2 =>
        candidates(size, rr + 2)[1] = candidates(size, rr + 1)[2]
=============================================================================
