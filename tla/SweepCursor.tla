----------------------------- MODULE SweepCursor -----------------------------
(***************************************************************************)
(* Which objects a tick of the self-heal sweep visits (Sweeper.RunOnce,    *)
(* internal/keepalive/keepalive.go): with a positive sample, a window of   *)
(* the ordered keys at a cursor that is an index and lives in memory.      *)
(* What a visit does is in module ObjectStore.                             *)
(***************************************************************************)
EXTENDS Keyspace

CONSTANT Sample   \* objects per tick; 0 means all

ASSUME SampleAssumption == Sample \in Nat

VARIABLES
  scursor,   \* Sweeper.cursor
  visited,   \* the objects of the last tick
  spc        \* "off" or "on"

sweepVars == <<scursor, visited, spc>>

SweepInit(on) == scursor = 0 /\ visited = {} /\ spc = IF on THEN "on" ELSE "off"

(* Mutant: the cursor skips an object. *)
RunOnceMutant ==
  /\ spc = "on"
  /\ LET keys == Sorted(present)
         n == Len(keys)
         start == scursor % n
     IN IF Sample = 0 \/ Sample >= n
          THEN visited' = present /\ UNCHANGED scursor
          ELSE /\ visited' = {keys[((start + i) % n) + 1] : i \in 0..Sample - 1}
               /\ scursor' = (start + Sample + 1) % n
  /\ UNCHANGED <<spc, keyVars>>

(* One tick. *)
RunOnce ==
  /\ spc = "on"
  /\ LET keys == Sorted(present)
         n == Len(keys)
         start == scursor % n
     IN IF Sample = 0 \/ Sample >= n
          THEN visited' = present /\ UNCHANGED scursor
          ELSE /\ visited' = {keys[((start + i) % n) + 1] : i \in 0..Sample - 1}
               /\ scursor' = (start + Sample) % n
  /\ UNCHANGED <<spc, keyVars>>

(* AllObjectKeys fails: nothing is visited. *)
RunOnceFails ==
  /\ spc = "on"
  /\ visited' = {}
  /\ UNCHANGED <<scursor, spc, keyVars>>

(* The process restarts. *)
Restart ==
  /\ spc = "on" /\ changes < MaxChanges
  /\ scursor' = 0 /\ visited' = {}
  /\ changes' = changes + 1
  /\ UNCHANGED <<spc, present, steady, put>>

SweepTypeOK ==
  /\ scursor \in 0..Cardinality(Keys) /\ visited \subseteq Keys
  /\ spc \in {"off", "on"}

(* keepalive.go 36-37: the sample "pages through the namespace".  From whatever
   position shifting lists and restarts left the cursor (an index) in, an
   object that stays is visited again and again once the namespace rests.
   While it keeps changing the code promises nothing: a list that shifts at
   every tick, or a restart after every tick, may starve an object. *)
EveryObjectIsVisited ==
  \A k \in Keys : <>[](spc = "on" /\ k \in present) => []<>(k \in visited)
=============================================================================
