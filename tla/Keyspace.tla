------------------------------ MODULE Keyspace ------------------------------
(***************************************************************************)
(* The keys of a bucket (table objects, internal/metadata/store.go), as    *)
(* the clients that walk over them in several requests see them: keys come *)
(* and go between two requests.  A key is a sequence of bytes; SQLite's    *)
(* BINARY collation orders keys by their bytes.                            *)
(***************************************************************************)
EXTENDS Integers, Sequences, FiniteSets

CONSTANTS
  Keys,        \* the keys that may exist
  MaxChanges   \* bound on the changes during a walk

ASSUME KeyspaceAssumption ==
  /\ IsFiniteSet(Keys) /\ \A k \in Keys : k \in Seq(Nat) /\ k # << >>
  /\ MaxChanges \in Nat

VARIABLES
  present,   \* keys with a live row
  changes,   \* how many changes there were
  steady,    \* history: keys that were present all the time
  put        \* history: keys that were put in the meantime

keyVars == <<present, changes, steady, put>>

KeysInit ==
  /\ present \in SUBSET Keys
  /\ changes = 0 /\ steady = present /\ put = {}

(* The order of the bytes. *)
Less(s, t) ==
  \E k \in 1..Len(t) :
    /\ \A j \in 1..k - 1 : j <= Len(s) /\ s[j] = t[j]
    /\ k > Len(s) \/ s[k] < t[k]

AtMost(s, t) == s = t \/ Less(s, t)

(* ORDER BY key *)
Sorted(S) ==
  [i \in 1..Cardinality(S) |->
     CHOOSE k \in S : Cardinality({j \in S : Less(j, k)}) = i - 1]

-----------------------------------------------------------------------------
(* A PUT of a new key commits. *)
PutKey(k) ==
  /\ changes < MaxChanges /\ k \notin present
  /\ present' = present \cup {k}
  /\ put' = put \cup {k}
  /\ changes' = changes + 1
  /\ UNCHANGED steady

(* A DELETE commits. *)
DeleteKey(k) ==
  /\ changes < MaxChanges /\ k \in present
  /\ present' = present \ {k}
  /\ steady' = steady \ {k}
  /\ changes' = changes + 1
  /\ UNCHANGED put

KeysTypeOK ==
  /\ present \subseteq Keys /\ steady \subseteq present /\ put \subseteq Keys
  /\ changes \in 0..MaxChanges
=============================================================================
