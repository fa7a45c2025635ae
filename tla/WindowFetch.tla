---------------------------- MODULE WindowFetch ----------------------------
(***************************************************************************)
(* What the prefetch reader relies on when it asks a ChunkSource for a     *)
(* window of an object: one answer, the bytes asked for or an error.       *)
(* PrefetchReader uses a fetch by this promise (Fetch, FetchShort,         *)
(* FetchFails); WindowRead is checked to keep it.                          *)
(***************************************************************************)
EXTENDS Integers, Sequences

VARIABLES
  wanted,   \* the bytes of the window, once it is asked for
  answer,   \* "none", "bytes" or "error"
  bytes,    \* the bytes of the answer
  cut,      \* some host keeps only a prefix of a blob it took
  lost      \* every replica of some chunk failed, or the caller gave up

vars == <<wanted, answer, bytes, cut, lost>>

Init == answer = "none" /\ bytes = << >>

(* The environment, before the answer: the request is made, things fail. *)
Environment ==
  /\ answer = "none"
  /\ lost => lost'
  /\ UNCHANGED <<answer, bytes>>

Whole ==
  /\ answer = "none" /\ answer' = "bytes" /\ bytes' = wanted
  /\ UNCHANGED <<wanted, cut, lost>>

(* A truncated replica shortens the answer without an error. *)
Short ==
  /\ cut
  /\ answer = "none" /\ answer' = "bytes"
  /\ \E n \in 0..Len(wanted) - 1 : bytes' = SubSeq(wanted, 1, n)
  /\ UNCHANGED <<wanted, cut, lost>>

Fail ==
  /\ lost'
  /\ answer = "none" /\ answer' = "error"
  /\ UNCHANGED <<wanted, bytes, cut>>

Next == Environment \/ Whole \/ Short \/ Fail

Spec == Init /\ [][Next]_vars
=============================================================================
