--------------------------- MODULE MCObjectStore ---------------------------
(* Small instances of ObjectStore for TLC.  p1 and p3 upload equal content. *)
EXTENDS ObjectStore, TLC

CONSTANTS p1, p2, p3

MCContent == [p \in Puts |-> IF p = p2 THEN "y" ELSE "x"]
OneChunk == [p \in Puts |-> 1]
TwoChunks == [p \in Puts |-> 2]
OneOrTwo == [p \in Puts |-> IF p = p2 THEN 1 ELSE 2]

ProviderSymmetry == Permutations(Providers)
=============================================================================
