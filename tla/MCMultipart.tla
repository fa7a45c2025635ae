---------------------------- MODULE MCMultipart ----------------------------
(* u1 and u2 upload part 1 with different content, u3 uploads part 2.  The
   completions name u2's part 1 and u3's part 2. *)
EXTENDS Multipart, TLC

CONSTANTS u1, u2, u3

MCPartNo == [p \in PartPuts |-> IF p = u3 THEN 2 ELSE 1]
MCContent == [p \in PartPuts |-> IF p = u1 THEN "x" ELSE IF p = u2 THEN "y" ELSE "z"]
MCWants == [c \in Completes |-> [n \in Parts |-> IF n = 1 THEN "y" ELSE "z"]]
=============================================================================
