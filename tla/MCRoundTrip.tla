---------------------------- MODULE MCRoundTrip ----------------------------
(* Bodies of up to four bytes in chunks of two, so that a window can straddle
   the boundary.  Each chunk has three replicas: the host of the first may
   hang, that of the second answers 200 to range requests, that of the third
   may have kept a prefix only.  The pool has enabled all, the last two, or
   none. *)
EXTENDS RoundTrip, TLC

CONSTANTS h1, h2, h3

MCReplicaList == <<h1, h2, h3>>
=============================================================================
