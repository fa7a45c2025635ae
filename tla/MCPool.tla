------------------------------- MODULE MCPool -------------------------------
(* Two durable and two temporary providers of different capacities: a chunk of
   size 1 fits all, of size 2 one of each tier, of size 3 one temporary one,
   of size 4 none. *)
EXTENDS Pool

CONSTANTS d1, d2, t1, t2

MCProviderList == <<t1, d1, t2, d2>>
MCMaxBytes == [p \in {d1, d2, t1, t2} |->
                 CASE p = t1 -> 3 [] p = d1 -> 2 [] OTHER -> 1]
=============================================================================
