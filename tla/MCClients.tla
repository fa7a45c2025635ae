----------------------------- MODULE MCClients -----------------------------
(* Bytes: 1 is the delimiter, 2 a letter, 3 the byte 0xff.  Keys with nested
   and repeated prefixes, and prefixes that end in 0xff or consist of it. *)
EXTENDS Clients, TLC

MCKeys == {<<2>>, <<2, 1, 2>>, <<2, 1, 3>>, <<2, 3>>, <<2, 3, 1, 2>>, <<3, 2>>}

Query(api, url, p, d, n, after) ==
  [api |-> api, url |-> url, prefix |-> p, delimited |-> d, max |-> n, after |-> after]

MCQueries ==
  {Query("v2", FALSE, p, TRUE, n, << >>) :
      p \in {<< >>, <<2>>, <<2, 3>>, <<3>>}, n \in {1, 2}}
    \cup {Query("v1", TRUE, p, TRUE, 1, << >>) : p \in {<< >>, <<2, 1>>}}
    \cup {Query("versions", FALSE, << >>, d, 2, <<2, 1, 2>>) : d \in BOOLEAN}
=============================================================================
