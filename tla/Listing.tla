------------------------------- MODULE Listing -------------------------------
(***************************************************************************)
(* Listing a bucket page by page: Store.ListObjectsPage (store.go) behind  *)
(* ListObjects, ListObjectsV2 (handler.go) and ListObjectVersions          *)
(* (subresource.go).  A page is a pure function of its request; the client *)
(* sends back the cursor it was given until a page is not truncated.       *)
(***************************************************************************)
EXTENDS Keyspace

CONSTANTS
  Slash,     \* the delimiter, a byte
  MaxByte,   \* the byte 0xff
  Queries    \* [api, url, prefix, delimited, max, after] of the walks

ASSUME ListingAssumption ==
  /\ {Slash, MaxByte} \subseteq Nat
  /\ \A k \in Keys : \A j \in 1..Len(k) : k[j] <= MaxByte
  /\ Queries # {}
  /\ \A q \in Queries :
       /\ q.api \in {"v1", "v2", "versions"} /\ q.max \in Nat \ {0}
       /\ q.prefix \in Seq(0..MaxByte) /\ q.after \in Seq(Nat)

VARIABLES
  query,     \* the walk's request
  cursor,    \* the cursor of the next request
  listed,    \* the entries of the pages so far
  lpc        \* "off", "page" or "done"

listVars == <<query, cursor, listed, lpc>>

-----------------------------------------------------------------------------
(* The page. *)

(* prefixUpperBound: the prefix up to its last byte below 0xff, that byte
   incremented; << >> if there is none. *)
prefixUpperBound(p) ==
  LET B == {i \in 1..Len(p) : p[i] # MaxByte}
      last == CHOOSE i \in B : \A j \in B : j <= i
  IN IF B = {} THEN << >> ELSE [SubSeq(p, 1, last) EXCEPT ![last] = @ + 1]

(* The rows of the SELECT. *)
Rows(p, after) ==
  Sorted({k \in present :
            /\ after # << >> => Less(after, k)
            /\ p # << >> =>
                 LET hi == prefixUpperBound(p)
                 IN AtMost(p, k) /\ (hi # << >> => Less(k, hi))})

Contents(k) == [kind |-> "key", name |-> k]
CommonPrefix(p) == [kind |-> "prefix", name |-> p]

(* What a row is listed as: itself, or the prefix up to the first delimiter
   behind the prefix asked for. *)
Entry(q, k) ==
  LET D == {j \in (Len(q.prefix) + 1)..Len(k) : k[j] = Slash}
  IN IF ~ q.delimited \/ D = {} THEN Contents(k)
     ELSE CommonPrefix(SubSeq(k, 1, CHOOSE j \in D : \A i \in D : j <= i))

(* Mutant: one entry too many. *)
FullMutant(q, n) == n > q.max + 1
(* The n-th new entry is one beyond the page. *)
Full(q, n) == n > q.max

(* Mutant: the next page resumes after the row that did not fit. *)
ResumePointMutant(rows, cut) == rows[cut]
(* NextAfter, when the row at cut does not fit: the last consumed row. *)
ResumePoint(rows, cut) == rows[cut - 1]

(* ListObjectsPage: rows are consumed in order until a new entry does not fit;
   rows of a common prefix that is on the page already are consumed too.  The
   next page resumes after the last consumed row. *)
ListObjectsPage(q, after) ==
  LET rows == Rows(q.prefix, after)
      entry == [i \in 1..Len(rows) |-> Entry(q, rows[i])]
      new == {i \in 1..Len(rows) : \A j \in 1..i - 1 : entry[j] # entry[i]}
      beyond == {i \in new : Full(q, Cardinality(new \cap (1..i)))}
      cut == CHOOSE i \in beyond : \A j \in beyond : i <= j
  IN IF beyond = {}
       THEN [entries |-> {entry[i] : i \in new}, truncated |-> FALSE, next |-> << >>]
       ELSE [entries |-> {entry[i] : i \in new \cap (1..cut - 1)}, truncated |-> TRUE,
             next |-> ResumePoint(rows, cut)]

-----------------------------------------------------------------------------
(* The cursor on the wire: a key as it is, URL-encoded, or in a token. *)
Wire(form, k) == [form |-> form, key |-> k]

encodeListToken(k) == Wire("token", k)
decodeListToken(c) == c.key

Encoded(q, k) == Wire(IF q.url THEN "url" ELSE "raw", k)

(* NextContinuationToken; NextMarker, encoded like all keys of the answer if
   the request asked for it. *)
NextCursor(q, k) == IF q.api = "v2" THEN encodeListToken(k) ELSE Encoded(q, k)

(* The client decodes what it asked to be encoded, and no token. *)
ClientDecodes(c) == IF c.form = "url" THEN Wire("raw", c.key) ELSE c

(* The exclusive lower bound: the continuation token, or start-after or marker. *)
resumeAfter(c) == IF c.form = "token" THEN decodeListToken(c) ELSE c.key

ListInit(on) ==
  /\ query \in (IF on THEN Queries ELSE {CHOOSE q \in Queries : TRUE})
  /\ cursor = Wire("raw", query.after)
  /\ listed = << >>
  /\ lpc = IF on THEN "page" ELSE "off"

(* The answer to one request of the walk, with c for the next cursor. *)
ServePage(page, c) ==
  /\ listed' = Append(listed, page.entries)
  /\ cursor' = IF page.truncated THEN ClientDecodes(c) ELSE cursor
  /\ lpc' = IF page.truncated THEN "page" ELSE "done"
  /\ UNCHANGED <<query, keyVars>>

listObjects ==
  /\ lpc = "page" /\ query.api # "versions"
  /\ LET page == ListObjectsPage(query, resumeAfter(cursor))
     IN ServePage(page, NextCursor(query, page.next))

(* key-marker and NextKeyMarker. *)
listObjectVersions ==
  /\ lpc = "page" /\ query.api = "versions"
  /\ LET page == ListObjectsPage(query, cursor.key)
     IN ServePage(page, Encoded(query, page.next))

-----------------------------------------------------------------------------
ListTypeOK ==
  /\ query \in Queries
  /\ cursor.form \in {"raw", "token"} /\ cursor.key \in Keys \cup {query.after}
  /\ \A i \in 1..Len(listed) : Cardinality(listed[i]) <= query.max
  /\ lpc \in {"off", "page", "done"}

(* k is asked for, and what a list of all of them in one page would show. *)
StartsWith(k, p) == Len(p) <= Len(k) /\ SubSeq(k, 1, Len(p)) = p
Asked(k) == StartsWith(k, query.prefix) /\ (query.after # << >> => Less(query.after, k))

Listed == UNION {listed[i] : i \in 1..Len(listed)}

(* A walk that has ended shows every key that was there all the time, itself
   or by its common prefix, and nothing that is not asked for or never was
   there; no key comes twice, and a common prefix only when a key was put under
   it during the walk.  So in a bucket at rest the pages are exactly the
   listing, whatever the page size, and store.go 564-565 holds: a page resumes
   "without duplicating data". *)
WalkIsFaithful ==
  /\ lpc = "done" => {Entry(query, k) : k \in {k \in steady : Asked(k)}} \subseteq Listed
  /\ Listed \subseteq {Entry(query, k) : k \in {k \in Keys : Asked(k)}}
  /\ changes = 0 => Listed \subseteq {Entry(query, k) : k \in present}
  /\ \A i, j \in 1..Len(listed) : i < j =>
       \A e \in listed[i] \cap listed[j] :
         e.kind = "prefix" /\ \E k \in put : Entry(query, k) = e
=============================================================================
