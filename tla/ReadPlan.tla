------------------------------ MODULE ReadPlan ------------------------------
(***************************************************************************)
(* How GET and HEAD decide what to answer (internal/s3api/handler.go and   *)
(* objectmeta.go): preconditions, then the Range header, then the bytes to *)
(* stream.  Operators only.                                                *)
(*                                                                         *)
(* A Range header is what its parts are: [form, a, b], with form "absent", *)
(* "malformed" (other units, several ranges, no number), "suffix" (-a),    *)
(* "from" (a-) or "span" (a-b).  An entity-tag header is the set of its    *)
(* tokens, a date header a number of seconds; {} and NoDate are absence,   *)
(* BadDate is a date that does not parse.                                  *)
(***************************************************************************)
EXTENDS Integers, Sequences, FiniteSets

CONSTANTS NoDate, BadDate, Star   \* Star is the token *

NoRangeHeader == [form |-> "absent", a |-> 0, b |-> 0]

Ignored == [isRange |-> FALSE, satisfiable |-> FALSE, start |-> 0, end |-> 0]
Unsatisfiable == [isRange |-> TRUE, satisfiable |-> FALSE, start |-> 0, end |-> 0]
Satisfiable(s, e) == [isRange |-> TRUE, satisfiable |-> TRUE, start |-> s, end |-> e]

(* parseByteRange: the inclusive range [start, end] inside size bytes. *)
parseByteRange(h, size) ==
  IF \/ h.form \in {"absent", "malformed"}
     \/ h.form = "suffix" /\ h.a <= 0
     \/ h.form = "span" /\ h.b < h.a
    THEN Ignored
  ELSE IF size = 0 \/ (h.form # "suffix" /\ h.a >= size)
    THEN Unsatisfiable
  ELSE IF h.form = "suffix"
    THEN Satisfiable(IF h.a > size THEN 0 ELSE size - h.a, size - 1)
    ELSE Satisfiable(h.a, IF h.form = "span" /\ h.b < size THEN h.b ELSE size - 1)

-----------------------------------------------------------------------------
etagMatches(tokens, etag) == Star \in tokens \/ etag \in tokens

Dated(t) == t \notin {NoDate, BadDate}

(* conditionalStatus: If-Match takes the place of If-Unmodified-Since, and
   If-None-Match that of If-Modified-Since; obj.modified is UpdatedAt cut off
   to the second. *)
conditionalStatus(r, obj) ==
  IF \/ r.ifMatch # {} /\ ~ etagMatches(r.ifMatch, obj.etag)
     \/ r.ifMatch = {} /\ Dated(r.ifUnmodifiedSince) /\ obj.modified > r.ifUnmodifiedSince
    THEN 412
  ELSE IF \/ r.ifNoneMatch # {} /\ etagMatches(r.ifNoneMatch, obj.etag)
          \/ r.ifNoneMatch = {} /\ Dated(r.ifModifiedSince) /\ obj.modified <= r.ifModifiedSince
    THEN 304
    ELSE 0

(* Mutant: the validator is ignored. *)
ifRangeAllowsMutant(r, obj) == TRUE

(* ifRangeAllows: the header holds an entity tag or a date. *)
ifRangeAllows(r, obj) ==
  IF r.ifRangeTag # {} THEN obj.etag \in r.ifRangeTag
  ELSE \/ r.ifRangeDate = NoDate
       \/ Dated(r.ifRangeDate) /\ obj.modified <= r.ifRangeDate

-----------------------------------------------------------------------------
(* planRead: the half-open interval that the reader streams. *)
planRead(obj, rng) ==
  IF rng.satisfiable THEN [start |-> rng.start, end |-> rng.end + 1]
                     ELSE [start |-> 0, end |-> obj.size]

Refused(code) == [status |-> code, start |-> 0, end |-> 0]

(* getObject of an object it has found, up to the streaming. *)
getObject(r, obj) ==
  LET code == conditionalStatus(r, obj)
      rng == IF ifRangeAllows(r, obj) THEN parseByteRange(r.range, obj.size) ELSE Ignored
      plan == planRead(obj, rng)
  IN IF code # 0 THEN Refused(code)
     ELSE IF rng.isRange /\ ~ rng.satisfiable THEN Refused(416)
     ELSE [status |-> IF rng.satisfiable THEN 206 ELSE 200,
           start |-> plan.start, end |-> plan.end]
=============================================================================
