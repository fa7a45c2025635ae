----------------------------- MODULE ResumedGet -----------------------------
(***************************************************************************)
(* A client that puts a file together from several GETs of one key, while  *)
(* the key is overwritten between them: downloads break off, are resumed   *)
(* with a guarded Range, and complete files are revalidated.  The answers  *)
(* are those of ReadPlan; the client is the environment, and it believes   *)
(* what the answers say.                                                   *)
(***************************************************************************)
EXTENDS ReadPlan

CONSTANTS
  Sizes,        \* sizes of the versions
  MaxVersions,  \* bound on the number of versions
  MaxClock,     \* bound on the clock
  PerSecond     \* clock ticks per second, the resolution of HTTP dates

ASSUME ResumeAssumption ==
  /\ Sizes \subseteq Nat
  /\ {MaxVersions, MaxClock, PerSecond} \subseteq Nat \ {0}
  /\ {NoDate, BadDate, Star} \cap Nat = {} /\ NoDate # BadDate

VARIABLES
  clock,
  versions,   \* the versions of the object so far: [size, etag, modified]
  file,       \* the client's bytes: the version each came from, by position
  known,      \* what the client knows of its file: size, etag, modified
  told,       \* the version an answer just said the whole file is; 0 if none
  byDate      \* history: a date alone guarded a request

getVars == <<clock, versions, file, known, told, byDate>>

Current == versions[Len(versions)]
Version(n, size, t) == [size |-> size, etag |-> n, modified |-> t \div PerSecond]

GetInit ==
  /\ clock = 0
  /\ \E size \in Sizes : versions = <<Version(1, size, 0)>>
  /\ file = << >> /\ known = << >> /\ told = 0 /\ byDate = FALSE

-----------------------------------------------------------------------------
(* Another PUT commits.  PutObject took its time t before it waited for the
   write connection, so the times of overlapping PUTs may not be in the order
   of their commits. *)
Overwrite(size, t) ==
  /\ Len(versions) < MaxVersions
  /\ versions' = Append(versions, Version(Len(versions) + 1, size, t))
  /\ told' = 0
  /\ UNCHANGED <<clock, file, known, byDate>>

Tick ==
  /\ clock < MaxClock
  /\ clock' = clock + 1
  /\ UNCHANGED <<versions, file, known, told, byDate>>

-----------------------------------------------------------------------------
(* The requests. *)
Plain ==
  [ifMatch |-> {}, ifUnmodifiedSince |-> NoDate, ifNoneMatch |-> {},
   ifModifiedSince |-> NoDate, ifRangeTag |-> {}, ifRangeDate |-> NoDate,
   range |-> NoRangeHeader]

Partial == known # << >> /\ Len(file) < known[1].size
Complete == known # << >> /\ Len(file) = known[1].size

(* What is missing, asked for in one of the three forms. *)
Missing ==
  LET n == Len(file)
      size == known[1].size
  IN {[form |-> "from", a |-> n, b |-> 0], [form |-> "suffix", a |-> size - n, b |-> 0]}
       \cup {[form |-> "span", a |-> n, b |-> m] : m \in n..size}

(* The guards of a partial request, by tag or by date. *)
TagGuards(r) ==
  LET v == known[1]
  IN {[r EXCEPT !.ifRangeTag = {v.etag}], [r EXCEPT !.ifMatch = {v.etag}],
      [r EXCEPT !.ifMatch = {v.etag}, !.ifUnmodifiedSince = v.modified]}
DateGuards(r) ==
  LET v == known[1]
  IN {[r EXCEPT !.ifRangeDate = v.modified], [r EXCEPT !.ifUnmodifiedSince = v.modified]}

(* And of a revalidation. *)
TagChecks ==
  LET v == known[1]
  IN {[Plain EXCEPT !.ifNoneMatch = {v.etag}],
      [Plain EXCEPT !.ifNoneMatch = {v.etag}, !.ifModifiedSince = v.modified]}
DateChecks == {[Plain EXCEPT !.ifModifiedSince = known[1].modified]}

(* The answer to r arrives, its body perhaps in part.  A 206 body goes where
   Content-Range says, and a size in it tells that the object is another one.
   On 412 and 416 the client starts over. *)
Answer(r, dated) ==
  LET obj == Current
      a == getObject(r, obj)
      Body(n) == [k \in 1..n |-> obj.etag]
  IN /\ byDate' = (byDate \/ dated)
     /\ \/ /\ a.status = 200
           /\ \E n \in 0..a.end - a.start : file' = Body(n)
           /\ known' = <<obj>>
           /\ told' = IF Len(file') = obj.size THEN obj.etag ELSE 0
        \/ /\ a.status = 206 /\ obj.size = known[1].size
           /\ \E n \in 0..a.end - a.start : file' = SubSeq(file, 1, a.start) \o Body(n)
           /\ told' = IF Len(file') = obj.size THEN obj.etag ELSE 0
           /\ UNCHANGED known
        \/ /\ a.status = 304
           /\ told' = obj.etag
           /\ UNCHANGED <<file, known>>
        \/ /\ a.status \in {412, 416} \/ (a.status = 206 /\ obj.size # known[1].size)
           /\ file' = << >> /\ known' = << >> /\ told' = 0
     /\ UNCHANGED <<clock, versions>>

Fresh == known = << >> /\ Answer(Plain, FALSE)

(* A Range header the server cannot make sense of is ignored. *)
FreshMalformed ==
  /\ known = << >>
  /\ \E dateless \in {NoDate, BadDate} :
       Answer([Plain EXCEPT !.range = [form |-> "malformed", a |-> 0, b |-> 0],
                            !.ifRangeDate = dateless], FALSE)

Resume ==
  /\ Partial
  /\ \E h \in Missing :
       LET r == [Plain EXCEPT !.range = h]
       IN \/ \E g \in TagGuards(r) : Answer(g, FALSE)
          \/ \E g \in DateGuards(r) : Answer(g, TRUE)

Revalidate ==
  /\ Complete
  /\ \/ \E g \in TagChecks : Answer(g, FALSE)
     \/ \E g \in DateChecks : Answer(g, TRUE)

GetStep ==
  \/ \E size \in Sizes, t \in 0..clock : Overwrite(size, t)
  \/ Tick \/ Fresh \/ FreshMalformed \/ Resume \/ Revalidate

-----------------------------------------------------------------------------
GetTypeOK ==
  /\ clock \in 0..MaxClock
  /\ Len(versions) \in 1..MaxVersions
  /\ file \in Seq(1..Len(versions))
  /\ told \in 0..Len(versions) /\ byDate \in BOOLEAN

(* A later version with a date that is no later: in the same second, or of a
   PUT that overlapped the other and committed after it. *)
DatesMislead ==
  \E v, w \in 1..Len(versions) : v < w /\ versions[w].modified <= versions[v].modified

(* A file put together from answers is never a mix of two versions, and when
   an answer completes or confirms it, it is the version that is current.  A
   validator by date alone is only as good as the dates: UpdatedAt is compared
   after Truncate(time.Second) and is not taken in the order of the commits. *)
FileIsOneVersion ==
  ~ (byDate /\ DatesMislead) =>
    /\ \A k \in 1..Len(file) : file[k] = file[1]
    /\ told # 0 => /\ file = [k \in 1..Len(file) |-> told]
                   /\ Len(file) = versions[told].size
                   /\ told = Len(versions)
=============================================================================
