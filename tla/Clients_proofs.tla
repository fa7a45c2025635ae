--------------------------- MODULE Clients_proofs ---------------------------
(***************************************************************************)
(* Proofs about Clients, for every value of the constants: the download of *)
(* ResumedGet gives a file of one version, and the pages of Listing are    *)
(* together a faithful listing of a bucket that changes meanwhile.         *)
(***************************************************************************)
EXTENDS Clients, SequenceTheorems, FiniteSetTheorems, WellFoundedInduction, TLAPS

Forms == {"absent", "malformed", "suffix", "from", "span"}
Ranges == [form : Forms, a : Nat, b : Nat]
Dates == Nat \cup {NoDate, BadDate}
Requests ==
  [ifMatch : SUBSET Nat, ifUnmodifiedSince : Dates, ifNoneMatch : SUBSET Nat,
   ifModifiedSince : Dates, ifRangeTag : SUBSET Nat, ifRangeDate : Dates,
   range : Ranges]
Objects == [size : Nat, etag : Nat, modified : Nat]

-----------------------------------------------------------------------------
(* The server's side. *)

(* What parseByteRange finds satisfiable lies inside the object and starts
   where the header says. *)
LEMMA ParseFacts ==
  ASSUME NEW h \in Ranges, NEW size \in Nat
  PROVE  LET p == parseByteRange(h, size)
         IN /\ p.satisfiable \in BOOLEAN
            /\ p.satisfiable =>
                 /\ p.start \in Nat /\ p.end \in p.start..size - 1
                 /\ h.form \in {"suffix", "from", "span"}
                 /\ h.form = "suffix" => p.start = IF h.a > size THEN 0 ELSE size - h.a
                 /\ h.form # "suffix" => p.start = h.a
            /\ h.form \in {"absent", "malformed"} => ~ p.isRange /\ ~ p.satisfiable
  BY DEF parseByteRange, Ignored, Unsatisfiable, Satisfiable, Ranges, Forms

(* A 200 is the whole object, a 206 needs every guard of the request to hold,
   and a 304 is the precondition's answer. *)
LEMMA AnswerFacts ==
  ASSUME NEW r \in Requests, NEW obj \in Objects
  PROVE  LET a == getObject(r, obj)
             p == parseByteRange(r.range, obj.size)
         IN /\ a.status = 200 => a.start = 0 /\ a.end = obj.size
            /\ a.status = 206 =>
                 /\ conditionalStatus(r, obj) = 0 /\ ifRangeAllows(r, obj)
                 /\ p.satisfiable /\ a.start = p.start /\ a.end = p.end + 1
            /\ a.status = 304 => conditionalStatus(r, obj) = 304
<1> r.range \in Ranges /\ obj.size \in Nat
  BY DEF Requests, Objects
<1> QED
  BY ParseFacts DEF getObject, planRead, Refused, conditionalStatus, Ignored

(* Guards by entity tag let a partial answer through for that version only,
   guards by date for a version that is no younger. *)
LEMMA TagFacts ==
  ASSUME NEW r \in Requests, NEW obj \in Objects, NEW tag \in Nat
  PROVE  /\ r.ifMatch = {tag} /\ conditionalStatus(r, obj) = 0 => obj.etag = tag
         /\ r.ifRangeTag = {tag} /\ ifRangeAllows(r, obj) => obj.etag = tag
         /\ r.ifNoneMatch = {tag} /\ conditionalStatus(r, obj) = 304 => obj.etag = tag
  BY ResumeAssumption DEF conditionalStatus, ifRangeAllows, etagMatches, Objects, Requests

LEMMA DateFacts ==
  ASSUME NEW r \in Requests, NEW obj \in Objects, NEW t \in Nat
  PROVE  /\ /\ r.ifMatch = {} /\ r.ifUnmodifiedSince = t /\ conditionalStatus(r, obj) = 0
            => obj.modified <= t
         /\ /\ r.ifRangeTag = {} /\ r.ifRangeDate = t /\ ifRangeAllows(r, obj)
            => obj.modified <= t
         /\ /\ r.ifNoneMatch = {} /\ r.ifModifiedSince = t /\ conditionalStatus(r, obj) = 304
            => obj.modified <= t
         /\ /\ r.ifNoneMatch = {} /\ r.ifModifiedSince = NoDate
            => conditionalStatus(r, obj) # 304
  BY ResumeAssumption DEF conditionalStatus, ifRangeAllows, Dated, Objects, Requests

-----------------------------------------------------------------------------
(* The inductive invariant. *)
VersionInv ==
  /\ clock \in 0..MaxClock
  /\ versions \in Seq(Objects) /\ Len(versions) \in 1..MaxVersions
  /\ \A n \in 1..Len(versions) : versions[n].etag = n

FileInv ==
  /\ file \in Seq(1..Len(versions)) /\ told \in 0..Len(versions) /\ byDate \in BOOLEAN
  /\ known # << >> =>
       /\ \E e \in 1..Len(versions) : known = <<versions[e]>>
       /\ Len(file) <= known[1].size
  /\ known = << >> => file = << >> /\ told = 0

(* Unless a date misled a request, the file's bytes are those of the version
   the client knows, and what it was told is that version, whole. *)
OneVersion ==
  ~ (byDate /\ DatesMislead) =>
    /\ \A k \in 1..Len(file) : file[k] = known[1].etag
    /\ told # 0 => /\ told = Len(versions) /\ told = known[1].etag
                   /\ Len(file) = known[1].size

GInv == VersionInv /\ FileInv /\ OneVersion

-----------------------------------------------------------------------------
(* The client's side. *)

(* The range of a request, if any, begins where the file ends. *)
Continues(r) ==
  \/ r.range.form \in {"absent", "malformed"}
  \/ known # << >> /\ r.range.form = "suffix" /\ r.range.a = known[1].size - Len(file)
  \/ known # << >> /\ r.range.form \in {"from", "span"} /\ r.range.a = Len(file)

(* An answer that builds on the file is about the version the client knows,
   or about one whose date does not tell it apart. *)
Validates(r, dated) ==
  LET a == getObject(r, Current)
  IN a.status \in {206, 304} =>
       /\ known # << >> /\ (a.status = 304 => Len(file) = known[1].size)
       /\ \/ Current.etag = known[1].etag
          \/ dated /\ Current.modified <= known[1].modified

LEMMA VersionFacts ==
  ASSUME VersionInv
  PROVE  /\ Len(versions) \in Nat \ {0} /\ versions \in Seq(Objects)
         /\ \A n \in 1..Len(versions) :
              /\ versions[n] \in Objects /\ versions[n].etag = n
              /\ versions[n].size \in Nat /\ versions[n].modified \in Nat
<1>1. Len(versions) \in Nat \ {0} /\ versions \in Seq(Objects)
  BY ResumeAssumption DEF VersionInv
<1>2. \A n \in 1..Len(versions) : versions[n] \in Objects
  BY <1>1
<1> QED
  BY <1>1, <1>2 DEF VersionInv, Objects

(* Whatever such a request is answered, the invariant is kept. *)
LEMMA Answered ==
  ASSUME VersionInv, FileInv, OneVersion, NEW r \in Requests, NEW dated \in BOOLEAN,
         Continues(r), Validates(r, dated), Answer(r, dated)
  PROVE  GInv'
<1> DEFINE obj == Current
           a == getObject(r, obj)
           Body(n) == [k \in 1..n |-> obj.etag]
           N == Len(versions)
<1>1. obj \in Objects /\ obj.etag = N /\ obj.size \in Nat /\ N \in Nat \ {0} /\ obj = versions[N]
  BY VersionFacts DEF Current
<1>2. VersionInv' /\ (DatesMislead' <=> DatesMislead) /\ versions' = versions
  BY DEF Answer, VersionInv, DatesMislead
<1>3. byDate' = (byDate \/ dated) /\ byDate' \in BOOLEAN
  BY DEF Answer, FileInv
<1>4. CASE a.status = 200
  <2>1. PICK n \in 0..obj.size : file' = Body(n)
    BY <1>1, <1>4, AnswerFacts DEF Answer
  <2>2. known' = <<obj>> /\ told' = IF Len(file') = obj.size THEN obj.etag ELSE 0
    BY <1>4 DEF Answer
  <2>3. file' \in Seq(1..N) /\ Len(file') = n /\ \A k \in 1..n : file'[k] = obj.etag
    BY <2>1, <1>1
  <2>4. FileInv'
    BY <1>1, <1>2, <1>3, <2>2, <2>3 DEF FileInv
  <2>5. OneVersion'
    BY <1>1, <1>2, <2>2, <2>3 DEF OneVersion
  <2> QED
    BY <1>2, <2>4, <2>5 DEF GInv
<1>5. CASE a.status = 206 /\ obj.size = known[1].size
  <2>1. PICK e \in 1..N : known = <<versions[e]>>
    BY <1>5 DEF Validates, FileInv
  <2>2. /\ e \in Nat /\ known # << >> /\ known[1] = versions[e] /\ known[1].etag = e
        /\ known[1].size \in Nat /\ known[1].modified \in Nat /\ Len(file) <= obj.size
        /\ Len(file) \in Nat /\ file \in Seq(1..N)
    BY <1>1, <1>5, <2>1, VersionFacts DEF FileInv
  <2>3. r.range \in Ranges
    BY DEF Requests
  <2>4. a.start = Len(file) /\ a.end \in Nat /\ a.end <= obj.size
    <3> DEFINE p == parseByteRange(r.range, obj.size)
    <3>1. p.satisfiable /\ a.start = p.start /\ a.end = p.end + 1
      BY <1>1, <1>5, AnswerFacts
    <3>2. /\ p.start \in Nat /\ p.end \in p.start..obj.size - 1
          /\ r.range.form \in {"suffix", "from", "span"}
          /\ r.range.form = "suffix" =>
               p.start = IF r.range.a > obj.size THEN 0 ELSE obj.size - r.range.a
          /\ r.range.form # "suffix" => p.start = r.range.a
      BY <1>1, <2>3, <3>1, ParseFacts
    <3> HIDE DEF p, a, obj
    <3> QED
      BY <1>1, <1>5, <2>2, <3>1, <3>2, SMTT(30) DEF Continues
  <2>5. PICK n \in 0..a.end - a.start : file' = SubSeq(file, 1, a.start) \o Body(n)
    <3>1. a.status # 200 /\ a.status # 304 /\ a.status \notin {412, 416} /\ obj.size = known[1].size
      BY <1>5
    <3> QED
      BY <3>1, Zenon DEF Answer
  <2>6. known' = known /\ told' = IF Len(file') = obj.size THEN obj.etag ELSE 0
    BY <1>5 DEF Answer
  <2>7. /\ file' \in Seq(1..N) /\ Len(file') = Len(file) + n /\ n \in Nat
        /\ \A k \in 1..Len(file) : file'[k] = file[k]
        /\ \A k \in Len(file) + 1..Len(file) + n : file'[k] = obj.etag
    <3> HIDE DEF a, obj
    <3>1. SubSeq(file, 1, a.start) = file
      BY <2>2, <2>4
    <3>2. Body(n) \in Seq(1..N) /\ Len(Body(n)) = n /\ n \in Nat
      BY <1>1, <2>2, <2>4, <2>5, SMTT(30)
    <3>3. \A k \in 1..n : Body(n)[k] = obj.etag
      BY <3>2
    <3> DEFINE b == Body(n)
    <3>4. b \in Seq(1..N) /\ Len(b) = n /\ n \in Nat /\ file' = file \o b
      BY <2>5, <3>1, <3>2
    <3>5. \A k \in 1..n : b[k] = obj.etag
      BY <3>3
    <3> HIDE DEF b
    <3>6. /\ file' \in Seq(1..N) /\ Len(file') = Len(file) + n
          /\ \A k \in 1..Len(file) + n :
               file'[k] = IF k <= Len(file) THEN file[k] ELSE b[k - Len(file)]
      BY <2>2, <3>4, ConcatProperties, Zenon
    <3>7. ASSUME NEW k \in 1..Len(file) PROVE file'[k] = file[k]
      <4>1. k \in 1..Len(file) + n /\ k <= Len(file)
        BY <2>2, <3>4
      <4> QED
        BY <3>6, <4>1
    <3>8. ASSUME NEW k \in Len(file) + 1..Len(file) + n PROVE file'[k] = obj.etag
      <4>1. k \in 1..Len(file) + n /\ ~ (k <= Len(file)) /\ k - Len(file) \in 1..n
        BY <2>2, <3>4
      <4>2. file'[k] = b[k - Len(file)]
        BY <3>6, <4>1, Zenon
      <4> QED
        BY <3>5, <4>1, <4>2, Zenon
    <3> QED
      BY <3>4, <3>6, <3>7, <3>8
  <2>8. FileInv'
    <3> HIDE DEF a, obj
    <3>1. Len(file') <= obj.size /\ known'[1].size = obj.size /\ known' # << >>
      BY <1>1, <1>5, <2>2, <2>4, <2>6, <2>7, SMTT(30)
    <3>2. told' \in 0..N
      BY <1>1, <2>6
    <3> QED
      BY <1>1, <1>2, <1>3, <2>1, <2>6, <2>7, <3>1, <3>2 DEF FileInv
  <2>9. ~ (byDate /\ DatesMislead)' => obj.etag = e
    <3>1. obj.etag = e \/ (dated /\ obj.modified <= known[1].modified)
      BY <1>5, <2>2 DEF Validates
    <3>2. e # N /\ dated /\ obj.modified <= known[1].modified => DatesMislead
      BY <1>1, <2>2 DEF DatesMislead
    <3> QED
      BY <1>1, <1>2, <1>3, <3>1, <3>2
  <2>10. OneVersion'
    <3> HIDE DEF a, obj
    <3> SUFFICES ASSUME ~ (byDate /\ DatesMislead)'
                 PROVE  /\ \A k \in 1..Len(file') : file'[k] = known'[1].etag
                        /\ told' # 0 => /\ told' = Len(versions') /\ told' = known'[1].etag
                                        /\ Len(file') = known'[1].size
      BY DEF OneVersion
    <3>1. \A k \in 1..Len(file) : file[k] = e
      BY <1>2, <1>3, <2>2 DEF OneVersion
    <3>2. obj.etag = e /\ known'[1].etag = e /\ known'[1].size = obj.size
      BY <1>5, <2>2, <2>6, <2>9
    <3>3. ASSUME NEW k \in 1..Len(file') PROVE file'[k] = e
      <4>1. CASE k \in 1..Len(file)
        BY <2>7, <3>1, <4>1
      <4>2. CASE k \in Len(file) + 1..Len(file) + n
        BY <2>7, <3>2, <4>2
      <4> QED
        BY <2>2, <2>7, <4>1, <4>2
    <3> QED
      BY <1>1, <1>2, <2>6, <3>2, <3>3
  <2> QED
    BY <1>2, <2>8, <2>10 DEF GInv
<1>6. CASE a.status = 304
  <2>1. PICK e \in 1..N : known = <<versions[e]>>
    BY <1>6 DEF Validates, FileInv
  <2>2. /\ e \in Nat /\ known # << >> /\ known[1] = versions[e] /\ known[1].etag = e
        /\ known[1].modified \in Nat /\ Len(file) = known[1].size
    BY <1>1, <1>6, <2>1, VersionFacts DEF Validates
  <2>3. told' = obj.etag /\ file' = file /\ known' = known
    BY <1>6 DEF Answer
  <2>4. FileInv'
    BY <1>1, <1>2, <1>3, <2>1, <2>2, <2>3 DEF FileInv
  <2>5. ~ (byDate /\ DatesMislead)' => obj.etag = e
    <3>1. obj.etag = e \/ (dated /\ obj.modified <= known[1].modified)
      BY <1>6, <2>2 DEF Validates
    <3>2. e # N /\ dated /\ obj.modified <= known[1].modified => DatesMislead
      BY <1>1, <2>2 DEF DatesMislead
    <3> QED
      BY <1>1, <1>2, <1>3, <3>1, <3>2
  <2>6. OneVersion'
    BY <1>1, <1>2, <1>3, <2>2, <2>3, <2>5 DEF OneVersion
  <2> QED
    BY <1>2, <2>4, <2>6 DEF GInv
<1>7. CASE file' = << >> /\ known' = << >> /\ told' = 0
  <2>1. FileInv' /\ OneVersion'
    BY <1>1, <1>2, <1>3, <1>7 DEF FileInv, OneVersion
  <2> QED
    BY <1>2, <2>1 DEF GInv
<1> QED
  BY <1>4, <1>5, <1>6, <1>7 DEF Answer

(* The fields of a request without guards. *)
LEMMA PlainFacts ==
  /\ Plain \in Requests /\ Plain.range.form = "absent"
  /\ Plain.ifMatch = {} /\ Plain.ifNoneMatch = {} /\ Plain.ifRangeTag = {}
  /\ Plain.ifUnmodifiedSince = NoDate /\ Plain.ifModifiedSince = NoDate
  BY DEF Plain, Requests, Ranges, Forms, Dates, NoRangeHeader

-----------------------------------------------------------------------------
(* The client's requests are of the kind Answered asks for. *)
LEMMA FreshKeeps ==
  ASSUME GInv, Fresh \/ FreshMalformed
  PROVE  GInv'
<1> USE DEF GInv
<1>1. Current \in Objects /\ known = << >>
  <2>1. known = << >>
    BY Zenon DEF Fresh, FreshMalformed
  <2> QED
    BY <2>1, VersionFacts DEF Current
<1>2. ASSUME NEW r \in Requests, r.range.form \in {"absent", "malformed"},
             r.ifNoneMatch = {}, r.ifModifiedSince = NoDate, Answer(r, FALSE)
      PROVE  GInv'
  <2>1. r.range \in Ranges
    BY DEF Requests
  <2>2. getObject(r, Current).status \notin {206, 304}
    BY <1>1, <1>2, <2>1, AnswerFacts, ParseFacts, DateFacts DEF Objects
  <2> QED
    BY <1>2, <2>2, Answered DEF Continues, Validates
<1>3. CASE Fresh
  BY <1>2, <1>3, PlainFacts DEF Fresh
<1>4. CASE FreshMalformed
  <2> DEFINE h == [form |-> "malformed", a |-> 0, b |-> 0]
  <2>1. PICK d \in {NoDate, BadDate} :
          Answer([Plain EXCEPT !.range = h, !.ifRangeDate = d], FALSE)
    BY <1>4 DEF FreshMalformed
  <2>2. h \in Ranges /\ h.form = "malformed" /\ d \in Dates
    BY DEF Ranges, Forms, Dates
  <2> HIDE DEF h
  <2> DEFINE m == [Plain EXCEPT !.range = h, !.ifRangeDate = d]
  <2>3. /\ m \in Requests /\ m.range = h
        /\ m.ifNoneMatch = {} /\ m.ifModifiedSince = NoDate
    BY <2>2, PlainFacts DEF Requests
  <2> HIDE DEF m
  <2>4. Answer(m, FALSE)
    BY <2>1 DEF m
  <2> QED
    BY <1>2, <2>2, <2>3, <2>4
<1> QED
  BY <1>3, <1>4

LEMMA ResumeKeeps ==
  ASSUME GInv, Resume
  PROVE  GInv'
<1> USE DEF GInv
<1> DEFINE v == known[1]
<1>1. known # << >> /\ Current \in Objects /\ v.etag \in Nat /\ v.modified \in Nat
      /\ v.size \in Nat /\ Len(file) \in Nat /\ Len(file) < v.size
  BY VersionFacts DEF Current, Resume, Partial, FileInv
<1>2. PICK h \in Missing :
        LET r == [Plain EXCEPT !.range = h]
        IN \/ \E g \in TagGuards(r) : Answer(g, FALSE)
           \/ \E g \in DateGuards(r) : Answer(g, TRUE)
  BY Zenon DEF Resume
<1> DEFINE r == [Plain EXCEPT !.range = h]
<1>3. /\ h \in Ranges
      /\ \/ h.form = "suffix" /\ h.a = v.size - Len(file)
         \/ h.form \in {"from", "span"} /\ h.a = Len(file)
  BY <1>1 DEF Missing, Ranges, Forms
<1>4. /\ r \in Requests /\ r.range = h /\ r.ifMatch = {} /\ r.ifRangeTag = {}
      /\ r.ifNoneMatch = {} /\ r.ifModifiedSince = NoDate
  <2>1. NoDate \in Dates
    BY DEF Dates
  <2> QED
    BY <1>3, <2>1, PlainFacts DEF Requests
<1>5. {v.etag} \in SUBSET Nat /\ v.modified \in Dates
  BY <1>1 DEF Dates
<1> HIDE DEF r, v
<1>6. ASSUME NEW g \in Requests, NEW dated \in BOOLEAN, Answer(g, dated), g.range = h,
             g.ifNoneMatch = {}, g.ifModifiedSince = NoDate,
             \/ g.ifMatch = {v.etag} \/ g.ifRangeTag = {v.etag}
             \/ dated /\ g.ifMatch = {} /\ g.ifUnmodifiedSince = v.modified
             \/ dated /\ g.ifRangeTag = {} /\ g.ifRangeDate = v.modified
      PROVE  GInv'
  <2>1. Continues(g)
    BY <1>1, <1>3, <1>6 DEF Continues, v
  <2>2. getObject(g, Current).status # 304
    BY <1>1, <1>6, AnswerFacts, DateFacts
  <2>3. getObject(g, Current).status = 206 =>
          Current.etag = v.etag \/ (dated /\ Current.modified <= v.modified)
    <3>1. getObject(g, Current).status = 206 =>
            conditionalStatus(g, Current) = 0 /\ ifRangeAllows(g, Current)
      BY <1>1, AnswerFacts
    <3> QED
      BY <1>1, <1>6, <3>1, TagFacts, DateFacts
  <2>4. Validates(g, dated)
    BY <1>1, <2>2, <2>3 DEF Validates, v
  <2> QED
    BY <1>6, <2>1, <2>4, Answered
<1>7. CASE \E g \in TagGuards(r) : Answer(g, FALSE)
  <2>1. PICK g \in TagGuards(r) : Answer(g, FALSE)
    BY <1>7
  <2>2. \/ g = [r EXCEPT !.ifRangeTag = {v.etag}]
        \/ g = [r EXCEPT !.ifMatch = {v.etag}]
        \/ g = [r EXCEPT !.ifMatch = {v.etag}, !.ifUnmodifiedSince = v.modified]
    BY Zenon DEF TagGuards, v
  <2>3. /\ g \in Requests /\ g.range = r.range
        /\ g.ifNoneMatch = r.ifNoneMatch /\ g.ifModifiedSince = r.ifModifiedSince
        /\ g.ifMatch = {v.etag} \/ g.ifRangeTag = {v.etag}
    BY <1>4, <1>5, <2>2 DEF Requests
  <2> QED
    BY <1>4, <1>6, <2>1, <2>3
<1>8. CASE \E g \in DateGuards(r) : Answer(g, TRUE)
  <2>1. PICK g \in DateGuards(r) : Answer(g, TRUE)
    BY <1>8
  <2>2. \/ g = [r EXCEPT !.ifRangeDate = v.modified]
        \/ g = [r EXCEPT !.ifUnmodifiedSince = v.modified]
    BY Zenon DEF DateGuards, v
  <2>3. /\ g \in Requests /\ g.range = r.range
        /\ g.ifNoneMatch = r.ifNoneMatch /\ g.ifModifiedSince = r.ifModifiedSince
        /\ \/ g.ifMatch = r.ifMatch /\ g.ifUnmodifiedSince = v.modified
           \/ g.ifRangeTag = r.ifRangeTag /\ g.ifRangeDate = v.modified
    BY <1>4, <1>5, <2>2 DEF Requests
  <2> QED
    BY <1>4, <1>6, <2>1, <2>3
<1> QED
  BY <1>2, <1>7, <1>8, Zenon DEF r

LEMMA RevalidateKeeps ==
  ASSUME GInv, Revalidate
  PROVE  GInv'
<1> USE DEF GInv
<1> DEFINE v == known[1]
<1>1. known # << >> /\ Current \in Objects /\ v.etag \in Nat /\ v.modified \in Nat
      /\ Len(file) = v.size
  BY VersionFacts DEF Current, Revalidate, Complete, FileInv
<1>2. {v.etag} \in SUBSET Nat /\ v.modified \in Dates
  BY <1>1 DEF Dates
<1> HIDE DEF v
<1>3. ASSUME NEW g \in Requests, NEW dated \in BOOLEAN, Answer(g, dated),
             g.range.form = "absent",
             \/ g.ifNoneMatch = {v.etag}
             \/ dated /\ g.ifNoneMatch = {} /\ g.ifModifiedSince = v.modified
      PROVE  GInv'
  <2>1. g.range \in Ranges /\ Current.size \in Nat
    BY <1>1 DEF Requests, Objects
  <2>2. getObject(g, Current).status # 206
    BY <1>1, <1>3, <2>1, AnswerFacts, ParseFacts
  <2>3. getObject(g, Current).status = 304 =>
          Current.etag = v.etag \/ (dated /\ Current.modified <= v.modified)
    BY <1>1, <1>3, AnswerFacts, TagFacts, DateFacts
  <2>4. Continues(g) /\ Validates(g, dated)
    BY <1>1, <1>3, <2>2, <2>3 DEF Continues, Validates, v
  <2> QED
    BY <1>3, <2>4, Answered
<1>4. CASE \E g \in TagChecks : Answer(g, FALSE)
  <2>1. PICK g \in TagChecks : Answer(g, FALSE)
    BY <1>4
  <2>2. \/ g = [Plain EXCEPT !.ifNoneMatch = {v.etag}]
        \/ g = [Plain EXCEPT !.ifNoneMatch = {v.etag}, !.ifModifiedSince = v.modified]
    BY Zenon DEF TagChecks, v
  <2>3. g \in Requests /\ g.range = Plain.range /\ g.ifNoneMatch = {v.etag}
    BY <1>2, <2>2, PlainFacts DEF Requests
  <2> QED
    BY <1>3, <2>1, <2>3, PlainFacts
<1>5. CASE \E g \in DateChecks : Answer(g, TRUE)
  <2>1. PICK g \in DateChecks : Answer(g, TRUE)
    BY <1>5
  <2>2. g = [Plain EXCEPT !.ifModifiedSince = v.modified]
    BY Zenon DEF DateChecks, v
  <2>3. /\ g \in Requests /\ g.range = Plain.range
        /\ g.ifModifiedSince = v.modified /\ g.ifNoneMatch = Plain.ifNoneMatch
    BY <1>2, <2>2, PlainFacts DEF Requests
  <2> QED
    BY <1>3, <2>1, <2>3, PlainFacts
<1> QED
  BY <1>4, <1>5 DEF Revalidate

LEMMA OverwriteKeeps ==
  ASSUME GInv, NEW size \in Sizes, NEW t \in 0..clock, Overwrite(size, t)
  PROVE  GInv'
<1> USE DEF GInv
<1> DEFINE N == Len(versions)
           w == Version(N + 1, size, t)
<1>1. N \in Nat \ {0} /\ N < MaxVersions /\ versions \in Seq(Objects) /\ MaxVersions \in Nat
  BY VersionFacts, ResumeAssumption DEF Overwrite
<1>2. w \in Objects /\ w.etag = N + 1
  <2>1. t \in Nat /\ PerSecond \in Nat \ {0} /\ size \in Nat
    BY ResumeAssumption DEF VersionInv
  <2>2. t \div PerSecond \in Nat
    BY <2>1
  <2> QED
    BY <1>1, <2>1, <2>2 DEF Version, Objects
<1> HIDE DEF w
<1>3. /\ versions' = Append(versions, w) /\ told' = 0
      /\ file' = file /\ known' = known /\ byDate' = byDate /\ clock' = clock
  BY DEF Overwrite, w
<1>4. /\ versions' \in Seq(Objects) /\ Len(versions') = N + 1
      /\ \A n \in 1..N : versions'[n] = versions[n]
      /\ versions'[N + 1] = w
  BY <1>1, <1>2, <1>3
<1>5. VersionInv'
  BY <1>1, <1>2, <1>3, <1>4 DEF VersionInv
<1>6. FileInv'
  <2>1. file' \in Seq(1..Len(versions'))
    BY <1>1, <1>3, <1>4 DEF FileInv
  <2>2. known' # << >> => \E e \in 1..Len(versions') : known' = <<versions'[e]>>
    BY <1>1, <1>3, <1>4 DEF FileInv
  <2> QED
    BY <1>1, <1>3, <1>4, <2>1, <2>2 DEF FileInv
<1>7. DatesMislead => DatesMislead'
  BY <1>1, <1>4 DEF DatesMislead
<1>8. OneVersion'
  BY <1>3, <1>7 DEF OneVersion
<1> QED
  BY <1>5, <1>6, <1>8

(* The downloads keep the invariant, and the other walks leave their state
   alone. *)
LEMMA Invariance == Spec => []GInv
<1>1. Init => GInv
  <2> SUFFICES ASSUME Init PROVE GInv
    OBVIOUS
  <2>1. GetInit
    BY DEF Init
  <2>2. PICK size \in Sizes : versions = <<Version(1, size, 0)>>
    BY <2>1 DEF GetInit
  <2>3. Version(1, size, 0) \in Objects /\ Version(1, size, 0).etag = 1
    BY ResumeAssumption DEF Version, Objects
  <2>4. /\ versions \in Seq(Objects) /\ Len(versions) = 1
        /\ versions[1] = Version(1, size, 0)
    BY <2>2, <2>3
  <2>5. VersionInv
    BY <2>1, <2>3, <2>4, ResumeAssumption DEF VersionInv, GetInit
  <2>6. FileInv
    <3>1. << >> \in Seq(1..Len(versions)) /\ 0 \in 0..Len(versions)
      BY <2>4
    <3> QED
      BY <2>1, <3>1, Zenon DEF GetInit, FileInv
  <2>7. OneVersion
    BY <2>1 DEF GetInit, OneVersion
  <2> QED
    BY <2>5, <2>6, <2>7 DEF GInv
<1>2. GInv /\ [Next]_vars => GInv'
  <2> SUFFICES ASSUME GInv, [Next]_vars PROVE GInv'
    OBVIOUS
  <2>1. CASE UNCHANGED getVars
    BY <2>1 DEF GInv, VersionInv, FileInv, OneVersion, DatesMislead, getVars
  <2>2. CASE Downloads
    <3>1. CASE Tick
      BY <3>1, ResumeAssumption
      DEF Tick, GInv, VersionInv, FileInv, OneVersion, DatesMislead
    <3> QED
      BY <2>2, <3>1, FreshKeeps, ResumeKeeps, RevalidateKeeps, OverwriteKeeps
      DEF Downloads, GetStep
  <2> QED
    BY <2>1, <2>2 DEF Next, Listings, Sweeps, Changes, vars
<1> QED
  BY <1>1, <1>2, PTL DEF Spec

-----------------------------------------------------------------------------
(* A file put together from the answers of getObject is one version, and is
   the current one when an answer completes or confirms it, whatever PUTs
   commit in between: preconditions, If-Range and parseByteRange agree. *)
THEOREM FilesAreOneVersion == Spec => []FileIsOneVersion
<1>1. GInv => FileIsOneVersion
  <2> SUFFICES ASSUME GInv, ~ (byDate /\ DatesMislead)
               PROVE  /\ \A k \in 1..Len(file) : file[k] = file[1]
                      /\ told # 0 => /\ file = [k \in 1..Len(file) |-> told]
                                     /\ Len(file) = versions[told].size
                                     /\ told = Len(versions)
    BY DEF FileIsOneVersion
  <2>1. \A k \in 1..Len(file) : file[k] = known[1].etag
    BY DEF GInv, OneVersion
  <2>2. Len(file) \in Nat /\ file \in Seq(1..Len(versions))
    BY DEF GInv, FileInv
  <2>3. ASSUME told # 0
        PROVE  /\ file = [k \in 1..Len(file) |-> told]
               /\ Len(file) = versions[told].size /\ told = Len(versions)
    <3>1. PICK e \in 1..Len(versions) : known = <<versions[e]>>
      BY <2>3 DEF GInv, FileInv
    <3>2. told = Len(versions) /\ told = known[1].etag /\ Len(file) = known[1].size
      BY <2>3 DEF GInv, OneVersion
    <3>3. known[1] = versions[e] /\ versions[e].etag = e
      BY <3>1, VersionFacts DEF GInv
    <3>4. file = [k \in 1..Len(file) |-> told]
      BY <2>1, <2>2, <3>2
    <3> QED
      BY <3>2, <3>3, <3>4
  <2> QED
    BY <2>1, <2>2, <2>3
<1> QED
  BY <1>1, Invariance, PTL

-----------------------------------------------------------------------------
(* The listing. *)

(* A set of naturals has a least element, and a bounded one a greatest. *)
LEMMA LeastElement ==
  ASSUME NEW T \in SUBSET Nat, T # {}
  PROVE  \E m \in T : \A y \in T : m <= y
<1>1. \E x \in T : \A y \in T : ~ (<<y, x>> \in OpToRel(<, Nat))
  BY WFMin, NatLessThanWellFounded
<1>2. PICK x \in T : \A y \in T : ~ (<<y, x>> \in OpToRel(<, Nat))
  BY <1>1
<1>3. ASSUME NEW y \in Nat, y < x
      PROVE  <<y, x>> \in OpToRel(<, Nat)
  BY <1>3 DEF OpToRel
<1>4. \A y \in T : ~ (y < x)
  BY <1>2, <1>3
<1> QED
  BY <1>4

LEMMA GreatestElement ==
  ASSUME NEW n \in Nat, NEW T \in SUBSET (0..n), T # {}
  PROVE  \E m \in T : \A y \in T : y <= m
<1> DEFINE U == {n - t : t \in T}
<1>1. U \in SUBSET Nat /\ U # {}
  <2>1. \A t \in 0..n : n - t \in Nat
    OBVIOUS
  <2> QED
    BY <2>1
<1>2. PICK u \in U : \A y \in U : u <= y
  <2> HIDE DEF U
  <2> QED
    BY <1>1, LeastElement
<1>3. PICK m \in T : u = n - m
  BY <1>2
<1>4. \A y \in T : n - m <= n - y
  BY <1>2, <1>3
<1> QED
  BY <1>4

-----------------------------------------------------------------------------
(* The order of the keys. *)

(* Less is a strict total order. *)
LEMMA LessIrreflexive ==
  ASSUME NEW s \in Seq(Nat)
  PROVE  ~ Less(s, s)
<1> SUFFICES ASSUME NEW k \in 1..Len(s), k > Len(s) \/ s[k] < s[k]
             PROVE  FALSE
  BY DEF Less
<1>1. Len(s) \in Nat /\ s[k] \in Nat
  OBVIOUS
<1> QED
  BY <1>1

LEMMA LessTransitive ==
  ASSUME NEW s \in Seq(Nat), NEW t \in Seq(Nat), NEW u \in Seq(Nat), Less(s, t), Less(t, u)
  PROVE  Less(s, u)
<1>0. Len(s) \in Nat /\ Len(t) \in Nat /\ Len(u) \in Nat
  OBVIOUS
<1>1. PICK k \in 1..Len(t) :
        /\ \A j \in 1..k - 1 : j <= Len(s) /\ s[j] = t[j]
        /\ k > Len(s) \/ s[k] < t[k]
  BY DEF Less
<1>2. PICK m \in 1..Len(u) :
        /\ \A j \in 1..m - 1 : j <= Len(t) /\ t[j] = u[j]
        /\ m > Len(t) \/ t[m] < u[m]
  BY DEF Less
<1>3. ASSUME NEW j \in 1..Len(s)
      PROVE  s[j] \in Nat
  OBVIOUS
<1>4. ASSUME NEW j \in 1..Len(t)
      PROVE  t[j] \in Nat
  OBVIOUS
<1>5. ASSUME NEW j \in 1..Len(u)
      PROVE  u[j] \in Nat
  OBVIOUS
<1>6. CASE k < m
  <2>1. k \in 1..Len(u) /\ t[k] = u[k]
    BY <1>0, <1>1, <1>2, <1>6
  <2>2. \A j \in 1..k - 1 : j <= Len(s) /\ s[j] = u[j]
    BY <1>0, <1>1, <1>2, <1>6
  <2> QED
    BY <1>1, <2>1, <2>2 DEF Less
<1>7. CASE m <= k
  <2>1. \A j \in 1..m - 1 : j <= Len(s) /\ s[j] = u[j]
    BY <1>0, <1>1, <1>2, <1>7
  <2>2. m > Len(s) \/ s[m] < u[m]
    <3>1. CASE m < k
      <4>1. m <= Len(s) /\ s[m] = t[m] /\ m <= Len(t)
        BY <1>0, <1>1, <1>2, <3>1
      <4> QED
        BY <1>0, <1>2, <4>1
    <3>2. CASE m = k
      <4>1. m <= Len(t) /\ t[m] < u[m] /\ t[m] \in Nat /\ u[m] \in Nat
        BY <1>0, <1>1, <1>2, <1>4, <1>5, <3>2
      <4>2. ASSUME m <= Len(s)
            PROVE  s[m] < u[m]
        <5>1. m \in 1..Len(s) /\ ~ (k > Len(s))
          BY <1>0, <1>2, <3>2, <4>2
        <5>2. s[m] < t[m] /\ s[m] \in Nat
          BY <1>1, <1>3, <3>2, <5>1
        <5>3. \A a, b, c \in Nat : a < b /\ b < c => a < c
          OBVIOUS
        <5> QED
          BY <4>1, <5>2, <5>3, Zenon
      <4>3. m \in Nat
        BY <1>0, <1>2
      <4> QED
        BY <1>0, <4>2, <4>3
    <3> QED
      BY <1>1, <1>2, <1>7, <3>1, <3>2
  <2> QED
    BY <1>2, <2>1, <2>2 DEF Less
<1> QED
  BY <1>1, <1>2, <1>6, <1>7

(* Two keys are compared at the first position where they differ. *)
LEMMA LessTotal ==
  ASSUME NEW s \in Seq(Nat), NEW t \in Seq(Nat), s # t
  PROVE  Less(s, t) \/ Less(t, s)
<1> DEFINE T == {k \in Nat \ {0} : k <= Len(s) /\ k <= Len(t) => s[k] # t[k]}
           D == {k \in T : k <= Len(s) \/ k <= Len(t)}
<1>0. Len(s) \in Nat /\ Len(t) \in Nat
  OBVIOUS
<1>1. D # {}
  <2> SUFFICES ASSUME D = {}
               PROVE  s = t
    OBVIOUS
  <2>1. \A k \in Nat \ {0} : k <= Len(s) \/ k <= Len(t) =>
          k <= Len(s) /\ k <= Len(t) /\ s[k] = t[k]
    OBVIOUS
  <2> HIDE DEF D
  <2>2. Len(s) = Len(t)
    <3>1. Len(s) # 0 => Len(s) <= Len(t)
      BY <1>0, <2>1
    <3>2. Len(t) # 0 => Len(t) <= Len(s)
      BY <1>0, <2>1
    <3> QED
      BY <1>0, <3>1, <3>2
  <2>3. \A k \in 1..Len(s) : s[k] = t[k]
    BY <1>0, <2>1
  <2> QED
    BY <2>2, <2>3, SeqEqual
<1>2. PICK k \in D : \A y \in D : k <= y
  <2>1. D \in SUBSET Nat
    OBVIOUS
  <2> HIDE DEF D
  <2> QED
    BY <1>1, <2>1, LeastElement
<1>3. k \in Nat \ {0} /\ (k <= Len(s) \/ k <= Len(t)) /\ (k <= Len(s) /\ k <= Len(t) => s[k] # t[k])
  OBVIOUS
<1>4. ASSUME NEW j \in 1..k - 1
      PROVE  j <= Len(s) /\ j <= Len(t) /\ s[j] = t[j]
  <2>1. j \in Nat \ {0} /\ j < k /\ (j <= Len(s) \/ j <= Len(t))
    BY <1>0, <1>3
  <2>2. j \notin D
    BY <1>2, <1>3, <2>1
  <2> QED
    BY <2>1, <2>2
<1> HIDE DEF D
<1>5. CASE k > Len(s)
  BY <1>0, <1>3, <1>4, <1>5 DEF Less
<1>6. CASE k > Len(t)
  BY <1>0, <1>3, <1>4, <1>6 DEF Less
<1>7. CASE k <= Len(s) /\ k <= Len(t)
  <2>1. s[k] \in Nat /\ t[k] \in Nat /\ k \in 1..Len(s) /\ k \in 1..Len(t)
    BY <1>0, <1>3, <1>7
  <2>2. CASE s[k] < t[k]
    BY <1>4, <2>1, <2>2 DEF Less
  <2>3. CASE t[k] < s[k]
    BY <1>4, <2>1, <2>3 DEF Less
  <2> QED
    BY <1>3, <1>7, <2>1, <2>2, <2>3
<1> QED
  BY <1>0, <1>3, <1>5, <1>6, <1>7

LEMMA LessAsymmetric ==
  ASSUME NEW s \in Seq(Nat), NEW t \in Seq(Nat), Less(s, t)
  PROVE  ~ AtMost(t, s)
  BY LessTransitive, LessIrreflexive DEF AtMost

(* ORDER BY key lists every key once, in increasing order. *)
LEMMA SortedFacts ==
  ASSUME NEW S \in SUBSET Seq(Nat), IsFiniteSet(S)
  PROVE  /\ Sorted(S) \in Seq(S) /\ Len(Sorted(S)) = Cardinality(S)
         /\ \A k \in S : \E i \in 1..Cardinality(S) : Sorted(S)[i] = k
         /\ \A i, j \in 1..Cardinality(S) : i < j => Less(Sorted(S)[i], Sorted(S)[j])
<1> DEFINE below(k) == {j \in S : Less(j, k)}
           N == Cardinality(S)
           rank == [k \in S |-> Cardinality(below(k)) + 1]
           at(i) == CHOOSE k \in S : Cardinality(below(k)) = i - 1
           s == Sorted(S)
<1>1. N \in Nat
  BY FS_CardinalityType
<1>2. \A k \in S : IsFiniteSet(below(k)) /\ Cardinality(below(k)) \in 0..N - 1
  <2> SUFFICES ASSUME NEW k \in S
               PROVE  IsFiniteSet(below(k)) /\ Cardinality(below(k)) \in 0..N - 1
    OBVIOUS
  <2>1. below(k) \in SUBSET S /\ k \notin below(k)
    BY LessIrreflexive
  <2> HIDE DEF below
  <2>2. IsFiniteSet(below(k)) /\ Cardinality(below(k)) \in Nat
    BY <2>1, FS_Subset, FS_CardinalityType
  <2>3. Cardinality(below(k)) <= N /\ Cardinality(below(k)) # N
    BY <2>1, FS_Subset
  <2> QED
    BY <1>1, <2>2, <2>3
<1>3. ASSUME NEW j \in S, NEW k \in S, Less(j, k)
      PROVE  Cardinality(below(j)) < Cardinality(below(k))
  <2>1. below(j) \in SUBSET below(k)
    BY <1>3, LessTransitive
  <2>2. j \in below(k) /\ j \notin below(j)
    BY <1>3, LessIrreflexive
  <2> HIDE DEF below
  <2>3. /\ Cardinality(below(j)) <= Cardinality(below(k))
        /\ Cardinality(below(j)) # Cardinality(below(k))
    BY <1>2, <2>1, <2>2, FS_Subset
  <2> QED
    BY <1>1, <1>2, <2>3
<1>4. \A j, k \in S : Cardinality(below(j)) = Cardinality(below(k)) => j = k
  <2> HIDE DEF below
  <2>1. \A j, k \in S : j # k => Less(j, k) \/ Less(k, j)
    BY LessTotal
  <2> QED
    BY <1>1, <1>2, <1>3, <2>1
<1> HIDE DEF below
<1>5. rank \in Surjection(S, 1..N)
  <2>1. \A k \in S : Cardinality(below(k)) + 1 \in 1..N
    BY <1>1, <1>2
  <2>2. \A j, k \in S : Cardinality(below(j)) + 1 = Cardinality(below(k)) + 1 => j = k
    <3>1. \A j, k \in S : Cardinality(below(j)) \in Nat /\ Cardinality(below(k)) \in Nat
      BY <1>1, <1>2
    <3>2. \A m, n \in Nat : m + 1 = n + 1 => m = n
      OBVIOUS
    <3> QED
      BY <1>4, <3>1, <3>2
  <2>3. rank \in Injection(S, 1..N)
    BY <2>1, <2>2 DEF Injection, IsInjective
  <2>4. IsFiniteSet(1..N) /\ Cardinality(1..N) = N
    BY <1>1, FS_Interval
  <2> QED
    BY <2>3, <2>4, FS_Injection
<1>6. \A i \in 1..N : at(i) \in S /\ Cardinality(below(at(i))) = i - 1
  <2> SUFFICES ASSUME NEW i \in 1..N
               PROVE  \E k \in S : Cardinality(below(k)) = i - 1
    OBVIOUS
  <2>1. PICK k \in S : Cardinality(below(k)) + 1 = i
    BY <1>5 DEF Surjection
  <2> QED
    BY <1>1, <1>2, <2>1
<1>7. s = [i \in 1..N |-> at(i)]
  BY DEF Sorted, below
<1> HIDE DEF at, s, rank
<1>8. s \in [1..N -> S] /\ \A i \in 1..N : s[i] = at(i)
  BY <1>6, <1>7
<1> HIDE DEF N
<1>9. s \in Seq(S) /\ Len(s) = N
  <2>1. s \in Seq(S) /\ DOMAIN s = 1..N
    BY <1>1, <1>8, IsASeq
  <2> QED
    BY <1>1, <2>1
<1>10. ASSUME NEW k \in S
       PROVE  \E i \in 1..N : s[i] = k
  <2> DEFINE i == Cardinality(below(k)) + 1
  <2>1. i \in 1..N /\ i - 1 = Cardinality(below(k))
    BY <1>1, <1>2 DEF N
  <2>2. at(i) = k
    BY <1>4, <1>6, <2>1
  <2> QED
    BY <1>8, <2>1, <2>2
<1>11. ASSUME NEW i \in 1..N, NEW j \in 1..N, i < j
       PROVE  Less(s[i], s[j])
  <2>1. /\ at(i) \in S /\ at(j) \in S
        /\ Cardinality(below(at(i))) = i - 1 /\ Cardinality(below(at(j))) = j - 1
    BY <1>6
  <2>2. Cardinality(below(at(i))) < Cardinality(below(at(j)))
    BY <1>1, <1>11, <2>1
  <2>3. at(i) # at(j)
    BY <1>1, <1>2, <2>1, <2>2 DEF N
  <2>4. ~ Less(at(j), at(i))
    BY <1>1, <1>2, <1>3, <2>1, <2>2 DEF N
  <2>5. Less(at(i), at(j))
    BY <2>1, <2>3, <2>4, LessTotal
  <2> QED
    BY <1>8, <2>5
<1> QED
  BY <1>9, <1>10, <1>11 DEF s, N

-----------------------------------------------------------------------------
(* Prefixes. *)

(* StartsWith, position by position. *)
LEMMA StartsWithFacts ==
  ASSUME NEW k \in Seq(Nat), NEW p \in Seq(Nat)
  PROVE  StartsWith(k, p) <=> Len(p) <= Len(k) /\ \A i \in 1..Len(p) : k[i] = p[i]
<1>1. Len(p) \in Nat /\ Len(k) \in Nat
  OBVIOUS
<1> SUFFICES ASSUME Len(p) <= Len(k)
             PROVE  SubSeq(k, 1, Len(p)) = p <=> \A i \in 1..Len(p) : k[i] = p[i]
  BY DEF StartsWith
<1>2. /\ SubSeq(k, 1, Len(p)) \in Seq(Nat) /\ Len(SubSeq(k, 1, Len(p))) = Len(p)
      /\ \A i \in 1..Len(p) : SubSeq(k, 1, Len(p))[i] = k[i]
  BY <1>1
<1> QED
  BY <1>1, <1>2, SeqEqual

(* A key comes after its prefixes. *)
LEMMA PrefixAtMost ==
  ASSUME NEW k \in Seq(Nat), NEW p \in Seq(Nat), StartsWith(k, p)
  PROVE  AtMost(p, k)
<1>0. Len(k) \in Nat /\ Len(p) \in Nat
  OBVIOUS
<1>1. Len(p) <= Len(k) /\ \A i \in 1..Len(p) : k[i] = p[i]
  BY StartsWithFacts
<1>2. CASE Len(p) = Len(k)
  BY <1>1, <1>2, SeqEqual DEF AtMost
<1>3. CASE Len(p) < Len(k)
  <2>1. /\ Len(p) + 1 \in 1..Len(k) /\ Len(p) + 1 > Len(p)
        /\ \A j \in 1..(Len(p) + 1) - 1 : j <= Len(p) /\ p[j] = k[j]
    BY <1>0, <1>1, <1>3
  <2> QED
    BY <2>1 DEF Less, AtMost
<1> QED
  BY <1>0, <1>1, <1>2, <1>3

(* The keys under a prefix are an interval. *)
LEMMA StartsBetween ==
  ASSUME NEW s \in Seq(Nat), NEW t \in Seq(Nat), NEW u \in Seq(Nat), NEW p \in Seq(Nat),
         StartsWith(s, p), StartsWith(u, p), AtMost(s, t), AtMost(t, u)
  PROVE  StartsWith(t, p)
<1>0. Len(s) \in Nat /\ Len(t) \in Nat /\ Len(u) \in Nat /\ Len(p) \in Nat
  OBVIOUS
<1>1. /\ Len(p) <= Len(s) /\ \A i \in 1..Len(p) : s[i] = p[i]
      /\ Len(p) <= Len(u) /\ \A i \in 1..Len(p) : u[i] = p[i]
  BY StartsWithFacts
<1> SUFFICES ASSUME Less(s, t), Less(t, u)
             PROVE  Len(p) <= Len(t) /\ \A i \in 1..Len(p) : t[i] = p[i]
  BY StartsWithFacts DEF AtMost
<1>2. PICK k \in 1..Len(t) :
        /\ \A j \in 1..k - 1 : j <= Len(s) /\ s[j] = t[j]
        /\ k > Len(s) \/ s[k] < t[k]
  BY DEF Less
<1>3. PICK m \in 1..Len(u) :
        /\ \A j \in 1..m - 1 : j <= Len(t) /\ t[j] = u[j]
        /\ m > Len(t) \/ t[m] < u[m]
  BY DEF Less
<1>4. CASE k > Len(p)
  BY <1>0, <1>1, <1>2, <1>4
<1>5. CASE m > Len(p)
  <2>1. \A i \in 1..Len(p) : i <= Len(t) /\ t[i] = p[i]
    BY <1>0, <1>1, <1>3, <1>5
  <2>2. Len(p) <= Len(t)
    BY <1>0, <2>1
  <2> QED
    BY <2>1, <2>2
<1>6. ASSUME k <= Len(p), m <= Len(p)
      PROVE  FALSE
  <2>1. /\ k \in 1..Len(p) /\ m \in 1..Len(p) /\ k \in 1..Len(t)
        /\ s[k] = p[k] /\ u[m] = p[m] /\ u[k] = p[k] /\ s[m] = p[m]
    BY <1>0, <1>1, <1>2, <1>3, <1>6
  <2>2. p[k] \in Nat /\ p[m] \in Nat /\ t[k] \in Nat /\ p[k] < t[k]
    <3>1. p[k] \in Nat /\ p[m] \in Nat /\ t[k] \in Nat
      <4>1. \A j \in 1..Len(p) : p[j] \in Nat
        OBVIOUS
      <4>2. \A j \in 1..Len(t) : t[j] \in Nat
        OBVIOUS
      <4> QED
        BY <2>1, <4>1, <4>2
    <3>2. ~ (k > Len(s))
      BY <1>0, <1>1, <2>1
    <3> QED
      BY <1>2, <2>1, <3>1, <3>2
  <2>3. CASE k < m
    <3>1. t[k] = u[k]
      BY <1>0, <1>3, <2>1, <2>3
    <3> QED
      BY <2>1, <2>2, <3>1
  <2>4. CASE m < k
    <3>1. t[m] = s[m] /\ m <= Len(t)
      BY <1>0, <1>2, <2>1, <2>4
    <3>2. ~ (m > Len(t))
      BY <1>0, <2>1, <3>1
    <3>3. t[m] < u[m] /\ t[m] = p[m] /\ u[m] = p[m]
      BY <1>3, <2>1, <3>1, <3>2
    <3> QED
      BY <2>2, <3>3
  <2>5. CASE m = k
    <3>1. ~ (m > Len(t))
      BY <1>0, <2>1, <2>5
    <3>2. t[k] < u[k] /\ u[k] = p[k]
      BY <1>3, <2>1, <2>5, <3>1
    <3> QED
      BY <2>2, <3>2
  <2>6. k \in Nat /\ m \in Nat
    BY <1>0, <1>2, <1>3
  <2> QED
    BY <2>3, <2>4, <2>5, <2>6
<1>7. k \in Nat /\ m \in Nat
  BY <1>0, <1>2, <1>3
<1>8. k > Len(p) \/ m > Len(p)
  BY <1>0, <1>6, <1>7
<1> QED
  BY <1>4, <1>5, <1>8

(* prefixUpperBound, position by position. *)
LEMMA UpperBoundFacts ==
  ASSUME NEW p \in Seq(0..MaxByte), prefixUpperBound(p) # << >>
  PROVE  \E last \in 1..Len(p) :
           /\ prefixUpperBound(p) \in Seq(Nat) /\ Len(prefixUpperBound(p)) = last
           /\ \A j \in 1..last - 1 : prefixUpperBound(p)[j] = p[j]
           /\ prefixUpperBound(p)[last] = p[last] + 1
           /\ \A j \in last + 1..Len(p) : p[j] = MaxByte
<1> DEFINE B == {i \in 1..Len(p) : p[i] # MaxByte}
           last == CHOOSE i \in B : \A j \in B : j <= i
           h == SubSeq(p, 1, last)
           hi == [h EXCEPT ![last] = @ + 1]
<1>0. Len(p) \in Nat /\ MaxByte \in Nat /\ \A i \in 1..Len(p) : p[i] \in Nat
  BY ListingAssumption
<1>1. B # {} /\ prefixUpperBound(p) = hi
  BY DEF prefixUpperBound
<1>2. \E m \in B : \A y \in B : y <= m
  <2>1. B \in SUBSET (0..Len(p))
    BY <1>0
  <2> HIDE DEF B
  <2> QED
    BY <1>0, <1>1, <2>1, GreatestElement
<1>3. last \in B /\ \A j \in B : j <= last
  BY <1>2
<1> HIDE DEF last
<1>4. last \in 1..Len(p) /\ \A j \in last + 1..Len(p) : p[j] = MaxByte
  <2>1. last \in 1..Len(p)
    BY <1>3
  <2>2. ASSUME NEW j \in last + 1..Len(p)
        PROVE  p[j] = MaxByte
    <3>1. j \in 1..Len(p) /\ ~ (j <= last)
      BY <1>0, <2>1
    <3> QED
      BY <1>3, <3>1
  <2> QED
    BY <2>1, <2>2
<1> HIDE DEF B
<1>5. /\ h \in Seq(Nat) /\ Len(h) = last /\ DOMAIN h = 1..last
      /\ \A j \in 1..last : h[j] = p[j]
  <2>1. /\ h \in Seq(0..MaxByte) /\ Len(h) = last
        /\ \A j \in 1..last : h[j] = p[j]
    BY <1>0, <1>4
  <2>2. h \in Seq(Nat)
    <3>1. 0..MaxByte \subseteq Nat
      BY <1>0
    <3> QED
      BY <2>1, <3>1, SeqMonotonic
  <2> QED
    BY <2>1, <2>2
<1> HIDE DEF h
<1>6. p[last] + 1 \in Nat /\ last \in 1..Len(h)
  BY <1>0, <1>4, <1>5
<1>7. hi \in Seq(Nat) /\ Len(hi) = last
  BY <1>4, <1>5, <1>6, ExceptSeq
<1>8. hi[last] = p[last] + 1 /\ \A j \in 1..last - 1 : hi[j] = p[j]
  BY <1>0, <1>4, <1>5
<1> QED
  BY <1>1, <1>4, <1>7, <1>8

(* Without an upper bound the prefix consists of the highest byte. *)
LEMMA NoUpperBound ==
  ASSUME NEW p \in Seq(0..MaxByte), prefixUpperBound(p) = << >>
  PROVE  \A j \in 1..Len(p) : p[j] = MaxByte
<1> DEFINE B == {i \in 1..Len(p) : p[i] # MaxByte}
           last == CHOOSE i \in B : \A j \in B : j <= i
           h == SubSeq(p, 1, last)
<1>0. Len(p) \in Nat
  OBVIOUS
<1>1. ASSUME B # {}
      PROVE  FALSE
  <2>1. prefixUpperBound(p) = [h EXCEPT ![last] = @ + 1]
    BY <1>1 DEF prefixUpperBound
  <2>2. \E m \in B : \A y \in B : y <= m
    <3>1. B \in SUBSET (0..Len(p))
      BY <1>0
    <3> HIDE DEF B
    <3> QED
      BY <1>0, <1>1, <3>1, GreatestElement
  <2>3. last \in 1..Len(p)
    BY <2>2
  <2> HIDE DEF last, B
  <2>4. DOMAIN h = 1..last
    BY <1>0, <2>3
  <2>5. DOMAIN prefixUpperBound(p) = 1..last
    BY <2>1, <2>4
  <2>6. DOMAIN prefixUpperBound(p) = {}
    OBVIOUS
  <2> QED
    BY <1>0, <2>3, <2>5, <2>6
<1> QED
  BY <1>1

(* The elements of a key are bytes. *)
Bytes(k) == \A j \in 1..Len(k) : k[j] <= MaxByte

(* The two bounds of the SELECT enclose exactly the keys with the prefix. *)
LEMMA PrefixRange ==
  ASSUME NEW p \in Seq(0..MaxByte), NEW k \in Seq(Nat), Bytes(k)
  PROVE  /\ AtMost(p, k)
         /\ prefixUpperBound(p) # << >> => Less(k, prefixUpperBound(p))
         <=> StartsWith(k, p)
<1> DEFINE hi == prefixUpperBound(p)
<1>0. /\ p \in Seq(Nat) /\ Len(p) \in Nat /\ Len(k) \in Nat /\ MaxByte \in Nat
      /\ \A i \in 1..Len(p) : p[i] \in Nat
      /\ \A i \in 1..Len(k) : k[i] \in Nat /\ k[i] <= MaxByte
  <2>1. MaxByte \in Nat /\ 0..MaxByte \subseteq Nat
    BY ListingAssumption
  <2>2. p \in Seq(Nat)
    BY <2>1, SeqMonotonic
  <2> QED
    BY <2>1, <2>2 DEF Bytes
<1>1. StartsWith(k, p) => AtMost(p, k)
  BY <1>0, PrefixAtMost
<1>2. ASSUME StartsWith(k, p), hi # << >>
      PROVE  Less(k, hi)
  <2>1. Len(p) <= Len(k) /\ \A i \in 1..Len(p) : k[i] = p[i]
    BY <1>0, <1>2, StartsWithFacts
  <2>2. PICK last \in 1..Len(p) :
          /\ hi \in Seq(Nat) /\ Len(hi) = last
          /\ \A j \in 1..last - 1 : hi[j] = p[j]
          /\ hi[last] = p[last] + 1
    BY <1>2, UpperBoundFacts
  <2> HIDE DEF hi
  <2>3. k[last] < hi[last] /\ last \in 1..Len(hi)
    <3>1. k[last] = p[last] /\ p[last] \in Nat
      BY <1>0, <2>1, <2>2
    <3> QED
      BY <1>0, <2>2, <3>1
  <2>4. ASSUME NEW j \in 1..last - 1
        PROVE  j <= Len(k) /\ k[j] = hi[j]
    <3>1. j \in 1..Len(p) /\ j <= Len(k)
      BY <1>0, <2>1, <2>2
    <3> QED
      BY <2>1, <2>2, <3>1
  <2> QED
    BY <2>3, <2>4 DEF Less
<1>3. ASSUME AtMost(p, k), hi # << >> => Less(k, hi), ~ StartsWith(k, p)
      PROVE  FALSE
  <2>1. Less(p, k)
    <3>1. StartsWith(p, p)
      BY <1>0, StartsWithFacts
    <3> QED
      BY <1>3, <3>1 DEF AtMost
  <2>2. PICK m \in 1..Len(k) :
          /\ \A j \in 1..m - 1 : j <= Len(p) /\ p[j] = k[j]
          /\ m > Len(p) \/ p[m] < k[m]
    BY <2>1 DEF Less
  <2>3. m <= Len(p)
    <3>1. ASSUME m > Len(p)
          PROVE  Len(p) <= Len(k) /\ \A i \in 1..Len(p) : k[i] = p[i]
      BY <1>0, <2>2, <3>1
    <3> QED
      BY <1>0, <1>3, <2>2, <3>1, StartsWithFacts
  <2>4. m \in 1..Len(p) /\ p[m] < k[m] /\ p[m] # MaxByte
    BY <1>0, <2>2, <2>3
  <2>5. hi # << >>
    BY <2>4, NoUpperBound
  <2>6. PICK last \in 1..Len(p) :
          /\ hi \in Seq(Nat) /\ Len(hi) = last
          /\ \A j \in 1..last - 1 : hi[j] = p[j]
          /\ hi[last] = p[last] + 1
          /\ \A j \in last + 1..Len(p) : p[j] = MaxByte
    BY <2>5, UpperBoundFacts
  <2> HIDE DEF hi
  <2>7. m <= last
    <3>1. ASSUME m > last
          PROVE  m \in last + 1..Len(p)
      BY <1>0, <2>4, <2>6, <3>1
    <3>2. ~ (m > last)
      BY <2>4, <2>6, <3>1
    <3> QED
      BY <1>0, <2>2, <2>6, <3>2
  <2>8. \A j \in 1..m - 1 : j <= Len(hi) /\ hi[j] = k[j]
    BY <1>0, <2>2, <2>4, <2>6, <2>7
  <2>9. AtMost(hi, k)
    <3>1. CASE m < last
      <4>1. m \in 1..last - 1
        BY <1>0, <2>4, <2>6, <3>1
      <4>2. hi[m] < k[m]
        BY <2>4, <2>6, <4>1
      <4> QED
        BY <2>2, <2>8, <4>2 DEF Less, AtMost
    <3>2. CASE m = last /\ hi[m] < k[m]
      BY <2>2, <2>8, <3>2 DEF Less, AtMost
    <3>3. CASE m = last /\ hi[m] = k[m]
      <4>1. ASSUME NEW j \in 1..last
            PROVE  k[j] = hi[j]
        <5>1. j = m \/ j \in 1..m - 1
          BY <1>0, <2>6, <3>3
        <5> QED
          BY <2>8, <3>3, <5>1
      <4>2. last <= Len(k)
        BY <2>2, <3>3, <1>0
      <4>3. StartsWith(k, hi)
        BY <2>6, <4>1, <4>2, StartsWithFacts
      <4> QED
        BY <2>6, <4>3, PrefixAtMost
    <3>4. m = last => hi[m] <= k[m] /\ hi[m] \in Nat /\ k[m] \in Nat
      <4>1. p[m] \in Nat /\ k[m] \in Nat
        BY <1>0, <2>2, <2>4
      <4> QED
        BY <2>4, <2>6, <4>1
    <3>5. m < last \/ m = last
      BY <1>0, <2>2, <2>6, <2>7
    <3>6. m = last => hi[m] < k[m] \/ hi[m] = k[m]
      BY <3>4
    <3> QED
      BY <3>1, <3>2, <3>3, <3>5, <3>6
  <2> QED
    BY <1>3, <2>5, <2>6, <2>9, LessAsymmetric DEF hi
<1> QED
  BY <1>1, <1>2, <1>3

-----------------------------------------------------------------------------
(* Entries. *)

LEMMA EntryKinds ==
  \A a, b :
    /\ Contents(a) # CommonPrefix(b)
    /\ Contents(a) = Contents(b) => a = b
    /\ CommonPrefix(a) = CommonPrefix(b) => a = b
  BY DEF Contents, CommonPrefix

(* A key is listed as itself, or by the part of it that ends at the delimiter. *)
LEMMA EntryFacts ==
  ASSUME NEW q, q.prefix \in Seq(Nat), NEW k \in Seq(Nat)
  PROVE  \/ Entry(q, k) = Contents(k)
         \/ /\ q.delimited
            /\ \E n \in Len(q.prefix) + 1..Len(k) :
                 /\ Entry(q, k) = CommonPrefix(SubSeq(k, 1, n)) /\ k[n] = Slash
                 /\ \A j \in Len(q.prefix) + 1..n - 1 : k[j] # Slash
<1> DEFINE D == {j \in (Len(q.prefix) + 1)..Len(k) : k[j] = Slash}
           n == CHOOSE j \in D : \A i \in D : j <= i
<1>0. Len(q.prefix) \in Nat /\ Len(k) \in Nat
  OBVIOUS
<1>1. CASE ~ q.delimited \/ D = {}
  BY <1>1 DEF Entry
<1>2. CASE q.delimited /\ D # {}
  <2>1. Entry(q, k) = CommonPrefix(SubSeq(k, 1, n))
    BY <1>2 DEF Entry
  <2>2. \E m \in D : \A y \in D : m <= y
    <3>1. D \in SUBSET Nat
      BY <1>0
    <3> HIDE DEF D
    <3> QED
      BY <1>2, <3>1, LeastElement
  <2>3. n \in D /\ \A i \in D : n <= i
    BY <2>2
  <2> HIDE DEF n
  <2>4. n \in Len(q.prefix) + 1..Len(k) /\ k[n] = Slash
    BY <2>3
  <2>5. ASSUME NEW j \in Len(q.prefix) + 1..n - 1
        PROVE  k[j] # Slash
    <3>1. j \in Len(q.prefix) + 1..Len(k) /\ ~ (n <= j)
      BY <1>0, <2>4
    <3> QED
      BY <2>3, <3>1
  <2> QED
    BY <1>2, <2>1, <2>4, <2>5
<1> QED
  BY <1>1, <1>2

(* Another key under a common prefix is listed by it too. *)
LEMMA SamePrefix ==
  ASSUME NEW q, q.prefix \in Seq(Nat), NEW k \in Seq(Nat), NEW l \in Seq(Nat),
         Entry(q, k) # Contents(k)
  PROVE  \E p \in Seq(Nat) : /\ Entry(q, k) = CommonPrefix(p) /\ StartsWith(k, p)
                             /\ StartsWith(l, p) => Entry(q, l) = CommonPrefix(p)
<1>0. Len(q.prefix) \in Nat /\ Len(k) \in Nat /\ Len(l) \in Nat
  OBVIOUS
<1>1. q.delimited
  BY EntryFacts
<1>2. PICK n \in Len(q.prefix) + 1..Len(k) :
        /\ Entry(q, k) = CommonPrefix(SubSeq(k, 1, n)) /\ k[n] = Slash
        /\ \A j \in Len(q.prefix) + 1..n - 1 : k[j] # Slash
  BY EntryFacts
<1> DEFINE p == SubSeq(k, 1, n)
<1>3. /\ p \in Seq(Nat) /\ Len(p) = n /\ n \in Nat \ {0}
      /\ \A i \in 1..n : p[i] = k[i]
  BY <1>0
<1>4. StartsWith(k, p)
  <2>1. Len(p) <= Len(k)
    BY <1>0, <1>3
  <2> HIDE DEF p
  <2> QED
    BY <1>3, <2>1, StartsWithFacts
<1>5. ASSUME StartsWith(l, p)
      PROVE  Entry(q, l) = CommonPrefix(p)
  <2> DEFINE D == {j \in (Len(q.prefix) + 1)..Len(l) : l[j] = Slash}
  <2>1. n <= Len(l) /\ \A i \in 1..n : l[i] = k[i]
    <3> HIDE DEF p
    <3>1. Len(p) <= Len(l) /\ \A i \in 1..Len(p) : l[i] = p[i]
      BY <1>3, <1>5, StartsWithFacts
    <3> QED
      BY <1>3, <3>1
  <2>2. n \in D
    BY <1>0, <1>2, <1>3, <2>1
  <2>3. ASSUME NEW j \in D
        PROVE  n <= j
    <3>1. j \in Nat /\ j >= Len(q.prefix) + 1 /\ l[j] = Slash
      BY <1>0
    <3>2. ASSUME j < n
          PROVE  FALSE
      <4>1. j \in 1..n /\ j \in Len(q.prefix) + 1..n - 1
        <5> HIDE DEF p, D
        <5> QED
          BY <1>0, <1>3, <3>1, <3>2
      <4> QED
        BY <1>2, <2>1, <3>1, <4>1
    <3> QED
      BY <1>3, <3>1, <3>2
  <2>4. \A j \in D : j \in Nat
    BY <1>0
  <2>5. ASSUME NEW j \in D, \A i \in D : j <= i
        PROVE  j = n
    <3>1. j \in Nat /\ n \in Nat /\ j <= n /\ n <= j
      BY <1>3, <2>2, <2>3, <2>4, <2>5
    <3> QED
      BY <3>1
  <2> HIDE DEF D
  <2>6. (CHOOSE j \in D : \A i \in D : j <= i) = n
    BY <2>2, <2>3, <2>5
  <2>7. Entry(q, l) = CommonPrefix(SubSeq(l, 1, n))
    BY <1>1, <2>2, <2>6 DEF Entry, D
  <2>8. SubSeq(l, 1, n) = p
    BY <1>3, <1>5 DEF StartsWith
  <2> QED
    BY <2>7, <2>8
<1> QED
  BY <1>2, <1>3, <1>4, <1>5

(* Keys listed by one entry share it with all keys between them. *)
LEMMA EntryBetween ==
  ASSUME NEW q, q.prefix \in Seq(Nat),
         NEW k \in Seq(Nat), NEW l \in Seq(Nat), NEW m \in Seq(Nat),
         Entry(q, k) = Entry(q, m), Less(k, m), AtMost(k, l), AtMost(l, m)
  PROVE  Entry(q, l) = Entry(q, k)
<1>1. k # m
  BY LessIrreflexive
<1>2. ASSUME Entry(q, k) = Contents(k)
      PROVE  FALSE
  <2>1. Entry(q, m) # Contents(m)
    BY <1>1, <1>2, EntryKinds, Zenon
  <2>2. PICK p \in Seq(Nat) : Entry(q, m) = CommonPrefix(p)
    BY <2>1, SamePrefix
  <2> QED
    BY <1>2, <2>2, EntryKinds, Zenon
<1>3. PICK p \in Seq(Nat) : /\ Entry(q, k) = CommonPrefix(p) /\ StartsWith(k, p)
                            /\ StartsWith(l, p) => Entry(q, l) = CommonPrefix(p)
  BY <1>2, SamePrefix
<1>4. Entry(q, m) # Contents(m)
  BY <1>3, EntryKinds, Zenon
<1>5. PICK r \in Seq(Nat) : Entry(q, m) = CommonPrefix(r) /\ StartsWith(m, r)
  BY <1>4, SamePrefix
<1>6. r = p
  BY <1>3, <1>5, EntryKinds, Zenon
<1>7. StartsWith(l, p)
  BY <1>3, <1>5, <1>6, StartsBetween
<1> QED
  BY <1>3, <1>7

-----------------------------------------------------------------------------
(* Pages. *)

(* The positions of new entries among e[1..N], and those beyond the page. *)
New(e, N) == {i \in 1..N : \A j \in 1..i - 1 : e[j] # e[i]}
Beyond(e, N, max) == {i \in New(e, N) : Cardinality(New(e, N) \cap (1..i)) > max}
Shown(e, N, c) == {e[i] : i \in New(e, N) \cap (1..c)}

(* The new entries up to a row are all the entries up to it. *)
LEMMA NewFacts ==
  ASSUME NEW e, NEW N \in Nat, NEW c \in 0..N
  PROVE  /\ IsFiniteSet(New(e, N) \cap (1..c)) /\ Cardinality(New(e, N) \cap (1..c)) \in Nat
         /\ Shown(e, N, c) = {e[i] : i \in 1..c}
         /\ Cardinality(Shown(e, N, c)) <= Cardinality(New(e, N) \cap (1..c))
         /\ Cardinality(Shown(e, N, c)) \in Nat
<1> DEFINE T == New(e, N) \cap (1..c)
<1>1. IsFiniteSet(T) /\ Cardinality(T) \in Nat
  <2>1. IsFiniteSet(1..c)
    BY FS_Interval
  <2> QED
    BY <2>1, FS_Subset, FS_CardinalityType
<1>2. ASSUME NEW i \in 1..c
      PROVE  \E j \in T : e[j] = e[i]
  <2> DEFINE Same == {j \in 1..c : e[j] = e[i]}
  <2>1. PICK j \in Same : \A y \in Same : j <= y
    <3>1. Same \in SUBSET Nat /\ i \in Same
      OBVIOUS
    <3> HIDE DEF Same
    <3> QED
      BY <3>1, LeastElement
  <2>2. j \in 1..c /\ e[j] = e[i] /\ j \in 1..N
    OBVIOUS
  <2>3. ASSUME NEW y \in 1..j - 1
        PROVE  e[y] # e[j]
    <3>1. y \in 1..c /\ ~ (j <= y)
      BY <2>2
    <3> QED
      BY <2>1, <2>2, <3>1
  <2>4. j \in New(e, N)
    BY <2>2, <2>3 DEF New
  <2> QED
    BY <2>2, <2>4
<1>3. Shown(e, N, c) = {e[i] : i \in 1..c}
  <2>1. \A i \in T : i \in 1..c
    OBVIOUS
  <2> HIDE DEF T
  <2> QED
    BY <1>2, <2>1 DEF Shown, T
<1> DEFINE f == [i \in T |-> e[i]]
<1>4. f \in Surjection(T, Shown(e, N, c))
  <2> HIDE DEF T
  <2>1. Shown(e, N, c) = {e[i] : i \in T}
    BY DEF Shown, T
  <2> QED
    BY <2>1 DEF Surjection
<1>5. IsFiniteSet(Shown(e, N, c)) /\ Cardinality(Shown(e, N, c)) <= Cardinality(T)
  <2> HIDE DEF T, f
  <2> QED
    BY <1>1, <1>4, FS_Surjection
<1>6. Cardinality(Shown(e, N, c)) \in Nat
  BY <1>5, FS_CardinalityType
<1> QED
  BY <1>1, <1>3, <1>5, <1>6

(* Before the first position beyond the page, the page is not too long. *)
LEMMA PageFits ==
  ASSUME NEW e, NEW N \in Nat, NEW max \in Nat \ {0}, NEW c \in 0..N,
         \A i \in Beyond(e, N, max) : c < i
  PROVE  Cardinality(Shown(e, N, c)) <= max
<1> DEFINE T == New(e, N) \cap (1..c)
<1>1. Cardinality(T) <= max
  <2>1. CASE T = {}
    BY <2>1, FS_EmptySet
  <2>2. CASE T # {}
    <3>1. T \in SUBSET (0..c) /\ c \in Nat
      OBVIOUS
    <3>2. PICK i \in T : \A y \in T : y <= i
      <4> HIDE DEF T
      <4> QED
        BY <2>2, <3>1, GreatestElement
    <3>3. i \in 1..c /\ i \in New(e, N)
      OBVIOUS
    <3>4. T = New(e, N) \cap (1..i)
      <4>1. \A y \in 1..i : y \in 1..c
        BY <3>3
      <4>2. \A y \in T : y \in 1..i
        BY <3>2, <3>3
      <4> QED
        BY <4>1, <4>2
    <3>5. i \notin Beyond(e, N, max)
      BY <3>3
    <3>6. ~ (Cardinality(New(e, N) \cap (1..i)) > max)
      BY <3>3, <3>5 DEF Beyond
    <3>7. ~ (Cardinality(T) > max) /\ Cardinality(T) \in Nat
      BY <3>4, <3>6, NewFacts
    <3> HIDE DEF T
    <3> QED
      BY <3>7
  <2> QED
    BY <2>1, <2>2
<1>2. Cardinality(Shown(e, N, c)) <= Cardinality(T) /\ Cardinality(T) \in Nat
      /\ Cardinality(Shown(e, N, c)) \in Nat
  BY NewFacts
<1> HIDE DEF T
<1> QED
  BY <1>1, <1>2

(* Where the page is cut: at a new entry, behind the first row. *)
LEMMA CutFacts ==
  ASSUME NEW e, NEW N \in Nat, NEW max \in Nat \ {0}, Beyond(e, N, max) # {}
  PROVE  LET cut == CHOOSE i \in Beyond(e, N, max) : \A j \in Beyond(e, N, max) : i <= j
         IN /\ cut \in New(e, N) /\ cut \in 2..N
            /\ \A j \in Beyond(e, N, max) : cut <= j
<1> DEFINE B == Beyond(e, N, max)
           cut == CHOOSE i \in B : \A j \in B : i <= j
<1>1. \E m \in B : \A y \in B : m <= y
  <2>1. B \in SUBSET Nat
    BY DEF Beyond, New
  <2> HIDE DEF B
  <2> QED
    BY <2>1, LeastElement DEF B
<1>2. cut \in B /\ \A j \in B : cut <= j
  BY <1>1
<1> HIDE DEF cut
<1>3. cut \in New(e, N) /\ cut \in 1..N /\ Cardinality(New(e, N) \cap (1..cut)) > max
  BY <1>2 DEF Beyond, New
<1>4. ASSUME cut = 1
      PROVE  FALSE
  <2>1. New(e, N) \cap (1..cut) = {1}
    BY <1>3, <1>4
  <2> QED
    BY <1>3, <2>1, FS_Singleton
<1> QED
  BY <1>2, <1>3, <1>4 DEF cut

(* What is left to list of the keys that are there. *)
Left(q, after) ==
  {k \in present : StartsWith(k, q.prefix) /\ (after # << >> => Less(after, k))}

LEMMA QueryFacts ==
  ASSUME NEW q \in Queries
  PROVE  /\ q.prefix \in Seq(0..MaxByte) /\ q.prefix \in Seq(Nat)
         /\ q.after \in Seq(Nat) /\ q.max \in Nat \ {0}
<1>1. 0..MaxByte \subseteq Nat /\ q.prefix \in Seq(0..MaxByte)
  BY ListingAssumption
<1> QED
  BY <1>1, SeqMonotonic, ListingAssumption

LEMMA KeyFacts ==
  ASSUME NEW k \in Keys
  PROVE  k \in Seq(Nat) /\ Bytes(k) /\ k # << >>
  BY KeyspaceAssumption, ListingAssumption DEF Bytes

(* The SELECT returns what is left, in order. *)
LEMMA RowsFacts ==
  ASSUME present \in SUBSET Keys, NEW q \in Queries, NEW after
  PROVE  Rows(q.prefix, after) = Sorted(Left(q, after))
<1>1. ASSUME NEW k \in present
      PROVE  (q.prefix # << >> =>
                LET hi == prefixUpperBound(q.prefix)
                IN AtMost(q.prefix, k) /\ (hi # << >> => Less(k, hi)))
             <=> StartsWith(k, q.prefix)
  <2>1. CASE q.prefix # << >>
    BY <2>1, KeyFacts, QueryFacts, PrefixRange
  <2>2. CASE q.prefix = << >>
    <3>1. StartsWith(k, << >>)
      <4>1. << >> \in Seq(Nat) /\ Len(<< >>) = 0 /\ Len(k) \in Nat
        BY KeyFacts
      <4>2. SubSeq(k, 1, 0) = << >>
        BY KeyFacts
      <4> QED
        BY <4>1, <4>2 DEF StartsWith
    <3> QED
      BY <2>2, <3>1
  <2> QED
    BY <2>1, <2>2
<1> DEFINE A == {k \in present :
                   /\ after # << >> => Less(after, k)
                   /\ q.prefix # << >> =>
                        LET hi == prefixUpperBound(q.prefix)
                        IN AtMost(q.prefix, k) /\ (hi # << >> => Less(k, hi))}
<1>2. A = Left(q, after)
  BY <1>1, Zenon DEF Left
<1>3. Rows(q.prefix, after) = Sorted(A)
  BY DEF Rows
<1> QED
  BY <1>2, <1>3

(* A page shows the rows up to its cut, as many entries as asked for at most,
   and no entry of it is shown again by the rows behind. *)
LEMMA PageFacts ==
  ASSUME present \in SUBSET Keys, NEW q \in Queries, NEW after
  PROVE  LET page == ListObjectsPage(q, after)
             A == Left(q, after)
         IN /\ Cardinality(page.entries) <= q.max
            /\ page.truncated \in BOOLEAN
            /\ ~ page.truncated => page.entries = {Entry(q, k) : k \in A}
            /\ page.truncated =>
                 /\ page.next \in A
                 /\ page.entries = {Entry(q, k) : k \in {k \in A : AtMost(k, page.next)}}
                 /\ \A k \in A : Less(page.next, k) => Entry(q, k) \notin page.entries
<1> DEFINE A == Left(q, after)
           rows == Rows(q.prefix, after)
           N == Len(rows)
           entry == [i \in 1..N |-> Entry(q, rows[i])]
           B == Beyond(entry, N, q.max)
           cut == CHOOSE i \in B : \A j \in B : i <= j
           page == ListObjectsPage(q, after)
<1>1. page = IF B = {}
               THEN [entries |-> {entry[i] : i \in New(entry, N)}, truncated |-> FALSE,
                     next |-> << >>]
               ELSE [entries |-> Shown(entry, N, cut - 1), truncated |-> TRUE,
                     next |-> rows[cut - 1]]
  BY DEF ListObjectsPage, New, Beyond, Shown, Full, ResumePoint
<1>2. /\ A \in SUBSET Seq(Nat) /\ IsFiniteSet(A)
  <2>1. A \in SUBSET Keys
    BY DEF Left
  <2> HIDE DEF A
  <2> QED
    BY <2>1, KeyFacts, FS_Subset, KeyspaceAssumption
<1>3. /\ rows \in Seq(A) /\ N \in Nat
      /\ \A k \in A : \E i \in 1..N : rows[i] = k
      /\ \A i, j \in 1..N : i < j => Less(rows[i], rows[j])
  <2>1. rows = Sorted(A)
    BY RowsFacts
  <2> HIDE DEF A, rows
  <2>2. N = Cardinality(A) /\ N \in Nat
    BY <1>2, <2>1, SortedFacts, FS_CardinalityType
  <2> HIDE DEF N
  <2> QED
    BY <1>2, <2>1, <2>2, SortedFacts
<1> HIDE DEF A, rows
<1>4. \A i \in 1..N : rows[i] \in A /\ rows[i] \in Seq(Nat)
  BY <1>2, <1>3
<1> HIDE DEF N
<1>5. q.max \in Nat \ {0} /\ q.prefix \in Seq(Nat)
  BY QueryFacts
<1>6. \A i \in 1..N : entry[i] = Entry(q, rows[i])
  OBVIOUS
<1> HIDE DEF entry
<1>7. CASE B = {}
  <2>1. New(entry, N) \cap (1..N) = New(entry, N)
    BY DEF New
  <2>2. page.entries = Shown(entry, N, N) /\ page.truncated = FALSE
    BY <1>1, <1>7, <2>1 DEF Shown
  <2>3. N \in 0..N
    BY <1>3 DEF N
  <2>4. Shown(entry, N, N) = {entry[i] : i \in 1..N}
    <3>1. N \in Nat
      BY <1>3
    <3> HIDE DEF entry
    <3> QED
      BY <2>3, <3>1, NewFacts
  <2>5. Cardinality(Shown(entry, N, N)) <= q.max
    BY <1>3, <1>5, <1>7, <2>3, PageFits DEF N
  <2>6. {entry[i] : i \in 1..N} = {Entry(q, k) : k \in A}
    <3>1. \A i \in 1..N : \E k \in A : entry[i] = Entry(q, k)
      BY <1>4, <1>6
    <3>2. ASSUME NEW k \in A
          PROVE  \E i \in 1..N : entry[i] = Entry(q, k)
      <4>1. PICK i \in 1..N : rows[i] = k
        BY <1>3
      <4> QED
        BY <1>6, <4>1
    <3> QED
      BY <3>1, <3>2, Zenon
  <2> QED
    BY <2>2, <2>4, <2>5, <2>6 DEF A
<1>8. CASE B # {}
  <2>1. /\ cut \in New(entry, N) /\ cut \in 2..N /\ \A j \in B : cut <= j
    BY <1>3, <1>5, <1>8, CutFacts DEF N
  <2>2. /\ page.entries = Shown(entry, N, cut - 1) /\ page.truncated = TRUE
        /\ page.next = rows[cut - 1]
    BY <1>1, <1>8
  <2> HIDE DEF cut
  <2>3. cut - 1 \in 1..N /\ cut \in 1..N /\ cut - 1 \in 0..N /\ N \in Nat
    BY <1>3, <2>1 DEF N
  <2>4. Shown(entry, N, cut - 1) = {entry[i] : i \in 1..cut - 1}
    BY <2>3, NewFacts
  <2>5. Cardinality(Shown(entry, N, cut - 1)) <= q.max
    <3>1. \A i \in B : i \in Nat
      BY DEF Beyond, New
    <3>2. \A i \in B : cut - 1 < i
      <4> HIDE DEF B
      <4> QED
        BY <2>1, <2>3, <3>1
    <3> QED
      BY <1>5, <2>3, <3>2, PageFits
  <2> HIDE DEF B, page
  <2>6. ASSUME NEW k \in A
        PROVE  AtMost(k, rows[cut - 1]) <=> \E i \in 1..cut - 1 : rows[i] = k
    <3>1. PICK i \in 1..N : rows[i] = k
      BY <1>3 DEF N
    <3>2. CASE i <= cut - 1
      <4>1. i \in 1..cut - 1 /\ (i = cut - 1 \/ i < cut - 1)
        BY <2>3, <3>2
      <4>2. AtMost(k, rows[cut - 1])
        BY <1>3, <2>3, <3>1, <4>1 DEF AtMost, N
      <4> QED
        BY <3>1, <4>1, <4>2
    <3>3. CASE cut - 1 < i
      <4>1. Less(rows[cut - 1], k)
        BY <1>3, <2>3, <3>1, <3>3 DEF N
      <4>2. ~ AtMost(k, rows[cut - 1])
        BY <1>4, <2>3, <3>1, <4>1, LessAsymmetric
      <4>3. ASSUME NEW j \in 1..cut - 1, rows[j] = k
            PROVE  FALSE
        <5>1. j \in 1..N /\ j < i
          BY <2>3, <3>3
        <5>2. Less(k, k)
          BY <1>3, <3>1, <4>3, <5>1 DEF N
        <5> QED
          BY <1>4, <3>1, <5>2, LessIrreflexive
      <4> QED
        BY <4>2, <4>3
    <3> QED
      BY <2>3, <3>2, <3>3
  <2>7. {entry[i] : i \in 1..cut - 1} = {Entry(q, k) : k \in {k \in A : AtMost(k, rows[cut - 1])}}
    <3>1. \A i \in 1..cut - 1 : i \in 1..N
      BY <2>3
    <3> QED
      BY <1>4, <1>6, <2>6, <3>1
  <2>8. ASSUME NEW k \in A, Less(rows[cut - 1], k), NEW i \in 1..cut - 1,
               entry[i] = Entry(q, k)
        PROVE  FALSE
    <3>1. PICK j \in 1..N : rows[j] = k
      BY <1>3 DEF N
    <3>2. i \in 1..N /\ i < cut /\ i \in 1..cut - 1
      BY <2>3
    <3>3. cut <= j
      <4>1. ASSUME j \in 1..cut - 1
            PROVE  FALSE
        <5>1. AtMost(k, rows[cut - 1])
          BY <2>6, <3>1, <4>1
        <5> QED
          BY <1>4, <2>3, <2>8, <3>1, <5>1, LessAsymmetric
      <4> QED
        BY <2>3, <4>1
    <3>4. i < j /\ (cut = j \/ cut < j)
      BY <2>3, <3>2, <3>3
    <3>5. Less(rows[i], rows[j]) /\ AtMost(rows[i], rows[cut]) /\ AtMost(rows[cut], rows[j])
      BY <1>3, <2>3, <3>2, <3>4 DEF AtMost, N
    <3>6. Entry(q, rows[cut]) = Entry(q, rows[i])
      <4>1. Entry(q, rows[i]) = Entry(q, rows[j])
        BY <1>6, <2>8, <3>1, <3>2
      <4> QED
        BY <1>4, <1>5, <2>3, <3>2, <3>5, <4>1, EntryBetween
    <3>7. entry[i] = entry[cut]
      BY <1>6, <2>3, <3>2, <3>6
    <3> QED
      BY <2>1, <3>2, <3>7 DEF New
  <2>9. /\ page.next \in A
        /\ page.entries = {Entry(q, k) : k \in {k \in A : AtMost(k, page.next)}}
        /\ Cardinality(page.entries) <= q.max
    BY <1>4, <2>2, <2>3, <2>4, <2>5, <2>7
  <2>10. \A k \in A : Less(page.next, k) => Entry(q, k) \notin page.entries
    BY <2>2, <2>4, <2>8
  <2> QED
    BY <2>2, <2>9, <2>10 DEF A, page
<1> QED
  BY <1>7, <1>8

-----------------------------------------------------------------------------
(* The walk. *)

(* k comes after the cursor c. *)
AheadOf(c, k) == c # << >> => Less(c, k)
Seen(e) == \E i \in 1..Len(listed) : e \in listed[i]

(* The cursor is what the client asked to start after, or a key it asked for. *)
CursorInv ==
  /\ query \in Queries /\ lpc \in {"off", "page", "done"}
  /\ cursor.form \in {"raw", "token"}
  /\ cursor.key = query.after \/ (cursor.key \in Keys /\ Asked(cursor.key))

(* What the pages so far show is asked for, and fits. *)
PagesInv ==
  /\ listed \in Seq(SUBSET {Entry(query, k) : k \in {k \in Keys : Asked(k)}})
  /\ \A i \in 1..Len(listed) : Cardinality(listed[i]) <= query.max
  /\ changes = 0 => \A e : Seen(e) => e \in {Entry(query, k) : k \in present}

(* What stayed and is not ahead of the cursor has been shown. *)
SteadyInv ==
  \A k \in steady : Asked(k) /\ (lpc = "done" \/ ~ AheadOf(cursor.key, k)) =>
    Seen(Entry(query, k))

(* What is ahead of the cursor has not been shown, but for a common prefix
   under which a key was put. *)
AheadInv ==
  lpc = "page" =>
    /\ \A k \in present : Asked(k) /\ AheadOf(cursor.key, k) /\ Seen(Entry(query, k)) =>
         /\ Entry(query, k).kind = "prefix"
         /\ \E l \in put : Entry(query, l) = Entry(query, k)
    /\ \A k \in Keys : Seen(Contents(k)) => ~ AheadOf(cursor.key, k)

(* No key is on two pages, and a common prefix only if a key was put under it. *)
OnceInv ==
  \A i, j \in 1..Len(listed) : i < j =>
    \A e \in listed[i] \cap listed[j] :
      e.kind = "prefix" /\ \E k \in put : Entry(query, k) = e

(* The inductive invariant of the listing. *)
WInv == KeysTypeOK /\ CursorInv /\ PagesInv /\ SteadyInv /\ AheadInv /\ OnceInv

(* The keys of the next page. *)
LEMMA LeftFacts ==
  ASSUME present \in SUBSET Keys, CursorInv
  PROVE  Left(query, cursor.key) = {k \in present : Asked(k) /\ AheadOf(cursor.key, k)}
<1>1. ASSUME NEW k \in present, AheadOf(cursor.key, k), query.after # << >>
      PROVE  Less(query.after, k)
  <2>1. k \in Seq(Nat) /\ query.after \in Seq(Nat)
    BY KeyFacts, QueryFacts DEF CursorInv
  <2>2. CASE cursor.key = query.after
    BY <1>1, <2>2 DEF AheadOf
  <2>3. CASE cursor.key \in Keys /\ Asked(cursor.key)
    <3>1. cursor.key \in Seq(Nat) /\ Less(query.after, cursor.key) /\ Less(cursor.key, k)
      BY <1>1, <2>3, KeyFacts DEF AheadOf, Asked
    <3> QED
      BY <2>1, <3>1, LessTransitive
  <2> QED
    BY <2>2, <2>3 DEF CursorInv
<1>2. ASSUME NEW k \in present
      PROVE  StartsWith(k, query.prefix) /\ (cursor.key # << >> => Less(cursor.key, k))
             <=> Asked(k) /\ AheadOf(cursor.key, k)
  BY <1>1 DEF Asked, AheadOf
<1> QED
  BY <1>2, Zenon DEF Left

(* The client's cursor is the key the page says. *)
LEMMA WireFacts ==
  ASSUME CursorInv, NEW x
  PROVE  /\ ClientDecodes(NextCursor(query, x)).key = x
         /\ ClientDecodes(NextCursor(query, x)).form \in {"raw", "token"}
         /\ ClientDecodes(Encoded(query, x)).key = x
         /\ ClientDecodes(Encoded(query, x)).form \in {"raw", "token"}
         /\ resumeAfter(cursor) = cursor.key
  BY DEF CursorInv, ClientDecodes, NextCursor, Encoded, encodeListToken, Wire, resumeAfter,
     decodeListToken

(* One page. *)
LEMMA PageStep ==
  ASSUME WInv, lpc = "page", NEW c, ClientDecodes(c).form \in {"raw", "token"},
         ClientDecodes(c).key = ListObjectsPage(query, cursor.key).next,
         ServePage(ListObjectsPage(query, cursor.key), c)
  PROVE  WInv'
<1> DEFINE page == ListObjectsPage(query, cursor.key)
           A == Left(query, cursor.key)
           E == {Entry(query, k) : k \in {k \in Keys : Asked(k)}}
<1>1. /\ present \in SUBSET Keys /\ steady \subseteq present /\ query \in Queries
      /\ query.prefix \in Seq(Nat) /\ query.after \in Seq(Nat) /\ changes \in Nat
  BY QueryFacts, KeyspaceAssumption DEF WInv, KeysTypeOK, CursorInv
<1>2. /\ UNCHANGED <<query, present, changes, steady, put>>
      /\ listed' = Append(listed, page.entries)
      /\ lpc' = IF page.truncated THEN "page" ELSE "done"
      /\ page.truncated => cursor'.form \in {"raw", "token"} /\ cursor'.key = page.next
      /\ ~ page.truncated => cursor' = cursor
  BY DEF ServePage, keyVars
<1>3. /\ Cardinality(page.entries) <= query.max
      /\ page.truncated \in BOOLEAN
      /\ ~ page.truncated => page.entries = {Entry(query, k) : k \in A}
      /\ page.truncated =>
           /\ page.next \in A
           /\ page.entries = {Entry(query, k) : k \in {k \in A : AtMost(k, page.next)}}
           /\ \A k \in A : Less(page.next, k) => Entry(query, k) \notin page.entries
  BY <1>1, PageFacts
<1>4. A = {k \in present : Asked(k) /\ AheadOf(cursor.key, k)}
  BY <1>1, LeftFacts DEF WInv
<1> HIDE DEF page, A
<1>5. \A k : Asked(k)' <=> Asked(k)
  BY <1>2 DEF Asked
<1>6. \A k \in A : k \in Keys /\ k \in Seq(Nat) /\ k # << >> /\ Asked(k) /\ k \in present
                   /\ AheadOf(cursor.key, k)
  BY <1>1, <1>4, KeyFacts
<1>7. \A e \in page.entries : \E k \in A : e = Entry(query, k)
  BY <1>3
<1>8. page.entries \in SUBSET E
  BY <1>6, <1>7
<1>9. /\ listed \in Seq(SUBSET E) /\ listed' \in Seq(SUBSET E)
      /\ Len(listed) \in Nat /\ Len(listed') = Len(listed) + 1
      /\ \A i \in 1..Len(listed) : listed'[i] = listed[i]
      /\ listed'[Len(listed) + 1] = page.entries
  <2>1. listed \in Seq(SUBSET E)
    BY DEF WInv, PagesInv
  <2> HIDE DEF E
  <2> QED
    BY <1>2, <1>8, <2>1, AppendProperties
<1>10. \A e : Seen(e)' <=> Seen(e) \/ e \in page.entries
  <2>1. \A i : i \in 1..Len(listed) + 1 <=> i \in 1..Len(listed) \/ i = Len(listed) + 1
    BY <1>9
  <2> QED
    BY <1>9, <2>1, Zenon DEF Seen
<1> HIDE DEF E
<1>11. KeysTypeOK'
  BY <1>2 DEF WInv, KeysTypeOK
<1>12. CursorInv'
  BY <1>2, <1>3, <1>5, <1>6 DEF WInv, CursorInv
<1>13. PagesInv'
  <2>1. \A i \in 1..Len(listed') : Cardinality(listed'[i]) <= query'.max
    <3> SUFFICES ASSUME NEW i \in 1..Len(listed')
                 PROVE  Cardinality(listed'[i]) <= query.max
      BY <1>2
    <3>1. i \in 1..Len(listed) \/ i = Len(listed) + 1
      BY <1>9
    <3> QED
      BY <1>3, <1>9, <3>1 DEF WInv, PagesInv
  <2>2. ASSUME changes = 0, NEW e, Seen(e) \/ e \in page.entries
        PROVE  e \in {Entry(query, k) : k \in present}
    BY <1>6, <1>7, <2>2 DEF WInv, PagesInv
  <2>3. E' = E
    BY <1>2, <1>5 DEF E
  <2> QED
    BY <1>2, <1>9, <1>10, <2>1, <2>2, <2>3 DEF PagesInv, E
<1>14. ASSUME page.truncated, NEW k \in Keys
       PROVE  /\ AheadOf(page.next, k) <=> Less(page.next, k)
              /\ Less(page.next, k) => AheadOf(cursor.key, k)
              /\ ~ Less(page.next, k) <=> AtMost(k, page.next)
  <2>1. page.next \in Seq(Nat) /\ page.next # << >> /\ AheadOf(cursor.key, page.next)
    BY <1>3, <1>6, <1>14
  <2>2. k \in Seq(Nat) /\ cursor.key \in Seq(Nat)
    BY <1>1, KeyFacts DEF WInv, CursorInv
  <2>3. AheadOf(page.next, k) <=> Less(page.next, k)
    BY <2>1 DEF AheadOf
  <2>4. Less(page.next, k) => AheadOf(cursor.key, k)
    BY <2>1, <2>2, LessTransitive DEF AheadOf
  <2>5. ~ Less(page.next, k) <=> AtMost(k, page.next)
    BY <2>1, <2>2, LessTotal, LessAsymmetric DEF AtMost
  <2> QED
    BY <2>3, <2>4, <2>5
<1>15. SteadyInv'
  <2> SUFFICES ASSUME NEW k \in steady, Asked(k),
                      lpc' = "done" \/ ~ AheadOf(cursor'.key, k)
               PROVE  Seen(Entry(query, k)) \/ Entry(query, k) \in page.entries
    BY <1>2, <1>5, <1>10 DEF SteadyInv
  <2>1. k \in present /\ k \in Keys
    BY <1>1
  <2>2. CASE ~ AheadOf(cursor.key, k)
    BY <2>2 DEF WInv, SteadyInv
  <2>3. CASE AheadOf(cursor.key, k)
    <3>1. k \in A
      BY <1>4, <2>1, <2>3
    <3>2. CASE ~ page.truncated
      BY <1>3, <3>1, <3>2
    <3>3. CASE page.truncated
      <4>1. ~ AheadOf(page.next, k)
        BY <1>2, <3>3
      <4>2. AtMost(k, page.next)
        BY <1>14, <2>1, <3>3, <4>1
      <4> QED
        BY <1>3, <3>1, <3>3, <4>2
    <3> QED
      BY <3>2, <3>3
  <2> QED
    BY <2>2, <2>3
<1>16. AheadInv'
  <2> SUFFICES ASSUME page.truncated
               PROVE  AheadInv'
    BY <1>2, <1>3 DEF AheadInv
  <2>1. cursor'.key = page.next
    BY <1>2
  <2>2. ASSUME NEW k \in present, Asked(k), AheadOf(page.next, k),
               Seen(Entry(query, k)) \/ Entry(query, k) \in page.entries
        PROVE  /\ Entry(query, k).kind = "prefix"
               /\ \E l \in put : Entry(query, l) = Entry(query, k)
    <3>1. k \in Keys /\ Less(page.next, k) /\ AheadOf(cursor.key, k)
      BY <1>1, <1>14, <2>2
    <3>2. k \in A
      BY <1>4, <2>2, <3>1
    <3>3. Entry(query, k) \notin page.entries
      BY <1>3, <3>1, <3>2
    <3> QED
      BY <2>2, <3>1, <3>3 DEF WInv, AheadInv
  <2>3. ASSUME NEW k \in Keys, Seen(Contents(k)) \/ Contents(k) \in page.entries
        PROVE  ~ AheadOf(page.next, k)
    <3>1. CASE Seen(Contents(k))
      BY <1>14, <3>1 DEF WInv, AheadInv
    <3>2. CASE Contents(k) \in page.entries
      <4>1. PICK m \in A : Contents(k) = Entry(query, m) /\ AtMost(m, page.next)
        BY <1>3, <3>2
      <4>2. m \in Seq(Nat)
        BY <1>6
      <4>3. Entry(query, m) = Contents(m)
        <5>1. ASSUME Entry(query, m) # Contents(m)
              PROVE  FALSE
          <6>1. PICK p \in Seq(Nat) : Entry(query, m) = CommonPrefix(p)
            BY <1>1, <4>2, <5>1, SamePrefix
          <6> QED
            BY <4>1, <6>1, EntryKinds, Zenon
        <5> QED
          BY <5>1
      <4>4. m = k
        BY <4>1, <4>3, EntryKinds, Zenon
      <4> QED
        BY <1>14, <4>1, <4>4
    <3> QED
      BY <2>3, <3>1, <3>2
  <2> QED
    BY <1>2, <1>5, <1>10, <2>1, <2>2, <2>3 DEF AheadInv
<1>17. OnceInv'
  <2> SUFFICES ASSUME NEW i \in 1..Len(listed'), NEW j \in 1..Len(listed'), i < j,
                      NEW e \in listed'[i] \cap listed'[j]
               PROVE  e.kind = "prefix" /\ \E k \in put : Entry(query, k) = e
    BY <1>2 DEF OnceInv
  <2>1. i \in 1..Len(listed) /\ (j \in 1..Len(listed) \/ j = Len(listed) + 1)
    BY <1>9
  <2>2. CASE j \in 1..Len(listed)
    BY <1>9, <2>1, <2>2 DEF WInv, OnceInv
  <2>3. CASE j = Len(listed) + 1
    <3>1. e \in listed[i] /\ e \in page.entries
      BY <1>9, <2>1, <2>3
    <3>2. PICK k \in A : e = Entry(query, k)
      BY <1>7, <3>1
    <3>3. Seen(Entry(query, k)) /\ k \in present /\ Asked(k) /\ AheadOf(cursor.key, k)
      BY <1>6, <2>1, <3>1, <3>2 DEF Seen
    <3> QED
      BY <3>2, <3>3 DEF WInv, AheadInv
  <2> QED
    BY <2>1, <2>2, <2>3
<1> QED
  BY <1>11, <1>12, <1>13, <1>15, <1>16, <1>17 DEF WInv

(* A key comes or goes. *)
LEMMA ChangeStep ==
  ASSUME WInv, UNCHANGED listVars, NEW k \in Keys, PutKey(k) \/ DeleteKey(k)
  PROVE  WInv'
<1>1. /\ UNCHANGED <<query, cursor, listed, lpc>>
      /\ (\A e : Seen(e)' <=> Seen(e)) /\ (\A l : Asked(l)' <=> Asked(l))
  BY DEF listVars, Seen, Asked
<1>2. /\ changes \in Nat /\ changes' = changes + 1 /\ changes' # 0
      /\ steady' \subseteq steady /\ put \subseteq put'
      /\ present' \subseteq present \cup {k} /\ (k \in present' => k \in put')
      /\ query \in Queries /\ query.prefix \in Seq(Nat)
  BY QueryFacts, KeyspaceAssumption DEF PutKey, DeleteKey, WInv, KeysTypeOK, CursorInv
<1>3. KeysTypeOK'
  BY KeyspaceAssumption DEF PutKey, DeleteKey, WInv, KeysTypeOK
<1>4. CursorInv'
  BY <1>1 DEF WInv, CursorInv
<1>5. PagesInv'
  <2>1. {Entry(query, l) : l \in {l \in Keys : Asked(l)}}'
          = {Entry(query, l) : l \in {l \in Keys : Asked(l)}}
    BY <1>1
  <2> QED
    BY <1>1, <1>2, <2>1 DEF WInv, PagesInv
<1>6. SteadyInv'
  BY <1>1, <1>2 DEF WInv, SteadyInv
<1>7. AheadInv'
  <2> SUFFICES ASSUME lpc = "page"
               PROVE  AheadInv'
    BY <1>1 DEF AheadInv
  <2>1. ASSUME Asked(k), AheadOf(cursor.key, k), Seen(Entry(query, k))
        PROVE  Entry(query, k).kind = "prefix"
    <3>1. Entry(query, k) # Contents(k)
      BY <2>1 DEF WInv, AheadInv
    <3>2. PICK p \in Seq(Nat) : Entry(query, k) = CommonPrefix(p)
      BY <1>2, <3>1, KeyFacts, SamePrefix
    <3> QED
      BY <3>2 DEF CommonPrefix
  <2>2. ASSUME NEW l \in present', Asked(l), AheadOf(cursor.key, l), Seen(Entry(query, l))
        PROVE  /\ Entry(query, l).kind = "prefix"
               /\ \E m \in put' : Entry(query, m) = Entry(query, l)
    <3>1. CASE l = k
      BY <1>2, <2>1, <2>2, <3>1
    <3>2. CASE l \in present
      BY <1>2, <2>2, <3>2 DEF WInv, AheadInv
    <3> QED
      BY <1>2, <3>1, <3>2
  <2>3. \A l \in Keys : Seen(Contents(l)) => ~ AheadOf(cursor.key, l)
    BY DEF WInv, AheadInv
  <2> QED
    BY <1>1, <2>2, <2>3 DEF AheadInv
<1>8. OnceInv'
  BY <1>1, <1>2 DEF WInv, OnceInv
<1> QED
  BY <1>3, <1>4, <1>5, <1>6, <1>7, <1>8 DEF WInv

(* The sweep of all objects stays inside the list. *)
SInv == SweepTypeOK /\ (spc = "on" => lpc = "off") /\ (lpc = "off" => listed = << >>)

LEMMA WalkInit == Init => WInv /\ SInv
<1> SUFFICES ASSUME Init PROVE WInv /\ SInv
  OBVIOUS
<1>1. PICK walk \in {"list", "sweep", "get"} :
        /\ ListInit(walk = "list") /\ SweepInit(walk = "sweep")
        /\ IF walk = "get" THEN present = {} /\ changes = 0 /\ steady = {} /\ put = {}
                            ELSE KeysInit
  BY DEF Init
<1>2. KeysTypeOK /\ changes = 0
  BY <1>1, KeyspaceAssumption DEF KeysInit, KeysTypeOK
<1>3. /\ query \in Queries /\ cursor.form = "raw" /\ cursor.key = query.after
      /\ listed = << >> /\ lpc \in {"off", "page", "done"} /\ lpc # "done"
      /\ spc = "on" => lpc = "off"
  <2>1. (CHOOSE q \in Queries : TRUE) \in Queries
    BY ListingAssumption
  <2> QED
    BY <1>1, <2>1 DEF ListInit, SweepInit, Wire
<1>4. Len(listed) = 0 /\ (\A e : ~ Seen(e)) /\ 1..Len(listed) = {}
  BY <1>3 DEF Seen
<1>5. CursorInv
  BY <1>3 DEF CursorInv
<1>6. PagesInv
  <2>1. listed \in Seq(SUBSET {Entry(query, k) : k \in {k \in Keys : Asked(k)}})
    BY <1>3
  <2> QED
    BY <1>4, <2>1 DEF PagesInv
<1>7. SteadyInv
  BY <1>3 DEF SteadyInv, Asked, AheadOf
<1>8. AheadInv /\ OnceInv
  BY <1>4 DEF AheadInv, OnceInv
<1>9. SInv
  <2>1. Cardinality(Keys) \in Nat
    BY KeyspaceAssumption, FS_CardinalityType
  <2> QED
    BY <1>1, <1>3, <2>1 DEF SInv, SweepInit, SweepTypeOK
<1> QED
  BY <1>2, <1>5, <1>6, <1>7, <1>8, <1>9 DEF WInv

(* A tick of the sweep visits keys that exist, from a position in the list. *)
LEMMA TickStep ==
  ASSUME KeysTypeOK, SweepTypeOK, RunOnce
  PROVE  SweepTypeOK'
<1> DEFINE keys == Sorted(present)
           n == Len(keys)
           start == scursor % n
<1>1. /\ present \in SUBSET Keys /\ present \in SUBSET Seq(Nat) /\ IsFiniteSet(present)
      /\ Cardinality(Keys) \in Nat /\ Cardinality(present) <= Cardinality(Keys)
      /\ Cardinality(present) \in Nat /\ Sample \in Nat /\ scursor \in Nat
  <2>1. present \in SUBSET Keys /\ IsFiniteSet(Keys) /\ present \in SUBSET Seq(Nat)
    BY KeyFacts, KeyspaceAssumption DEF KeysTypeOK
  <2>2. IsFiniteSet(present) /\ Cardinality(present) <= Cardinality(Keys)
    BY <2>1, FS_Subset
  <2>3. Cardinality(Keys) \in Nat /\ Cardinality(present) \in Nat
    BY <2>1, <2>2, FS_CardinalityType
  <2> QED
    BY <2>1, <2>2, <2>3, SampleAssumption DEF SweepTypeOK
<1>2. keys \in Seq(present) /\ n = Cardinality(present)
  BY <1>1, SortedFacts
<1>3. CASE Sample = 0 \/ Sample >= n
  BY <1>1, <1>3 DEF RunOnce, SweepTypeOK
<1>4. CASE ~ (Sample = 0 \/ Sample >= n)
  <2>1. /\ visited' = {keys[((start + i) % n) + 1] : i \in 0..Sample - 1}
        /\ scursor' = (start + Sample) % n /\ spc' = spc
    BY <1>4 DEF RunOnce
  <2> HIDE DEF keys
  <2>2. n \in Nat \ {0}
    BY <1>1, <1>2, <1>4
  <2>3. \A a \in Nat : a % n \in 0..n - 1
    <3> HIDE DEF n
    <3> QED
      BY <2>2
  <2>4. start \in Nat
    BY <1>1, <2>2, <2>3
  <2> HIDE DEF start
  <2>5. ASSUME NEW i \in 0..Sample - 1
        PROVE  keys[((start + i) % n) + 1] \in Keys
    <3>1. start + i \in Nat
      BY <1>1, <2>4
    <3>2. (start + i) % n \in 0..n - 1
      BY <2>3, <3>1
    <3>3. \A a \in 0..n - 1 : a + 1 \in 1..n
      BY <2>2
    <3>4. ((start + i) % n) + 1 \in 1..n
      BY <3>2, <3>3
    <3>5. \A a \in 1..n : keys[a] \in present
      BY <1>2
    <3> QED
      BY <1>1, <3>4, <3>5
  <2>6. (start + Sample) % n \in 0..Cardinality(Keys)
    <3>1. start + Sample \in Nat
      BY <1>1, <2>4
    <3>2. (start + Sample) % n \in 0..n - 1
      BY <2>3, <3>1
    <3>3. \A a \in 0..n - 1 : a \in 0..Cardinality(Keys)
      BY <1>1, <1>2, <2>2
    <3> QED
      BY <3>2, <3>3
  <2> QED
    BY <2>1, <2>5, <2>6 DEF SweepTypeOK
<1> QED
  BY <1>3, <1>4

(* The walks keep their invariants, and the downloads leave their state alone. *)
LEMMA WalkInvariance == Spec => [](WInv /\ SInv)
<1>1. WInv /\ SInv /\ [Next]_vars => WInv' /\ SInv'
  <2> SUFFICES ASSUME WInv, SInv, [Next]_vars
               PROVE  WInv' /\ SInv'
    OBVIOUS
  <2>1. ASSUME UNCHANGED <<keyVars, listVars>>
        PROVE  WInv'
    <3>1. UNCHANGED <<present, changes, steady, put, query, cursor, listed, lpc>>
      BY <2>1 DEF keyVars, listVars
    <3>2. (\A e : Seen(e)' <=> Seen(e)) /\ (\A l : Asked(l)' <=> Asked(l))
      BY <3>1 DEF Seen, Asked
    <3>3. KeysTypeOK' /\ CursorInv' /\ SteadyInv'
      BY <3>1, <3>2 DEF WInv, KeysTypeOK, CursorInv, SteadyInv
    <3>4. PagesInv'
      <4>1. {Entry(query, l) : l \in {l \in Keys : Asked(l)}}'
              = {Entry(query, l) : l \in {l \in Keys : Asked(l)}}
        BY <3>1, <3>2
      <4> QED
        BY <3>1, <3>2, <4>1 DEF WInv, PagesInv
    <3>5. AheadInv' /\ OnceInv'
      BY <3>1, <3>2 DEF WInv, AheadInv, OnceInv
    <3> QED
      BY <3>3, <3>4, <3>5 DEF WInv
  <2>2. ASSUME UNCHANGED <<listVars, sweepVars>>
        PROVE  SInv'
    BY <2>2 DEF SInv, SweepTypeOK, sweepVars, listVars
  <2>3. CASE Listings
    <3>1. PICK c : /\ ClientDecodes(c).form \in {"raw", "token"}
                   /\ ClientDecodes(c).key = ListObjectsPage(query, cursor.key).next
                   /\ ServePage(ListObjectsPage(query, cursor.key), c)
                   /\ lpc = "page"
      <4>1. CASE listObjects
        BY <4>1, WireFacts DEF WInv, listObjects
      <4>2. CASE listObjectVersions
        BY <4>2, WireFacts DEF WInv, listObjectVersions
      <4> QED
        BY <2>3, <4>1, <4>2 DEF Listings
    <3>2. WInv'
      BY <3>1, PageStep
    <3>3. SInv'
      <4>1. lpc' \in {"page", "done"} /\ spc # "on" /\ UNCHANGED sweepVars
        BY <2>3, <3>1 DEF ServePage, Listings, SInv
      <4> QED
        BY <4>1 DEF SInv, SweepTypeOK, sweepVars
    <3> QED
      BY <3>2, <3>3
  <2>4. CASE Sweeps
    <3>1. spc = "on" /\ lpc = "off" /\ listed = << >> /\ UNCHANGED listVars /\ spc' = spc
      BY <2>4 DEF Sweeps, RunOnce, RunOnceFails, Restart, SInv
    <3>2. CASE RunOnce
      <4>1. SweepTypeOK'
        BY <3>2, TickStep DEF WInv, SInv
      <4> QED
        BY <2>1, <3>1, <3>2, <4>1 DEF RunOnce, SInv, listVars
    <3>3. CASE RunOnceFails
      BY <2>1, <3>1, <3>3 DEF RunOnceFails, SInv, SweepTypeOK, listVars
    <3>4. CASE Restart
      <4>1. SInv'
        <5>1. 0 \in 0..Cardinality(Keys)
          BY KeyspaceAssumption, FS_CardinalityType
        <5> QED
          BY <3>1, <3>4, <5>1 DEF Restart, SInv, SweepTypeOK, listVars
      <4>2. UNCHANGED <<present, steady, put, query, cursor, listed, lpc>>
        BY <3>1, <3>4 DEF Restart, listVars
      <4>3. changes' \in 0..MaxChanges
        BY <3>4, KeyspaceAssumption DEF Restart, WInv, KeysTypeOK
      <4>4. Len(listed') = 0 /\ (\A e : ~ Seen(e)') /\ (\A l : Asked(l)' <=> Asked(l))
        BY <3>1, <4>2 DEF Seen, Asked
      <4>5. KeysTypeOK' /\ CursorInv' /\ SteadyInv'
        <5>1. (\A e : ~ Seen(e))
          BY <3>1 DEF Seen
        <5> QED
          BY <4>2, <4>3, <4>4, <5>1 DEF WInv, KeysTypeOK, CursorInv, SteadyInv
      <4>6. PagesInv'
        <5>1. listed' \in Seq(SUBSET {Entry(query, k) : k \in {k \in Keys : Asked(k)}}')
          BY <3>1, <4>2
        <5> QED
          BY <4>4, <5>1 DEF PagesInv
      <4>7. AheadInv' /\ OnceInv'
        BY <4>4 DEF AheadInv, OnceInv
      <4> QED
        BY <4>1, <4>5, <4>6, <4>7 DEF WInv
    <3> QED
      BY <2>4, <3>2, <3>3, <3>4 DEF Sweeps
  <2>5. CASE Changes
    BY <2>2, <2>5, ChangeStep DEF Changes
  <2>6. CASE UNCHANGED <<keyVars, listVars, sweepVars>>
    BY <2>1, <2>2, <2>6
  <2> QED
    BY <2>3, <2>4, <2>5, <2>6 DEF Next, Downloads, vars
<1> QED
  BY <1>1, WalkInit, PTL DEF Spec

(* A client that follows the cursors of listObjects or listObjectVersions, with
   pages of any size over a bucket of any keys that changes meanwhile, is shown
   every key that stayed, nothing it did not ask for, no key twice, and a common
   prefix twice only if a key was put under it: ListObjectsPage cuts its rows at
   a point from which the next page neither repeats nor skips. *)
THEOREM WalksFaithful == Spec => []WalkIsFaithful
<1>1. WInv => WalkIsFaithful
  <2> SUFFICES ASSUME WInv PROVE WalkIsFaithful
    OBVIOUS
  <2>1. \A e : e \in Listed <=> Seen(e)
    BY Zenon DEF Listed, Seen
  <2>2. lpc = "done" => {Entry(query, k) : k \in {k \in steady : Asked(k)}} \subseteq Listed
    BY <2>1 DEF WInv, SteadyInv
  <2>3. Listed \subseteq {Entry(query, k) : k \in {k \in Keys : Asked(k)}}
    <3> DEFINE E == {Entry(query, k) : k \in {k \in Keys : Asked(k)}}
    <3>1. listed \in Seq(SUBSET E)
      BY DEF WInv, PagesInv
    <3> HIDE DEF E
    <3>2. \A i \in 1..Len(listed) : listed[i] \in SUBSET E
      BY <3>1
    <3>3. \A e : Seen(e) => e \in E
      BY <3>2 DEF Seen
    <3> QED
      BY <2>1, <3>3 DEF E
  <2>4. changes = 0 => Listed \subseteq {Entry(query, k) : k \in present}
    BY <2>1 DEF WInv, PagesInv
  <2> QED
    BY <2>2, <2>3, <2>4 DEF WInv, OnceInv, WalkIsFaithful
<1> QED
  BY <1>1, WalkInvariance, PTL

(* Type correctness of the walks.  It needs both invariants: a cursor that goes
   over the wire stays a key of the bucket or the start of the walk, a page has
   at most max entries, and what a download records are bytes of versions there
   are. *)
THEOREM TypeCorrect == Spec => []TypeOK
<1>1. WInv /\ SInv /\ GInv => TypeOK
  <2> SUFFICES ASSUME WInv, SInv, GInv PROVE TypeOK
    OBVIOUS
  <2>1. KeysTypeOK /\ SweepTypeOK
    BY DEF WInv, SInv
  <2>2. ListTypeOK
    BY DEF WInv, CursorInv, PagesInv, ListTypeOK
  <2>3. GetTypeOK
    BY DEF GInv, VersionInv, FileInv, GetTypeOK
  <2> QED
    BY <2>1, <2>2, <2>3 DEF TypeOK
<1> QED
  BY <1>1, WalkInvariance, Invariance, PTL
=============================================================================
