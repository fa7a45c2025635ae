-------------------------- MODULE Multipart_proofs --------------------------
(***************************************************************************)
(* Proofs about Multipart, for any requests, part numbers and faults: the  *)
(* inductive invariant IInv and the safety properties it implies.          *)
(***************************************************************************)
EXTENDS Multipart, TLAPS

(* A part upload that wrote its row, if it ever does: it will not again. *)
Landed(p) == pc[p] \in {"reap", "done", "crashed"}

(* A row names a part upload of its number, which has written it. *)
RowInv ==
  /\ \A n \in Parts : part[n] # None => PartNo[part[n]] = n /\ Landed(part[n])
  /\ \A p \in PartPuts : pc[p] \in {"old", "commit"} => p \in hosted

(* What a part upload reaps was a row of the same part, and once the upload
   has replaced that row the blob is in no row any more. *)
PartReapInv ==
  \A p \in PartPuts :
    /\ \A b \in old[p] : b \in PartPuts /\ PartNo[b] = PartNo[p] /\ Landed(b)
    /\ pc[p] \in {"idle", "upload", "old"} => old[p] = {}
    /\ pc[p] = "reap" => part[PartNo[p]] \notin old[p]

(* The parts that a completion collected were rows; the object's are none. *)
ObjectInv ==
  /\ \A c \in Completes, n \in Parts : got[c][n] # None =>
       PartNo[got[c][n]] = n /\ Landed(got[c][n])
  /\ \A c \in Completes : obj = c =>
       /\ Landed(c)
       /\ \A n, m \in Parts : got[c][n] # None => part[m] # got[c][n]

(* What a completion reaps is Old or was part of an object, and in no row. *)
ObjectReapInv ==
  \A c \in Completes :
    /\ \A b \in old[c] \ {Old} :
         b \in PartPuts /\ Landed(b) /\ \A n \in Parts : part[n] # b
    /\ pc[c] = "reap" => obj # Old

(* An abort or a janitor pass reads the blobs it purges once. *)
AbortInv ==
  \A a \in Aborts \cup Janitors :
    /\ pc[a] \in {"idle", "chunks"} => old[a] = {}
    /\ \A b \in old[a] : b \in PartPuts /\ Landed(b)

(* Until an undisturbed completion commits, the rows are those it listed, and
   they are what it collects. *)
ListedInv ==
  \A c \in Completes \ disturbed :
    /\ pc[c] \in {"idle", "list"} => read[c] = {}
    /\ read[c] \subseteq Listed(c)
    /\ Assembling(c) =>
          /\ Valid(c, part)
          /\ \A n \in read[c] : got[c][n] = part[n] /\ sized[c][n] = part[n]
    /\ pc[c] = "reps" => \A n \in Parts : NextPart(c, n) => sized[c][n] = part[n]
    /\ pc[c] = "finalize" => read[c] = Listed(c)

(* After it, nobody who may still reap has its parts on the list. *)
KeptInv ==
  \A c \in Completes \ disturbed : obj = c =>
    \A n \in Listed(c), q \in PartPuts \cup Completes :
      pc[q] = "reap" => got[c][n] \notin old[q]

IInv ==
  /\ TypeOK /\ RowInv /\ PartReapInv /\ ObjectInv /\ ObjectReapInv /\ AbortInv
  /\ ListedInv /\ KeptInv
  /\ PreviousVersionIntact /\ PartRowsAreStored /\ UndisturbedCompletionIsExact

-----------------------------------------------------------------------------
(* A step that only moves one process on, before it has written any row, and
   at most adds to what is hosted. *)
ControlStep(q, l) ==
  /\ pc' = [pc EXCEPT ![q] = l] /\ ~ Landed(q)
  /\ l \in {"upload", "list", "chunks", "old", "parts", "cleanup", "failed"}
  /\ l \in {"upload", "list", "chunks"} => pc[q] = "idle"
  /\ l = "old" => pc[q] = "upload" /\ q \in hosted'
  /\ l = "parts" => pc[q] = "list" /\ q \in Completes /\ Valid(q, part)
  /\ hosted \subseteq hosted' /\ hosted' \subseteq Blobs
  /\ UNCHANGED <<upload, part, obj, read, sized, got, old, gone, disturbed>>

LEMMA ControlStepKeeps ==
  ASSUME IInv, NEW q \in Procs, NEW l, ControlStep(q, l)
  PROVE  IInv'
<1> USE MultipartAssumption DEF Requests, Procs, Blobs, Final, Landed
<1>1. TypeOK'
  BY DEF ControlStep, IInv, TypeOK
<1>2. /\ \A x \in Procs \ {q} : pc'[x] = pc[x]
      /\ pc'[q] = l
      /\ l \notin {"reap", "done", "crashed", "reps", "finalize", "commit", "idle"}
  BY DEF ControlStep, IInv, TypeOK
<1>3. \A x \in Procs : Landed(x)' <=> Landed(x)
  BY <1>2 DEF ControlStep
<1>4. /\ l \in {"upload", "list", "chunks"} => pc[q] = "idle"
      /\ l = "old" => pc[q] = "upload" /\ q \in hosted'
      /\ l = "parts" => pc[q] = "list" /\ q \in Completes /\ Valid(q, part)
      /\ hosted \subseteq hosted'
  BY DEF ControlStep
<1>5. UNCHANGED <<upload, part, obj, read, sized, got, old, gone, disturbed>>
  BY DEF ControlStep
<1>6. \A n \in Parts : part[n] \in PartPuts \cup {None}
  BY DEF IInv, TypeOK
<1>7. \A c \in Completes, n \in Parts : got[c][n] \in PartPuts \cup {None}
  BY DEF IInv, TypeOK
<1>8. RowInv /\ PartReapInv /\ ObjectInv /\ ObjectReapInv /\ AbortInv /\ ListedInv
      /\ KeptInv /\ PreviousVersionIntact /\ PartRowsAreStored
      /\ UndisturbedCompletionIsExact
  BY DEF IInv
<1> HIDE DEF Landed
<1>9. RowInv'
  BY <1>2, <1>3, <1>4, <1>5, <1>6, <1>8 DEF RowInv
<1>10. PartReapInv'
  BY <1>2, <1>3, <1>4, <1>5, <1>8 DEF PartReapInv
<1>11. ObjectInv'
  BY <1>3, <1>5, <1>7, <1>8 DEF ObjectInv
<1>12. ObjectReapInv'
  BY <1>2, <1>3, <1>5, <1>8 DEF ObjectReapInv
<1>13. AbortInv'
  BY <1>2, <1>3, <1>4, <1>5, <1>8 DEF AbortInv
<1>14. ListedInv'
  <2>1. \A c \in Completes, n \in Parts : NextPart(c, n)' <=> NextPart(c, n)
    BY <1>5 DEF NextPart, Listed
  <2>2. \A c \in Completes : Valid(c, part)' <=> Valid(c, part)
    BY <1>5 DEF Valid, Listed
  <2> QED
    BY <1>2, <1>4, <1>5, <1>8, <2>1, <2>2 DEF ListedInv, Assembling, Listed
<1>15. KeptInv'
  BY <1>2, <1>5, <1>8 DEF KeptInv, Listed
<1>16. PreviousVersionIntact' /\ PartRowsAreStored'
  BY <1>4, <1>5, <1>8 DEF PreviousVersionIntact, PartRowsAreStored, Purged
<1>17. UndisturbedCompletionIsExact'
  BY <1>2, <1>4, <1>5, <1>8 DEF UndisturbedCompletionIsExact, Listed, Purged
<1> QED
  BY <1>1, <1>9, <1>10, <1>11, <1>12, <1>13, <1>14, <1>15, <1>16, <1>17 DEF IInv

(* A step that changes no rows and collects none keeps ListedInv. *)
LEMMA ListedFrame ==
  ASSUME ListedInv, UNCHANGED <<part, read, sized, got, disturbed>>,
         \A c \in Completes : pc'[c] = pc[c] \/ pc'[c] \in Final
  PROVE  ListedInv'
<1> SUFFICES ASSUME NEW c \in Completes \ disturbed
             PROVE  ListedInv!(c)'
  BY DEF ListedInv
<1>1. ListedInv!(c)
  BY DEF ListedInv
<1>2. \A n \in Parts : NextPart(c, n)' <=> NextPart(c, n)
  BY DEF NextPart, Listed
<1>3. pc'[c] = pc[c] \/ pc'[c] \in Final
  OBVIOUS
<1> QED
  BY <1>1, <1>2, <1>3 DEF Final, Assembling, Valid, Listed

(* A step that collects and commits nothing keeps UndisturbedCompletionIsExact,
   if the blobs that it takes from the hosts are none of the object, or purged. *)
LEMMA ExactFrame ==
  ASSUME UndisturbedCompletionIsExact, UNCHANGED <<obj, sized, got, disturbed>>,
         \A c \in Completes : pc'[c] \in {"reap", "done"} => pc[c] \in {"reap", "done"},
         \A b : Purged(b) => Purged(b)',
         \A c \in Completes \ disturbed : obj = c =>
           \A n \in Listed(c) :
             got[c][n] \in hosted => got[c][n] \in hosted' \/ Purged(got[c][n])
  PROVE  UndisturbedCompletionIsExact'
<1> SUFFICES ASSUME NEW c \in Completes \ disturbed,
                    pc'[c] \in {"reap", "done"} \/ obj = c, NEW n \in Listed(c)
             PROVE  /\ got[c][n] # None /\ sized[c][n] = got[c][n]
                    /\ Content[got[c][n]] = Wants[c][n]
                    /\ obj = c => got[c][n] \in hosted' \/ Purged(got[c][n])'
  BY DEF UndisturbedCompletionIsExact, Listed
<1>1. pc[c] \in {"reap", "done"} \/ obj = c
  OBVIOUS
<1>2. /\ got[c][n] # None /\ sized[c][n] = got[c][n]
      /\ Content[got[c][n]] = Wants[c][n]
      /\ obj = c => got[c][n] \in hosted \/ Purged(got[c][n])
  BY <1>1 DEF UndisturbedCompletionIsExact
<1> QED
  BY <1>2

(* IInv is an invariant: one step per action, one per conjunct. *)
LEMMA Invariance == Spec => []IInv
<1>1. Init => IInv
  BY MultipartAssumption DEF Init, Requests, Procs, Blobs, Goto, Final,
     Active, StoreCallFails, Assembling, Landed, Listed, NextPart, Valid, Purged,
     TypeOK, IInv,
     RowInv, PartReapInv, ObjectInv, ObjectReapInv, AbortInv, ListedInv,
     KeptInv, PreviousVersionIntact, PartRowsAreStored,
     UndisturbedCompletionIsExact
<1>2. IInv /\ [Next]_vars => IInv'
  <2> SUFFICES ASSUME IInv, [Next]_vars
               PROVE  IInv'
    OBVIOUS
  <2> USE MultipartAssumption DEF Requests, Procs, Blobs, Goto, Final, Active,
               StoreCallFails, Assembling, Landed, Listed, NextPart, Valid, Purged,
               TypeOK
  <2>1. ASSUME createMultipartUpload
       PROVE  IInv'
    <3> USE <2>1 DEF createMultipartUpload
    <3>1. /\ TypeOK' /\ RowInv' /\ PartReapInv' /\ ObjectInv' /\ ObjectReapInv'
          /\ AbortInv' /\ ListedInv' /\ KeptInv' /\ PreviousVersionIntact'
          /\ PartRowsAreStored' /\ UndisturbedCompletionIsExact'
      BY DEF IInv, RowInv, PartReapInv, ObjectInv, ObjectReapInv, AbortInv,
           ListedInv, KeptInv, PreviousVersionIntact, PartRowsAreStored,
           UndisturbedCompletionIsExact
    <3> QED BY <3>1 DEF IInv
  <2>2. ASSUME NEW q \in Procs, resolveUpload(q)
       PROVE  IInv'
    <3>1. PICK l \in {First(q), "failed"} : ControlStep(q, l)
      <4>1. First(q) \in {"upload", "list", "chunks"}
        BY DEF First
      <4>2. PICK l \in {First(q), "failed"} : pc' = [pc EXCEPT ![q] = l]
        BY <2>2 DEF resolveUpload
      <4> QED
        BY <2>2, <4>1, <4>2 DEF resolveUpload, ControlStep, IInv
    <3> QED BY <3>1, ControlStepKeeps
  <2>3. ASSUME NEW q \in Procs, StoreError(q)
       PROVE  IInv'
    <3>1. ControlStep(q, "failed")
      BY <2>3, SMTT(30) DEF StoreError, ControlStep, IInv
    <3> QED BY <3>1, ControlStepKeeps
  <2>4. ASSUME NEW p \in PartPuts, UploadPart(p)
       PROVE  IInv'
    <3>1. PICK l : ControlStep(p, l)
      BY <2>4, SMTT(30) DEF UploadPart, ControlStep, IInv
    <3> QED BY <3>1, ControlStepKeeps
  <2>5. ASSUME NEW p \in PartPuts, UploadPartFails(p)
       PROVE  IInv'
    <3>1. ControlStep(p, "failed")
      BY <2>5, SMTT(30) DEF UploadPartFails, ControlStep, IInv
    <3> QED BY <3>1, ControlStepKeeps
  <2>6. ASSUME NEW p \in PartPuts, ReadOldPart(p)
       PROVE  IInv'
    <3> USE <2>6 DEF ReadOldPart
    <3>a. old' = [old EXCEPT ![p] = old'[p]] /\ old'[p] \subseteq {part[PartNo[p]]} \ {None}
      BY DEF IInv, PartReapInv
    <3>b. \A x \in Procs \ {p} : old'[x] = old[x]
      BY <3>a, SMTT(30) DEF IInv
    <3>c. old'[p] \subseteq PartPuts
      <4>1. part[PartNo[p]] \in PartPuts \cup {None}
        BY DEF IInv
      <4> QED
        BY <3>a, <4>1
    <3>d. /\ \A x \in Procs \ {p} : pc'[x] = pc[x]
          /\ pc[p] = "old" /\ pc'[p] = "commit"
          /\ UNCHANGED <<upload, part, obj, hosted, read, sized, got, gone, disturbed>>
      BY DEF IInv
    <3>1. /\ RowInv' /\ ObjectInv' /\ ObjectReapInv' /\ AbortInv'
          /\ ListedInv' /\ PreviousVersionIntact' /\ PartRowsAreStored'
          /\ UndisturbedCompletionIsExact'
      <4> HIDE <2>6 DEF ReadOldPart
      <4>1. /\ RowInv /\ ObjectInv /\ ObjectReapInv /\ AbortInv /\ ListedInv
            /\ PreviousVersionIntact /\ PartRowsAreStored
            /\ UndisturbedCompletionIsExact /\ TypeOK
        BY DEF IInv
      <4>2. RowInv' /\ ObjectInv'
        <5>1. \A x \in PartPuts \cup Completes : Landed(x)' <=> Landed(x)
          BY <3>d
        <5>2. \A n \in Parts : part[n] \in PartPuts \cup {None}
          BY <4>1
        <5>3. \A c \in Completes, n \in Parts : got[c][n] \in PartPuts \cup {None}
          BY <4>1
        <5>4. RowInv /\ ObjectInv
          BY <4>1
        <5> HIDE DEF Landed
        <5>5. RowInv'
          BY <3>d, <5>1, <5>2, <5>4 DEF RowInv
        <5>6. ObjectInv'
          BY <3>d, <5>1, <5>3, <5>4 DEF ObjectInv
        <5> QED
          BY <5>5, <5>6
      <4>3. ObjectReapInv' /\ AbortInv'
        BY <3>b, <3>d, <4>1, SMTT(30) DEF ObjectReapInv, AbortInv
      <4>4. ListedInv'
        BY <3>d, <4>1, ListedFrame
      <4>5. \A b : Purged(b)' <=> Purged(b)
        BY <3>b
      <4>6. PreviousVersionIntact' /\ PartRowsAreStored'
        BY <3>d, <4>1, <4>5 DEF PreviousVersionIntact, PartRowsAreStored
      <4>7. UndisturbedCompletionIsExact'
        <5>1. \A c \in Completes : pc'[c] = pc[c]
          BY <3>d
        <5> HIDE DEF Purged
        <5> QED
          BY <3>d, <4>1, <4>5, <5>1, ExactFrame
      <4> QED
        BY <4>2, <4>3, <4>4, <4>6, <4>7
    <3>2. TypeOK'
      <4>1. old' \in [Procs -> SUBSET Blobs]
        BY <3>a, <3>c DEF IInv
      <4> QED
        BY <4>1 DEF IInv
    <3>3. PartReapInv'
      <4>1. \A q \in PartPuts : pc'[q] # "reap" \/ q # p
        BY DEF IInv
      <4>2. \A q \in PartPuts : Landed(q) => Landed(q)'
        BY DEF IInv
      <4>3. ASSUME NEW b \in old'[p]
            PROVE  b \in PartPuts /\ PartNo[b] = PartNo[p] /\ Landed(b)
        <5>1. b = part[PartNo[p]] /\ b # None /\ b \in PartPuts /\ PartNo[p] \in Parts
          BY <3>a, <3>c
        <5> QED
          BY <5>1 DEF IInv, RowInv
      <4>4. pc'[p] = "commit" /\ \A q \in PartPuts \ {p} : pc'[q] = pc[q]
        BY DEF IInv
      <4> QED
        BY <3>b, <4>1, <4>2, <4>3, <4>4 DEF IInv, PartReapInv
    <3>4. KeptInv'
      <4>1. \A x \in Completes : pc'[x] = pc[x] /\ old'[x] = old[x]
        BY <3>b DEF IInv
      <4>2. \A q \in PartPuts \ {p} : pc'[q] = pc[q] /\ old'[q] = old[q]
        BY <3>b DEF IInv
      <4>3. ASSUME NEW c \in Completes, NEW n \in Parts, obj = c
            PROVE  got[c][n] \notin old'[p]
        <5>1. PartNo[p] \in Parts
          OBVIOUS
        <5>2. \A i, j \in Parts : got[c][i] # None => part[j] # got[c][i]
          BY <4>3 DEF IInv, ObjectInv
        <5> QED
          <6>1. got[c][n] # None => got[c][n] # part[PartNo[p]]
            BY <5>1, <5>2
          <6> QED
            BY <3>a, <6>1
      <4> QED
        BY <4>1, <4>2, <4>3 DEF IInv, KeptInv
    <3> QED BY <3>1, <3>2, <3>3, <3>4 DEF IInv
  <2>7. ASSUME NEW p \in PartPuts, PutMultipartPart(p)
       PROVE  IInv'
    <3> USE <2>7 DEF PutMultipartPart
    <3>a. /\ disturbed \subseteq disturbed'
          /\ \A c \in Completes \ disturbed' :
               PartNo[p] \in Listed(c) => ~ Assembling(c) /\ obj # c
      OBVIOUS
    <3>b. /\ \A q \in Procs \ {p} : pc'[q] = pc[q]
          /\ pc'[p] = "reap"
          /\ \A n \in Parts \ {PartNo[p]} : part'[n] = part[n]
      BY DEF IInv
    <3>1. /\ TypeOK' /\ RowInv' /\ PartReapInv' /\ ObjectInv' /\ ObjectReapInv'
          /\ AbortInv' /\ PreviousVersionIntact'
      BY SMTT(30) DEF IInv, RowInv, PartReapInv, ObjectInv, ObjectReapInv, AbortInv,
           PreviousVersionIntact
    <3>2. PartRowsAreStored'
      BY DEF IInv, PartRowsAreStored, RowInv
    <3>3. ListedInv'
      <4> SUFFICES ASSUME NEW c \in Completes \ disturbed'
                   PROVE  ListedInv!(c)'
        BY DEF ListedInv
      <4>1. c \in Completes \ disturbed /\ pc'[c] = pc[c]
        BY <3>a, <3>b
      <4>2. ListedInv!(c)
        BY <4>1 DEF IInv, ListedInv
      <4>3. Assembling(c) => \A n \in Listed(c) : part'[n] = part[n]
        BY <3>a, <3>b, <4>1
      <4>4. \A n \in Parts : NextPart(c, n)' <=> NextPart(c, n)
        BY DEF NextPart
      <4>5. \A n \in Parts : NextPart(c, n) => n \in Listed(c)
        BY DEF NextPart
      <4>6. UNCHANGED <<read, got, sized>>
        OBVIOUS
      <4> HIDE <2>7 DEF PutMultipartPart
      <4> QED
        BY <4>1, <4>2, <4>3, <4>4, <4>5, <4>6
    <3>4. KeptInv'
      <4> SUFFICES ASSUME NEW c \in Completes \ disturbed', obj = c,
                          NEW n \in Listed(c), NEW q \in PartPuts \cup Completes,
                          pc'[q] = "reap"
                   PROVE  got[c][n] \notin old[q]
        BY DEF KeptInv
      <4>1. CASE q = p
        <5>1. n # PartNo[p] /\ n \in Parts /\ got[c][n] # None
          BY <3>a DEF IInv, UndisturbedCompletionIsExact
        <5>2. PartNo[got[c][n]] = n
          BY <5>1 DEF IInv, ObjectInv
        <5> QED
          BY <4>1, <5>1, <5>2 DEF IInv, PartReapInv
      <4>2. CASE q # p
        BY <3>a, <3>b, <4>2 DEF IInv, KeptInv
      <4> QED
        BY <4>1, <4>2
    <3>5. UndisturbedCompletionIsExact'
      <4> SUFFICES ASSUME NEW c \in Completes \ disturbed',
                          pc'[c] \in {"reap", "done"} \/ obj = c,
                          NEW n \in Listed(c)
                   PROVE  /\ got[c][n] # None /\ sized[c][n] = got[c][n]
                          /\ Content[got[c][n]] = Wants[c][n]
                          /\ obj = c => got[c][n] \in hosted \/ Purged(got[c][n])
        BY DEF UndisturbedCompletionIsExact
      <4>1. c \in Completes \ disturbed /\ pc'[c] = pc[c]
        BY <3>a, <3>b
      <4> QED
        BY <4>1 DEF IInv, UndisturbedCompletionIsExact
    <3> QED BY <3>1, <3>2, <3>3, <3>4, <3>5 DEF IInv
  <2>8. ASSUME NEW p \in PartPuts, PutMultipartPartFails(p)
       PROVE  IInv'
    <3>1. ControlStep(p, "cleanup")
      BY <2>8, SMTT(30) DEF PutMultipartPartFails, ControlStep, IInv
    <3> QED BY <3>1, ControlStepKeeps
  <2>9. ASSUME NEW p \in PartPuts, CleanupPart(p)
       PROVE  IInv'
    <3> USE <2>9 DEF CleanupPart, DeleteBatch
    <3>1. /\ TypeOK' /\ RowInv' /\ PartReapInv' /\ ObjectInv' /\ ObjectReapInv'
          /\ AbortInv' /\ KeptInv' /\ PreviousVersionIntact'
      BY DEF IInv, RowInv, PartReapInv, ObjectInv, ObjectReapInv, AbortInv,
           KeptInv, PreviousVersionIntact
    <3>2. PartRowsAreStored'
      BY DEF IInv, PartRowsAreStored, RowInv
    <3>3. UndisturbedCompletionIsExact'
      <4>1. \A c \in Completes, n \in Parts : got[c][n] # p
        BY DEF IInv, ObjectInv
      <4>2. hosted \ {p} \subseteq hosted'
        OBVIOUS
      <4>3. \A c \in Completes : pc'[c] = pc[c]
        BY DEF IInv
      <4> SUFFICES ASSUME NEW c \in Completes \ disturbed, NEW n \in Listed(c), obj = c
                   PROVE  got[c][n] \in hosted' \/ Purged(got[c][n])
        BY <4>3 DEF IInv, UndisturbedCompletionIsExact
      <4>4. got[c][n] \in hosted \/ Purged(got[c][n])
        BY DEF IInv, UndisturbedCompletionIsExact
      <4> QED
        BY <4>1, <4>2, <4>4
    <3>l. ListedInv'
      <4>1. \A x \in Completes : pc'[x] = pc[x] \/ pc'[x] \in Final
        BY DEF IInv
      <4> QED
        BY <4>1, ListedFrame DEF IInv
    <3> QED BY <3>1, <3>2, <3>3, <3>l DEF IInv
  <2>10. ASSUME NEW c \in Completes, ListParts(c)
       PROVE  IInv'
    <3>1. PICK l : ControlStep(c, l)
      BY <2>10, SMTT(30) DEF ListParts, ControlStep, IInv
    <3> QED BY <3>1, ControlStepKeeps
  <2>11. ASSUME NEW c \in Completes, CollectChunks(c)
       PROVE  IInv'
    <3> USE <2>11 DEF CollectChunks
    <3>a. PICK n \in Parts :
            /\ NextPart(c, n)
            /\ sized' = [sized EXCEPT ![c] = [sized[c] EXCEPT ![n] = part[n]]]
            /\ IF part[n] = None
                 THEN read' = [read EXCEPT ![c] = read[c] \cup {n}] /\ pc' = pc
                 ELSE pc' = [pc EXCEPT ![c] = "reps"] /\ read' = read
      OBVIOUS
    <3>b. /\ UNCHANGED <<upload, part, obj, hosted, got, old, gone, disturbed>>
          /\ pc[c] = "parts"
      OBVIOUS
    <3> HIDE <2>11 DEF CollectChunks
    <3>c. /\ \A q \in Procs \ {c} : pc'[q] = pc[q]
          /\ pc'[c] \in {"parts", "reps"}
          /\ \A x \in Completes \ {c} : read'[x] = read[x] /\ sized'[x] = sized[x]
          /\ sized'[c][n] = part[n] /\ \A m \in Parts \ {n} : sized'[c][m] = sized[c][m]
      BY <3>a, <3>b DEF IInv
    <3>1. /\ RowInv' /\ PartReapInv' /\ ObjectInv' /\ ObjectReapInv' /\ AbortInv'
          /\ KeptInv' /\ PreviousVersionIntact' /\ PartRowsAreStored'
      <4>1. \A p \in PartPuts : pc'[p] = pc[p]
        BY <3>c
      <4>2. \A p \in Aborts \cup Janitors : pc'[p] = pc[p]
        BY <3>c
      <4>3. \A p \in PartPuts \cup Completes : pc'[p] = "reap" => pc[p] = "reap"
        BY <3>c
      <4>4. Landed(c)' <=> Landed(c)
        BY <3>b, <3>c
      <4>5. /\ RowInv /\ PartReapInv /\ ObjectInv /\ ObjectReapInv /\ AbortInv
            /\ KeptInv /\ PreviousVersionIntact /\ PartRowsAreStored /\ TypeOK
        BY DEF IInv
      <4>6. RowInv' /\ PartReapInv'
        BY <3>b, <4>1, <4>5, SMTT(30) DEF RowInv, PartReapInv
      <4>7. ObjectInv'
        BY <3>b, <3>c, <4>1, <4>4, <4>5 DEF ObjectInv
      <4>8. ObjectReapInv' /\ AbortInv'
        BY <3>b, <4>1, <4>2, <4>3, <4>5, SMTT(30) DEF ObjectReapInv, AbortInv
      <4>9. KeptInv' /\ PreviousVersionIntact' /\ PartRowsAreStored'
        BY <3>b, <4>3, <4>5 DEF KeptInv, PreviousVersionIntact, PartRowsAreStored
      <4> QED
        BY <4>6, <4>7, <4>8, <4>9
    <3>2. TypeOK'
      <4>1. [sized[c] EXCEPT ![n] = part[n]] \in [Parts -> PartPuts \cup {None}]
        BY DEF IInv
      <4>2. sized' \in [Completes -> [Parts -> PartPuts \cup {None}]]
        BY <3>a, <4>1 DEF IInv
      <4>3. /\ read' \in [Completes -> SUBSET Parts]
            /\ pc' = pc \/ pc' = [pc EXCEPT ![c] = "reps"]
        BY <3>a DEF IInv
      <4> QED
        BY <3>b, <4>2, <4>3 DEF IInv
    <3>3. ListedInv'
      <4> SUFFICES ASSUME NEW x \in Completes \ disturbed
                   PROVE  ListedInv!(x)'
        BY <3>b DEF ListedInv
      <4>1. ListedInv!(x)
        BY DEF IInv, ListedInv
      <4>2. CASE x = c
        <5>1. n \in Listed(c) \ read[c] /\ part[n] # None
          BY <3>a, <3>b, <4>1, <4>2 DEF NextPart
        <5>2. pc' = [pc EXCEPT ![c] = "reps"] /\ read' = read
          BY <3>a, <5>1
        <5>3. pc'[c] = "reps"
          BY <5>2 DEF IInv
        <5>4. \A m \in Parts : NextPart(c, m)' => m = n
          <6> SUFFICES ASSUME NEW m \in Parts, NextPart(c, m)'
                       PROVE  m = n
            OBVIOUS
          <6>1. n \in Listed(c) \ read[c] /\ \A k \in Listed(c) \ read[c] : n <= k
            BY <3>a DEF NextPart
          <6>2. m \in Listed(c) \ read[c] /\ \A k \in Listed(c) \ read[c] : m <= k
            BY <5>2 DEF NextPart
          <6>3. n <= m /\ m <= n /\ n \in Nat /\ m \in Nat
            BY <6>1, <6>2
          <6> QED
            BY <6>3
        <5>5. \A m \in read[c] : sized'[c][m] = part[m] /\ got[c][m] = part[m]
          BY <3>b, <3>c, <4>1, <4>2, <5>1
        <5> QED
          BY <3>b, <3>c, <4>1, <4>2, <5>2, <5>3, <5>4, <5>5
      <4>3. CASE x # c
        <5>1. \A m \in Parts : NextPart(x, m)' <=> NextPart(x, m)
          BY <3>c, <4>3 DEF NextPart
        <5> QED
          BY <3>b, <3>c, <4>1, <4>3, <5>1
      <4> QED
        BY <4>2, <4>3
    <3>4. UndisturbedCompletionIsExact'
      <4>1. obj # c
        BY <3>b DEF IInv, ObjectInv
      <4> QED
        BY <3>b, <3>c, <4>1 DEF IInv, UndisturbedCompletionIsExact
    <3> QED BY <3>1, <3>2, <3>3, <3>4 DEF IInv
  <2>22. ASSUME NEW c \in Completes, CollectReplicas(c)
       PROVE  IInv'
    <3> USE <2>22 DEF CollectReplicas
    <3>a. PICK n \in Parts :
            /\ NextPart(c, n)
            /\ got' = [got EXCEPT ![c] = [got[c] EXCEPT ![n] = part[n]]]
            /\ read' = [read EXCEPT ![c] = read[c] \cup {n}]
      OBVIOUS
    <3>b. /\ UNCHANGED <<upload, part, obj, hosted, sized, old, gone, disturbed>>
          /\ pc[c] = "reps" /\ pc' = [pc EXCEPT ![c] = "parts"]
      OBVIOUS
    <3> HIDE <2>22 DEF CollectReplicas
    <3>c. /\ \A q \in Procs \ {c} : pc'[q] = pc[q]
          /\ pc'[c] = "parts"
          /\ \A x \in Completes \ {c} : read'[x] = read[x] /\ got'[x] = got[x]
          /\ read'[c] = read[c] \cup {n}
          /\ got'[c][n] = part[n] /\ \A m \in Parts \ {n} : got'[c][m] = got[c][m]
      BY <3>a, <3>b DEF IInv
    <3>d. obj # c
      BY <3>b DEF IInv, ObjectInv
    <3>1. /\ RowInv' /\ PartReapInv' /\ ObjectReapInv' /\ AbortInv'
          /\ PreviousVersionIntact' /\ PartRowsAreStored'
      BY <3>b, <3>c, SMTT(30) DEF IInv, RowInv, PartReapInv, ObjectReapInv,
           AbortInv, PreviousVersionIntact, PartRowsAreStored
    <3>2. TypeOK'
      <4>1. [got[c] EXCEPT ![n] = part[n]] \in [Parts -> PartPuts \cup {None}]
        BY DEF IInv
      <4>2. got' \in [Completes -> [Parts -> PartPuts \cup {None}]]
        BY <3>a, <4>1 DEF IInv
      <4>3. read' \in [Completes -> SUBSET Parts]
        BY <3>a DEF IInv
      <4> QED
        BY <3>b, <4>2, <4>3 DEF IInv
    <3>3. ListedInv'
      <4> SUFFICES ASSUME NEW x \in Completes \ disturbed
                   PROVE  ListedInv!(x)'
        BY <3>b DEF ListedInv
      <4>1. ListedInv!(x)
        BY DEF IInv, ListedInv
      <4>2. CASE x = c
        <5>1. n \in Listed(c) /\ sized[c][n] = part[n]
          BY <3>a, <3>b, <4>1, <4>2 DEF NextPart
        <5>2. \A m \in read'[c] : sized[c][m] = part[m] /\ got'[c][m] = part[m]
          BY <3>b, <3>c, <4>1, <4>2, <5>1
        <5> QED
          BY <3>b, <3>c, <4>1, <4>2, <5>1, <5>2
      <4>3. CASE x # c
        <5>1. \A m \in Parts : NextPart(x, m)' <=> NextPart(x, m)
          BY <3>c, <4>3 DEF NextPart
        <5> QED
          BY <3>b, <3>c, <4>1, <4>3, <5>1
      <4> QED
        BY <4>2, <4>3
    <3>4. ObjectInv'
      <4>1. part[n] # None => PartNo[part[n]] = n /\ Landed(part[n])
        BY DEF IInv, RowInv
      <4>2. \A p \in PartPuts : pc'[p] = pc[p]
        BY <3>c
      <4>3. \A x \in Completes, m \in Parts : got[x][m] \in PartPuts \cup {None}
        BY DEF IInv
      <4>4. part[n] \in PartPuts \cup {None}
        BY DEF IInv
      <4> QED
        <5>1. ObjectInv
          BY DEF IInv
        <5>2. \A x \in PartPuts \cup Completes : Landed(x)' <=> Landed(x)
          BY <3>b, <3>c
        <5> HIDE DEF Landed
        <5>3. \A x \in Completes, m \in Parts :
                got'[x][m] = got[x][m] \/ (x = c /\ m = n /\ got'[x][m] = part[n])
          <6>1. \A x \in Completes \ {c}, m \in Parts : got'[x][m] = got[x][m]
            BY <3>c
          <6>2. \A m \in Parts : got'[c][m] = got[c][m] \/ (m = n /\ got'[c][m] = part[n])
            BY <3>c
          <6> QED
            BY <6>1, <6>2
        <5>4. \A x \in Completes, m \in Parts : got'[x][m] # None =>
                /\ PartNo[got'[x][m]] = m
                /\ pc'[got'[x][m]] \in {"reap", "done", "crashed"}
          <6> SUFFICES ASSUME NEW x \in Completes, NEW m \in Parts,
                              NEW g \in PartPuts, g = got'[x][m]
                       PROVE  PartNo[g] = m /\ Landed(g)'
            BY <4>3, <4>4, <5>3 DEF Landed
          <6>1. CASE g = got[x][m]
            <7>1. g # None
              OBVIOUS
            <7>2. PartNo[g] = m /\ pc[g] \in {"reap", "done", "crashed"}
              BY <5>1, <6>1, <7>1 DEF ObjectInv, Landed
            <7> QED
              BY <5>2, <7>2 DEF Landed
          <6>2. CASE m = n /\ g = part[n]
            BY <4>1, <5>2, <6>2
          <6> QED
            BY <5>3, <6>1, <6>2
        <5>5. \A x \in Completes : obj' = x =>
                /\ Landed(x)'
                /\ \A k, m \in Parts : got'[x][k] # None => part'[m] # got'[x][k]
          <6> SUFFICES ASSUME NEW x \in Completes, obj = x
                       PROVE  /\ Landed(x)'
                              /\ \A k, m \in Parts :
                                   got'[x][k] # None => part[m] # got'[x][k]
            BY <3>b
          <6>1. x # c /\ got'[x] = got[x]
            BY <3>c, <3>d
          <6>2. Landed(x) /\ \A k, m \in Parts : got[x][k] # None => part[m] # got[x][k]
            BY <5>1 DEF ObjectInv
          <6> QED
            BY <5>2, <6>1, <6>2
        <5> QED
          BY <5>4, <5>5 DEF ObjectInv, Landed
    <3>5. KeptInv'
      BY <3>b, <3>c, <3>d DEF IInv, KeptInv
    <3>6. UndisturbedCompletionIsExact'
      BY <3>b, <3>c, <3>d DEF IInv, UndisturbedCompletionIsExact
    <3> QED BY <3>1, <3>2, <3>3, <3>4, <3>5, <3>6 DEF IInv
  <2>12. ASSUME NEW c \in Completes, ReadOldObject(c)
       PROVE  IInv'
    <3> USE <2>12 DEF ReadOldObject
    <3>a. ASSUME NEW b \in ObjBlobs \ {Old}
          PROVE  b \in PartPuts /\ Landed(b) /\ \A n \in Parts : part[n] # b
      <4>1. obj \in Completes
        BY <3>a DEF IInv, ObjBlobs
      <4>2. PICK m \in DOMAIN Wants[obj] : b = got[obj][m] /\ b # None
        BY <3>a, <4>1 DEF ObjBlobs
      <4>3. m \in Parts
        BY <4>1, <4>2
      <4>4. b \in PartPuts
        BY <4>1, <4>2, <4>3 DEF IInv
      <4> QED
        BY <4>1, <4>2, <4>3, <4>4 DEF IInv, ObjectInv
    <3>b. old' \in [Procs -> SUBSET Blobs] /\ \A q \in Procs \ {c} : old'[q] = old[q]
      BY <3>a DEF IInv
    <3>1. TypeOK'
      BY <3>b DEF IInv
    <3>2. RowInv'
      BY DEF IInv, RowInv
    <3>3. PartReapInv'
      BY DEF IInv, PartReapInv
    <3>4. ObjectInv'
      BY DEF IInv, ObjectInv
    <3>5. ObjectReapInv'
      <4>1. \A b \in old'[c] \ {Old} : b \in PartPuts /\ Landed(b) /\ \A n \in Parts : part[n] # b
        BY <3>a DEF IInv, ObjectReapInv
      <4>2. \A q \in Completes : pc'[q] = "reap" => pc[q] = "reap"
        BY DEF IInv
      <4>3. \A q \in PartPuts : Landed(q)' <=> Landed(q)
        BY DEF IInv
      <4> QED
        BY <3>b, <4>1, <4>2, <4>3 DEF IInv, ObjectReapInv
    <3>6. AbortInv'
      BY DEF IInv, AbortInv
    <3>7. ListedInv'
      <4> SUFFICES ASSUME NEW x \in Completes \ disturbed
                   PROVE  ListedInv!(x)'
        BY DEF ListedInv
      <4>1. ListedInv!(x)
        BY DEF IInv, ListedInv
      <4>2. \A n \in Parts : NextPart(x, n)' <=> NextPart(x, n)
        BY DEF NextPart
      <4>3. /\ x # c => pc'[x] = pc[x]
            /\ x = c => pc[x] = "parts" /\ pc'[x] = "finalize" /\ read[x] = Listed(x)
            /\ UNCHANGED <<part, read, sized, got>>
        BY DEF IInv
      <4> HIDE <2>12 DEF ReadOldObject
      <4> QED
        BY <4>1, <4>2, <4>3
    <3>8. KeptInv'
      <4>1. \A q \in PartPuts \cup Completes :
              pc'[q] = "reap" => pc[q] = "reap" /\ old'[q] = old[q]
        BY <3>b DEF IInv
      <4>2. UNCHANGED <<obj, got, disturbed>>
        OBVIOUS
      <4>3. KeptInv
        BY DEF IInv
      <4> SUFFICES ASSUME NEW x \in Completes \ disturbed, obj = x, NEW n \in Listed(x),
                          NEW q \in PartPuts \cup Completes, pc'[q] = "reap"
                   PROVE  got[x][n] \notin old'[q]
        BY <4>2 DEF KeptInv
      <4>4. got[x][n] \notin old[q]
        BY <4>1, <4>3 DEF KeptInv
      <4> QED
        BY <4>1, <4>4
    <3>9. PreviousVersionIntact'
      BY DEF IInv, PreviousVersionIntact
    <3>10. PartRowsAreStored'
      <4>1. \A b : Purged(b) => Purged(b)'
        BY <3>b
      <4>2. PartRowsAreStored /\ UNCHANGED <<part, hosted>>
        BY DEF IInv
      <4> HIDE <2>12 DEF ReadOldObject, Purged
      <4> QED
        BY <4>1, <4>2 DEF PartRowsAreStored
    <3>11. UndisturbedCompletionIsExact'
      <4>1. \A x \in Completes : pc'[x] = pc[x] \/ pc'[x] = "finalize"
        BY DEF IInv
      <4>2. \A b : Purged(b) => Purged(b)'
        BY <3>b
      <4>3. UndisturbedCompletionIsExact
        BY DEF IInv
      <4> HIDE DEF Purged
      <4> QED
        BY <4>1, <4>2, <4>3, ExactFrame
    <3> QED BY <3>1, <3>2, <3>3, <3>4, <3>5, <3>6, <3>7, <3>8, <3>9, <3>10,
         <3>11 DEF IInv
  <2>13. ASSUME NEW c \in Completes, FinalizeMultipartUpload(c)
       PROVE  IInv'
    <3> USE <2>13 DEF FinalizeMultipartUpload
    <3>a. ASSUME c \notin disturbed
          PROVE  \A n \in Listed(c) : /\ got[c][n] = part[n] /\ sized[c][n] = part[n]
                                      /\ part[n] \in PartPuts
                                      /\ Content[part[n]] = Wants[c][n]
      <4>1. /\ Valid(c, part) /\ read[c] = Listed(c)
            /\ \A n \in read[c] : got[c][n] = part[n] /\ sized[c][n] = part[n]
        BY <3>a DEF IInv, ListedInv
      <4>2. \A n \in Listed(c) : n \in Parts /\ part[n] \in PartPuts \cup {None}
        BY DEF IInv
      <4> QED
        BY <4>1, <4>2
    <3>b. /\ \A q \in Procs \ {c} : pc'[q] = pc[q]
          /\ pc'[c] = "reap"
          /\ disturbed \subseteq disturbed'
          /\ \A x \in Completes \ disturbed' : x # c => ~ Assembling(x)
          /\ c \in disturbed' => c \in disturbed
      BY DEF IInv
    <3>1. /\ TypeOK' /\ RowInv' /\ PartReapInv' /\ ObjectInv' /\ ObjectReapInv'
          /\ AbortInv' /\ PreviousVersionIntact' /\ PartRowsAreStored'
      BY DEF IInv, RowInv, PartReapInv, ObjectInv, ObjectReapInv, AbortInv,
           PreviousVersionIntact, PartRowsAreStored
    <3>2. ListedInv'
      BY <3>b DEF IInv, ListedInv
    <3>3. KeptInv'
      <4> SUFFICES ASSUME c \notin disturbed, NEW n \in Listed(c),
                          NEW q \in PartPuts \cup Completes, pc'[q] = "reap"
                   PROVE  got[c][n] \notin old[q]
        BY <3>b DEF KeptInv
      <4>1. n \in Parts /\ got[c][n] = part[n] /\ part[n] \in PartPuts
        BY <3>a
      <4>2. CASE q \in PartPuts
        <5>1. pc[q] = "reap"
          BY <3>b, <4>2
        <5>2. PartNo[part[n]] = n /\ part[n] # None
          BY <4>1 DEF IInv, RowInv
        <5>3. /\ part[PartNo[q]] \notin old[q]
              /\ \A b \in old[q] : PartNo[b] = PartNo[q]
          BY <4>2, <5>1 DEF IInv, PartReapInv
        <5> QED
          BY <4>1, <5>2, <5>3
      <4>3. CASE q \in Completes
        <5>1. \A b \in old[q] \ {Old} : part[n] # b
          BY <4>1, <4>3 DEF IInv, ObjectReapInv
        <5> QED
          BY <4>1, <5>1
      <4> QED
        BY <4>2, <4>3
    <3>4. UndisturbedCompletionIsExact'
      <4>1. ASSUME c \notin disturbed, NEW n \in Listed(c)
            PROVE  got[c][n] \in hosted \/ Purged(got[c][n])
        <5>1. n \in Parts /\ got[c][n] = part[n] /\ part[n] # None
          BY <3>a, <4>1
        <5> QED
          BY <5>1 DEF IInv, PartRowsAreStored
      <4> SUFFICES ASSUME NEW x \in Completes \ disturbed',
                          pc'[x] \in {"reap", "done"} \/ c = x,
                          NEW n \in Listed(x)
                   PROVE  /\ got[x][n] # None /\ sized[x][n] = got[x][n]
                          /\ Content[got[x][n]] = Wants[x][n]
                          /\ c = x => got[x][n] \in hosted \/ Purged(got[x][n])
        BY DEF UndisturbedCompletionIsExact
      <4>2. CASE x = c
        BY <3>a, <3>b, <4>1, <4>2
      <4>3. CASE x # c
        BY <3>b, <4>3 DEF IInv, UndisturbedCompletionIsExact
      <4> QED
        BY <4>2, <4>3
    <3> QED BY <3>1, <3>2, <3>3, <3>4 DEF IInv
  <2>14. ASSUME NEW q \in PartPuts \cup Completes, Reap(q)
       PROVE  IInv'
    <3> USE <2>14 DEF Reap, DeleteBatch
    <3>1. /\ TypeOK' /\ PartReapInv' /\ ObjectInv' /\ ObjectReapInv' /\ AbortInv'
          /\ KeptInv'
      BY DEF IInv, PartReapInv, ObjectInv, ObjectReapInv, AbortInv, KeptInv
    <3>2. RowInv'
      BY DEF IInv, RowInv, PartReapInv, ObjectReapInv
    <3>3. PreviousVersionIntact'
      BY DEF IInv, PreviousVersionIntact, PartReapInv, ObjectReapInv
    <3>4. PartRowsAreStored'
      BY DEF IInv, PartRowsAreStored, RowInv, PartReapInv, ObjectReapInv
    <3>5. UndisturbedCompletionIsExact'
      <4>1. \A x \in Completes :
              pc'[x] \in {"reap", "done"} => pc[x] \in {"reap", "done"}
        BY DEF IInv
      <4>2. hosted \ old[q] \subseteq hosted' /\ \A b : Purged(b) => Purged(b)'
        OBVIOUS
      <4>3. \A x \in Completes \ disturbed : obj = x =>
              \A n \in Listed(x) : got[x][n] \notin old[q]
        BY DEF IInv, KeptInv
      <4>4. UndisturbedCompletionIsExact
        BY DEF IInv
      <4> HIDE DEF Purged
      <4> QED
        BY <4>1, <4>2, <4>3, <4>4, ExactFrame
    <3>l. ListedInv'
      <4>1. \A x \in Completes : pc'[x] = pc[x] \/ pc'[x] \in Final
        BY DEF IInv
      <4> QED
        BY <4>1, ListedFrame DEF IInv
    <3> QED BY <3>1, <3>2, <3>3, <3>4, <3>5, <3>l DEF IInv
  <2>15. ASSUME NEW a \in Aborts \cup Janitors, AllMultipartChunks(a)
       PROVE  IInv'
    <3> USE <2>15 DEF AllMultipartChunks
    <3>1. /\ TypeOK' /\ RowInv' /\ PartReapInv' /\ ObjectInv' /\ ObjectReapInv'
          /\ KeptInv' /\ PreviousVersionIntact' /\ PartRowsAreStored'
      BY DEF IInv, RowInv, PartReapInv, ObjectInv, ObjectReapInv, KeptInv,
           PreviousVersionIntact, PartRowsAreStored
    <3>2. AbortInv'
      BY DEF IInv, AbortInv, RowInv
    <3>3. UndisturbedCompletionIsExact'
      <4>1. \A x \in Aborts \cup Janitors : old[x] \subseteq old'[x]
        BY DEF IInv, AbortInv
      <4>2. \A x \in Completes : pc'[x] = pc[x]
        BY DEF IInv
      <4>3. \A b : Purged(b) => Purged(b)'
        BY <4>1
      <4>4. UNCHANGED <<got, sized, obj, hosted, disturbed>>
        OBVIOUS
      <4> HIDE <2>15 DEF AllMultipartChunks
      <4> SUFFICES ASSUME NEW c \in Completes \ disturbed,
                          pc[c] \in {"reap", "done"} \/ obj = c,
                          NEW n \in Listed(c)
                   PROVE  /\ got[c][n] # None /\ sized[c][n] = got[c][n]
                          /\ Content[got[c][n]] = Wants[c][n]
                          /\ obj = c => got[c][n] \in hosted \/ Purged(got[c][n])'
        BY <4>2, <4>4 DEF UndisturbedCompletionIsExact
      <4> QED
        BY <4>3, <4>4 DEF IInv, UndisturbedCompletionIsExact
    <3>l. ListedInv'
      <4>1. \A x \in Completes : pc'[x] = pc[x] \/ pc'[x] \in Final
        BY DEF IInv
      <4> QED
        BY <4>1, ListedFrame DEF IInv
    <3> QED BY <3>1, <3>2, <3>3, <3>l DEF IInv
  <2>16. ASSUME NEW a \in Aborts \cup Janitors, Purge(a)
       PROVE  IInv'
    <3> USE <2>16 DEF Purge, DeleteBatch
    <3>1. /\ TypeOK' /\ PartReapInv' /\ ObjectInv' /\ ObjectReapInv' /\ AbortInv'
          /\ KeptInv'
      BY SMTT(30) DEF IInv, PartReapInv, ObjectInv, ObjectReapInv, AbortInv, KeptInv
    <3>4. hosted \ old[a] \subseteq hosted' /\ UNCHANGED old
      OBVIOUS
    <3>5. PartRowsAreStored'
      BY <3>4 DEF IInv, PartRowsAreStored
    <3>6. UndisturbedCompletionIsExact'
      <4>1. \A x \in Completes : pc'[x] = pc[x]
        BY DEF IInv
      <4>2. \A b : Purged(b) <=> Purged(b)'
        BY <3>4
      <4>3. \A b \in old[a] : Purged(b)
        OBVIOUS
      <4>4. UndisturbedCompletionIsExact
        BY DEF IInv
      <4> HIDE DEF Purged
      <4> QED
        BY <3>4, <4>1, <4>2, <4>3, <4>4, ExactFrame
    <3>2. RowInv'
      <4>1. hosted \ old[a] \subseteq hosted'
        OBVIOUS
      <4>2. \A p \in PartPuts : pc'[p] = pc[p]
        BY DEF IInv
      <4>3. \A p \in PartPuts : pc[p] \in {"old", "commit"} => p \notin old[a]
        BY DEF IInv, AbortInv
      <4> QED
        BY <4>1, <4>2, <4>3 DEF IInv, RowInv
    <3>3. PreviousVersionIntact'
      BY DEF IInv, PreviousVersionIntact, AbortInv
    <3>l. ListedInv'
      <4>1. \A x \in Completes : pc'[x] = pc[x] \/ pc'[x] \in Final
        BY DEF IInv
      <4> QED
        BY <4>1, ListedFrame DEF IInv
    <3> QED BY <3>1, <3>2, <3>3, <3>5, <3>6, <3>l DEF IInv
  <2>17. ASSUME NEW a \in Aborts \cup Janitors, DeleteMultipartUpload(a)
       PROVE  IInv'
    <3> USE <2>17 DEF DeleteMultipartUpload
    <3>1. /\ TypeOK' /\ RowInv' /\ PartReapInv' /\ ObjectInv' /\ ObjectReapInv'
          /\ AbortInv' /\ ListedInv' /\ KeptInv' /\ PreviousVersionIntact'
          /\ PartRowsAreStored' /\ UndisturbedCompletionIsExact'
      BY SMTT(30) DEF IInv, RowInv, PartReapInv, ObjectInv, ObjectReapInv, AbortInv,
           ListedInv, KeptInv, PreviousVersionIntact, PartRowsAreStored,
           UndisturbedCompletionIsExact
    <3> QED BY <3>1 DEF IInv
  <2>18. ASSUME NEW q \in Requests, Disconnect(q)
       PROVE  IInv'
    <3> USE <2>18 DEF Disconnect
    <3>1. /\ TypeOK' /\ RowInv' /\ PartReapInv' /\ ObjectInv' /\ ObjectReapInv'
          /\ AbortInv' /\ KeptInv' /\ PreviousVersionIntact'
          /\ PartRowsAreStored' /\ UndisturbedCompletionIsExact'
      BY DEF IInv, RowInv, PartReapInv, ObjectInv, ObjectReapInv, AbortInv,
           KeptInv, PreviousVersionIntact, PartRowsAreStored,
           UndisturbedCompletionIsExact
    <3>l. ListedInv'
      <4>1. \A x \in Completes : pc'[x] = pc[x] \/ pc'[x] \in Final
        BY DEF IInv
      <4> QED
        BY <4>1, ListedFrame DEF IInv
    <3> QED BY <3>1, <3>l DEF IInv
  <2>19. ASSUME Crash
       PROVE  IInv'
    <3> USE <2>19 DEF Crash
    <3>1. /\ TypeOK' /\ RowInv' /\ PartReapInv' /\ ObjectInv' /\ ObjectReapInv'
          /\ AbortInv' /\ ListedInv' /\ KeptInv' /\ PreviousVersionIntact'
          /\ PartRowsAreStored' /\ UndisturbedCompletionIsExact'
      BY DEF IInv, RowInv, PartReapInv, ObjectInv, ObjectReapInv, AbortInv,
           ListedInv, KeptInv, PreviousVersionIntact, PartRowsAreStored,
           UndisturbedCompletionIsExact
    <3> QED BY <3>1 DEF IInv
  <2>20. ASSUME UNCHANGED vars
       PROVE  IInv'
    BY <2>20 DEF IInv, vars, RowInv, PartReapInv, ObjectInv, ObjectReapInv,
       AbortInv, ListedInv, KeptInv, PreviousVersionIntact, PartRowsAreStored,
       UndisturbedCompletionIsExact, ObjBlobs
  <2>21. QED
    BY <2>1, <2>2, <2>3, <2>4, <2>5, <2>6, <2>7, <2>8, <2>9,
          <2>10, <2>11, <2>12, <2>13, <2>14, <2>15, <2>16, <2>17, <2>18,
          <2>19, <2>20, <2>22
    DEF Next, PartStep, CompleteStep, AbortStep
<1>3. QED
  BY <1>1, <1>2, PTL DEF Spec

(* Every variable keeps its type, whatever the requests do. *)
THEOREM TypeCorrect == Spec => []TypeOK
  BY Invariance, PTL DEF IInv

(* No part upload, abort, janitor pass, failure or crash takes the previous
   version's blob away before a completion has replaced the object row. *)
THEOREM PreviousVersionKept == Spec => []PreviousVersionIntact
  BY Invariance, PTL DEF IInv

(* An acknowledged part is on its host for as long as its row is there, unless
   an abort or a janitor pass set out to purge it. *)
THEOREM PartRowsStored == Spec => []PartRowsAreStored
  BY Invariance, PTL DEF IInv

(* A completion commits exactly the content that its client listed, and nobody
   takes a part of it away afterwards, unless an upload of a listed part, an
   abort or another completion commits in between, or an abort purged a part. *)
THEOREM CompletionExact == Spec => []UndisturbedCompletionIsExact
  BY Invariance, PTL DEF IInv

=============================================================================
