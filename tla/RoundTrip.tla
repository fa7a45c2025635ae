------------------------------ MODULE RoundTrip ------------------------------
(***************************************************************************)
(* A PUT followed by a read: the chunk map that BodyUpload commits is the  *)
(* one that WindowRead reads any window of.                                *)
(***************************************************************************)
EXTENDS BodyUpload, WindowRead

vars == <<bodyVars, windowVars>>

Init ==
  /\ BodyInit
  /\ WindowIdle
  /\ locs = << >> /\ objSize = 0

(* Store.PutObject: the rows that planRead turns into the chunk map. *)
Publish ==
  /\ Commit
  /\ locs' = IF bpc' = "stored" THEN chunks ELSE << >>
  /\ objSize' = IF bpc' = "stored" THEN got ELSE 0
  /\ UNCHANGED <<cands, keeps, hedging, chunkVars, raceVars, running, results, ctxDone, failed>>

Upload ==
  /\ \/ PlainRead \/ FinalFrame \/ BadHeader \/ NextFrame \/ FrameData \/ AfterFinal
     \/ StoreChunk \/ StoreChunkFails \/ ValidateSize
  /\ UNCHANGED windowVars

(* A window of the object is asked for.  The PUT has returned, and what it
   knew of its request is gone. *)
Request ==
  /\ bpc = "stored" /\ bpc' = "gone"
  /\ \E from \in 0..objSize, limit \in 1..MaxWindow : Chunk(from, limit)
  /\ framed' = FALSE /\ declared' = Undeclared /\ wire' = "eof"
  /\ remaining' = 0 /\ done' = FALSE /\ got' = 0 /\ buf' = << >>
  /\ rerr' = "nil" /\ offset' = 0 /\ chunks' = << >>

Download(A) == A /\ UNCHANGED bodyVars

Next == Upload \/ Publish \/ Request \/ Download(WindowStep)

(* The worker and the hedge timer run; a cancelled context is noticed; an
   attempt ends unless its host is stuck, and then once it is cancelled. *)
Fairness ==
  /\ WF_vars(Download(WorkerStep))
  /\ WF_vars(Download(Hedge))
  /\ WF_vars(Download(RaceCancelled))
  /\ \A i \in 1..MaxBody, r \in Replicas :
       WF_vars(Download(/\ i \in Pieces /\ (r \in Stuck => Cancelled(i))
                        /\ AttemptStep(i, r)))

Spec == Init /\ [][Next]_vars /\ Fairness

(* Type invariant. *)
TypeOK == BodyTypeOK /\ WindowTypeOK
=============================================================================
