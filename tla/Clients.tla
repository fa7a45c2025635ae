------------------------------- MODULE Clients -------------------------------
(***************************************************************************)
(* The walks that take several steps over a store that changes in between: *)
(* a client's listing, the sweep over all objects, and a client's          *)
(* download.  They share nothing but the store, and each is looked at by   *)
(* itself, against any changes.                                            *)
(***************************************************************************)
EXTENDS Listing, SweepCursor, ResumedGet

vars == <<keyVars, listVars, sweepVars, getVars>>

Init ==
  \E walk \in {"list", "sweep", "get"} :
    /\ ListInit(walk = "list")
    /\ SweepInit(walk = "sweep")
    /\ IF walk = "get" THEN present = {} /\ changes = 0 /\ steady = {} /\ put = {}
                        ELSE KeysInit
    /\ GetInit /\ (walk # "get" => versions[1].size = 0)

Listings == (listObjects \/ listObjectVersions) /\ UNCHANGED <<sweepVars, getVars>>
Sweeps == (RunOnce \/ RunOnceFails \/ Restart) /\ UNCHANGED <<listVars, getVars>>
Changes ==
  /\ lpc = "page" \/ spc = "on"
  /\ \E k \in Keys : PutKey(k) \/ DeleteKey(k)
  /\ UNCHANGED <<listVars, sweepVars, getVars>>
Downloads ==
  /\ lpc = "off" /\ spc = "off"
  /\ GetStep
  /\ UNCHANGED <<keyVars, listVars, sweepVars>>

Next == Listings \/ Sweeps \/ Changes \/ Downloads

(* The sweep's ticker keeps ticking. *)
Fairness == WF_vars(RunOnce /\ UNCHANGED <<listVars, getVars>>)

Spec == Init /\ [][Next]_vars /\ Fairness

(* Type invariant. *)
TypeOK == KeysTypeOK /\ ListTypeOK /\ SweepTypeOK /\ GetTypeOK
=============================================================================
