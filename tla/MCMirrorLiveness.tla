--------------------------- MODULE MCMirrorLiveness ---------------------------
(***************************************************************************)
(* Liveness of the mirror for TLC: a behaviour is about its connection and *)
(* drains (HubMirror) or about a block held by a barrier (Barriers), the   *)
(* other half standing still.                                              *)
(***************************************************************************)
EXTENDS MCHubMirror, Barriers

VARIABLE part
Drains == part = "drains"
Blocks == part = "blocks"

\* The drains' half stands still before its first step, a barrier's half with
\* its one block through.
MCInit ==
  /\ part \in {"drains", "blocks"}
  /\ Init
  /\ Blocks => env = CHOOSE scenario \in Scenarios : TRUE
  /\ IF Blocks THEN BarrierInit
     ELSE /\ NothingYet /\ barrierTable = "match" /\ second = MaxSecond
          /\ passed = [NoBlock EXCEPT !.time = 1]

MCNext ==
  /\ UNCHANGED part
  /\ IF Drains THEN Next /\ UNCHANGED barrierVars ELSE BarrierNext /\ UNCHANGED vars

MCSpec ==
  MCInit /\ [][MCNext]_<<vars, barrierVars, part>> /\ (Drains => Fairness) /\ BarrierFairness

\* Once the faults stop the gate opens for good, the watermark reaches the
\* hub's clock and the mirror holds every row; or, where the hub sent a row of
\* another schema version, the mirror is left parked for good.  The latch of a
\* refusal outside that case, on a shut gate or with nothing owed, is always
\* lifted.
DrainsConverge == <>[](Blocks \/ Converged \/ Parked)
=============================================================================
