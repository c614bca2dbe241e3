---------------------------- MODULE MCMirrorRows -----------------------------
(***************************************************************************)
(* The rows of the mirror and their readers, for TLC.  A behaviour is      *)
(* about one of three independent parts, the others standing still: a row  *)
(* under reorgs (RowFences), a block held by a barrier that judges by what *)
(* it has cached (Barriers) or by a query (SnapshotBarrier).               *)
(***************************************************************************)
EXTENDS RowFences, Barriers, SnapshotBarrier

CONSTANT Parts
VARIABLE part

\* Releases one at a time, of which none fails, or whatever the code allows.
MCTroubles == {[overlaps |-> FALSE, failing |-> {"wait"}, failures |-> 1],
               [overlaps |-> TRUE, failing |-> {"wait", "frame", "drain", "timer"}, failures |-> 1]}
MCQueryFails == {[overlaps |-> FALSE, failing |-> {"timer"}, failures |-> 1]}
MCFaults == [k \in Faults |-> IF k = "close" THEN 2 ELSE 1]

MCInit ==
  /\ part \in Parts
  /\ RowInit /\ BarrierInit /\ SnapInit
  /\ part = "row" \/ kind = "oracle"
  /\ part = "barrier" \/ barrierTable = "match"
  /\ part = "snapshot" \/ trouble = CHOOSE t \in SnapTroubles : TRUE

MCNext ==
  /\ UNCHANGED part
  /\ IF part = "row" THEN RowNext ELSE UNCHANGED rowVars
  /\ IF part = "barrier" THEN BarrierNext ELSE UNCHANGED barrierVars
  /\ IF part = "snapshot" THEN SnapNext ELSE UNCHANGED snapVars

MCSpec == MCInit /\ [][MCNext]_<<rowVars, barrierVars, snapVars, part>>
=============================================================================
