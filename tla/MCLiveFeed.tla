----------------------------- MODULE MCLiveFeed ------------------------------
(***************************************************************************)
(* Instances of LiveFeed for TLC.                                          *)
(***************************************************************************)
EXTENDS LiveFeed

CONSTANT c1

MCOneClient == {c1}

MCNoActions == {0}
MCSomeActions == {1}

Spending(query, close) == [f \in Faults |-> IF f = "query" THEN query ELSE close]
MCNoFaults == {Spending(0, 0)}
MCOneClose == {Spending(0, 1)}
MCBothFaults == {Spending(1, 1)}
MCEitherFault == {Spending(1, 0), Spending(0, 1)}
MCMoreFaults == {Spending(1, 2)}
MCLimits == MCOneClose \cup MCMoreFaults
=============================================================================
