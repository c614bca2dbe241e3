---------------------------- MODULE MCLatchFeed ------------------------------
(***************************************************************************)
(* The feed of a coin for TLC.  A behaviour is about the clients that      *)
(* follow it (LiveFeed) or about the cursors over what the ends of its     *)
(* blocks write (LatchCursors), with no client.                            *)
(***************************************************************************)
EXTENDS MCLiveFeed, LatchCursors

CONSTANT Sides
VARIABLE side

Ending(closed, xcall) == [k \in Cursors |-> IF k = "closed" THEN closed ELSE xcall]
MCEndings == {Ending(0, 1), Ending(3, 0)}
MCOneCloseOrNone == {Spending(0, 1), Spending(0, 0)}

MCFewActions == {0, 1}

\* A client loses its connection once; a query of the cursors fails at will.
MCInit ==
  /\ side \in Sides
  /\ LatchInit
  /\ IF side = "clients"
     THEN /\ left = Spending(0, 1) /\ chain[1].top = 1
          /\ missing = {} /\ latches = [n \in 1..minted |-> Ending(0, 1)]
     ELSE left = Spending(0, 0) /\ chain[1].top = 0

MCNext ==
  /\ UNCHANGED side
  /\ IF side = "clients" THEN Next /\ UNCHANGED latchVars ELSE LatchNext

\* Three blocks ever indexed are enough for the cursors; with a client,
\* four once a replacement has left at most two actions on the chain.
FewBlocks == IF side = "latches" THEN minted <= 3 ELSE MaxAction + minted <= 6

MCSpec == MCInit /\ [][MCNext]_<<vars, latchVars, side>>
=============================================================================
