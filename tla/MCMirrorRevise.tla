--------------------------- MODULE MCMirrorRevise ----------------------------
(***************************************************************************)
(* HubMirror for TLC where the hub changes rows in place, and, in the      *)
(* behaviours in which it only appends, where snapshots are also answered  *)
(* while no subscription is up.                                            *)
(***************************************************************************)
EXTENDS MCHubMirror

Alone == INSTANCE HubMirror WITH RestWithoutStream <- TRUE

\* A refused first connection, or one that closes, and a failing row.
MCUnsubscribed == With({}, Spending(1, 0, 1, 0, 0, 0))
MCRevising == {MCRepages, MCResyncs, MCReprices, MCUnsubscribed}

MCNext == Next \/ (env.revised = {} /\ Alone!Next)
MCSpec == Init /\ [][MCNext]_vars

\* Where it only appends, two rows of the re-paged table are enough.
FewChanges == env.revised = {} => hubTime <= 2 /\ hubMax[price] = 0
=============================================================================
