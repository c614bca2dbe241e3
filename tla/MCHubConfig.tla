---------------------------- MODULE MCHubConfig ------------------------------
(***************************************************************************)
(* Instances of HubConfig for TLC: two hubs, a coin and another key.       *)
(***************************************************************************)
EXTENDS HubConfig, TLC

CONSTANTS hubA, hubB, p1, p2

MCHubs == {hubA, hubB}
MCParams == {p1, p2}
MCCoinParams == {p1}
\* One hub starts with the coin, the other with a key that is none.
MCFirsts == {(hubA :> p1 @@ hubB :> p2)}

Spending(down, degraded, error, restore, restart, disk_) ==
  [f \in Faults |-> CASE f = "down" -> down [] f = "degraded" -> degraded
                      [] f = "error" -> error [] f = "restore" -> restore
                      [] f = "restart" -> restart [] f = "disk" -> disk_]
MCFailures == {Spending(0, 1, 1, 0, 0, 0), Spending(1, 0, 0, 0, 1, 1), Spending(0, 0, 0, 1, 0, 0)}
MCUnreachable == {Spending(1, 0, 0, 0, 0, 0)}
=============================================================================
