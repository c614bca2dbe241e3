----------------------------- MODULE MCHubMoves ------------------------------
(* Instances of HubMoves for TLC: a table paged on every connection and one *)
(* whose position is kept, of two pages.                                    *)
EXTENDS HubMoves

CONSTANTS hubA, hubB, hubC

MCTwo == {hubA, hubB}
MCThree == {hubA, hubB, hubC}
MCTables == <<"oracle_prices", "policy_snapshots">>
MCRepaged == {"oracle_prices"}
MCPages == [t \in AllTables |-> IF t \in Repaged THEN 1 ELSE 2]

Spending(hub_, replace, refuse, rest, stall_) ==
  [f \in {"hub", "replace", "refuse", "rest", "stall"} |->
     CASE f = "hub" -> hub_ [] f = "replace" -> replace [] f = "refuse" -> refuse
       [] f = "rest" -> rest [] f = "stall" -> stall_]
MCMoves == {Spending(1, 0, 0, 0, 0), Spending(0, 1, 0, 0, 0), Spending(0, 0, 1, 0, 0),
            Spending(0, 0, 0, 1, 0), Spending(0, 0, 0, 0, 1)}
MCColdStart == {Spending(0, 0, 1, 0, 0)}

\* The two seeds differ in nothing but their place, so one order is enough; a
\* database is replaced with the third hub up.
MCInit ==
  /\ Init
  /\ candidates = <<hubA, hubB>>
  /\ budget["replace"] > 0 => hub[hubC] = "ready"
MCSpec == MCInit /\ [][Next]_vars /\ Fairness
=============================================================================
