-------------------------- MODULE CertifiedReplica ---------------------------
(***************************************************************************)
(* What the hub mirror promises its readers, without sockets, pages or     *)
(* drains: a copy of the hub's tables that follows the hub at its own      *)
(* pace, and a watermark that is raised only to a time through which the   *)
(* copy is complete (src/src/hub/hub_db_sync/lifecycle.js:104-109).        *)
(***************************************************************************)
EXTENDS Naturals

CONSTANTS Tables, Ids

VARIABLES
  hub,       \* hub[t][i]: time of the last change to row i, 0 if absent
  hubTime,   \* the hub's clock
  mirror,    \* the version of each row the copy holds
  watermark  \* the copy is complete through this time
vars == <<hub, hubTime, mirror, watermark>>

Init ==
  /\ hub = [t \in Tables |-> [i \in Ids |-> 0]]
  /\ hubTime = 1
  /\ mirror = hub
  /\ watermark = 0

\* The hub changes a row, at a time later than every change before it.
Change ==
  /\ hubTime' = hubTime + 1
  /\ \E t \in Tables, i \in Ids : hub' = [hub EXCEPT ![t][i] = hubTime + 1]
  /\ UNCHANGED <<mirror, watermark>>

\* Rows arrive in any order, possibly in an older version than the hub now
\* holds, never in an older version than the copy has.
Follow ==
  /\ mirror' = [t \in Tables |-> [i \in Ids |-> mirror'[t][i]]]
  /\ \A t \in Tables, i \in Ids :
       mirror[t][i] <= mirror'[t][i] /\ mirror'[t][i] <= hub[t][i]
  /\ UNCHANGED <<hub, hubTime, watermark>>

Complete(ts) == \A t \in Tables, i \in Ids : hub[t][i] <= ts => mirror[t][i] = hub[t][i]

Certify ==
  /\ watermark' > watermark
  /\ watermark' <= hubTime
  /\ Complete(watermark')
  /\ UNCHANGED <<hub, hubTime, mirror>>

Next == Change \/ Follow \/ Certify

Spec == Init /\ [][Next]_vars
=============================================================================
