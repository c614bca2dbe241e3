------------------------------ MODULE MCCaches -------------------------------
(***************************************************************************)
(* What answers a request, for TLC: a behaviour is about the caches a      *)
(* reorg empties (TipCaches), about those bounded by age (AgeCaches) or    *)
(* about the gate and the pool between a socket and the database           *)
(* (RequestPath), the rest standing still.                                 *)
(***************************************************************************)
EXTENDS TipCaches, AgeCaches, RequestPath, TLC

VARIABLE part

CONSTANTS r1, r2
MCRequests == {r1, r2}
MCOverlap == [c \in {"id", "list"} |-> IF c = "id" THEN 2 ELSE 1]
MCActions == [c \in {"action"} |-> 1]
Symmetry == Permutations(MCRequests)
MCClients == {r1, r2}

MCInit ==
  /\ Init /\ AgeInit /\ RequestInit
  /\ \/ part = "tip" /\ ageCache = "rows"
     \/ part = "age" /\ cache = "id"
     \/ part = "request" /\ cache = "id" /\ ageCache = "rows"

MCNext ==
  /\ UNCHANGED part
  /\ \/ part = "tip" /\ Next /\ UNCHANGED <<ageVars, requestVars>>
     \/ part = "age" /\ AgeNext /\ UNCHANGED <<vars, requestVars>>
     \/ part = "request" /\ RequestNext /\ UNCHANGED <<vars, ageVars>>

MCSpec == MCInit /\ [][MCNext]_<<vars, ageVars, requestVars, part>>

(* The state of the caches and of the request path is of its types.        *)
TypesOK == TypeOK /\ RequestTypeOK
=============================================================================
