----------------------------- MODULE RequestPath -----------------------------
(***************************************************************************)
(* A request from the socket to the database, and the process that must    *)
(* stop under it: the concurrency gate (src/src/http/concurrency_gate.js), *)
(* a statement run against its deadline (src/src/db/connection.js doQuery) *)
(* and the shutdown drain (src/src/http/shutdown.js), with the poll of the *)
(* live feed as one more reader.                                           *)
(*                                                                         *)
(* The driver's pool, the server behind it and the clients are external:   *)
(* a connection is handed out, refused or withheld, a statement answers,   *)
(* fails or hangs, a client waits, goes away or sends its next request     *)
(* down a kept-alive socket.                                               *)
(***************************************************************************)
EXTENDS Integers, FiniteSets

CONSTANTS
  Clients,       \* requests of clients, each made once
  Poll,          \* the change detector, which reads pass after pass
  GateLimit,     \* requests in flight at once; 0 disables the gate
  PoolSize,      \* connections of the pool
  MaxRetrys,     \* retries of an acquisition that was refused
  MaxReads       \* bound: statements of one request, or of the poll

ASSUME ReadersAssumption == Poll \notin Clients /\ IsFiniteSet(Clients)
ASSUME LimitsAssumption == /\ GateLimit \in Nat /\ PoolSize \in Nat \ {0}
                           /\ MaxRetrys \in Nat /\ MaxReads \in Nat \ {0}

Readers == Clients \cup {Poll}
\* A statement is named by its reader and its number there.
Calls == Readers \X (1..MaxReads)

VARIABLES
  sock,          \* sock[r]: the connection request r came on
  holding,       \* requests whose slot is not released
  inFlight,      \* the gate's counter
  closes,        \* answered requests whose response is still to close
  job,           \* job[a]: a reader and the statement it waits for
  pending,       \* acquisitions the pool has not settled
  held,          \* statements a connection is handed to
  stage          \* how far the shutdown is
gateVars == <<sock, holding, inFlight, closes>>
poolVars == <<job, pending, held>>
requestVars == <<gateVars, poolVars, stage>>

Up == stage \notin {"clean", "hard"}
Idle == [pc |-> "idle", n |-> 0, due |-> FALSE, tries |-> 0]
Busy(r) == sock[r] = "busy"

-----------------------------------------------------------------------------
(* The gate.  'finish' and 'close' of a response both release its slot;    *)
(* the first one counts.                                                   *)

\* Defect: the slot is released by each of the two events.
Uncounted(r) == 1
Released(r) == IF r \in holding THEN 1 ELSE 0

Release(r) ==
  /\ holding' = holding \ {r}
  /\ inFlight' = inFlight - Released(r)

Full == GateLimit > 0 /\ inFlight >= GateLimit

\* On a new connection while one is accepted, or on one kept alive.
Connects(r) ==
  /\ Up /\ sock[r] = "none"
  /\ \/ stage \in {"up", "pollers"} /\ \E to \in {"busy", "kept"} : sock' = [sock EXCEPT ![r] = to]
     \/ \E k \in Clients \ {r} : /\ sock[k] = "kept"
                                 /\ \E to \in {"busy", "kept"} :
                                      sock' = [sock EXCEPT ![k] = "gone", ![r] = to]

Admitted(r) ==
  /\ Connects(r) /\ sock'[r] = "busy" /\ ~Full
  /\ IF GateLimit > 0 THEN holding' = holding \cup {r} /\ inFlight' = inFlight + 1
     ELSE UNCHANGED <<holding, inFlight>>
  /\ job' = [job EXCEPT ![r].pc = "run"]
  /\ UNCHANGED <<closes, pending, held, stage>>

\* The answer to a shed request is sent at once.
Shed(r) ==
  /\ Connects(r) /\ sock'[r] = "kept" /\ Full
  /\ UNCHANGED <<holding, inFlight, closes, poolVars, stage>>

AnswerSent(r) ==
  /\ Up /\ Busy(r) /\ job[r].pc = "over"
  /\ sock' = [sock EXCEPT ![r] = "kept"]
  /\ Release(r)
  /\ closes' = closes \cup {r}
  /\ UNCHANGED <<poolVars, stage>>

ResponseCloses(r) ==
  /\ Up /\ r \in closes
  /\ Release(r)
  /\ closes' = closes \ {r}
  /\ UNCHANGED <<sock, poolVars, stage>>

\* A client gives up: its slot is free, its handler reads on.
Aborted(r) ==
  /\ Up /\ Busy(r)
  /\ sock' = [sock EXCEPT ![r] = "gone"]
  /\ Release(r)
  /\ UNCHANGED <<closes, poolVars, stage>>

KeepAliveEnds(r) ==
  /\ Up /\ sock[r] = "kept"
  /\ sock' = [sock EXCEPT ![r] = "gone"]
  /\ UNCHANGED <<holding, inFlight, closes, poolVars, stage>>

-----------------------------------------------------------------------------
(* doQuery.  One deadline covers the acquisitions, the sleeps between      *)
(* them and the statement; its timer runs while one of them is awaited,    *)
(* but not while the retry sleeps.                                         *)

Reading == {"acquire", "sleep", "query"}
Call(a) == <<a, job[a].n>>
Goes(a, pc) == job' = [job EXCEPT ![a].pc = pc]

\* A failed read is a 500 for a client; the poll goes on to the next coin.
ReadFails(a) == Goes(a, IF a = Poll THEN "run" ELSE "over")

Statement(a) ==
  /\ Up /\ job[a].pc = "run" /\ job[a].n < MaxReads
  /\ job' = [job EXCEPT ![a] = [pc |-> "acquire", n |-> @.n + 1, due |-> FALSE, tries |-> 0]]
  /\ pending' = pending \cup {<<a, job[a].n + 1>>}
  /\ UNCHANGED <<gateVars, held, stage>>

DeadlinePasses(a) ==
  /\ Up /\ job[a].pc \in Reading /\ ~job[a].due
  /\ job' = [job EXCEPT ![a].due = TRUE]
  /\ UNCHANGED <<gateVars, pending, held, stage>>

Waits(call) == Call(call[1]) = call /\ job[call[1]].pc = "acquire"

\* Defect: a connection that comes too late is dropped, not destroyed.
Leaked(call) == {call}
\* onLateResolve: nobody waits for the connection any more.
LateHeld(call) == {}

PoolGrants(call) ==
  /\ Up /\ stage # "pools" /\ call \in pending
  /\ Cardinality(held) < PoolSize
  /\ pending' = pending \ {call}
  /\ IF Waits(call) THEN Goes(call[1], "query") /\ held' = held \cup {call}
     ELSE UNCHANGED job /\ held' = held \cup LateHeld(call)
  /\ UNCHANGED <<gateVars, stage>>

PoolRefuses(call) ==
  /\ Up /\ call \in pending
  /\ pending' = pending \ {call}
  /\ LET a == call[1]
     IN  IF ~Waits(call) THEN UNCHANGED job
         ELSE IF job[a].tries <= MaxRetrys
              THEN job' = [job EXCEPT ![a].pc = "sleep", ![a].tries = @ + 1]
              ELSE ReadFails(a)
  /\ UNCHANGED <<gateVars, held, stage>>

SleepEnds(a) ==
  /\ Up /\ job[a].pc = "sleep"
  /\ Goes(a, "acquire")
  /\ pending' = pending \cup {Call(a)}
  /\ UNCHANGED <<gateVars, held, stage>>

QueryEnds(a) ==
  /\ Up /\ job[a].pc = "query"
  /\ Goes(a, "run") \/ ReadFails(a)
  /\ held' = held \ {Call(a)}
  /\ UNCHANGED <<gateVars, pending, stage>>

\* A statement that is overdue takes its connection with it.
TimesOut(a) ==
  /\ Up /\ job[a].due /\ job[a].pc \in {"acquire", "query"}
  /\ ReadFails(a)
  /\ held' = held \ {Call(a)}
  /\ UNCHANGED <<gateVars, pending, stage>>

HandlerEnds(r) ==
  /\ Up /\ r \in Clients /\ job[r].pc = "run"
  /\ Goes(r, "over")
  /\ UNCHANGED <<gateVars, pending, held, stage>>

-----------------------------------------------------------------------------
(* The poll: one pass at a time, none after stop().                        *)

PassBegins ==
  /\ stage = "up" /\ job[Poll].pc = "idle"
  /\ Goes(Poll, "run")
  /\ UNCHANGED <<gateVars, pending, held, stage>>

PassEnds ==
  /\ Up /\ job[Poll].pc = "run"
  /\ Goes(Poll, "idle")
  /\ UNCHANGED <<gateVars, pending, held, stage>>

-----------------------------------------------------------------------------
(* The drain: the poll is stopped and its pass awaited, the listeners are  *)
(* closed and their connections awaited, the pools come last.  A second    *)
(* signal changes nothing.                                                 *)

Signalled ==
  /\ stage = "up" /\ stage' = "pollers"
  /\ UNCHANGED <<gateVars, poolVars>>

\* Defect: the detector's stop() clears its timer and returns.
StopsAtOnce == TRUE
PassOver == job[Poll].pc = "idle"

\* close() and closeIdleConnections(); requests being served are left alone.
ListenersClose ==
  /\ stage = "pollers" /\ PassOver
  /\ stage' = "listeners"
  /\ sock' = [r \in Clients |-> IF sock[r] = "kept" THEN "gone" ELSE sock[r]]
  /\ UNCHANGED <<holding, inFlight, closes, poolVars>>

\* Defect: the drain goes on once the listener accepts no more.
NotListening == TRUE
NoConnections == \A r \in Clients : sock[r] \notin {"busy", "kept"}

PoolsEnd ==
  /\ stage = "listeners" /\ NoConnections
  /\ stage' = "pools"
  /\ UNCHANGED <<gateVars, poolVars>>

CleanExit ==
  /\ stage = "pools" /\ stage' = "clean"
  /\ UNCHANGED <<gateVars, poolVars>>

HardExit ==
  /\ stage \in {"pollers", "listeners", "pools"} /\ stage' = "hard"
  /\ UNCHANGED <<gateVars, poolVars>>

-----------------------------------------------------------------------------
RequestInit ==
  /\ sock = [r \in Clients |-> "none"]
  /\ holding = {} /\ inFlight = 0 /\ closes = {}
  /\ job = [a \in Readers |-> Idle] /\ pending = {} /\ held = {}
  /\ stage = "up"

RequestNext ==
  \/ \E r \in Clients : \/ Admitted(r) \/ Shed(r) \/ AnswerSent(r) \/ ResponseCloses(r)
                        \/ Aborted(r) \/ KeepAliveEnds(r) \/ HandlerEnds(r)
  \/ \E a \in Readers : \/ Statement(a) \/ DeadlinePasses(a) \/ SleepEnds(a)
                        \/ QueryEnds(a) \/ TimesOut(a)
  \/ \E call \in pending : PoolGrants(call) \/ PoolRefuses(call)
  \/ PassBegins \/ PassEnds
  \/ Signalled \/ ListenersClose \/ PoolsEnd \/ CleanExit \/ HardExit

RequestSpec == RequestInit /\ [][RequestNext]_requestVars

-----------------------------------------------------------------------------
Job == [pc : {"idle", "run", "over"} \cup Reading, n : 0..MaxReads, due : BOOLEAN,
        tries : 0..(MaxRetrys + 1)]

\* The state is of its types (concurrency_gate.js 63-64, connection.js 250-276,
\* shutdown.js 87-99).
RequestTypeOK ==
  /\ sock \in [Clients -> {"none", "busy", "kept", "gone"}]
  /\ holding \subseteq Clients /\ closes \subseteq Clients /\ inFlight \in Int
  /\ job \in [Readers -> Job]
  /\ pending \subseteq Calls /\ held \subseteq Calls
  /\ stage \in {"up", "pollers", "listeners", "pools", "clean", "hard"}

\* The connections handed out are those of the statements running: one that
\* arrives after its caller timed out does not leak, one whose statement timed
\* out is gone, and no statement runs without one (connection.js 86-115, 277-290).
ConnectionsAccounted == held = {Call(a) : a \in {b \in Readers : job[b].pc = "query"}}

\* The gate counts the requests whose client still waits, exactly, however
\* answers, closes and aborts arrive: it neither ratchets shut nor lets more in
\* (concurrency_gate.js 76-89).
SlotsAccounted ==
  GateLimit > 0 => /\ inFlight = Cardinality({r \in Clients : Busy(r)})
                   /\ inFlight <= GateLimit

\* Nothing leaks: neither a connection of the pool nor a slot of the gate.
NothingLeaks == ConnectionsAccounted /\ SlotsAccounted

\* The pools close under nobody: no client waits for an answer and no pass of
\* the poll runs once they do, so a clean exit has cut nobody off (shutdown.js
\* 132-137, ws/change_detector.js 184-193).
PoolsCloseLast ==
  stage \in {"pools", "clean"} => job[Poll].pc = "idle" /\ \A r \in Clients : ~Busy(r)
=============================================================================
