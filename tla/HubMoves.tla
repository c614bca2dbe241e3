------------------------------ MODULE HubMoves ------------------------------
(***************************************************************************)
(* Which hub the mirror follows (src/src/hub/hub_db_sync/: hub_selector,   *)
(* failover/, instance_state, and the parts of lifecycle, transport and    *)
(* watermarks they meet): the selector's ring of candidates, the moves to  *)
(* the next one after failed connects, after a ready frame that says the   *)
(* hub is not caught up and after a stall, and the drains, positions and   *)
(* certificates a move must not carry from one hub to another.             *)
(*                                                                         *)
(* The hubs are external: each is down, behind or caught up, and serves    *)
(* one database instance at a time.  Rows are not modelled: a position or  *)
(* a certificate is the set of instances its pages came from, with a mark  *)
(* for the two ways it can come by pages of a hub that is not followed:    *)
(* Late, a page whose drain was stale when it landed, and Adopted, what    *)
(* was drained when a ready frame came that nothing could tell whether it  *)
(* was of the same instance.  _wsEpoch and _selectorRevision appear as     *)
(* what is still current: a drain and the certified tables lose that when  *)
(* either is bumped.                                                       *)
(***************************************************************************)
EXTENDS Integers, Sequences, FiniteSets, SequencesExt

CONSTANTS
  Hubs,              \* all hubs
  Seeds,             \* HUB_SEED_URLS, unshuffled
  Tables,            \* the mirrored tables, in the order they drain
  Repaged,           \* REPAGE_PER_CONNECTION_TABLES
  ReconnectAttempts, \* connect failures in a row that justify a move
  MaxPages,          \* pages of each table
  Late, Adopted,     \* the marks
  Faults,            \* the budgets a behaviour may start with
  None

ASSUME HubsAssumption == /\ IsFiniteSet(Hubs) /\ Seeds \subseteq Hubs /\ Seeds # {}
                         /\ None \notin Hubs /\ None \notin Hubs \X Nat
                         /\ {Late, Adopted} \cap (Hubs \X Nat) = {} /\ Late # Adopted
ASSUME TablesAssumption == Tables \in Seq(STRING) /\ Tables # <<>> /\ Repaged \subseteq Range(Tables)
ASSUME BoundsAssumption == ReconnectAttempts \in Nat \ {0} /\ MaxPages \in [Range(Tables) -> Nat \ {0}]

VARIABLES
  hub,         \* hub[h]: "down", "behind" (ready frames say caught_up: false), "ready"
  instance,    \* instance[h]: its database instance
  budget       \* faults left
hubVars == <<hub, instance, budget>>

VARIABLES
  candidates,  \* the selector's ring
  followed,    \* its index
  answers,     \* _notCaughtUpAnswers
  grace,       \* _notCaughtUpSince: "off", "running", "passed"
  dwell,       \* has the dwell since the last move passed?
  streak       \* connect failures in a row
moveVars == <<candidates, followed, answers, grace, dwell, streak>>

VARIABLES
  sock,        \* "none", "starting" (start()'s own connect), "connecting", "ready",
               \* "ending" (closing after it was ready), "failing"
  url,         \* hubUrl: the hub of the last connect
  caughtUp,    \* _readyCaughtUp: "unknown", "no", "yes"
  handled,     \* _readyCaughtUpHandled
  lastInstance,\* _lastHubInstanceId
  reconnect,   \* is the reconnect timer set?
  bootCall     \* will a fresh connection call bootstrapAll?
linkVars == <<sock, url, caughtUp, handled, lastInstance, reconnect, bootCall>>

VARIABLES
  drain,       \* the drain under way
  positions,   \* _drainPositions: the instances a position stands on, {} for zero
  owed,        \* _repageOwed
  built,       \* the certified tables: the instances each was drained from
  gate,        \* _bootstrapDrained
  retry,       \* is the bootstrap retry timer set?
  stall,       \* the stall detector: "cold", "armed", "resynced"
  listDue      \* is the hub's list of hubs on its way?
drainVars == <<drain, positions, owed, built, gate, retry, stall, listDue>>
vars == <<hubVars, moveVars, linkVars, drainVars>>

AllTables == Range(Tables)
Source(h) == <<h, instance[h]>>
Sources == Hubs \X Nat
Pages == Sources \cup {Late, Adopted}
Selected == candidates[followed]
NoPosition == [t \in AllTables |-> {}]

-----------------------------------------------------------------------------
(* The hubs.                                                               *)

Spend(f) == budget[f] > 0 /\ budget' = [budget EXCEPT ![f] = @ - 1]
Lost(h) == IF url = h /\ sock = "ready" THEN "ending" ELSE sock

HubChanges ==
  /\ Spend("hub")
  /\ \E h \in Hubs : \E s \in {"down", "behind", "ready"} \ {hub[h]} :
       /\ hub' = [hub EXCEPT ![h] = s]
       /\ sock' = IF s = "down" THEN Lost(h) ELSE sock
  /\ UNCHANGED <<instance, moveVars, url, caughtUp, handled, lastInstance, reconnect, bootCall, drainVars>>

HubReplaced ==
  /\ Spend("replace")
  /\ \E h \in Hubs : instance' = [instance EXCEPT ![h] = @ + 1] /\ sock' = Lost(h)
  /\ UNCHANGED <<hub, moveVars, url, caughtUp, handled, lastInstance, reconnect, bootCall, drainVars>>

-----------------------------------------------------------------------------
(* Moves (failover/triggers.js, failover/move_policy.js).                  *)

\* Every drain and certificate opened before is stale.
Stale == drain' = [drain EXCEPT !.current = FALSE]

\* Defect: a move keeps the answers of the hubs it has been told about only
\* until it moves.
ForgottenAnswers(heard) == {}
AnswersAfter(heard) == heard

\* Defect: the ring has no end.
PastTheLast == followed + 1
NextIndex == (followed % Len(candidates)) + 1

\* moveHub with the selector's advance and resetForMove.
Move(heard) ==
  /\ followed' = NextIndex
  /\ answers' = AnswersAfter(heard)
  /\ grace' = "off" /\ dwell' = FALSE /\ streak' = 0
  /\ positions' = NoPosition
  /\ lastInstance' = None
  /\ gate' = FALSE /\ built' = [t \in {} |-> {}]
  /\ Stale
  /\ UNCHANGED candidates

AllBehind(heard) == Len(candidates) > 1 /\ Range(candidates) \subseteq heard

GraceElapses ==
  /\ grace = "running" /\ grace' = "passed"
  /\ UNCHANGED <<hubVars, candidates, followed, answers, dwell, streak, linkVars, drainVars>>
DwellElapses ==
  /\ ~dwell /\ dwell' = TRUE
  /\ UNCHANGED <<hubVars, candidates, followed, answers, grace, streak, linkVars, drainVars>>

-----------------------------------------------------------------------------
(* uncaughtUpBlocks: an answer, and what asking changes.                   *)

Elsewhere == Len(candidates) > 1 /\ ~AllBehind(answers)
Blocked == caughtUp = "no" /\ (Elsewhere \/ grace # "passed")
GraceAsked == CASE caughtUp = "yes" -> "off"
                [] caughtUp = "no" /\ ~Elsewhere /\ grace = "off" -> "running"
                [] OTHER -> grace
Asked == answers' = (IF caughtUp = "yes" THEN {} ELSE answers) /\ grace' = GraceAsked

IdleDrain == [pc |-> "idle", table |-> 1, page |-> 0, current |-> FALSE, from |-> {}, asks |-> None,
              settles |-> FALSE, failed |-> FALSE]
Running == drain.pc # "idle"

BeginDrain ==
  /\ ~Blocked /\ Asked
  /\ drain' = [IdleDrain EXCEPT !.pc = "opening", !.current = TRUE]
  /\ UNCHANGED <<candidates, followed, dwell, streak, sock, handled, lastInstance, positions, built, gate>>

\* rejectUncaughtUpReadyFrame, once for each ready frame.
RejectHub ==
  /\ Blocked /\ ~handled
  /\ handled' = TRUE /\ sock' = "ending"
  /\ LET heard == IF Len(candidates) > 1 THEN answers \cup {Selected} ELSE answers IN
     IF Len(candidates) > 1 /\ ~AllBehind(heard) THEN Move(heard)
     ELSE /\ answers' = heard /\ grace' = GraceAsked
          /\ UNCHANGED <<candidates, followed, dwell, streak, positions, lastInstance, gate, built, drain>>

RejectedAlready ==
  /\ Blocked /\ handled /\ Asked
  /\ UNCHANGED <<candidates, followed, dwell, streak, sock, handled, lastInstance, positions, built, gate, drain>>

BootstrapAll ==
  IF Running
  THEN UNCHANGED <<moveVars, sock, handled, lastInstance, positions, built, gate, drain>>
  ELSE BeginDrain \/ RejectHub \/ RejectedAlready

-----------------------------------------------------------------------------
(* The connection (transport.js, lifecycle.js scheduleReconnect).          *)

Pending == sock \in {"starting", "connecting"}

Connect ==
  /\ reconnect /\ sock = "none"
  /\ reconnect' = FALSE
  /\ url' = Selected
  /\ sock' = "connecting"
  /\ UNCHANGED <<hubVars, moveVars, caughtUp, handled, lastInstance, bootCall, drainVars>>

\* Defect: a ready frame keeps the positions it finds.
KeepPositions(source) == positions
PositionsFor(source) == IF source = lastInstance THEN positions ELSE NoPosition

\* Without an instance to compare with, what is drained and the drain under
\* way stay current whichever instance they paged.
Adopt(pages) == IF lastInstance = None THEN pages \cup {Adopted} ELSE pages

\* adoptReadyFrame.
ReadyArrives ==
  /\ Pending /\ hub[url] # "down"
  /\ sock' = "ready" /\ bootCall' = TRUE /\ streak' = 0
  /\ caughtUp' = IF hub[url] = "ready" THEN "yes" ELSE "no"
  /\ handled' = FALSE
  /\ LET source == Source(url)
         replaced == lastInstance \notin {None, source}
     IN /\ lastInstance' = source
        /\ positions' = PositionsFor(source)
        /\ gate' = (gate /\ ~replaced)
        /\ built' = IF replaced THEN [t \in {} |-> {}] ELSE [t \in DOMAIN built |-> Adopt(built[t])]
        /\ drain' = [drain EXCEPT !.current = @ /\ ~replaced,
                                  !.from = IF drain.current /\ drain.pc \in {"asking", "landing"} THEN Adopt(@) ELSE @,
                                  !.settles = @ /\ Tables[drain.table] \notin Repaged]
  /\ owed' = owed \cup Repaged
  /\ UNCHANGED <<hubVars, candidates, followed, answers, grace, dwell, url, reconnect, retry, stall, listDue>>

\* resetOnSocketClose and scheduleReconnect.
Closed ==
  /\ sock' = "none" /\ caughtUp' = "unknown" /\ handled' = FALSE
  /\ reconnect' = TRUE

SocketCloses ==
  /\ sock = "ending" /\ Closed
  /\ lastInstance' \in {lastInstance, None}        \* None: closed with code 1012
  /\ gate' = FALSE /\ built' = [t \in {} |-> {}] /\ Stale
  /\ UNCHANGED <<hubVars, moveVars, url, bootCall, positions, owed, retry, stall, listDue>>

\* Defect: only the hub that sent a ready frame is ever left.
NeverMoves == FALSE
FailuresJustifyMove == streak + 1 >= ReconnectAttempts /\ Len(candidates) > 1 /\ dwell

Refused == \/ sock = "failing" /\ UNCHANGED budget
           \/ Pending /\ hub[url] = "down" /\ UNCHANGED budget
           \/ Pending /\ hub[url] # "down" /\ Spend("refuse")

\* start() goes on to bootstrapAll; the reconnect timer counts the failure.
ConnectFails ==
  /\ Refused /\ Closed
  /\ bootCall' = (bootCall \/ sock = "starting")
  /\ IF sock # "starting" /\ FailuresJustifyMove THEN Move(answers)
     ELSE /\ streak' = IF sock = "starting" \/ streak = ReconnectAttempts THEN streak ELSE streak + 1
          /\ gate' = FALSE /\ built' = [t \in {} |-> {}] /\ Stale
          /\ UNCHANGED <<candidates, followed, answers, grace, dwell, positions, lastInstance>>
  /\ UNCHANGED <<hub, instance, url, owed, retry, stall, listDue>>

ConnectionBoots ==
  /\ bootCall /\ bootCall' = FALSE
  /\ BootstrapAll
  /\ UNCHANGED <<hubVars, url, caughtUp, reconnect, owed, retry, stall, listDue>>

RetryFires ==
  /\ retry /\ retry' = FALSE
  /\ IF gate THEN UNCHANGED <<moveVars, sock, handled, lastInstance, positions, built, gate, drain>>
     ELSE BootstrapAll
  /\ UNCHANGED <<hubVars, url, caughtUp, reconnect, bootCall, owed, stall, listDue>>

-----------------------------------------------------------------------------
(* A drain (lifecycle.js bootstrapAll, bootstrap/drain.js), table by table *)
(* and page by page.  A request goes to the hub hubUrl names when it is    *)
(* sent, whatever the drain asked before.                                  *)

Table == Tables[drain.table]

\* Defect: an outlived drain goes on.
Always == TRUE
Current == drain.current

DrainStops == drain' = IdleDrain /\ retry' = TRUE
NextTable(failed) ==
  /\ drain' = IF drain.table = Len(Tables)
              THEN [drain EXCEPT !.pc = "done", !.failed = failed]
              ELSE [IdleDrain EXCEPT !.pc = "opening", !.table = drain.table + 1,
                                     !.current = drain.current, !.failed = failed]
  /\ UNCHANGED retry

\* resolveDrainCursor: a table owed a re-page starts from zero.
OpenTable ==
  /\ drain.pc = "opening"
  /\ LET from == IF Table \in owed THEN {} ELSE positions[Table] IN
     /\ positions' = [positions EXCEPT ![Table] = from]
     /\ IF Current
        THEN /\ drain' = [drain EXCEPT !.pc = "asking", !.page = 1, !.from = from, !.asks = url,
                                       !.settles = Table \in owed]
             /\ UNCHANGED retry
        ELSE DrainStops
  /\ UNCHANGED <<hubVars, moveVars, linkVars, owed, built, gate, stall, listDue>>

PageServed ==
  /\ drain.pc = "asking"
  /\ hub[drain.asks] # "down"
  /\ IF Current
     THEN /\ drain' = [drain EXCEPT !.pc = "landing", !.from = @ \cup {Source(drain.asks)}]
          /\ UNCHANGED retry
     ELSE DrainStops
  /\ UNCHANGED <<hubVars, moveVars, linkVars, positions, owed, built, gate, stall, listDue>>

PageFails ==
  /\ drain.pc = "asking"
  /\ \/ hub[drain.asks] = "down" /\ UNCHANGED budget
     \/ Spend("rest")
  /\ IF Current THEN NextTable(TRUE) ELSE DrainStops
  /\ UNCHANGED <<hub, instance, moveVars, linkVars, positions, owed, built, gate, stall, listDue>>

\* flushPendingRows moves the position, of a stale drain as well: the checks
\* come with the next page.
PageLands ==
  /\ drain.pc = "landing"
  /\ positions' = [positions EXCEPT ![Table] = IF drain.current THEN drain.from ELSE drain.from \cup {Late}]
  /\ \/ /\ drain.page < MaxPages[Table]
        /\ IF Current
           THEN /\ drain' = [drain EXCEPT !.pc = "asking", !.page = @ + 1, !.asks = url]
                /\ UNCHANGED retry
           ELSE DrainStops
        /\ UNCHANGED <<owed, built>>
     \/ IF Current
        THEN /\ owed' = IF drain.settles THEN owed \ {Table} ELSE owed
             /\ built' = [t \in DOMAIN built \cup {Table} |->
                           IF t = Table THEN drain.from ELSE built[t]]
             /\ NextTable(drain.failed)
        ELSE DrainStops /\ UNCHANGED <<owed, built>>
  /\ UNCHANGED <<hubVars, moveVars, linkVars, gate, stall, listDue>>

\* The watermark of a new hub may lie below the one reached.
Advanced == {"armed"} \cup ({stall} \ {"cold"})

\* certifyFullDrain asks uncaughtUpBlocks again; nothing follows its refusal.
DrainEnds ==
  /\ drain.pc = "done"
  /\ IF Current /\ ~drain.failed /\ owed = {}
     THEN /\ Asked
          /\ drain' = IdleDrain /\ UNCHANGED retry
          /\ IF Blocked THEN UNCHANGED <<gate, stall, listDue>>
             ELSE gate' = TRUE /\ stall' \in Advanced /\ listDue' = TRUE
     ELSE DrainStops /\ UNCHANGED <<answers, grace, gate, stall, listDue>>
  /\ UNCHANGED <<hubVars, candidates, followed, dwell, streak, linkVars, positions, owed, built>>

\* The selector's merge: the hub followed stays in front, the rest is shuffled.
HubListArrives ==
  /\ listDue /\ listDue' = FALSE
  /\ \E more \in SUBSET (Hubs \ Range(candidates)) :
       IF more = {} THEN UNCHANGED <<candidates, followed>>
       ELSE /\ \E rest \in SetToSeqs((Range(candidates) \cup more) \ {Selected}) :
                 candidates' = <<Selected>> \o rest
            /\ followed' = 1
  /\ UNCHANGED <<hubVars, answers, grace, dwell, streak, linkVars, drain, positions, owed, built, gate, retry, stall>>

-----------------------------------------------------------------------------
(* checkWatermarkStall: a resync first, then a move.                       *)

\* driveResync with forgetPositionsForResync; without a socket a drain runs.
DriveResync ==
  /\ sock' = CASE sock = "ready" -> "ending" [] Pending -> "failing" [] OTHER -> sock
  /\ owed' = AllTables

Forgotten == positions' = NoPosition /\ lastInstance' = None

\* Nothing under way can advance the watermark.
Frozen == ~gate /\ sock = "ready" /\ ~Running /\ ~retry /\ ~bootCall
StallSeen ==
  /\ stall # "cold"
  /\ \/ Frozen /\ UNCHANGED budget
     \/ ~Frozen /\ (sock = "ready" \/ Running) /\ Spend("stall")

StallResync ==
  /\ StallSeen /\ stall = "armed" /\ stall' = "resynced"
  /\ DriveResync /\ Forgotten
  /\ drain' = [drain EXCEPT !.settles = FALSE]
  /\ UNCHANGED <<hub, instance, moveVars, url, caughtUp, handled, reconnect, bootCall, built, gate, retry, listDue>>

StallMoves ==
  /\ StallSeen /\ stall = "resynced" /\ UNCHANGED stall
  /\ DriveResync
  /\ IF Len(candidates) > 1 /\ dwell
     THEN Move(answers)
     ELSE /\ Forgotten
          /\ drain' = [drain EXCEPT !.settles = FALSE]
          /\ UNCHANGED <<moveVars, built, gate>>
  /\ UNCHANGED <<hub, instance, url, caughtUp, handled, reconnect, bootCall, retry, listDue>>

\* A heartbeat advances the watermark.
HeartbeatAdvances ==
  /\ gate /\ sock = "ready" /\ stall = "resynced" /\ stall' = "armed"
  /\ UNCHANGED <<hubVars, moveVars, linkVars, drain, positions, owed, built, gate, retry, listDue>>

-----------------------------------------------------------------------------
Init ==
  /\ hub \in [Hubs -> {"down", "behind", "ready"}]
  /\ instance = [h \in Hubs |-> 0]
  /\ budget \in Faults
  /\ candidates \in SetToSeqs(Seeds) /\ followed = 1
  /\ answers = {} /\ grace = "off" /\ dwell = TRUE /\ streak = 0
  /\ sock = "starting" /\ url = Selected
  /\ caughtUp = "unknown" /\ handled = FALSE /\ lastInstance = None
  /\ reconnect = FALSE /\ bootCall = FALSE
  /\ drain = IdleDrain /\ positions = NoPosition /\ owed = {}
  /\ built = [t \in {} |-> {}] /\ gate = FALSE
  /\ retry = FALSE /\ stall = "cold" /\ listDue = FALSE

Timers == GraceElapses \/ DwellElapses
Sockets == Connect \/ ReadyArrives \/ SocketCloses \/ ConnectFails
Drains == ConnectionBoots \/ RetryFires \/ OpenTable \/ PageServed \/ PageFails
            \/ PageLands \/ DrainEnds \/ HubListArrives
Stalls == StallResync \/ StallMoves \/ HeartbeatAdvances

Next == HubChanges \/ HubReplaced \/ Timers \/ Sockets \/ Drains \/ Stalls

Spec == Init /\ [][Next]_vars

\* Timers fire, requests and sockets come to an end; a hub that is up in the
\* end answers a connect.
Fairness ==
  /\ WF_vars(GraceElapses) /\ WF_vars(DwellElapses)
  /\ SF_vars(Connect) /\ SF_vars(ReadyArrives)
  /\ WF_vars(SocketCloses) /\ WF_vars(Refused /\ ConnectFails)
  /\ WF_vars(ConnectionBoots) /\ WF_vars(RetryFires)
  /\ WF_vars(OpenTable) /\ WF_vars(PageServed \/ PageFails) /\ WF_vars(PageLands) /\ WF_vars(DrainEnds)
  /\ WF_vars(Frozen /\ (StallResync \/ StallMoves))
FairSpec == Spec /\ Fairness

-----------------------------------------------------------------------------
(* Properties.                                                             *)

\* Every variable keeps its type; the ring never names a hub twice and the
\* index stays on it through merges (hub_selector.js advance, merge).
TypeOK ==
  /\ hub \in [Hubs -> {"down", "behind", "ready"}]
  /\ instance \in [Hubs -> Nat]
  /\ candidates \in Seq(Hubs) /\ IsInjective(candidates) /\ Seeds \subseteq Range(candidates)
  /\ followed \in 1..Len(candidates)
  /\ answers \subseteq Range(candidates)
  /\ grace \in {"off", "running", "passed"} /\ dwell \in BOOLEAN /\ streak \in 0..ReconnectAttempts
  /\ sock \in {"none", "starting", "connecting", "ready", "ending", "failing"}
  /\ url \in Range(candidates)
  /\ caughtUp \in {"unknown", "no", "yes"} /\ (caughtUp = "unknown" <=> sock \notin {"ready", "ending"})
  /\ handled \in BOOLEAN /\ reconnect \in BOOLEAN /\ bootCall \in BOOLEAN
  /\ lastInstance \in Sources \cup {None}
  /\ drain.pc \in {"idle", "opening", "asking", "landing", "done"}
  /\ drain.asks \in Hubs \cup {None} /\ drain.from \subseteq Pages
  /\ positions \in [AllTables -> SUBSET Pages]
  /\ owed \subseteq AllTables
  /\ DOMAIN built \subseteq AllTables
  /\ gate \in BOOLEAN /\ retry \in BOOLEAN /\ listDue \in BOOLEAN
  /\ stall \in {"cold", "armed", "resynced"}

\* What a live subscription certifies, through the gate or table by table,
\* was paged from zero off the very database instance that subscription is
\* to: a move, a reconnect or a replaced database leaves no position, page
\* or certificate of another hub behind (resetForMove, adoptReadyFrame, the
\* epoch and revision checks of bootstrapAll and drain.js).  What the code
\* lets through is marked, and nothing else gets through: a table drained
\* before the ready frame of a hub without known instance, and a table not
\* paged anew on each connection whose stale position was written after it.
CertifiedByHub ==
  sock = "ready" =>
    /\ \A t \in DOMAIN built :
         \/ Adopted \in built[t]
         \/ Late \in built[t] /\ t \notin Repaged
         \/ built[t] \ {Late} = {lastInstance}
    /\ gate => DOMAIN built = AllTables

\* A position crosses a connection only within one database instance
\* (transport.js adoptReadyFrame).
PositionsOfOneInstance ==
  sock = "ready" => \A t \in AllTables : positions[t] \cap Sources \subseteq {lastInstance}

\* If in the end some seed is up and caught up, or all of them are up, the
\* mirror settles on a hub, subscribed and with its gate open: moves, the
\* dwell, the grace, retries and reconnects neither stop nor go round for
\* ever (failover/triggers.js, move_policy.js, scheduleReconnect).
SomeHubServes ==
  \/ <>[](\E h \in Seeds : hub[h] = "ready")
  \/ <>[](\A h \in Hubs : hub[h] # "down")
Settles == SomeHubServes => <>[](gate /\ sock = "ready")

\* The one way it may not: the certificate of its first full drain was
\* refused by a hub that is not caught up, and nothing is set to try again.
Stranded == /\ stall = "cold" /\ caughtUp = "no" /\ sock = "ready"
            /\ ~Running /\ ~retry /\ ~bootCall
SettlesOrStranded == SomeHubServes => <>[](gate /\ sock = "ready") \/ <>[]Stranded
=============================================================================
