------------------------------ MODULE HubMirror ------------------------------
(***************************************************************************)
(* The hub-mirror client (src/src/hub/hub_db_sync): a local copy of the    *)
(* hub's federation tables, fed by two channels that race each other.      *)
(*                                                                         *)
(*   - REST snapshots: bootstrapAll drains every table page by page, in an *)
(*     async function that yields at every await.                          *)
(*   - A WebSocket subscription: row events and watermark heartbeats,      *)
(*     serialised through _msgChain, which run between those awaits.       *)
(*                                                                         *)
(* The client certifies what it holds: _bootstrapDrained (the heartbeat    *)
(* gate), streamWatermark and one watermark per table.  Block settlement   *)
(* reads those certificates, so a certificate over a row the mirror does   *)
(* not hold is the failure this module looks for.                          *)
(*                                                                         *)
(* Rows are abstracted to <<table, wire id, time of last change>>.  The    *)
(* hub's clock counts its changes, from 1, so that a watermark of 0 is one *)
(* that never advanced.                                                    *)
(* Epoch 0 stands for "never"; the code's epoch n is n+1 here.             *)
(***************************************************************************)
EXTENDS Naturals, FiniteSets, Sequences

CONSTANTS
  Tables,           \* MIRRORED_TABLES
  DrainOrder,       \* place of each table in drainEveryTable's list
  PriceTable,       \* price_snapshots, last in the code, its live rows buffered
  RepageTables,     \* REPAGE_PER_CONNECTION_TABLES
  FromZeroTables,   \* tables every drain pages from zero (cross_chain_matches)
  WholeRowTables,   \* tables whose upsert takes any delivered row whole
  PageLimit,        \* rows of a snapshot page
  PriceBufferCap,   \* PENDING_PRICE_EVENT_CAP
  InstanceNamed     \* whether the hub's ready frame carries hub_instance_id

(* What the environment does: the hub's own behaviour and the faults.      *)
CONSTANTS
  RestWithoutStream,  \* snapshots are served while no subscription is live
  FaultsDuringDrain,  \* a live apply may fail while a drain is running
  Scenarios           \* what else may happen in one behaviour (see Environments)

(* Bounds of the model, not of the code.                                   *)
CONSTANTS
  MaxRows,   \* rows of a hub table
  MaxTime,   \* changes the hub makes
  MaxQueue   \* undelivered and unhandled frames

Faults == {"close",    \* the socket closes, or fails before its ready frame
           "rest",     \* a snapshot request, or the answer's schema, fails
           "apply",    \* a drained or replayed row fails to apply
           "live",     \* a live row fails to apply
           "refuse",   \* a live row carries another schema version
           "resync"}   \* the block loop asks for a resync

\* revised: tables whose rows the hub changes in place; left: how often each
\* kind of fault may still happen.
Environments == [revised : SUBSET RepageTables, left : [Faults -> Nat]]

Ids == 1..MaxRows
Times == 0..MaxTime
NoRows == [i \in Ids |-> 0]

\* The ids a ready frame announces; none before the first one.
NoCeilings == [t \in {} |-> 0]
Ceilings == [Tables -> 0..MaxRows] \cup {NoCeilings}

ASSUME TablesAssumption ==
  /\ IsFiniteSet(Tables)
  /\ DrainOrder \in [Tables -> Nat]
  /\ PriceTable \in Tables
  /\ RepageTables \subseteq Tables
  /\ FromZeroTables \subseteq Tables
  /\ WholeRowTables \subseteq Tables

ASSUME LimitsAssumption ==
  /\ PageLimit \in Nat \ {0}
  /\ PriceBufferCap \in Nat
  /\ MaxRows \in Nat
  /\ MaxTime \in Nat \ {0}
  /\ MaxQueue \in Nat

ASSUME EnvironmentAssumption ==
  /\ InstanceNamed \in BOOLEAN
  /\ RestWithoutStream \in BOOLEAN
  /\ FaultsDuringDrain \in BOOLEAN
  /\ Scenarios \subseteq Environments

VARIABLES
  hub,          \* hub[t][i]: time of the last change to row i, 0 if absent
  hubMax,       \* highest id of each hub table
  hubTime       \* the hub's clock
hubVars == <<hub, hubMax, hubTime>>

VARIABLES
  conn,         \* the socket: "down", "opening", "live" or "closing"
  epoch,        \* _wsEpoch
  knownHub,     \* _lastHubInstanceId names the hub
  readyMax,     \* _readyMaxIds
  stream        \* frames on the wire and in _msgChain, oldest first
linkVars == <<conn, epoch, knownHub, readyMax, stream>>

VARIABLES
  gate,         \* _bootstrapDrained
  streamWM,     \* streamWatermark
  hubTip,       \* _hubTipTs
  tableEpoch,   \* _tableDrainEpochs
  tableWM,      \* _tableWatermarks
  schemaSeen,   \* _schemaMismatchSeen
  applySeen     \* _applyFailureSeen
certVars == <<gate, streamWM, hubTip, tableEpoch, tableWM, schemaSeen, applySeen>>

VARIABLES
  mirror,       \* the local rows
  positions,    \* _drainPositions
  owed,         \* _repageOwed, 0 where no mark stands
  owedSeq,      \* _repageOwedSeq
  priceDrained, \* _priceDrained
  priceBuf,     \* _pendingPriceEvents
  priceOver     \* _pendingPriceOverflow
tableVars == <<mirror, positions, owed, owedSeq>>
priceVars == <<priceDrained, priceBuf, priceOver>>

VARIABLES
  drain,        \* the running bootstrapAll, see DrainStates
  bootCall,     \* a call of bootstrapAll that has not run yet
  retryTimer,   \* _bootstrapRetryTimer is armed
  starting      \* start() still awaits its first connection
runVars == <<bootCall, retryTimer, starting>>

VARIABLE env  \* the scenario, with the faults left of it

vars == <<hubVars, linkVars, certVars, tableVars, priceVars, drain, runVars, env>>

-----------------------------------------------------------------------------
(* Frames and the state of a drain.                                        *)

RowFrames ==
  [kind : {"row"}, table : Tables, id : Ids, ts : Times, ok : BOOLEAN, epoch : Nat]
BeatFrames == [kind : {"beat"}, ts : Times, epoch : Nat]
Frames == RowFrames \cup BeatFrames

\* What bootstrapAll, drainEveryTable and bootstrapTable hold in locals
\* across their awaits.
Phases == {"idle", "table", "fetch", "page", "catchup", "verdict", "replay", "landed"}
DrainStates ==
  [phase : Phases, epoch : Nat, todo : SUBSET Tables, table : Tables,
   cursor : Nat, full : BOOLEAN, seq : Nat, page : [Ids -> Times],
   short : BOOLEAN, mark : Times, marks : SUBSET Times, undrained : BOOLEAN]

IdleDrain ==
  [phase |-> "idle", epoch |-> 0, todo |-> {}, table |-> PriceTable,
   cursor |-> 0, full |-> FALSE, seq |-> 0, page |-> NoRows,
   short |-> FALSE, mark |-> 0, marks |-> {}, undrained |-> FALSE]

Larger(a, b) == IF a < b THEN b ELSE a
Newest(S) == CHOOSE a \in S : \A b \in S : b <= a
Least(S) == CHOOSE a \in S : \A b \in S : a <= b

Spend(kind) ==
  /\ env.left[kind] > 0
  /\ env' = [env EXCEPT !.left[kind] = @ - 1]

\* The rows of t with those delivered taken whole, and with the newer version
\* of each kept.
Overwritten(t, rows) == [i \in Ids |-> IF rows[i] # 0 THEN rows[i] ELSE mirror[t][i]]
Upgraded(t, rows) == [i \in Ids |-> Larger(mirror[t][i], rows[i])]

\* Defect: a stale snapshot row overwrites whatever the mirror holds.
MergedBlindly(t, rows) == [mirror EXCEPT ![t] = Overwritten(t, rows)]

\* The upserts of row_upserts.js: an older version of a row never replaces a
\* newer one, by its generation or its effective_time, but for the tables that
\* take what is delivered (a finalized or disputed price round).
Merged(t, rows) ==
  [mirror EXCEPT ![t] = IF t \in WholeRowTables THEN Overwritten(t, rows)
                                                ELSE Upgraded(t, rows)]
OneRow(i, ts) == [NoRows EXCEPT ![i] = ts]

\* Defect: a refused row owes nothing.
MarkNothing(S) == UNCHANGED <<owed, owedSeq>>

\* markRepageOwed: every mark takes a fresh sequence number; the numbers of
\* one call differ in the code and agree here, only equality with a drain's
\* captured number is ever read.
Mark(S) ==
  /\ owedSeq' = owedSeq + 1
  /\ owed' = [t \in Tables |-> IF t \in S THEN owedSeq + 1 ELSE owed[t]]

OwedTables == {t \in Tables : owed[t] # 0}

\* Defect: a failed live apply does not hold the watermark.
LatchedBySchema == schemaSeen
Latched == schemaSeen \/ applySeen

Current == drain.epoch = epoch
Draining == drain.phase # "idle"
RestServes == conn = "live" \/ RestWithoutStream

\* Defect: a table's own certificate outlives the latches.
CertifiedLatched(t) == tableEpoch[t] = epoch \/ (~Latched /\ gate)

\* tableCertifiedOnCurrentConnection and tableWatermark
Certified(t) == ~Latched /\ (tableEpoch[t] = epoch \/ gate)
TableWatermark(t) ==
  IF ~Certified(t) THEN 0 ELSE IF tableEpoch[t] = epoch THEN tableWM[t] ELSE streamWM

-----------------------------------------------------------------------------
(* The hub, external: it changes rows and, to a subscriber, broadcasts them. *)

Broadcast(t, i, ok) ==
  IF conn = "live"
  THEN stream' = Append(stream, [kind |-> "row", table |-> t, id |-> i,
                                 ts |-> hubTime + 1, ok |-> ok, epoch |-> epoch])
  ELSE UNCHANGED stream

HubChanges(t, i) ==
  /\ hubTime < MaxTime
  /\ Len(stream) < MaxQueue
  /\ hubTime' = hubTime + 1
  /\ hub' = [hub EXCEPT ![t][i] = hubTime + 1]
  /\ \/ Broadcast(t, i, TRUE) /\ UNCHANGED env
     \/ conn = "live" /\ Broadcast(t, i, FALSE) /\ Spend("refuse")
  /\ UNCHANGED <<conn, epoch, knownHub, readyMax, certVars, tableVars, priceVars,
                 drain, runVars>>

HubInserts(t) ==
  /\ hubMax[t] < MaxRows
  /\ hubMax' = [hubMax EXCEPT ![t] = @ + 1]
  /\ HubChanges(t, hubMax[t] + 1)

HubRevises(t, i) ==
  /\ t \in env.revised
  /\ i <= hubMax[t]
  /\ HubChanges(t, i)
  /\ UNCHANGED hubMax

\* "every row event produced up to ts has been delivered on this socket"
HubBeats ==
  LET beat == [kind |-> "beat", ts |-> hubTime, epoch |-> epoch] IN
  /\ conn = "live"
  /\ Len(stream) < MaxQueue
  /\ \A n \in 1..Len(stream) : stream[n] # beat
  /\ stream' = Append(stream, beat)
  /\ UNCHANGED <<hubVars, conn, epoch, knownHub, readyMax, certVars, tableVars,
                 priceVars, drain, runVars, env>>

-----------------------------------------------------------------------------
(* The socket.                                                             *)

\* scheduleReconnect's timer fires: connectWebSocket opens a socket.
Connect ==
  /\ conn = "down"
  /\ conn' = "opening"
  /\ UNCHANGED <<hubVars, epoch, knownHub, readyMax, stream, certVars, tableVars,
                 priceVars, drain, runVars, env>>

\* The hub registers the subscription and its ready frame arrives:
\* adoptReadyFrame, which resolves connectWebSocket, whose caller (start or
\* scheduleReconnect) goes on to bootstrapAll.
ReadyArrives ==
  /\ conn = "opening"
  /\ conn' = "live"
  /\ knownHub' = InstanceNamed
  /\ positions' = IF InstanceNamed /\ knownHub THEN positions ELSE [t \in Tables |-> 0]
  /\ Mark(RepageTables)
  /\ readyMax' = hubMax
  /\ bootCall' = TRUE
  /\ starting' = FALSE
  /\ UNCHANGED <<hubVars, epoch, stream, certVars, mirror, priceVars, drain,
                 retryTimer, env>>

\* resetOnSocketClose and the close handler around it; a start() still
\* waiting for its connection falls through to bootstrapAll.  Frames of the
\* dead socket stay queued with its epoch.
SocketCloses(forget) ==
  /\ conn' = "down"
  /\ epoch' = epoch + 1
  /\ knownHub' = (knownHub /\ ~forget)
  /\ gate' = FALSE
  /\ priceDrained' = FALSE
  /\ priceBuf' = <<>>
  /\ priceOver' = FALSE
  /\ bootCall' = (bootCall \/ starting)
  /\ starting' = FALSE
  /\ UNCHANGED <<hubVars, readyMax, stream, streamWM, hubTip, tableEpoch, tableWM,
                 schemaSeen, applySeen, tableVars, drain, retryTimer>>

\* forget: close code 1012, the hub's resync close
ConnectionLost ==
  /\ conn \in {"opening", "live"}
  /\ Spend("close")
  /\ \E forget \in BOOLEAN : SocketCloses(forget)

\* The close event of a socket the client terminated.
TerminatedSocketCloses ==
  /\ conn = "closing"
  /\ SocketCloses(FALSE)
  /\ UNCHANGED env

\* driveResync: forgetPositionsForResync, then the socket, or the drain
\* itself when there is none.
DriveResync ==
  /\ knownHub' = FALSE
  /\ positions' = [t \in Tables |-> 0]
  /\ Mark(Tables)
  /\ IF conn = "down"
     THEN bootCall' = TRUE /\ UNCHANGED conn
     ELSE conn' = "closing" /\ UNCHANGED bootCall
  /\ UNCHANGED <<hubVars, epoch, readyMax, stream, certVars, mirror, priceVars, drain,
                 retryTimer, starting>>

\* The block loop's hold ceiling: requestResync, refused while a drain makes
\* progress, not while one hangs on a request.
RequestResync ==
  /\ ~Draining \/ drain.phase = "fetch"
  /\ conn # "closing"
  /\ Spend("resync")
  /\ DriveResync

\* checkWatermarkStall.  Its window outlasts every retry, so it fires only
\* when nothing pending can move the watermark.
StallResync ==
  /\ conn = "live"
  /\ streamWM > 0
  /\ hubTip > streamWM
  /\ ~schemaSeen
  /\ ~Draining /\ ~bootCall /\ ~retryTimer
  /\ applySeen
  /\ DriveResync
  /\ UNCHANGED env

-----------------------------------------------------------------------------
(* Frames, one at a time: enqueueStreamFrame, handleRowEvent and           *)
(* handleWatermarkFrame.                                                   *)

Pop == stream' = Tail(stream)

\* A frame proves delivery only on the connection it arrived on.
StaleFrame ==
  /\ stream # <<>>
  /\ Head(stream).epoch # epoch
  /\ Pop
  /\ UNCHANGED <<hubVars, conn, epoch, knownHub, readyMax, certVars, tableVars,
                 priceVars, drain, runVars, env>>

FrameDue(kind) ==
  /\ stream # <<>>
  /\ Head(stream).epoch = epoch
  /\ Head(stream).kind = kind
  /\ Pop

HandleBeat ==
  LET ts == Head(stream).ts IN
  /\ FrameDue("beat")
  /\ hubTip' = Larger(hubTip, ts)
  /\ tableWM' = [t \in Tables |-> IF Certified(t) /\ ts > TableWatermark(t)
                                  THEN ts ELSE tableWM[t]]
  /\ streamWM' = IF ~Latched /\ gate THEN Larger(streamWM, ts) ELSE streamWM
  /\ UNCHANGED <<hubVars, conn, epoch, knownHub, readyMax, gate, tableEpoch, schemaSeen,
                 applySeen, tableVars, priceVars, drain, runVars, env>>

\* A row of another schema version is refused: every table owes a re-page.
RefuseRow ==
  /\ FrameDue("row")
  /\ ~Head(stream).ok
  /\ schemaSeen' = TRUE
  /\ Mark(Tables)
  /\ UNCHANGED <<hubVars, conn, epoch, knownHub, readyMax, gate, streamWM, hubTip,
                 tableEpoch, tableWM, applySeen, mirror, positions, priceVars,
                 drain, runVars, env>>

Buffered(row) == row.table = PriceTable /\ ~priceDrained

\* bufferPriceEvent: past the cap the buffer is discarded and the drain that
\* would replay it must run again.
BufferRow ==
  /\ FrameDue("row")
  /\ Head(stream).ok
  /\ Buffered(Head(stream))
  /\ \/ priceOver /\ UNCHANGED <<priceBuf, priceOver>>
     \/ ~priceOver /\ Len(priceBuf) >= PriceBufferCap
        /\ priceBuf' = <<>> /\ priceOver' = TRUE
     \/ ~priceOver /\ Len(priceBuf) < PriceBufferCap
        /\ priceBuf' = Append(priceBuf, Head(stream)) /\ UNCHANGED priceOver
  /\ UNCHANGED <<hubVars, conn, epoch, knownHub, readyMax, certVars, tableVars,
                 priceDrained, drain, runVars, env>>

ApplyRow ==
  LET row == Head(stream) IN
  /\ FrameDue("row")
  /\ row.ok
  /\ ~Buffered(row)
  /\ mirror' = Merged(row.table, OneRow(row.id, row.ts))
  /\ UNCHANGED <<hubVars, conn, epoch, knownHub, readyMax, certVars, positions, owed,
                 owedSeq, priceVars, drain, runVars, env>>

\* The apply threw: the row is lost and the failure latched.
ApplyRowFails ==
  /\ FrameDue("row")
  /\ Head(stream).ok
  /\ ~Buffered(Head(stream))
  /\ FaultsDuringDrain \/ ~(Draining \/ bootCall \/ retryTimer)
  /\ Spend("live")
  /\ applySeen' = TRUE
  /\ UNCHANGED <<hubVars, conn, epoch, knownHub, readyMax, gate, streamWM, hubTip,
                 tableEpoch, tableWM, schemaSeen, tableVars, priceVars, drain, runVars>>

-----------------------------------------------------------------------------
(* bootstrapAll and the passes it drives.                                  *)

Begin == drain' = [IdleDrain EXCEPT !.phase = "table", !.epoch = epoch, !.todo = Tables]

\* A call while a drain is running returns at once.
RunBootCall ==
  /\ bootCall
  /\ bootCall' = FALSE
  /\ IF Draining THEN UNCHANGED drain ELSE Begin
  /\ UNCHANGED <<hubVars, linkVars, certVars, tableVars, priceVars, retryTimer,
                 starting, env>>

\* Defect: a mirror that certified once is taken for a drained one.
RetryOnceCertified == streamWM = 0 /\ ~Draining
RetryNeeded == ~gate /\ ~Draining

RetryFires ==
  /\ retryTimer
  /\ retryTimer' = FALSE
  /\ IF RetryNeeded THEN Begin ELSE UNCHANGED drain
  /\ UNCHANGED <<hubVars, linkVars, certVars, tableVars, priceVars, bootCall,
                 starting, env>>

\* bootstrapTable returns, with its mark or with none.
TableDone(marks, undrained) ==
  drain' = [IdleDrain EXCEPT !.phase = "table", !.epoch = drain.epoch, !.todo = drain.todo,
                             !.marks = marks, !.undrained = undrained]

\* Defect: a table that did not drain is not held against the pass.
UndrainedForgotten == TableDone(drain.marks, drain.undrained)
Undrained == TableDone(drain.marks, TRUE)

\* restartCursorAboveHubCeiling: a position above the ceiling the ready frame
\* announced is taken for one of another id space.
AboveCeiling(t) == t \in DOMAIN readyMax /\ positions[t] > readyMax[t]

\* openTableDrain: where the paging starts, and the owed mark it may settle.
OpenTable(t) ==
  LET start == IF t \in FromZeroTables \/ owed[t] # 0 \/ AboveCeiling(t)
               THEN 0 ELSE positions[t] IN
  /\ drain.phase = "table"
  /\ Current
  /\ t \in drain.todo
  /\ \A u \in drain.todo : DrainOrder[t] <= DrainOrder[u]
  /\ drain' = [drain EXCEPT !.phase = "fetch", !.table = t, !.todo = @ \ {t},
                            !.cursor = start, !.full = (start = 0), !.seq = owed[t]]
  /\ positions' = [positions EXCEPT ![t] = start]
  /\ UNCHANGED <<hubVars, linkVars, certVars, mirror, owed, owedSeq, priceVars,
                 runVars, env>>

\* drainEveryTable: the connection changed, the remaining tables are skipped.
SkipTables ==
  /\ drain.phase = "table"
  /\ ~Current
  /\ drain.todo # {}
  /\ drain' = [drain EXCEPT !.todo = {}, !.undrained = TRUE]
  /\ UNCHANGED <<hubVars, linkVars, certVars, tableVars, priceVars, runVars, env>>

\* The rows of one snapshot answer: at most PageLimit ids above the cursor.
PageEnd(t, above) == IF above + PageLimit < hubMax[t] THEN above + PageLimit ELSE hubMax[t]
Page(t, above) ==
  [i \in Ids |-> IF above < i /\ i <= PageEnd(t, above) THEN hub[t][i] ELSE 0]

\* The hub answers a page, with the time it is complete through.
ServePage ==
  LET t == drain.table IN
  /\ drain.phase = "fetch"
  /\ Current
  /\ RestServes
  /\ drain' = [drain EXCEPT !.phase = "page", !.page = Page(t, drain.cursor),
                            !.short = hubMax[t] - drain.cursor < PageLimit,
                            !.mark = hubTime]
  /\ UNCHANGED <<hubVars, linkVars, certVars, tableVars, priceVars, runVars, env>>

\* The request failed for good, its answer was refused, or the connection
\* changed while it was awaited.
PageFails ==
  /\ \/ drain.phase \in {"fetch", "page"} /\ ~Current /\ UNCHANGED env
     \/ drain.phase = "fetch" /\ ~RestServes /\ UNCHANGED env
     \/ drain.phase = "fetch" /\ Spend("rest")
  /\ Undrained
  /\ UNCHANGED <<hubVars, linkVars, certVars, tableVars, priceVars, runVars>>

\* Defect: the position moves by the page size, not by the rows handled.
HighestPaged(rows, above) == above + PageLimit
HighestIn(rows, above) ==
  IF \E i \in Ids : rows[i] # 0
  THEN CHOOSE i \in Ids : rows[i] # 0 /\ \A j \in Ids : rows[j] # 0 => j <= i
  ELSE above

\* applyPendingRow: the wire position follows each row handled above the
\* drain's cursor; a resync may have reset it under the running drain.
Advanced(t, rows) ==
  IF HighestIn(rows, drain.cursor) > drain.cursor
  THEN [positions EXCEPT ![t] = HighestIn(rows, drain.cursor)] ELSE positions

\* A row cannot be applied: those below it are kept, the position stops under
\* the hole and the table stays undrained.
RowsFail(t, rows) ==
  /\ Spend("apply")
  /\ \E bad \in {i \in Ids : rows[i] # 0} :
       LET kept == [i \in Ids |-> IF i < bad THEN rows[i] ELSE 0] IN
       mirror' = Merged(t, kept) /\ positions' = Advanced(t, kept)
  /\ Undrained

\* flushPendingRows
ApplyPage ==
  LET t == drain.table IN
  /\ drain.phase = "page"
  /\ Current
  /\ mirror' = Merged(t, drain.page)
  /\ positions' = Advanced(t, drain.page)
  /\ drain' = [drain EXCEPT !.phase = IF drain.short THEN "catchup" ELSE "fetch",
                            !.cursor = HighestIn(drain.page, drain.cursor), !.page = NoRows]
  /\ UNCHANGED <<hubVars, linkVars, certVars, owed, owedSeq, priceVars, runVars, env>>

ApplyPageFails ==
  /\ drain.phase = "page"
  /\ Current
  /\ RowsFail(drain.table, drain.page)
  /\ UNCHANGED <<hubVars, linkVars, certVars, owed, owedSeq, priceVars, runVars>>

\* catchUpToReadyCeiling: one more page when the position sits below the
\* ceiling the ready frame announced; a failed fetch is ignored.
BelowCeiling(t) == t \in DOMAIN readyMax /\ positions[t] < readyMax[t]

CatchUp ==
  LET t == drain.table  rows == Page(t, positions[t]) IN
  /\ drain.phase = "catchup"
  /\ Current
  /\ \/ /\ BelowCeiling(t) /\ RestServes
        /\ mirror' = Merged(t, rows)
        /\ positions' = Advanced(t, rows)
        /\ UNCHANGED env
     \/ /\ BelowCeiling(t)
        /\ IF RestServes THEN Spend("rest") ELSE UNCHANGED env
        /\ UNCHANGED <<mirror, positions>>
     \/ ~BelowCeiling(t) /\ UNCHANGED <<mirror, positions, env>>
  /\ drain' = [drain EXCEPT !.phase = "verdict"]
  /\ UNCHANGED <<hubVars, linkVars, certVars, owed, owedSeq, priceVars, runVars>>

\* The catch-up page is of another schema version, or a row of it fails.
CatchUpFails ==
  LET t == drain.table IN
  /\ drain.phase = "catchup"
  /\ Current
  /\ BelowCeiling(t) /\ RestServes
  /\ RowsFail(t, Page(t, positions[t]))
  /\ UNCHANGED <<hubVars, linkVars, certVars, owed, owedSeq, priceVars, runVars>>

\* bootstrapTable's epoch checks after an await: the connection changed.
DrainOutlived ==
  /\ drain.phase \in {"catchup", "verdict", "landed"}
  /\ ~Current
  /\ Undrained
  /\ UNCHANGED <<hubVars, linkVars, certVars, tableVars, priceVars, runVars, env>>

\* armBarriersAfterDrain queues the replay of the buffered price rows behind
\* the frames that have arrived.
QueueReplay ==
  /\ drain.phase = "verdict"
  /\ Current
  /\ drain.table = PriceTable
  /\ drain' = [drain EXCEPT !.phase = "replay"]
  /\ UNCHANGED <<hubVars, linkVars, certVars, tableVars, priceVars, runVars, env>>

\* Defect: the oldest buffered version of a row wins.
OldestBuffered(n) ==
  [i \in Ids |-> LET times == {priceBuf[k].ts : k \in {j \in 1..n : priceBuf[j].id = i}}
                 IN  IF times = {} THEN 0 ELSE Least(times)]

\* The first n buffered rows, as one write: later versions win.
BufferedRows(n) ==
  [i \in Ids |-> LET times == {priceBuf[k].ts : k \in {j \in 1..n : priceBuf[j].id = i}}
                 IN  IF times = {} THEN 0 ELSE Newest(times)]

\* replayDrainedPriceEvents and flushPendingPriceEvents
Replay ==
  /\ drain.phase = "replay"
  /\ ~priceOver
  /\ mirror' = Merged(PriceTable, BufferedRows(Len(priceBuf)))
  /\ priceBuf' = <<>>
  /\ IF Current
     THEN priceDrained' = TRUE /\ drain' = [drain EXCEPT !.phase = "landed"]
     ELSE UNCHANGED priceDrained /\ Undrained
  /\ UNCHANGED <<hubVars, linkVars, certVars, positions, owed, owedSeq, priceOver,
                 runVars, env>>

ReplayOverflowed ==
  /\ drain.phase = "replay"
  /\ priceOver
  /\ priceOver' = FALSE
  /\ priceBuf' = <<>>
  /\ Undrained
  /\ UNCHANGED <<hubVars, linkVars, certVars, tableVars, priceDrained, runVars, env>>

\* A buffered row fails: it heads the buffer for the next replay.
ReplayFails ==
  /\ drain.phase = "replay"
  /\ ~priceOver
  /\ Spend("apply")
  /\ \E n \in 0..(Len(priceBuf) - 1) :
       /\ mirror' = Merged(PriceTable, BufferedRows(n))
       /\ priceBuf' = SubSeq(priceBuf, n + 1, Len(priceBuf))
  /\ applySeen' = TRUE
  /\ Undrained
  /\ UNCHANGED <<hubVars, linkVars, gate, streamWM, hubTip, tableEpoch, tableWM,
                 schemaSeen, positions, owed, owedSeq, priceDrained, priceOver, runVars>>

\* settleRepageOwed: only the mark the drain opened under, and only by a
\* page from zero.
\* Defect: a mark made while the drain ran is settled by it.
SettlesLater(t) == drain.full
Settles(t) == drain.full /\ owed[t] = drain.seq

\* certifyTableDrain, and the return of bootstrapTable's mark.
CertifyTable ==
  LET t == drain.table IN
  /\ \/ drain.phase = "verdict" /\ t # PriceTable
     \/ drain.phase = "landed"
  /\ Current
  /\ tableEpoch' = [tableEpoch EXCEPT ![t] = epoch]
  /\ tableWM' = [tableWM EXCEPT ![t] = drain.mark]
  /\ owed' = IF Settles(t) THEN [owed EXCEPT ![t] = 0] ELSE owed
  /\ TableDone(drain.marks \cup {drain.mark}, drain.undrained)
  /\ UNCHANGED <<hubVars, linkVars, gate, streamWM, hubTip, schemaSeen, applySeen, mirror,
                 positions, owedSeq, priceVars, runVars, env>>

\* Defect: tables still owed a re-page do not hold the gate.
DrainCleanOwing == ~drain.undrained /\ drain.marks # {} /\ Current
\* Defect: the connection is not compared again at the certification.
DrainCleanStale == ~drain.undrained /\ OwedTables = {} /\ drain.marks # {}
DrainClean == ~drain.undrained /\ OwedTables = {} /\ drain.marks # {} /\ Current

\* certifyFullDrain: the gate opens, both latches clear and the stream
\* watermark reaches the oldest mark.
CertifyFullDrain ==
  /\ drain.phase = "table"
  /\ drain.todo = {}
  /\ DrainClean
  /\ gate' = TRUE
  /\ schemaSeen' = FALSE
  /\ applySeen' = FALSE
  /\ streamWM' = Larger(streamWM, Least(drain.marks))
  /\ drain' = IdleDrain
  /\ UNCHANGED <<hubVars, linkVars, hubTip, tableEpoch, tableWM, tableVars, priceVars,
                 runVars, env>>

\* A partial drain schedules a retry.
ScheduleRetry ==
  /\ drain.phase = "table"
  /\ drain.todo = {}
  /\ ~DrainClean
  /\ retryTimer' = TRUE
  /\ drain' = IdleDrain
  /\ UNCHANGED <<hubVars, linkVars, certVars, tableVars, priceVars, bootCall, starting,
                 env>>

-----------------------------------------------------------------------------
\* A process that calls start(): the mirror holds what an earlier run left,
\* here nothing, and connectWebSocket is under way.
Init ==
  /\ hub = [t \in Tables |-> NoRows]
  /\ hubMax = [t \in Tables |-> 0]
  /\ hubTime = 1
  /\ conn = "opening"
  /\ epoch = 1
  /\ knownHub = FALSE
  /\ readyMax = NoCeilings
  /\ stream = <<>>
  /\ gate = FALSE
  /\ streamWM = 0
  /\ hubTip = 0
  /\ tableEpoch = [t \in Tables |-> 0]
  /\ tableWM = [t \in Tables |-> 0]
  /\ schemaSeen = FALSE
  /\ applySeen = FALSE
  /\ mirror = [t \in Tables |-> NoRows]
  /\ positions = [t \in Tables |-> 0]
  /\ owed = [t \in Tables |-> 0]
  /\ owedSeq = 0
  /\ priceDrained = FALSE
  /\ priceBuf = <<>>
  /\ priceOver = FALSE
  /\ drain = IdleDrain
  /\ bootCall = FALSE
  /\ retryTimer = FALSE
  /\ starting = TRUE
  /\ env \in Scenarios

HubStep ==
  \/ \E t \in Tables : HubInserts(t)
  \/ \E t \in Tables, i \in Ids : HubRevises(t, i)
  \/ HubBeats

SocketStep ==
  \/ Connect
  \/ ReadyArrives
  \/ ConnectionLost
  \/ TerminatedSocketCloses
  \/ RequestResync
  \/ StallResync

FrameStep ==
  \/ StaleFrame
  \/ HandleBeat
  \/ RefuseRow
  \/ BufferRow
  \/ ApplyRow
  \/ ApplyRowFails

TableStep ==
  \/ \E t \in Tables : OpenTable(t)
  \/ SkipTables
  \/ ServePage
  \/ PageFails
  \/ ApplyPage
  \/ ApplyPageFails
  \/ CatchUp
  \/ CatchUpFails
  \/ DrainOutlived

VerdictStep ==
  \/ QueueReplay
  \/ Replay
  \/ ReplayOverflowed
  \/ ReplayFails
  \/ CertifyTable
  \/ CertifyFullDrain
  \/ ScheduleRetry

DrainStep == RunBootCall \/ RetryFires \/ TableStep \/ VerdictStep

Next == HubStep \/ SocketStep \/ FrameStep \/ DrainStep

Spec == Init /\ [][Next]_vars

-----------------------------------------------------------------------------
\* The client's timers and callbacks run, a hub that is up accepts the
\* subscription and beats; every fault has a budget, so it stops in the end.
Fairness ==
  /\ WF_vars(Connect)
  /\ WF_vars(ReadyArrives)
  /\ WF_vars(TerminatedSocketCloses)
  /\ WF_vars(StallResync)
  /\ WF_vars(HubBeats)
  /\ WF_vars(FrameStep)
  /\ WF_vars(DrainStep)

FairSpec == Spec /\ Fairness

-----------------------------------------------------------------------------
\* Types of the client's state (initWatermarkState), the frames and the drain.
TypeOK ==
  /\ hub \in [Tables -> [Ids -> Times]]
  /\ hubMax \in [Tables -> 0..MaxRows]
  /\ hubTime \in Times
  /\ conn \in {"down", "opening", "live", "closing"}
  /\ epoch \in Nat \ {0}
  /\ knownHub \in BOOLEAN
  /\ readyMax \in Ceilings
  /\ stream \in Seq(Frames)
  /\ gate \in BOOLEAN
  /\ streamWM \in Times
  /\ hubTip \in Times
  /\ tableEpoch \in [Tables -> Nat]
  /\ tableWM \in [Tables -> Times]
  /\ schemaSeen \in BOOLEAN
  /\ applySeen \in BOOLEAN
  /\ mirror \in [Tables -> [Ids -> Times]]
  /\ positions \in [Tables -> 0..MaxRows]
  /\ owed \in [Tables -> Nat]
  /\ owedSeq \in Nat
  /\ priceDrained \in BOOLEAN
  /\ priceBuf \in Seq(RowFrames)
  /\ priceOver \in BOOLEAN
  /\ drain \in DrainStates
  /\ bootCall \in BOOLEAN
  /\ retryTimer \in BOOLEAN
  /\ starting \in BOOLEAN
  /\ env \in Environments

\* The mirror holds the current version of every row the hub last changed at
\* or before ts.
CompleteThrough(t, ts) == \A i \in Ids : hub[t][i] <= ts => mirror[t][i] = hub[t][i]

\* The stream watermark certifies every table: the mirror holds every row
\* the hub changed up to it, whatever failed, was refused or was lost before.
StreamComplete == \A t \in Tables : CompleteThrough(t, streamWM)

\* So does the watermark a barrier reads for one table before the full drain
\* has certified the others.
TableComplete == \A t \in Tables : CompleteThrough(t, TableWatermark(t))

\* The gate is open only while every table carries a certificate of the
\* current connection: certifyFullDrain never adds up drains of two
\* connections, although a close can fall between any two awaits.
GateNeedsEveryTable == gate => \A t \in Tables : tableEpoch[t] = epoch

\* The newest version of a row travels: in a frame of this connection that
\* is still to be handled, or in the price buffer.
OnItsWay(t, i) ==
  \/ \E n \in 1..Len(stream) :
       /\ stream[n].kind = "row"
       /\ stream[n].epoch = epoch
       /\ stream[n].table = t /\ stream[n].id = i /\ stream[n].ts = hub[t][i]
  \/ t = PriceTable /\ \E n \in 1..Len(priceBuf) :
       priceBuf[n].id = i /\ priceBuf[n].ts = hub[t][i]

\* A hub that changes rows in place can have a retried drain certify such a
\* change ahead of its frame, by the mark of its last page: then the row is at
\* least on its way, or the mirror knows it owes the table a page from zero.
Accounted(t, ts) ==
  \A i \in Ids : hub[t][i] <= ts =>
    mirror[t][i] = hub[t][i] \/ OnItsWay(t, i) \/ owed[t] # 0

\* While the gate is open no change the stream watermark covers is lost, nor
\* ever one that the watermark of a table covers (watermarks.js 67-75).
ChangesAccounted ==
  \A t \in Tables : /\ gate => Accounted(t, streamWM)
                    /\ Accounted(t, TableWatermark(t))

\* The gate is open, the watermark is at the hub's clock and the mirror holds
\* every row.
Converged == gate /\ streamWM = hubTime /\ mirror = hub

\* A row refused behind the open gate, when no drain is owed.  The stall
\* detector leaves a schema mismatch alone (watermark_config.js 283), so the
\* watermark stands until another drain: what is missing by then is owed a
\* page from zero.
Parked ==
  /\ gate
  /\ schemaSeen
  /\ OwedTables # {}
  /\ \A t \in Tables : owed[t] = 0 => mirror[t] = hub[t]

\* With an append-only hub the mirror is a certified replica: rows follow the
\* hub, and the stream watermark never certifies one that is missing.
Replica == INSTANCE CertifiedReplica WITH watermark <- streamWM
Refines == Replica!Spec
=============================================================================
