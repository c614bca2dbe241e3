------------------------------ MODULE RowFences ------------------------------
(***************************************************************************)
(* One retractable row of the hub mirror across reorgs of its source       *)
(* chain: the upserts of row_upserts.js and the fenced deletions of        *)
(* retractions.js, fed by the live socket and by the pages of a drain,     *)
(* and the reconciliations after a complete drain (bootstrap/verdict.js,   *)
(* foreign_reconciliation.js) that make up for a deletion never delivered. *)
(*                                                                         *)
(* The row's action index is recycled: after a reorg the same key is       *)
(* published again, at a higher generation and with other content.  The    *)
(* hub is external: it publishes a key once per generation, the content    *)
(* ("eff", its effective time) is the one of that generation, and only     *)
(* rows it has not retracted are on the wire or in a page.                 *)
(***************************************************************************)
EXTENDS Integers, Sequences

CONSTANTS
  Kinds,         \* the mirrored tables a behaviour may be about
  MaxGen,        \* reorgs of the source chain
  MaxFrames,     \* frames on the socket, or replayed deletions, at a time
  Budget         \* Budget[k]: how often a fault of kind k may happen

Tables == {"oracle", "call", "match", "bridge"}
Faults == {"close", "hubRestart", "restart", "relic", "drain"}

ASSUME KindsAssumption == Kinds \subseteq Tables /\ Kinds # {}
ASSUME RowBoundsAssumption ==
  MaxGen \in Nat /\ MaxFrames \in Nat /\ Budget \in [Faults -> Nat]

VARIABLES
  kind,          \* the table of the row
  hubRow,        \* the hub's row, or NoRow; retracted rows are NoRow to a reader
  chainGen,      \* the source chain's rollback generation
  publishedGen,  \* the last generation the row was published at, -1 before
  pending,       \* reorgs whose retraction the hub has yet to run
  retained,      \* deletions the hub keeps to replay to a new socket
  left           \* faults still to come, by kind
hubVars == <<kind, hubRow, chainGen, publishedGen, pending, retained, left>>

VARIABLES
  connected,
  wire,          \* frames sent on this socket and not yet handled
  row,           \* the mirror's row, or NoRow
  certifiedHub,  \* _lastCertifiedMatchDrainHubUrl names the hub
  drained,       \* a drain has completed on this socket
  drain          \* the drain across its awaits
VARIABLES
  owed,          \* a deletion was missed, refused or overtaken, and not made up for
  upgraded       \* a live row took over a pre-drain row after the page was read
ghostVars == <<owed, upgraded>>
rowVars == <<hubVars, connected, wire, row, certifiedHub, drained, drain, ghostVars>>

Row(gen, eff) == [gen |-> gen, eff |-> eff, status |-> "finalized", old |-> FALSE]
NoRow == [gen |-> -1, eff |-> -1, status |-> "absent", old |-> FALSE]
RowFrame(r) == [type |-> "inserted", gen |-> r.gen, eff |-> r.eff, fenced |-> FALSE, signed |-> FALSE]
Deletion(g, fenced, signed) ==
  [type |-> "deleted", gen |-> g, eff |-> -1, fenced |-> fenced, signed |-> signed]

\* QUORUM_CLASS_TABLES: rows whose deletion needs a co-signed, fenced frame.
QuorumClass == kind \in {"call", "match", "bridge"}

Spend(k) == left[k] > 0 /\ left' = [left EXCEPT ![k] = @ - 1]
Send(frames, f) == IF connected THEN Append(frames, f) ELSE frames
WireRoom == Len(wire) < MaxFrames /\ Len(retained) < MaxFrames

-----------------------------------------------------------------------------
(* The hub.                                                                *)

\* A match or a transfer that is still finalized is left as it is.
HubPublish ==
  /\ WireRoom
  /\ publishedGen < chainGen
  /\ hubRow # NoRow => kind \in {"oracle", "call"}
  /\ hubRow' = Row(chainGen, chainGen)
  /\ wire' = Send(wire, RowFrame(hubRow'))
  /\ publishedGen' = chainGen
  /\ UNCHANGED <<kind, chainGen, pending, retained, left, connected, row, certifiedHub,
                 drained, drain, ghostVars>>

\* The rollback bumps the generation; the retraction it asks for may wait.
HubRollback ==
  /\ chainGen < MaxGen
  /\ chainGen' = chainGen + 1
  /\ pending' = pending \cup {chainGen}
  /\ UNCHANGED <<kind, hubRow, publishedGen, retained, left, connected, wire, row,
                 certifiedHub, drained, drain, ghostVars>>

\* The fenced retraction and its frame; a hub of an older build omits the
\* fence or the signatures.  Only co-signed deletions are kept for replay.
HubRetract ==
  /\ WireRoom
  /\ \E g \in pending, fenced, signed \in BOOLEAN :
       /\ \/ fenced /\ signed /\ UNCHANGED left
          \/ QuorumClass /\ ~(fenced /\ signed) /\ Spend("relic")
       /\ pending' = pending \ {g}
       /\ hubRow' = IF hubRow.gen <= g THEN NoRow ELSE hubRow
       /\ wire' = Send(wire, Deletion(g, fenced, signed))
       /\ retained' = IF QuorumClass /\ fenced /\ signed
                      THEN Append(retained, Deletion(g, fenced, signed)) ELSE retained
       /\ owed' = (owed \/ (~connected /\ retained' = retained))
  /\ UNCHANGED <<kind, chainGen, publishedGen, connected, row, certifiedHub,
                 drained, drain, upgraded>>

\* A restarted hub has nothing to replay.
HubRestarts ==
  /\ ~connected
  /\ Spend("hubRestart")
  /\ owed' = (owed \/ retained # <<>>)
  /\ retained' = <<>>
  /\ UNCHANGED <<kind, hubRow, chainGen, publishedGen, pending, connected, wire,
                 row, certifiedHub, drained, drain, upgraded>>

-----------------------------------------------------------------------------
(* The socket.  A new one gets the retained deletions, then what follows.  *)

IdleDrain == [pc |-> "idle", page |-> NoRow, before |-> NoRow, covers |-> FALSE, owed |-> FALSE]

Connect ==
  /\ ~connected
  /\ connected' = TRUE
  /\ wire' = retained
  /\ UNCHANGED <<hubVars, row, certifiedHub, drained, drain, ghostVars>>

\* Deletions still on the wire are lost unless the hub replays them.
Dropped == \E i \in DOMAIN wire :
             wire[i].type = "deleted" /\ \A j \in DOMAIN retained : retained[j] # wire[i]

CloseSocket ==
  /\ connected
  /\ connected' = FALSE
  /\ wire' = <<>>
  /\ drained' = FALSE
  /\ drain' = IdleDrain
  /\ owed' = (owed \/ drain.owed \/ Dropped)
  /\ UNCHANGED upgraded

SocketCloses ==
  /\ Spend("close")
  /\ CloseSocket
  /\ UNCHANGED <<kind, hubRow, chainGen, publishedGen, pending, retained, row,
                 certifiedHub>>

\* The explorer restarts: the mirror tables survive, the process state does not.
Restart ==
  /\ Spend("restart")
  /\ CloseSocket
  /\ certifiedHub' = FALSE
  /\ UNCHANGED <<kind, hubRow, chainGen, publishedGen, pending, retained, row>>

-----------------------------------------------------------------------------
(* row_upserts.js: what a delivered finalized row makes of the local one.  *)

\* Defect: the gate looks at the status of the incoming row only.
StatusGate(old, new) == TRUE
\* Defect: the row is inserted or ignored.
InsertIgnore(old, new) == FALSE
Wins(old, new) ==
  CASE kind = "match"  -> \/ new.eff > old.eff
                          \/ new.eff = old.eff /\ old.status = "finalized"
    [] kind = "bridge" -> new.gen > old.gen
    [] OTHER           -> new.gen >= old.gen

Higher(a, b) == IF a > b THEN a ELSE b

\* Defect: a match's fence is content like any other column.
LoweredFence(old, new) ==
  IF Wins(old, new) THEN [new EXCEPT !.old = old.old] ELSE [old EXCEPT !.gen = new.gen]

\* The id of a row updated in place stays; its fence only moves up.
Merged(old, new) ==
  [(IF Wins(old, new) THEN new ELSE old) EXCEPT !.gen = Higher(old.gen, new.gen), !.old = old.old]
Upsert(new) == IF row = NoRow THEN new ELSE Merged(row, new)

-----------------------------------------------------------------------------
(* The frames, handled one at a time in the order they came.               *)

Paging == drain.pc \in {"read", "judge"}

HandleRow ==
  /\ wire # <<>> /\ Head(wire).type = "inserted"
  /\ row' = Upsert(Row(Head(wire).gen, Head(wire).eff))
  /\ wire' = Tail(wire)
  /\ upgraded' = (upgraded \/ (kind = "oracle" /\ Paging /\ row.old /\ drain.page = NoRow))
  /\ UNCHANGED <<hubVars, connected, certifiedHub, drained, drain, owed>>

\* Defect: an unfenced, unsigned deletion of a quorum-class row is believed.
AcceptAny(f) == TRUE
Accepted(f) == QuorumClass => f.fenced /\ f.signed
\* Defect: the deletion ignores the fence it carries.
Unfenced(f) == row # NoRow
Deletes(f) == row # NoRow /\ (f.fenced => row.gen <= f.gen)

HandleDeletion ==
  /\ wire # <<>> /\ Head(wire).type = "deleted"
  /\ LET f == Head(wire)
     IN  /\ row' = IF Accepted(f) /\ Deletes(f) THEN NoRow ELSE row
         /\ owed' = \/ owed
                    \/ ~Accepted(f)
                    \/ drain.pc = "read" /\ drain.page # NoRow /\ drain.page.gen <= f.gen
  /\ wire' = Tail(wire)
  /\ UNCHANGED <<hubVars, connected, certifiedHub, drained, drain, upgraded>>

-----------------------------------------------------------------------------
(* A drain: a page from zero, then the reconciliation a complete one       *)
(* warrants.  Frames are handled between any two of its steps.             *)

\* The rows that predate the drain: oracle rows by id, matches by content.
BeginDrain ==
  /\ connected /\ drain.pc = "idle"
  /\ IF drained THEN Spend("drain") ELSE UNCHANGED left
  /\ row' = IF row = NoRow THEN NoRow ELSE [row EXCEPT !.old = TRUE]
  /\ drain' = [IdleDrain EXCEPT !.pc = "asked", !.before = row, !.owed = owed]
  /\ owed' = FALSE /\ upgraded' = FALSE
  /\ UNCHANGED <<kind, hubRow, chainGen, publishedGen, pending, retained, connected, wire,
                 certifiedHub, drained>>

\* What the hub answers; a match page's watermark covers the old row or not.
ServePage ==
  /\ drain.pc = "asked"
  /\ \E covers \in BOOLEAN :
       drain' = [drain EXCEPT !.pc = "read", !.page = hubRow, !.covers = covers]
  /\ UNCHANGED <<hubVars, connected, wire, row, certifiedHub, drained, ghostVars>>

LandPage ==
  /\ drain.pc = "read"
  /\ row' = IF drain.page = NoRow THEN row ELSE Upsert(drain.page)
  /\ drain' = [drain EXCEPT !.pc = "judge"]
  /\ UNCHANGED <<hubVars, connected, wire, certifiedHub, drained, ghostVars>>

\* A match's verdict needs an earlier certified drain and a watermark.
JudgesMatch == kind = "match" /\ certifiedHub /\ drain.covers
\* Defect: whatever match is there now is judged by the old verdict.
AnyMatch == JudgesMatch /\ drain.page = NoRow /\ row.status = "finalized"
\* Defect: the old match is marked although a live deletion has removed it.
GoneMatch == JudgesMatch /\ drain.page = NoRow /\ drain.before # NoRow
\* Defect: no reconciliation after a drain.
NeverStale == FALSE
\* reconcileRetractedOracleRows: an old row at a key that was not served.
StaleOracle == kind = "oracle" /\ row.old /\ drain.page = NoRow
\* reconcileRetractedMatches: the old match, still finalized and unchanged.
StaleMatch ==
  /\ JudgesMatch
  /\ drain.page = NoRow
  /\ drain.before # NoRow /\ row.status = "finalized" /\ row.eff = drain.before.eff

Reconcile ==
  /\ drain.pc = "judge"
  /\ row' = IF StaleOracle THEN NoRow
            ELSE IF StaleMatch THEN [row EXCEPT !.status = "retracted"] ELSE row
  /\ certifiedHub' = (certifiedHub \/ (kind = "match" /\ drain.covers))
  /\ owed' = (owed \/ (drain.owed /\ kind # "oracle" /\ ~JudgesMatch))
  /\ drained' = TRUE
  /\ drain' = IdleDrain
  /\ UNCHANGED <<hubVars, connected, wire, upgraded>>

-----------------------------------------------------------------------------
RowInit ==
  /\ kind \in Kinds
  /\ hubRow = NoRow /\ chainGen = 0 /\ publishedGen = -1
  /\ pending = {} /\ retained = <<>> /\ left = Budget
  /\ connected = FALSE /\ wire = <<>>
  /\ row = NoRow /\ certifiedHub = FALSE /\ drained = FALSE /\ drain = IdleDrain
  /\ owed = FALSE /\ upgraded = FALSE

RowNext ==
  \/ HubPublish \/ HubRollback \/ HubRetract \/ HubRestarts
  \/ Connect \/ SocketCloses \/ Restart
  \/ HandleRow \/ HandleDeletion
  \/ BeginDrain \/ ServePage \/ LandPage \/ Reconcile

RowSpec == RowInit /\ [][RowNext]_rowVars

-----------------------------------------------------------------------------
Rows == {NoRow} \cup
        [gen : 0..MaxGen, eff : 0..MaxGen, status : {"finalized", "retracted"}, old : BOOLEAN]

(* Type invariant.                                                         *)
RowTypeOK ==
  /\ kind \in Kinds
  /\ hubRow \in Rows /\ row \in Rows
  /\ chainGen \in 0..MaxGen /\ publishedGen \in -1..MaxGen
  /\ pending \subseteq 0..MaxGen
  /\ left \in [Faults -> Nat]
  /\ {connected, certifiedHub, drained, owed, upgraded} \subseteq BOOLEAN
  /\ drain \in [pc : {"idle", "asked", "read", "judge"}, page : Rows, before : Rows,
                covers : BOOLEAN, owed : BOOLEAN]

(* The mirror has handled all it was sent on this socket, drained since.   *)
Quiet == connected /\ drained /\ drain.pc = "idle" /\ wire = <<>>

(* Content and fence move together (row_upserts.js:52): the row carries    *)
(* the effective time of the generation that fences it, whatever pages,    *)
(* replayed deletions and live frames crossed on the way.                  *)
ContentOfGeneration == row # NoRow => row.gen = row.eff

(* No hole (row_upserts.js:66, :104): once all is handled, the row the hub *)
(* shows is held, finalized, with its content.  No late deletion, page or  *)
(* reconciliation took away a row published again at a recycled index.     *)
NoHole ==
  Quiet /\ hubRow # NoRow /\ ~upgraded =>
    row.eff = hubRow.eff /\ row.gen = hubRow.gen /\ row.status = "finalized"

(* No ghost (retractions.js:89): once all is handled, a row the hub has    *)
(* retracted is not read as valid, unless a deletion was missed, refused   *)
(* or overtaken by a page and no reconciling drain has run since.          *)
NoGhost == Quiet /\ ~owed /\ row # NoRow /\ row.status = "finalized" => hubRow # NoRow

(* NoGhost and NoHole without their exceptions, as the comments state them: *)
(* "a late/duplicate/out-of-order event is a no-op rather than a            *)
(* regression" (row_upserts.js:145) for a mirror that lost no frame, and    *)
(* "only rows that PREDATE the drain are judged ... because a live oracle   *)
(* event applies immediately" (foreign_reconciliation.js:480).  Neither     *)
(* holds of this code, for the two reasons the README gives; no run checks  *)
(* them.                                                                    *)
NoLostFrame == left.close = Budget.close /\ left.restart = Budget.restart /\ left.relic = Budget.relic
NoRegression ==
  Quiet /\ NoLostFrame /\ row # NoRow /\ row.status = "finalized" => hubRow # NoRow
LiveRowKept == Quiet /\ kind = "oracle" /\ hubRow # NoRow => row # NoRow
=============================================================================
