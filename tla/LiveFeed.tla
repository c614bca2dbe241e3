------------------------------ MODULE LiveFeed -------------------------------
(***************************************************************************)
(* The explorer's live feed of one coin: a change detector that polls a    *)
(* database whose chain reorganises (src/src/ws/change_detector), and      *)
(* clients that follow it over WebSocket, catching up from the action      *)
(* index they last saw (src/src/ws/websocket_server/catch_up.js and the    *)
(* bundled client src/src/content/js/xchain_ws_catch_up.js).               *)
(*                                                                         *)
(* The database is read by single queries, each awaited on its own: the    *)
(* chain may change between any two, and the clients' replays interleave   *)
(* with the detector's fan-out.                                            *)
(*                                                                         *)
(* A block is its ledger hash and the highest action index up to it; an    *)
(* action row is known by its index and the hash of its block.  Hashes are *)
(* numbers never used twice; 0 is no hash.  A row's frames are its         *)
(* NEW_ACTION ("action") and the lifecycle frames derived from it ("life").*)
(***************************************************************************)
EXTENDS Integers, FiniteSets, Sequences

CONSTANTS
  Clients,
  FetchLimit,    \* fetchLimit, rows per poll
  ReplayLimit,   \* catchUpMaxEvents, rows per replay
  ReplayDepth,   \* catchUpMaxDepth
  LogDepth       \* REORG_LOG_DEPTH

(* What the environment does.                                              *)
CONSTANTS
  OutrunsTip,    \* the chain may outgrow the tips a running poll has read
  SeedDisturbed, \* before seedHistory's query the chain may change, or the query fail
  SeedOverlaps,  \* the chain may change while a late seed pass is under way
  InitialActions,\* action rows the database may hold when the process starts
  Budgets        \* how often each kind of fault may happen, one per behaviour

(* Bounds of the model, not of the code.                                   *)
CONSTANTS
  MaxBlocks,     \* height of the chain
  MaxActions,    \* highest action index
  MaxMinted      \* blocks ever indexed

Faults == {"query", "close"}  \* a query fails; a client's socket closes
Heights == 1..MaxBlocks
Indexes == 1..MaxActions
Parts == {"action", "life"}
Readers == {"poll", "seed"}   \* the poll loop and ensureSeeded's own pass

ASSUME LimitsAssumption ==
  /\ FetchLimit \in Nat \ {0}
  /\ ReplayLimit \in Nat \ {0}
  /\ ReplayDepth \in Nat
  /\ LogDepth \in Nat \ {0}

ASSUME BoundsAssumption ==
  /\ MaxBlocks \in Nat \ {0}
  /\ MaxActions \in Nat \ {0}
  /\ MaxMinted \in Nat \ {0, 1}
  /\ OutrunsTip \in BOOLEAN
  /\ SeedDisturbed \in BOOLEAN
  /\ SeedOverlaps \in BOOLEAN
  /\ InitialActions \subseteq 0..MaxActions
  /\ Budgets \subseteq [Faults -> Nat]

VARIABLES
  chain,        \* the indexed blocks, by height
  minted        \* hashes used so far
chainVars == <<chain, minted>>

VARIABLES
  seeded,       \* initialized
  lastTip,      \* _lastTip: the tip of the last reorg check
  pendingReorg,
  blockIndex,
  actionIndex,
  liveMark,     \* liveActionMark
  history,      \* per remembered height its hash and first action
  reorgLog,     \* rollbacks that voided sent rows, oldest first
  rollbacks,    \* numbered rollbacks, oldest first
  rollbackSeq
cursorVars == <<blockIndex, actionIndex, liveMark>>
logVars == <<reorgLog, rollbacks, rollbackSeq>>
feedVars == <<seeded, lastTip, pendingReorg, cursorVars, history, logVars>>

VARIABLES
  reader,       \* reader[r]: the locals of a pass across its awaits
  joined,       \* clients subscribed in the middle of the row in flight
  client,       \* client[c]: connection, replay and what the client holds
  quiet,        \* the last poll began with the chain as it is and has not failed
  left          \* faults still to come, by kind
vars == <<chainVars, feedVars, reader, joined, client, quiet, left>>

Larger(a, b) == IF a < b THEN b ELSE a
Smaller(a, b) == IF a < b THEN a ELSE b
Lowest(S) == CHOOSE a \in S : \A b \in S : a <= b

Spend(kind) ==
  /\ left[kind] > 0
  /\ left' = [left EXCEPT ![kind] = @ - 1]

-----------------------------------------------------------------------------
(* The database.                                                           *)

Top(h) == IF h = 0 THEN 0 ELSE chain[h].top
MaxBlock == Len(chain)
MaxAction == Top(MaxBlock)
HeightOf(i) == CHOOSE h \in 1..MaxBlock : Top(h - 1) < i /\ i <= Top(h)
HashOf(i) == IF i \in 1..MaxAction THEN chain[HeightOf(i)].hash ELSE 0

\* getActionsSince: at most limit rows above from, none above bound.
ActionsSince(from, limit, bound) ==
  LET low == Larger(from, 0)
      last == Smaller(Smaller(low + limit, bound), MaxAction)
  IN  [n \in 1..(IF low < last THEN last - low ELSE 0) |->
         [index |-> low + n, height |-> HeightOf(low + n), hash |-> HashOf(low + n)]]

\* The indexer commits a block with n actions, or takes back the newest ones.
\* Until the coin is seeded every chain is an initial one, so it stands still;
\* it also does before seedHistory's query, while a late seed pass is under way
\* and above what a running poll has read of the tip, unless the environment
\* says otherwise.
SeedsHistory == \E r \in Readers : reader[r].pc = "history"
MayOutrun ==
  LET pc == reader["poll"].pc IN
  \/ OutrunsTip
  \/ pc \in {"idle", "tip", "rows", "life"}
  \/ /\ MaxBlock < lastTip.index
     /\ pc \notin {"probe", "block"} => MaxBlock < reader["poll"].block
     /\ pc = "acts" => MaxBlock < blockIndex

ChainMoves ==
  /\ seeded
  /\ SeedDisturbed \/ ~SeedsHistory
  /\ SeedOverlaps \/ reader["seed"].pc \in {"idle", "history"}
  /\ quiet' = FALSE
  /\ UNCHANGED <<feedVars, reader, joined, client, left>>

Extend(n) ==
  /\ MaxBlock < MaxBlocks
  /\ minted < MaxMinted
  /\ MaxAction + n <= MaxActions
  /\ MayOutrun
  /\ chain' = Append(chain, [hash |-> minted + 1, top |-> MaxAction + n])
  /\ minted' = minted + 1
  /\ ChainMoves

RollBack(h) ==
  /\ h < MaxBlock
  /\ chain' = SubSeq(chain, 1, h)
  /\ UNCHANGED minted
  /\ ChainMoves

-----------------------------------------------------------------------------
(* What a client holds.  Its record:                                       *)
(*   state    "new", "away", a stage of the replay, "live", or     *)
(*            "resync" once it has been told to reload                     *)
(*   cursor   lastActionIndex                                              *)
(*   base     highest row it loaded over REST, not from the feed           *)
(*   held     per index the hash of the row it shows, 0 if none            *)
(*   copies   how often this subscription brought each frame of that row   *)
(*   ceiling  the key's replay ceiling, and the bound of the running replay*)
(*   rolled   lowest index a rollback voided since it subscribed           *)
(*   seen     maxSeen of the running catch-up                              *)

Stages == {"gate", "max", "bound", "read", "replay", "replaylife"}
Subscribed == {c \in Clients : client[c].state \in Stages \cup {"live"}}
NoCopies == [p \in Parts |-> [i \in Indexes |-> 0]]

Counted(n) == IF n < 2 THEN n + 1 ELSE n

\* A row that takes the place of another one starts its count anew.
CountAction(cl, row) ==
  LET same == cl.held[row.index] = row.hash IN
  [action |-> [cl.copies.action EXCEPT ![row.index] = IF same THEN Counted(@) ELSE 1],
   life |-> [cl.copies.life EXCEPT ![row.index] = IF same THEN @ ELSE 0]]
CountLife(cl, row) ==
  [action |-> cl.copies.action, life |-> [cl.copies.life EXCEPT ![row.index] = Counted(@)]]

\* xcWsTrackCursor: NEW_ACTION moves the cursor, or maxSeen during a catch-up.
TakeAction(cl, row) ==
  LET live == cl.state = "live" IN
  [cl EXCEPT !.held = [@ EXCEPT ![row.index] = row.hash],
             !.copies = CountAction(cl, row),
             !.cursor = IF live THEN Larger(@, row.index) ELSE @,
             !.seen = IF live THEN @ ELSE Larger(@, row.index)]

TakeLife(cl, row) == [cl EXCEPT !.copies = CountLife(cl, row)]

\* A REORG frame voids every row from first on; _rewindCursor.
KeptBelow(f, first) == [i \in Indexes |-> IF i < first THEN f[i] ELSE 0]
TakeReorg(cl, first) ==
  [cl EXCEPT !.held = KeptBelow(@, first),
             !.copies = [action |-> KeptBelow(@.action, first), life |-> KeptBelow(@.life, first)],
             !.cursor = Smaller(@, first - 1),
             !.seen = Smaller(@, first - 1),
             !.base = Smaller(@, first - 1),
             !.rolled = Smaller(@, first)]

Fresh ==
  [state |-> "new", cursor |-> 0, base |-> 0, held |-> [i \in Indexes |-> 0],
   copies |-> NoCopies, ceiling |-> 0, bound |-> 0, rolled |-> MaxActions + 1,
   since |-> 0, startSeq |-> 0, max |-> 0, rows |-> <<>>, next |-> 1, seen |-> 0]

-----------------------------------------------------------------------------
(* readTip: the reorg check, then the two high-water marks.                *)

NoTip == [index |-> 0, hash |-> 0]
IdlePass == [pc |-> "idle", tip |-> NoTip, was |-> NoTip, block |-> 0, action |-> 0,
             fork |-> 0, rows |-> <<>>, next |-> 1]

Reads(r, pass) == reader' = [reader EXCEPT ![r] = pass]
EndPass(r) == Reads(r, IdlePass)

\* poll: a pass begins only when none is in flight.
StartPoll ==
  /\ reader["poll"].pc = "idle"
  /\ Reads("poll", [IdlePass EXCEPT !.pc = "tip"])
  /\ quiet' = TRUE
  /\ UNCHANGED <<chainVars, feedVars, joined, client, left>>

\* ensureSeeded, for a connection that waits for its WELCOME.
StartSeed ==
  /\ ~seeded
  /\ reader["seed"].pc = "idle"
  /\ Reads("seed", [IdlePass EXCEPT !.pc = "tip"])
  /\ UNCHANGED <<chainVars, feedVars, joined, client, quiet, left>>

\* The verdict is kept until a rewind has used it.
Verdict(reorg, tip) ==
  /\ pendingReorg' = (pendingReorg \/ reorg)
  /\ lastTip' = tip

\* checkReorgAndInvalidate: the tip, then the block at the last tip's height
\* when that is another one.
ReadTip(r) ==
  LET tip == [index |-> MaxBlock, hash |-> chain[MaxBlock].hash]
      probe == lastTip # NoTip /\ tip.index > lastTip.index
  IN
  /\ reader[r].pc = "tip"
  /\ Reads(r, [reader[r] EXCEPT !.pc = IF probe THEN "probe" ELSE "block",
                                !.tip = tip, !.was = lastTip])
  /\ IF probe THEN UNCHANGED <<pendingReorg, lastTip>>
     ELSE Verdict(lastTip # NoTip /\ tip # lastTip, tip)
  /\ UNCHANGED <<chainVars, seeded, cursorVars, history, logVars, joined, client, quiet, left>>

\* Defect: a longer chain is taken for a continued one.
NeverReplaced(was) == FALSE
\* blockReplaced
Replaced(was) == was.index > MaxBlock \/ chain[was.index].hash # was.hash

ReadProbe(r) ==
  /\ reader[r].pc = "probe"
  /\ Reads(r, [reader[r] EXCEPT !.pc = "block"])
  /\ Verdict(Replaced(reader[r].was), reader[r].tip)
  /\ UNCHANGED <<chainVars, seeded, cursorVars, history, logVars, joined, client, quiet, left>>

ReadMaxBlock(r) ==
  /\ reader[r].pc = "block"
  /\ Reads(r, [reader[r] EXCEPT !.pc = "action", !.block = MaxBlock])
  /\ UNCHANGED <<chainVars, feedVars, joined, client, quiet, left>>

ReadMaxAction(r) ==
  /\ reader[r].pc = "action"
  /\ Reads(r, [reader[r] EXCEPT !.pc = "tips", !.action = MaxAction])
  /\ UNCHANGED <<chainVars, feedVars, joined, client, quiet, left>>

\* seedCursors, by whichever pass gets here first.
Seed(r) ==
  /\ reader[r].pc = "tips"
  /\ ~seeded
  /\ seeded' = TRUE
  /\ blockIndex' = reader[r].block
  /\ actionIndex' = reader[r].action
  /\ liveMark' = reader[r].action
  /\ pendingReorg' = FALSE
  /\ Reads(r, [reader[r] EXCEPT !.pc = "history"])
  /\ UNCHANGED <<chainVars, lastTip, history, logVars, joined, client, quiet, left>>

\* seedOnDemand finds the coin seeded by the poll.
SeedLate ==
  /\ reader["seed"].pc = "tips"
  /\ seeded
  /\ EndPass("seed")
  /\ UNCHANGED <<chainVars, feedVars, joined, client, quiet, left>>

\* history[h]: the hash (0 where none is known) and, as a set of at most one,
\* the first action announced at height h.
NoEntry == [hash |-> 0, first |-> {}]

\* seedHistory: every block's first action follows from the tip's, unless the
\* chain has moved past the tip read before.
SeedHistory(r) ==
  LET h0 == reader[r].block
      shift == reader[r].action - MaxAction
  IN
  /\ reader[r].pc = "history"
  /\ history' = [h \in Heights |->
       IF h > MaxBlock THEN history[h]
       ELSE [hash |-> chain[h].hash,
             first |-> IF MaxBlock = h0 /\ Top(h - 1) < Top(h)
                       THEN {Top(h - 1) + 1 + shift} ELSE history[h].first]]
  /\ EndPass(r)
  /\ UNCHANGED <<chainVars, seeded, lastTip, pendingReorg, cursorVars, logVars, joined,
                 client, quiet, left>>

\* A query throws: the pass ends there.
PassFails(r) ==
  /\ reader[r].pc \in {"tip", "probe", "block", "action", "tips", "fetch", "acts", "history"}
  /\ reader[r].pc = "tips" => seeded
  /\ reader[r].pc = "history" => SeedDisturbed
  /\ Spend("query")
  /\ EndPass(r)
  /\ quiet' = (quiet /\ r # "poll")
  /\ UNCHANGED <<chainVars, feedVars, joined, client>>

-----------------------------------------------------------------------------
(* checkCoin: the rewind, the blocks, the actions.                         *)

poll == reader["poll"]
Remembered == {h \in Heights : history[h] # NoEntry}
Changed(h) ==
  h > MaxBlock \/ (history[h].hash # 0 /\ chain[h].hash # history[h].hash)

\* findForkPoint reads the blocks; 0 where every remembered height matches.
ReadFork ==
  LET lost == {h \in Remembered : Changed(h)} IN
  /\ poll.pc = "tips"
  /\ seeded
  /\ pendingReorg
  /\ Reads("poll", [poll EXCEPT !.pc = "rewind", !.fork = IF lost = {} THEN 0 ELSE Lowest(lost)])
  /\ UNCHANGED <<chainVars, feedVars, joined, client, quiet, left>>

\* Defect: the logs are never trimmed.
KeptAll(log) == log
\* The newest LogDepth entries.
Kept(log) == IF Len(log) > LogDepth THEN Tail(log) ELSE log

\* Defect: rollbacks are not logged for the clients that are away.
ForgetRollback(first, tip) == UNCHANGED logVars

\* noteRollback, and the log the catch-up gate reads.
LogRollback(first, tip) ==
  /\ rollbackSeq' = rollbackSeq + 1
  /\ rollbacks' = Kept(Append(rollbacks, [seq |-> rollbackSeq + 1, first |-> first]))
  /\ reorgLog' = IF first <= tip THEN Kept(Append(reorgLog, [first |-> first, tip |-> tip]))
                                 ELSE reorgLog

\* Defect: the action cursor keeps its place above the fork.
FirstInvalidAbove(fork) == {}
\* The first actions announced at or above the fork.
FirstsFrom(fork) == UNION {history[h].first : h \in fork..MaxBlocks}

\* Defect: the mark stays above the rewound cursor.
MarkKept(index) == liveMark
\* The live mark follows the cursor down.
MarkAt(index) == Smaller(liveMark, index)

\* rewindCursors and announceRollback
Rewind ==
  LET fork == poll.fork
      firsts == IF fork = 0 THEN {} ELSE FirstsFrom(fork)
      toBlock == Smaller(IF fork = 0 THEN blockIndex ELSE Smaller(blockIndex, fork - 1), poll.block)
      toAction == Smaller(IF firsts = {} THEN actionIndex
                          ELSE Smaller(actionIndex, Lowest(firsts) - 1), poll.action)
  IN
  /\ poll.pc = "rewind"
  /\ blockIndex' = toBlock
  /\ actionIndex' = toAction
  /\ liveMark' = MarkAt(toAction)
  /\ history' = [h \in Heights |-> IF fork # 0 /\ h >= fork THEN NoEntry ELSE history[h]]
  /\ pendingReorg' = FALSE
  /\ IF toBlock < blockIndex \/ toAction < actionIndex
     THEN /\ LogRollback(toAction + 1, actionIndex)
          /\ client' = [c \in Clients |-> IF c \in Subscribed
                                          THEN TakeReorg(client[c], toAction + 1) ELSE client[c]]
     ELSE UNCHANGED <<logVars, client>>
  /\ Reads("poll", [poll EXCEPT !.pc = "fetch"])
  /\ UNCHANGED <<chainVars, seeded, lastTip, joined, quiet, left>>

Fetching == poll.pc = "fetch" \/ (poll.pc = "tips" /\ seeded /\ ~pendingReorg)

\* Defect: the cursor jumps to the tip read before the fetch.
TipCursor(previous, count, tip) == Larger(previous + count, tip)
\* nextCursor: the last row fetched; nothing fetched moves nothing.
NextCursor(previous, count, tip) == IF count = 0 THEN previous ELSE Larger(previous, 0) + count

\* noteShortFetch: rows were rolled back between the tip read and the fetch.
Short(previous, count, tip) == count < FetchLimit /\ NextCursor(previous, count, tip) < tip

\* emitNewBlocks
ReadBlocks ==
  LET count == Larger(Smaller(blockIndex + FetchLimit, MaxBlock) - blockIndex, 0) IN
  /\ Fetching
  /\ poll.block > blockIndex
  /\ history' = [h \in Heights |-> IF h \in (blockIndex + 1)..(blockIndex + count)
                                   THEN [history[h] EXCEPT !.hash = chain[h].hash] ELSE history[h]]
  /\ blockIndex' = NextCursor(blockIndex, count, poll.block)
  /\ pendingReorg' = (pendingReorg \/ Short(blockIndex, count, poll.block))
  /\ Reads("poll", [poll EXCEPT !.pc = "acts"])
  /\ UNCHANGED <<chainVars, seeded, lastTip, actionIndex, liveMark, logVars, joined, client,
                 quiet, left>>

ActionsDue == poll.pc = "acts" \/ (Fetching /\ poll.block <= blockIndex)

\* emitNewActions: the fetch
ReadActions ==
  /\ ActionsDue
  /\ poll.action > actionIndex
  /\ Reads("poll", [poll EXCEPT !.pc = "rows",
                                !.rows = ActionsSince(actionIndex, FetchLimit, MaxActions)])
  /\ UNCHANGED <<chainVars, feedVars, joined, client, quiet, left>>

NoActions ==
  /\ ActionsDue
  /\ poll.action <= actionIndex
  /\ EndPass("poll")
  /\ UNCHANGED <<chainVars, feedVars, joined, client, quiet, left>>

\* A row starts: the mark moves and its NEW_ACTION goes out in one turn.
SendAction ==
  LET row == poll.rows[poll.next] IN
  /\ poll.pc = "rows"
  /\ poll.rows # <<>>
  /\ liveMark' = row.index
  /\ client' = [c \in Clients |-> IF c \in Subscribed
                                  THEN TakeAction(client[c], row) ELSE client[c]]
  /\ joined' = {}
  /\ Reads("poll", [poll EXCEPT !.pc = "life"])
  /\ UNCHANGED <<chainVars, seeded, lastTip, pendingReorg, blockIndex, actionIndex, history,
                 logVars, quiet, left>>

\* rememberActions: the lowest index announced at each height.
WithFirsts ==
  [h \in Heights |->
     LET at == {poll.rows[n].index : n \in {m \in DOMAIN poll.rows : poll.rows[m].height = h}}
         all == at \cup history[h].first
     IN  IF at = {} THEN history[h] ELSE [history[h] EXCEPT !.first = {Lowest(all)}]]

\* What follows the last row in the same turn.
ActionsSent ==
  LET index == NextCursor(actionIndex, Len(poll.rows), poll.action) IN
  /\ history' = WithFirsts
  /\ actionIndex' = index
  /\ liveMark' = Larger(liveMark, index)
  /\ pendingReorg' = (pendingReorg \/ Short(actionIndex, Len(poll.rows), poll.action))
  /\ EndPass("poll")

\* Defect: a client that joined in mid-row is sent the row's other frames.
JoinedOnce == {}
\* markJoinedMidRow: these get the row's lifecycle frames from their replay.
Joined == joined

\* The row's lifecycle frames, after their own reads.
SendLife ==
  /\ poll.pc = "life"
  /\ client' = [c \in Clients |-> IF c \in Subscribed \ Joined
                                  THEN TakeLife(client[c], poll.rows[poll.next]) ELSE client[c]]
  /\ joined' = {}
  /\ IF poll.next < Len(poll.rows)
     THEN /\ Reads("poll", [poll EXCEPT !.pc = "rows", !.next = @ + 1])
          /\ UNCHANGED <<pendingReorg, actionIndex, liveMark, history>>
     ELSE ActionsSent
  /\ UNCHANGED <<chainVars, seeded, lastTip, blockIndex, logVars, quiet, left>>

NothingFetched ==
  /\ poll.pc = "rows"
  /\ poll.rows = <<>>
  /\ ActionsSent
  /\ UNCHANGED <<chainVars, seeded, lastTip, blockIndex, logVars, joined, client, quiet, left>>

-----------------------------------------------------------------------------
(* A client: connection, subscription and replay.                          *)

Goes(c, cl) == client' = [client EXCEPT ![c] = cl]

\* Defect: the ceiling is left to the replay, which knows a later mark.
CeilingLater == MaxActions
\* freezeReplayCeilings
Ceiling == liveMark

\* handleSubscribe: the key goes live and its ceiling is frozen in one turn;
\* a client that joins in mid-row is left out of the rest of that row.
GoesLive(c, cl) ==
  /\ seeded
  /\ Goes(c, [cl EXCEPT !.ceiling = Ceiling])
  /\ joined' = IF poll.pc = "life" THEN joined \cup {c} ELSE joined
  /\ UNCHANGED <<chainVars, feedVars, reader, quiet, left>>

\* The first connection: the page subscribes without a cursor, WELCOME gives it
\* one, and what lies below it loads over REST.
Open(c) ==
  /\ client[c].state = "new"
  /\ GoesLive(c, [Fresh EXCEPT !.state = "live", !.cursor = liveMark, !.base = liveMark,
                     !.held = [i \in Indexes |-> IF i <= liveMark THEN HashOf(i) ELSE 0]])

\* _resubscribe: since_action_index is the cursor, but none is sent at 0.
Reconnect(c) ==
  /\ client[c].state = "away"
  /\ GoesLive(c, IF client[c].cursor > 0
                 THEN [client[c] EXCEPT !.state = "gate", !.since = client[c].cursor]
                 ELSE [client[c] EXCEPT !.state = "live"])

\* The client is told to reload; what it holds no longer matters.
Resync == [Fresh EXCEPT !.state = "resync"]

\* Defect: a cursor at the first voided index passes.
CoveredAbove(since) ==
  \E n \in DOMAIN reorgLog : reorgLog[n].first < since /\ since <= reorgLog[n].tip
\* reorgCovering
Covered(since) ==
  \E n \in DOMAIN reorgLog : reorgLog[n].first <= since /\ since <= reorgLog[n].tip

\* replayStartSeq and reorgGate, after the stale and seed gates' awaits.
Gate(c) ==
  LET cl == client[c] IN
  /\ cl.state = "gate"
  /\ Goes(c, IF Covered(cl.since) THEN Resync
             ELSE [cl EXCEPT !.state = "max", !.startSeq = rollbackSeq])
  /\ UNCHANGED <<chainVars, feedVars, reader, joined, quiet, left>>

ReadMax(c) ==
  /\ client[c].state = "max"
  /\ Goes(c, [client[c] EXCEPT !.state = "bound", !.max = MaxAction])
  /\ UNCHANGED <<chainVars, feedVars, reader, joined, quiet, left>>

\* The ahead-of-tip and depth gates, then resolveCeilings.
Bound(c) ==
  LET cl == client[c] IN
  /\ cl.state = "bound"
  /\ Goes(c, IF cl.since > cl.max \/ cl.max - cl.since > ReplayDepth THEN Resync
             ELSE [cl EXCEPT !.state = "read", !.bound = Smaller(cl.ceiling, liveMark)])
  /\ UNCHANGED <<chainVars, feedVars, reader, joined, quiet, left>>

ReadRows(c) ==
  LET cl == client[c] IN
  /\ cl.state = "read"
  /\ Goes(c, [cl EXCEPT !.state = "replay", !.next = 1,
                        !.rows = ActionsSince(cl.since, ReplayLimit, cl.bound)])
  /\ UNCHANGED <<chainVars, feedVars, reader, joined, quiet, left>>

\* A query throws; the client reads that, or silence, as a refusal.
ReplayFails(c) ==
  /\ client[c].state \in {"max", "read"}
  /\ Spend("query")
  /\ Goes(c, Resync)
  /\ UNCHANGED <<chainVars, feedVars, reader, joined, quiet>>

Latest(cl) == IF cl.rows = <<>> THEN cl.since ELSE cl.rows[Len(cl.rows)].index

\* Defect: a rollback below the rows already read goes unnoticed.
NeverOvertaken(cl) == FALSE
\* rollbackSince: a rollback since the replay's gate voided a row it read, or
\* one that may have is no longer kept.
Overtaken(cl) ==
  \E n \in DOMAIN rollbacks :
    /\ rollbacks[n].seq > cl.startSeq
    /\ \/ rollbacks[n].first <= Latest(cl)
       \/ rollbacks[1].seq > cl.startSeq + 1

Stop(c) ==
  /\ client[c].state \in {"replay", "replaylife"}
  /\ Overtaken(client[c])
  /\ Goes(c, Resync)
  /\ UNCHANGED <<chainVars, feedVars, reader, joined, quiet, left>>

\* CATCH_UP_COMPLETE: a truncated replay is continued from where it stopped,
\* under the ceiling the key already has; else what was seen moves the cursor.
Completed(cl) ==
  LET seen == Larger(cl.seen, Latest(cl)) IN
  IF Len(cl.rows) >= ReplayLimit
  THEN [cl EXCEPT !.state = "gate", !.since = Latest(cl), !.seen = seen, !.rows = <<>>, !.next = 1]
  ELSE [cl EXCEPT !.state = "live", !.cursor = Larger(@, seen), !.seen = 0, !.since = 0,
                  !.startSeq = 0, !.max = 0, !.bound = 0, !.rows = <<>>, !.next = 1]

ReplayNothing(c) ==
  /\ client[c].state = "replay"
  /\ client[c].rows = <<>>
  /\ ~Overtaken(client[c])
  /\ Goes(c, Completed(client[c]))
  /\ UNCHANGED <<chainVars, feedVars, reader, joined, quiet, left>>

ReplayRow(c) ==
  LET cl == client[c] IN
  /\ cl.state = "replay"
  /\ cl.rows # <<>>
  /\ ~Overtaken(cl)
  /\ Goes(c, [TakeAction(cl, cl.rows[cl.next]) EXCEPT !.state = "replaylife"])
  /\ UNCHANGED <<chainVars, feedVars, reader, joined, quiet, left>>

ReplayLife(c) ==
  LET cl == TakeLife(client[c], client[c].rows[client[c].next]) IN
  /\ client[c].state = "replaylife"
  /\ ~Overtaken(client[c])
  /\ Goes(c, IF cl.next < Len(cl.rows)
             THEN [cl EXCEPT !.state = "replay", !.next = @ + 1] ELSE Completed(cl))
  /\ UNCHANGED <<chainVars, feedVars, reader, joined, quiet, left>>

\* Defect: what an unfinished catch-up saw moves the cursor all the same.
SeenOnClose(cl) == Larger(cl.cursor, cl.seen)
\* _onClose: an unfinished catch-up is dropped, its cursor stays before the gap.
CursorOnClose(cl) == cl.cursor

\* The socket closes, or is shed with 4008 for its backlog.
Drop(c) ==
  LET cl == client[c] IN
  /\ c \in Subscribed
  /\ Spend("close")
  /\ Goes(c, [Fresh EXCEPT !.state = "away", !.cursor = CursorOnClose(cl), !.base = cl.base,
                           !.held = cl.held])
  /\ joined' = joined \ {c}
  /\ UNCHANGED <<chainVars, feedVars, reader, quiet>>

-----------------------------------------------------------------------------
\* A process starts beside an indexer that has committed a block or two.
Init ==
  /\ \E n \in InitialActions :
       \/ chain = <<[hash |-> 1, top |-> n]>>
       \/ \E m \in n..MaxActions :
            MaxBlocks > 1 /\ chain = <<[hash |-> 1, top |-> n], [hash |-> 2, top |-> m]>>
  /\ minted = Len(chain)
  /\ seeded = FALSE
  /\ lastTip = NoTip
  /\ pendingReorg = FALSE
  /\ blockIndex = 0
  /\ actionIndex = 0
  /\ liveMark = 0
  /\ history = [h \in Heights |-> NoEntry]
  /\ reorgLog = <<>>
  /\ rollbacks = <<>>
  /\ rollbackSeq = 0
  /\ reader = [r \in Readers |-> IdlePass]
  /\ joined = {}
  /\ client = [c \in Clients |-> Fresh]
  /\ quiet = FALSE
  /\ left \in Budgets

IndexerStep ==
  \/ \E n \in 0..MaxActions : Extend(n)
  \/ \E h \in Heights : RollBack(h)

TipStep(r) ==
  \/ ReadTip(r)
  \/ ReadProbe(r)
  \/ ReadMaxBlock(r)
  \/ ReadMaxAction(r)
  \/ Seed(r)
  \/ SeedHistory(r)

FeedStep ==
  \/ ReadFork
  \/ Rewind
  \/ ReadBlocks
  \/ ReadActions
  \/ NoActions
  \/ SendAction
  \/ SendLife
  \/ NothingFetched

ReplayStep(c) ==
  \/ Gate(c)
  \/ ReadMax(c)
  \/ Bound(c)
  \/ ReadRows(c)
  \/ Stop(c)
  \/ ReplayNothing(c)
  \/ ReplayRow(c)
  \/ ReplayLife(c)

PassStep == FeedStep \/ TipStep("poll")
SeedStep == TipStep("seed") \/ SeedLate

Next ==
  \/ IndexerStep
  \/ StartPoll
  \/ StartSeed
  \/ PassStep
  \/ SeedStep
  \/ \E r \in Readers : PassFails(r)
  \/ \E c \in Clients : Open(c) \/ Reconnect(c) \/ ReplayStep(c) \/ ReplayFails(c) \/ Drop(c)

Spec == Init /\ [][Next]_vars

-----------------------------------------------------------------------------
\* The poll timer, the event loop and the clients' reconnects go on; faults
\* and blocks are bounded, so the chain settles in the end.
Fairness ==
  /\ WF_vars(StartPoll)
  /\ WF_vars(PassStep)
  /\ WF_vars(SeedStep)
  /\ \A c \in Clients :
       WF_vars(Open(c)) /\ WF_vars(Reconnect(c)) /\ WF_vars(ReplayStep(c))

FairSpec == Spec /\ Fairness

-----------------------------------------------------------------------------
Blocks == [hash : 1..MaxMinted, top : 0..MaxActions]
Rows == [index : Indexes, height : Heights, hash : 1..MaxMinted]
Tips == [index : 0..MaxBlocks, hash : 0..MaxMinted]

Passes ==
  [pc : {"idle", "tip", "probe", "block", "action", "tips", "history", "rewind", "fetch",
         "acts", "rows", "life"},
   tip : Tips, was : Tips, block : 0..MaxBlocks, action : 0..MaxActions, fork : 0..MaxBlocks,
   rows : Seq(Rows), next : Nat \ {0}]

ClientRecords ==
  [state : Stages \cup {"new", "away", "live", "resync"}, cursor : Int, base : Int,
   held : [Indexes -> 0..MaxMinted], copies : [Parts -> [Indexes -> 0..2]], ceiling : Int,
   bound : Int, rolled : Int, since : Int, startSeq : Nat, max : Nat, rows : Seq(Rows),
   next : Nat \ {0}, seen : Int]

\* Types; both rollback logs stay within LogDepth (announceRollback and
\* noteRollback drop the oldest entry), and a block cursor is a height.
TypeOK ==
  /\ chain \in Seq(Blocks)
  /\ minted \in 1..MaxMinted
  /\ seeded \in BOOLEAN
  /\ lastTip \in Tips
  /\ pendingReorg \in BOOLEAN
  /\ blockIndex \in 0..MaxBlocks
  /\ actionIndex \in Int
  /\ liveMark \in Int
  /\ history \in [Heights -> [hash : 0..MaxMinted, first : SUBSET Int]]
  /\ reorgLog \in Seq([first : Int, tip : Int])
  /\ rollbacks \in Seq([seq : Nat \ {0}, first : Int])
  /\ Len(reorgLog) <= LogDepth /\ Len(rollbacks) <= LogDepth
  /\ rollbackSeq \in Nat
  /\ reader \in [Readers -> Passes]
  /\ joined \subseteq Clients
  /\ client \in [Clients -> ClientRecords]
  /\ quiet \in BOOLEAN
  /\ left \in [Faults -> Nat]

\* What is still to come from the row in flight.
InFlight(i) == poll.pc = "life" /\ poll.rows[poll.next].index = i

\* Exactly once, from above: between replay and live feed a subscription
\* brings no frame of a row twice, except where a rollback announced since it
\* went live reached below its ceiling.
NoRepeat ==
  \A c \in Clients, p \in Parts, i \in Indexes :
    client[c].copies[p][i] > 1 => i >= client[c].rolled

\* Exactly once, without the exception: the ceiling of a key is to keep every
\* row the live feed sends it out of its replays.  It does not hold and no run
\* checks it; the README gives the reason.
ExactlyOnce ==
  \A c \in Clients, p \in Parts, i \in Indexes : client[c].copies[p][i] <= 1

\* What the detector announced is the chain: no rollback waits to be noticed.
Announced ==
  /\ \A h \in Remembered : ~Changed(h)
  /\ \A n \in DOMAIN poll.rows : HashOf(poll.rows[n].index) = poll.rows[n].hash

\* Exactly once, from below: a client whose catch-up is complete has every row
\* between what it loaded itself and the live mark, and of the rows the feed
\* brought it also the lifecycle frames, whenever it joined.
NothingMissed ==
  Announced => \A c \in Clients : client[c].state = "live" =>
    \A i \in Indexes : i <= liveMark =>
      /\ i > client[c].base => client[c].held[i] # 0
      /\ client[c].copies["action"][i] > 0 =>
           client[c].copies["life"][i] > 0 \/ InFlight(i)

\* The detector has seen the chain as it is: no pass runs, and the chain has
\* stood still since the last one began.
UpToDate == poll.pc = "idle" /\ quiet /\ seeded /\ ~pendingReorg

\* After any reorganisation the next undisturbed pass leaves no client that
\* completed its catch-up with a row of the old chain: it was told to drop it,
\* got the replacement, or was sent to reload.
FollowsChain ==
  UpToDate => \A c \in Clients : client[c].state = "live" =>
    \A i \in Indexes : i <= liveMark => client[c].held[i] = HashOf(i)

\* Nor does a cursor stay above a row the new chain has yet to announce, or
\* the history keep a block that was replaced.
CursorsFollow ==
  UpToDate =>
    /\ blockIndex <= MaxBlock /\ actionIndex <= MaxAction /\ liveMark = actionIndex
    /\ \A h \in 1..blockIndex : history[h].hash # 0 => history[h].hash = chain[h].hash

\* When the chain and the faults have settled, so do the clients: each ends up
\* live with every row of the chain, or knows it must reload.  (Above the tip
\* it may keep a row that went out live during a catch-up it did not finish and
\* was rolled back while it was away, until that index is used again.)
Settles ==
  <>[](\A c \in Clients :
         \/ client[c].state = "resync"
         \/ client[c].state = "live" /\ \A i \in 1..MaxAction : client[c].held[i] = HashOf(i))
=============================================================================
