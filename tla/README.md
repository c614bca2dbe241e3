# XChain Explorer: a TLA+ model

This directory models the parts of `xchain-explorer` whose correctness depends
on the order in which callbacks, awaits, frames and faults happen.  The
explorer is one Node.js process: there are no threads, so every piece of
JavaScript between two awaits runs alone.  The hard cases all come from what
runs *between* them: a snapshot drain of minutes that shares its state with
WebSocket frames, timers and socket closes, or a poll of five queries during
which the database behind them is reorganised.

Paths below are relative to `src/src/`.

## Inventory

| Part | State it keeps | Operations | Talks to | Hard behaviour |
|---|---|---|---|---|
| Hub mirror (`hub/hub_db_sync`, started by `mirror/sync_manager.js`) | mirrored tables, wire positions, re-page debts, connection epoch, heartbeat gate, stream and table watermarks, latches, price buffer | connect, ready frame, close, drain, retry, resync, row / watermark / deletion frame, failover | hub over REST and WebSocket; block loop and `/hub-mirror/status` read the certificates | two unordered channels, drains that span closes, partial failures, certificates that must not lie |
| Row upserts and retractions (`row_upserts.js`, `retractions.js`) | generations and fences in the rows themselves | upsert per table, fenced delete | both mirror channels | late pages and late retractions at recycled indexes |
| Barriers (`hub_db_sync/barriers`) | arrays of waiters, arm flags, cached times read back from the mirrored rows | wait, refresh, release, timeout | watermarks and certificates; the block loop of a process that mirrors to settle blocks | cached times read before an await and stored after it; releases that overlap |
| Failover (`failover/`, `hub_selector.js`) | selector revision, current hub | move, reset | hub mirror | state of one hub used against another |
| Live feed, change detector (`ws/change_detector`) | cursors over blocks and actions, height history, live mark, rollback log | poll pass per coin, seed, rewind | indexer database, broadcaster | reorganisations between two queries of one pass |
| Live feed, replay (`ws/websocket_server/catch_up*.js`, `subscriptions.js`) | latch per client, frozen ceilings | subscribe, catch-up | change detector, database, client socket | replay and live feed address the same client |
| Broadcaster and channels (`ws/broadcaster*`, `ws/channel_manager*`) | subscriptions, filters, once subscriptions | fan out, shed | change detector, sockets | backpressure, a key joined in mid-row |
| Database access and caches (`db/connection*`) | pools, caches, reorg generations, two last-seen tips | query under a deadline, cache probe | MariaDB | stale answers across a reorg |
| Hub connector and config sync (`connectors/hub*`) | config tree, cursor, cursor's endpoint | delta poll, merge, refetch | list of hubs | failover and regression of the cursor |
| Hub operational cache (`mirror/operational_cache.js`) | rows per method | read through TTL and stale ceiling | hub | the age of a row around a slow request |
| Routes, proofs, readers (`XChainExplorer.js`, `explorer/`, `db/readers/`) | none | request handlers | all of the above | none of their own |
| Consensus and federation helpers (`consensus/`, `federation/`) | none | Merkle trees, quorum thresholds, decoding | proofs, mirror | boundary arithmetic |
| HTTP shell (`http/`, `api.js`) | slots in flight, requests per minute, how far a shutdown is | rate limit, concurrency gate, shutdown drain | Express, listeners, poll, pools | slots and connections under aborts and late answers; pools closed under a reader |
| Icon downloader (`icons/`) | queue table, files | download, convert, sweep | database, file system | a crash between file and row |
| Bundled client (`content/js/xchain_ws*.js`) | cursor, running catch-up, tracked subscriptions | connect, resubscribe, follow REORG, resync | WebSocket server | a cursor that must never pass a gap |
| Contract queries, observability, coins, other pages | none that outlives a request | | | |

`PROJECT.json` lists every part under `components` with its status, and under
`hazards` the places where this code is hard to test.

What correct means, part by part:

- **Hub mirror.** A watermark certifies only rows the mirror holds; a
  certificate belongs to one connection; a change the watermark covers is never
  lost for good; once the faults stop the mirror reaches the hub.
- **Live feed.** A client that follows REORG notices and refusals ends up with
  the rows of the current chain, each exactly once; no cursor stays above a
  replaced row.
- **Row fences.** Whatever the order of deliveries, the row of the highest
  generation survives and no retracted row comes back.
- **Config sync.** The cached tree equals the answering hub's tree at the
  cursor; a row is never stranded below the cursor.
- **Caches.** No answer computed from an old chain is served under a generation
  begun after the reorg.
- **Request path.** No slot of the gate and no connection of a pool is lost or
  given back twice; a shutdown closes the pools under nobody.

## Modules

| Module | What it is |
|---|---|
| `HubMirror` | the mirror client, its hub and its connection: one action per handler or await-to-await step |
| `CertifiedReplica` | what the mirror promises, without sockets, pages or drains |
| `MCHubMirror` | sets of tables and fault budgets for TLC |
| `HubMirror_proofs`, `HubMirrorAppend_proofs` | theorems about `HubMirror`: types, the gate and what is accounted for where rows change in place; the watermarks and the refinement of `CertifiedReplica` |
| `HubMoves`, `HubMoves_proofs` | several hubs, the ring of candidates and the moves between them, against drains, retries, reconnects and the stall detector |
| `RowFences`, `RowFences_proofs` | one retractable row of the mirror under live frames, late pages, fenced deletions and reconciliations |
| `Barriers`, `Barriers_proofs` | a block held until the mirror has the rows it must see, judged by watermarks and cached times |
| `SnapshotBarrier`, `Barriers_proofs` | the barrier that asks the database, and the array of waiters it rewrites across awaits |
| `LiveFeed`, `Feed_proofs` | one coin's change detector over a chain that reorganises, and the clients that follow it: live feed, reconnect and catch-up replay |
| `LatchCursors` | the two cursors at the end of a pass whose events have no action row: deadline latches of bet feeds and phases of cross-chain calls; extends `LiveFeed` |
| `MempoolFeed`, `Feed_proofs` | the unconfirmed half of the feed: the mempool diff, the decoder window it reads, and the frames its followers get |
| `HubConfig`, `HubConfig_proofs` | the delta polls of the hubs' configs table, their merge, and the config served from it |
| `TipCaches`, `Requests_proofs` | the caches a reorg must empty, and the two observers of the tip that empty them |
| `AgeCaches`, `Requests_proofs` | the caches that bound the age of what they serve |
| `RequestPath`, `Requests_proofs` | a request between its socket and the database: the concurrency gate, a statement under its deadline, and the shutdown drain |
| `MC*` | sets of hubs, tables, clients and requests and the fault budgets for TLC; `MCCaches` puts the caches and the request path together, `MCMirrorRows` the rows and their readers, `MCMirrorLiveness` the drains and the blocks that wait for them, `MCMirrorRevise` two instances of `HubMirror`, `MCLatchFeed` the clients and the cursors of a feed, `MCFeedLimits` the clients of confirmed rows and the followers of the mempool |

### HubMirror and the code

A row is `<<table, wire id, time of its last change>>`: the mirrored columns
matter only in that a delivered version is older or newer than the one held.
The hub's clock counts its changes, starting at 1, so 0 is "never".

| State | Code |
|---|---|
| `epoch`, `gate`, `streamWM`, `hubTip` | `_wsEpoch`, `_bootstrapDrained`, `streamWatermark`, `_hubTipTs` |
| `tableEpoch`, `tableWM` | `_tableDrainEpochs`, `_tableWatermarks` |
| `schemaSeen`, `applySeen` | `_schemaMismatchSeen`, `_applyFailureSeen` |
| `positions`, `owed`, `owedSeq` | `_drainPositions`, `_repageOwed`, `_repageOwedSeq` |
| `priceDrained`, `priceBuf`, `priceOver` | `_priceDrained`, `_pendingPriceEvents`, `_pendingPriceOverflow` |
| `knownHub`, `readyMax` | `_lastHubInstanceId`, `_readyMaxIds` |
| `stream` | frames on the wire followed by `_msgChain` |
| `drain` | the locals of `bootstrapAll`, `drainEveryTable` and `bootstrapTable` across their awaits |
| `bootCall`, `retryTimer`, `starting` | a call of `bootstrapAll` still to run, `_bootstrapRetryTimer`, `start()` awaiting its first connection |

| Actions | Code |
|---|---|
| `Connect`, `ReadyArrives`, `ConnectionLost`, `TerminatedSocketCloses` | `transport.js` connectWebSocket, adoptReadyFrame, resetOnSocketClose; `lifecycle.js` scheduleReconnect |
| `StaleFrame`, `RefuseRow`, `BufferRow`, `ApplyRow`, `ApplyRowFails`, `HandleBeat` | `transport.js` enqueueStreamFrame, `live_events.js`, `watermarks.js` handleWatermarkFrame |
| `RunBootCall`, `RetryFires`, `OpenTable`, `SkipTables` | `lifecycle.js` bootstrapAll, scheduleBootstrapRetry, drainEveryTable; `bootstrap/drain.js` openTableDrain |
| `ServePage`, `PageFails`, `ApplyPage`, `ApplyPageFails`, `CatchUp`, `CatchUpFails`, `DrainOutlived` | `bootstrap/drain.js` pageTableDrain, `bootstrap/flush.js`, `bootstrap/verdict.js` |
| `QueueReplay`, `Replay`, `ReplayOverflowed`, `ReplayFails` | `bootstrap/verdict.js` armBarriersAfterDrain, `live_events.js` flushPendingPriceEvents |
| `CertifyTable`, `CertifyFullDrain`, `ScheduleRetry` | `watermarks.js` certifyTableDrain, `lifecycle.js` certifyFullDrain |
| `RequestResync`, `StallResync` | `lifecycle.js` requestResync, driveResync; `watermarks.js` checkWatermarkStall |
| `HubInserts`, `HubRevises`, `HubBeats` | the hub, external |

What the model merges or leaves out:

- A row or page is applied in one step; the code awaits one local database
  write per row, and no other reader of the state can tell.
- The frames still on the wire and those waiting in `_msgChain` are one queue;
  each is tagged with the epoch it arrived under.  The hub's registration of a
  subscriber and the ready frame are one step.
- `StallResync` fires only when nothing pending can move the watermark: its
  window is longer than every retry.
- The pages of a table end at the first short page; the code's `MAX_PAGES`
  ceiling is not reached, and its catch-up page is as large as a snapshot page.
- The hub answers `caught_up` always; a hub that does not makes the code refuse
  the mark, which is the same path as a failing request here.
- One hub.  No failover, no poll mode, no `stop()`, no chain-identity fences,
  no height watermarks, no price bound and repage floor, no deletion events and
  no reconciliation after a drain.
- `certifyFullDrain` follows the last table's verdict in one step (one
  microtask apart in the code).
- `drainEveryTable` walks twelve tables in a fixed order; the instances take two
  or three of them in that order (`DrainOrder`).  The tables fall into four
  kinds, which the sets `RepageTables`, `FromZeroTables`, `WholeRowTables` and
  `PriceTable` name.

### LiveFeed and the code

A block is its ledger hash and the highest action index up to it.  Hashes are
numbers never used twice, so "this row was replaced" is an inequality of
numbers.  A row has two frames: its `NEW_ACTION` and, for all that its lifecycle
queries derive, one lifecycle frame.

| State | Code |
|---|---|
| `seeded`, `blockIndex`, `actionIndex`, `liveMark`, `pendingReorg`, `history` | `initialized`, `blockIndex`, `actionIndex`, `liveActionMark`, `pendingReorg`, `history` of `ChangeDetector.state[coin]` |
| `reorgLog`, `rollbacks`, `rollbackSeq` | the same names in `rollback.js` |
| `lastTip` | `_lastTip[coin]` of `db/connection/cache.js` |
| `reader["poll"]`, `reader["seed"]` | the locals of `checkCoin` and of `seedOnDemand` across their awaits |
| `joined` | `_actionRows.get(coin).joined` of the broadcaster |
| `client[c]` | on the server `replayCeilings` and the locals of `runCatchUp`; in the page `lastActionIndex`, `_catchUp.maxSeen` and the rows it shows |

| Actions | Code |
|---|---|
| `StartPoll`, `PassFails` | `change_detector.js` poll, pollPass |
| `StartSeed`, `SeedLate`, `Seed`, `SeedHistory` | `coin.js` ensureSeeded, seedOnDemand, seedCursors, seedHistory |
| `ReadTip`, `ReadProbe`, `ReadMaxBlock`, `ReadMaxAction` | `coin.js` readTip, one action per query; `cache.js` checkReorgAndInvalidate, blockReplaced |
| `ReadFork`, `Rewind` | `coin.js` findForkPoint, rewindCursors; `rollback.js` announceRollback; `broadcaster/reorg.js` |
| `ReadBlocks`, `ReadActions`, `NoActions`, `SendAction`, `SendLife`, `NothingFetched` | `coin.js` emitNewBlocks, emitNewActions, rememberActions; `rollback.js` noteShortFetch; `broadcaster/channels.js` |
| `Open`, `Reconnect` | `welcome.js`, `subscriptions.js` handleSubscribe, `xchain_ws_catch_up.js` _resubscribe |
| `Gate`, `ReadMax`, `Bound`, `ReadRows`, `ReplayFails` | `catch_up_gates.js`, `catch_up.js` runCatchUp, replayFrom |
| `ReplayRow`, `ReplayLife`, `ReplayNothing`, `Stop` | `catch_up.js` replayActions; `catch_up_gates.js` midReplayReorg; `xchain_ws_catch_up.js` _catchUpAnswered, _finishCatchUp |
| `Drop` | `xchain_ws.js` _onClose |
| `Extend`, `RollBack` | the indexer, external |

What the model merges or leaves out:

- A query and the code up to the next await are one step.  A frame reaches the
  client in the step that sends it: a connection that loses the end of what was
  sent is one that closed before it was sent.  A client shed for its backlog is a
  `Drop`.
- One coin, and one key per client.  The page's first load over REST, its first
  subscription and its WELCOME are one step, `Open`.
- `resync` is terminal: what the page does about it is not the feed's business.
- Left out: blocks without a ledger hash, a database without blocks, histories
  deeper than `HISTORY_DEPTH`, a rollback of the first block, NEW_BLOCK frames
  (only their cursor and history), entity frames, the stale gate, once subscriptions and
  filters, the WELCOME of a server without a detector, a restart of the process,
  the limits `catchUpMaxRounds` and `maxReconnectAttempts`.
- The chain stands still until the coin is seeded: a chain that moved earlier is
  another initial chain.
- Four things the environment may do are switches, because each of them breaks a
  property and would hide everything else: `OutrunsTip`, `SeedDisturbed`,
  `SeedOverlaps`, and an empty chain in `InitialActions`.  What each does is
  told below.  Without `OutrunsTip` the chain may still shrink and be
  replaced between any two queries of a pass; it only may not grow beyond what
  that pass has read of its tip.  There `noteShortFetch` finds nothing that the
  next reorg check would not find anyway.

### LatchCursors and the code

A latch is what the end of a block writes without an action (`closed_block` of a
bet feed, `resolved_block` of a call); a block's latches are chosen when it is
indexed, and go with it.  `position` is the pair `closedBlock`/`closedAction`
(`xcallBlock`/`xcallAction`), a null action written 0.  `tail` is what
`checkCoin` holds when the actions are done: the two tips the pass read, and
`deliveredBlock`.

| Action | Code |
|---|---|
| `RowsDone` | the last step of `LiveFeed`'s pass (`NoActions`, `NothingFetched`, `SendLife`), which computes `delivered` (`coin.js:82`) |
| `ReadLatches` | `checkBetLatches` or `checkXcallPhases`: query, events, `pairCursorAfter` |
| `Park`, `CoolsDown`, `Rearm` | the missing table: parked, not looked at, found again |
| `TailFails` | any other error ends the pass |
| `SeedsCursors`, `RewindsCursors` | `Seed` and `Rewind` of `LiveFeed` with what `seedCursors` and `rewindCursors` do to the pairs |
| `TableAppears`, `ChainStep` | the indexer is upgraded; it writes a block and its latches |

`sent` holds the latches announced and not rolled back since; a seed and a re-arm
count what lies below them as sent.  The cooldown may pass at any time.  A table
does not disappear again.  Both cursors run the same steps on state of their own,
one after the other, so TLC gives the module one of them, `closed`.  No client is
followed here: how a lifecycle frame reaches one is in `LiveFeed`.

### MempoolFeed and the code

A transaction is its number in hash order.  One client follows the coin-wide
mempool channel from the start, another an address from some point on; every
transaction pays that address, those of `Compact` by its index id.

| State | Code |
|---|---|
| `pool`, `addressId`, `indexed` | the decoder's table, the address's row of the indexer and its height, external |
| `window`, `windowFresh`, `asked[r]` | `_mempoolApiCache[coin]`, its age against the TTL, and the locals of `getDecoderMempoolSnapshot` across its request |
| `seenHashes`, `diffed` | `mempoolState[coin]`; `diffed` is its `initialized` and, for the properties, the last window |
| `tail`, `lookup` | `_mempoolTails`, and the locals of `resolveAddressId` across its query |
| `memo`, `announced` | the coin's map in `_addressIdMemo`, and which map that is: one for each block announced |
| `absent`, `unsaid`, `idsSince` | ghosts: what left the pool since a window held it, what the first window held, the ids the address has had since the last block |

| Action | Code |
|---|---|
| `ServeCached`, `AskDecoder`, `DecoderAnswers`, `DecoderFails`, `CacheExpires` | `decoder.js` getDecoderMempoolSnapshot, getDecoderMempoolFeed; for the poll each answer ends in `Diff`, `mempool.js` checkMempoolForCoin |
| `BlockAnnounced` | `broadcaster.js` onBlock, the memo |
| `FrameEmitted`, `LookupBegins`, `LookupReads`, `LookupReturns` | `broadcaster/mempool.js` queueMempoolFrame, emitMempoolAction, emitMempoolRemoved, matchMempoolDestinations, resolveAddressId |
| `PoolChanges`, `BlockIndexed`, `Follow` | the decoder, the indexer, a client |

- The order of the frames of one diff (of the rows, of the remembered hashes) is
  left open within each kind; actions come before removals.
- A request reads the decoder's table as it leaves.  A reply marked stale carries
  the window this explorer got last, and counts as a failure.
- Not modelled: the colocated decoder database, malformed replies, `types`
  filters, the routing by source (which needs no lookup), once subscriptions.

### HubMoves and the code

A hub is down, behind or ready, and serves one database instance at a time.  Rows
are not modelled: a position or a certificate is the *set of instances its pages
came from*, which is all that `CertifiedByHub` needs to tell.  `_wsEpoch` and
`_selectorRevision` appear as what is still current: a drain and the certified
tables lose that when either is bumped.

Two marks beside the instances record where the code lets pages of another hub in:

- `Late`: a page was being applied when its drain became stale.  `flushPendingRows`
  (`flush.js:97`) writes the wire position without looking at the epoch or the
  revision, also after a ready frame has reset the positions.
- `Adopted`: a ready frame came while a table was drained, or certified, and no
  instance was known to compare it with (`transport.js:161`: after a move, a resync
  or a close with code 1012, or on a cold start).  Nothing tells the drain that the
  hub is another one, and it goes on.

| State | Code |
|---|---|
| `candidates`, `followed` | the ring and the index of `HubSelector` |
| `answers`, `grace`, `dwell`, `streak` | `_notCaughtUpAnswers`, `_notCaughtUpSince`, the dwell of `move_policy.js`, its connect failures in a row |
| `sock`, `url`, `caughtUp`, `handled`, `lastInstance`, `reconnect` | the socket, `hubUrl`, `_readyCaughtUp`, `_readyCaughtUpHandled`, `_lastHubInstanceId`, the reconnect timer |
| `drain`, `positions`, `owed`, `built`, `gate`, `retry` | as in `HubMirror`, by instance |
| `stall` | the stall detector: cold, armed, resynced once |
| `listDue` | the hub's list of hubs still to be merged |

| Actions | Code |
|---|---|
| `Connect`, `ReadyArrives`, `SocketCloses`, `ConnectFails` | `transport.js` connectWebSocket, adoptReadyFrame, resetOnSocketClose; `lifecycle.js` scheduleReconnect; `move_policy.js` onConnectFailure |
| `GraceElapses`, `DwellElapses` | the clocks behind `uncaughtUpBlocks` and `dwellPassed` |
| `ConnectionBoots`, `RetryFires`, `OpenTable`, `PageServed`, `PageFails`, `PageLands`, `DrainEnds` | `lifecycle.js` start, scheduleBootstrapRetry, drainEveryTable, certifyFullDrain; `bootstrap/drain.js` |
| `HubListArrives` | `hub_selector.js` merge |
| `StallResync`, `StallMoves`, `HeartbeatAdvances` | `watermarks.js` checkWatermarkStall, `triggers.js` stallFailoverAction |
| `HubChanges`, `HubReplaced` | the hubs, external |

- `Connect` and `ReadyArrives` are strongly fair: a hub that is up at every
  retry accepts one of them.  A constructor of a hub client that throws is not
  modelled.
- The system may really come to rest (every timer off), so these runs do not
  check for deadlock; `SettlesOrStranded` says in which states it may.

### RowFences and the code

One row of one table, its `gen` (source_generation) and `eff` (its content, the
generation it was published for).  `kind` picks the table at the start: oracle
rows, cross-chain calls, matches and bridge transfers have four different
upserts and two different reconciliations.

| State | Code |
|---|---|
| `row` | the mirrored row: generation, content, status, written before this drain or not (`old`) |
| `wire`, `retained` | frames not yet handled; the deletions a hub replays to a new socket |
| `drain` | the locals of `pageTableDrain` and of the reconciliation across their awaits |
| `certifiedHub` | `_lastCertifiedMatchDrainHubUrl` |
| `hubRow`, `chainGen`, `publishedGen`, `pending` | the hub, external |

| Actions | Code |
|---|---|
| `HandleRow`, `LandPage` | `live_events.js`, `bootstrap/flush.js` through `row_upserts.js` (`Wins`, `Merged`, `Upsert`) |
| `HandleDeletion` | `retractions.js` acceptRetractionFences, retractByColumn (`Accepted`, `Deletes`) |
| `BeginDrain`, `ServePage`, `Reconcile` | `bootstrap/drain.js`, `bootstrap/verdict.js`, `foreign_reconciliation.js` |
| `Connect`, `SocketCloses`, `Restart` | `transport.js`, `watermark_state.js` |
| `HubPublish`, `HubRollback`, `HubRetract`, `HubRestarts` | the hub, external |

A match has one leg; `anchor_txid` and the attestation link are left out; a hub
publishes a key once per generation; retained deletions are replayed on every
connect; only co-signed deletions of the quorum tables are retained.

### Barriers and the code

A block is its time.  A row the hub finalizes at one second is effective at a
later one; the margin between the two differs by table and by the chains the row
names (`relay_margin.js`).  A behaviour is about one table.

| State | Code |
|---|---|
| `sending`, `mirrored`, `boot` | the frames of the connection, the rows applied, the locals of `bootstrapAll` |
| `certified`, `tableMark`, `streamMark` | `tableCertifiedOnCurrentConnection`, `_tableWatermarks`, `streamWatermark` |
| `armed`, `newest`, `covered` | `matchBootstrapped`, `matchSyncTimestamp`, `matchCoveredTimestamp` and their likes of the other tables |
| `refresh[who]` | a refresh of these scalars across its query: of the frame chain, of the bootstrap, of a waiter's timer |
| `block`, `passed` | the waiter, and what the mirror held when it was let through |

| Actions | Code |
|---|---|
| `RefreshLands`, `RefreshFails` (`StartsRefresh`, `ContentCoverage`, `BootGoesOn`) | `oracle_match_call.js` refreshMatchSyncTimestamp, matchContentCoverage, refreshCallSyncTimestamp; `bridge_policy.js` refreshPolicySyncTimestamp, policyContentCoverage; `lifecycle.js` refreshAllSyncHeights; `verdict.js` armBarriersAfterDrain |
| `BlockArrives` (`Satisfied`, `StreamCovers`, `ContentCovers`, `Free`), `Release`, `TimerFires` | matchSyncSatisfied, callSyncSatisfied, policySyncSatisfied, attestSyncSatisfied; the release functions; the timers of the wait functions |
| `HandleRowFrame`, `HandleBeatFrame`, `Subscribe`, `LinkCloses`, `PageIsServed`, `PageIsApplied` | `live_events.js`, `watermarks.js`, `transport.js`, `bootstrap/drain.js`, each reduced to one table |
| `HubFinalizes`, `HubSendsBeat`, `SecondPasses` | the hub and its clock, external |

What the environment is assumed to do, because the barriers rest on it:

- The hub finalizes at most one row of a chain in a second.  With two, the
  content test (`>=`) lets a block through on the first while the second, with
  the same effective time, is still in flight.
- Frames of one connection arrive in order; the delay before each is not bounded.
- The hub's clock is the only one, so `Grace`, which pays for the difference of
  two clocks, is 0 in the runs.
- A mirror that is empty after a drain of its connection lets blocks through
  (`Free`); `ReleasedComplete` excuses only rows finalized after that drain was
  served.
- The barrier on bridge transfers has the form of the one on calls.

The price and landing-marker barriers, which also judge by height, are not
modelled.

### SnapshotBarrier and the code

| State | Code |
|---|---|
| `waiters` | `_snapshotWaiters` |
| `walk[who]` | `releaseSnapshotWaiters` across its awaits: the array it iterates, its index and its own list of those still waiting |
| `unreleased` | a row was applied, and its path has not come to its release yet |
| `wait`, `timer` | the latest `waitForSnapshotSync` and the callback of its timer |
| `complete` | the mirrored snapshots, external to this module |
| `trouble` | what may go wrong in this behaviour: overlapping releases, failing queries |

`ReleaseBegins` and `Judges` are the loop of `releaseSnapshotWaiters`, one step
per query; `WaitBegins`, `WaitAnswered`, `WaitTimesOut` and `TimerEnds` are
`waitForSnapshotSync`.  A `for..of` sees what is pushed to its array, until
another release or a timer replaces the array.  The snapshots of a block only
become more complete, because the block loop passes the match and call barriers
first.

### HubConfig and the code

A tree is the version of each parameter; a hub answers the rows above a cursor,
in one of three builds (no watermark, strictly above, from the cursor on).  Some
parameters are a coin's (`CoinParams`); the others are keys such as `chain_tips`,
which `apply_hub_values.js:51-57` passes over.  Which row each hub starts with is
the bound `Firsts`.

| State | Code |
|---|---|
| `lastGood`, `cursorHub`, `lastWatermark`, `lastSeq` | `_lastGoodIdx`, `_watermarkEndpointIdx` and the fields of the same names in `connectors/hub.js` |
| `configs` | the cached tree of `config_sync.js` |
| `served`, `lastObtained`, `disk` | the coins of `configCache`, `lastObtainedConfigValue`, the coins of the config cache file of `config.js` |
| `poll` | the locals of `getAllConfig` across its awaits |

| Actions | Code |
|---|---|
| `Ask`, `Answered`, `AnswerFails` | `config_sync.js` requestConfigs, `connectors/hub.js` endpointPass, call |
| `FailOver`, `Regress`, `GiveUp`, `Apply` | `config_sync.js` getAllConfig, refetchAfterRegression, applyConfigResult; `config.js` fetchHubConfig (`Serve`) |
| `Restart` | `config.js` loadConfigCacheFromDisk |
| `HubCommits`, `HubRestored`, `Second` | the hubs and the clock, external |

The ghost `whole` is the full tree of the hub behind the last answer applied.  A
hub restored from its backup is asked once before it commits again: no test can
tell a sequence that has grown back from one that never shrank.

`Serve` has four ends.  No rows at all is no update (`validate.js:39`) and the
explorer falls back on what it serves or has on disk.  The tree it obtained last
changes nothing.  Any other is served as its coins (`Coins`), and written to disk
if it has some (`Persisted`).  So a hub that answers with rows and no coin among
them leaves an explorer that serves none (`config.js:226-237`), while the copy on
disk keeps the coins it had.

### TipCaches and the code

Blocks have a number never used twice; an entry records the block its rows came
from.  Only the current reorg generation is represented: entries of earlier ones
cannot be reached again.

| State | Code |
|---|---|
| `requestTip`, `lastTip` | the two last-seen tips, of `resultCacheGeneration` and of `checkReorgAndInvalidate` |
| `memo` | the memoised answer of the probe |
| `entries` | the id LRU, the action LRU or the list cache |
| `poll`, `req` | the locals of the two observers, and of a request, across their awaits |
| `chain`, `mined` | the indexer, external; `slipped` is a ghost |

| Actions | Code |
|---|---|
| `PollTip`, `PollJudges`, `PollRow`, `PollFails` | `cache.js` checkReorgAndInvalidate, blockReplaced |
| `Arrives`, `ProbeTip`, `ProbeJudges`, `ProbeRow`, `ProbeFails`, `MemoExpires` | `XChainExplorer.js` observeCoinTip; `cache.js` resultCacheGeneration |
| `Look`, `Read`, `Store` | `data_cache.js`, `resolvers.js`, `action_detail_io.js` |

`slipped` collects the one exception that no observer can see: a block mined
above both last-seen tips and replaced before either looked.

### AgeCaches and the code

An answer is the time it was computed at, so its age is exact.  `ageEntry` is the
one entry, `ageReq` the callers across their awaits; `AgeHits`, `AgeReads`,
`AgeSettles`, `AgeEvicts` are `getRows` and `settleMissedRead` of
`operational_cache.js`, `get`, `load` and `settleFailure` of
`fee_schedule_cache.js`.  An entry seen before the await is what a failed read is
judged by, also when a concurrent read has stored a newer one; the capability
gap of one call is that call's own answer.

### RequestPath and the code

A request is one of `Clients`, made once, on a connection of its own or on one
another left open.  A statement is its reader (a request or the poll) and its
number there.

| State | Code |
|---|---|
| `sock`, `closes` | the connection of a request; the `close` events of responses already finished |
| `holding`, `inFlight` | the `released` of each request, and the counter, of `concurrency_gate.js` |
| `job[a]` | the locals of `doQuery` across its awaits: the statement, whether its deadline has passed, its retries |
| `pending`, `held` | acquisitions the driver's pool has not settled, and connections it has handed out |
| `stage` | how far `drain` of `shutdown.js` is |

| Actions | Code |
|---|---|
| `Admitted`, `Shed`, `AnswerSent`, `ResponseCloses`, `Aborted` | `concurrency_gate.js`: the counter, the refusal, `finish` and `close` |
| `Statement`, `DeadlinePasses`, `PoolGrants`, `PoolRefuses`, `SleepEnds`, `QueryEnds`, `TimesOut`, `HandlerEnds` | `db/connection.js` doQuery, acquireConnection, withDeadline, runStatement |
| `PassBegins`, `PassEnds` | `ws/change_detector.js` poll, stop |
| `Signalled`, `ListenersClose`, `PoolsEnd`, `CleanExit`, `HardExit` | `http/shutdown.js` |
| `Connects`, `KeepAliveEnds`, and what a pool or a statement answers | clients, the driver and the database, external |

- A client that goes away frees its slot while its handler reads on (`Aborted`),
  as in the code: the gate bounds requests in flight, not statements.
- The deadline is a timer only while something is awaited: a retry that sleeps
  when it passes sleeps to its end, and the next acquisition then times out.
- The poll of the model is the one of the live feed.  Not modelled: with the feed
  off `startReorgPoll`'s own timer, whose `stop` does not await a running pass;
  catch-up replays and lookups of the broadcaster that a stopped detector leaves
  running; the step of the drain that ends the contract workers; the rate limit.

## Runs

Each run asks one question.  The faults it takes are a set of scenarios or
budgets, one chosen in the initial state: what is combined in one scenario
happens in one behaviour.

| Run | Question |
|---|---|
| `mirror_append` | the hub only appends; drains of several pages with failing requests and rows and refused frames, a socket closing at any await, a failing live apply: no watermark certifies a missing row, certificates never mix connections, and the mirror implements `CertifiedReplica` |
| `mirror_revise` | the hub changes rows in place, behind a reconnect and a retry, a resync and a refused frame, or the price buffer, or appends while snapshots are answered without a subscription: no change is lost |
| `mirror_liveness` | a client that loses its socket, a request, a live row and its price buffer (of no room); or a resync beside a failing apply or a refused row; or a refused row beside a failing request, apply and live row: the gate opens for good and the mirror converges, or is parked (`DrainsConverge`, below); a subscription that stays up lets every block through (`BlocksProceed`) |
| `moves` | three hubs, two of them seeds, falling behind, going down, getting a new database or stalling, with drains begun without a subscription and drains that outlive their socket: an open gate stands on drains of one database, but for what is marked (`CertifiedByHub`); once the hubs stand still it opens at a hub that is caught up, or the client is stranded in the one way `moves_stuck` shows (`SettlesOrStranded`) |
| `mirror_rows` | a row of each kind under reorgs, lost, late and refused deletions, and drains: its content is that of its generation, it is not missing, it does not come back; a block at each barrier under late frames, closes and failing reads: it sees every row it must, and no wait is abandoned while releases run one at a time (`LoneWaitsSettle`), and when they overlap and any query fails only one whose snapshots are all there (`HangsOnlyComplete`) |
| `config_sync` | polls while hubs fail over, fail, lose rows to a backup or refuse: one hub's tree at one time, no row stranded below the cursor, and polling settles |
| `tips` | a chain that reorganises between any two queries, and an upstream that is slow and fails: no cached answer outlives its chain or its age; requests that time out, are aborted or shed, and a shutdown under them: nothing leaks and the pools close last |
| `feed_reorg` | three heights, four blocks ever indexed, a client that reconnects once: no frame twice, no row missed, client and cursors on the new chain; and, without a client, no latch lost, repeated or ahead of the actions before it |
| `feed_limits` | one block, one row and one replayed row at a time, a replay depth and a rollback log of one: over two heights, with a failing query and two closed sockets, each client ends up live on the settled chain or knows that it must reload (`ClientsSettle`); there, and over three heights with one closed socket, no client misses a row or keeps one of a replaced chain (`ClientsFollow`); or a mempool window of one, asked for by the diff and by a page, one at a time, beside blocks and id lookups: no removal is false and the followers show what is pending |
| `moves_stuck`, `tips_action`, `snapshot_hung` | the disagreements below |

Bounds of `HubMirror`: `MaxRows` rows per table, `MaxTime` changes, `MaxQueue`
frames not yet handled.  Two rows and a page limit of one or two give drains of
several pages with a cursor inside the table; three changes let one lie before,
one inside and one after a drain; a queue of two holds a row behind or before a
heartbeat.  No fault needs more than one of its kind to show what it can do, and
a scenario combines two or three of them.

Bounds of `HubMoves`: two seeds and a third hub that only the hub's list names,
two tables, one re-paged on every connection and one whose position is kept, of two
pages, and two failures in a row that justify a move.  A move can fall between the
pages of one table and between two tables.  A behaviour has one fault of one kind;
what a second one could do to a certificate is left to the theorem.  `moves_stuck`
needs two hubs only.

Bounds of `RowFences`: two reorgs, so that a retraction of the first can arrive
after the re-publication of the second; three frames.

Bounds of `Barriers`: three seconds, two rows in flight and two frames, one
fault, one followed block at a second of its own: enough for a row to be
finalized before, and effective at, the time of a block that a later row, a
heartbeat or a stale refresh could let through.  Blocks start at second 2, the
first at which a row can be effective.  Bounds of `SnapshotBarrier`: two blocks,
three waits (one of them a retry) and one failing query.  A behaviour runs its
releases one at a time and fails at most the query of a wait, or lets any two overlap
and any query fail (`MCTroubles`).

`mirror_rows` and `mirror_liveness` put parts together that share nothing: the
initial state chooses which of them moves.  So does `feed_reorg`: either a client
follows the feed and the two cursors stand still, or the cursors run and no client
connects.  And so does `feed_limits`: the clients of confirmed rows to the end (two
heights and three rows, fair) or on their way (three heights and two rows), or the
followers of the mempool.

`mirror_revise` has one more kind of behaviour, in which the hub only appends and
answers snapshots to a client without a subscription (`MCUnsubscribed`, an
instance with `RestWithoutStream`); `FewChanges` bounds it to two rows of the
re-paged table.

Bounds of `HubConfig`: two hubs, two parameters, one of a coin and one not, three
versions and two seconds: two changes may share a second, which is what the
inclusive cursor is for.  One hub starts with the coin and one with the other key
(`MCFirsts`), so that a failover alone can leave no coin to serve.  One
poll at a time (`Polls = {1}`).

Bounds of the caches: two requests, a chain of two blocks of which three are ever
mined (one replacement at either height), caches of one entry; a lifetime of one
tick, a ceiling of two and a clock of four.  `tips` puts three modules together
that share nothing: the initial state chooses which of them moves, so it checks
the sum of their states and not the product.

Bounds of `RequestPath`: two clients and the poll on a gate of one slot and a
pool of one connection, so that each waits for another; two statements of each
reader, so that a late grant of the first can meet the second; one retry of a
refused acquisition (`MaxRetrys = 0`).

Bounds of `LiveFeed`: `MaxBlocks` heights, `MaxActions` action rows and
`MaxMinted` blocks ever indexed, with `Budgets` of failing queries and closing
sockets.  Four blocks over three heights leave room for two replacements, one of
them deep; three action rows leave one below, one at and one above a fork.  One
client is enough: clients share nothing but the detector.  `FewBlocks` stops
at a state with a fourth block indexed and three actions on the chain: those four
blocks come with at most two.  The limits are reached in `feed_limits`
only, which has no such constraint.

Bounds of `MempoolFeed`: three transactions and a window of one, so that a window
may be full or empty, hold the lowest hash or the highest, and hide two; one of
them is named by id, one does not decode; four changes of the pool, so that one
can leave and come back while another hides it; one block beside them; two
readers of the window.

Bounds of `LatchCursors`: a block writes three latches or none, with a fetch limit
of two, so that a fetch stops inside a block; the initial block has no action, so
that a block of three actions leaves the action cursor behind; three blocks ever
indexed (`FewBlocks`), one of them a replacement.

`NoRepeat` allows a repeated frame at or above the lowest index a rollback voided
since the subscription began, which is what the frozen ceiling can do (see
below).  `NothingMissed` and `FollowsChain` speak of clients whose
catch-up is complete, the first in every state in which the announced rows are
still those of the chain, the second whenever the detector has just looked and
found nothing changed (`UpToDate`).

`StreamComplete` and `TableComplete` say that every row the hub last changed at
or before the watermark is in the mirror *in its current version*.  They hold
where the hub only appends.  A hub that also changes rows in place can have a
retried drain certify a change ahead of its frame (a table's mark comes from its
last page, while changes below its cursor are in frames not yet handled), so
`mirror_revise` checks `ChangesAccounted` instead: a change below a watermark of
an open gate is held, still on its way, or the table owes a page from zero.

`NoHole` and `NoGhost` speak of a connected mirror that has drained on this
socket and has handled every frame; `NoGhost` also asks that no deletion was
missed, refused or overtaken without being made up for (the ghost `owed`).

`ClientsFollow` is `NothingMissed` and `FollowsChain` for fetches and replays of one
row.  `HashFirst` keeps out a block that is replaced before its hash is read while
rows of it are out, which does lose them (`OutrunsHash` below).

`DrainsConverge` allows one end besides `Converged`.  A row of another schema
version that is refused behind the open gate sets the latch and owes its table a
page from zero, but starts no drain, and the stall detector leaves a schema mismatch
alone (`watermark_config.js:283`).  The mirror is then `Parked` until the next
connection or resync: it certifies nothing new, and every row it lacks is owed.  A
refusal anywhere else is made up for by the drain or the retry under way, and so is
a resync that meets one.

`SettlesOrStranded` of `HubMoves` promises an open gate only if in the end some seed
is up and caught up, or no hub is down.  `Stranded` is the end `moves_stuck` shows:
a live socket to a hub that said it is not caught up, no drain, no retry, no boot
call and a cold stall detector.  Without that condition an unreachable candidate keeps a
mirror whose other hubs are all behind from ever serving: it may serve from a hub
that is behind only once *all* candidates have said they are (`triggers.js:24`).

### Where the code and its comments part

Each of these runs checks one property and TLC finds it violated.

- `moves_stuck`: a drain begun without a subscription is still running when a
  hub that is not caught up accepts the connection.  The connection's own
  `bootstrapAll` returns at once because a drain is running, and the end of that
  drain is refused its certificate (`lifecycle.js:188`) without a retry being
  scheduled.  The hub may catch up a moment later: the gate stays shut until
  something else closes the socket.  The same refusal can follow a merge of the
  hub list in mid-drain; there the armed stall detector rescues the mirror.
- `tips_action`: `getActionData` computes its key after its queries
  (`action_detail_io.js:212`), so an action read before a reorg is filed under
  the generation begun after it.

- `snapshot_hung`: the timer of a wait runs a release and then asks the database
  once more; a yes returns without settling the promise, "already resolved by the
  refresh" (`snapshot.js:155`).  They are two queries.  When the one inside the
  release failed, or came before the last row, the wait is neither resolved nor
  rejected and has no timer any more.  Two releases that overlap reach the same
  end without a failing query: the later one writes back its own list of
  waiters, without a wait begun meanwhile.  What still holds is `HangsOnlyComplete`:
  such a wait is lost only when its snapshots are there, so the block that hangs is
  one that could have gone on.

### Known limits, switched off in the passing runs

Each of these is a real behaviour of the code which breaks a property and would
hide everything else.  It is a switch or a narrower set of inputs; the edit that
shows it is given.

- `RestWithoutStream` (`HubMirror`): `start()` goes on to drain when its connection
  was refused (`lifecycle.js:61-66`), and the retry timer (`237`) does not look at
  the socket.  A row inserted after the page of such a drain and before the
  subscription travels on neither channel; the ready frame leaves the drain current,
  its certificate opens the gate, and the next heartbeat takes the stream watermark
  over that row.  The order of `lifecycle.js:38-41` was to rule this out.
  `mirror_append` with it TRUE violates `StreamComplete`.  `mirror_liveness` with it TRUE violates
  `DrainsConverge`: a stray drain sets `_bootstrapDrained`, so a retry owed by the
  drain of the connection gives up.
- `FaultsDuringDrain` (`HubMirror`): a live apply fails while a drain is running
  that has already passed the row; that drain's certificate clears the latch.
  `mirror_append` with it TRUE violates `StreamComplete`.
- A live apply that fails where the hub changes rows in place (`HubMirror`): a
  retried drain certifies such a change ahead of its frame, by the mark of its last
  page; when the frame then fails to apply nothing marks the table.  The latch holds
  the tables' watermarks at once, but the stream watermark that is reported with the
  gate open stays above a change the mirror does not hold.  `mirror_revise` with
  `MCRepages == With({calls}, Spending(1, 1, 0, 1, 0, 0))` violates
  `ChangesAccounted`, with no drain running when the row fails.
- A price page served before an in-place change lands after the live event, in a
  second drain of the same connection, and the older version replaces the newer
  one.  `mirror_revise` changes price rows only where no second drain runs.
- `RowFences`: `NoRegression` fails for matches (a page served before a deletion
  lands after it and brings the match back until the next reconciliation), and
  `LiveRowKept` for oracle rows (a live re-publication updates a row written
  before the drain in place, under its old id, and the reconciliation of that
  drain deletes it).  Both are definitions of the module that no run lists.
- `PositionsOfOneInstance` (`HubMoves`), which no run lists, does not hold: the socket
  closes while a page is being applied, the ready frame of another database resets
  the positions, and the rest of the page writes the old instance's row ids into them
  (`flush.js:97`).  `transport.js:161-163`: a position may cross a connection "only
  when the hub explicitly identifies the same database instance".  `CertifiedByHub`
  marks what such a position is used for (`Late`).
- `MergeLossless` (`HubConfig`): with `Polls = {1, 2}` a delta that arrives after
  another poll has reset the watermark is stored as the whole tree
  (`config_sync.js:240`).
- The frozen ceiling (`LiveFeed`): a rollback announced after a key has gone live
  and before its replay reads the live mark leaves the ceiling above the fork;
  rows the poll sends below that ceiling are then replayed as well.
  `ExactlyOnce`, which no run lists, does not hold for this reason.
- `OutrunsTip` (`LiveFeed`): rows of a block committed after the reorg check's
  query are announced in the same pass, but the recorded tip stays below them.
  If that block is replaced before the next pass, no check sees it; `CursorsFollow`
  fails.
- A client that got cursor 0 and drops reconnects without a cursor
  (`xchain_ws_catch_up.js:137`): an empty chain in `InitialActions` violates
  `NothingMissed`.
- `SeedDisturbed` (`LiveFeed`): `seedHistory` runs after the marks were read, so
  its hashes can be those of a later chain; `FollowsChain` fails.
- `SeedOverlaps` (`LiveFeed`): a connection-path seed still under way after the
  poll has seeded raises `pendingReorg` just before the poll's rewind clears it;
  `CursorsFollow` fails.
- `RearmAhead` (`LatchCursors`): `rearmBetLatches` puts the cursor at the tip, not
  at the last block announced.  If a block between the two is replaced, no
  rollback reaches the cursor, and the latches of the new block are never pushed:
  `feed_reorg` with it TRUE violates `LatchesOnce`.
- A block replaced between a pass's tip reads and its block fetch may bring
  actions the pass does not know of; its latches go out before them, and once more
  after the rewind of the next pass.  `LatchAfterActions` speaks of the actions up
  to the tip the pass read, and `LatchesOnce` forgets what a rewind takes back.
- `OutrunsHash` (`MCFeedLimits`): a pass fetches at most `fetchLimit` blocks and
  actions, so a row can go out while the block cursor lags more than a fetch behind
  its block.  If that block is replaced before its hash is read, `findForkPoint`
  passes over the height (`coin.js:283`), no rollback reaches the row and the client
  keeps it.  `feed_limits` with it TRUE violates `ClientsFollow`.
- A rollback log shorter than the rollbacks of a client's absence: with a log of one, a
  client that was away for two is not told of the first, as `rollback.js:84-85` says.
  It takes three heights and three rows, one more than the behaviours of
  `feed_limits` have.
- `ReadsOverlap` (`MCFeedLimits`): `getDecoderMempoolSnapshot` shares no request in
  flight.  When the mempool page and the diff both miss `_mempoolApiCache`, the
  answer read first may land last and replaces the newer window (`decoder.js:239`,
  `243`); the next diff is served it as fresh and announces as removed a transaction
  that never left.  `feed_limits` with it TRUE violates `NoFalseRemoval`.
- `LookupsFail` (`MempoolFeed`): a failing lookup is remembered as null until the
  next block (`broadcaster/mempool.js:204`, as its comment says): `MemoFresh` fails,
  and so does `PendingFollows`: a removal that names the address by id then misses
  a client that got the action.
- `IdsRollBack` (`MempoolFeed`): a rollback takes the address's id between the
  action and the removal, with the same end: `PendingFollows` fails.

### Fairness

`FairSpec` of `HubMirror` asks for weak fairness of the reconnect timer, of the hub
accepting a subscription and beating, of the frame chain and of the drain.  All of
these are timers and promise callbacks of one event loop, or a hub that is up.
Faults have no fairness and a finite budget.  The stall resync is fair because
`checkWatermarkStall` runs on an interval.

`BarrierFairness` adds the hub's clock and heartbeats, and the timer of a wait,
which the block loop begins again whenever it has run out.

`FairSpec` of `HubMoves` adds strong fairness of `Connect` and `ReadyArrives`:
the reconnect timer keeps firing, and a hub that is up whenever it is asked
answers one of those calls.  The grace and dwell clocks run by themselves.

`FairSpec` of `HubConfig` is weak fairness of the steps of a poll: an interval and
promise callbacks.

`FairSpec` of `LiveFeed` asks for weak fairness of the poll timer, of the running
pass, of a seed pass, and of each client's connection and replay.  These are an
interval, promise callbacks and the page's reconnect timer.  The chain has no
fairness: `MaxMinted` bounds it, so it settles by itself, and a client need not
follow a chain that never does.

## Proofs

`HubMirror_proofs` proves, for every set of tables and every bound and budget:

- `TypeCorrect`: `Spec => []TypeOK`, one lemma per group of actions.
- `GateCertifiesEveryTable`: `Spec => []GateNeedsEveryTable`.

`GateNeedsEveryTable` is not inductive: the step that opens the gate,
`CertifyFullDrain`, tests only that no table of the pass failed and that the
epoch is still the one the pass began under.  That this means every table was
certified under that epoch is what the strengthening says.  `GateInv` adds
`PassCertified` (while a pass with no failure so far runs on the current
connection, every table it has left behind carries a certificate of the pass's
epoch), the bound `drain.epoch <= epoch`, and, when snapshots are served to
subscribers only, `PassSubscribed` (a pass with a mark runs on a connection that
was live).  Each action lemma shows which conjunct it can disturb; a close raises
`epoch` above `drain.epoch` and makes `PassCertified` vacuous.

- `ChangesAreAccounted`: `Spec /\ NewestKept /\ LiveRowsApply => []ChangesAccounted`,
  if `~RestWithoutStream`.  The two conditions are on the scenario a behaviour starts
  with: the tables the hub changes in place keep the newer version of a row, and no
  live row fails to apply (each of them is needed, see the limits above).  They hold
  of `MCRepages` and `MCResyncs`; rows of prices that change, `MCReprices`, are taken
  whole and stay with TLC.  `ReviseInv` rests on one argument: whatever loses a change
  marks the table (`Mark`) or ends the connection, and a mark is settled only by a
  drain begun after it.
  - `VersionsInv`: what the mirror, a frame, the price buffer or a page holds of a row
    is a version of it, no newer than the hub's, so an upsert never loses the current one.
  - `Clear`: nothing has been marked since the drain of the table in hand began, its
    connection lasts and no buffer was discarded.  While it holds, `Drained` says that
    the rows up to the cursor are settled, that those of a page are or will be when it
    lands, and after the last page that all are.
  - `OwedInv`, `BufferInv`: a live connection has certified every re-paged table that
    owes nothing, so a drain from a position begins where all is settled; the
    certificate of prices comes after their buffer was replayed.
  - `PrefixInv`: of a table that is only appended to, everything up to its position,
    and up to the drain's cursor, is held.
  - `SettledInv`: a table certified on this connection that owes nothing is settled
    altogether; the gate brings the stream watermark under it.

`HubMirrorAppend_proofs` proves what the watermarks certify, and that the mirror
implements `CertifiedReplica`:

- `StreamCertifiesHeldRows`: `Spec => []StreamComplete`.
- `TableCertifiesHeldRows`: `Spec => []TableComplete`.
- `MirrorImplementsReplica`: `Spec => Refines`, step by step: every action of
  `HubMirror` is a change of the hub, rows followed, a certificate, or a stutter.

Its three hypotheses are the ones under which the runs find these properties
true, each with its counterexample above: the hub only appends (`OnlyAppends`, no
scenario revises a row), `~RestWithoutStream` and `~FaultsDuringDrain`.  Everything
else is arbitrary: tables of each kind, page and buffer limits, and any number of
closes, failing requests and rows, refused frames, overflows, retries and resyncs.

Neither property is near inductive.  `AppendInv` has these parts:

- `RowsInv`: since the hub only appends there is one version of a row, so whoever
  has a row (the mirror, a frame, the price buffer, a page) has the hub's.  A
  position, and the cursor of the table in hand, stand for a prefix of the ids the
  mirror has; a page is a run of ids right above its cursor.
- `DrainHolds`: the mark of a pass is a time up to which the table it belongs to is
  complete, as soon as its last page is in; each table the pass has left behind is
  complete through one of the pass's marks, so the least of them is a stream
  watermark that `CertifyFullDrain` may take.
- `CertificatesHold`: the two properties, and no watermark ahead of the hub.
- `BeatsHold`: the heart.  A row the mirror lacks that a heartbeat on the wire may
  certify is `Awaited`: it travels ahead of that beat on the same connection, or it
  waits in the price buffer, or it is `Owing`: its table has no certificate of this
  connection or a latch holds the watermarks, and the pass that could change this
  has not counted the table and, if it has its last page, either that page's mark
  covers the row or the certificate will leave the debt standing (`Spoiled`).
- `NextBeatHolds`: the same of the beat the hub could send now.  An insertion puts
  its row at the end of the stream, which is ahead of that beat.
- `Numbers`, `PriceKept`: epochs, debts and the price buffer are in order.

A beat at the head of the stream has nothing ahead of it; if it is certified
then no latch holds, its table is certified, and the buffer is empty, so what it
covers is in the mirror.

`HubMoves_proofs` proves, for every set of hubs and seeds, every order of tables,
every order in which a hub's list is merged and every budget:

- `RingHolds`: `Spec => []TypeOK`, which says of the ring that no hub is on it twice,
  that no seed is lost, and that the index, the URL and the answers of the attempt
  are on it; a merge re-indexes, and a move goes to another member.
- `OneHubCertifies`: `Spec => []CertifiedByHub`, with no condition on the faults or
  on which drains outlast which socket.

What a table's certificate says of a live socket is decided long before it is
written: by the position the drain started from, the hub a page was asked of, and
what became of the socket in between.  The two marks say where the code does not
decide it, and the proof is that there is no third way.  `MovesInv` follows it
through:

- `Subscribed`: a live socket is to the database its ready frame named; `Named`: that
  is the instance its hub has now or an older one.
- `PositionsOfHub`: once a database has been named, a position is of its pages or
  of none, or was written late (`Late`), or is adopted; and a re-paged table whose
  position was written late owes a page from zero.
- `PagesOfHub`: a page asked for or landing under the drain that will certify it is
  of that database, asked of the hub followed now, or marked `Adopted`.
- `BuiltOfHub`: so is what each certificate stands on.  `Late` can enter it through a
  kept position only, so never for a table that is paged anew on each connection.
- `PassBuilt`: a pass with no failure has certified every table it has left behind,
  so the gate opens over all of them.

A move or a resync un-names the database (`lastInstance' = None`), after which the
positions say nothing until the next ready frame.  A move, or the close of the old
socket, bumps the revision or the epoch, so a drain that was under way cannot
certify; one begun between that and the ready frame can, and that is what
`Adopted` marks.

`HubConfig_proofs` proves, for every set of hubs, parameters and polls, every budget
of faults and every bound:

- `CoinsSurvive`: `Spec => KeepsCoins`, for any number of polls in flight: the copy
  on disk never loses its coins, and an explorer with coins to serve or on disk
  serves none only when the tree it obtained last has rows and no coin
  (`HubSaysNone`), never after an outage, an empty answer or a restart.  The
  invariant is `DiskServed`: a copy on disk with coins is beside a served config
  without only in that case.

and with one poll in flight at a time (`OnePoll`; `MergeLossless` above is what two
break):

- `ConfigTyped`: `Spec => []TypeOK`.
- `TreeOfOneHub`: `Spec => []WholeTree`.
- `DeltaCompletes`: `Spec => []NoRowStranded`.

That a merged delta yields a whole tree depends on what the hub did since the last
answer.  `ConfigInv` says so with two relations between a hub and a tree it once
served under a watermark and a sequence number: the hub `Follows` it (its number has
not shrunk, and each row it changed is dated at the watermark or later), or the hub
has `LostSince` (it was restored below that number and nobody has asked it yet).

- `HubsSound`: rows are dated no later than the clock, and a number not above that
  of the backup stands for the rows of the backup.
- `CursorSound`: the hub of the cursor follows the tree behind the cursor, or has
  lost part of it, or the answer on its way `TellsOfLoss`.
- `PollSound`, `AnswerSound`: a delta poll was sent with the cursor as it is, a full
  fetch leaves neither cursor nor cache, and an answer of the cursor's hub completes
  the tree unless its number tells of the loss.

A delta asked for one second behind the watermark brings every row dated at the
watermark or later, so it completes a tree the hub follows (`DeltaIsWhole`).  With
the watermark itself as the cursor this lemma fails: a row may be committed in the
second of the watermark after the answer.  A hub that lost history answers with a
number below the cursor's, and `hubConfigRegressed` discards the cache.

`Requests_proofs` proves of `RequestPath`, for every set of clients, gate limit, pool
size, number of retries and of statements:

- `NothingLeaksEver`: `RequestSpec => []NothingLeaks`.  Every step moves the
  statement of one reader, and the others hold what they held (`OneConnection`);
  that a late grant is of no running statement needs `Unserved` (a request not
  yet made reads nothing) and the numbering of the statements.  Of the gate,
  `SlotInv` says that the slots held are those of the requests whose client still
  waits, that the counter is their number, and that a response still to close
  has been answered: so the second of `finish` and `close` finds nothing to release.
- `PoolsCloseUnderNobody`: `RequestSpec => []PoolsCloseLast`.  `DrainOrder` says what
  each stage of the drain leaves behind it: no pass begins once the poll is
  stopped, and no connection comes once the listeners are closed, except down one
  kept open, of which there is none.

and of the caches, for every set of requests, every overlap and bound, and every
lifetime, ceiling and clock:

- `CachedAnswersAreBounded`: `AgeSpec => []AgeBounded`.  The invariant
  `StampsLag` adds that the stamp of every entry, and of every entry a waiting
  caller has seen, is no later than the time its answer was computed.
- `TipTypes`: `Spec => []TypeOK` of `TipCaches`.
- `AnswersFollowTheTip`: `Spec => []AnswersFollowTip` of `TipCaches`.  What is kept is
  not enough: a request may hold an answer it read before a reorg and store it after.
  `AnswersValid` says of every entry, and of every answer in hand whose key is of
  the current generation, that it is `Valid`: of a block that stands, or that an
  observer will find gone, or that slipped; and that a list is of no block below its
  tip.  Every step either retires the generation (`Retires`) or `Follows` the chain:
  no block moves or comes back, and a block that goes leaves evidence.  A rollback
  takes the last tip of an observer with the blocks below it (`RolledBackFollows`);
  evidence, once there, stays (`OffStays`); and a verdict that keeps the generation
  only replaces a last tip that stands (`Standing`), except one reached against an
  older tip, and what that lets go is in `slipped`.  The proof sets no bound on how
  many requests are in flight, where the run takes two.

`Barriers_proofs` proves, for every table, margin, window and grace and every bound:

- `BlocksPassComplete`: `BarrierSpec => []ReleasedComplete`.  A barrier that lets a
  block through on a covered time concludes from what is held that nothing else can
  still come.  `BarrierInv` says why it may:
  `MirrorInOrder` (no frame on its way is of a row before one that is held and is
  not held itself, so a certificate, which says that every row is held or on its
  way, leaves no gap below the newest row held, `HeldUpTo`); `ScalarsProven` (a time
  that was covered when it was read, stored or still across an await, is no later
  than the finalization of some held row plus the least margin of the table,
  `CoverageIsProven`); `RowsInOrder` (a row finalized after that one is effective
  later).  `MarksHold` says the same of the watermarks: a beat is behind every row
  finalized before its second (`FramesInOrder`), and a page's mark is no later than
  its read (`Drained`), so what was finalized before a mark is held, connected or
  not.  What a block was let through with stays complete because of `Closed`: the
  clock, or a row finalized since, is already past what a new row could need.
  The margins are those of the source: a match carries the larger floor of its two
  legs, so what it covers is counted from when it was finalized; a call is counted
  by the floor of its own chain only; a policy by the width of its window.
- `MissingSnapshotsReject`: `SnapSpec => []HangsOnlyComplete`, with releases that
  overlap as they like and any number of failing queries.  A wait that nobody will
  settle any more may exist (`snapshot_hung`), but only one whose snapshots are all
  there: while they are missing the timer's callback rejects it, and the block loop
  tries again.  `CallbackLooks` says why: until its timer is spent and its callback
  has asked, somebody looks at the wait; and the callback lets it be only on a yes,
  which no query gives of a block whose snapshots are not complete (`YesIsTrue`).

`RowFences_proofs` proves, for every set of kinds and every bound and budget:

- `RowFencesTypes`: `RowSpec => []RowTypeOK`.
- `RowKeepsItsContent`: `RowSpec => []ContentOfGeneration`.  The row alone is not
  inductive: what it will take next lies in the frames on the wire, in the page
  that was served and not yet landed and in the hub's own row.  `GoodContent`
  says of each of them that its content is that of its generation; every upsert
  either keeps the row, takes the delivered one whole, or raises only the fence
  of a row whose content is of that generation.
- `NoHoleEver`: `RowSpec => []NoHole`, and `NoGhostEver`: `RowSpec => []NoGhost`.
  Both rest on `InOrder`: the hub's row is of the last generation it was published
  at, everything a row, a page or a verdict holds is of that one or an earlier one,
  and a deletion on the wire is of a generation before that of a row the hub still
  has.  That fence is why a late deletion takes nothing away.
  For `NoHole`, `HeldOrComing` says where the hub's row is until it is held: on the
  wire, in the page, or with a drain not yet answered; and `VerdictsBehind` that a
  drain whose page came without it can only judge an earlier row (its page was
  read before the publication, so what it noted is older).
  For `NoGhost`, `GhostsTold` says who will end a valid row the hub no longer has:
  a deletion on the wire of its generation or later with nothing but deletions
  behind it (without that a row frame could bring the ghost back), the same among
  those kept for replay while the socket is down, a debt, or the drain
  in hand (`Excused`), which settles the debt or gives it back (`ExcuseEnds`).

`Feed_proofs` proves of `MempoolFeed`, for every set of transactions, window and bound:

- `RemovalsAreTrue`: `MempoolSpec /\ []OneRequest => NoFalseRemoval`, for any readers
  of the window.  `OneRequest` (no two requests for it are in flight at once) is a
  condition on the behaviour and not on who reads; without it the theorem is false
  (`ReadsOverlap` above).
  What must hold of a window before the diff reads it is `Sound`: whatever the
  window shows gone *was* gone since the last window that held it.  `RemovalInv`
  says so of every window the diff may still be given: the cached one, the one kept
  for a failure, and those on their way to the diff or to another reader, whose
  answer goes into the same cache; and no cached window is fresh while one is asked
  for.  That a window just read is sound is `WindowIsLowest`: a full window holds
  nothing above what it leaves out of the table (by counting).  Whatever a diff
  finds gone leaves `seenHashes`, so its own window stays sound afterwards.
- `MemoNeverOutlivesABlock`: `MempoolSpec => []MemoFresh`, if `~LookupsFail`.
  `LookupCurrent` adds that an answer read for the coin's present map was true
  since the last block; an older map's answer is not stored.
- `FollowersShowThePending`: `MempoolSpec => []PendingFollows`, if `~LookupsFail`
  and `~IdsRollBack`.  `ChannelKnows` counts the frames still on the wire in: the
  last of them about a transaction, or what is shown if there is none (`Shown`), says
  whether the detector knows the transaction.  A frame that goes out only moves its
  verdict (`ShownHead`), and the frames of one diff name each transaction once
  (`FramesOfEach`).  `SeenAfterDiff` says that the detector knows the window, plus
  what a full one leaves out.  `AddressFollows` says that the address shows a part of
  what the channel does and can still be told when it goes: an answer that found its
  id stays true.  Here any caller may ask the decoder, the diff alone or others.

and of `LiveFeed`, for every set of clients, every limit of polls, replays and logs,
every bound and budget of faults, and whatever the four switches let the chain do:

- `TypesKept`: `Spec => []TypeOK`.  A first action in the history may lie below index
  1, because `seedHistory` shifts it by the difference of two reads, but by no more
  than the actions there are (`Firsts`); without that the lowest of the voided ones,
  which `Rewind` takes, might not exist.  A row fetched is of the chain as it was
  read, its height found between two tops (`HeightOfAction`, `ActionsSinceAre`).
- `NoFrameTwice`: `Spec => []NoRepeat`.  What keeps a live row and a replayed one
  apart is where the live mark stands.  `FeedInv` says so in three parts:
  - `CursorInv`: the rows of a pass follow the action cursor without a gap, and the
    mark is the row in flight, the last one sent, or the cursor (`MarkInv`).  So a
    `NEW_ACTION` is always of a row above the mark, and the cursor after the last
    row is where the mark already is.
  - `SeededInv`: nobody subscribes before the cursors are seeded.
  - `OnceInv`, for each client: its replay's reach, the lower of its ceiling and of
    the rows no rollback voided, is not above the mark, and below the row in flight
    unless it joined in mid-row (`SubscriberInv`); above the ceiling it was sent no
    row beyond the mark, up to it none beyond its place in the replay (`CountInv`);
    and the rows it read lie in sequence, none above the ceiling (`ReplayInv`).

  A frame of a row is then the first one: one from the feed lies above the reach,
  where nothing was replayed, and above the mark, where nothing was sent (its
  lifecycle frame, above every one that was); one from the replay lies at the place
  after the last, below the ceiling.  A rollback lowers the mark to the cursor and
  drops what a client holds above; indexes from there on are `rolled`, and the
  property says nothing of them.  The ceiling is not enough by itself: after a
  rollback the mark may stand below it, which is the exception in `NoRepeat`.
- `CursorsFollowTheChain`: `Spec => []CursorsFollow`, if `~OutrunsTip` and
  `~SeedOverlaps` (each of them TRUE breaks it, see above); `SeedDisturbed` may be
  TRUE and every limit is allowed.  `FollowInv` argues from hashes that are never
  used twice (`ChainInv`):
  - `StandingInv`: until a late seed pass has read its history the chain stands still,
    so what the passes have read of it is what it is, and the cursors are at its tip.
  - `StaleNoted`: while a block up to the cursor is remembered by a hash the chain no
    longer has there, either the verdict is pending or the last tip is itself off the
    chain.  A replacement that reaches below the last tip takes the tip with it, and
    a hash that has gone does not come back; so the probe of the next pass cannot
    find the tip unchanged.
  - `CursorsWithin`: while the last tip is on the chain and no verdict is pending, both
    cursors are within it.
  - `PollInv`: what the steps of a running pass rely on: the chain is not above the
    tip it read, the block and action tips of the pass are those of the chain at or
    below the last tip, a rewind's fork leaves nothing stale below it unless the tip
    has been replaced since, and no row fetched is above the tip.
  - `QuietInv`: of a chain that has stood still since the pass began, the tip read is
    the tip.  With it `UpToDate` turns the two conditional parts into the property.

The assumptions are those the modules state on their constants: finite sets of
tables and of hubs, a positive page limit, natural bounds.

Model-checked only: `ChangesAccounted` for price rows that change in place
(`MCReprices`) and for an append-only hub that answers without a subscription
(`MCUnsubscribed`); of `LiveFeed` that a client misses nothing and holds
what the chain has (`NothingMissed`, `FollowsChain`), which rest on what a replay's
reads say of the rows announced meanwhile; what `LatchCursors` adds; that no snapshot
wait is abandoned while releases run one at a time (`LoneWaitsSettle`); and the
liveness properties (`DrainsConverge`, `Converges`,
`BlocksProceed`, `SettlesOrStranded` and `ClientsSettle`), which are out of the
prover's reach.

## Not modelled

See `components` of `PROJECT.json` for each part.  Left out for good: routes,
readers, pages, rendering and contract queries keep no state that two requests
could disagree about; Merkle trees and quorum thresholds are pure functions with
their own vectors; the migration of mirrored tables and the start-up of the
mirror manager are sequential.

Not yet: the barriers of the price table (`price.js`, `price_landing.js`) and the
capability proofs, the icon downloader, the rate limit of the HTTP shell.

## Plan

1. `LiveFeed`: an abstract specification of what a client may hold and the
   refinement to it.
2. `HubMirror`: poll mode and deletion events, the price bound and the height
   watermarks.
3. Proofs: that the cursors of `LiveFeed` and of `LatchCursors` follow the chain.
