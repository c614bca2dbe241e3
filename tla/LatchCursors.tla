---------------------------- MODULE LatchCursors -----------------------------
(***************************************************************************)
(* The two cursors of the change detector whose events have no action row: *)
(* the deadline latches of bet feeds and the phases of cross-chain calls   *)
(* (src/src/ws/change_detector/bet_latches.js and xcall_phases.js, with    *)
(* the positions of pair_cursor.js).  They run at the end of the pass that *)
(* LiveFeed models: each with one query over (block, action index), which  *)
(* may read no higher than the blocks whose actions have all gone out.     *)
(*                                                                         *)
(* The end of a block writes its latches.  A latch is known by its cursor, *)
(* the height and hash of its block and its place in it.                   *)
(***************************************************************************)
EXTENDS LiveFeed

CONSTANTS
  Cursors,    \* "closed" and "xcall", the fields of the state they end in
  Missing,    \* the cursors whose table this coin's indexer may still lack
  RearmAhead, \* a table may appear while blocks below the tip have not gone out
  Endings     \* how many latches of each cursor a block may write

ASSUME CursorsAssumption ==
  /\ Cursors \subseteq {"closed", "xcall"} /\ Missing \subseteq Cursors
  /\ RearmAhead \in BOOLEAN
  /\ Endings \subseteq [Cursors -> Nat]

VARIABLES
  latches,    \* per hash what its block wrote
  missing,    \* the cursors whose table does not exist
  position,   \* closedBlock and closedAction, xcallBlock and xcallAction
  parked,     \* betLatchUnsupported, xcallUnsupported
  tail,       \* the end of a pass across its awaits
  sent,       \* latches announced and not rolled back, or past at the seed
  again       \* a latch has been announced while one of its sendings stood
latchVars == <<latches, missing, position, parked, tail, sent, again>>

Null == -1    \* deliveredBlock does not know
Whole == 0    \* the sub-cursor of a block that has gone out whole

-----------------------------------------------------------------------------
(* pair_cursor.js                                                          *)

\* Defect: a cursor that is behind has delivered its last row's block.
DeliveredOfRow(block, action, last) ==
  IF actionIndex' >= action THEN Smaller(block, blockIndex') ELSE last
\* deliveredBlock, once the cursors have moved: the highest block all of
\* whose actions went out.
Delivered(block, action, last) ==
  CASE actionIndex' >= action -> Smaller(block, blockIndex')
    [] actionIndex' < action /\ last = Null -> Null
    [] OTHER -> Smaller(Smaller(block, blockIndex'), last - 1)

\* readCeiling
ReadCeiling(since) == IF tail.delivered = Null THEN since ELSE Smaller(tail.block, tail.delivered)

\* Defect: a full fetch has sent the whole of its last block.
WholeAfter(rows, last, upTo) ==
  [block |-> IF Cardinality(rows) >= FetchLimit THEN last[1] ELSE Larger(upTo, last[1]),
   action |-> Whole]
\* pairCursorAfter: a full fetch may have stopped inside its last block.
PairCursorAfter(rows, last, upTo) ==
  IF Cardinality(rows) >= FetchLimit
  THEN [block |-> last[1], action |-> last[2]]
  ELSE [block |-> Larger(upTo, last[1]), action |-> Whole]

\* Defect: a lowered cursor keeps its place inside the block above.
LoweredWithin(at, height) == [at EXCEPT !.block = Smaller(@, height)]
\* Defect: a rewind leaves the two cursors where they are.
NotLowered(at, height) == at
\* lowerPairCursor
Lowered(at, height) == IF at.block > height THEN [block |-> height, action |-> Whole] ELSE at

-----------------------------------------------------------------------------
(* The end of a pass.                                                      *)

IdleTail == [next |-> {}, block |-> 0, action |-> 0, delivered |-> Null]
Latch(k, row) == <<k, row[1], chain[row[1]].hash, row[2]>>

\* What the database holds above the cursor's position, up to a height.
After(a, b) == a[1] > b[1] \/ (a[1] = b[1] /\ a[2] > b[2])
Due(k, upTo) ==
  LET at == position[k] IN
  {row \in (1..Smaller(upTo, MaxBlock)) \X Indexes :
     /\ row[2] <= latches[chain[row[1]].hash][k]
     /\ row[1] > at.block \/ (row[1] = at.block /\ at.action # Whole /\ row[2] > at.action)}
Fetched(k, upTo) ==
  {row \in Due(k, upTo) : Cardinality({other \in Due(k, upTo) : After(row, other)}) < FetchLimit}

\* "closed" is read before "xcall".
Turn(k) == k \in tail.next /\ (k = "xcall" => "closed" \notin tail.next)
Returns(k) ==
  LET rest == tail.next \ {k} IN
  tail' = IF rest = {} THEN IdleTail ELSE [tail EXCEPT !.next = rest]

Untouched == UNCHANGED <<chainVars, feedVars, reader, joined, client>>

\* checkBetLatches and checkXcallPhases, the query and what follows it.
ReadLatches(k) ==
  LET at == position[k]
      upTo == ReadCeiling(at.block)
      rows == Fetched(k, upTo)
      last == CHOOSE row \in rows : \A other \in rows : ~After(other, row)
      new == {Latch(k, row) : row \in rows}
  IN
  /\ Turn(k) /\ k \notin missing /\ ~parked[k]
  /\ position' = [position EXCEPT ![k] =
       IF rows # {} THEN PairCursorAfter(rows, last, upTo)
       ELSE IF upTo >= at.block THEN [block |-> upTo, action |-> Whole] ELSE at]
  /\ sent' = sent \cup new
  /\ again' = (again \/ new \cap sent # {})
  /\ Returns(k)
  /\ UNCHANGED <<latches, missing, parked, quiet, left>>
  /\ Untouched

\* parkBetLatches: the table is missing; the cooldown has passed if it was.
Park(k) ==
  /\ Turn(k) /\ k \in missing
  /\ parked' = [parked EXCEPT ![k] = TRUE]
  /\ Returns(k)
  /\ UNCHANGED <<latches, missing, position, sent, again, quiet, left>>
  /\ Untouched

\* Until the cooldown has passed nothing is read.
CoolsDown(k) ==
  /\ Turn(k) /\ parked[k]
  /\ Returns(k)
  /\ UNCHANGED <<latches, missing, position, parked, sent, again, quiet, left>>
  /\ Untouched

\* The latches at or below a height happened before the cursor began.
Past(ks, height) ==
  {<<k, h, chain[h].hash, n>> : k \in ks, h \in 1..Smaller(height, MaxBlock), n \in Indexes}

\* rearmBetLatches: the table has appeared; what it holds is not news.
Rearm(k) ==
  /\ Turn(k) /\ k \notin missing /\ parked[k]
  /\ RearmAhead \/ tail.delivered = tail.block
  /\ parked' = [parked EXCEPT ![k] = FALSE]
  /\ position' = [position EXCEPT ![k] = [block |-> tail.block, action |-> Whole]]
  /\ sent' = sent \cup Past({k}, tail.block)
  /\ Returns(k)
  /\ UNCHANGED <<latches, missing, again, quiet, left>>
  /\ Untouched

\* Any other error ends the pass.
TailFails ==
  /\ tail # IdleTail
  /\ tail' = IdleTail /\ quiet' = FALSE
  /\ UNCHANGED <<latches, missing, position, parked, sent, again, left>>
  /\ Untouched

TableAppears(k) ==
  /\ k \in missing
  /\ missing' = missing \ {k}
  /\ UNCHANGED <<latches, position, parked, tail, sent, again, quiet, left>>
  /\ Untouched

-----------------------------------------------------------------------------
(* The steps of LiveFeed, and what they mean for the two cursors.          *)

ChainStep ==
  /\ IndexerStep
  /\ IF minted' = minted THEN UNCHANGED latches
     ELSE \E ending \in Endings : latches' = Append(latches, ending)
  /\ UNCHANGED <<missing, position, parked, tail, sent, again>>

\* seedCursors
SeedsCursors(r) ==
  /\ Seed(r)
  /\ position' = [k \in Cursors |-> [block |-> reader[r].block, action |-> Whole]]
  /\ sent' = Past(Cursors, reader[r].block)
  /\ UNCHANGED <<latches, missing, parked, tail, again>>

\* rewindCursors, and the rollback that clients hear of with it.
RewindsCursors ==
  /\ Rewind
  /\ position' = [k \in Cursors |->
       Lowered(IF poll.fork = 0 THEN position[k] ELSE Lowered(position[k], poll.fork - 1), poll.block)]
  /\ sent' = {s \in sent : s[2] <= poll.block /\ (poll.fork = 0 \/ s[2] < poll.fork)}
  /\ UNCHANGED <<latches, missing, parked, tail, again>>

\* The last step of a pass over the rows hands over to the two cursors.
LastRowBlock == IF poll.rows = <<>> THEN Null ELSE poll.rows[Len(poll.rows)].height
RowsDone ==
  /\ NoActions \/ NothingFetched \/ SendLife
  /\ tail' = IF poll'.pc # "idle" THEN tail
             ELSE [next |-> Cursors, block |-> poll.block, action |-> poll.action,
                   delivered |-> Delivered(poll.block, poll.action, LastRowBlock)]
  /\ UNCHANGED <<latches, missing, position, parked, sent, again>>

OtherSteps ==
  /\ \/ tail = IdleTail /\ StartPoll
     \/ StartSeed \/ SeedLate
     \/ \E r \in Readers : \/ ReadTip(r) \/ ReadProbe(r) \/ ReadMaxBlock(r) \/ ReadMaxAction(r)
                           \/ SeedHistory(r) \/ PassFails(r)
     \/ ReadFork \/ ReadBlocks \/ ReadActions \/ SendAction
  /\ UNCHANGED latchVars

LatchInit ==
  /\ Init
  /\ latches \in [1..minted -> Endings]
  /\ missing \in SUBSET Missing
  /\ position = [k \in Cursors |-> [block |-> 0, action |-> Whole]]
  /\ parked = [k \in Cursors |-> FALSE]
  /\ tail = IdleTail
  /\ sent = {} /\ again = FALSE

LatchNext ==
  \/ ChainStep \/ RewindsCursors \/ RowsDone \/ OtherSteps \/ TailFails
  \/ \E r \in Readers : SeedsCursors(r)
  \/ \E k \in Cursors : ReadLatches(k) \/ Park(k) \/ CoolsDown(k) \/ Rearm(k) \/ TableAppears(k)

LatchSpec == LatchInit /\ [][LatchNext]_<<vars, latchVars>>

-----------------------------------------------------------------------------
(* Once the pass over an unchanged chain has reached the tip, every latch  *)
(* of the chain has been announced, those of replaced blocks written again *)
(* included (the rewind of both cursors, "a feed that re-latches on the    *)
(* new chain gets a fresh stamp that must be pushed again").               *)
NoLatchMissed ==
  UpToDate /\ tail = IdleTail =>
    \A k \in Cursors : ~parked[k] /\ position[k] = [block |-> MaxBlock, action |-> Whole] =>
      \A h \in 1..MaxBlock, n \in Indexes :
        n <= latches[chain[h].hash][k] => <<k, h, chain[h].hash, n>> \in sent

(* No latch is announced twice: a rewind goes no further back than the     *)
(* blocks it replaces, and a fetch that stops inside a block goes on there.*)
NoLatchTwice == ~again

(* Every latch of the chain is announced, and once.                        *)
LatchesOnce == NoLatchMissed /\ NoLatchTwice

(* A latch never goes out ahead of an action before it that the pass knew  *)
(* of when it read its tips: "a latch is never pushed ahead of the bets    *)
(* before it" (the ceiling of the two reads), for blocks that are the ones *)
(* the feed has announced.                                                 *)
LatchAfterActions ==
  [][\A k \in Cursors, h \in 1..MaxBlock, n \in Indexes :
       /\ <<k, h, chain[h].hash, n>> \in sent' \ sent
       /\ history[h].hash = chain[h].hash
       /\ seeded /\ ~parked[k]
       => h <= blockIndex /\ Smaller(Top(h), tail.action) <= actionIndex]_<<vars, latchVars>>
=============================================================================
