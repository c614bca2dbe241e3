----------------------------- MODULE MempoolFeed -----------------------------
(***************************************************************************)
(* The unconfirmed half of the live feed of one coin: the mempool diff of  *)
(* the change detector (src/src/ws/change_detector/mempool.js), the        *)
(* decoder window it reads (src/src/db/readers/health/decoder.js) and the  *)
(* frames the broadcaster makes of it (src/src/ws/broadcaster/mempool.js). *)
(*                                                                         *)
(* A transaction is its number in hash order, the order of the window.  A  *)
(* frame says that one became pending or that it left.  Two followers are  *)
(* kept: one of the coin-wide channel, and one of an address every         *)
(* transaction pays, some by its index id instead of its letters.          *)
(***************************************************************************)
EXTENDS Integers, FiniteSets, Sequences, SequencesExt

CONSTANTS
  Txs,            \* transactions, by hash order
  Compact,        \* those that name the address as ^id
  Undecodable,    \* those whose action string does not parse
  MempoolWindow,  \* MEMPOOL_WINDOW
  WindowReaders   \* who asks the decoder: the diff, and pages beside it

(* What the environment does.                                              *)
CONSTANTS
  LookupsFail,    \* the query for the address's id may fail
  IdsRollBack     \* a reorg may take the address's id away

(* Bounds of the model, not of the code.                                   *)
CONSTANTS
  MaxPoolChanges, \* transactions that enter or leave the mempool
  MaxIndexed      \* blocks indexed

ASSUME MempoolAssumption ==
  /\ Txs \subseteq Nat /\ IsFiniteSet(Txs)
  /\ Compact \subseteq Txs /\ Undecodable \subseteq Txs
  /\ MempoolWindow \in Nat \ {0}
  /\ "diff" \in WindowReaders
  /\ LookupsFail \in BOOLEAN /\ IdsRollBack \in BOOLEAN
  /\ MaxPoolChanges \in Nat /\ MaxIndexed \in Nat

VARIABLES
  pool,           \* mempool_transactions
  poolChanges,
  asked,          \* asked[r]: the request of a reader in flight
  window,         \* _mempoolApiCache: the last good window, or none
  windowFresh,    \* the cache entry is younger than its TTL
  seenHashes,
  diffed,         \* the last window diffed; none before the first poll, which
                  \* only seeds (initialized)
  unsaid,         \* rows of the first window, which no frame announced
  absent          \* seen transactions missing from the pool since they were read
poolVars == <<pool, poolChanges>>
windowVars == <<asked, window, windowFresh>>
diffVars == <<seenHashes, diffed, unsaid>>

VARIABLES
  tail,           \* _mempoolTails: frames not emitted yet
  lookup,         \* the id lookup the frame at the head waits for
  memo,           \* _addressIdMemo: what the coin's map holds of the address
  addressId,      \* whether the address has an index id
  indexed,        \* blocks the indexer has written
  announced,      \* blocks the detector has emitted
  idsSince,       \* answers addressId has had since the last of them
  followed,       \* a client follows the address
  shown           \* what each follower shows as pending
frameVars == <<tail, lookup, memo, shown>>
blockVars == <<addressId, indexed, announced, idsSince>>

mempoolVars ==
  <<poolVars, windowVars, diffVars, absent, frameVars, blockVars, followed>>

NoWindow == [rows |-> {}, known |-> FALSE]
WindowOf(rows) == [rows |-> rows, known |-> TRUE]
Unasked == [rows |-> {}, hit |-> NoWindow, busy |-> FALSE]
NoLookup == [busy |-> FALSE, map |-> 0, read |-> FALSE, id |-> "none"]
Unknown == "unknown"
Ids == {"none", "id"}

-----------------------------------------------------------------------------
(* The decoder's window and its cache.                                     *)

\* ORDER BY tx_hash LIMIT: the lowest hashes.
LowestOf(S) == {t \in S : Cardinality({u \in S : u < t}) < MempoolWindow}

PoolChanges ==
  /\ poolChanges < MaxPoolChanges
  /\ poolChanges' = poolChanges + 1
  /\ \E t \in Txs :
       IF t \in pool
       THEN pool' = pool \ {t} /\ absent' = absent \cup {t}
       ELSE pool' = pool \cup {t} /\ UNCHANGED absent
  /\ UNCHANGED <<windowVars, diffVars, frameVars, blockVars, followed>>

\* The frames of one pass over a window, one for each transaction; which of a
\* kind comes first (Map order) is left open.
FramesOf(kind, S) ==
  {s \in [1..Cardinality(S) -> [kind : {kind}, tx : S]] : IsInjective(s)}

\* Defect: whatever is not in the window is taken as gone.
CoversAll(rows, t) == TRUE

\* A full window proves nothing of the hashes above its last.
Covers(rows, t) == Cardinality(rows) >= MempoolWindow => \E u \in rows : t <= u

Gone(rows) == {t \in seenHashes \ rows : Covers(rows, t)}

\* Defect: what lies above a full window is forgotten.
OnlyTheWindow(rows) == rows

StillKnown(rows) == rows \cup (seenHashes \ Gone(rows))

Diff(rows) ==
  /\ diffed' = WindowOf(rows)
  /\ seenHashes' = IF diffed.known THEN StillKnown(rows) ELSE rows
  /\ unsaid' = IF diffed.known THEN unsaid \ Gone(rows) ELSE rows
  /\ IF diffed.known
     THEN \E new \in FramesOf("action", (rows \ seenHashes) \ Undecodable),
             gone \in FramesOf("removed", Gone(rows)) : tail' = tail \o new \o gone
     ELSE UNCHANGED tail
  /\ absent' = (absent \ rows) \cup (rows \ pool)

\* What a reader does with its answer; the pages of /api/mempool change nothing.
Serve(r, served) ==
  IF r = "diff" /\ served.known
  THEN Diff(served.rows)
  ELSE UNCHANGED <<diffVars, tail, absent>>

UntouchedByReads == <<poolVars, blockVars, followed, lookup, memo, shown>>

ServeCached(r) ==
  /\ ~asked[r].busy /\ windowFresh
  /\ Serve(r, window)
  /\ UNCHANGED <<windowVars, UntouchedByReads>>

\* The request leaves, and the decoder reads its table for it.
AskDecoder(r) ==
  /\ ~asked[r].busy /\ ~windowFresh
  /\ asked' = [asked EXCEPT ![r] =
                 [rows |-> LowestOf(pool), hit |-> window, busy |-> TRUE]]
  /\ UNCHANGED <<window, windowFresh, diffVars, tail, absent, UntouchedByReads>>

DecoderAnswers(r) ==
  /\ asked[r].busy
  /\ asked' = [asked EXCEPT ![r] = Unasked]
  /\ window' = WindowOf(asked[r].rows) /\ windowFresh' = TRUE
  /\ Serve(r, WindowOf(asked[r].rows))
  /\ UNCHANGED UntouchedByReads

\* The last good window stands in until two TTLs have passed since its read.
DecoderFails(r) ==
  /\ asked[r].busy
  /\ asked' = [asked EXCEPT ![r] = Unasked]
  /\ \E served \in {asked[r].hit, NoWindow} :
       /\ window' = served /\ windowFresh' \in BOOLEAN
       /\ Serve(r, served)
  /\ UNCHANGED UntouchedByReads

CacheExpires ==
  /\ windowFresh
  /\ windowFresh' = FALSE
  /\ UNCHANGED <<asked, window, diffVars, tail, absent, UntouchedByReads>>

-----------------------------------------------------------------------------
(* Blocks.                                                                 *)

\* The indexer writes a block: it may give the address its id, or take it back.
BlockIndexed ==
  /\ indexed < MaxIndexed
  /\ indexed' = indexed + 1
  /\ addressId' \in IF IdsRollBack THEN Ids ELSE {addressId, "id"}
  /\ idsSince' = idsSince \cup {addressId'}
  /\ UNCHANGED <<poolVars, windowVars, diffVars, absent, frameVars, announced, followed>>

\* Defect: onBlock leaves the map alone.
MemoKept == memo

\* onBlock drops the coin's map; a pass does not run ahead of its own diff.
MemoAfterBlock == Unknown

BlockAnnounced ==
  /\ ~asked["diff"].busy
  /\ announced < indexed
  /\ announced' = announced + 1
  /\ memo' = MemoAfterBlock
  /\ idsSince' = {addressId}
  /\ UNCHANGED <<poolVars, windowVars, diffVars, absent, tail, lookup, shown,
                 addressId, indexed, followed>>

-----------------------------------------------------------------------------
(* Frames.                                                                 *)

\* Defect: every frame goes out as soon as its own lookup is done.
AnyFrameDue(n) == TRUE

\* The chain of promises: one frame at a time, in the order of the diff.
FrameDue(n) == n = 1

\* mempoolRowMatchesAddress; the removal of an undecodable row has no text.
MatchesAddress(t, id) == t \notin Undecodable /\ (t \in Compact => id = "id")

Shows(pending, frame) ==
  IF frame.kind = "action" THEN pending \cup {frame.tx} ELSE pending \ {frame.tx}

Emit(n, id) ==
  /\ tail' = RemoveAt(tail, n)
  /\ shown' = [channel |-> Shows(shown.channel, tail[n]),
               address |-> IF followed /\ MatchesAddress(tail[n].tx, id)
                           THEN Shows(shown.address, tail[n])
                           ELSE shown.address]

UntouchedByFrames == <<poolVars, windowVars, diffVars, absent, blockVars, followed>>

\* Nobody follows an address, or the memo has the answer, null included.
FrameEmitted ==
  /\ ~lookup.busy
  /\ \E n \in DOMAIN tail : FrameDue(n) /\ (~followed \/ memo # Unknown) /\ Emit(n, memo)
  /\ UNCHANGED <<lookup, memo, UntouchedByFrames>>

LookupBegins ==
  /\ ~lookup.busy /\ tail # <<>> /\ followed /\ memo = Unknown
  /\ lookup' = [NoLookup EXCEPT !.busy = TRUE, !.map = announced]
  /\ UNCHANGED <<tail, memo, shown, UntouchedByFrames>>

\* A failed query reads as null.
LookupReads ==
  /\ lookup.busy /\ ~lookup.read
  /\ \E id \in {addressId, IF LookupsFail THEN "none" ELSE addressId} :
       lookup' = [lookup EXCEPT !.read = TRUE, !.id = id]
  /\ UNCHANGED <<tail, memo, shown, UntouchedByFrames>>

\* Defect: the answer goes into whatever map the coin has by then.
MemoOfNow(map, id) == id

\* The answer goes into the map taken before the await, which a block may have
\* replaced since.
MemoOf(map, id) == IF map = announced THEN id ELSE memo

LookupReturns ==
  /\ lookup.read
  /\ lookup' = NoLookup
  /\ memo' = MemoOf(lookup.map, lookup.id)
  /\ Emit(1, lookup.id)
  /\ UNCHANGED UntouchedByFrames

\* The client loads the pending list as it subscribes.
Follow ==
  /\ ~followed
  /\ followed' = TRUE
  /\ UNCHANGED <<poolVars, windowVars, diffVars, absent, frameVars, blockVars>>

-----------------------------------------------------------------------------
MempoolInit ==
  /\ pool = {} /\ poolChanges = 0
  /\ asked = [r \in WindowReaders |-> Unasked]
  /\ window = NoWindow /\ windowFresh = FALSE
  /\ seenHashes = {} /\ unsaid = {} /\ diffed = NoWindow /\ absent = {}
  /\ tail = <<>> /\ lookup = NoLookup /\ memo = Unknown
  /\ addressId \in Ids /\ idsSince = {addressId}
  /\ indexed = 0 /\ announced = 0
  /\ followed \in BOOLEAN
  /\ shown = [channel |-> {}, address |-> {}]

MempoolNext ==
  \/ PoolChanges \/ CacheExpires \/ Follow
  \/ \E r \in WindowReaders :
       ServeCached(r) \/ AskDecoder(r) \/ DecoderAnswers(r) \/ DecoderFails(r)
  \/ BlockIndexed \/ BlockAnnounced
  \/ FrameEmitted \/ LookupBegins \/ LookupReads \/ LookupReturns

MempoolSpec == MempoolInit /\ [][MempoolNext]_mempoolVars

-----------------------------------------------------------------------------
MempoolTypeOK ==
  /\ {pool, seenHashes, unsaid, absent, shown.channel, shown.address} \subseteq SUBSET Txs
  /\ {window, diffed} \subseteq [rows : SUBSET Txs, known : BOOLEAN] /\ windowFresh \in BOOLEAN
  /\ asked \in [WindowReaders -> [rows : SUBSET Txs, busy : BOOLEAN,
                                  hit : [rows : SUBSET Txs, known : BOOLEAN]]]
  /\ tail \in Seq([kind : {"action", "removed"}, tx : Txs])
  /\ lookup \in [busy : BOOLEAN, map : 0..MaxIndexed, read : BOOLEAN, id : Ids]
  /\ lookup.busy => tail # <<>>
  /\ memo \in Ids \cup {Unknown} /\ {addressId} \subseteq idsSince /\ idsSince \subseteq Ids
  /\ announced \in 0..indexed /\ indexed \in 0..MaxIndexed

\* No two requests for the window are in flight at once.
OneRequest == \A r, s \in WindowReaders : asked[r].busy /\ asked[s].busy => r = s

\* A mempool_removed means the transaction was gone: it left the mempool after
\* the last window that held it was read ("rows that left the mempool",
\* mempool.js:39).  A window cut short says nothing of what lies above it.
NoFalseRemoval ==
  [][\A n \in Len(tail) + 1..Len(tail') :
       tail'[n].kind = "removed" => tail'[n].tx \in absent]_mempoolVars

\* The memo holds an answer that was true at or after the last block announced
\* (broadcaster.js:85, "cleared per coin on the block signal"): an address that
\* a known block has given an id is matched by it.
MemoFresh == memo = Unknown \/ memo \in idsSince

\* Once the frames of a whole window of the mempool as it is are out, the
\* channel's follower shows what is pending, except what was there before the
\* first poll, and the address's follower nothing that has gone: frames keep
\* their order (broadcaster.js:71), and what a full window hid is made up for.
PendingFollows ==
  /\ diffed = WindowOf(pool) /\ Cardinality(pool) < MempoolWindow
  /\ tail = <<>>
  => /\ shown.channel = pool \ (unsaid \cup Undecodable)
     /\ shown.address \subseteq pool
=============================================================================
