------------------------------- MODULE Barriers -------------------------------
(***************************************************************************)
(* The barriers that hold a block of an indexer until the mirror has every *)
(* row the block must see (src/src/hub/hub_db_sync/barriers/): those of    *)
(* oracle_match_call.js, bridge_policy.js and attest.js, which judge by    *)
(* cached scalars and watermarks.  A behaviour is about one table.         *)
(*                                                                         *)
(* The hub is external.  A row is finalized at one second and effective at *)
(* a later one: the margin between them depends on the table and on the    *)
(* chains the row names.  Frames of one connection arrive in order, after  *)
(* any delay; rows finalized while no subscription was up reach the mirror *)
(* in a page only.                                                         *)
(***************************************************************************)
EXTENDS Integers, Sequences, FiniteSets, FiniteSetsExt

CONSTANTS
  BarrierTables,   \* the tables a behaviour may be about
  OwnFloor,        \* RELAY_MARGIN_FLOOR_S of this chain
  OtherFloors,     \* ... of the other chains
  MinFuture,       \* RELAY_MIN_FUTURE_S
  MaxFuture,       \* RELAY_MAX_FUTURE_S
  Grace,           \* the watermark grace of the table
  Ahead            \* how far a block may be stamped ahead of the clock

(* Bounds of the model, not of the code.                                   *)
CONSTANTS MaxSecond, MaxFinalized, MaxStream, MaxFaults

ASSUME BarrierTablesAssumption == BarrierTables \subseteq {"match", "call", "policy", "attest"}
                                  /\ BarrierTables # {}
ASSUME MarginsAssumption ==
  /\ {OwnFloor, MinFuture, MaxFuture} \cup OtherFloors \subseteq Nat \ {0}
  /\ MinFuture <= MaxFuture
  /\ {Grace, Ahead, MaxSecond, MaxFinalized, MaxStream, MaxFaults} \subseteq Nat

VARIABLES
  barrierTable,
  second,       \* the hub's clock
  finalized,    \* the hub's rows, in the order it finalized them
  faults        \* closes, failing reads and timeouts during a read, still to come
barrierHubVars == <<barrierTable, second, finalized, faults>>

VARIABLES
  subscribed,
  sending,      \* frames sent on this connection and not yet handled
  mirrored,     \* the indexes of the rows the mirror holds
  boot,         \* the drain after a connect, across its awaits
  certified,    \* tableCertifiedOnCurrentConnection
  seen,         \* rows the hub had when it served the drain of that certificate
  tableMark,    \* _tableWatermarks
  streamMark    \* streamWatermark
mirrorVars == <<subscribed, sending, mirrored, boot, certified, seen, tableMark, streamMark>>

VARIABLES
  armed,        \* matchBootstrapped and its like
  newest,       \* matchSyncTimestamp: the latest effective time, or Unread
  covered,      \* matchCoveredTimestamp, callGatedSyncTimestamp, policyCoveredTimestamp
  refresh,      \* refresh[who]: a refresh of the two across its read
  block,        \* the block waiting at the barrier
  passed        \* the last block it let through
blockVars == <<block, passed>>
scalarVars == <<armed, newest, covered, refresh>>
barrierVars == <<barrierHubVars, mirrorVars, scalarVars, blockVars>>

Unread == -1

-----------------------------------------------------------------------------
(* The hub.  It finalizes at most one row of the chain in a second.        *)

\* relay_margin.js: a match carries the larger floor of its two legs, a call
\* the floor of the chain that applies it, a policy whatever its co-signers
\* let through, an attestation one margin for all.
Margins ==
  CASE barrierTable = "match"  -> {<<IF f > OwnFloor THEN f ELSE OwnFloor, TRUE>> : f \in OtherFloors}
    [] barrierTable = "call"   -> {<<OwnFloor, TRUE>>} \cup {<<f, FALSE>> : f \in OtherFloors}
    [] barrierTable = "policy" -> (MinFuture..MaxFuture) \X {TRUE}
    [] barrierTable = "attest" -> {<<OwnFloor, TRUE>>}

Frame(type, value) == [type |-> type, value |-> value]
Sent(frame) == IF subscribed THEN Append(sending, frame) ELSE sending

HubFinalizes ==
  /\ Len(finalized) < MaxFinalized /\ Len(sending) < MaxStream
  /\ finalized # <<>> => finalized[Len(finalized)].fin < second
  /\ \E m \in Margins :
       finalized' = Append(finalized, [fin |-> second, eff |-> second + m[1],
                                       margin |-> m[1], mine |-> m[2]])
  /\ sending' = Sent(Frame("row", Len(finalized')))
  /\ UNCHANGED <<barrierTable, second, faults, subscribed, mirrored, boot, certified, seen,
                 tableMark, streamMark, scalarVars, blockVars>>

HubSendsBeat ==
  /\ subscribed /\ Len(sending) < MaxStream
  /\ \A i \in DOMAIN sending : sending[i] # Frame("beat", second)
  /\ sending' = Sent(Frame("beat", second))
  /\ UNCHANGED <<barrierHubVars, subscribed, mirrored, boot, certified, seen, tableMark,
                 streamMark, scalarVars, blockVars>>

SecondPasses ==
  /\ second < MaxSecond
  /\ second' = second + 1
  /\ UNCHANGED <<barrierTable, finalized, faults, mirrorVars, scalarVars, blockVars>>

-----------------------------------------------------------------------------
(* What the scalars are read from, and what they prove.                    *)

Later(a, b) == IF a > b THEN a ELSE b
Latest(times) == IF times = {} THEN Unread ELSE Max(times)

NewestHeld == Latest({finalized[i].eff : i \in mirrored})

\* Defect: the newest stamp of any row vouches for every earlier one.
NewestCovers == NewestHeld

\* matchContentCoverage, the gated_ts of refreshCallSyncTimestamp,
\* policyContentCoverage: the time through which rows that share a margin,
\* or a window, with what is held are known to be held.
ContentCoverage ==
  IF NewestHeld = Unread THEN Unread
  ELSE CASE barrierTable = "match" ->
              OwnFloor + Latest({finalized[i].eff - finalized[i].margin : i \in mirrored})
         [] barrierTable = "call" -> Latest({finalized[i].eff : i \in {j \in mirrored : finalized[j].mine}})
         [] OTHER -> NewestHeld - (MaxFuture - MinFuture)

\* Defect: a certificate survives the connection it was drained on.
KeptCertificate == certified
LostCertificate == FALSE

\* Defect: an empty mirror is trusted as soon as it has ever been drained.
EmptyOnceDrained == armed /\ newest = Unread
EmptyMirror == armed /\ certified /\ newest = Unread

\* Defect: a quiet table waits for its next row (no stream watermark).
NeverStreamed(t) == FALSE
StreamCovers(t) ==
  IF barrierTable = "attest"
  THEN Later(streamMark, IF certified THEN tableMark ELSE 0) >= t + Grace
  ELSE armed /\ certified /\ tableMark >= t + Grace

ContentCovers(t) == armed /\ certified /\ covered # Unread /\ covered >= t

\* matchSyncSatisfied and its like: whether the block may run, and on what.
Free == barrierTable # "attest" /\ EmptyMirror
Satisfied(t) == Free \/ StreamCovers(t) \/ (barrierTable # "attest" /\ ContentCovers(t))

NoBlock == [time |-> 0, held |-> {}, free |-> FALSE, seen |-> 0]
Passing(t) == [time |-> t, held |-> mirrored, free |-> Free /\ certified, seen |-> seen]

\* releaseMatchWaiters, after a step that may have satisfied the waiter.
Release ==
  \E t \in {block} :
    IF t # 0 /\ Satisfied(t)'
    THEN block' = 0 /\ passed' = Passing(t)'
    ELSE UNCHANGED blockVars

-----------------------------------------------------------------------------
(* Refreshes: of the frame chain, of the bootstrap and of a waiter's timer. *)

\* Defect: only the bootstrap's own refresh arms a barrier.
OnlyTheBootstrap == FALSE
\* The default of armBootstrap.
ArmBootstrap == certified

IdleRefresh == [busy |-> FALSE, arm |-> FALSE, newest |-> Unread, covered |-> Unread]

\* refreshMatchSyncTimestamp and its like up to the await of its query, which
\* reads the rows of the step that starts it; the result lands later.
StartsRefresh(who, arm) ==
  refresh' = [refresh EXCEPT ![who] = [busy |-> TRUE, arm |-> arm,
                                       newest |-> NewestHeld', covered |-> ContentCoverage']]

\* What the bootstrap does once its refresh has returned, read or failed:
\* drains after the one of refreshAllSyncHeights, certifies after the one of
\* armBarriersAfterDrain.
BootGoesOn(who) ==
  CASE who = "boot" /\ boot.pc = "refreshing" ->
         boot' = [boot EXCEPT !.pc = "asking"] /\ UNCHANGED <<certified, seen, tableMark, streamMark>>
    [] who = "boot" /\ boot.pc = "arming" ->
         /\ boot' = [boot EXCEPT !.pc = "idle"]
         /\ certified' = TRUE /\ seen' = boot.page /\ tableMark' = boot.mark
         /\ streamMark' = Later(streamMark, boot.mark)
    [] OTHER -> UNCHANGED <<boot, certified, seen, tableMark, streamMark>>

RefreshLands(who) ==
  LET r == refresh[who] IN
  /\ r.busy
  /\ newest' = r.newest /\ covered' = r.covered
  /\ armed' = (armed \/ r.arm)
  /\ refresh' = [refresh EXCEPT ![who] = IdleRefresh]
  /\ BootGoesOn(who)
  /\ UNCHANGED <<barrierHubVars, subscribed, sending, mirrored>>
  /\ Release

RefreshFails(who) ==
  /\ refresh[who].busy /\ faults > 0
  /\ faults' = faults - 1
  /\ refresh' = [refresh EXCEPT ![who] = IdleRefresh]
  /\ BootGoesOn(who)
  /\ UNCHANGED <<barrierTable, second, finalized, subscribed, sending, mirrored, armed, newest, covered>>
  /\ Release

-----------------------------------------------------------------------------
(* The connection and its drain.                                           *)

NoBoot == [pc |-> "idle", page |-> 0, mark |-> 0]

Subscribe ==
  /\ ~subscribed /\ ~refresh["boot"].busy
  /\ subscribed' = TRUE
  /\ boot' = [NoBoot EXCEPT !.pc = "refreshing"]
  /\ UNCHANGED <<barrierHubVars, sending, mirrored, certified, seen, tableMark, streamMark,
                 armed, newest, covered, blockVars>>
  /\ StartsRefresh("boot", FALSE)

LinkCloses ==
  /\ subscribed /\ faults > 0
  /\ faults' = faults - 1
  /\ subscribed' = FALSE /\ sending' = <<>>
  /\ boot' = NoBoot /\ certified' = LostCertificate
  /\ UNCHANGED <<barrierTable, second, finalized, mirrored, seen, tableMark, streamMark,
                 scalarVars, blockVars>>

PageIsServed ==
  /\ boot.pc = "asking"
  /\ boot' = [pc |-> "landing", page |-> Len(finalized), mark |-> second]
  /\ UNCHANGED <<barrierHubVars, subscribed, sending, mirrored, certified, seen, tableMark,
                 streamMark, scalarVars, blockVars>>

PageIsApplied ==
  /\ boot.pc = "landing" /\ ~refresh["boot"].busy
  /\ mirrored' = mirrored \cup 1..boot.page
  /\ boot' = [boot EXCEPT !.pc = "arming"]
  /\ UNCHANGED <<barrierHubVars, subscribed, sending, certified, seen, tableMark, streamMark,
                 armed, newest, covered, blockVars>>
  /\ StartsRefresh("boot", TRUE)

HandleRowFrame ==
  /\ sending # <<>> /\ sending[1].type = "row" /\ ~refresh["live"].busy
  /\ sending' = Tail(sending)
  /\ mirrored' = mirrored \cup {sending[1].value}
  /\ UNCHANGED <<barrierHubVars, subscribed, boot, certified, seen, tableMark, streamMark,
                 armed, newest, covered, blockVars>>
  /\ StartsRefresh("live", ArmBootstrap)

\* handleWatermarkFrame: a table not certified keeps its mark.
HandleBeatFrame ==
  /\ sending # <<>> /\ sending[1].type = "beat" /\ ~refresh["live"].busy
  /\ sending' = Tail(sending)
  /\ IF certified
     THEN tableMark' = Later(tableMark, sending[1].value) /\ streamMark' = Later(streamMark, sending[1].value)
     ELSE UNCHANGED <<tableMark, streamMark>>
  /\ UNCHANGED <<barrierHubVars, subscribed, mirrored, boot, certified, seen, scalarVars>>
  /\ Release

-----------------------------------------------------------------------------
(* The block loop, external: one block at a time, retried when its wait    *)
(* times out (the timer refreshes the scalars before it gives up).         *)

BlockArrives ==
  /\ block = 0 /\ passed = NoBlock
  /\ \E t \in 2..(Min({second + Ahead, MaxSecond}) - Grace) :
       IF Satisfied(t) THEN passed' = Passing(t) /\ UNCHANGED block
                       ELSE block' = t /\ UNCHANGED passed
  /\ UNCHANGED <<barrierHubVars, mirrorVars, scalarVars>>

TimerFires ==
  /\ block # 0 /\ barrierTable # "attest" /\ ~refresh["timer"].busy
  /\ IF \E who \in DOMAIN refresh : refresh[who].busy
     THEN faults > 0 /\ faults' = faults - 1
     ELSE UNCHANGED faults
  /\ UNCHANGED <<barrierTable, second, finalized, mirrorVars, armed, newest, covered, blockVars>>
  /\ StartsRefresh("timer", ArmBootstrap)

-----------------------------------------------------------------------------
NothingYet ==
  /\ finalized = <<>> /\ faults = MaxFaults
  /\ subscribed = FALSE /\ sending = <<>> /\ mirrored = {} /\ boot = NoBoot
  /\ certified = FALSE /\ seen = 0 /\ tableMark = 0 /\ streamMark = 0
  /\ armed = FALSE /\ newest = Unread /\ covered = Unread
  /\ refresh = [who \in {"live", "boot", "timer"} |-> IdleRefresh]
  /\ block = 0

BarrierInit == NothingYet /\ barrierTable \in BarrierTables /\ second = 1 /\ passed = NoBlock

Refreshes == \E who \in DOMAIN refresh : RefreshLands(who) \/ RefreshFails(who)

\* A behaviour follows one block: once it is through, only the hub goes on.
Following == passed = NoBlock
MirrorStep ==
  \/ HubSendsBeat \/ Subscribe \/ LinkCloses \/ PageIsServed \/ PageIsApplied
  \/ HandleRowFrame \/ HandleBeatFrame
  \/ Refreshes
  \/ BlockArrives \/ TimerFires

BarrierNext == HubFinalizes \/ SecondPasses \/ (Following /\ MirrorStep)

BarrierSpec == BarrierInit /\ [][BarrierNext]_barrierVars

\* A hub beats, reads and pages come back, and the timers fire.
BarrierFairness ==
  /\ WF_barrierVars(SecondPasses) /\ WF_barrierVars(Following /\ HubSendsBeat)
  /\ WF_barrierVars(Following /\ Subscribe)
  /\ WF_barrierVars(Following /\ (PageIsServed \/ PageIsApplied))
  /\ WF_barrierVars(Following /\ (HandleRowFrame \/ HandleBeatFrame))
  /\ WF_barrierVars(Following /\ TimerFires)
  /\ \A who \in {"live", "boot", "timer"} : WF_barrierVars(Following /\ RefreshLands(who))

-----------------------------------------------------------------------------
(* Properties.                                                             *)

\* Every block a barrier let through had every row of its chain that is
\* effective at or before it, those finalized later included (the promise of
\* waitForMatchSync and its like: every operator settles the same rows at the
\* same block).  A mirror that is empty after a drain of its connection is let
\* through before the first rows have reached it, never past a row finalized
\* before the drain, and never without the connection.
ReleasedComplete ==
  \A i \in DOMAIN finalized :
    finalized[i].mine /\ finalized[i].eff <= passed.time =>
      i \in passed.held \/ (passed.free /\ i > passed.seen)

\* A subscription that stays up lets every block through in the end: a table
\* without new rows does not freeze the block loop (the stream watermark of
\* matchSyncSatisfied and its like).
BlocksProceed == (<>[]subscribed) => [](block # 0 => <>(block = 0))
=============================================================================
