--------------------------- MODULE SnapshotBarrier ---------------------------
(***************************************************************************)
(* The snapshot-presence barrier (src/src/hub/hub_db_sync/barriers/        *)
(* snapshot.js): its predicate is a query, so every look at a waiter is an *)
(* await, and the array of waiters is rewritten after awaits.              *)
(*                                                                         *)
(* The block loop is external: one block at a time, retried when its wait  *)
(* is rejected.  It has passed the match and call barriers of the block,   *)
(* so a row that lands later can only complete the block's snapshots.      *)
(***************************************************************************)
EXTENDS Integers, Sequences

CONSTANTS
  SnapTroubles,    \* what may go wrong in one behaviour (see trouble)
  SnapBlocks,      \* blocks to let through
  SnapMaxWaits     \* waits begun

ASSUME SnapBoundsAssumption ==
  /\ SnapTroubles \subseteq [overlaps : BOOLEAN, failures : Nat,
                              failing : SUBSET {"wait", "frame", "drain", "timer"}]
  /\ {SnapBlocks, SnapMaxWaits} \subseteq Nat \ {0}

VARIABLES
  complete,   \* the blocks whose snapshots are mirrored
  trouble,    \* whether a release may run beside another or a timer's callback, the
              \* callers whose query may fail, and how many queries still will
  waiters,    \* _snapshotWaiters
  unreleased, \* the paths that applied a row and have yet to release
  walk,       \* walk[who]: a releaseSnapshotWaiters across its awaits
  wait,       \* the latest waitForSnapshotSync
  timer       \* the callback of its timer across its awaits
snapVars == <<complete, trouble, waiters, unreleased, walk, wait, timer>>

Paths == {"frame", "drain"}          \* refreshInsertedTable, refreshDrainedTable
Walkers == Paths \cup {"timer"}

QueryFails(who) ==
  /\ who \in trouble.failing /\ trouble.failures > 0
  /\ trouble' = [trouble EXCEPT !.failures = @ - 1]

\* Defect: a query that fails says yes.
AnswersYes(who, b, verdict) ==
  \/ verdict = (b \in complete) /\ UNCHANGED trouble
  \/ verdict = TRUE /\ QueryFails(who)

\* snapshotSyncSatisfied, read when it is asked; an error reads as FALSE.
Answers(who, b, verdict) ==
  \/ verdict = (b \in complete) /\ UNCHANGED trouble
  \/ verdict = FALSE /\ QueryFails(who)

Idle == [busy |-> FALSE, live |-> TRUE, list |-> <<>>, pos |-> 0, still |-> <<>>, verdict |-> FALSE]
NoTimer == [pc |-> "idle", waiter |-> [id |-> 0, block |-> 0], verdict |-> FALSE]
Waiter == [id |-> wait.id, block |-> wait.block]

-----------------------------------------------------------------------------
(* A row of a cross-chain table is applied; its release is the next await. *)
RowCompletes(who) ==
  /\ who \notin unreleased /\ ~walk[who].busy
  /\ \E b \in 1..SnapBlocks \ complete : complete' = complete \cup {b}
  /\ unreleased' = unreleased \cup {who}
  /\ UNCHANGED <<trouble, waiters, walk, wait, timer>>

-----------------------------------------------------------------------------
(* releaseSnapshotWaiters: a for..of over the array it found, which sees   *)
(* what is pushed to it until another release replaces the array.          *)

\* Defect: a timer that gives up without a release of its own.
LooksOnce == FALSE
TimerReleases == TRUE

Asked(who) == who \in unreleased \/ (who = "timer" /\ timer.pc = "fired")
NobodyWalks == \A who \in Walkers : ~walk[who].busy

\* The caller goes on: a timer's callback with its own query.
Returns(who) ==
  IF who # "timer" THEN UNCHANGED <<timer, trouble>>
  ELSE \E v \in BOOLEAN :
         /\ Answers("timer", timer.waiter.block, v)
         /\ timer' = [timer EXCEPT !.pc = "asking", !.verdict = v]

ReleaseBegins(who) ==
  /\ Asked(who) /\ ~walk[who].busy
  /\ trouble.overlaps \/ (NobodyWalks /\ timer.pc # "asking")
  /\ unreleased' = unreleased \ {who}
  /\ IF waiters = <<>> \/ (who = "timer" /\ ~TimerReleases)
     THEN Returns(who) /\ UNCHANGED walk
     ELSE /\ \E v \in BOOLEAN :
               /\ Answers(who, waiters[1].block, v)
               /\ walk' = [walk EXCEPT ![who] = [Idle EXCEPT !.busy = TRUE, !.pos = 1, !.verdict = v]]
          /\ timer' = IF who = "timer" THEN [timer EXCEPT !.pc = "releasing"] ELSE timer
  /\ UNCHANGED <<complete, waiters, wait>>

Walked(who) == IF walk[who].live THEN waiters ELSE walk[who].list

\* w.resolve(true) and clearTimeout: of no effect on a wait settled before.
Resolve(w) ==
  wait' = IF wait.id = w.id /\ wait.pc = "pending"
          THEN [wait EXCEPT !.pc = "passed", !.armed = FALSE] ELSE wait

\* The array is replaced: the other walks go on over the one they hold.
Replaces(who, still) ==
  /\ waiters' = still
  /\ walk' = [o \in Walkers |->
                IF o = who THEN Idle
                ELSE IF walk[o].busy /\ walk[o].live
                     THEN [walk[o] EXCEPT !.live = FALSE, !.list = waiters]
                     ELSE walk[o]]

Judges(who) ==
  LET at == walk[who]
      w == Walked(who)[at.pos]
      still == IF at.verdict THEN at.still ELSE Append(at.still, w)
  IN
  /\ at.busy
  /\ IF at.verdict THEN Resolve(w) ELSE UNCHANGED wait
  /\ IF at.pos < Len(Walked(who))
     THEN /\ \E v \in BOOLEAN :
               /\ Answers(who, Walked(who)[at.pos + 1].block, v)
               /\ walk' = [walk EXCEPT ![who].pos = @ + 1, ![who].still = still, ![who].verdict = v]
          /\ UNCHANGED <<waiters, timer>>
     ELSE Replaces(who, still) /\ Returns(who)
  /\ UNCHANGED <<complete, unreleased>>

-----------------------------------------------------------------------------
(* waitForSnapshotSync: a query, and a promise when it says no.            *)

NextBlock == IF wait.pc = "passed" THEN wait.block + 1 ELSE wait.block

WaitBegins ==
  /\ wait.pc \in {"passed", "rejected"} /\ wait.id < SnapMaxWaits
  /\ NextBlock <= SnapBlocks
  /\ \E v \in BOOLEAN :
       /\ Answers("wait", NextBlock, v)
       /\ wait' = [id |-> wait.id + 1, block |-> NextBlock, pc |-> "asked",
                   verdict |-> v, armed |-> FALSE]
  /\ UNCHANGED <<complete, waiters, unreleased, walk, timer>>

WaitAnswered ==
  /\ wait.pc = "asked"
  /\ IF wait.verdict
     THEN wait' = [wait EXCEPT !.pc = "passed"] /\ UNCHANGED waiters
     ELSE /\ wait' = [wait EXCEPT !.pc = "pending", !.armed = TRUE]
          /\ waiters' = Append(waiters, Waiter)
  /\ UNCHANGED <<complete, trouble, unreleased, walk, timer>>

WaitTimesOut ==
  /\ wait.pc = "pending" /\ wait.armed /\ timer.pc = "idle"
  /\ wait' = [wait EXCEPT !.armed = FALSE]
  /\ timer' = [NoTimer EXCEPT !.pc = "fired", !.waiter = Waiter]
  /\ UNCHANGED <<complete, trouble, waiters, unreleased, walk>>

\* The array without a waiter, which is in it once at most.
Without(waiter) ==
  IF \E i \in DOMAIN waiters : waiters[i] = waiter
  THEN LET at == CHOOSE i \in DOMAIN waiters : waiters[i] = waiter
       IN  SubSeq(waiters, 1, at - 1) \o SubSeq(waiters, at + 1, Len(waiters))
  ELSE waiters

\* "already resolved by the refresh", or taken off the array and rejected.
TimerEnds ==
  /\ timer.pc = "asking"
  /\ timer' = NoTimer
  /\ IF timer.verdict THEN UNCHANGED <<waiters, wait>>
     ELSE /\ waiters' = Without(timer.waiter)
          /\ wait' = IF wait.id = timer.waiter.id /\ wait.pc = "pending"
                     THEN [wait EXCEPT !.pc = "rejected"] ELSE wait
  /\ walk' = [o \in Walkers |->
                IF ~timer.verdict /\ walk[o].busy /\ walk[o].live
                THEN [walk[o] EXCEPT !.live = FALSE, !.list = waiters] ELSE walk[o]]
  /\ UNCHANGED <<complete, trouble, unreleased>>

-----------------------------------------------------------------------------
SnapInit ==
  /\ complete = {} /\ trouble \in SnapTroubles
  /\ waiters = <<>> /\ unreleased = {}
  /\ walk = [who \in Walkers |-> Idle]
  /\ wait = [id |-> 0, block |-> 0, pc |-> "passed", verdict |-> FALSE, armed |-> FALSE]
  /\ timer = NoTimer

SnapNext ==
  \/ \E who \in Paths : RowCompletes(who)
  \/ \E who \in Walkers : ReleaseBegins(who) \/ Judges(who)
  \/ WaitBegins \/ WaitAnswered \/ WaitTimesOut \/ TimerEnds

SnapSpec == SnapInit /\ [][SnapNext]_snapVars

-----------------------------------------------------------------------------
(* A wait whose timer has run is resolved or rejected, unless a release    *)
(* that will look at it is still to come (snapshot.js:153, "resolves+      *)
(* clears this waiter if satisfied now"): the block loop never hangs on a  *)
(* promise nobody will settle.                                             *)
NeverAbandoned ==
  wait.pc = "pending" /\ ~wait.armed /\ (timer.pc = "idle" \/ timer.waiter # Waiter) =>
    unreleased # {} \/ ~NobodyWalks

(* Releases that run one at a time and fail no query of theirs abandon no  *)
(* wait: one whose timer has run is settled, or a release is to come that  *)
(* will look at it (snapshot.js:153).                                      *)
LoneWaitsSettle ==
  ~trouble.overlaps /\ trouble.failing \subseteq {"wait"} => NeverAbandoned

(* Without a release to come it may hang (run snapshot_hung), but only     *)
(* once the snapshots it waits for are there: whatever queries fail and    *)
(* however releases overlap, drop a waiter from the array or judge one     *)
(* twice, the timer rejects a wait whose snapshots are missing             *)
(* (snapshot.js:155, "already resolved by the refresh").                   *)
HangsOnlyComplete ==
  wait.pc = "pending" /\ ~wait.armed /\ (timer.pc = "idle" \/ timer.waiter # Waiter) =>
    wait.block \in complete
=============================================================================
