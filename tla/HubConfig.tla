------------------------------ MODULE HubConfig ------------------------------
(***************************************************************************)
(* How the explorer keeps its configuration in step with the hubs: the     *)
(* delta-cursor poll of src/src/connectors/hub/config_sync.js over the     *)
(* endpoints of src/src/connectors/hub.js, and what src/src/config.js      *)
(* makes of the answer (the served config and its copy on disk).           *)
(*                                                                         *)
(* A hub holds the current version of each parameter and the second in     *)
(* which it was written; versions are numbers never used twice and 0 is an *)
(* absent row.  A tree is the version of each parameter.  Every round trip *)
(* is answered, maybe much later, with what one hub held in between.       *)
(***************************************************************************)
EXTENDS Integers, FiniteSets, FiniteSetsExt

CONSTANTS
  Hubs,          \* the endpoints, connector.urls
  NoHub,         \* the null index
  Params,        \* the rows of a hub's configs table
  CoinParams,    \* those of a coin; the others are keys such as chain_tips
  Polls,         \* ticks of startSync that may be in flight at once
  Budgets        \* how often each kind of fault may happen, one per behaviour

(* Bounds of the model, not of the code.                                   *)
CONSTANTS MaxVersion, MaxClock, Firsts

Faults == {"down", "degraded", "error", "restore", "restart", "disk"}

ASSUME HubsAssumption ==
  /\ NoHub \notin Hubs /\ Hubs # {} /\ Polls # {}
  /\ Params # {} /\ CoinParams \subseteq Params
ASSUME BoundsAssumption ==
  /\ MaxVersion \in Nat \ {0}
  /\ MaxClock \in Nat \ {0}
  /\ \A first \in Firsts, h \in Hubs : first[h] \in Params
  /\ Budgets \subseteq [Faults -> Nat]

VARIABLES
  hub,           \* hub[h]: its rows, its sequence number and its build
  clock,         \* seconds
  version,       \* versions used so far
  left           \* faults still to come, by kind
hubVars == <<hub, clock, version, left>>

VARIABLES
  lastGood,      \* _lastGoodIdx
  lastWatermark,
  lastSeq,
  cursorHub,     \* _watermarkEndpointIdx
  configs,       \* the cached tree, or NoTree
  whole,         \* the tree of the hub behind the last answer applied
  poll           \* poll[p]: a getAllConfig across its awaits
connectorVars == <<lastGood, lastWatermark, lastSeq, cursorHub, configs, whole>>

VARIABLES
  served,        \* the coins of configCache, or NoTree before the first config
  lastObtained,  \* lastObtainedConfigValue
  disk           \* the coins of CONFIG_CACHE_FILE
configVars == <<served, lastObtained, disk>>
vars == <<hubVars, connectorVars, poll, configVars>>

Trees == [Params -> 0..MaxVersion]
NoTree == [p \in Params |-> -1]
Empty == [p \in Params |-> 0]

Spend(kind) == left[kind] > 0 /\ left' = [left EXCEPT ![kind] = @ - 1]

-----------------------------------------------------------------------------
(* The hubs, of three builds: "bare" answers the tree without a watermark, *)
(* "strict" serves the rows above the cursor, "inclusive" those at it too. *)
(* A hub restored from its backup is asked again before it commits         *)
(* anything ("missed": it has not been): no check can tell a sequence that *)
(* has grown back from one that never shrank.                              *)

Builds == {"bare", "strict", "inclusive"}
Bare(h) == hub[h].build = "bare"

TreeOf(h) == [p \in Params |-> hub[h].rows[p].version]
Watermark(h) == Max({hub[h].rows[p].at : p \in Params})

HubCommits(h) ==
  /\ version < MaxVersion
  /\ ~hub[h].missed
  /\ \E p \in Params :
       hub' = [hub EXCEPT ![h].rows[p] = [version |-> version + 1, at |-> clock],
                          ![h].seq = @ + 1]
  /\ version' = version + 1
  /\ UNCHANGED <<clock, left, connectorVars, poll, configVars>>

HubRestored(h) ==
  /\ Spend("restore")
  /\ hub[h].rows # hub[h].backup.rows
  /\ hub' = [hub EXCEPT ![h].rows = hub[h].backup.rows, ![h].seq = hub[h].backup.seq,
                        ![h].missed = TRUE]
  /\ UNCHANGED <<clock, version, connectorVars, poll, configVars>>

Second ==
  /\ clock < MaxClock
  /\ clock' = clock + 1
  /\ UNCHANGED <<hub, version, left, connectorVars, poll, configVars>>

\* The rows a hub serves above a cursor; all of them for 0.
Covers(h, cursor, p) ==
  \/ cursor = 0 \/ Bare(h)
  \/ hub[h].rows[p].at > cursor
  \/ hub[h].build = "inclusive" /\ hub[h].rows[p].at = cursor

Envelope(h, cursor) ==
  [kind |-> "tree", from |-> h, bare |-> Bare(h), whole |-> TreeOf(h),
   tree |-> [p \in Params |-> IF Covers(h, cursor, p) THEN hub[h].rows[p].version ELSE 0],
   seq |-> IF Bare(h) THEN 0 ELSE hub[h].seq, watermark |-> Watermark(h)]
Failure(h, kind) ==
  [kind |-> kind, from |-> h, bare |-> FALSE, whole |-> Empty, tree |-> Empty,
   seq |-> 0, watermark |-> 0]
NoAnswer == Failure(NoHub, "none")

-----------------------------------------------------------------------------
(* XChainHubConnector.getAllConfig, from request to request.  "first" is   *)
(* the delta poll, "failover" the full fetch from an endpoint the cursor   *)
(* is not of, "regressed" the one after a hub lost part of its history.    *)

IdlePoll == [pc |-> "idle", sent |-> 0, cursorHub |-> NoHub, answer |-> NoAnswer]

\* Defect: the watermark itself is sent.
CursorAt(sent) == sent
\* The cursor goes out one second behind the stored watermark.
DeltaCursor(sent) == IF sent > 0 THEN sent - 1 ELSE 0
Cursor(p) == IF poll[p].pc = "first" THEN DeltaCursor(poll[p].sent) ELSE 0

Ask(p) ==
  /\ poll[p].pc = "idle"
  /\ poll' = [poll EXCEPT ![p] = [@ EXCEPT !.pc = "first", !.sent = lastWatermark,
                                           !.cursorHub = cursorHub]]
  /\ UNCHANGED <<hubVars, connectorVars, configVars>>

\* call: the passes over the endpoints, from the last one that answered.  Any
\* endpoint may be the one that does, the others being unreachable.  Only when
\* none is healthy does a degraded body come back, or nothing.
Outcome(p, a) == poll' = [poll EXCEPT ![p].answer = a]

Answered(p) ==
  /\ poll[p].pc # "idle"
  /\ poll[p].answer = NoAnswer
  /\ \E h \in Hubs :
       /\ Outcome(p, Envelope(h, Cursor(p)))
       /\ hub' = [hub EXCEPT ![h].missed = FALSE]
  /\ UNCHANGED <<clock, version, left, connectorVars, configVars>>

AnswerFails(p) ==
  /\ poll[p].pc # "idle"
  /\ poll[p].answer = NoAnswer
  /\ \/ \E kind \in {"down", "degraded"} : Spend(kind) /\ Outcome(p, Failure(NoHub, kind))
     \/ \E h \in Hubs : Spend("error") /\ Outcome(p, Failure(h, "error"))
  /\ UNCHANGED <<hub, clock, version, connectorVars, configVars>>

\* The endpoint whose result came back is the one to ask first from now on; a
\* config-DB error is a result too, a degraded body is not.
Good(a) == IF a.kind \in {"tree", "error"} THEN a.from ELSE lastGood

\* Defect: the cursor is sent to whichever endpoint answers.
NeverFailedOver(p) == FALSE
\* The tree came from another endpoint than the cursor.
FailedOver(p) ==
  LET a == poll[p].answer IN
  /\ poll[p].pc = "first"
  /\ poll[p].sent > 0
  /\ Good(a) # poll[p].cursorHub
  /\ a.kind \notin {"down", "degraded"}

\* hubConfigRegressed
Regressed(a) ==
  /\ ~a.bare
  /\ \/ a.watermark > 0 /\ a.watermark < lastWatermark
     \/ lastSeq > 0 /\ a.seq < lastSeq

\* Defect: a delta of a restored hub is merged like any other.
NeverLost(p) == FALSE
LostHistory(p) ==
  /\ poll[p].pc # "regressed"
  /\ lastWatermark > 0
  /\ configs # NoTree
  /\ Regressed(poll[p].answer)

\* Defect: the cached tree outlives its cursor.
RefetchOnly(p, pc) ==
  /\ poll[p].answer # NoAnswer
  /\ lastGood' = Good(poll[p].answer)
  /\ lastWatermark' = 0
  /\ poll' = [poll EXCEPT ![p].pc = pc, ![p].answer = NoAnswer]
  /\ UNCHANGED <<hubVars, lastSeq, cursorHub, configs, whole, configVars>>
\* Both discard the cache and ask once more, for the full tree.
Refetch(p, pc) ==
  /\ poll[p].answer # NoAnswer
  /\ lastGood' = Good(poll[p].answer)
  /\ lastWatermark' = 0
  /\ configs' = NoTree
  /\ poll' = [poll EXCEPT ![p].pc = pc, ![p].answer = NoAnswer]
  /\ UNCHANGED <<hubVars, lastSeq, cursorHub, whole, configVars>>

FailOver(p) == FailedOver(p) /\ Refetch(p, "failover")

Regress(p) ==
  /\ poll[p].answer.kind = "tree"
  /\ ~FailedOver(p)
  /\ LostHistory(p)
  /\ Refetch(p, "regressed")

\* mergeConfigDelta: rows are upserted, never deleted.
Merged(t, delta) == [p \in Params |-> IF delta[p] # 0 THEN delta[p] ELSE t[p]]

\* Defect: a delta replaces the cache.
LatestConfigs(a) == a.tree
\* applyConfigResult: a delta is merged into the cache; a tree without a
\* watermark, or one asked for in full, replaces it.
NewConfigs(a) ==
  IF ~a.bare /\ lastWatermark > 0 /\ configs # NoTree
  THEN Merged(configs, a.tree) ELSE a.tree

-----------------------------------------------------------------------------
(* fetchHubConfig and getConfig: what is served after a poll.              *)

\* flattenHubConfig: what is not of a coin is skipped.
Coins(t) == [p \in Params |-> IF p \in CoinParams THEN t[p] ELSE 0]
HasCoins(t) == t # NoTree /\ t # Empty

\* hubFallbackOutcome: keep serving, else the copy on disk, else no coins.
Fallback ==
  /\ served' = IF served # NoTree THEN served ELSE IF HasCoins(disk) THEN disk ELSE Empty
  /\ lastObtained' = IF served = NoTree /\ ~HasCoins(disk) THEN NoTree ELSE lastObtained
  /\ UNCHANGED <<disk, left>>

\* Defect: a config without coins replaces the copy on disk.
PersistedAny(config) == TRUE
Persisted(config) == HasCoins(config)

\* hubUsableUpdate: the same content again changes nothing; new content is
\* served, and written to disk, at best, if there is a coin in it.
Take(tree) ==
  IF tree = lastObtained THEN UNCHANGED <<configVars, left>>
  ELSE /\ lastObtained' = tree
       /\ served' = Coins(tree)
       /\ \/ Persisted(served') /\ disk' = served' /\ UNCHANGED left
          \/ Persisted(served') /\ Spend("disk") /\ UNCHANGED disk
          \/ ~Persisted(served') /\ UNCHANGED <<disk, left>>

\* Defect: an empty tree is taken for a config.
ServeAny(tree) == Take(tree)
\* describeHubResponse: a tree without any row is no config either.
Serve(tree) == IF tree # Empty THEN Take(tree) ELSE Fallback

Done(p) == poll' = [poll EXCEPT ![p] = IdlePoll]

\* getAllConfig answers null: no endpoint, a degraded or failing config
\* database.
GiveUp(p) ==
  /\ poll[p].answer.kind \in {"down", "degraded", "error"}
  /\ ~FailedOver(p)
  /\ lastGood' = Good(poll[p].answer)
  /\ Done(p)
  /\ Fallback
  /\ UNCHANGED <<hub, clock, version, lastWatermark, lastSeq, cursorHub, configs, whole>>

Apply(p) ==
  LET a == poll[p].answer IN
  /\ a.kind = "tree"
  /\ ~FailedOver(p)
  /\ ~LostHistory(p)
  /\ lastGood' = Good(a)
  /\ lastSeq' = a.seq
  /\ lastWatermark' = IF a.bare THEN 0 ELSE a.watermark
  /\ configs' = NewConfigs(a)
  /\ whole' = a.whole
  /\ cursorHub' = Good(a)
  /\ Done(p)
  /\ Serve(configs')
  /\ UNCHANGED <<hub, clock, version>>

\* A new process: only the copy on disk survives.
Restart ==
  /\ Spend("restart")
  /\ lastGood' = CHOOSE h \in Hubs : TRUE
  /\ lastWatermark' = 0 /\ lastSeq' = 0 /\ cursorHub' = NoHub
  /\ configs' = NoTree /\ whole' = NoTree
  /\ poll' = [p \in Polls |-> IdlePoll]
  /\ served' = NoTree /\ lastObtained' = NoTree
  /\ UNCHANGED <<hub, clock, version, disk>>

-----------------------------------------------------------------------------

\* Every hub starts with its first parameter, written in second 1; its backup
\* was taken then, or before.
Rows(q, n) == [p \in Params |-> [version |-> IF p = q THEN n ELSE 0, at |-> IF p = q THEN n ELSE 0]]
Init ==
  /\ \E n \in {0, 1}, first \in Firsts, build \in [Hubs -> Builds] :
       hub = [h \in Hubs |-> [rows |-> Rows(first[h], 1), seq |-> 1, build |-> build[h],
                              missed |-> FALSE, backup |-> [rows |-> Rows(first[h], n), seq |-> n]]]
  /\ clock = 1 /\ version = 1
  /\ left \in Budgets
  /\ lastGood = CHOOSE h \in Hubs : TRUE
  /\ lastWatermark = 0 /\ lastSeq = 0 /\ cursorHub = NoHub
  /\ configs = NoTree /\ whole = NoTree
  /\ poll = [p \in Polls |-> IdlePoll]
  /\ served = NoTree /\ lastObtained = NoTree /\ disk = NoTree

Step(p) ==
  \/ Ask(p) \/ Answered(p) \/ AnswerFails(p)
  \/ FailOver(p) \/ Regress(p) \/ GiveUp(p) \/ Apply(p)

Next ==
  \/ \E h \in Hubs : HubCommits(h) \/ HubRestored(h)
  \/ \E p \in Polls : Step(p)
  \/ Second
  \/ Restart

Spec == Init /\ [][Next]_vars

\* The interval timer ticks on, and every request ends.
FairSpec == Spec /\ \A p \in Polls : WF_vars(Step(p))

-----------------------------------------------------------------------------

Refetching == \E p \in Polls : poll[p].pc \in {"failover", "regressed"}

TypeOK ==
  /\ hub \in [Hubs -> [rows : [Params -> [version : 0..MaxVersion, at : 0..MaxClock]],
                       seq : Nat, build : Builds, missed : BOOLEAN,
                       backup : [rows : [Params -> [version : 0..1, at : 0..1]], seq : 0..1]]]
  /\ clock \in 1..MaxClock /\ version \in 1..MaxVersion
  /\ left \in [Faults -> Nat]
  /\ lastGood \in Hubs /\ cursorHub \in Hubs \cup {NoHub}
  /\ lastWatermark \in 0..MaxClock /\ lastSeq \in Nat
  /\ {configs, whole, served, lastObtained, disk} \subseteq Trees \cup {NoTree}
  /\ Refetching => configs = NoTree

(* The cached tree is always one whole tree of one hub: a delta merged     *)
(* into it never yields a mixture of two hubs, or of a hub's present and   *)
(* what it lost (getAllConfig's failover and regression handling).         *)
WholeTree == configs # NoTree => configs = whole

Quiet == \A p \in Polls : poll[p].answer = NoAnswer

(* No row is stranded below the cursor: what the cache lacks of its hub,   *)
(* the next delta brings, or that poll discards the cache (the cursor one  *)
(* second back, bound to one endpoint).                                    *)
NextDelta == Envelope(cursorHub, DeltaCursor(lastWatermark))

NoRowStranded ==
  Quiet /\ lastWatermark > 0 /\ configs # NoTree =>
    \/ Bare(cursorHub)
    \/ Regressed(NextDelta)
    \/ Merged(configs, NextDelta.tree) = TreeOf(cursorHub)

(* "merging is lossless (nothing already applied is ever lost)"            *)
(* (config_sync.js:40).  True of one poll at a time; with two in flight a  *)
(* delta may be stored as if it were the whole tree (see the README), so   *)
(* no run checks it.                                                       *)
MergeLossless ==
  Quiet /\ lastWatermark > 0 /\ configs # NoTree =>
    \/ Bare(cursorHub)
    \/ Regressed(NextDelta)
    \/ \A p \in Params : TreeOf(cursorHub)[p] # 0 => Merged(configs, NextDelta.tree)[p] # 0

(* The copy on disk never loses its coins, and an explorer with coins to   *)
(* serve, or a copy of them on disk, serves none only by a hub's own word, *)
(* a tree with rows and no coin among them: not by an outage, a failing or *)
(* emptied hub, or a restart (hubFallbackOutcome, hubUsableUpdate).        *)
HubSaysNone == lastObtained \notin {NoTree, Empty} /\ ~HasCoins(Coins(lastObtained))
KeepsCoins ==
  [][/\ HasCoins(disk) => HasCoins(disk')
     /\ HasCoins(served) \/ HasCoins(disk) =>
          HasCoins(served') \/ served' = NoTree \/ HubSaysNone']_vars

(* What is served in the end is what a hub holds, once the hubs stand      *)
(* still, or what an emptied hub held (the poll of startSync).             *)
Converges == <>[](\E h \in Hubs : TreeOf(h) = Empty \/ Coins(TreeOf(h)) = served)
=============================================================================
