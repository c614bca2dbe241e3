------------------------------ MODULE TipCaches ------------------------------
(***************************************************************************)
(* The caches a reorg must empty, for one coin (src/src/db/connection/     *)
(* cache.js): the id and action LRUs keyed by the reorg generation, the    *)
(* list cache keyed by the generation and the indexed tip, and the two     *)
(* observers of the tip that bump the generation, one on the request path  *)
(* (resultCacheGeneration) and one on the poll (checkReorgAndInvalidate).  *)
(*                                                                         *)
(* The indexer is external: it extends the chain by a block and rolls      *)
(* blocks back.  A block's number is its identity, never used twice, and   *)
(* its rows live as long as it does.  Every database read is an await.     *)
(* Of the generations only the current one is represented: the entries and *)
(* the keys of the others are unreachable for good.                        *)
(***************************************************************************)
EXTENDS Integers, Sequences, FiniteSets, FiniteSetsExt

CONSTANTS
  Requests,      \* requests being served
  Overlap,       \* Overlap[c]: how many of them at once, of cache c
  Caches,        \* the caches a behaviour may be about
  MaxHeight,     \* blocks of the chain
  MaxBlocks,     \* blocks ever mined
  MaxEntries     \* the size a cache is capped at

ASSUME CachesAssumption == Caches \subseteq {"id", "action", "list"} /\ Caches # {}
                            /\ Overlap \in [Caches -> Nat]
ASSUME BoundsAssumption == MaxHeight \in Nat \ {0} /\ MaxBlocks \in Nat
                          /\ MaxEntries \in Nat \ {0}

VARIABLES
  chain,         \* the blocks table: the block standing at each height
  mined          \* blocks used so far
chainVars == <<chain, mined>>

VARIABLES
  cache,         \* the cache all requests of the behaviour read
  entries,       \* its entries under the current generation
  requestTip,    \* _requestTip
  lastTip,       \* _lastTip
  memo           \* _tipMemo, "old" once its window has passed
VARIABLES
  req,           \* req[r]: a request across its awaits
  poll,          \* the poll across its awaits
  slipped        \* replaced blocks no observer could tell from the chain
vars == <<chainVars, cache, entries, requestTip, lastTip, memo, req, poll, slipped>>

Heights == 1..MaxHeight
NoTip == [index |-> 0, id |-> 0]
Tip == IF chain = <<>> THEN NoTip ELSE [index |-> Len(chain), id |-> chain[Len(chain)]]
At(h) == IF h \in DOMAIN chain THEN chain[h] ELSE 0
OnChain(id) == \E h \in DOMAIN chain : chain[h] = id
HeightOf(id) == CHOOSE h \in DOMAIN chain : chain[h] = id
\* An observer will find its last block gone or replaced.
Off(seen) == seen # NoTip /\ At(seen.index) # seen.id

-----------------------------------------------------------------------------
(* The indexer.                                                            *)

BlockIndexed ==
  /\ mined < MaxBlocks /\ Len(chain) < MaxHeight
  /\ chain' = Append(chain, mined + 1)
  /\ mined' = mined + 1
  /\ UNCHANGED <<cache, entries, requestTip, lastTip, memo, req, poll, slipped>>

\* A block above the last tip of both observers goes unnoticed.
Unseen(h) == \A seen \in {requestTip, lastTip} : ~Off(seen) /\ seen.index < h

BlocksRolledBack ==
  \E h \in DOMAIN chain :
    /\ chain' = SubSeq(chain, 1, h - 1)
    /\ slipped' = slipped \cup {chain[i] : i \in {j \in h..Len(chain) : Unseen(j)}}
    /\ UNCHANGED <<mined, cache, entries, requestTip, lastTip, memo, req, poll>>

-----------------------------------------------------------------------------
(* blockReplaced: the last block seen against the tip just read.  At the   *)
(* same height the tip is that block; above it a second read is needed.    *)

\* Defect: an unchanged height is an unchanged chain.
HeightOnly(prev, cur) == prev # NoTip /\ cur.index < prev.index
Behind(prev, cur) ==
  prev # NoTip /\ (cur.index < prev.index \/ (cur.index = prev.index /\ cur.id # prev.id))
NeedsRow(prev, cur) == prev # NoTip /\ cur.index > prev.index

\* Defect: a higher tip extends the block last seen.
Extends(prev) == FALSE
RowReplaced(prev) == At(prev.index) # prev.id

\* bumpReorgGeneration: entries kept, and keys held, are of a retired one.
Kept(reorg) == IF reorg THEN {} ELSE entries
Held(reorg) == [r \in Requests |-> [req[r] EXCEPT !.live = @ /\ ~reorg]]

Replaced == {id \in 1..mined : ~OnChain(id)}
\* A verdict against an older tip than the last lets what that one saw slip.
Slip(reorg, prev) ==
  slipped' = IF ~reorg /\ prev # requestTip /\ Off(requestTip) THEN slipped \cup Replaced
             ELSE slipped

-----------------------------------------------------------------------------
(* The poll: a tip read, and maybe the row at the last height.             *)

IdlePoll == [pc |-> "idle", cur |-> NoTip, prev |-> NoTip]

PollConcludes(reorg, cur) ==
  /\ entries' = Kept(reorg) /\ req' = Held(reorg)
  /\ lastTip' = cur
  /\ poll' = IdlePoll

PollTip ==
  /\ poll.pc = "idle"
  /\ Tip # NoTip
  /\ poll' = [poll EXCEPT !.pc = "tip", !.cur = Tip]
  /\ UNCHANGED <<chainVars, cache, entries, requestTip, lastTip, memo, req, slipped>>

PollJudges ==
  /\ poll.pc = "tip"
  /\ IF NeedsRow(lastTip, poll.cur)
     THEN /\ poll' = [poll EXCEPT !.pc = "row", !.prev = lastTip]
          /\ UNCHANGED <<entries, lastTip, req>>
     ELSE PollConcludes(Behind(lastTip, poll.cur), poll.cur)
  /\ UNCHANGED <<chainVars, cache, requestTip, memo, slipped>>

PollRow ==
  /\ poll.pc = "row"
  /\ PollConcludes(RowReplaced(poll.prev), poll.cur)
  /\ UNCHANGED <<chainVars, cache, requestTip, memo, slipped>>

\* A read that throws leaves the last tip as it was.
PollFails ==
  /\ poll.pc # "idle"
  /\ poll' = IdlePoll
  /\ UNCHANGED <<chainVars, cache, entries, requestTip, lastTip, memo, req, slipped>>

-----------------------------------------------------------------------------
(* The request path: the tip is read, or its memo used, before any cache.  *)
(* Requests whose memo has expired probe beside each other.                *)

IdleReq == [pc |-> "idle", cur |-> NoTip, prev |-> NoTip, key |-> 0, live |-> FALSE, read |-> 0]
Null == -1       \* the token of a failed probe
\* The token matters to a list only, whose key it is.
Looking(token) == [IdleReq EXCEPT !.pc = "look", !.key = IF cache = "list" THEN token ELSE 0]
Fresh == memo.age = "fresh"

MayArrive(r) ==
  req[r].pc = "idle" /\ Cardinality({q \in Requests : req[q].pc # "idle"}) < Overlap[cache]

Arrives(r) ==
  /\ MayArrive(r) /\ ~Fresh
  /\ req' = [req EXCEPT ![r].pc = "probe"]
  /\ UNCHANGED <<chainVars, cache, entries, requestTip, lastTip, memo, poll, slipped>>

MemoExpires ==
  /\ Fresh
  /\ memo' = [tip |-> 0, age |-> "old"]
  /\ UNCHANGED <<chainVars, cache, entries, requestTip, lastTip, req, poll, slipped>>

ProbeTip(r) ==
  /\ req[r].pc = "probe"
  /\ req' = [req EXCEPT ![r].pc = "tip", ![r].cur = Tip]
  /\ UNCHANGED <<chainVars, cache, entries, requestTip, lastTip, memo, poll, slipped>>

\* A probe that read an empty chain keeps the last tip, and has its token.
ProbeConcludes(r, prev, reorg) ==
  LET cur == req[r].cur
  IN  /\ entries' = Kept(reorg)
      /\ requestTip' = IF cur = NoTip THEN requestTip ELSE cur
      /\ Slip(reorg, prev)
      /\ memo' = [tip |-> cur.id, age |-> "fresh"]
      /\ req' = [Held(reorg) EXCEPT ![r] = Looking(cur.id)]

ProbeJudges(r) ==
  /\ req[r].pc = "tip"
  /\ LET cur == req[r].cur
     IN  IF cur # NoTip /\ NeedsRow(requestTip, cur)
         THEN /\ req' = [req EXCEPT ![r].pc = "row", ![r].prev = requestTip]
              /\ UNCHANGED <<entries, requestTip, memo, slipped>>
         ELSE ProbeConcludes(r, requestTip, cur # NoTip /\ Behind(requestTip, cur))
  /\ UNCHANGED <<chainVars, cache, lastTip, poll>>

ProbeRow(r) ==
  /\ req[r].pc = "row"
  /\ ProbeConcludes(r, req[r].prev, RowReplaced(req[r].prev))
  /\ UNCHANGED <<chainVars, cache, lastTip, poll>>

ProbeFails(r) ==
  /\ req[r].pc \in {"tip", "row"}
  /\ memo' = [tip |-> Null, age |-> "fresh"]
  /\ req' = [req EXCEPT ![r] = Looking(Null)]
  /\ UNCHANGED <<chainVars, cache, entries, requestTip, lastTip, poll, slipped>>

-----------------------------------------------------------------------------
(* The readers.  The key is taken on entry: generation, and the tip of a   *)
(* list.  getActionData takes it again to store.                           *)

\* With a fresh memo the lookup follows at once.
Look(r) ==
  /\ req[r].pc = "look" \/ (MayArrive(r) /\ Fresh)
  /\ \E key \in IF cache # "list" THEN Heights
                 ELSE IF req[r].pc = "look" THEN {req[r].key} ELSE {memo.tip} :
       IF \E e \in entries : e.key = key
       THEN req' = [req EXCEPT ![r] = IdleReq]
       ELSE req' = [req EXCEPT ![r].pc = "read", ![r].key = key, ![r].live = TRUE]
  /\ UNCHANGED <<chainVars, cache, entries, requestTip, lastTip, memo, poll, slipped>>

Read(r) ==
  /\ req[r].pc = "read"
  /\ req' = [req EXCEPT ![r].pc = "store",
                        ![r].read = IF cache = "list" THEN Tip.id ELSE At(req[r].key)]
  /\ UNCHANGED <<chainVars, cache, entries, requestTip, lastTip, memo, poll, slipped>>

\* Defect: the key of an id or a list is taken when its answer is stored.
KeyedLate(r) == TRUE
\* The key the answer is stored under is of the current generation.
Current(r) == req[r].live \/ cache = "action"

\* Defect: an answer without rows is kept like any other.
KeepsAll(r) == req[r].key # Null
\* An id that was not found is not kept, nor a list without a token.
Keeps(r) == req[r].key # Null /\ (cache = "list" \/ req[r].read # 0)

\* A full cache drops an entry first; which one is left open.
Room(e) ==
  LET others == {x \in entries : x.key # e.key}
  IN  kSubset(Min({Cardinality(others), MaxEntries - 1}), others)

Store(r) ==
  /\ req[r].pc = "store"
  /\ LET e == [key |-> req[r].key, id |-> req[r].read]
     IN  IF Keeps(r) /\ Current(r) THEN \E kept \in Room(e) : entries' = kept \cup {e}
         ELSE UNCHANGED entries
  /\ req' = [req EXCEPT ![r] = IdleReq]
  /\ UNCHANGED <<chainVars, cache, requestTip, lastTip, memo, poll, slipped>>

-----------------------------------------------------------------------------
Init ==
  /\ chain = <<>> /\ mined = 0
  /\ cache \in Caches /\ entries = {}
  /\ requestTip = NoTip /\ lastTip = NoTip /\ memo = [tip |-> 0, age |-> "old"]
  /\ req = [r \in Requests |-> IdleReq] /\ poll = IdlePoll /\ slipped = {}

Next ==
  \/ BlockIndexed \/ BlocksRolledBack
  \/ PollTip \/ PollJudges \/ PollRow \/ PollFails
  \/ MemoExpires
  \/ \E r \in Requests : \/ Arrives(r) \/ ProbeTip(r) \/ ProbeJudges(r) \/ ProbeRow(r)
                         \/ ProbeFails(r) \/ Look(r) \/ Read(r) \/ Store(r)

Spec == Init /\ [][Next]_vars

-----------------------------------------------------------------------------
Tips == [index : 0..MaxHeight, id : 0..MaxBlocks]

(* Type invariant.                                                         *)
TypeOK ==
  /\ chain \in Seq(1..MaxBlocks) /\ Len(chain) <= MaxHeight
  /\ mined \in 0..MaxBlocks /\ cache \in Caches
  /\ entries \subseteq [key : 0..MaxBlocks, id : (IF cache = "list" THEN 0 ELSE 1)..MaxBlocks]
  /\ {requestTip, lastTip, poll.cur, poll.prev} \subseteq Tips
  /\ \A r \in Requests : req[r].cur \in Tips /\ req[r].key \in Heights \cup (Null..MaxBlocks)
  /\ slipped \subseteq 1..mined

\* An observer is about to find out and bump the generation.
Detectable == Off(requestTip) \/ Off(lastTip)

Retired == \A e \in entries : OnChain(e.id) \/ Detectable \/ e.id \in slipped

(* No id outlives its block (cache.js:140): an id kept under the current   *)
(* generation is the one the chain assigns, or an observer's next read     *)
(* retires it, unless the block came and went above both observers' tips.  *)
NoStaleId == cache = "id" => Retired

(* "a reorg can reassign action_index, so the key carries coin + reorg     *)
(* generation" (action_detail_io.js:167): the same of an action's answer.  *)
NoStaleAction == cache = "action" => Retired

(* A list is of its tip (cache.js:210): what is kept under a tip that      *)
(* still stands was read at it or at a later block on top of it.           *)
ListOfTip ==
  cache = "list" =>
    \A e \in entries :
      e.key # 0 /\ OnChain(e.key) =>
        \/ OnChain(e.id) /\ HeightOf(e.id) >= HeightOf(e.key)
        \/ Detectable
        \/ e.id \in slipped

(* Neither cache answers for a chain that is gone.                         *)
AnswersFollowTip == NoStaleId /\ ListOfTip
=============================================================================
