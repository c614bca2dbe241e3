--------------------------- MODULE Requests_proofs ---------------------------
(***************************************************************************)
(* What answers a request, for every set of requests and every bound: no   *)
(* cached answer is of a chain that is gone, unless no observer could see  *)
(* it go (TipCaches), none is older than its ceiling (AgeCaches), and no   *)
(* connection and no slot is lost on the way to the database, nor a pool   *)
(* closed under its readers (RequestPath).                                 *)
(***************************************************************************)
EXTENDS TipCaches, AgeCaches, RequestPath, FiniteSetTheorems, TLAPS

-----------------------------------------------------------------------------
(* The caches that bound an age.  Stamps are related to the time of the    *)
(* answer: what is stored, or seen before an await, was computed at its    *)
(* stamp or later, and a read began before it is answered.                 *)

AgeEntries == {AgeNoEntry} \cup {e \in [at : Nat, computed : Nat] : e.at <= e.computed}

AgeCalls == [pc : {"idle", "waiting", "reading"}, start : Nat, hit : AgeEntries,
             answer : {"none", "good", "failed", "unsupported"}, computed : Int]

\* A stamp is never later than the answer it stands for.
StampsLag ==
  /\ ageClock \in Nat
  /\ ageEntry \in AgeEntries
  /\ ageReq \in [AgeRequests -> AgeCalls]
  /\ \A r \in AgeRequests :
       /\ ageReq[r].start <= ageClock
       /\ ageReq[r].answer # "none" => ageReq[r].computed \in Nat /\ ageReq[r].start <= ageReq[r].computed
  /\ ageServed \in [kind : {"none", "fresh", "cached", "outage", "unsupported"}, computed : Int]

\* Initially nothing is stored, asked or served.
LEMMA AgeInitial == AgeInit => StampsLag /\ AgeBounded
  BY AgeAssumption DEF AgeInit, StampsLag, AgeBounded, AgeEntries, AgeCalls, AgeIdle, AgeCall, AgeNoEntry, AgeAnswer

\* An entry inside a limit by its stamp is inside it by its answer.
LEMMA StampIsOlder ==
  ASSUME NEW e \in AgeEntries, NEW now \in Nat, NEW limit \in Nat, AgeInside(e, now, limit)
  PROVE  e.computed \in Nat /\ now - e.computed < limit
  BY DEF AgeEntries, AgeInside, AgeNoEntry

\* No step makes a stamp later than its answer or serves one past its bound.
LEMMA AgeStep == StampsLag /\ AgeBounded /\ [AgeNext]_ageVars => StampsLag' /\ AgeBounded'
<1> SUFFICES ASSUME StampsLag, AgeBounded, [AgeNext]_ageVars
             PROVE  StampsLag' /\ AgeBounded'
  OBVIOUS
<1> USE AgeAssumption
<1>1. CASE AgeTick
  BY <1>1 DEF AgeTick, StampsLag, AgeBounded, AgeAnswer, AgeCalls
<1>2. CASE AgeEvicts
  BY <1>2 DEF AgeEvicts, StampsLag, AgeBounded, AgeEntries
<1>3. ASSUME NEW r \in AgeRequests, AgeHits(r)
      PROVE  StampsLag' /\ AgeBounded'
  <2>1. ageEntry.computed \in Nat /\ ageClock - ageEntry.computed < AgeTtl
    BY <1>3, StampIsOlder DEF AgeHits, StampsLag
  <2> QED BY <1>3, <2>1 DEF AgeHits, StampsLag, AgeBounded, AgeAnswer
<1>4. ASSUME NEW r \in AgeRequests, AgeReads(r)
      PROVE  StampsLag' /\ AgeBounded'
  <2>1. ageReq' \in [AgeRequests -> AgeCalls]
    <3>1. AgeCall(IF AgeShares THEN "waiting" ELSE "reading", ageClock, ageEntry) \in AgeCalls
      BY DEF AgeCall, StampsLag, AgeCalls
    <3> QED BY <1>4, <3>1 DEF AgeReads, StampsLag
  <2>2. \A q \in AgeRequests :
          ageReq'[q].start <= ageClock /\ (ageReq'[q].answer # "none" =>
            ageReq'[q].computed \in Nat /\ ageReq'[q].start <= ageReq'[q].computed)
    BY <1>4 DEF AgeReads, StampsLag, AgeCalls, AgeIdle, AgeCall
  <2> QED BY <1>4, <2>1, <2>2 DEF AgeReads, StampsLag, AgeBounded
<1>5. ASSUME NEW r \in AgeRequests, AgeUpstream(r)
      PROVE  StampsLag' /\ AgeBounded'
  <2>1. PICK a \in {"good", "failed", "unsupported"} :
          ageReq' = [ageReq EXCEPT ![r].answer = a, ![r].computed = ageClock]
    BY <1>5 DEF AgeUpstream
  <2>a. [ageReq[r] EXCEPT !.answer = a, !.computed = ageClock] \in AgeCalls
    <3>1. ageReq[r] \in AgeCalls /\ ageClock \in Int
      BY DEF StampsLag
    <3>2. \A c \in AgeCalls, i \in Int : [c EXCEPT !.answer = a, !.computed = i] \in AgeCalls
      BY DEF AgeCalls
    <3> QED BY <3>1, <3>2
  <2>2. ageReq' \in [AgeRequests -> AgeCalls]
    <3>1. ageReq' = [ageReq EXCEPT ![r] = [ageReq[r] EXCEPT !.answer = a, !.computed = ageClock]]
      BY <2>1 DEF StampsLag, AgeCalls
    <3> QED BY <2>a, <3>1 DEF StampsLag
  <2>3. \A q \in AgeRequests :
          ageReq'[q].start <= ageClock /\ (ageReq'[q].answer # "none" =>
            ageReq'[q].computed \in Nat /\ ageReq'[q].start <= ageReq'[q].computed)
    BY <2>1 DEF StampsLag, AgeCalls
  <2> QED BY <1>5, <2>2, <2>3 DEF AgeUpstream, StampsLag, AgeBounded
<1>6. ASSUME NEW r \in AgeRequests, AgeReturns(r)
      PROVE  /\ ageReq' \in [AgeRequests -> AgeCalls]
             /\ \A q \in AgeRequests :
                  ageReq'[q].start <= ageClock /\ (ageReq'[q].answer # "none" =>
                    ageReq'[q].computed \in Nat /\ ageReq'[q].start <= ageReq'[q].computed)
  BY <1>6 DEF AgeReturns, StampsLag, AgeCalls, AgeIdle, AgeCall, AgeEntries
<1>7. ASSUME NEW r \in AgeRequests, AgeStores(r)
      PROVE  StampsLag' /\ AgeBounded'
  <2>1. ageEntry' \in AgeEntries
    BY <1>7 DEF AgeStores, AgeStamp, StampsLag, AgeEntries, AgeCalls
  <2>2. ageServed' = AgeAnswer("fresh", ageReq[r].computed) /\ ageReq[r].computed \in Int
    BY <1>7 DEF AgeStores, StampsLag, AgeCalls
  <2> QED BY <1>6, <1>7, <2>1, <2>2 DEF AgeStores, StampsLag, AgeBounded, AgeAnswer
<1>8. ASSUME NEW r \in AgeRequests, AgeSettles(r)
      PROVE  StampsLag' /\ AgeBounded'
  <2>1. AgeBridge(r) \in AgeEntries
    BY DEF AgeBridge, StampsLag, AgeCalls
  <2>2. AgeInside(AgeBridge(r), AgeAfter(r), AgeStaleMax) =>
          AgeBridge(r).computed \in Nat /\ ageClock - AgeBridge(r).computed < AgeStaleMax
    BY <2>1, StampIsOlder DEF AgeAfter, StampsLag
  <2>3. /\ ageServed' \in [kind : {"none", "fresh", "cached", "outage", "unsupported"}, computed : Int]
        /\ ageServed'.kind = "cached" => ageClock - ageServed'.computed < AgeStaleMax
    BY <1>8, <2>2 DEF AgeSettles, AgeAnswer
  <2> QED BY <1>6, <1>8, <2>3 DEF AgeSettles, StampsLag, AgeBounded
<1>9. CASE UNCHANGED ageVars
  BY <1>9 DEF ageVars, StampsLag, AgeBounded
<1> QED BY <1>1, <1>2, <1>3, <1>4, <1>5, <1>7, <1>8, <1>9 DEF AgeNext

\* Nothing served from a cache is older than the lifetime or the ceiling
\* allows (operational_cache.js getRows, fee_schedule_cache.js load).
THEOREM CachedAnswersAreBounded == AgeSpec => []AgeBounded
  BY AgeInitial, AgeStep, PTL DEF AgeSpec


-----------------------------------------------------------------------------
(* The caches a reorg empties.                                             *)

Seen(m) == {NoTip} \cup [index : Heights, id : 1..m]
Reqs(m) == [pc : {"idle", "probe", "tip", "row", "look", "read", "store"}, cur : Seen(m),
            prev : Seen(m), key : Heights \cup (Null..m), live : BOOLEAN, read : 0..m]
Polls(m) == [pc : {"idle", "tip", "row"}, cur : Seen(m), prev : Seen(m)]
Lowest == IF cache = "list" THEN 0 ELSE 1

\* Blocks are mined in order, so those of the chain are.
Rising(c, m) ==
  /\ c \in Seq(1..MaxBlocks) /\ Len(c) <= MaxHeight
  /\ \A i \in DOMAIN c : i <= c[i] /\ c[i] <= m
  /\ \A i, j \in DOMAIN c : i < j => c[i] < c[j]

\* Everything seen, kept or in hand is of blocks mined so far.
CacheTypes ==
  /\ mined \in 0..MaxBlocks /\ cache \in Caches /\ Rising(chain, mined)
  /\ requestTip \in Seen(mined) /\ lastTip \in Seen(mined)
  /\ poll \in Polls(mined) /\ (poll.pc = "row" => poll.prev = lastTip)
  /\ memo \in [tip : Null..mined, age : {"fresh", "old"}]
  /\ req \in [Requests -> Reqs(mined)]
  /\ \A r \in Requests :
       /\ cache = "list" => req[r].key \in Null..mined
       /\ cache # "list" /\ req[r].pc = "store" /\ req[r].read # 0 => req[r].key \in 1..mined
  /\ entries \subseteq [key : 0..mined, id : Lowest..mined]
  /\ slipped \subseteq 1..mined

\* An answer is of a block that stands, or its going will be found out, or it
\* could not be.  A list is moreover of no block below the tip it is kept under.
Excused(id) == Detectable \/ id \in slipped
OfChain(id) == OnChain(id) \/ Excused(id)
AboveTip(key, id) == \A i, j \in DOMAIN chain : chain[i] = key /\ chain[j] = id => i <= j
Valid(key, id) ==
  IF cache = "list" THEN key # 0 /\ OnChain(key) => id # 0 /\ OfChain(id) /\ AboveTip(key, id)
  ELSE id # 0 => OfChain(id)
AnswersValid ==
  cache # "action" =>
    /\ \A e \in entries : Valid(e.key, e.id)
    /\ \A r \in Requests : req[r].pc = "store" /\ req[r].live => Valid(req[r].key, req[r].read)

TipInv == CacheTypes /\ AnswersValid

\* Initially nothing is mined, seen or kept.
LEMMA TipInitial == Init => TipInv
<1> SUFFICES ASSUME Init PROVE TipInv
  OBVIOUS
<1> USE CachesAssumption, BoundsAssumption
<1>1. Rising(chain, mined)
  BY DEF Init, Rising
<1>2. CacheTypes
  BY <1>1 DEF Init, CacheTypes, Seen, Reqs, Polls, IdleReq, IdlePoll, Lowest, Null
<1>3. AnswersValid
  BY DEF Init, AnswersValid, IdleReq
<1> QED
  BY <1>2, <1>3 DEF TipInv

\* What is read of the chain is of a block mined.
LEMMA TipSeen ==
  ASSUME CacheTypes
  PROVE  /\ Tip \in Seen(mined) /\ Tip.id \in 0..mined
         /\ \A h \in Int : At(h) \in 0..mined /\ (At(h) # 0 => h \in DOMAIN chain /\ h \in 1..mined)
<1> USE BoundsAssumption
<1>1. /\ chain \in Seq(1..MaxBlocks) /\ Len(chain) \in Nat /\ Len(chain) <= MaxHeight
      /\ DOMAIN chain = 1..Len(chain)
      /\ \A i \in DOMAIN chain : chain[i] \in Int /\ i <= chain[i] /\ chain[i] <= mined
      /\ mined \in Nat
  BY DEF CacheTypes, Rising
<1>2. chain # <<>> => Len(chain) \in 1..Len(chain)
  BY <1>1
<1>3. Tip \in Seen(mined) /\ Tip.id \in 0..mined
  BY <1>1, <1>2 DEF Tip, NoTip, Seen, Heights
<1> QED
  BY SMTT(60), <1>1, <1>3 DEF At

\* A tip seen is of a block, unless there was none.
LEMMA SeenOf ==
  ASSUME NEW m \in Nat, NEW seen \in Seen(m)
  PROVE  /\ seen.index \in 0..MaxHeight /\ seen.id \in 0..m
         /\ seen # NoTip => seen.index \in Heights /\ seen.id \in 1..m
         /\ \A n \in Nat : m <= n => seen \in Seen(n)
  BY BoundsAssumption DEF Seen, NoTip, Heights

\* Verdicts keep what is held of its type.
LEMMA HeldTypes ==
  ASSUME CacheTypes, NEW reorg \in BOOLEAN
  PROVE  /\ Held(reorg) \in [Requests -> Reqs(mined)]
         /\ \A r \in Requests : Held(reorg)[r] = [req[r] EXCEPT !.live = @ /\ ~reorg]
<1>1. req \in [Requests -> Reqs(mined)]
  BY DEF CacheTypes
<1>2. \A r \in Requests : [req[r] EXCEPT !.live = @ /\ ~reorg] \in Reqs(mined)
  BY ZenonT(60), <1>1 DEF Reqs
<1> QED
  BY <1>2 DEF Held

\* What the requests hold, apart from their types.
KeysOf(q) ==
  /\ cache = "list" => q.key \in Null..mined
  /\ cache # "list" /\ q.pc = "store" /\ q.read # 0 => q.key \in 1..mined

\* A request that starts to look, or stops, is of its type.
LEMMA LookingTypes ==
  ASSUME CacheTypes, NEW token \in Null..mined
  PROVE  /\ Looking(token) \in Reqs(mined) /\ KeysOf(Looking(token))
         /\ IdleReq \in Reqs(mined) /\ KeysOf(IdleReq)
<1>1. /\ IdleReq.pc = "idle" /\ IdleReq.cur = NoTip /\ IdleReq.prev = NoTip
      /\ IdleReq.key = 0 /\ IdleReq.live = FALSE /\ IdleReq.read = 0
  BY DEF IdleReq
<1>2. mined \in Nat /\ NoTip \in Seen(mined)
  BY BoundsAssumption DEF CacheTypes, Seen
<1>3. IdleReq \in Reqs(mined)
  <2>1. 0 \in Heights \cup (Null..mined) /\ 0 \in 0..mined
    BY <1>2 DEF Null
  <2> QED
    BY <1>2, <2>1 DEF IdleReq, Reqs
<1>4. \A k \in Null..mined : [IdleReq EXCEPT !.pc = "look", !.key = k] \in Reqs(mined)
  BY <1>3 DEF Reqs
<1>5. PICK k \in Null..mined : Looking(token) = [IdleReq EXCEPT !.pc = "look", !.key = k]
  <2>1. 0 \in Null..mined
    BY <1>2 DEF Null
  <2>2. CASE cache = "list"
    BY <2>2 DEF Looking
  <2>3. CASE cache # "list"
    BY <2>1, <2>3 DEF Looking
  <2> QED
    BY <2>2, <2>3
<1>6. Looking(token).pc = "look" /\ Looking(token).key \in Null..mined
  BY <1>5 DEF IdleReq
<1>7. IdleReq.key \in Null..mined
  BY <1>1, <1>2 DEF Null
<1> QED
  BY <1>1, <1>3, <1>4, <1>5, <1>6, <1>7 DEF KeysOf

\* A step of the indexer keeps the types.
LEMMA ChainTypes ==
  ASSUME CacheTypes, BlockIndexed \/ BlocksRolledBack
  PROVE  CacheTypes'
<1> USE BoundsAssumption, CachesAssumption
<1>1. /\ chain \in Seq(1..MaxBlocks) /\ Len(chain) \in Nat /\ Len(chain) <= MaxHeight
      /\ DOMAIN chain = 1..Len(chain)
      /\ \A i \in DOMAIN chain : chain[i] \in 1..MaxBlocks /\ i <= chain[i] /\ chain[i] <= mined
      /\ mined \in Nat /\ mined <= MaxBlocks
      /\ \A i, j \in DOMAIN chain : i < j => chain[i] < chain[j]
  BY DEF CacheTypes, Rising
<1>2. CASE BlockIndexed
  <2>0. mined' = mined + 1 /\ mined < MaxBlocks /\ Len(chain) < MaxHeight
    BY <1>2 DEF BlockIndexed
  <2>1. /\ chain' \in Seq(1..MaxBlocks) /\ Len(chain') = Len(chain) + 1
        /\ DOMAIN chain' = 1..(Len(chain) + 1)
        /\ \A i \in DOMAIN chain : chain'[i] = chain[i]
        /\ chain'[Len(chain) + 1] = mined + 1
    BY <1>1, <1>2, <2>0 DEF BlockIndexed
  <2>2. Len(chain) <= mined
    <3>1. CASE Len(chain) = 0
      BY <3>1, <1>1
    <3>2. CASE Len(chain) \in DOMAIN chain
      BY <3>2, <1>1
    <3> QED
      BY <3>1, <3>2, <1>1
  <2>3. Rising(chain', mined')
    <3>1. Len(chain') <= MaxHeight
      BY <1>1, <2>0, <2>1
    <3>2. \A i \in DOMAIN chain' : i <= chain'[i] /\ chain'[i] <= mined'
      <4> SUFFICES ASSUME NEW i \in DOMAIN chain' PROVE i <= chain'[i] /\ chain'[i] <= mined'
        OBVIOUS
      <4>1. CASE i \in DOMAIN chain
        BY <1>1, <2>0, <2>1, <4>1
      <4>2. CASE i = Len(chain) + 1
        BY <1>1, <2>0, <2>1, <2>2, <4>2
      <4> QED
        BY <1>1, <2>1, <4>1, <4>2
    <3>3. \A i, j \in DOMAIN chain' : i < j => chain'[i] < chain'[j]
      <4> SUFFICES ASSUME NEW i \in DOMAIN chain', NEW j \in DOMAIN chain', i < j
                   PROVE  chain'[i] < chain'[j]
        OBVIOUS
      <4>1. i \in DOMAIN chain
        BY <1>1, <2>1
      <4>2. CASE j \in DOMAIN chain
        BY <1>1, <2>1, <4>1, <4>2
      <4>3. CASE j = Len(chain) + 1
        BY <1>1, <2>1, <4>1, <4>3
      <4> QED
        BY <1>1, <2>1, <4>2, <4>3
    <3> QED
      BY <2>1, <3>1, <3>2, <3>3 DEF Rising
  <2>4. \A s \in Seen(mined) : s \in Seen(mined')
    BY <1>1, <2>0, SeenOf
  <2>5. \A q \in Reqs(mined) : q \in Reqs(mined')
    BY <1>1, <2>0, <2>4 DEF Reqs
  <2>6. req' \in [Requests -> Reqs(mined')]
    BY <1>2, <2>5 DEF BlockIndexed, CacheTypes
  <2>7. poll' \in Polls(mined') /\ (poll'.pc = "row" => poll'.prev = lastTip')
    BY <1>2, <2>4 DEF BlockIndexed, CacheTypes, Polls
  <2>8. requestTip' \in Seen(mined') /\ lastTip' \in Seen(mined')
    BY <1>2, <2>4 DEF BlockIndexed, CacheTypes
  <2>9. memo' \in [tip : Null..mined', age : {"fresh", "old"}]
    BY <1>1, <1>2, <2>0 DEF BlockIndexed, CacheTypes, Null
  <2>10. entries' \subseteq [key : 0..mined', id : Lowest'..mined'] /\ slipped' \subseteq 1..mined'
    BY SMTT(60), <1>1, <1>2, <2>0 DEF BlockIndexed, CacheTypes, Lowest
  <2>11. \A r \in Requests :
           /\ cache' = "list" => req'[r].key \in Null..mined'
           /\ cache' # "list" /\ req'[r].pc = "store" /\ req'[r].read # 0 => req'[r].key \in 1..mined'
    BY <1>1, <1>2, <2>0 DEF BlockIndexed, CacheTypes, Null
  <2>12. mined' \in 0..MaxBlocks /\ cache' \in Caches
    BY <1>1, <1>2, <2>0 DEF BlockIndexed, CacheTypes
  <2> QED
    BY <2>3, <2>6, <2>7, <2>8, <2>9, <2>10, <2>11, <2>12 DEF CacheTypes
<1>3. CASE BlocksRolledBack
  <2>1. PICK h \in DOMAIN chain : BlocksRolledBack!(h)
    BY <1>3 DEF BlocksRolledBack
  <2>2. /\ chain' \in Seq(1..MaxBlocks) /\ Len(chain') = h - 1 /\ DOMAIN chain' = 1..(h - 1)
        /\ \A i \in DOMAIN chain' : chain'[i] = chain[i]
    BY SMTT(60), <1>1, <2>1
  <2>3. Rising(chain', mined')
    <3>1. \A i \in DOMAIN chain' : i \in DOMAIN chain
      BY SMTT(60), <1>1, <2>1, <2>2
    <3>2. Len(chain') <= MaxHeight /\ mined' = mined
      BY <1>1, <2>1, <2>2
    <3>3. \A i \in DOMAIN chain' : i <= chain'[i] /\ chain'[i] <= mined'
      BY <1>1, <2>2, <3>1, <3>2
    <3>4. \A i, j \in DOMAIN chain' : i < j => chain'[i] < chain'[j]
      BY <1>1, <2>2, <3>1
    <3> QED
      BY <2>2, <3>2, <3>3, <3>4 DEF Rising
  <2>4. slipped' \subseteq 1..mined'
    <3>0. \A i \in h..Len(chain) : i \in DOMAIN chain
      BY <1>1
    <3>1. \A i \in h..Len(chain) : chain[i] \in 1..mined
      BY SMTT(60), <1>1, <3>0
    <3> QED
      BY ZenonT(60), <2>1, <3>1 DEF CacheTypes
  <2>5. Lowest' = Lowest
    BY <2>1 DEF Lowest
  <2> QED
    BY <2>1, <2>3, <2>4, <2>5 DEF CacheTypes
<1> QED
  BY <1>2, <1>3

\* A step of the poll keeps the types.
LEMMA PollTypes ==
  ASSUME CacheTypes, PollTip \/ PollJudges \/ PollRow \/ PollFails
  PROVE  CacheTypes'
<1>1. UNCHANGED <<chainVars, cache, requestTip, memo, slipped>>
  BY DEF PollTip, PollJudges, PollRow, PollFails
<1>2. IdlePoll \in Polls(mined) /\ Tip \in Seen(mined)
  BY TipSeen DEF IdlePoll, Polls, Seen
<1>3. ASSUME NEW reorg \in BOOLEAN, PollConcludes(reorg, poll.cur)
      PROVE  CacheTypes'
  <2>1. Kept(reorg) \subseteq entries /\ lastTip' \in Seen(mined)
    BY <1>3 DEF Kept, PollConcludes, CacheTypes, Polls
  <2>2. req' \in [Requests -> Reqs(mined)] /\ \A r \in Requests : KeysOf(req'[r])
    <3>0. req' = Held(reorg)
      BY <1>3 DEF PollConcludes
    <3>1. req' \in [Requests -> Reqs(mined)]
      BY <3>0, HeldTypes
    <3> SUFFICES ASSUME NEW r \in Requests PROVE KeysOf(req'[r])
      BY <3>1
    <3>2. req'[r] = [req[r] EXCEPT !.live = @ /\ ~reorg] /\ req[r] \in Reqs(mined)
      BY <3>0, HeldTypes DEF CacheTypes
    <3>3. req'[r].key = req[r].key /\ req'[r].pc = req[r].pc /\ req'[r].read = req[r].read
      BY <3>2 DEF Reqs
    <3> QED
      BY <3>3 DEF KeysOf, CacheTypes
  <2>3. poll' \in Polls(mined) /\ poll'.pc # "row"
    BY <1>2, <1>3 DEF PollConcludes, IdlePoll
  <2>4. entries' \subseteq [key : 0..mined, id : Lowest..mined]
    BY <1>3, <2>1 DEF PollConcludes, CacheTypes
  <2> QED
    BY <1>1, <2>1, <2>2, <2>3, <2>4 DEF CacheTypes, KeysOf, chainVars, Lowest
<1>4. CASE PollTip
  <2>1. poll' \in Polls(mined) /\ poll'.pc = "tip"
    BY <1>2, <1>4 DEF PollTip, Polls, CacheTypes
  <2> QED
    BY <1>4, <2>1 DEF PollTip, CacheTypes, chainVars, Lowest
<1>5. CASE PollJudges
  <2>1. CASE NeedsRow(lastTip, poll.cur)
    <3>1. poll' = [poll EXCEPT !.pc = "row", !.prev = lastTip] /\ UNCHANGED <<entries, lastTip, req>>
      BY <1>5, <2>1 DEF PollJudges
    <3>2. poll' \in Polls(mined) /\ poll'.prev = lastTip
      BY <3>1 DEF Polls, CacheTypes
    <3> QED
      BY <1>1, <3>1, <3>2 DEF CacheTypes, chainVars, Lowest
  <2>2. CASE ~ NeedsRow(lastTip, poll.cur)
    <3>1. Behind(lastTip, poll.cur) \in BOOLEAN
      BY DEF Behind
    <3> QED
      BY <1>3, <1>5, <2>2, <3>1 DEF PollJudges
  <2> QED
    BY <2>1, <2>2
<1>6. CASE PollRow
  <2>1. RowReplaced(poll.prev) \in BOOLEAN
    BY DEF RowReplaced
  <2> QED
    BY <1>3, <1>6, <2>1 DEF PollRow
<1>7. CASE PollFails
  <2>1. poll' \in Polls(mined) /\ poll'.pc # "row"
    BY <1>2, <1>7 DEF PollFails, IdlePoll
  <2> QED
    BY <1>7, <2>1 DEF PollFails, CacheTypes, chainVars, Lowest
<1> QED
  BY <1>4, <1>5, <1>6, <1>7

\* A step of the request path keeps the types.
LEMMA RequestTypes ==
  ASSUME CacheTypes, NEW r \in Requests,
         \/ Arrives(r) \/ ProbeTip(r) \/ ProbeJudges(r) \/ ProbeRow(r)
         \/ ProbeFails(r) \/ Look(r) \/ Read(r) \/ Store(r)
  PROVE  CacheTypes'
<1>1. UNCHANGED <<chain, mined, cache, lastTip, poll>>
  BY DEF Arrives, ProbeTip, ProbeJudges, ProbeRow, ProbeFails, Look, Read, Store, chainVars
<1>2. /\ mined \in Nat /\ req \in [Requests -> Reqs(mined)] /\ req[r] \in Reqs(mined)
      /\ Tip \in Seen(mined) /\ requestTip \in Seen(mined)
      /\ \A q \in Requests : KeysOf(req[q])
  BY TipSeen, BoundsAssumption DEF CacheTypes, KeysOf
<1>3. ASSUME NEW q \in Reqs(mined), KeysOf(q), req' = [req EXCEPT ![r] = q],
             UNCHANGED <<entries, requestTip, memo, slipped>>
      PROVE  CacheTypes'
  <2>1. req' \in [Requests -> Reqs(mined)] /\ \A p \in Requests : KeysOf(req'[p])
    BY <1>2, <1>3
  <2> QED
    BY <1>1, <1>3, <2>1 DEF CacheTypes, KeysOf, Lowest
<1>4. ASSUME NEW prev, NEW reorg \in BOOLEAN, ProbeConcludes(r, prev, reorg)
      PROVE  CacheTypes'
  <2>1. req[r].cur \in Seen(mined) /\ req[r].cur.id \in 0..mined
    BY <1>2, SeenOf DEF Reqs
  <2>2. req' = [Held(reorg) EXCEPT ![r] = Looking(req[r].cur.id)]
    BY <1>4 DEF ProbeConcludes
  <2>3. Looking(req[r].cur.id) \in Reqs(mined) /\ KeysOf(Looking(req[r].cur.id))
    BY <1>2, <2>1, LookingTypes DEF Null
  <2>4. req' \in [Requests -> Reqs(mined)]
    BY <2>2, <2>3, HeldTypes
  <2>5. ASSUME NEW p \in Requests PROVE KeysOf(req'[p])
    <3>1. CASE p = r
      BY <2>2, <2>3, <3>1, HeldTypes
    <3>2. CASE p # r
      <4>1. req'[p] = [req[p] EXCEPT !.live = @ /\ ~reorg] /\ req[p] \in Reqs(mined)
        BY <1>2, <2>2, <3>2, HeldTypes
      <4>2. req'[p].key = req[p].key /\ req'[p].pc = req[p].pc /\ req'[p].read = req[p].read
        BY <4>1 DEF Reqs
      <4> QED
        BY <1>2, <4>2 DEF KeysOf
    <3> QED
      BY <3>1, <3>2
  <2>6. entries' \subseteq entries /\ requestTip' \in Seen(mined)
    BY <1>2, <1>4, <2>1 DEF ProbeConcludes, Kept
  <2>7. slipped' \subseteq 1..mined
    BY <1>4 DEF ProbeConcludes, Slip, Replaced, CacheTypes
  <2>8. memo' \in [tip : Null..mined, age : {"fresh", "old"}]
    BY <1>2, <1>4, <2>1 DEF ProbeConcludes, Null
  <2>9. entries' \subseteq [key : 0..mined, id : Lowest..mined]
    BY <2>6 DEF CacheTypes
  <2> QED
    BY <1>1, <2>4, <2>5, <2>6, <2>7, <2>8, <2>9 DEF CacheTypes, KeysOf, Lowest
<1>5. CASE Arrives(r)
  <2> DEFINE q == [req[r] EXCEPT !.pc = "probe"]
  <2>1. q \in Reqs(mined) /\ q.key = req[r].key /\ q.pc = "probe"
    BY <1>2 DEF Reqs
  <2>2. KeysOf(q)
    BY <1>2, <2>1 DEF KeysOf
  <2>3. req' = [req EXCEPT ![r] = q]
    BY <1>2, <1>5 DEF Arrives
  <2> HIDE DEF q
  <2> QED
    BY <1>3, <1>5, <2>1, <2>2, <2>3 DEF Arrives
<1>6. CASE ProbeTip(r)
  <2> DEFINE q == [req[r] EXCEPT !.pc = "tip", !.cur = Tip]
  <2>1. q \in Reqs(mined) /\ q.key = req[r].key /\ q.pc = "tip"
    BY <1>2 DEF Reqs
  <2>2. KeysOf(q)
    BY <1>2, <2>1 DEF KeysOf
  <2>3. req' = [req EXCEPT ![r] = q]
    BY <1>2, <1>6 DEF ProbeTip
  <2> HIDE DEF q
  <2> QED
    BY <1>3, <1>6, <2>1, <2>2, <2>3 DEF ProbeTip
<1>7. CASE ProbeJudges(r)
  <2>1. CASE req[r].cur # NoTip /\ NeedsRow(requestTip, req[r].cur)
    <3> DEFINE q == [req[r] EXCEPT !.pc = "row", !.prev = requestTip]
    <3>1. q \in Reqs(mined) /\ q.key = req[r].key /\ q.pc = "row"
      BY <1>2 DEF Reqs
    <3>2. KeysOf(q)
      BY <1>2, <3>1 DEF KeysOf
    <3>3. req' = [req EXCEPT ![r] = q] /\ UNCHANGED <<entries, requestTip, memo, slipped>>
      BY <1>2, <1>7, <2>1 DEF ProbeJudges
    <3> HIDE DEF q
    <3> QED
      BY <1>3, <3>1, <3>2, <3>3
  <2>2. CASE ~ (req[r].cur # NoTip /\ NeedsRow(requestTip, req[r].cur))
    <3>1. (req[r].cur # NoTip /\ Behind(requestTip, req[r].cur)) \in BOOLEAN
      OBVIOUS
    <3>2. ProbeConcludes(r, requestTip, req[r].cur # NoTip /\ Behind(requestTip, req[r].cur))
      BY <1>7, <2>2 DEF ProbeJudges
    <3> QED
      BY <1>4, <3>1, <3>2
  <2> QED
    BY <2>1, <2>2
<1>8. CASE ProbeRow(r)
  <2>1. RowReplaced(req[r].prev) \in BOOLEAN
    BY DEF RowReplaced
  <2> QED
    BY <1>4, <1>8, <2>1 DEF ProbeRow
<1>9. CASE ProbeFails(r)
  <2>1. Null \in Null..mined
    BY <1>2 DEF Null
  <2>2. Looking(Null) \in Reqs(mined) /\ KeysOf(Looking(Null))
    BY <2>1, LookingTypes
  <2>3. req' \in [Requests -> Reqs(mined)] /\ \A p \in Requests : KeysOf(req'[p])
    BY <1>2, <1>9, <2>2 DEF ProbeFails
  <2>4. memo' \in [tip : Null..mined, age : {"fresh", "old"}]
    BY <1>9, <2>1 DEF ProbeFails
  <2> QED
    BY <1>1, <1>9, <2>3, <2>4 DEF CacheTypes, KeysOf, Lowest, ProbeFails
<1>10. CASE Look(r)
  <2>1. PICK key \in IF cache # "list" THEN Heights
                     ELSE IF req[r].pc = "look" THEN {req[r].key} ELSE {memo.tip} :
          IF \E e \in entries : e.key = key
          THEN req' = [req EXCEPT ![r] = IdleReq]
          ELSE req' = [req EXCEPT ![r].pc = "read", ![r].key = key, ![r].live = TRUE]
    BY <1>10 DEF Look
  <2>2. UNCHANGED <<entries, requestTip, memo, slipped>>
    BY <1>10 DEF Look
  <2>3. CASE \E e \in entries : e.key = key
    <3>1. 0 \in Null..mined
      BY <1>2 DEF Null
    <3>2. IdleReq \in Reqs(mined) /\ KeysOf(IdleReq)
      BY <3>1, LookingTypes
    <3> QED
      BY <1>3, <2>1, <2>2, <2>3, <3>2
  <2>4. CASE ~ \E e \in entries : e.key = key
    <3> DEFINE q == [req[r] EXCEPT !.pc = "read", !.key = key, !.live = TRUE]
    <3>1. key \in Heights \cup (Null..mined) /\ (cache = "list" => key \in Null..mined)
      BY <1>2, <2>1 DEF KeysOf, CacheTypes
    <3>2. q \in Reqs(mined) /\ q.key = key /\ q.pc = "read"
      BY <1>2, <3>1 DEF Reqs
    <3>3. KeysOf(q)
      BY <3>1, <3>2 DEF KeysOf
    <3>4. req' = [req EXCEPT ![r] = q]
      BY <1>2, <2>1, <2>4
    <3> HIDE DEF q
    <3> QED
      BY <1>3, <2>2, <3>2, <3>3, <3>4
  <2> QED
    BY <2>3, <2>4
<1>11. CASE Read(r)
  <2> DEFINE n == IF cache = "list" THEN Tip.id ELSE At(req[r].key)
  <2> DEFINE q == [req[r] EXCEPT !.pc = "store", !.read = n]
  <2>1. req[r].key \in Int
    BY <1>2 DEF Reqs, Heights, Null
  <2>2. n \in 0..mined
    BY <2>1, TipSeen
  <2>3. cache # "list" /\ n # 0 => req[r].key \in 1..mined
    BY <2>1, TipSeen
  <2>4. req' = [req EXCEPT ![r] = q]
    BY <1>2, <1>11 DEF Read
  <2> HIDE DEF n
  <2>5. q \in Reqs(mined) /\ q.key = req[r].key /\ q.pc = "store" /\ q.read = n
    BY <1>2, <2>2 DEF Reqs
  <2>6. KeysOf(q)
    BY <1>2, <2>3, <2>5 DEF KeysOf
  <2> HIDE DEF q
  <2> QED
    BY <1>3, <1>11, <2>4, <2>5, <2>6 DEF Read
<1>12. CASE Store(r)
  <2> DEFINE e == [key |-> req[r].key, id |-> req[r].read]
  <2>1. req' = [req EXCEPT ![r] = IdleReq] /\ UNCHANGED <<requestTip, memo, slipped>> /\ req[r].pc = "store"
    BY <1>12 DEF Store
  <2>2. 0 \in Null..mined
    BY <1>2 DEF Null
  <2>3. IdleReq \in Reqs(mined) /\ KeysOf(IdleReq)
    BY <2>2, LookingTypes
  <2>4. CASE UNCHANGED entries
    BY <1>3, <2>1, <2>3, <2>4
  <2>5. CASE Keeps(r) /\ \E kept \in Room(e) : entries' = kept \cup {e}
    <3>1. e.key \in 0..mined /\ e.id \in Lowest..mined
      <4>1. req[r].read \in 0..mined /\ req[r].key # Null
        BY <1>2, <2>5 DEF Reqs, Keeps
      <4>2. CASE cache = "list"
        <5>1. req[r].key \in Null..mined
          BY <1>2, <4>2 DEF KeysOf
        <5> QED
          BY <1>2, <4>1, <4>2, <5>1 DEF Lowest, Null
      <4>3. CASE cache # "list"
        <5>1. req[r].read # 0
          BY <2>5, <4>3 DEF Keeps
        <5>2. req[r].key \in 1..mined
          BY <1>2, <2>1, <4>3, <5>1 DEF KeysOf
        <5> QED
          BY <1>2, <4>1, <4>3, <5>1, <5>2 DEF Lowest
      <4> QED
        BY <4>2, <4>3
    <3>2. e \in [key : 0..mined, id : Lowest..mined]
      BY <3>1
    <3>3. entries' \subseteq entries \cup {e}
      BY <2>5 DEF Room, kSubset
    <3>4. entries' \subseteq [key : 0..mined, id : Lowest..mined]
      BY <3>2, <3>3 DEF CacheTypes
    <3>5. req' \in [Requests -> Reqs(mined)] /\ \A p \in Requests : KeysOf(req'[p])
      BY <1>2, <2>1, <2>3
    <3> QED
      BY <1>1, <2>1, <3>4, <3>5 DEF CacheTypes, KeysOf, Lowest
  <2> QED
    BY <1>12, <2>4, <2>5 DEF Store
<1> QED
  BY <1>5, <1>6, <1>7, <1>8, <1>9, <1>10, <1>11, <1>12

\* Every step keeps the types.
LEMMA CacheTypesStep ==
  ASSUME CacheTypes, [Next]_vars
  PROVE  CacheTypes'
<1>1. CASE MemoExpires
  <2>1. memo' \in [tip : Null..mined, age : {"fresh", "old"}]
    BY <1>1, BoundsAssumption DEF MemoExpires, CacheTypes, Null
  <2> QED
    BY <1>1, <2>1 DEF MemoExpires, CacheTypes, chainVars, Lowest
<1>2. CASE UNCHANGED vars
  BY <1>2 DEF vars, chainVars, CacheTypes, Lowest
<1> QED
  BY <1>1, <1>2, ChainTypes, PollTypes, RequestTypes DEF Next

-----------------------------------------------------------------------------
(* What is valid stays so until the generation is retired.                 *)

\* No block of the chain moves, none that goes comes back, and what goes is
\* found out, or could not be.
Follows ==
  /\ UNCHANGED cache
  /\ \A i \in DOMAIN chain' : chain'[i] <= mined => i \in DOMAIN chain /\ chain[i] = chain'[i]
  /\ \A id \in 1..mined : OfChain(id) => OfChain(id)'

\* A step that follows the chain keeps what is valid so.
LEMMA ValidStays ==
  ASSUME CacheTypes, Follows, NEW key \in Int, NEW id \in 0..mined, Valid(key, id),
         cache = "list" => key \in Null..mined
  PROVE  Valid(key, id)'
<1>1. /\ mined \in Nat /\ UNCHANGED cache /\ \A i \in DOMAIN chain : chain[i] \in Int
      /\ \A i \in DOMAIN chain' : chain'[i] <= mined => i \in DOMAIN chain /\ chain[i] = chain'[i]
      /\ \A x \in 1..mined : OfChain(x) => OfChain(x)'
  BY BoundsAssumption DEF CacheTypes, Rising, Follows
<1>2. CASE cache = "list"
  <2>1. ASSUME key # 0, OnChain(key)'
        PROVE  id # 0 /\ OfChain(id)' /\ AboveTip(key, id)'
    <3>1. PICK h \in DOMAIN chain' : chain'[h] = key
      BY <2>1 DEF OnChain
    <3>2. OnChain(key)
      BY <1>1, <1>2, <3>1 DEF OnChain, Null
    <3>3. id # 0 /\ OfChain(id) /\ AboveTip(key, id)
      BY <1>2, <2>1, <3>2 DEF Valid
    <3>4. OfChain(id)'
      BY <1>1, <3>3
    <3>5. ASSUME NEW i \in DOMAIN chain', NEW j \in DOMAIN chain', chain'[i] = key, chain'[j] = id
          PROVE  i <= j
      <4>1. i \in DOMAIN chain /\ chain[i] = key /\ j \in DOMAIN chain /\ chain[j] = id
        BY <1>1, <1>2, <3>5 DEF Null
      <4> QED
        BY <3>3, <4>1 DEF AboveTip
    <3> QED
      BY <3>3, <3>4, <3>5 DEF AboveTip
  <2> QED
    BY <1>1, <1>2, <2>1 DEF Valid
<1>3. CASE cache # "list"
  BY <1>1, <1>3 DEF Valid
<1> QED
  BY <1>2, <1>3

\* An observer that has lost its block does not find it again.
LEMMA OffStays ==
  ASSUME CacheTypes, BlockIndexed \/ BlocksRolledBack, NEW seen \in Seen(mined), Off(seen)
  PROVE  Off(seen)'
<1>1. /\ chain \in Seq(1..MaxBlocks) /\ Len(chain) \in Nat /\ DOMAIN chain = 1..Len(chain) /\ mined \in Nat
      /\ \A i \in DOMAIN chain : chain[i] \in Int
      /\ seen # NoTip /\ seen.id \in 1..mined /\ seen.index \in Int /\ At(seen.index) # seen.id
  BY SeenOf, BoundsAssumption DEF CacheTypes, Rising, Off, Heights
<1>2. CASE BlockIndexed
  <2>1. /\ DOMAIN chain' = 1..(Len(chain) + 1) /\ chain'[Len(chain) + 1] = mined + 1
        /\ \A i \in DOMAIN chain : chain'[i] = chain[i]
    BY <1>1, <1>2, BoundsAssumption DEF BlockIndexed
  <2>2. At(seen.index)' # seen.id
    BY <1>1, <2>1 DEF At
  <2> QED
    BY <1>1, <2>2 DEF Off
<1>3. CASE BlocksRolledBack
  <2>1. PICK h \in DOMAIN chain : chain' = SubSeq(chain, 1, h - 1)
    BY <1>3 DEF BlocksRolledBack
  <2>2. DOMAIN chain' = 1..(h - 1) /\ \A i \in DOMAIN chain' : chain'[i] = chain[i] /\ i \in DOMAIN chain
    BY <1>1, <2>1
  <2>3. At(seen.index)' # seen.id
    BY <1>1, <2>2 DEF At
  <2> QED
    BY <1>1, <2>3 DEF Off
<1> QED
  BY <1>2, <1>3

\* A new block leaves the chain below it as it was.
LEMMA IndexedFollows ==
  ASSUME CacheTypes, BlockIndexed
  PROVE  Follows
<1>1. /\ chain \in Seq(1..MaxBlocks) /\ Len(chain) \in Nat /\ DOMAIN chain = 1..Len(chain) /\ mined \in Nat
      /\ requestTip \in Seen(mined) /\ lastTip \in Seen(mined)
  BY BoundsAssumption DEF CacheTypes, Rising
<1>2. /\ DOMAIN chain' = 1..(Len(chain) + 1) /\ chain'[Len(chain) + 1] = mined + 1
      /\ \A i \in DOMAIN chain : chain'[i] = chain[i]
      /\ UNCHANGED <<cache, requestTip, lastTip, slipped>>
  BY <1>1, BoundsAssumption DEF BlockIndexed
<1>3. Detectable => Detectable'
  BY <1>1, <1>2, OffStays DEF Detectable
<1>4. \A id : OnChain(id) => OnChain(id)'
  BY <1>1, <1>2 DEF OnChain
<1>5. \A id : OfChain(id) => OfChain(id)'
  BY <1>2, <1>3, <1>4 DEF OfChain, Excused
<1>6. \A i \in DOMAIN chain' : chain'[i] <= mined => i \in DOMAIN chain /\ chain[i] = chain'[i]
  BY <1>1, <1>2
<1> QED
  BY <1>2, <1>5, <1>6 DEF Follows

\* A block rolled back was under the last tip of an observer, which has lost
\* that tip with it, or above those of both.
LEMMA RolledBackFollows ==
  ASSUME CacheTypes, BlocksRolledBack
  PROVE  Follows
<1>1. /\ chain \in Seq(1..MaxBlocks) /\ Len(chain) \in Nat /\ DOMAIN chain = 1..Len(chain) /\ mined \in Nat
      /\ requestTip \in Seen(mined) /\ lastTip \in Seen(mined)
  BY BoundsAssumption DEF CacheTypes, Rising
<1>2. PICK h \in DOMAIN chain :
        /\ chain' = SubSeq(chain, 1, h - 1)
        /\ slipped' = slipped \cup {chain[i] : i \in {j \in h..Len(chain) : Unseen(j)}}
        /\ UNCHANGED <<mined, cache, entries, requestTip, lastTip, memo, req, poll>>
  BY DEF BlocksRolledBack
<1>3. DOMAIN chain' = 1..(h - 1) /\ \A i \in DOMAIN chain' : chain'[i] = chain[i] /\ i \in DOMAIN chain
  BY <1>1, <1>2
<1>4. Detectable => Detectable'
  BY <1>1, <1>2, OffStays DEF Detectable
<1>5. ASSUME NEW seen \in {requestTip, lastTip}, NEW i \in h..Len(chain),
             Off(seen) \/ seen.index >= i
      PROVE  Detectable'
  <2>1. CASE Off(seen)
    BY <1>4, <1>5, <2>1 DEF Detectable
  <2>2. CASE seen.index >= i
    <3>1. seen.index \in Int /\ seen # NoTip /\ seen.id \in 1..mined
      BY <1>1, <1>2, <1>5, <2>2, SeenOf DEF NoTip
    <3>2. At(seen.index)' = 0
      BY <1>1, <1>2, <1>3, <2>2, <3>1 DEF At
    <3>3. Off(seen)'
      BY <3>1, <3>2, <1>1 DEF Off
    <3> QED
      BY <1>2, <1>5, <3>3 DEF Detectable
  <2> QED
    BY <1>5, <2>1, <2>2
<1>6. ASSUME NEW id \in 1..mined, OfChain(id)
      PROVE  OfChain(id)'
  <2>1. CASE Excused(id)
    BY <1>2, <1>4, <2>1 DEF OfChain, Excused
  <2>2. CASE OnChain(id)
    <3>1. PICK i \in DOMAIN chain : chain[i] = id
      BY <2>2 DEF OnChain
    <3>2. CASE i < h
      BY <1>1, <1>3, <3>1, <3>2 DEF OfChain, OnChain
    <3>3. CASE i >= h /\ Unseen(i)
      BY <1>1, <1>2, <3>1, <3>3 DEF OfChain, Excused
    <3>4. CASE i >= h /\ ~ Unseen(i)
      <4>1. PICK seen \in {requestTip, lastTip} : ~ (~ Off(seen) /\ seen.index < i)
        BY <3>4 DEF Unseen
      <4>2. seen.index \in Int
        BY <1>1, <4>1, SeenOf
      <4>3. i \in h..Len(chain) /\ (Off(seen) \/ seen.index >= i)
        BY <1>1, <3>1, <3>4, <4>1, <4>2
      <4> QED
        BY <1>5, <4>1, <4>3 DEF OfChain, Excused
    <3> QED
      BY <1>1, <3>1, <3>2, <3>3, <3>4
  <2> QED
    BY <1>6, <2>1, <2>2 DEF OfChain
<1>7. \A i \in DOMAIN chain' : i \in DOMAIN chain /\ chain[i] = chain'[i]
  BY <1>3
<1> QED
  BY <1>2, <1>6, <1>7 DEF Follows

\* The answers of a retired generation are out of reach.
LEMMA Retires ==
  ASSUME entries' = {}, \A p \in Requests : ~ req'[p].live
  PROVE  AnswersValid'
  BY DEF AnswersValid

\* A step that follows the chain and keeps or drops answers leaves valid ones.
LEMMA AnswersStay ==
  ASSUME CacheTypes, AnswersValid, Follows, entries' \subseteq entries,
         \A p \in Requests : req'[p].pc = "store" /\ req'[p].live =>
           /\ req[p].pc = "store" /\ req[p].live
           /\ req'[p].key = req[p].key /\ req'[p].read = req[p].read
  PROVE  AnswersValid'
<1> SUFFICES ASSUME cache' # "action" PROVE AnswersValid'
  BY DEF AnswersValid
<1>1. cache # "action" /\ UNCHANGED cache /\ mined \in Nat
  BY BoundsAssumption DEF Follows, CacheTypes
<1>2. ASSUME NEW e \in entries'
      PROVE  Valid(e.key, e.id)'
  <2>1. /\ e \in entries /\ e.key \in Int /\ e.id \in 0..mined
        /\ cache = "list" => e.key \in Null..mined
    BY <1>1, <1>2 DEF CacheTypes, Lowest, Null
  <2>2. PICK key \in Int : key = e.key
    BY <2>1
  <2>3. PICK id \in 0..mined : id = e.id
    BY <2>1
  <2>4. Valid(key, id)
    BY <1>1, <2>1, <2>2, <2>3 DEF AnswersValid
  <2>5. Valid(key, id)'
    BY <2>1, <2>2, <2>4, ValidStays
  <2> QED
    BY <2>2, <2>3, <2>5
<1>3. ASSUME NEW p \in Requests, req'[p].pc = "store" /\ req'[p].live
      PROVE  Valid(req[p].key, req[p].read)'
  <2>1. /\ req[p] \in Reqs(mined) /\ req[p].pc = "store" /\ req[p].live
        /\ req'[p].key = req[p].key /\ req'[p].read = req[p].read
        /\ cache = "list" => req[p].key \in Null..mined
    BY <1>3 DEF CacheTypes
  <2>2. req[p].key \in Int /\ req[p].read \in 0..mined
    BY <1>1, <2>1 DEF Reqs, Heights, Null
  <2>3. PICK key \in Int : key = req[p].key
    BY <2>2
  <2>4. PICK id \in 0..mined : id = req[p].read
    BY <2>2
  <2>5. Valid(key, id)
    BY <1>1, <2>1, <2>3, <2>4 DEF AnswersValid
  <2>6. Valid(key, id)'
    BY <2>1, <2>3, <2>5, ValidStays
  <2>7. key = req'[p].key /\ id = req'[p].read
    BY <2>1, <2>3, <2>4
  <2> QED
    BY <2>6, <2>7
<1> QED
  BY <1>2, <1>3 DEF AnswersValid

\* What a verdict leaves of the answers in hand.
LEMMA HeldAnswers ==
  ASSUME CacheTypes, NEW reorg \in BOOLEAN, NEW p \in Requests
  PROVE  /\ Held(reorg)[p].pc = req[p].pc /\ Held(reorg)[p].key = req[p].key
         /\ Held(reorg)[p].read = req[p].read
         /\ Held(reorg)[p].live => req[p].live /\ ~ reorg
<1>1. req[p] \in Reqs(mined) /\ Held(reorg)[p] = [req[p] EXCEPT !.live = @ /\ ~ reorg]
  BY HeldTypes DEF CacheTypes
<1> QED
  BY <1>1 DEF Reqs

\* A judgement of the last tip that finds it standing finds its block in place.
LEMMA Standing ==
  ASSUME NEW m \in Nat, NEW prev \in Seen(m), NEW cur \in Seen(m),
         ~ NeedsRow(prev, cur), ~ Behind(prev, cur)
  PROVE  prev = NoTip \/ prev = cur
  BY DEF NeedsRow, Behind, Seen, NoTip, Heights

\* The poll retires what it finds replaced, and otherwise loses no evidence.
LEMMA PollAnswers ==
  ASSUME CacheTypes, AnswersValid, PollTip \/ PollJudges \/ PollRow \/ PollFails
  PROVE  AnswersValid'
<1>1. /\ UNCHANGED <<chain, mined, cache, requestTip, memo, slipped>>
      /\ mined \in Nat /\ lastTip \in Seen(mined) /\ poll \in Polls(mined)
  BY BoundsAssumption DEF PollTip, PollJudges, PollRow, PollFails, chainVars, CacheTypes
<1>2. ASSUME Off(lastTip) => lastTip' = lastTip
      PROVE  Follows
  <2>1. Detectable => Detectable'
    BY <1>1, <1>2 DEF Detectable, Off, At
  <2>2. \A id : OfChain(id) => OfChain(id)'
    BY <1>1, <2>1 DEF OfChain, Excused, OnChain
  <2> QED
    BY <1>1, <2>2 DEF Follows
<1>3. ASSUME NEW reorg \in BOOLEAN, PollConcludes(reorg, poll.cur),
             ~ reorg => (Off(lastTip) => lastTip = poll.cur)
      PROVE  AnswersValid'
  <2>1. entries' = Kept(reorg) /\ req' = Held(reorg) /\ lastTip' = poll.cur
    BY <1>3 DEF PollConcludes
  <2>2. CASE reorg
    BY <2>1, <2>2, HeldAnswers, Retires DEF Kept
  <2>3. CASE ~ reorg
    <3>1. Follows
      BY <1>2, <1>3, <2>1, <2>3
    <3>2. entries' \subseteq entries
      BY <2>1 DEF Kept
    <3> QED
      BY <2>1, <3>1, <3>2, HeldAnswers, AnswersStay
  <2> QED
    BY <2>2, <2>3
<1>4. CASE UNCHANGED <<entries, lastTip, req>>
  BY <1>2, <1>4, AnswersStay
<1>5. CASE PollJudges /\ ~ NeedsRow(lastTip, poll.cur)
  <2>1. PollConcludes(Behind(lastTip, poll.cur), poll.cur)
    BY <1>5 DEF PollJudges
  <2>2. Behind(lastTip, poll.cur) \in BOOLEAN
    BY DEF Behind
  <2>3. ~ Behind(lastTip, poll.cur) => lastTip = NoTip \/ lastTip = poll.cur
    BY <1>1, <1>5, Standing DEF Polls
  <2> QED
    BY <1>3, <2>1, <2>2, <2>3 DEF Off
<1>6. CASE PollRow
  <2>1. PollConcludes(RowReplaced(poll.prev), poll.cur) /\ poll.prev = lastTip
    BY <1>6 DEF PollRow, CacheTypes
  <2>2. RowReplaced(poll.prev) \in BOOLEAN
    BY DEF RowReplaced
  <2>3. ~ RowReplaced(poll.prev) => ~ Off(lastTip)
    BY <2>1 DEF RowReplaced, Off
  <2> QED
    BY <1>3, <2>1, <2>2, <2>3
<1> QED
  BY <1>4, <1>5, <1>6 DEF PollTip, PollJudges, PollFails

\* So does the probe of a request; a verdict against a tip that is no longer
\* the last lets what that one saw slip.
LEMMA ProbeAnswers ==
  ASSUME CacheTypes, AnswersValid, NEW r \in Requests, ProbeJudges(r) \/ ProbeRow(r)
  PROVE  AnswersValid'
<1>1. /\ UNCHANGED <<chain, mined, cache, lastTip, poll>>
      /\ mined \in Nat /\ requestTip \in Seen(mined)
      /\ req \in [Requests -> Reqs(mined)] /\ req[r] \in Reqs(mined) /\ req[r].cur \in Seen(mined)
  BY BoundsAssumption DEF ProbeJudges, ProbeRow, chainVars, CacheTypes, Reqs
<1>2. ASSUME slipped \subseteq slipped',
             Off(requestTip) => requestTip' = requestTip \/ Replaced \subseteq slipped'
      PROVE  Follows
  <2>1. Off(requestTip) /\ requestTip' = requestTip => Off(requestTip)'
    BY <1>1 DEF Off, At
  <2>2. Off(lastTip) => Off(lastTip)'
    BY <1>1 DEF Off, At
  <2>3. \A id : OnChain(id) => OnChain(id)'
    BY <1>1 DEF OnChain
  <2>4. ASSUME NEW id \in 1..mined, OfChain(id) PROVE OfChain(id)'
    <3>1. CASE OnChain(id)
      BY <2>3, <3>1 DEF OfChain
    <3>2. CASE id \in slipped \/ Off(lastTip)
      BY <1>2, <2>2, <3>2 DEF OfChain, Excused, Detectable
    <3>3. CASE ~ OnChain(id) /\ Off(requestTip)
      <4>1. id \in Replaced
        BY <3>3 DEF Replaced
      <4> QED
        BY <1>2, <2>1, <3>3, <4>1 DEF OfChain, Excused, Detectable
    <3> QED
      BY <2>4, <3>1, <3>2, <3>3 DEF OfChain, Excused, Detectable
  <2> QED
    BY <1>1, <2>4 DEF Follows
<1>3. ASSUME NEW prev, NEW reorg \in BOOLEAN, ProbeConcludes(r, prev, reorg),
             ~ reorg /\ prev = requestTip => (Off(requestTip) => requestTip' = requestTip)
      PROVE  AnswersValid'
  <2>1. entries' = Kept(reorg) /\ req' = [Held(reorg) EXCEPT ![r] = Looking(req[r].cur.id)]
    BY <1>3 DEF ProbeConcludes
  <2>2. /\ req'[r].pc = "look" /\ ~ req'[r].live
        /\ \A p \in Requests \ {r} : req'[p] = Held(reorg)[p]
    BY <2>1, HeldTypes DEF Looking, IdleReq
  <2>3. CASE reorg
    BY ZenonT(60), <2>1, <2>2, <2>3, HeldAnswers, Retires DEF Kept
  <2>4. CASE ~ reorg
    <3>1. slipped \subseteq slipped' /\ (prev # requestTip /\ Off(requestTip) => Replaced \subseteq slipped')
      BY <1>3, <2>4 DEF ProbeConcludes, Slip
    <3>2. Follows
      BY <1>2, <1>3, <2>4, <3>1
    <3>3. entries' \subseteq entries
      BY <2>1 DEF Kept
    <3>4. ASSUME NEW p \in Requests, req'[p].pc = "store" /\ req'[p].live
          PROVE  /\ req[p].pc = "store" /\ req[p].live
                 /\ req'[p].key = req[p].key /\ req'[p].read = req[p].read
      BY <2>2, <3>4, HeldAnswers
    <3> QED
      BY <3>2, <3>3, <3>4, AnswersStay
  <2> QED
    BY <2>3, <2>4
<1>4. CASE ProbeJudges(r) /\ req[r].cur # NoTip /\ NeedsRow(requestTip, req[r].cur)
  <2>1. /\ req' = [req EXCEPT ![r].pc = "row", ![r].prev = requestTip]
        /\ UNCHANGED <<entries, requestTip, slipped>>
    BY <1>4 DEF ProbeJudges
  <2>2. req'[r].pc = "row" /\ \A p \in Requests \ {r} : req'[p] = req[p]
    BY <1>1, <2>1 DEF Reqs
  <2> QED
    BY <1>2, <2>1, <2>2, AnswersStay
<1>5. CASE ProbeJudges(r) /\ ~ (req[r].cur # NoTip /\ NeedsRow(requestTip, req[r].cur))
  <2> DEFINE reorg == req[r].cur # NoTip /\ Behind(requestTip, req[r].cur)
  <2>1. ProbeConcludes(r, requestTip, reorg) /\ reorg \in BOOLEAN
    BY <1>5 DEF ProbeJudges
  <2>2. requestTip' = IF req[r].cur = NoTip THEN requestTip ELSE req[r].cur
    BY <2>1 DEF ProbeConcludes
  <2>3. ~ reorg => req[r].cur = NoTip \/ requestTip = NoTip \/ requestTip = req[r].cur
    BY <1>1, <1>5, Standing
  <2>4. ~ reorg => (Off(requestTip) => requestTip' = requestTip)
    BY <2>2, <2>3 DEF Off
  <2> HIDE DEF reorg
  <2> QED
    BY <1>3, <2>1, <2>4
<1>6. CASE ProbeRow(r)
  <2>1. ProbeConcludes(r, req[r].prev, RowReplaced(req[r].prev))
    BY <1>6 DEF ProbeRow
  <2>2. RowReplaced(req[r].prev) \in BOOLEAN
    BY DEF RowReplaced
  <2>3. ~ RowReplaced(req[r].prev) /\ req[r].prev = requestTip => ~ Off(requestTip)
    BY DEF RowReplaced, Off
  <2> QED
    BY <1>3, <2>1, <2>2, <2>3
<1> QED
  BY <1>4, <1>5, <1>6

\* What is read off the chain is valid: the block at the height, or the tip,
\* which no block of the chain is above.
LEMMA ReadIsValid ==
  ASSUME CacheTypes, NEW key \in Int, NEW id \in Int,
         id = IF cache = "list" THEN Tip.id ELSE At(key)
  PROVE  Valid(key, id)
<1>1. /\ chain \in Seq(1..MaxBlocks) /\ Len(chain) \in Nat /\ DOMAIN chain = 1..Len(chain)
      /\ \A i \in DOMAIN chain : chain[i] \in 1..MaxBlocks
      /\ \A i, j \in DOMAIN chain : i < j => chain[i] < chain[j]
  BY BoundsAssumption DEF CacheTypes, Rising
<1>2. CASE cache = "list"
  <2> SUFFICES ASSUME key # 0, OnChain(key)
               PROVE  id # 0 /\ OfChain(id) /\ AboveTip(key, id)
    BY <1>2 DEF Valid
  <2>1. chain # <<>> /\ Len(chain) \in DOMAIN chain
    BY <1>1 DEF OnChain
  <2>2. id = chain[Len(chain)]
    BY <1>2, <2>1 DEF Tip
  <2>3. id # 0 /\ OfChain(id)
    BY <1>1, <2>1, <2>2 DEF OfChain, OnChain
  <2>4. ASSUME NEW i \in DOMAIN chain, NEW j \in DOMAIN chain, chain[j] = id
        PROVE  i <= j
    <3>1. ~ (j < Len(chain))
      BY <1>1, <2>1, <2>2, <2>4
    <3> QED
      BY <1>1, <3>1
  <2> QED
    BY <2>3, <2>4 DEF AboveTip
<1>3. CASE cache # "list"
  BY <1>3 DEF Valid, OfChain, OnChain, At
<1> QED
  BY <1>2, <1>3

\* A request keeps a valid answer in hand and stores it under its key.
LEMMA ReaderAnswers ==
  ASSUME CacheTypes, AnswersValid, NEW r \in Requests,
         \/ Arrives(r) \/ ProbeTip(r) \/ ProbeFails(r) \/ Look(r) \/ Read(r) \/ Store(r)
  PROVE  AnswersValid'
<1>1. /\ UNCHANGED <<chain, mined, cache, requestTip, lastTip, poll, slipped>>
      /\ req \in [Requests -> Reqs(mined)] /\ req[r] \in Reqs(mined) /\ mined \in Nat
      /\ \A p \in Requests \ {r} : req'[p] = req[p]
  <2>1. UNCHANGED <<chain, mined, cache, requestTip, lastTip, poll, slipped>>
    BY DEF Arrives, ProbeTip, ProbeFails, Look, Read, Store, chainVars
  <2>2. req \in [Requests -> Reqs(mined)] /\ req[r] \in Reqs(mined) /\ mined \in Nat
    BY BoundsAssumption DEF CacheTypes
  <2>3. \E q : req' = [req EXCEPT ![r] = q]
    <3>1. CASE Look(r)
      BY ZenonT(60), <2>2, <3>1 DEF Look
    <3> QED
      BY <2>2, <3>1 DEF Arrives, ProbeTip, ProbeFails, Read, Store
  <2>4. \A p \in Requests \ {r} : req'[p] = req[p]
    BY <2>2, <2>3
  <2> QED
    BY <2>1, <2>2, <2>4
<1>2. \A key, id : Valid(key, id) => Valid(key, id)'
  BY <1>1 DEF Valid, OfChain, OnChain, Excused, Detectable, Off, At, AboveTip
<1> SUFFICES ASSUME cache' # "action" PROVE AnswersValid'
  BY DEF AnswersValid
<1>3. /\ cache # "action"
      /\ \A e \in entries : Valid(e.key, e.id)
      /\ \A p \in Requests : req[p].pc = "store" /\ req[p].live => Valid(req[p].key, req[p].read)
  BY <1>1 DEF AnswersValid
<1>4. ASSUME \A e \in entries' : Valid(e.key, e.id),
             req'[r].pc = "store" /\ req'[r].live => Valid(req'[r].key, req'[r].read)
      PROVE  AnswersValid'
  <2>1. \A e \in entries' : \E key, id : key = e.key /\ id = e.id /\ Valid(key, id)'
    BY <1>2, <1>4
  <2>2. ASSUME NEW p \in Requests, req'[p].pc = "store" /\ req'[p].live
        PROVE  Valid(req'[p].key, req'[p].read)
    BY <1>1, <1>3, <1>4, <2>2
  <2>3. ASSUME NEW p \in Requests, req'[p].pc = "store" /\ req'[p].live
        PROVE  \E key, id : key = req'[p].key /\ id = req'[p].read /\ Valid(key, id)'
    BY <1>2, <2>2, <2>3
  <2> QED
    BY <2>1, <2>3 DEF AnswersValid
<1>5. CASE Arrives(r)
  <2>1. req'[r].pc = "probe" /\ UNCHANGED entries
    BY <1>1, <1>5 DEF Arrives, Reqs
  <2> QED
    BY <1>3, <1>4, <2>1
<1>6. CASE ProbeTip(r)
  <2>1. req'[r].pc = "tip" /\ UNCHANGED entries
    BY <1>1, <1>6 DEF ProbeTip, Reqs
  <2> QED
    BY <1>3, <1>4, <2>1
<1>7. CASE ProbeFails(r)
  <2>1. req'[r].pc = "look" /\ UNCHANGED entries
    BY <1>1, <1>7 DEF ProbeFails, Looking, IdleReq
  <2> QED
    BY <1>3, <1>4, <2>1
<1>8. CASE Look(r)
  <2>1. req'[r].pc # "store" /\ UNCHANGED entries
    <3>1. PICK key : \/ req' = [req EXCEPT ![r] = IdleReq]
                     \/ req' = [req EXCEPT ![r].pc = "read", ![r].key = key, ![r].live = TRUE]
      BY <1>8 DEF Look
    <3>2. req'[r].pc \in {"idle", "read"}
      BY <1>1, <3>1 DEF IdleReq, Reqs
    <3> QED
      BY <1>8, <3>2 DEF Look
  <2> QED
    BY <1>3, <1>4, <2>1
<1>9. CASE Read(r)
  <2>1. UNCHANGED entries
    BY <1>9 DEF Read
  <2>2. PICK key \in Int : key = req[r].key
    BY <1>1 DEF Reqs, Heights, Null
  <2>3. PICK id \in Int : id = IF cache = "list" THEN Tip.id ELSE At(key)
    BY TipSeen
  <2>4. req'[r].key = key /\ req'[r].read = id
    BY <1>1, <1>9, <2>2, <2>3 DEF Read, Reqs
  <2>5. Valid(key, id)
    BY <2>3, ReadIsValid
  <2> QED
    BY <1>3, <1>4, <2>1, <2>4, <2>5
<1>10. CASE Store(r)
  <2> DEFINE e == [key |-> req[r].key, id |-> req[r].read]
  <2>1. req'[r].pc = "idle" /\ req[r].pc = "store"
    BY <1>1, <1>10 DEF Store, IdleReq
  <2>2. CASE UNCHANGED entries
    BY <1>3, <1>4, <2>1, <2>2
  <2>3. CASE Current(r) /\ \E kept \in Room(e) : entries' = kept \cup {e}
    <3>1. Valid(e.key, e.id)
      BY <1>3, <2>1, <2>3 DEF Current
    <3>2. entries' \subseteq entries \cup {e}
      BY <2>3 DEF Room, kSubset
    <3>3. \A x \in entries' : Valid(x.key, x.id)
      BY <1>3, <3>1, <3>2
    <3> QED
      BY <1>4, <2>1, <3>3
  <2> QED
    BY <1>10, <2>2, <2>3 DEF Store
<1> QED
  BY <1>5, <1>6, <1>7, <1>8, <1>9, <1>10

\* Every step keeps what is kept valid.
LEMMA TipStep == TipInv /\ [Next]_vars => TipInv'
<1> SUFFICES ASSUME CacheTypes, AnswersValid, [Next]_vars
             PROVE  TipInv'
  BY DEF TipInv
<1>1. CacheTypes'
  BY CacheTypesStep
<1>2. CASE BlockIndexed \/ BlocksRolledBack
  <2>1. Follows
    BY <1>2, IndexedFollows, RolledBackFollows
  <2>2. UNCHANGED <<entries, req>>
    BY <1>2 DEF BlockIndexed, BlocksRolledBack
  <2> QED
    BY <1>1, <2>1, <2>2, AnswersStay DEF TipInv
<1>3. CASE MemoExpires \/ UNCHANGED vars
  BY <1>1, <1>3 DEF TipInv, AnswersValid, Valid, OfChain, OnChain, Excused, Detectable, Off, At,
                    AboveTip, MemoExpires, vars, chainVars
<1>4. CASE PollTip \/ PollJudges \/ PollRow \/ PollFails
  BY <1>1, <1>4, PollAnswers DEF TipInv
<1>5. ASSUME NEW r \in Requests,
             \/ Arrives(r) \/ ProbeTip(r) \/ ProbeJudges(r) \/ ProbeRow(r)
             \/ ProbeFails(r) \/ Look(r) \/ Read(r) \/ Store(r)
      PROVE  TipInv'
  BY <1>1, <1>5, ProbeAnswers, ReaderAnswers DEF TipInv
<1> QED
  BY <1>2, <1>3, <1>4, <1>5 DEF Next

\* A valid answer under a live key follows the tip.
LEMMA ValidFollows == TipInv => AnswersFollowTip
<1> SUFFICES ASSUME CacheTypes, AnswersValid PROVE NoStaleId /\ ListOfTip
  BY DEF TipInv, AnswersFollowTip
<1>1. NoStaleId
  BY DEF NoStaleId, Retired, AnswersValid, Valid, OfChain, Excused, CacheTypes, Lowest
<1>2. ASSUME cache = "list", NEW e \in entries, e.key # 0, OnChain(e.key), OnChain(e.id)
      PROVE  HeightOf(e.id) >= HeightOf(e.key)
  <2>1. /\ DOMAIN chain = 1..Len(chain) /\ Len(chain) \in Nat
        /\ AboveTip(e.key, e.id)
    BY <1>2 DEF CacheTypes, Rising, AnswersValid, Valid
  <2>2. HeightOf(e.id) \in DOMAIN chain /\ chain[HeightOf(e.id)] = e.id
    BY <1>2 DEF HeightOf, OnChain
  <2>3. HeightOf(e.key) \in DOMAIN chain /\ chain[HeightOf(e.key)] = e.key
    BY <1>2 DEF HeightOf, OnChain
  <2>4. HeightOf(e.key) <= HeightOf(e.id)
    BY <2>1, <2>2, <2>3 DEF AboveTip
  <2> QED
    BY <2>1, <2>2, <2>3, <2>4
<1>3. ListOfTip
  BY <1>2 DEF ListOfTip, AnswersValid, Valid, OfChain, Excused
<1> QED
  BY <1>1, <1>3

\* No id and no list is served of a chain that is gone, unless the block it was
\* read of came and went above the tips of both observers, or was let slip by
\* a verdict against a tip no longer the last: however many requests probe, read
\* and store beside each other and the poll (cache.js:140, cache.js:210).
THEOREM AnswersFollowTheTip == Spec => []AnswersFollowTip
<1>1. Init => TipInv
  BY TipInitial
<1>2. TipInv /\ [Next]_vars => TipInv'
  BY TipStep
<1>3. TipInv => AnswersFollowTip
  BY ValidFollows
<1> QED
  BY <1>1, <1>2, <1>3, PTL DEF Spec

\* Every reachable state of the caches, the observers and the requests has its
\* type: nothing seen, kept or in hand is of a block not mined.
THEOREM TipTypes == Spec => []TypeOK
<1>1. TipInv => TypeOK
  <2> SUFFICES ASSUME CacheTypes PROVE TypeOK
    BY DEF TipInv
  <2>1. mined \in Nat /\ mined <= MaxBlocks /\ MaxBlocks \in Nat /\ MaxHeight \in Nat
    BY BoundsAssumption DEF CacheTypes
  <2>2. \A s \in Seen(mined) : s \in Tips
    <3>1. NoTip \in Tips
      BY <2>1 DEF Tips, NoTip
    <3>2. \A s \in [index : Heights, id : 1..mined] : s \in Tips
      BY <2>1 DEF Tips, Heights
    <3> QED
      BY <3>1, <3>2 DEF Seen
  <2>3. {requestTip, lastTip, poll.cur, poll.prev} \subseteq Tips
    <3>1. poll \in Polls(mined) /\ requestTip \in Seen(mined) /\ lastTip \in Seen(mined)
      BY DEF CacheTypes
    <3>2. poll.cur \in Seen(mined) /\ poll.prev \in Seen(mined)
      BY <3>1 DEF Polls
    <3> QED
      BY <2>2, <3>1, <3>2
  <2>4. \A r \in Requests : req[r].cur \in Tips /\ req[r].key \in Heights \cup (Null..MaxBlocks)
    <3> SUFFICES ASSUME NEW r \in Requests
                 PROVE  req[r].cur \in Tips /\ req[r].key \in Heights \cup (Null..MaxBlocks)
      OBVIOUS
    <3>1. req[r] \in Reqs(mined)
      BY DEF CacheTypes
    <3>2. req[r].cur \in Seen(mined) /\ req[r].key \in Heights \cup (Null..mined)
      BY <3>1 DEF Reqs
    <3> QED
      BY <2>1, <2>2, <3>2 DEF Null
  <2>5. entries \subseteq [key : 0..MaxBlocks, id : Lowest..MaxBlocks]
    BY <2>1 DEF CacheTypes, Lowest
  <2>6. chain \in Seq(1..MaxBlocks) /\ Len(chain) <= MaxHeight
    BY DEF CacheTypes, Rising
  <2> QED
    BY <2>3, <2>4, <2>5, <2>6 DEF TypeOK, CacheTypes, Lowest
<1>2. Init => TipInv
  BY TipInitial
<1>3. TipInv /\ [Next]_vars => TipInv'
  BY TipStep
<1> QED
  BY <1>1, <1>2, <1>3, PTL DEF Spec

-----------------------------------------------------------------------------
(* The gate, the pool and the shutdown drain.                              *)

(***************************************************************************)
(* Types.                                                                  *)
(***************************************************************************)

\* A reader that waits for a statement has begun one.
Begun == \A a \in Readers : job[a].pc \in Reading => job[a].n # 0

LEMMA InitTypes == RequestInit => RequestTypeOK /\ Begun
BY ReadersAssumption, LimitsAssumption
DEF RequestInit, RequestTypeOK, Begun, Job, Idle, Reading, Readers, Calls

LEMMA NextTypes ==
  RequestTypeOK /\ Begun /\ [RequestNext]_requestVars => RequestTypeOK'
<1> SUFFICES ASSUME RequestTypeOK, Begun, [RequestNext]_requestVars PROVE RequestTypeOK'
    OBVIOUS
<1> USE ReadersAssumption, LimitsAssumption
        DEF RequestTypeOK, gateVars, poolVars
<1>r. Clients \subseteq Readers /\ Poll \in Readers
  BY DEF Readers
<1>1. ASSUME NEW r \in Clients, Connects(r)
      PROVE  sock' \in [Clients -> {"none", "busy", "kept", "gone"}]
  BY <1>1 DEF Connects
<1>2. ASSUME NEW r \in Clients PROVE Released(r) \in Int
  BY DEF Released
<1>3. ASSUME NEW a \in Readers, NEW pc \in {"idle", "run", "over"} \cup Reading, Goes(a, pc)
      PROVE  job' \in [Readers -> Job]
  BY <1>3 DEF Goes, Job
<1>4. ASSUME NEW a \in Readers, ReadFails(a)
      PROVE  job' \in [Readers -> Job]
  BY <1>4, <1>3 DEF ReadFails
<1>5. ASSUME NEW a \in Readers, job[a].n # 0 PROVE Call(a) \in Calls
  <2>1. job[a] \in Job
    OBVIOUS
  <2>2. job[a].n \in 1..MaxReads
    BY <2>1, <1>5 DEF Job
  <2> QED BY <2>2 DEF Call, Calls
<1>6. ASSUME NEW r \in Clients, Admitted(r) PROVE RequestTypeOK'
  <2>1. job' \in [Readers -> Job]
    BY <1>6, <1>r DEF Admitted, Job
  <2> QED BY <1>6, <1>1, <2>1 DEF Admitted
<1>7. ASSUME NEW r \in Clients, Shed(r) PROVE RequestTypeOK'
  BY <1>7, <1>1 DEF Shed
<1>8. ASSUME NEW r \in Clients, AnswerSent(r) \/ ResponseCloses(r) \/ Aborted(r)
      PROVE  RequestTypeOK'
  BY <1>8, <1>2 DEF AnswerSent, ResponseCloses, Aborted, Release
<1>9. ASSUME NEW r \in Clients, KeepAliveEnds(r) PROVE RequestTypeOK'
  BY <1>9 DEF KeepAliveEnds
<1>10. ASSUME NEW r \in Clients, HandlerEnds(r) PROVE RequestTypeOK'
  BY <1>10, <1>3, <1>r DEF HandlerEnds
<1>11. ASSUME NEW a \in Readers, Statement(a) PROVE RequestTypeOK'
  <2>1. job[a] \in Job /\ job[a].n + 1 \in 1..MaxReads
    BY <1>11 DEF Statement, Job
  <2>2. job' \in [Readers -> Job] /\ <<a, job[a].n + 1>> \in Calls
    BY <1>11, <2>1 DEF Statement, Job, Calls, Reading
  <2> QED BY <1>11, <2>2 DEF Statement
<1>12. ASSUME NEW a \in Readers, DeadlinePasses(a) PROVE RequestTypeOK'
  <2>1. job' \in [Readers -> Job]
    BY ZenonT(60), <1>12 DEF DeadlinePasses, Job
  <2> QED BY <1>12, <2>1 DEF DeadlinePasses
<1>13. ASSUME NEW a \in Readers, SleepEnds(a) PROVE RequestTypeOK'
  <2>1. Call(a) \in Calls /\ job' \in [Readers -> Job]
    BY <1>13, <1>5 DEF SleepEnds, Begun, Goes, Job, Reading
  <2> QED BY <1>13, <2>1 DEF SleepEnds
<1>14. ASSUME NEW a \in Readers, QueryEnds(a) \/ TimesOut(a) PROVE RequestTypeOK'
  BY <1>14, <1>3, <1>4 DEF QueryEnds, TimesOut
<1>15. ASSUME NEW call \in pending, PoolGrants(call) PROVE RequestTypeOK'
  <2>1. call \in Calls /\ call[1] \in Readers
    BY DEF Calls
  <2>2. Goes(call[1], "query") => job' \in [Readers -> Job]
    BY <1>3, <2>1 DEF Reading
  <2> QED BY <1>15, <2>1, <2>2 DEF PoolGrants, LateHeld
<1>16. ASSUME NEW call \in pending, PoolRefuses(call) PROVE RequestTypeOK'
  <2>1. call[1] \in Readers /\ job[call[1]] \in Job
    BY DEF Calls
  <2>2. job' \in [Readers -> Job]
    BY <1>16, <2>1, <1>4 DEF PoolRefuses, Job, Reading
  <2> QED BY <1>16, <2>2 DEF PoolRefuses
<1>17. CASE PassBegins \/ PassEnds
  BY <1>17, <1>3, <1>r DEF PassBegins, PassEnds
<1>18. CASE Signalled \/ ListenersClose \/ PoolsEnd \/ CleanExit \/ HardExit
  BY <1>18 DEF Signalled, ListenersClose, PoolsEnd, CleanExit, HardExit
<1>19. CASE UNCHANGED requestVars
  BY <1>19 DEF requestVars
<1> QED
  BY <1>6, <1>7, <1>8, <1>9, <1>10, <1>11, <1>12, <1>13, <1>14, <1>15, <1>16,
     <1>17, <1>18, <1>19 DEF RequestNext

LEMMA NextBegun == RequestTypeOK /\ Begun /\ [RequestNext]_requestVars => Begun'
<1> SUFFICES ASSUME RequestTypeOK, Begun, [RequestNext]_requestVars,
                    NEW b \in Readers, job'[b].pc \in Reading
             PROVE  job'[b].n # 0
    BY DEF Begun
<1> USE ReadersAssumption, LimitsAssumption
<1>r. Clients \subseteq Readers /\ Poll \in Readers
  BY DEF Readers
<1>j. job \in [Readers -> Job] /\ job[b] \in Job
  BY DEF RequestTypeOK
<1>0. ASSUME job' = job PROVE job'[b].n # 0
  BY <1>0 DEF Begun
<1>1. ASSUME NEW a \in Readers, NEW pc, Goes(a, pc), pc \in Reading => job[a].n # 0
      PROVE  job'[b].n # 0
  BY <1>1, <1>j DEF Goes, Begun, Job
<1>2. ASSUME NEW a \in Readers, ReadFails(a) PROVE job'[b].n # 0
  BY <1>2, <1>1 DEF ReadFails, Reading
<1>3. ASSUME NEW r \in Clients, Admitted(r) PROVE job'[b].n # 0
  BY <1>3, <1>r, <1>j DEF Admitted, Job, Begun, Reading
<1>4. ASSUME NEW a \in Readers, Statement(a) PROVE job'[b].n # 0
  BY <1>4, <1>j DEF Statement, Job, Begun, Reading
<1>5. ASSUME NEW a \in Readers, DeadlinePasses(a) PROVE job'[b].n # 0
  BY <1>5, <1>j DEF DeadlinePasses, Job, Begun
<1>6. ASSUME NEW a \in Readers, SleepEnds(a) PROVE job'[b].n # 0
  BY <1>6, <1>1 DEF SleepEnds, Begun, Reading
<1>7. ASSUME NEW a \in Readers, QueryEnds(a) \/ TimesOut(a) PROVE job'[b].n # 0
  BY <1>7, <1>1, <1>2 DEF QueryEnds, TimesOut, Reading
<1>8. ASSUME NEW call \in pending, PoolGrants(call) PROVE job'[b].n # 0
  <2>1. call[1] \in Readers
    BY DEF RequestTypeOK, Calls
  <2>2. Waits(call) => job[call[1]].n # 0
    BY <2>1 DEF Waits, Begun, Reading
  <2> QED BY <1>8, <2>1, <2>2, <1>0, <1>1 DEF PoolGrants
<1>9. ASSUME NEW call \in pending, PoolRefuses(call) PROVE job'[b].n # 0
  <2>1. call[1] \in Readers
    BY DEF RequestTypeOK, Calls
  <2>2. Waits(call) => job[call[1]].n # 0
    BY <2>1 DEF Waits, Begun, Reading
  <2>3. CASE ~Waits(call)
    BY <1>9, <2>3, <1>0 DEF PoolRefuses
  <2>4. CASE Waits(call) /\ ReadFails(call[1])
    BY <2>1, <2>4, <1>2
  <2>5. CASE /\ Waits(call)
             /\ job' = [job EXCEPT ![call[1]].pc = "sleep", ![call[1]].tries = @ + 1]
    BY <2>1, <2>2, <2>5, <1>j DEF Begun, Job
  <2> QED BY <1>9, <2>3, <2>4, <2>5 DEF PoolRefuses
<1>10. ASSUME NEW r \in Clients, HandlerEnds(r) PROVE job'[b].n # 0
  BY <1>10, <1>1, <1>r DEF HandlerEnds, Reading
<1>11. CASE PassBegins \/ PassEnds
  BY <1>11, <1>1, <1>r DEF PassBegins, PassEnds, Reading
<1>12. ASSUME NEW r \in Clients,
              Shed(r) \/ AnswerSent(r) \/ ResponseCloses(r) \/ Aborted(r) \/ KeepAliveEnds(r)
       PROVE  job'[b].n # 0
  BY <1>12, <1>0 DEF Shed, AnswerSent, ResponseCloses, Aborted, KeepAliveEnds, poolVars
<1>13. CASE Signalled \/ ListenersClose \/ PoolsEnd \/ CleanExit \/ HardExit
  BY <1>13, <1>0 DEF Signalled, ListenersClose, PoolsEnd, CleanExit, HardExit, poolVars
<1>14. CASE UNCHANGED requestVars
  BY <1>14, <1>0 DEF requestVars, poolVars
<1> QED
  BY <1>3, <1>4, <1>5, <1>6, <1>7, <1>8, <1>9, <1>10, <1>11, <1>12, <1>13, <1>14
  DEF RequestNext

LEMMA TypesHold == RequestSpec => [](RequestTypeOK /\ Begun)
BY InitTypes, NextTypes, NextBegun, PTL DEF RequestSpec

\* A request that has not arrived reads nothing.
Unserved == \A r \in Clients : sock[r] = "none" => job[r].pc = "idle"

LEMMA InitUnserved == RequestInit => Unserved
BY DEF RequestInit, Unserved, Readers, Idle

LEMMA NextUnserved == RequestTypeOK /\ Unserved /\ [RequestNext]_requestVars => Unserved'
<1> SUFFICES ASSUME RequestTypeOK, Unserved, [RequestNext]_requestVars,
                    NEW k \in Clients, sock'[k] = "none"
             PROVE  job'[k].pc = "idle"
    BY DEF Unserved
<1>r. Clients \subseteq Readers /\ Poll \in Readers /\ Poll # k
  BY ReadersAssumption DEF Readers
<1>j. job \in [Readers -> Job] /\ sock \in [Clients -> {"none", "busy", "kept", "gone"}]
  BY DEF RequestTypeOK
<1>0. ASSUME sock[k] = "none", job' = job PROVE job'[k].pc = "idle"
  BY <1>0 DEF Unserved
\* Whoever moves on was not idle, so it is not k.
<1>1. ASSUME NEW a \in Readers, sock' = sock, job[a].pc # "idle" \/ a = Poll,
             \E new : job' = [job EXCEPT ![a] = new]
      PROVE  job'[k].pc = "idle"
  BY <1>1, <1>r, <1>j DEF Unserved
<1>2. ASSUME NEW a \in Readers, sock' = sock, job[a].pc # "idle" \/ a = Poll,
             NEW pc, Goes(a, pc)
      PROVE  job'[k].pc = "idle"
  BY <1>2, <1>1 DEF Goes
<1>3. ASSUME NEW a \in Readers, sock' = sock, job[a].pc # "idle", ReadFails(a)
      PROVE  job'[k].pc = "idle"
  BY <1>3, <1>2 DEF ReadFails
<1>4. ASSUME NEW r \in Clients, Connects(r)
      PROVE  sock[k] = "none" /\ (sock'[r] \in {"busy", "kept"} => r # k)
  BY <1>4, <1>j DEF Connects
<1>5. ASSUME NEW r \in Clients, Admitted(r) PROVE job'[k].pc = "idle"
  BY <1>5, <1>4, <1>r, <1>j DEF Admitted, Unserved
<1>6. ASSUME NEW r \in Clients,
             Shed(r) \/ AnswerSent(r) \/ ResponseCloses(r) \/ Aborted(r) \/ KeepAliveEnds(r)
      PROVE  job'[k].pc = "idle"
  BY <1>6, <1>0, <1>4, <1>j
  DEF Shed, AnswerSent, ResponseCloses, Aborted, KeepAliveEnds, poolVars
<1>7. ASSUME NEW a \in Readers, Statement(a) PROVE job'[k].pc = "idle"
  BY <1>7, <1>1 DEF Statement, gateVars
<1>8. ASSUME NEW a \in Readers, DeadlinePasses(a) PROVE job'[k].pc = "idle"
  BY <1>8, <1>1 DEF DeadlinePasses, gateVars, Reading
<1>9. ASSUME NEW a \in Readers, SleepEnds(a) PROVE job'[k].pc = "idle"
  BY <1>9, <1>2 DEF SleepEnds, gateVars
<1>10. ASSUME NEW a \in Readers, QueryEnds(a) \/ TimesOut(a) PROVE job'[k].pc = "idle"
  BY <1>10, <1>2, <1>3 DEF QueryEnds, TimesOut, gateVars
<1>11. ASSUME NEW call \in pending, PoolGrants(call) \/ PoolRefuses(call)
       PROVE  job'[k].pc = "idle"
  <2>1. call[1] \in Readers /\ sock' = sock
    BY <1>11 DEF RequestTypeOK, Calls, PoolGrants, PoolRefuses, gateVars
  <2>2. CASE ~Waits(call)
    BY <1>11, <2>1, <2>2, <1>0 DEF PoolGrants, PoolRefuses
  <2>3. CASE Waits(call) /\ PoolGrants(call)
    BY <2>1, <2>3, <1>2 DEF PoolGrants, Waits
  <2>4. CASE Waits(call) /\ ReadFails(call[1])
    BY <2>1, <2>4, <1>3 DEF Waits
  <2>5. CASE /\ Waits(call)
             /\ job' = [job EXCEPT ![call[1]].pc = "sleep", ![call[1]].tries = @ + 1]
    <3>1. job'[k] = job[k]
      BY <2>1, <2>5, <1>j, <1>r DEF Waits, Unserved
    <3> QED BY <3>1, <2>1 DEF Unserved
  <2> QED BY <1>11, <2>2, <2>3, <2>4, <2>5 DEF PoolRefuses
<1>12. ASSUME NEW r \in Clients, HandlerEnds(r) PROVE job'[k].pc = "idle"
  BY <1>12, <1>2, <1>r DEF HandlerEnds, gateVars
<1>13. CASE PassBegins \/ PassEnds
  BY <1>13, <1>2, <1>r DEF PassBegins, PassEnds, gateVars
<1>14. CASE ListenersClose
  BY <1>14, <1>0, <1>j DEF ListenersClose, poolVars
<1>15. CASE Signalled \/ PoolsEnd \/ CleanExit \/ HardExit
  BY <1>15, <1>0 DEF Signalled, PoolsEnd, CleanExit, HardExit, poolVars, gateVars
<1>16. CASE UNCHANGED requestVars
  BY <1>16, <1>0 DEF requestVars, poolVars, gateVars
<1> QED
  BY <1>5, <1>6, <1>7, <1>8, <1>9, <1>10, <1>11, <1>12, <1>13, <1>14, <1>15, <1>16
  DEF RequestNext

(***************************************************************************)
(* The connections.                                                        *)
(***************************************************************************)

LEMMA InitConnections == RequestInit => ConnectionsAccounted
BY DEF RequestInit, ConnectionsAccounted, Idle

\* A step of one reader's statement: the others hold what they held.
LEMMA OneConnection ==
  ASSUME RequestTypeOK, ConnectionsAccounted, NEW a \in Readers,
         job' \in [Readers -> Job],
         \A b \in Readers \ {a} : job'[b] = job[b],
         job'[a].pc = "query" => job'[a].n = job[a].n,
         held' = IF job'[a].pc = "query" THEN held \cup {Call(a)} ELSE held \ {Call(a)}
  PROVE  ConnectionsAccounted'
<1>1. \A b \in Readers \ {a} : Call(b)' = Call(b) /\ Call(b) # Call(a)
  BY DEF Call
<1>2. job'[a].pc = "query" => Call(a)' = Call(a)
  BY DEF Call
<1>3. held = {Call(b) : b \in {c \in Readers : job[c].pc = "query"}}
  BY DEF ConnectionsAccounted
<1> DEFINE new == {Call(b)' : b \in {c \in Readers : job'[c].pc = "query"}}
<1>4. ASSUME NEW x \in held' PROVE x \in new
  <2>1. CASE x = Call(a) /\ job'[a].pc = "query"
    BY <2>1, <1>2
  <2>2. CASE x \in held /\ x # Call(a)
    <3>1. PICK b \in Readers : job[b].pc = "query" /\ x = Call(b)
      BY <2>2, <1>3
    <3> QED BY <3>1, <2>2, <1>1
  <2>3. CASE x = Call(a) /\ job'[a].pc # "query"
    BY <2>3
  <2> QED BY <2>1, <2>2, <2>3
<1>5. ASSUME NEW x \in new PROVE x \in held'
  <2>1. PICK b \in Readers : job'[b].pc = "query" /\ x = Call(b)'
    OBVIOUS
  <2>2. CASE b = a
    BY <2>1, <2>2, <1>2
  <2>3. CASE b # a
    <3>1. x \in held /\ x # Call(a)
      BY <2>1, <2>3, <1>1, <1>3
    <3> QED BY <3>1
  <2> QED BY <2>2, <2>3
<1>6. held' = new
  BY <1>4, <1>5
<1> QED BY <1>6 DEF ConnectionsAccounted

LEMMA NextConnections ==
  ASSUME RequestTypeOK, RequestTypeOK', Unserved, ConnectionsAccounted,
         [RequestNext]_requestVars
  PROVE  ConnectionsAccounted'
<1>r. Clients \subseteq Readers /\ Poll \in Readers
  BY DEF Readers
<1>j. job \in [Readers -> Job] /\ job' \in [Readers -> Job]
  BY DEF RequestTypeOK
\* Only a statement that runs has a connection.
<1>n. \A a \in Readers : job[a].pc # "query" => Call(a) \notin held
  BY DEF ConnectionsAccounted, Call
<1>0. ASSUME job' = job, held' = held PROVE ConnectionsAccounted'
  BY <1>0 DEF ConnectionsAccounted, Call
\* A reader between two statements, or between the attempts of one.
<1>1. ASSUME NEW a \in Readers, NEW pc, Goes(a, pc), pc # "query",
             job[a].pc # "query", held' = held
      PROVE  ConnectionsAccounted'
  <2>1. \A b \in Readers \ {a} : job'[b] = job[b]
    BY <1>1, <1>j DEF Goes, Job
  <2>2. job'[a].pc # "query"
    BY <1>1, <1>j DEF Goes, Job
  <2>3. held' = held \ {Call(a)}
    BY <1>1, <1>n
  <2> QED BY <1>j, <2>1, <2>2, <2>3, OneConnection
<1>2. ASSUME NEW a \in Readers, NEW pc, Goes(a, pc), pc # "query", held' = held \ {Call(a)}
      PROVE  ConnectionsAccounted'
  <2>1. \A b \in Readers \ {a} : job'[b] = job[b]
    BY <1>2, <1>j DEF Goes, Job
  <2>2. job'[a].pc # "query"
    BY <1>2, <1>j DEF Goes, Job
  <2> QED BY <1>2, <1>j, <2>1, <2>2, OneConnection
<1>3. ASSUME NEW a \in Readers, ReadFails(a), held' = held \ {Call(a)}
      PROVE  ConnectionsAccounted'
  BY <1>3, <1>2 DEF ReadFails
<1>4. ASSUME NEW r \in Clients, Admitted(r) PROVE ConnectionsAccounted'
  <2>1. job[r].pc # "query" /\ held' = held
    BY <1>4 DEF Admitted, Connects, Unserved
  <2>2. Goes(r, "run")
    BY <1>4 DEF Admitted, Goes
  <2> QED BY <1>r, <2>1, <2>2, <1>1
<1>5. ASSUME NEW a \in Readers, Statement(a) PROVE ConnectionsAccounted'
  <2>1. /\ \A b \in Readers \ {a} : job'[b] = job[b]
        /\ job'[a].pc = "acquire" /\ job[a].pc # "query" /\ held' = held
    BY <1>5, <1>j DEF Statement, Job
  <2>2. held' = held \ {Call(a)}
    BY <2>1, <1>n
  <2> QED BY <1>j, <2>1, <2>2, OneConnection
<1>6. ASSUME NEW a \in Readers, DeadlinePasses(a) PROVE ConnectionsAccounted'
  <2>1. /\ \A b \in Readers : job'[b].pc = job[b].pc /\ job'[b].n = job[b].n
        /\ held' = held
    BY <1>6, <1>j DEF DeadlinePasses, Job
  <2> QED BY <2>1 DEF ConnectionsAccounted, Call
<1>7. ASSUME NEW a \in Readers, SleepEnds(a) PROVE ConnectionsAccounted'
  BY <1>7, <1>1 DEF SleepEnds
<1>8. ASSUME NEW a \in Readers, QueryEnds(a) \/ TimesOut(a) PROVE ConnectionsAccounted'
  BY <1>8, <1>2, <1>3 DEF QueryEnds, TimesOut
<1>9. ASSUME NEW call \in pending, PoolGrants(call) PROVE ConnectionsAccounted'
  <2>1. call[1] \in Readers
    BY DEF RequestTypeOK, Calls
  <2>2. CASE ~Waits(call)
    BY <1>9, <2>2, <1>0 DEF PoolGrants, LateHeld
  <2>3. CASE Waits(call)
    <3>1. Call(call[1]) = call /\ Goes(call[1], "query") /\ held' = held \cup {call}
      BY <1>9, <2>3 DEF PoolGrants, Waits
    <3>2. /\ \A b \in Readers \ {call[1]} : job'[b] = job[b]
          /\ job'[call[1]].pc = "query" /\ job'[call[1]].n = job[call[1]].n
      BY <2>1, <3>1, <1>j DEF Goes, Job
    <3> QED BY <1>j, <2>1, <3>1, <3>2, OneConnection
  <2> QED BY <2>2, <2>3
<1>10. ASSUME NEW call \in pending, PoolRefuses(call) PROVE ConnectionsAccounted'
  <2>1. call[1] \in Readers /\ held' = held
    BY <1>10 DEF RequestTypeOK, Calls, PoolRefuses
  <2>2. CASE ~Waits(call)
    BY <1>10, <2>1, <2>2, <1>0 DEF PoolRefuses
  <2>3. ASSUME Waits(call) PROVE held' = held \ {Call(call[1])}
    BY <2>1, <2>3, <1>n DEF Waits
  <2>4. CASE Waits(call) /\ ReadFails(call[1])
    BY SMTT(60), <2>1, <2>3, <2>4, <1>3
  <2>5. CASE /\ Waits(call)
             /\ job' = [job EXCEPT ![call[1]].pc = "sleep", ![call[1]].tries = @ + 1]
    <3>1. /\ \A b \in Readers \ {call[1]} : job'[b] = job[b]
          /\ job'[call[1]].pc = "sleep"
      BY <2>1, <2>5, <1>j DEF Job
    <3> QED BY <1>j, <2>1, <2>3, <2>5, <3>1, OneConnection
  <2> QED BY <1>10, <2>2, <2>4, <2>5 DEF PoolRefuses
<1>11. ASSUME NEW r \in Clients, HandlerEnds(r) PROVE ConnectionsAccounted'
  BY <1>11, <1>1, <1>r DEF HandlerEnds
<1>12. CASE PassBegins \/ PassEnds
  BY <1>12, <1>1, <1>r DEF PassBegins, PassEnds
<1>13. ASSUME NEW r \in Clients,
              Shed(r) \/ AnswerSent(r) \/ ResponseCloses(r) \/ Aborted(r) \/ KeepAliveEnds(r)
       PROVE  ConnectionsAccounted'
  BY <1>13, <1>0 DEF Shed, AnswerSent, ResponseCloses, Aborted, KeepAliveEnds, poolVars
<1>14. CASE Signalled \/ ListenersClose \/ PoolsEnd \/ CleanExit \/ HardExit
  BY <1>14, <1>0 DEF Signalled, ListenersClose, PoolsEnd, CleanExit, HardExit, poolVars
<1>15. CASE UNCHANGED requestVars
  BY <1>15, <1>0 DEF requestVars, poolVars
<1> QED
  BY <1>4, <1>5, <1>6, <1>7, <1>8, <1>9, <1>10, <1>11, <1>12, <1>13, <1>14, <1>15
  DEF RequestNext

(***************************************************************************)
(* The slots.  They are held by the requests whose client still waits; a   *)
(* response that is still to close has been answered or given up.          *)
(***************************************************************************)

Slots ==
  GateLimit > 0 => /\ holding = {r \in Clients : Busy(r)}
                   /\ inFlight = Cardinality(holding)
                   /\ inFlight <= GateLimit

Answered == \A r \in closes : sock[r] \in {"kept", "gone"}

SlotInv == Slots /\ Answered

LEMMA InitSlots == RequestInit => SlotInv
BY LimitsAssumption, FS_EmptySet DEF RequestInit, SlotInv, Slots, Answered, Busy

LEMMA HoldingFinite == RequestTypeOK => IsFiniteSet(holding) /\ Cardinality(holding) \in Nat
BY ReadersAssumption, FS_Subset, FS_CardinalityType DEF RequestTypeOK

\* Whichever of the two events comes first gives one slot back.
LEMMA OneRelease ==
  ASSUME RequestTypeOK, Slots, NEW r \in Clients, Release(r), GateLimit > 0
  PROVE  inFlight' = Cardinality(holding') /\ inFlight' <= GateLimit
<1>1. IsFiniteSet(holding) /\ Cardinality(holding) \in Nat
  BY HoldingFinite
<1>2. CASE r \in holding
  <2>1. Cardinality(holding \ {r}) = Cardinality(holding) - 1
    BY <1>1, <1>2, FS_RemoveElement
  <2> QED BY <1>1, <1>2, <2>1, LimitsAssumption DEF Release, Released, Slots
<1>3. CASE r \notin holding
  <2>1. holding' = holding
    BY <1>3 DEF Release
  <2> QED BY <1>1, <1>3, <2>1, LimitsAssumption DEF Release, Released, Slots
<1> QED BY <1>2, <1>3

LEMMA NextSlots == RequestTypeOK /\ SlotInv /\ [RequestNext]_requestVars => SlotInv'
<1> SUFFICES ASSUME RequestTypeOK, SlotInv, [RequestNext]_requestVars PROVE SlotInv'
    OBVIOUS
<1> USE LimitsAssumption
<1>j. sock \in [Clients -> {"none", "busy", "kept", "gone"}] /\ closes \subseteq Clients
  BY DEF RequestTypeOK
<1>0. ASSUME UNCHANGED gateVars PROVE SlotInv'
  BY <1>0 DEF SlotInv, Slots, Answered, Busy, gateVars
\* A client that connects takes nobody's place but that of a kept-alive socket.
<1>1. ASSUME NEW r \in Clients, Connects(r), sock'[r] \in {"busy", "kept"}
      PROVE  /\ \A k \in Clients \ {r} : Busy(k)' <=> Busy(k)
             /\ ~Busy(r) /\ r \notin closes
             /\ closes' = closes => Answered'
  BY <1>1, <1>j DEF Connects, Busy, SlotInv, Answered
<1>2. ASSUME NEW r \in Clients, Admitted(r) PROVE SlotInv'
  <2>1. /\ \A k \in Clients \ {r} : Busy(k)' <=> Busy(k)
        /\ ~Busy(r) /\ Busy(r)' /\ Answered'
    BY <1>2, <1>1 DEF Admitted, Busy
  <2>2. ASSUME GateLimit > 0 PROVE Slots'
    <3>1. holding' = holding \cup {r} /\ inFlight' = inFlight + 1
      BY <1>2, <2>2 DEF Admitted
    <3>2. r \notin holding /\ holding' = {k \in Clients : Busy(k)'}
      BY <2>1, <2>2, <3>1 DEF SlotInv, Slots
    <3>3. Cardinality(holding') = Cardinality(holding) + 1
      BY <3>1, <3>2, HoldingFinite, FS_AddElement
    <3>4. inFlight + 1 <= GateLimit
      BY <1>2, <2>2, HoldingFinite DEF Admitted, Full, SlotInv, Slots
    <3> QED BY <3>1, <3>2, <3>3, <3>4, <2>2 DEF SlotInv, Slots
  <2> QED BY <2>1, <2>2 DEF SlotInv, Slots
<1>3. ASSUME NEW r \in Clients, Shed(r) PROVE SlotInv'
  <2>1. \A k \in Clients : Busy(k)' <=> Busy(k)
    BY <1>3, <1>1 DEF Shed, Busy
  <2>2. Answered' /\ UNCHANGED <<holding, inFlight>>
    BY <1>3, <1>1 DEF Shed
  <2> QED BY <2>1, <2>2 DEF SlotInv, Slots
<1>4. ASSUME NEW r \in Clients, AnswerSent(r) \/ Aborted(r) PROVE SlotInv'
  <2>1. /\ Release(r) /\ ~Busy(r)' /\ Answered'
        /\ \A k \in Clients \ {r} : Busy(k)' <=> Busy(k)
    BY <1>4, <1>j DEF AnswerSent, Aborted, Busy, SlotInv, Answered
  <2>2. GateLimit > 0 => holding' = {k \in Clients : Busy(k)'}
    BY <2>1 DEF Release, SlotInv, Slots
  <2> QED BY <2>1, <2>2, OneRelease DEF SlotInv, Slots
<1>5. ASSUME NEW r \in Clients, ResponseCloses(r) PROVE SlotInv'
  <2>1. /\ Release(r) /\ ~Busy(r) /\ Answered' /\ sock' = sock
    BY <1>5 DEF ResponseCloses, Busy, SlotInv, Answered
  <2>2. GateLimit > 0 => holding' = {k \in Clients : Busy(k)'}
    BY <2>1 DEF Release, SlotInv, Slots, Busy
  <2> QED BY <2>1, <2>2, OneRelease DEF SlotInv, Slots
<1>6. ASSUME NEW r \in Clients, KeepAliveEnds(r) PROVE SlotInv'
  <2>1. Answered' /\ \A k \in Clients : Busy(k)' <=> Busy(k)
    BY <1>6, <1>j DEF KeepAliveEnds, Busy, SlotInv, Answered
  <2> QED BY <1>6, <2>1 DEF KeepAliveEnds, SlotInv, Slots
<1>7. CASE ListenersClose
  <2>1. Answered' /\ \A k \in Clients : Busy(k)' <=> Busy(k)
    BY <1>7, <1>j DEF ListenersClose, Busy, SlotInv, Answered
  <2> QED BY <1>7, <2>1 DEF ListenersClose, SlotInv, Slots
<1>8. ASSUME NEW a \in Readers,
             Statement(a) \/ DeadlinePasses(a) \/ SleepEnds(a) \/ QueryEnds(a) \/ TimesOut(a)
      PROVE  SlotInv'
  BY <1>8, <1>0 DEF Statement, DeadlinePasses, SleepEnds, QueryEnds, TimesOut
<1>9. ASSUME NEW call \in pending, PoolGrants(call) \/ PoolRefuses(call) PROVE SlotInv'
  BY <1>9, <1>0 DEF PoolGrants, PoolRefuses
<1>10. ASSUME NEW r \in Clients, HandlerEnds(r) PROVE SlotInv'
  BY <1>10, <1>0 DEF HandlerEnds
<1>11. CASE PassBegins \/ PassEnds \/ Signalled \/ PoolsEnd \/ CleanExit \/ HardExit
  BY <1>11, <1>0 DEF PassBegins, PassEnds, Signalled, PoolsEnd, CleanExit, HardExit
<1>12. CASE UNCHANGED requestVars
  BY <1>12, <1>0 DEF requestVars
<1> QED
  BY <1>2, <1>3, <1>4, <1>5, <1>6, <1>7, <1>8, <1>9, <1>10, <1>11, <1>12 DEF RequestNext

\* No behaviour leaks a connection of the pool or a slot of the gate, whatever
\* clients, the pool and the deadlines do (concurrency_gate.js 76-89,
\* connection.js 86-115).
THEOREM NothingLeaksEver == RequestSpec => []NothingLeaks
<1>1. RequestInit => Unserved /\ ConnectionsAccounted /\ SlotInv
  BY InitUnserved, InitConnections, InitSlots
<1>2. /\ RequestTypeOK /\ RequestTypeOK' /\ Unserved /\ ConnectionsAccounted /\ SlotInv
      /\ [RequestNext]_requestVars
      => Unserved' /\ ConnectionsAccounted' /\ SlotInv'
  BY NextUnserved, NextConnections, NextSlots
<1>3. ConnectionsAccounted /\ SlotInv => NothingLeaks
  BY DEF NothingLeaks, SlotInv, Slots, SlotsAccounted
<1> QED BY <1>1, <1>2, <1>3, TypesHold, PTL DEF RequestSpec

(***************************************************************************)
(* The drain.  Each of its stages leaves behind it what the next relies    *)
(* on: no pass begins once the poll is stopped, no socket comes once the   *)
(* listeners are closed.                                                   *)
(***************************************************************************)

DrainOrder ==
  /\ stage \in {"listeners", "pools", "clean"} => job[Poll].pc = "idle"
  /\ stage \in {"pools", "clean"} => NoConnections

LEMMA InitDrainOrder == RequestInit => DrainOrder
BY DEF RequestInit, DrainOrder

LEMMA NextDrainOrder == RequestTypeOK /\ DrainOrder /\ [RequestNext]_requestVars => DrainOrder'
<1> SUFFICES ASSUME RequestTypeOK, DrainOrder, [RequestNext]_requestVars PROVE DrainOrder'
    OBVIOUS
<1> DEFINE Stopped == stage \in {"listeners", "pools", "clean"}
           Closed  == stage \in {"pools", "clean"}
<1>r. Clients \subseteq Readers /\ Poll \in Readers /\ Poll \notin Clients
  BY ReadersAssumption DEF Readers
<1>j. job \in [Readers -> Job] /\ sock \in [Clients -> {"none", "busy", "kept", "gone"}]
  BY DEF RequestTypeOK
<1>0. ASSUME stage' = stage, sock' = sock, Stopped => job'[Poll].pc = "idle"
      PROVE  DrainOrder'
  BY <1>0 DEF DrainOrder, NoConnections
\* A client comes, is answered or goes.
<1>1. ASSUME stage' = stage, job'[Poll] = job[Poll],
             Closed => \A k \in Clients : sock'[k] \notin {"busy", "kept"}
      PROVE  DrainOrder'
  BY <1>1 DEF DrainOrder, NoConnections
<1>2. ASSUME NEW r \in Clients,
             \/ Admitted(r) \/ Shed(r) \/ AnswerSent(r) \/ ResponseCloses(r)
             \/ Aborted(r) \/ KeepAliveEnds(r)
      PROVE  DrainOrder'
  <2>1. stage' = stage /\ job'[Poll] = job[Poll]
    BY <1>2, <1>r, <1>j
    DEF Admitted, Shed, AnswerSent, ResponseCloses, Aborted, KeepAliveEnds, poolVars
  <2>2. ASSUME Closed PROVE \A k \in Clients : sock'[k] \notin {"busy", "kept"}
    <3>1. NoConnections
      BY <2>2 DEF DrainOrder
    <3>2. ~Connects(r)
      BY <2>2, <3>1 DEF Connects, NoConnections
    <3> QED
      BY <1>2, <3>1, <3>2, <1>j
      DEF Admitted, Shed, AnswerSent, ResponseCloses, Aborted, KeepAliveEnds,
          NoConnections, Busy
  <2> QED BY <2>1, <2>2, <1>1
\* A reader that is not idle goes on; in a stopped drain it is not the poll.
<1>3. ASSUME NEW a \in Readers, job[a].pc # "idle", stage' = stage, sock' = sock,
             \E new : job' = [job EXCEPT ![a] = new]
      PROVE  DrainOrder'
  <2>1. Stopped => job'[Poll].pc = "idle"
    BY <1>3, <1>r, <1>j DEF DrainOrder
  <2> QED BY <1>3, <2>1, <1>0
<1>4. ASSUME NEW a \in Readers, job[a].pc # "idle", stage' = stage, sock' = sock,
             NEW pc, Goes(a, pc)
      PROVE  DrainOrder'
  BY <1>4, <1>3 DEF Goes
<1>5. ASSUME NEW a \in Readers, job[a].pc # "idle", stage' = stage, sock' = sock,
             ReadFails(a)
      PROVE  DrainOrder'
  BY <1>5, <1>4 DEF ReadFails
<1>6. ASSUME NEW a \in Readers, Statement(a) \/ DeadlinePasses(a) PROVE DrainOrder'
  BY <1>6, <1>3 DEF Statement, DeadlinePasses, Reading, gateVars
<1>7. ASSUME NEW a \in Readers, SleepEnds(a) \/ QueryEnds(a) \/ TimesOut(a)
      PROVE  DrainOrder'
  BY <1>7, <1>4, <1>5 DEF SleepEnds, QueryEnds, TimesOut, gateVars
<1>8. ASSUME NEW call \in pending, PoolGrants(call) \/ PoolRefuses(call)
      PROVE  DrainOrder'
  <2>1. call[1] \in Readers /\ sock' = sock /\ stage' = stage
    BY <1>8 DEF RequestTypeOK, Calls, PoolGrants, PoolRefuses, gateVars
  <2>2. CASE ~Waits(call)
    <3>1. job' = job
      BY <1>8, <2>2 DEF PoolGrants, PoolRefuses
    <3> QED BY <2>1, <3>1, <1>0 DEF DrainOrder
  <2>3. CASE Waits(call) /\ PoolGrants(call)
    BY <2>1, <2>3, <1>4 DEF PoolGrants, Waits
  <2>4. CASE Waits(call) /\ ReadFails(call[1])
    BY <2>1, <2>4, <1>5 DEF Waits
  <2>5. CASE /\ Waits(call)
             /\ job' = [job EXCEPT ![call[1]].pc = "sleep", ![call[1]].tries = @ + 1]
    <3>1. ASSUME Stopped PROVE job'[Poll].pc = "idle"
      BY <2>1, <2>5, <3>1, <1>j, <1>r DEF Waits, DrainOrder
    <3> QED BY <3>1, <2>1, <1>0
  <2> QED BY <1>8, <2>2, <2>3, <2>4, <2>5 DEF PoolRefuses
<1>9. ASSUME NEW r \in Clients, HandlerEnds(r) PROVE DrainOrder'
  BY <1>9, <1>4, <1>r DEF HandlerEnds, gateVars
<1>10. CASE PassBegins \/ PassEnds
  <2>1. stage' = stage /\ sock' = sock
    BY <1>10 DEF PassBegins, PassEnds, gateVars
  <2>2. CASE PassBegins
    BY <2>1, <2>2, <1>0 DEF PassBegins
  <2>3. CASE PassEnds
    BY <2>1, <2>3, <1>0, <1>r, <1>j DEF PassEnds, Goes
  <2> QED BY <1>10, <2>2, <2>3
<1>11. CASE Signalled \/ ListenersClose \/ PoolsEnd
  BY <1>11 DEF Signalled, ListenersClose, PoolsEnd, PassOver, NoConnections, DrainOrder,
               gateVars, poolVars
<1>12. CASE CleanExit \/ HardExit
  BY <1>12 DEF CleanExit, HardExit, NoConnections, DrainOrder, gateVars, poolVars
<1>13. CASE UNCHANGED requestVars
  BY <1>13, <1>0 DEF requestVars, gateVars, poolVars, DrainOrder
<1> QED
  BY <1>2, <1>6, <1>7, <1>8, <1>9, <1>10, <1>11, <1>12, <1>13 DEF RequestNext

\* The database pools close under no request and no pass of the poll, at any
\* point at which the signal may come (shutdown.js 122-137).
THEOREM PoolsCloseUnderNobody == RequestSpec => []PoolsCloseLast
<1>1. DrainOrder => PoolsCloseLast
  BY DEF DrainOrder, PoolsCloseLast, NoConnections, Busy
<1> QED BY InitDrainOrder, NextDrainOrder, TypesHold, <1>1, PTL DEF RequestSpec
===============================================================================
