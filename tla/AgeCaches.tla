------------------------------ MODULE AgeCaches ------------------------------
(***************************************************************************)
(* The caches that bound the age of what they serve (src/src/mirror/       *)
(* operational_cache.js: rows of the hub, concurrent reads of one key each *)
(* call the hub; src/src/explorer/fees_preflight/fee_schedule_cache.js:    *)
(* the indexer's fee schedule, one read at a time shared by all callers).  *)
(* Both serve an entry inside its lifetime without a read, and on a failed *)
(* read the last good answer inside a longer ceiling.                      *)
(*                                                                         *)
(* The upstream is external: an answer is the time it was computed at, so  *)
(* age is exact.  One key; other keys of the hub's rows appear only as     *)
(* what evicts its entry.  A behaviour is about one of the two caches.     *)
(***************************************************************************)
EXTENDS Integers, FiniteSets

CONSTANTS
  AgeRequests,   \* callers
  AgeCachesHeld, \* the caches a behaviour may be about: "rows", "fees"
  AgeTtl,        \* EXPLORER_HUB_CACHE_MS, EXPLORER_FEESCHEDULE_CACHE_MS
  AgeStaleMax,   \* EXPLORER_HUB_CACHE_STALE_MAX_MS, ..._FEESCHEDULE_STALE_MAX_MS
  AgeMaxClock    \* bound on the clock

ASSUME AgeAssumption == /\ AgeCachesHeld \subseteq {"rows", "fees"} /\ AgeCachesHeld # {}
                        /\ AgeTtl \in Nat /\ AgeStaleMax \in Nat /\ AgeMaxClock \in Nat

VARIABLES
  ageCache,      \* the cache of the behaviour
  ageClock,      \* the wall clock
  ageEntry,      \* the entry: its stamp, and when its answer was computed
  ageReq,        \* ageReq[r]: a caller across its await
  ageServed      \* the last answer given: "none", "fresh", "cached", "outage", "unsupported"
ageVars == <<ageCache, ageClock, ageEntry, ageReq, ageServed>>

AgeNoEntry == [at |-> -1, computed |-> -1]
AgeCall(pc, start, hit) ==
  [pc |-> pc, start |-> start, hit |-> hit, answer |-> "none", computed |-> -1]
AgeIdle == AgeCall("idle", 0, AgeNoEntry)
AgeInside(entry, now, limit) == entry # AgeNoEntry /\ now - entry.at < limit
AgeAnswer(kind, computed) == [kind |-> kind, computed |-> computed]
AgeReading == {r \in AgeRequests : ageReq[r].pc = "reading"}

AgeTick ==
  /\ ageClock < AgeMaxClock /\ ageClock' = ageClock + 1
  /\ ageServed' = AgeAnswer("none", -1)
  /\ UNCHANGED <<ageCache, ageEntry, ageReq>>

\* rememberRows: a read of another key takes the entry's place.
AgeEvicts ==
  /\ ageCache = "rows" /\ ageEntry # AgeNoEntry /\ ageEntry' = AgeNoEntry
  /\ UNCHANGED <<ageCache, ageClock, ageReq, ageServed>>

-----------------------------------------------------------------------------
(* A call of getRows, or of get.                                           *)

AgeHits(r) ==
  /\ ageReq[r].pc = "idle"
  /\ AgeInside(ageEntry, ageClock, AgeTtl)
  /\ ageServed' = AgeAnswer("cached", ageEntry.computed)
  /\ UNCHANGED <<ageCache, ageClock, ageEntry, ageReq>>

\* A promise in flight is shared by whoever misses the cache meanwhile.
AgeShares == ageCache = "fees" /\ AgeReading # {}

AgeReads(r) ==
  /\ ageReq[r].pc = "idle"
  /\ ~AgeInside(ageEntry, ageClock, AgeTtl)
  /\ ageReq' = [ageReq EXCEPT ![r] =
       AgeCall(IF AgeShares THEN "waiting" ELSE "reading", ageClock, ageEntry)]
  /\ UNCHANGED <<ageCache, ageClock, ageEntry, ageServed>>

\* The upstream answers a read, or fails it; of the hub's endpoints all, or
\* only some, may say they do not know the method.
AgeUpstream(r) ==
  /\ ageReq[r].pc = "reading" /\ ageReq[r].answer = "none"
  /\ \E a \in {"good", "failed"} \cup (IF ageCache = "rows" THEN {"unsupported"} ELSE {}) :
       ageReq' = [ageReq EXCEPT ![r].answer = a, ![r].computed = ageClock]
  /\ UNCHANGED <<ageCache, ageClock, ageEntry, ageServed>>

-----------------------------------------------------------------------------
(* The await returns.                                                      *)

\* Defects: the answer is stamped when it arrives; the ceiling is measured
\* from the clock read before the await.
AgeStampedLate(r) == ageClock
AgeStamp(r) == ageReq[r].start
AgeBefore(r) == ageReq[r].start
AgeAfter(r) == ageClock
\* getRows keeps the entry it saw before the await, settleFailure looks again.
AgeBridge(r) == IF ageCache = "rows" THEN ageReq[r].hit ELSE ageEntry

\* The callers that share this read get what it gets.
AgeReturns(r) ==
  ageReq' = [q \in AgeRequests |->
    IF q = r \/ ageReq[q].pc = "waiting" THEN AgeIdle ELSE ageReq[q]]

AgeStores(r) ==
  /\ ageReq[r].answer = "good"
  /\ ageEntry' = [at |-> AgeStamp(r), computed |-> ageReq[r].computed]
  /\ ageServed' = AgeAnswer("fresh", ageReq[r].computed)
  /\ AgeReturns(r)
  /\ UNCHANGED <<ageCache, ageClock>>

\* settleMissedRead, settleFailure.
AgeSettles(r) ==
  /\ ageReq[r].answer \in {"failed", "unsupported"}
  /\ ageServed' = CASE ageReq[r].answer = "unsupported" -> AgeAnswer("unsupported", -1)
                    [] ageReq[r].answer = "failed" /\ AgeInside(AgeBridge(r), AgeAfter(r), AgeStaleMax)
                         -> AgeAnswer("cached", AgeBridge(r).computed)
                    [] OTHER -> AgeAnswer("outage", -1)
  /\ AgeReturns(r)
  /\ UNCHANGED <<ageCache, ageClock, ageEntry>>

-----------------------------------------------------------------------------
AgeInit ==
  /\ ageCache \in AgeCachesHeld
  /\ ageClock = 0 /\ ageEntry = AgeNoEntry
  /\ ageReq = [r \in AgeRequests |-> AgeIdle]
  /\ ageServed = AgeAnswer("none", -1)

AgeNext ==
  \/ AgeTick \/ AgeEvicts
  \/ \E r \in AgeRequests : AgeHits(r) \/ AgeReads(r) \/ AgeUpstream(r) \/ AgeStores(r) \/ AgeSettles(r)

AgeSpec == AgeInit /\ [][AgeNext]_ageVars

-----------------------------------------------------------------------------
(* Properties.                                                             *)

\* Nothing served from a cache was computed a lifetime or a ceiling ago or
\* longer, however long the read that failed took and whichever of two
\* overlapping reads stored last (operational_cache.js getRows,
\* fee_schedule_cache.js load).
AgeBounded ==
  ageServed.kind = "cached" => \/ ageClock - ageServed.computed < AgeTtl
                              \/ ageClock - ageServed.computed < AgeStaleMax
=============================================================================
