-------------------------- MODULE HubConfig_proofs ---------------------------
(***************************************************************************)
(* Proofs about HubConfig, for every set of hubs and parameters, every     *)
(* budget of faults and every bound.  WellFoundedInduction gives the       *)
(* greatest of a set of numbers, which is what a watermark is.             *)
(***************************************************************************)
EXTENDS HubConfig, WellFoundedInduction, TLAPS

USE HubsAssumption, BoundsAssumption

-----------------------------------------------------------------------------
(* Watermarks.                                                             *)

\* A set of naturals with an element has a least one.
LEMMA HasLeast ==
  ASSUME NEW S \in SUBSET Nat, S # {}
  PROVE  \E a \in S : \A b \in S : a <= b
<1>1. \E a \in S : \A b \in S : ~(<<b, a>> \in OpToRel(<, Nat))
  <2>1. IsWellFoundedOn(OpToRel(<, Nat), Nat)
    BY NatLessThanWellFounded
  <2> QED
    BY <2>1, WFMin, Zenon
<1>2. \A a, b \in Nat : b < a => <<b, a>> \in OpToRel(<, Nat)
  BY Zenon DEF OpToRel
<1>3. PICK R : /\ \E a \in S : \A b \in S : ~(<<b, a>> \in R)
               /\ \A a, b \in Nat : b < a => <<b, a>> \in R
  BY <1>1, <1>2, Zenon
<1>4. PICK a \in S : \A b \in S : ~(<<b, a>> \in R)
  BY <1>3, Zenon
<1>5. a \in Nat
  BY <1>4, Zenon
<1>6. \A b \in S : b \in Nat /\ ~(b < a)
  BY <1>3, <1>4, <1>5, Zenon
<1>7. \A b \in S : a <= b
  BY <1>5, <1>6
<1> QED
  BY <1>4, <1>7, Zenon

\* A set of naturals with an element and a bound has a greatest one.
LEMMA HasGreatest ==
  ASSUME NEW n \in Nat, NEW S \in SUBSET (0..n), S # {}
  PROVE  \E a \in S : \A b \in S : b <= a
<1> DEFINE Gaps == {n - a : a \in S}
<1>1. Gaps \in SUBSET Nat /\ Gaps # {}
  <2>1. \A a \in S : a \in Nat /\ a <= n
    OBVIOUS
  <2>2. \A a \in S : n - a \in Nat
    BY <2>1
  <2>3. \A gap \in Gaps : gap \in Nat
    BY <2>2, Zenon
  <2>4. Gaps # {}
    BY Zenon
  <2> QED
    BY <2>3, <2>4, Zenon
<1>2. PICK gap \in Gaps : \A other \in Gaps : gap <= other
  BY <1>1, HasLeast
<1>3. PICK a \in S : gap = n - a
  OBVIOUS
<1>4. \A b \in S : n - a <= n - b
  BY <1>2, <1>3
<1> QED
  BY <1>4


LEMMA WatermarkIsOfRow ==
  ASSUME NEW h \in Hubs, \A q \in Params : hub[h].rows[q].at \in 0..MaxClock
  PROVE  \E q \in Params : Watermark(h) = hub[h].rows[q].at
<1> DEFINE S == {hub[h].rows[q].at : q \in Params}
<1>1. S \in SUBSET (0..MaxClock) /\ S # {}
  OBVIOUS
<1>2. PICK a \in S : \A b \in S : b <= a
  BY <1>1, HasGreatest
<1>3. \A b \in S : a >= b
  BY <1>1, <1>2
<1>4. Max(S) \in S
  BY <1>3 DEF Max
<1> QED
  BY <1>4 DEF Watermark

-----------------------------------------------------------------------------
(* Types.                                                                  *)

HubRecord == [rows : [Params -> [version : 0..MaxVersion, at : 0..MaxClock]],
              seq : Nat, build : Builds, missed : BOOLEAN,
              backup : [rows : [Params -> [version : 0..1, at : 0..1]], seq : 0..1]]
Answers == [kind : {"none", "tree", "down", "degraded", "error"}, from : Hubs \cup {NoHub},
            bare : BOOLEAN, whole : Trees, tree : Trees, seq : Nat, watermark : 0..MaxClock]
PollRecord == [pc : {"idle", "first", "failover", "regressed"}, sent : 0..MaxClock,
               cursorHub : Hubs \cup {NoHub}, answer : Answers]

HubsOK ==
  /\ hub \in [Hubs -> HubRecord]
  /\ clock \in 1..MaxClock /\ version \in 1..MaxVersion /\ left \in [Faults -> Nat]
CursorOK ==
  /\ lastGood \in Hubs /\ cursorHub \in Hubs \cup {NoHub}
  /\ lastWatermark \in 0..MaxClock /\ lastSeq \in Nat
  /\ configs \in Trees \cup {NoTree} /\ whole \in Trees \cup {NoTree}
ServedOK == {served, lastObtained, disk} \subseteq Trees \cup {NoTree}
PollsOK ==
  /\ poll \in [Polls -> PollRecord]
  /\ \A p \in Polls : poll[p].answer.kind \in {"tree", "error"} => poll[p].answer.from \in Hubs

Typed == HubsOK /\ CursorOK /\ ServedOK /\ PollsOK

LEMMA EmptyIsTree == Empty \in Trees /\ NoTree \notin Trees
<1>1. PICK q : q \in Params
  OBVIOUS
<1> QED
  BY <1>1 DEF Empty, NoTree, Trees

LEMMA NoAnswerOK == NoAnswer \in Answers /\ IdlePoll \in PollRecord
BY EmptyIsTree DEF NoAnswer, Failure, Answers, IdlePoll, PollRecord

LEMMA HubFields ==
  ASSUME HubsOK, NEW h \in Hubs
  PROVE  /\ hub[h] \in HubRecord
         /\ hub[h].rows \in [Params -> [version : 0..MaxVersion, at : 0..MaxClock]]
         /\ hub[h].backup.rows \in [Params -> [version : 0..1, at : 0..1]]
         /\ hub[h].seq \in Nat /\ hub[h].backup.seq \in 0..1
         /\ \A q \in Params : hub[h].rows[q].version \in 0..MaxVersion /\ hub[h].rows[q].at \in 0..MaxClock
BY DEF HubsOK, HubRecord

\* What a hub answers, and what it says by it.
LEMMA EnvelopeOK ==
  ASSUME HubsOK, NEW h \in Hubs, NEW cursor
  PROVE  /\ Envelope(h, cursor) \in Answers /\ TreeOf(h) \in Trees
         /\ Envelope(h, cursor).kind = "tree" /\ Envelope(h, cursor).from = h
         /\ Envelope(h, cursor).bare = Bare(h) /\ Envelope(h, cursor).whole = TreeOf(h)
         /\ ~Bare(h) => Envelope(h, cursor).seq = hub[h].seq
         /\ Envelope(h, cursor).watermark = Watermark(h)
         /\ Envelope(h, cursor).tree =
              [q \in Params |-> IF Covers(h, cursor, q) THEN hub[h].rows[q].version ELSE 0]
<1>1. TreeOf(h) \in Trees
  BY HubFields DEF TreeOf, Trees
<1>2. [q \in Params |-> IF Covers(h, cursor, q) THEN hub[h].rows[q].version ELSE 0] \in Trees
  BY HubFields DEF Trees
<1>3. Watermark(h) \in 0..MaxClock
  BY HubFields, WatermarkIsOfRow
<1>4. hub[h].seq \in Nat /\ Bare(h) \in BOOLEAN
  BY HubFields DEF Bare
<1> QED
  BY <1>1, <1>2, <1>3, <1>4 DEF Envelope, Answers

LEMMA InitTyped == Init => Typed
<1> SUFFICES ASSUME Init PROVE Typed
  OBVIOUS
<1>1. PICK n \in {0, 1}, first \in Firsts, build \in [Hubs -> Builds] :
        hub = [h \in Hubs |-> [rows |-> Rows(first[h], 1), seq |-> 1, build |-> build[h],
                              missed |-> FALSE, backup |-> [rows |-> Rows(first[h], n), seq |-> n]]]
  BY DEF Init
<1>2. \A q \in Params, k \in {0, 1} : Rows(q, k) \in [Params -> [version : 0..1, at : 0..1]]
  BY DEF Rows
<1>3. \A q \in Params : Rows(q, 1) \in [Params -> [version : 0..MaxVersion, at : 0..MaxClock]]
  BY BoundsAssumption DEF Rows
<1>4. hub \in [Hubs -> HubRecord]
  <2>1. \A h \in Hubs : first[h] \in Params /\ build[h] \in Builds
    BY BoundsAssumption
  <2> QED
    BY <1>1, <1>2, <1>3, <2>1 DEF HubRecord
<1>5. (CHOOSE h \in Hubs : TRUE) \in Hubs
  OBVIOUS
<1> QED
  BY <1>4, <1>5, NoAnswerOK, EmptyIsTree
  DEF Init, Typed, HubsOK, CursorOK, ServedOK, PollsOK, IdlePoll, NoAnswer, Failure

\* A commit, and a backup restored.
LEMMA CommitAt ==
  ASSUME Typed, NEW h \in Hubs, HubCommits(h)
  PROVE  \E q \in Params :
           /\ hub'[h].rows = [hub[h].rows EXCEPT ![q] = [version |-> version + 1, at |-> clock]]
           /\ hub'[h].seq = hub[h].seq + 1
           /\ hub'[h].missed = hub[h].missed /\ hub'[h].build = hub[h].build
           /\ hub'[h].backup = hub[h].backup
           /\ \A g \in Hubs \ {h} : hub'[g] = hub[g]
           /\ hub' \in [Hubs -> HubRecord]
<1>1. PICK q \in Params :
        hub' = [hub EXCEPT ![h].rows[q] = [version |-> version + 1, at |-> clock], ![h].seq = @ + 1]
  BY DEF HubCommits
<1>2. hub \in [Hubs -> HubRecord] /\ version + 1 \in 0..MaxVersion /\ clock \in 0..MaxClock
  BY DEF HubCommits, Typed, HubsOK
<1>3. /\ hub'[h].rows = [hub[h].rows EXCEPT ![q] = [version |-> version + 1, at |-> clock]]
      /\ hub'[h].seq = hub[h].seq + 1
      /\ hub'[h].missed = hub[h].missed /\ hub'[h].build = hub[h].build
      /\ hub'[h].backup = hub[h].backup
      /\ \A g \in Hubs \ {h} : hub'[g] = hub[g]
  BY <1>1, <1>2 DEF HubRecord
<1>4. hub'[h].rows \in [Params -> [version : 0..MaxVersion, at : 0..MaxClock]]
  BY <1>2, <1>3 DEF HubRecord
<1>5. hub' \in [Hubs -> HubRecord]
  <2>1. \A g \in Hubs : hub[g] \in HubRecord
    BY <1>2
  <2> DEFINE grown == [hub[h].rows EXCEPT ![q] = [version |-> version + 1, at |-> clock]]
  <2> DEFINE first == [hub EXCEPT ![h] = [hub[h] EXCEPT !.rows = grown]]
  <2>2. hub' = [first EXCEPT ![h] = [first[h] EXCEPT !.seq = first[h].seq + 1]]
    BY <1>1, Zenon
  <2>3. grown \in [Params -> [version : 0..MaxVersion, at : 0..MaxClock]]
    BY <1>3, <1>4
  <2> HIDE DEF grown
  <2>4. hub[h] \in HubRecord
    BY <2>1
  <2>5. [hub[h] EXCEPT !.rows = grown] \in HubRecord
    BY <2>3, <2>4 DEF HubRecord
  <2>6. first \in [Hubs -> HubRecord] /\ first[h] = [hub[h] EXCEPT !.rows = grown]
    BY <1>2, <2>5
  <2> HIDE DEF first
  <2>7. first[h] \in HubRecord
    BY <2>6
  <2>8. first[h].seq + 1 \in Nat
    BY <2>7 DEF HubRecord
  <2>9. [first[h] EXCEPT !.seq = first[h].seq + 1] \in HubRecord
    BY <2>7, <2>8 DEF HubRecord
  <2> QED
    BY <2>2, <2>6, <2>9
<1> QED
  BY <1>3, <1>5

LEMMA RestoredTo ==
  ASSUME Typed, NEW h \in Hubs, HubRestored(h)
  PROVE  /\ hub'[h].rows = hub[h].backup.rows /\ hub'[h].seq = hub[h].backup.seq
         /\ hub'[h].missed = TRUE /\ hub'[h].build = hub[h].build
         /\ hub'[h].backup = hub[h].backup
         /\ \A g \in Hubs \ {h} : hub'[g] = hub[g]
         /\ hub' \in [Hubs -> HubRecord]
<1>1. hub' = [hub EXCEPT ![h].rows = hub[h].backup.rows, ![h].seq = hub[h].backup.seq,
                         ![h].missed = TRUE]
  BY DEF HubRestored
<1>2. hub \in [Hubs -> HubRecord]
  BY DEF Typed, HubsOK
<1>3. [Params -> [version : 0..1, at : 0..1]] \subseteq
      [Params -> [version : 0..MaxVersion, at : 0..MaxClock]]
  OBVIOUS
<1>4. hub[h].backup.rows \in [Params -> [version : 0..MaxVersion, at : 0..MaxClock]]
  BY <1>2, <1>3 DEF HubRecord
<1>5. /\ hub'[h].rows = hub[h].backup.rows /\ hub'[h].seq = hub[h].backup.seq
      /\ hub'[h].missed = TRUE /\ hub'[h].build = hub[h].build
      /\ hub'[h].backup = hub[h].backup
      /\ \A g \in Hubs \ {h} : hub'[g] = hub[g]
  BY <1>1, <1>2 DEF HubRecord
<1> DEFINE restored == [[[hub[h] EXCEPT !.rows = hub[h].backup.rows] EXCEPT !.seq = hub[h].backup.seq]
                          EXCEPT !.missed = TRUE]
<1>6. hub' = [hub EXCEPT ![h] = restored]
  BY <1>1, <1>2 DEF HubRecord
<1>7. hub[h] \in HubRecord /\ hub[h].backup.seq \in Nat
  BY <1>2 DEF HubRecord
<1>8. restored \in HubRecord
  BY <1>4, <1>7 DEF HubRecord
<1>9. hub' \in [Hubs -> HubRecord]
  BY <1>2, <1>6, <1>8
<1> QED
  BY <1>5, <1>9

\* An answer makes its hub known to have been asked.
LEMMA AskedHub ==
  ASSUME Typed, NEW h \in Hubs, hub' = [hub EXCEPT ![h].missed = FALSE]
  PROVE  /\ hub'[h].rows = hub[h].rows /\ hub'[h].seq = hub[h].seq
         /\ hub'[h].missed = FALSE /\ hub'[h].build = hub[h].build
         /\ hub'[h].backup = hub[h].backup
         /\ \A g \in Hubs \ {h} : hub'[g] = hub[g]
         /\ hub' \in [Hubs -> HubRecord]
<1>1. hub \in [Hubs -> HubRecord] /\ hub[h] \in HubRecord
  BY DEF Typed, HubsOK
<1> DEFINE asked == [hub[h] EXCEPT !.missed = FALSE]
<1>2. hub' = [hub EXCEPT ![h] = asked]
  OBVIOUS
<1>3. /\ asked \in HubRecord /\ asked.rows = hub[h].rows /\ asked.seq = hub[h].seq
      /\ asked.missed = FALSE /\ asked.build = hub[h].build /\ asked.backup = hub[h].backup
  BY <1>1 DEF HubRecord
<1> HIDE DEF asked
<1>4. hub'[h] = asked /\ \A g \in Hubs \ {h} : hub'[g] = hub[g]
  BY <1>1, <1>2
<1>5. hub' \in [Hubs -> HubRecord]
  BY <1>1, <1>2, <1>3
<1> QED
  BY <1>3, <1>4, <1>5

LEMMA SpendOK ==
  ASSUME HubsOK, NEW kind \in Faults, Spend(kind)
  PROVE  left' \in [Faults -> Nat]
BY DEF Spend, HubsOK

LEMMA PartsStay ==
  ASSUME Typed
  PROVE  /\ UNCHANGED hubVars => HubsOK'
         /\ UNCHANGED connectorVars => CursorOK'
         /\ UNCHANGED poll => PollsOK'
         /\ UNCHANGED configVars => ServedOK'
BY DEF Typed, HubsOK, CursorOK, ServedOK, PollsOK, hubVars, connectorVars, configVars

LEMMA HubsTyped ==
  ASSUME Typed, Second \/ \E h \in Hubs : HubCommits(h) \/ HubRestored(h)
  PROVE  Typed'
<1>1. CursorOK' /\ ServedOK' /\ PollsOK'
  BY PartsStay DEF Second, HubCommits, HubRestored
<1>2. CASE Second
  BY <1>1, <1>2 DEF Second, Typed, HubsOK
<1>3. ASSUME NEW h \in Hubs, HubCommits(h) PROVE HubsOK'
  <2>1. hub' \in [Hubs -> HubRecord]
    BY <1>3, CommitAt
  <2> QED
    BY <1>3, <2>1 DEF HubCommits, Typed, HubsOK
<1>4. ASSUME NEW h \in Hubs, HubRestored(h) PROVE HubsOK'
  <2>1. hub' \in [Hubs -> HubRecord]
    BY <1>4, RestoredTo
  <2>2. left' \in [Faults -> Nat]
    BY <1>4, SpendOK DEF HubRestored, Typed, Faults
  <2> QED
    BY <1>4, <2>1, <2>2 DEF HubRestored, Typed, HubsOK
<1> QED
  BY <1>1, <1>2, <1>3, <1>4 DEF Typed

LEMMA AnswerFields ==
  ASSUME PollsOK, NEW p \in Polls
  PROVE  /\ poll[p] \in PollRecord /\ poll[p].answer \in Answers
         /\ poll[p].answer.tree \in Trees /\ poll[p].answer.whole \in Trees
         /\ poll[p].answer.seq \in Nat /\ poll[p].answer.watermark \in 0..MaxClock
         /\ poll[p].answer.bare \in BOOLEAN
BY DEF PollsOK, PollRecord, Answers

LEMMA GoodOK ==
  ASSUME Typed, NEW p \in Polls
  PROVE  Good(poll[p].answer) \in Hubs
BY DEF Good, Typed, PollsOK, CursorOK

LEMMA AsksTyped ==
  ASSUME Typed, NEW p \in Polls, Ask(p) \/ Answered(p) \/ AnswerFails(p)
  PROVE  Typed'
<1>1. CursorOK' /\ ServedOK'
  BY PartsStay DEF Ask, Answered, AnswerFails
<1>2. CASE Ask(p)
  <2>1. PollsOK'
    BY ZenonT(60), <1>2 DEF Ask, Typed, CursorOK, PollsOK, PollRecord
  <2> QED
    BY <1>1, <1>2, <2>1, PartsStay DEF Ask, Typed
<1>3. ASSUME NEW a \in Answers, Outcome(p, a), a.kind \in {"tree", "error"} => a.from \in Hubs
      PROVE  PollsOK'
  <2>1. poll' = [poll EXCEPT ![p].answer = a] /\ poll \in [Polls -> PollRecord]
    BY <1>3 DEF Outcome, Typed, PollsOK
  <2>2. poll' \in [Polls -> PollRecord]
    BY <2>1 DEF PollRecord
  <2>3. \A r \in Polls : poll'[r].answer = IF r = p THEN a ELSE poll[r].answer
    BY <2>1 DEF PollRecord
  <2> QED
    BY <1>3, <2>2, <2>3 DEF Typed, PollsOK
<1>4. CASE Answered(p)
  <2>1. PICK h \in Hubs : /\ Outcome(p, Envelope(h, Cursor(p)))
                          /\ hub' = [hub EXCEPT ![h].missed = FALSE]
    BY <1>4 DEF Answered
  <2>2. PollsOK'
    BY ZenonT(60), <1>3, <2>1, EnvelopeOK DEF Typed
  <2>3. HubsOK'
    BY <1>4, <2>1, AskedHub DEF Answered, Typed, HubsOK
  <2> QED
    BY <1>1, <2>2, <2>3 DEF Typed
<1>5. CASE AnswerFails(p)
  <2>1. \A h \in Hubs \cup {NoHub}, kind \in {"down", "degraded", "error"} :
          Failure(h, kind) \in Answers /\ Failure(h, kind).kind = kind /\ Failure(h, kind).from = h
    BY EmptyIsTree DEF Failure, Answers
  <2>2. PollsOK'
    BY <1>3, <1>5, <2>1 DEF AnswerFails
  <2>3. left' \in [Faults -> Nat]
    BY <1>5, SpendOK DEF AnswerFails, Typed, Faults
  <2>4. HubsOK'
    BY <1>5, <2>3 DEF AnswerFails, Typed, HubsOK
  <2> QED
    BY <1>1, <2>2, <2>4 DEF Typed
<1> QED
  BY <1>2, <1>4, <1>5

\* What is served after a poll is a tree, or nothing.
LEMMA FallbackOK ==
  ASSUME Typed, Fallback
  PROVE  ServedOK' /\ left' = left
BY EmptyIsTree DEF Fallback, Typed, ServedOK

LEMMA CoinsOK == ASSUME NEW tree \in Trees PROVE Coins(tree) \in Trees
BY BoundsAssumption DEF Coins, Trees

LEMMA TakeOK ==
  ASSUME Typed, NEW tree \in Trees, Take(tree)
  PROVE  ServedOK' /\ left' \in [Faults -> Nat]
<1>1. CASE tree = lastObtained
  BY <1>1 DEF Take, Typed, ServedOK, HubsOK, configVars
<1>2. CASE tree # lastObtained
  <2>1. ServedOK'
    BY <1>2, CoinsOK DEF Take, Typed, ServedOK
  <2>2. CASE UNCHANGED left
    BY <2>1, <2>2 DEF Typed, HubsOK
  <2>3. CASE Spend("disk")
    BY <2>1, <2>3, SpendOK DEF Typed, Faults
  <2> QED
    BY <1>2, <2>1, <2>2, <2>3 DEF Take
<1> QED
  BY <1>1, <1>2

LEMMA NewConfigsOK ==
  ASSUME Typed, NEW p \in Polls
  PROVE  NewConfigs(poll[p].answer) \in Trees
<1>1. poll[p].answer.tree \in Trees /\ configs \in Trees \cup {NoTree}
  BY AnswerFields DEF Typed, CursorOK
<1>2. ASSUME NEW t \in Trees, NEW delta \in Trees PROVE Merged(t, delta) \in Trees
  BY DEF Merged, Trees
<1> QED
  BY <1>1, <1>2 DEF NewConfigs

LEMMA IdleTyped ==
  ASSUME Typed, NEW p \in Polls, Done(p)
  PROVE  PollsOK'
<1>1. poll' = [poll EXCEPT ![p] = IdlePoll] /\ poll \in [Polls -> PollRecord]
  BY DEF Done, Typed, PollsOK
<1>2. IdlePoll.answer.kind = "none"
  BY DEF IdlePoll, NoAnswer, Failure
<1>3. poll' \in [Polls -> PollRecord] /\ \A r \in Polls : poll'[r] = IF r = p THEN IdlePoll ELSE poll[r]
  BY <1>1, NoAnswerOK
<1> QED
  BY <1>2, <1>3 DEF Typed, PollsOK

LEMMA RefetchTyped ==
  ASSUME Typed, NEW p \in Polls, NEW pc \in {"failover", "regressed"}, Refetch(p, pc)
  PROVE  Typed'
<1>1. HubsOK' /\ ServedOK'
  BY PartsStay DEF Refetch
<1>2. CursorOK'
  BY GoodOK DEF Refetch, Typed, CursorOK
<1>3. poll' = [poll EXCEPT ![p].pc = pc, ![p].answer = NoAnswer] /\ poll \in [Polls -> PollRecord]
  BY DEF Refetch, Typed, PollsOK
<1>4. NoAnswer \in Answers /\ NoAnswer.kind = "none"
  BY NoAnswerOK DEF NoAnswer, Failure
<1>5. \A r \in Polls : poll'[r] = IF r = p THEN [[poll[p] EXCEPT !.pc = pc] EXCEPT !.answer = NoAnswer]
                                          ELSE poll[r]
  BY <1>3 DEF PollRecord
<1>6. [[poll[p] EXCEPT !.pc = pc] EXCEPT !.answer = NoAnswer] \in PollRecord
  BY ZenonT(60), <1>3, <1>4 DEF PollRecord
<1>7. poll' \in [Polls -> PollRecord]
  <2>1. DOMAIN poll' = Polls /\ poll' = [r \in Polls |-> poll'[r]]
    BY <1>3
  <2>2. \A r \in Polls : poll'[r] \in PollRecord
    BY <1>3, <1>5, <1>6
  <2> QED
    BY <2>1, <2>2
<1>8. \A r \in Polls : poll'[r].answer = IF r = p THEN NoAnswer ELSE poll[r].answer
  BY <1>3, <1>5 DEF PollRecord
<1>9. PollsOK'
  BY <1>4, <1>7, <1>8 DEF Typed, PollsOK
<1> QED
  BY <1>1, <1>2, <1>9 DEF Typed

LEMMA ApplyTyped ==
  ASSUME Typed, NEW p \in Polls, Apply(p)
  PROVE  Typed'
<1> DEFINE a == poll[p].answer
<1>1. /\ lastGood' = Good(a) /\ lastSeq' = a.seq /\ lastWatermark' = (IF a.bare THEN 0 ELSE a.watermark)
      /\ configs' = NewConfigs(a) /\ whole' = a.whole /\ cursorHub' = Good(a)
      /\ Done(p) /\ Serve(configs') /\ UNCHANGED <<hub, clock, version>>
  BY DEF Apply
<1>2. PollsOK'
  BY <1>1, IdleTyped
<1>3. CursorOK'
  BY <1>1, AnswerFields, NewConfigsOK, GoodOK DEF CursorOK, Typed
<1>4. ServedOK' /\ left' \in [Faults -> Nat]
  <2>1. configs' \in Trees /\ (Take(configs') \/ Fallback)
    BY <1>1, NewConfigsOK DEF Serve
  <2>2. CASE Take(configs')
    BY <2>1, <2>2, TakeOK
  <2>3. CASE Fallback
    BY <2>3, FallbackOK DEF Typed, HubsOK
  <2> QED
    BY <2>1, <2>2, <2>3
<1>5. HubsOK'
  BY <1>1, <1>4 DEF Typed, HubsOK
<1> QED
  BY <1>2, <1>3, <1>4, <1>5 DEF Typed

LEMMA GiveUpTyped ==
  ASSUME Typed, NEW p \in Polls, GiveUp(p)
  PROVE  Typed'
<1>1. PollsOK'
  BY IdleTyped DEF GiveUp
<1>2. CursorOK'
  BY GoodOK DEF GiveUp, Typed, CursorOK
<1>3. ServedOK' /\ left' = left
  BY FallbackOK DEF GiveUp
<1>4. HubsOK'
  BY <1>3 DEF GiveUp, Typed, HubsOK
<1> QED
  BY <1>1, <1>2, <1>3, <1>4 DEF Typed

LEMMA RestartTyped ==
  ASSUME Typed, Restart
  PROVE  Typed'
<1>1. PollsOK'
  BY NoAnswerOK DEF Restart, PollsOK, IdlePoll, NoAnswer, Failure
<1>2. left' \in [Faults -> Nat]
  BY SpendOK DEF Restart, Typed, Faults
<1>3. HubsOK'
  BY <1>2 DEF Restart, Typed, HubsOK
<1>4. CursorOK' /\ ServedOK'
  BY DEF Restart, Typed, CursorOK, ServedOK
<1> QED
  BY <1>1, <1>3, <1>4 DEF Typed

LEMMA StepTyped == Typed /\ [Next]_vars => Typed'
<1> SUFFICES ASSUME Typed, [Next]_vars PROVE Typed'
  OBVIOUS
<1>1. CASE UNCHANGED vars
  BY <1>1, PartsStay DEF vars, Typed, HubsOK, PollsOK, hubVars
<1>2. CASE Second \/ \E h \in Hubs : HubCommits(h) \/ HubRestored(h)
  BY <1>2, HubsTyped
<1>3. ASSUME NEW p \in Polls, Step(p) PROVE Typed'
  <2>1. CASE Ask(p) \/ Answered(p) \/ AnswerFails(p)
    BY <2>1, AsksTyped
  <2>2. CASE FailOver(p) \/ Regress(p)
    BY <2>2, RefetchTyped DEF FailOver, Regress
  <2> QED
    BY <1>3, <2>1, <2>2, GiveUpTyped, ApplyTyped DEF Step
<1> QED
  BY <1>1, <1>2, <1>3, RestartTyped DEF Next

-----------------------------------------------------------------------------
(* Coins.                                                                  *)

\* A copy on disk with coins in it is beside a served config without only
\* after a hub said that it has none.
DiskServed == HasCoins(disk) => HasCoins(served) \/ served = NoTree \/ HubSaysNone
StillCoins ==
  /\ HasCoins(disk) => HasCoins(disk')
  /\ HasCoins(served) \/ HasCoins(disk) =>
       HasCoins(served') \/ served' = NoTree \/ HubSaysNone'

LEMMA FallbackKeeps ==
  ASSUME DiskServed, Fallback
  PROVE  DiskServed' /\ StillCoins
BY EmptyIsTree DEF DiskServed, StillCoins, Fallback, HasCoins, HubSaysNone

LEMMA TakeKeeps ==
  ASSUME DiskServed, NEW tree \in Trees, tree # Empty, Take(tree)
  PROVE  DiskServed' /\ StillCoins
<1>1. CASE tree = lastObtained
  BY <1>1 DEF Take, configVars, DiskServed, StillCoins, HasCoins, HubSaysNone
<1>2. CASE tree # lastObtained
  <2>1. lastObtained' = tree /\ served' = Coins(tree) /\ (HasCoins(disk) => HasCoins(disk'))
    BY <1>2 DEF Take, Persisted
  <2>2. HasCoins(served') \/ HubSaysNone'
    BY <2>1, EmptyIsTree DEF HubSaysNone
  <2> QED
    BY <2>1, <2>2 DEF DiskServed, StillCoins
<1> QED
  BY <1>1, <1>2

LEMMA StepKeepsCoins == Typed /\ DiskServed /\ [Next]_vars => DiskServed' /\ StillCoins
<1> SUFFICES ASSUME Typed, DiskServed, [Next]_vars PROVE DiskServed' /\ StillCoins
  OBVIOUS
<1>1. ASSUME UNCHANGED configVars PROVE DiskServed' /\ StillCoins
  BY <1>1 DEF DiskServed, StillCoins, configVars, HubSaysNone
<1>2. ASSUME NEW p \in Polls, Step(p) PROVE DiskServed' /\ StillCoins
  <2>1. CASE Ask(p) \/ Answered(p) \/ AnswerFails(p) \/ FailOver(p) \/ Regress(p)
    BY <1>1, <2>1 DEF Ask, Answered, AnswerFails, FailOver, Regress, Refetch
  <2>2. CASE GiveUp(p)
    BY <2>2, FallbackKeeps DEF GiveUp
  <2>3. CASE Apply(p)
    <3>1. Serve(configs') /\ configs' \in Trees
      BY <2>3, NewConfigsOK DEF Apply
    <3> QED
      BY <3>1, FallbackKeeps, TakeKeeps DEF Serve
  <2> QED
    BY <1>2, <2>1, <2>2, <2>3 DEF Step
<1>3. CASE Restart
  BY <1>3 DEF Restart, DiskServed, StillCoins
<1>4. CASE Second \/ \E h \in Hubs : HubCommits(h) \/ HubRestored(h)
  BY <1>1, <1>4 DEF Second, HubCommits, HubRestored
<1> QED
  BY <1>1, <1>2, <1>3, <1>4 DEF Next, vars

(* However many polls are in flight and whatever fails or is restored in   *)
(* any order, coins on disk stay there, and an explorer with coins to      *)
(* serve, or with a copy of them on disk, serves none only after a hub     *)
(* answered with a tree that has rows and no coin (hubFallbackOutcome,     *)
(* hubUsableUpdate).                                                       *)
THEOREM CoinsSurvive == Spec => KeepsCoins
<1>1. Init => Typed /\ DiskServed
  BY InitTyped DEF Init, DiskServed, HasCoins
<1>2. Typed /\ DiskServed /\ [Next]_vars => Typed' /\ DiskServed' /\ [StillCoins]_vars
  BY StepTyped, StepKeepsCoins
<1>3. Spec => [][StillCoins]_vars
  BY <1>1, <1>2, PTL DEF Spec
<1> QED
  BY <1>3, PTL DEF KeepsCoins, StillCoins

-----------------------------------------------------------------------------
(* The inductive invariant behind WholeTree and NoRowStranded.             *)

\* Rows are dated, and a hub knows a version of its rows by its sequence number
\* as long as it has not lost it.
Dated(rows) == \A q \in Params : rows[q].at <= clock /\ (rows[q].at # 0 => rows[q].version # 0)
VersionsOf(rows) == [q \in Params |-> rows[q].version]
HubSound(h) ==
  /\ Dated(hub[h].rows) /\ Dated(hub[h].backup.rows)
  /\ hub[h].backup.seq <= hub[h].seq
  /\ hub[h].seq = hub[h].backup.seq => hub[h].rows = hub[h].backup.rows
HubsSound == \A h \in Hubs : HubSound(h)

\* A tree that hub h served with this watermark and sequence number.
Served(h, tree, watermark, seq) ==
  /\ watermark <= clock /\ hub[h].backup.seq <= seq
  /\ seq = hub[h].backup.seq => tree = VersionsOf(hub[h].backup.rows)
\* What it changed since is dated at the watermark or later ...
Follows(h, tree, watermark, seq) ==
  /\ seq <= hub[h].seq
  /\ \A q \in Params : hub[h].rows[q].version = tree[q] \/ watermark <= hub[h].rows[q].at
\* ... or it lost history and nobody has asked it since.
LostSince(h, seq) == hub[h].missed /\ hub[h].seq < seq
Kept(h, tree, watermark, seq) == Follows(h, tree, watermark, seq) \/ LostSince(h, seq)

AnswerSound(p) ==
  LET a == poll[p].answer IN
  a.kind = "tree" =>
    /\ a.bare = Bare(a.from)
    /\ a.bare \/ Cursor(p) = 0 => a.tree = a.whole
    /\ ~a.bare => /\ Served(a.from, a.whole, a.watermark, a.seq)
                  /\ Kept(a.from, a.whole, a.watermark, a.seq)
    /\ poll[p].pc = "first" /\ poll[p].sent > 0 /\ a.from = cursorHub =>
         a.seq < lastSeq \/ Merged(whole, a.tree) = a.whole

PollSound(p) ==
  /\ poll[p].pc = "idle" => poll[p].answer = NoAnswer
  /\ poll[p].pc = "first" => poll[p].sent = lastWatermark /\ poll[p].cursorHub = cursorHub
  /\ poll[p].pc \in {"failover", "regressed"} => lastWatermark = 0 /\ configs = NoTree

\* An answer on its way that says what the cursor's hub has lost.
TellsOfLoss(p) ==
  LET a == poll[p].answer
  IN  a.kind = "tree" /\ a.from = cursorHub /\ a.seq < lastSeq

CursorSound ==
  lastWatermark > 0 =>
    /\ configs # NoTree /\ cursorHub \in Hubs /\ ~Bare(cursorHub)
    /\ Served(cursorHub, whole, lastWatermark, lastSeq)
    /\ Kept(cursorHub, whole, lastWatermark, lastSeq) \/ \E p \in Polls : TellsOfLoss(p)

PollsSound == \A p \in Polls : PollSound(p) /\ AnswerSound(p)
ConfigInv == HubsSound /\ CursorSound /\ WholeTree /\ PollsSound

\* A delta asked for one second behind the watermark brings all that changed.
LEMMA DeltaIsWhole ==
  ASSUME Typed, NEW h \in Hubs, HubSound(h), NEW watermark \in 1..MaxClock, NEW tree, NEW seq,
         Follows(h, tree, watermark, seq)
  PROVE  Merged(tree, Envelope(h, DeltaCursor(watermark)).tree) = TreeOf(h)
<1> DEFINE cursor == DeltaCursor(watermark)
           delta == Envelope(h, cursor).tree
<1>1. cursor = watermark - 1
  BY DEF DeltaCursor
<1>2. delta = [q \in Params |-> IF Covers(h, cursor, q) THEN hub[h].rows[q].version ELSE 0]
  BY EnvelopeOK DEF Typed
<1>3. ASSUME NEW q \in Params
      PROVE  (IF delta[q] # 0 THEN delta[q] ELSE tree[q]) = hub[h].rows[q].version
  <2>1. hub[h].rows[q].version \in Nat /\ hub[h].rows[q].at \in Nat
    BY HubFields DEF Typed
  <2>2. delta[q] = IF Covers(h, cursor, q) THEN hub[h].rows[q].version ELSE 0
    BY <1>2
  <2>3. CASE hub[h].rows[q].version = tree[q]
    BY <2>2, <2>3
  <2>4. CASE watermark <= hub[h].rows[q].at
    <3>1. Covers(h, cursor, q)
      BY <1>1, <2>1, <2>4 DEF Covers
    <3>2. hub[h].rows[q].at # 0
      BY <2>1, <2>4
    <3>3. hub[h].rows[q].version # 0
      BY <3>2 DEF HubSound, Dated
    <3> QED
      BY <2>2, <3>1, <3>3
  <2> QED
    BY <2>3, <2>4 DEF Follows
<1> QED
  BY <1>3 DEF Merged, TreeOf

LEMMA InitSound == Init => ConfigInv
<1> SUFFICES ASSUME Init PROVE ConfigInv
  OBVIOUS
<1>1. PICK n \in {0, 1}, first \in Firsts, build \in [Hubs -> Builds] :
        hub = [h \in Hubs |-> [rows |-> Rows(first[h], 1), seq |-> 1, build |-> build[h],
                              missed |-> FALSE, backup |-> [rows |-> Rows(first[h], n), seq |-> n]]]
  BY DEF Init
<1>2. \A q \in Params, k \in {0, 1} : Dated(Rows(q, k))
  BY DEF Init, Dated, Rows
<1>3. ASSUME NEW h \in Hubs PROVE HubSound(h)
  <2> DEFINE first_h == first[h]
  <2>1. /\ first_h \in Params
        /\ hub[h].rows = Rows(first_h, 1) /\ hub[h].seq = 1
        /\ hub[h].backup.rows = Rows(first_h, n) /\ hub[h].backup.seq = n
    <3> HIDE DEF Rows
    <3> QED
      BY <1>1, BoundsAssumption
  <2>2. Dated(hub[h].rows) /\ Dated(hub[h].backup.rows)
    BY <1>2, <2>1
  <2>3. n <= 1 /\ (1 = n => Rows(first_h, 1) = Rows(first_h, n))
    OBVIOUS
  <2> HIDE DEF Rows, first_h
  <2> QED
    BY <2>1, <2>2, <2>3 DEF HubSound
<1>4. CursorSound /\ WholeTree
  BY DEF Init, CursorSound, WholeTree
<1>5. PollsSound
  BY DEF Init, PollsSound, PollSound, AnswerSound, IdlePoll, NoAnswer, Failure
<1> QED
  BY <1>3, <1>4, <1>5 DEF ConfigInv, HubsSound

\* What the hubs do: commit, lose history, and the clock.
LEMMA HubsStaySound ==
  ASSUME Typed, HubsSound, Second \/ \E h \in Hubs : HubCommits(h) \/ HubRestored(h)
  PROVE  HubsSound'
<1>1. ASSUME Second PROVE HubsSound'
  <2>1. hub' = hub /\ clock' = clock + 1 /\ clock \in Nat
    BY <1>1 DEF Second, Typed, HubsOK
  <2>2. ASSUME NEW h \in Hubs PROVE HubSound(h)'
    <3>4. /\ hub[h].rows \in [Params -> [version : 0..MaxVersion, at : 0..MaxClock]]
          /\ hub[h].backup.rows \in [Params -> [version : 0..1, at : 0..1]]
      BY HubFields DEF Typed
    <3>1. \A q \in Params : hub[h].rows[q].at \in Nat /\ hub[h].backup.rows[q].at \in Nat
      BY <3>4
    <3>2. Dated(hub[h].rows) /\ Dated(hub[h].backup.rows)
      BY DEF HubsSound, HubSound
    <3>3. Dated(hub[h].rows)' /\ Dated(hub[h].backup.rows)'
      BY <2>1, <3>1, <3>2 DEF Dated
    <3> QED
      BY <2>1, <3>3 DEF HubsSound, HubSound
  <2> QED
    BY <2>2 DEF HubsSound
<1>2. ASSUME NEW g \in Hubs, HubCommits(g) PROVE HubsSound'
  <2>1. PICK q \in Params :
          /\ hub'[g].rows = [hub[g].rows EXCEPT ![q] = [version |-> version + 1, at |-> clock]]
          /\ hub'[g].seq = hub[g].seq + 1 /\ hub'[g].backup = hub[g].backup
          /\ \A h \in Hubs \ {g} : hub'[h] = hub[h]
    BY <1>2, CommitAt
  <2>2. clock' = clock /\ clock \in Nat /\ version \in Nat
    BY <1>2 DEF HubCommits, Typed, HubsOK
  <2>3. HubSound(g) /\ hub[g].rows \in [Params -> [version : 0..MaxVersion, at : 0..MaxClock]]
        /\ hub[g].seq \in Nat /\ hub[g].backup.seq \in Nat
    <3>1. HubSound(g)
      BY DEF HubsSound
    <3> QED
      BY <3>1, HubFields DEF Typed
  <2>4. Dated(hub[g].rows)' /\ Dated(hub[g].backup.rows)'
    BY <2>1, <2>2, <2>3 DEF HubSound, Dated
  <2>5. HubSound(g)'
    BY <2>1, <2>3, <2>4 DEF HubSound
  <2>6. \A h \in Hubs \ {g} : HubSound(h)'
    BY <2>1, <2>2 DEF HubsSound, HubSound, Dated
  <2> QED
    BY <2>5, <2>6 DEF HubsSound
<1>3. ASSUME NEW g \in Hubs, HubRestored(g) PROVE HubsSound'
  <2>1. /\ hub'[g].rows = hub[g].backup.rows /\ hub'[g].seq = hub[g].backup.seq
        /\ hub'[g].backup = hub[g].backup /\ \A h \in Hubs \ {g} : hub'[h] = hub[h]
    BY <1>3, RestoredTo
  <2>2. hub[g].backup.seq \in 0..1
    BY HubFields DEF Typed
  <2>5. clock' = clock
    BY <1>3 DEF HubRestored
  <2>3. HubSound(g)'
    BY <2>5, <2>1, <2>2 DEF HubsSound, HubSound, Dated
  <2>4. \A h \in Hubs \ {g} : HubSound(h)'
    BY <2>1, <2>5 DEF HubsSound, HubSound, Dated
  <2> QED
    BY <2>3, <2>4 DEF HubsSound
<1> QED
  BY <1>1, <1>2, <1>3

\* What a hub once served stays something it served.
LEMMA HubsStayServed ==
  ASSUME Typed, Second \/ \E g \in Hubs : HubCommits(g) \/ HubRestored(g),
         NEW h \in Hubs, NEW tree, NEW watermark \in Nat, NEW seq \in Nat,
         Served(h, tree, watermark, seq)
  PROVE  Served(h, tree, watermark, seq)'
<1>1. CASE Second
  <2>1. hub' = hub /\ clock' = clock + 1 /\ clock \in Nat
    BY <1>1 DEF Second, Typed, HubsOK
  <2> QED
    BY <2>1 DEF Served
<1>2. ASSUME NEW g \in Hubs, HubCommits(g) \/ HubRestored(g) PROVE Served(h, tree, watermark, seq)'
  <2>1. hub'[g].backup = hub[g].backup /\ \A other \in Hubs \ {g} : hub'[other] = hub[other]
    BY <1>2, CommitAt, RestoredTo
  <2>2. clock' = clock
    BY <1>2 DEF HubCommits, HubRestored
  <2> QED
    BY <2>1, <2>2 DEF Served
<1> QED
  BY <1>1, <1>2

\* What it held then, it still holds or has replaced since, or has lost unasked.
LEMMA KnownStays ==
  ASSUME Typed, Second \/ \E g \in Hubs : HubCommits(g) \/ HubRestored(g),
         NEW h \in Hubs, NEW tree, NEW watermark \in Nat, NEW seq \in Nat,
         Served(h, tree, watermark, seq), Kept(h, tree, watermark, seq)
  PROVE  Kept(h, tree, watermark, seq)'
<1>1. CASE Second
  <2>1. hub' = hub /\ clock' = clock + 1 /\ clock \in Nat
    BY <1>1 DEF Second, Typed, HubsOK
  <2> QED
    BY <2>1 DEF Served, Kept, Follows, LostSince
<1>2. ASSUME NEW g \in Hubs, HubCommits(g) PROVE Kept(h, tree, watermark, seq)'
  <2>1. PICK q \in Params :
          /\ hub'[g].rows = [hub[g].rows EXCEPT ![q] = [version |-> version + 1, at |-> clock]]
          /\ hub'[g].seq = hub[g].seq + 1 /\ hub'[g].backup = hub[g].backup
          /\ \A other \in Hubs \ {g} : hub'[other] = hub[other]
    BY <1>2, CommitAt
  <2>2. clock' = clock /\ ~hub[g].missed
    BY <1>2 DEF HubCommits
  <2>3. CASE h # g
    BY <2>1, <2>2, <2>3 DEF Served, Kept, Follows, LostSince
  <2>4. CASE h = g
    <3>1. Follows(h, tree, watermark, seq)
      BY <2>2, <2>4 DEF Kept, LostSince
    <3>2. hub[h].rows \in [Params -> [version : 0..MaxVersion, at : 0..MaxClock]] /\ hub[h].seq \in Nat
      BY HubFields DEF Typed
    <3>3. seq <= hub'[h].seq
      BY <2>1, <2>4, <3>1, <3>2 DEF Follows
    <3>4. hub'[h].rows[q].at = clock
          /\ \A other \in Params \ {q} : hub'[h].rows[other] = hub[h].rows[other]
      BY <2>1, <2>4, <3>2
    <3>5. \A other \in Params : hub'[h].rows[other].version = tree[other]
                                  \/ watermark <= hub'[h].rows[other].at
      BY <3>1, <3>4 DEF Follows, Served
    <3> QED
      BY <2>1, <2>2, <2>4, <3>3, <3>5 DEF Served, Kept, Follows
  <2> QED
    BY <2>3, <2>4
<1>3. ASSUME NEW g \in Hubs, HubRestored(g) PROVE Kept(h, tree, watermark, seq)'
  <2>1. /\ hub'[g].rows = hub[g].backup.rows /\ hub'[g].seq = hub[g].backup.seq
        /\ hub'[g].missed = TRUE /\ hub'[g].backup = hub[g].backup
        /\ \A other \in Hubs \ {g} : hub'[other] = hub[other]
    BY <1>3, RestoredTo
  <2>2. clock' = clock
    BY <1>3 DEF HubRestored
  <2>3. CASE h # g
    BY <2>1, <2>2, <2>3 DEF Served, Kept, Follows, LostSince
  <2>4. CASE h = g
    <3>2. hub[h].backup.seq \in 0..1
      BY HubFields DEF Typed
    <3>3. CASE seq = hub[h].backup.seq
      <4>1. tree = VersionsOf(hub[h].backup.rows)
        BY <3>3 DEF Served
      <4>2. \A q \in Params : hub'[h].rows[q].version = tree[q]
        BY <2>1, <2>4, <4>1 DEF VersionsOf
      <4> QED
        BY <2>1, <2>4, <3>2, <3>3, <4>2 DEF Kept, Follows
    <3>4. CASE seq # hub[h].backup.seq
      <4>1. hub'[h].seq < seq
        BY <2>1, <2>4, <3>2, <3>4 DEF Served
      <4> QED
        BY <2>1, <2>4, <4>1 DEF Kept, LostSince
    <3> QED
      BY <3>3, <3>4
  <2> QED
    BY <2>3, <2>4
<1> QED
  BY <1>1, <1>2, <1>3

LEMMA BuildsStay ==
  ASSUME Typed, Second \/ \E g \in Hubs : HubCommits(g) \/ HubRestored(g), NEW h \in Hubs
  PROVE  Bare(h)' = Bare(h)
<1>1. CASE Second
  BY <1>1 DEF Second, Bare
<1>2. ASSUME NEW g \in Hubs, HubCommits(g) \/ HubRestored(g) PROVE Bare(h)' = Bare(h)
  <2>1. hub'[g].build = hub[g].build /\ \A other \in Hubs \ {g} : hub'[other] = hub[other]
    BY <1>2, CommitAt, RestoredTo
  <2> QED
    BY <2>1 DEF Bare
<1> QED
  BY <1>1, <1>2

LEMMA HubsMoveOn ==
  ASSUME Typed, ConfigInv, Second \/ \E h \in Hubs : HubCommits(h) \/ HubRestored(h)
  PROVE  ConfigInv'
<1>1. UNCHANGED <<connectorVars, poll>>
  BY DEF Second, HubCommits, HubRestored
<1>2. HubsSound'
  BY HubsStaySound DEF ConfigInv
<1>3. WholeTree'
  BY <1>1 DEF ConfigInv, WholeTree, connectorVars
<1>4. CursorSound'
  <2>1. SUFFICES ASSUME lastWatermark > 0 PROVE CursorSound'
    BY <1>1 DEF CursorSound, connectorVars
  <2>2. /\ configs # NoTree /\ cursorHub \in Hubs /\ ~Bare(cursorHub)
        /\ Served(cursorHub, whole, lastWatermark, lastSeq)
        /\ Kept(cursorHub, whole, lastWatermark, lastSeq) \/ \E p \in Polls : TellsOfLoss(p)
    BY <2>1 DEF ConfigInv, CursorSound
  <2>3. ASSUME NEW p \in Polls PROVE TellsOfLoss(p)' = TellsOfLoss(p)
    BY <1>1 DEF TellsOfLoss, connectorVars
  <2>4. PICK h, tree, watermark, seq :
          h = cursorHub /\ tree = whole /\ watermark = lastWatermark /\ seq = lastSeq
    OBVIOUS
  <2>5. h \in Hubs /\ watermark \in Nat /\ seq \in Nat
    BY <2>2, <2>4 DEF Typed, CursorOK
  <2>6. Served(h, tree, watermark, seq)'
    BY <2>2, <2>4, <2>5, HubsStayServed
  <2>7. Kept(h, tree, watermark, seq)' \/ \E p \in Polls : TellsOfLoss(p)'
    BY <2>2, <2>3, <2>4, <2>5, KnownStays
  <2>8. h = cursorHub' /\ tree = whole' /\ watermark = lastWatermark' /\ seq = lastSeq' /\ configs' = configs
    BY <1>1, <2>4 DEF connectorVars
  <2>9. ~Bare(h)'
    BY <2>2, <2>4, <2>5, BuildsStay
  <2>10. /\ Served(cursorHub, whole, lastWatermark, lastSeq)' /\ ~Bare(cursorHub)'
         /\ Kept(cursorHub, whole, lastWatermark, lastSeq)' \/ \E p \in Polls : TellsOfLoss(p)'
    BY <2>6, <2>7, <2>8, <2>9 DEF Served, Kept, Follows, LostSince, Bare
  <2> QED
    BY <2>2, <2>5, <2>8, <2>10, <2>4 DEF CursorSound
<1>5. PollsSound'
  <2>1. ASSUME NEW p \in Polls PROVE PollSound(p)'
    BY <1>1 DEF ConfigInv, PollsSound, PollSound, connectorVars
  <2>2. ASSUME NEW p \in Polls, poll[p].answer.kind = "tree" PROVE AnswerSound(p)'
    <3> DEFINE a == poll[p].answer
    <3>1. PICK answer : answer = a
      OBVIOUS
    <3>2. /\ answer.from \in Hubs /\ answer.watermark \in Nat /\ answer.seq \in Nat
      BY <2>2, <3>1, AnswerFields DEF Typed, PollsOK
    <3>3. /\ answer.bare = Bare(answer.from)
          /\ answer.bare \/ Cursor(p) = 0 => answer.tree = answer.whole
          /\ ~answer.bare => /\ Served(answer.from, answer.whole, answer.watermark, answer.seq)
                             /\ Kept(answer.from, answer.whole, answer.watermark, answer.seq)
          /\ poll[p].pc = "first" /\ poll[p].sent > 0 /\ answer.from = cursorHub =>
               answer.seq < lastSeq \/ Merged(whole, answer.tree) = answer.whole
      BY <2>2, <3>1 DEF ConfigInv, PollsSound, AnswerSound
    <3>4. /\ Bare(answer.from)' = Bare(answer.from)
          /\ ~answer.bare => /\ Served(answer.from, answer.whole, answer.watermark, answer.seq)'
                             /\ Kept(answer.from, answer.whole, answer.watermark, answer.seq)'
      BY <3>2, <3>3, KnownStays, HubsStayServed, BuildsStay
    <3>5. a' = answer /\ Cursor(p)' = Cursor(p) /\ poll' = poll
          /\ cursorHub' = cursorHub /\ lastSeq' = lastSeq /\ whole' = whole
      BY <1>1, <3>1 DEF Cursor, connectorVars
    <3>6. /\ (a.bare = Bare(a.from))'
          /\ (~a.bare)' => /\ Served(a.from, a.whole, a.watermark, a.seq)'
                          /\ Kept(a.from, a.whole, a.watermark, a.seq)'
      BY <3>3, <3>4, <3>5 DEF Served, Kept, Follows, LostSince, Bare
    <3>7. /\ (a.bare \/ Cursor(p) = 0 => a.tree = a.whole)'
          /\ (poll[p].pc = "first" /\ poll[p].sent > 0 /\ a.from = cursorHub =>
               a.seq < lastSeq \/ Merged(whole, a.tree) = a.whole)'
      BY <3>1, <3>3, <3>5 DEF Merged
    <3> QED
      BY <3>6, <3>7 DEF AnswerSound
  <2>3. ASSUME NEW p \in Polls, poll[p].answer.kind # "tree" PROVE AnswerSound(p)'
    BY <1>1, <2>3 DEF AnswerSound
  <2> QED
    BY <2>1, <2>2, <2>3 DEF PollsSound
<1> QED
  BY <1>2, <1>3, <1>4, <1>5 DEF ConfigInv

\* The polls, one at a time.
OnePoll == \A p, r \in Polls : p = r

LEMMA CursorStays ==
  ASSUME ConfigInv, UNCHANGED <<hub, clock, lastWatermark, lastSeq, cursorHub, configs, whole>>,
         \A p \in Polls : TellsOfLoss(p) => TellsOfLoss(p)'
  PROVE  HubsSound' /\ CursorSound' /\ WholeTree'
<1>1. HubsSound' /\ WholeTree'
  BY DEF ConfigInv, HubsSound, HubSound, Dated, WholeTree
<1>2. CursorSound'
  BY DEF ConfigInv, CursorSound, Served, Kept, Follows, LostSince, Bare
<1> QED
  BY SMTT(60), <1>1, <1>2

LEMMA AskKeeps ==
  ASSUME Typed, OnePoll, ConfigInv, NEW p \in Polls, Ask(p)
  PROVE  ConfigInv'
<1>1. poll' = [poll EXCEPT ![p] = [@ EXCEPT !.pc = "first", !.sent = lastWatermark, !.cursorHub = cursorHub]]
      /\ poll \in [Polls -> PollRecord]
  BY DEF Ask, Typed, PollsOK
<1>2. /\ poll'[p].pc = "first" /\ poll'[p].sent = lastWatermark /\ poll'[p].cursorHub = cursorHub
      /\ poll'[p].answer = poll[p].answer
  BY <1>1 DEF PollRecord
<1>3. poll[p].answer = NoAnswer
  BY DEF ConfigInv, PollsSound, PollSound, Ask
<1>4. UNCHANGED <<hub, clock, lastWatermark, lastSeq, cursorHub, configs, whole>>
  BY DEF Ask, hubVars, connectorVars
<1>5. NoAnswer.kind # "tree"
  BY DEF NoAnswer, Failure
<1>6. PollSound(p)' /\ AnswerSound(p)'
  BY <1>2, <1>3, <1>4, <1>5 DEF PollSound, AnswerSound
<1>7. HubsSound' /\ CursorSound' /\ WholeTree'
  BY <1>3, <1>4, <1>5, CursorStays DEF OnePoll, TellsOfLoss
<1> QED
  BY <1>6, <1>7 DEF ConfigInv, PollsSound, OnePoll

\* An outcome that is no tree says nothing of any hub.
LEMMA FailureKeeps ==
  ASSUME Typed, OnePoll, ConfigInv, NEW p \in Polls, AnswerFails(p)
  PROVE  ConfigInv'
<1>1. PICK a : /\ a.kind # "tree" /\ a # NoAnswer
               /\ Outcome(p, a)
  <2>1. \A h \in Hubs \cup {NoHub}, kind \in {"down", "degraded", "error"} :
          Failure(h, kind).kind = kind
    BY DEF Failure
  <2>2. NoAnswer.kind = "none"
    BY DEF NoAnswer, Failure
  <2> QED
    BY <2>1, <2>2 DEF AnswerFails
<1>2. poll' = [poll EXCEPT ![p].answer = a] /\ poll \in [Polls -> PollRecord]
  BY <1>1 DEF Outcome, Typed, PollsOK
<1>3. /\ poll'[p].pc = poll[p].pc /\ poll'[p].sent = poll[p].sent
      /\ poll'[p].cursorHub = poll[p].cursorHub /\ poll'[p].answer = a
  BY <1>2 DEF PollRecord
<1>4. UNCHANGED <<hub, clock, lastWatermark, lastSeq, cursorHub, configs, whole>>
      /\ poll[p].answer = NoAnswer /\ poll[p].pc # "idle"
  BY DEF AnswerFails, connectorVars
<1>5. NoAnswer.kind # "tree"
  BY DEF NoAnswer, Failure
<1>6. PollSound(p)' /\ AnswerSound(p)'
  BY <1>1, <1>3, <1>4 DEF PollSound, AnswerSound, ConfigInv, PollsSound
<1>7. HubsSound' /\ CursorSound' /\ WholeTree'
  BY <1>4, <1>5, CursorStays DEF OnePoll, TellsOfLoss
<1> QED
  BY <1>6, <1>7 DEF ConfigInv, PollsSound, OnePoll

LEMMA IdleSound ==
  ASSUME Typed, OnePoll, NEW p \in Polls, Done(p)
  PROVE  PollsSound'
<1>1. poll' = [poll EXCEPT ![p] = IdlePoll] /\ poll \in [Polls -> PollRecord]
  BY DEF Done, Typed, PollsOK
<1>2. poll'[p].pc = "idle" /\ poll'[p].answer = NoAnswer /\ NoAnswer.kind # "tree"
  BY <1>1 DEF IdlePoll, NoAnswer, Failure
<1>3. PollSound(p)' /\ AnswerSound(p)'
  BY <1>2 DEF PollSound, AnswerSound
<1> QED
  BY <1>3 DEF PollsSound, OnePoll

LEMMA GiveUpKeeps ==
  ASSUME Typed, OnePoll, ConfigInv, NEW p \in Polls, GiveUp(p)
  PROVE  ConfigInv'
<1>1. PollsSound'
  BY IdleSound DEF GiveUp
<1>2. UNCHANGED <<hub, clock, lastWatermark, lastSeq, cursorHub, configs, whole>>
      /\ poll[p].answer.kind # "tree"
  BY DEF GiveUp
<1>3. HubsSound' /\ CursorSound' /\ WholeTree'
  BY <1>2, CursorStays DEF OnePoll, TellsOfLoss
<1> QED
  BY <1>1, <1>3 DEF ConfigInv

LEMMA RefetchKeeps ==
  ASSUME Typed, OnePoll, ConfigInv, NEW p \in Polls, NEW pc \in {"failover", "regressed"}, Refetch(p, pc)
  PROVE  ConfigInv'
<1>1. poll' = [poll EXCEPT ![p].pc = pc, ![p].answer = NoAnswer] /\ poll \in [Polls -> PollRecord]
  BY DEF Refetch, Typed, PollsOK
<1>2. poll'[p].pc = pc /\ poll'[p].answer = NoAnswer /\ NoAnswer.kind # "tree"
  BY <1>1 DEF PollRecord, NoAnswer, Failure
<1>3. hub' = hub /\ clock' = clock /\ lastWatermark' = 0 /\ configs' = NoTree
  BY DEF Refetch, hubVars
<1>4. PollSound(p)' /\ AnswerSound(p)'
  BY <1>2, <1>3 DEF PollSound, AnswerSound
<1>5. HubsSound' /\ CursorSound' /\ WholeTree'
  BY <1>3 DEF ConfigInv, HubsSound, HubSound, Dated, CursorSound, WholeTree
<1> QED
  BY <1>4, <1>5 DEF ConfigInv, PollsSound, OnePoll

LEMMA RestartKeeps ==
  ASSUME Typed, ConfigInv, Restart
  PROVE  ConfigInv'
<1>1. NoAnswer.kind # "tree"
  BY DEF NoAnswer, Failure
<1>2. \A p \in Polls : poll'[p].pc = "idle" /\ poll'[p].answer = NoAnswer
  BY DEF Restart, IdlePoll
<1>3. PollsSound'
  BY <1>1, <1>2 DEF PollsSound, PollSound, AnswerSound
<1>4. HubsSound' /\ CursorSound' /\ WholeTree'
  BY DEF Restart, ConfigInv, HubsSound, HubSound, Dated, CursorSound, WholeTree
<1> QED
  BY <1>3, <1>4 DEF ConfigInv

\* An answer: sound when it leaves the hub, and from then on the hub counts as
\* asked.
LEMMA EnvelopeSound ==
  ASSUME Typed, HubsSound, NEW h \in Hubs, NEW cursor, NEW answer, answer = Envelope(h, cursor)
  PROVE  /\ answer.kind = "tree" /\ answer.from = h /\ answer.whole = TreeOf(h)
         /\ ~Bare(h) => answer.seq = hub[h].seq
         /\ answer.bare = Bare(h)
         /\ answer.bare \/ cursor = 0 => answer.tree = answer.whole
         /\ ~answer.bare => /\ Served(h, answer.whole, answer.watermark, answer.seq)
                            /\ Follows(h, answer.whole, answer.watermark, answer.seq)
<1>1. /\ answer.kind = "tree" /\ answer.from = h /\ answer.bare = Bare(h) /\ answer.whole = TreeOf(h)
      /\ ~Bare(h) => answer.seq = hub[h].seq
      /\ answer.watermark = Watermark(h)
      /\ answer.tree = [q \in Params |-> IF Covers(h, cursor, q) THEN hub[h].rows[q].version ELSE 0]
  BY EnvelopeOK DEF Typed
<1>2. ASSUME Bare(h) \/ cursor = 0 PROVE answer.tree = answer.whole
  BY <1>1, <1>2 DEF Covers, TreeOf
<1>3. PICK q \in Params : Watermark(h) = hub[h].rows[q].at
  BY HubFields, WatermarkIsOfRow DEF Typed
<1>4. HubSound(h) /\ hub[h].seq \in Nat
  BY HubFields DEF HubsSound, Typed
<1>5. ASSUME ~Bare(h) PROVE Served(h, answer.whole, answer.watermark, answer.seq)
  <2>1. answer.watermark <= clock
    BY <1>1, <1>3, <1>4 DEF HubSound, Dated
  <2>2. hub[h].backup.seq <= answer.seq
    BY <1>1, <1>4, <1>5 DEF HubSound
  <2>3. answer.seq = hub[h].backup.seq => answer.whole = VersionsOf(hub[h].backup.rows)
    BY <1>1, <1>4, <1>5 DEF HubSound, VersionsOf, TreeOf
  <2> QED
    BY <2>1, <2>2, <2>3 DEF Served
<1>6. ASSUME ~Bare(h) PROVE Follows(h, answer.whole, answer.watermark, answer.seq)
  BY <1>1, <1>4, <1>6 DEF Follows, TreeOf
<1> QED
  BY <1>1, <1>2, <1>5, <1>6

LEMMA AnsweredKeeps ==
  ASSUME Typed, OnePoll, ConfigInv, NEW p \in Polls, Answered(p)
  PROVE  ConfigInv'
<1>1. PICK h \in Hubs : Outcome(p, Envelope(h, Cursor(p))) /\ hub' = [hub EXCEPT ![h].missed = FALSE]
  BY DEF Answered
<1>2. /\ hub'[h].rows = hub[h].rows /\ hub'[h].seq = hub[h].seq
      /\ hub'[h].missed = FALSE /\ hub'[h].build = hub[h].build /\ hub'[h].backup = hub[h].backup
      /\ \A g \in Hubs \ {h} : hub'[g] = hub[g]
  BY <1>1, AskedHub
<1>15. PICK cursor : cursor = Cursor(p)
  OBVIOUS
<1>3. PICK answer : answer = Envelope(h, cursor)
  OBVIOUS
<1>4. /\ poll'[p].pc = poll[p].pc /\ poll'[p].sent = poll[p].sent
      /\ poll'[p].cursorHub = poll[p].cursorHub /\ poll'[p].answer = answer
  BY <1>1, <1>3, <1>15 DEF Outcome, Typed, PollsOK, PollRecord
<1>5. /\ clock' = clock /\ lastWatermark' = lastWatermark /\ lastSeq' = lastSeq
      /\ cursorHub' = cursorHub /\ configs' = configs /\ whole' = whole
      /\ poll[p].answer = NoAnswer /\ poll[p].pc # "idle"
  BY DEF Answered, connectorVars
<1>6. HubsSound'
  BY SMTT(60), <1>2, <1>5 DEF ConfigInv, HubsSound, HubSound, Dated
<1>7. /\ answer.kind = "tree" /\ answer.from = h /\ (~Bare(h) => answer.seq = hub[h].seq)
      /\ answer.whole = TreeOf(h)
  BY <1>3, EnvelopeSound DEF ConfigInv
<1>8. Cursor(p)' = Cursor(p)
  BY <1>4 DEF Cursor
<1>9. PollSound(p)'
  BY <1>4, <1>5 DEF PollSound, ConfigInv, PollsSound
<1>10. ~TellsOfLoss(p)
  BY <1>5 DEF TellsOfLoss, NoAnswer, Failure
<1>11. ASSUME lastWatermark > 0
       PROVE  /\ configs # NoTree /\ cursorHub \in Hubs /\ ~Bare(cursorHub)
              /\ Served(cursorHub, whole, lastWatermark, lastSeq)
              /\ Kept(cursorHub, whole, lastWatermark, lastSeq)
  BY <1>10, <1>11 DEF ConfigInv, CursorSound, OnePoll
<1>12. AnswerSound(p)'
  <2>1. /\ answer.bare = Bare(h)
        /\ answer.bare \/ Cursor(p) = 0 => answer.tree = answer.whole
        /\ ~answer.bare => /\ Served(h, answer.whole, answer.watermark, answer.seq)
                           /\ Follows(h, answer.whole, answer.watermark, answer.seq)
    BY <1>3, <1>15, EnvelopeSound DEF ConfigInv
  <2>2. answer.bare = Bare(h)'
    BY <1>2, <2>1 DEF Bare
  <2>3. ~answer.bare => /\ Served(h, answer.whole, answer.watermark, answer.seq)'
                        /\ Kept(h, answer.whole, answer.watermark, answer.seq)'
    BY <1>2, <1>5, <2>1 DEF Served, Kept, Follows
  <2>4. ASSUME poll[p].pc = "first", poll[p].sent > 0, h = cursorHub
        PROVE  answer.seq < lastSeq \/ Merged(whole, answer.tree) = answer.whole
    <3>1. poll[p].sent = lastWatermark /\ lastWatermark > 0
      BY <2>4 DEF ConfigInv, PollsSound, PollSound
    <3>2. CASE LostSince(h, lastSeq)
      BY <1>7, <1>11, <2>4, <3>1, <3>2 DEF LostSince
    <3>3. CASE Follows(h, whole, lastWatermark, lastSeq)
      <4>1. lastWatermark \in 1..MaxClock
        BY <3>1 DEF Typed, CursorOK
      <4>2. answer.tree = Envelope(h, DeltaCursor(lastWatermark)).tree
        BY <1>3, <1>15, <2>4, <3>1 DEF Cursor
      <4>3. HubSound(h)
        BY DEF ConfigInv, HubsSound
      <4> QED
        BY <1>7, <3>3, <4>1, <4>2, <4>3, DeltaIsWhole
    <3> QED
      BY <1>11, <2>4, <3>1, <3>2, <3>3 DEF Kept
  <2> QED
    BY <1>4, <1>5, <1>7, <1>8, <2>1, <2>2, <2>3, <2>4 DEF AnswerSound, Merged
<1>13. CursorSound'
  <2>1. SUFFICES ASSUME lastWatermark > 0 PROVE CursorSound'
    BY <1>5 DEF CursorSound
  <2>2. /\ configs # NoTree /\ cursorHub \in Hubs /\ ~Bare(cursorHub)
        /\ Served(cursorHub, whole, lastWatermark, lastSeq)
        /\ Kept(cursorHub, whole, lastWatermark, lastSeq)
    BY <1>11, <2>1
  <2>3. ~Bare(cursorHub)' /\ Served(cursorHub, whole, lastWatermark, lastSeq)'
    BY <1>2, <1>5, <2>2 DEF Bare, Served
  <2>4. ASSUME Follows(cursorHub, whole, lastWatermark, lastSeq) \/ cursorHub # h
        PROVE  Kept(cursorHub, whole, lastWatermark, lastSeq)'
    BY <1>2, <1>5, <2>2, <2>4 DEF Kept, Follows, LostSince
  <2>5. ASSUME LostSince(cursorHub, lastSeq), cursorHub = h PROVE TellsOfLoss(p)'
    BY <1>4, <1>5, <1>7, <2>2, <2>5 DEF TellsOfLoss, LostSince
  <2>6. Kept(cursorHub, whole, lastWatermark, lastSeq)' \/ \E r \in Polls : TellsOfLoss(r)'
    BY <2>2, <2>4, <2>5 DEF Kept
  <2> QED
    BY <1>5, <2>2, <2>3, <2>6 DEF CursorSound
<1>14. WholeTree'
  BY <1>5 DEF ConfigInv, WholeTree
<1> QED
  BY <1>6, <1>9, <1>12, <1>13, <1>14 DEF ConfigInv, PollsSound, OnePoll

\* The answer taken: the cached tree is the tree of the hub behind it.
LEMMA ApplyKeeps ==
  ASSUME Typed, OnePoll, ConfigInv, NEW p \in Polls, Apply(p)
  PROVE  ConfigInv'
<1>1. PICK a : a = poll[p].answer
  OBVIOUS
<1>2. /\ a.kind = "tree" /\ ~FailedOver(p) /\ ~LostHistory(p)
      /\ lastSeq' = a.seq /\ lastWatermark' = (IF a.bare THEN 0 ELSE a.watermark)
      /\ configs' = NewConfigs(a) /\ whole' = a.whole /\ cursorHub' = a.from
      /\ Done(p) /\ hub' = hub /\ clock' = clock
  BY <1>1 DEF Apply, Good
<1>3. /\ a.from \in Hubs /\ a.seq \in Nat /\ a.watermark \in Nat /\ a.bare \in BOOLEAN
      /\ configs' \in Trees
  BY <1>1, <1>2, AnswerFields, NewConfigsOK DEF Typed, PollsOK
<1>4. /\ a.bare = Bare(a.from)
      /\ a.bare \/ Cursor(p) = 0 => a.tree = a.whole
      /\ ~a.bare => /\ Served(a.from, a.whole, a.watermark, a.seq)
                    /\ Kept(a.from, a.whole, a.watermark, a.seq)
      /\ poll[p].pc = "first" /\ poll[p].sent > 0 /\ a.from = cursorHub =>
           a.seq < lastSeq \/ Merged(whole, a.tree) = a.whole
  BY <1>1, <1>2 DEF ConfigInv, PollsSound, AnswerSound
<1>5. /\ poll[p].pc = "idle" => a = NoAnswer
      /\ poll[p].pc = "first" => poll[p].sent = lastWatermark /\ poll[p].cursorHub = cursorHub
      /\ poll[p].pc \in {"failover", "regressed"} => lastWatermark = 0 /\ configs = NoTree
      /\ poll[p].pc \in {"idle", "first", "failover", "regressed"}
  BY <1>1 DEF ConfigInv, PollsSound, PollSound, Typed, PollsOK, PollRecord
<1>6. lastWatermark \in Nat /\ lastSeq \in Nat
  BY DEF Typed, CursorOK
<1>7. configs' = a.whole
  <2>1. CASE a.bare \/ lastWatermark = 0 \/ configs = NoTree
    <3>1. configs' = a.tree
      BY <1>2, <1>6, <2>1 DEF NewConfigs
    <3>2. a.bare \/ lastWatermark = 0
      BY <2>1, <1>6 DEF ConfigInv, CursorSound
    <3>3. poll[p].pc # "idle"
      BY <1>2, <1>5 DEF NoAnswer, Failure
    <3>4. a.bare \/ Cursor(p) = 0
      BY <1>5, <3>2, <3>3 DEF Cursor, DeltaCursor
    <3> QED
      BY <1>4, <3>1, <3>4
  <2>2. CASE ~a.bare /\ lastWatermark > 0 /\ configs # NoTree
    <3>1. configs' = Merged(configs, a.tree)
      BY <1>2, <2>2 DEF NewConfigs
    <3>2. poll[p].pc = "first" /\ poll[p].sent > 0 /\ poll[p].cursorHub = cursorHub
      BY <1>2, <1>5, <2>2 DEF NoAnswer, Failure
    <3>3. a.from = cursorHub
      BY <1>1, <1>2, <3>2 DEF FailedOver, Good
    <3>4. ~Regressed(a)
      BY <1>1, <1>2, <2>2, <3>2 DEF LostHistory
    <3>5. ~(a.seq < lastSeq)
      BY <1>3, <1>6, <2>2, <3>4 DEF Regressed
    <3>6. configs = whole
      BY <2>2 DEF ConfigInv, WholeTree
    <3> QED
      BY <1>4, <3>1, <3>2, <3>3, <3>5, <3>6
  <2> QED
    BY <1>3, <1>6, <2>1, <2>2
<1>8. CursorSound'
  <2>1. SUFFICES ASSUME lastWatermark' > 0 PROVE CursorSound'
    BY DEF CursorSound
  <2>2. ~a.bare /\ lastWatermark' = a.watermark
    BY SMTT(60), <1>2, <2>1
  <2>3. Served(a.from, a.whole, a.watermark, a.seq)' /\ Kept(a.from, a.whole, a.watermark, a.seq)'
        /\ ~Bare(a.from)'
    BY <1>2, <1>4, <2>2 DEF Served, Kept, Follows, LostSince, Bare
  <2>4. /\ Served(cursorHub, whole, lastWatermark, lastSeq)' /\ ~Bare(cursorHub)'
        /\ Kept(cursorHub, whole, lastWatermark, lastSeq)'
    BY <1>2, <2>2, <2>3 DEF Served, Kept, Follows, LostSince, Bare
  <2>5. configs' # NoTree /\ cursorHub' \in Hubs
    BY <1>2, <1>3, EmptyIsTree
  <2> QED
    BY <2>4, <2>5 DEF CursorSound
<1>9. HubsSound'
  BY <1>2 DEF ConfigInv, HubsSound, HubSound, Dated
<1>10. PollsSound'
  BY <1>2, IdleSound
<1> QED
  BY <1>2, <1>7, <1>8, <1>9, <1>10 DEF ConfigInv, WholeTree

LEMMA StepSound == OnePoll /\ Typed /\ ConfigInv /\ [Next]_vars => ConfigInv'
<1> SUFFICES ASSUME OnePoll, Typed, ConfigInv, [Next]_vars PROVE ConfigInv'
  OBVIOUS
<1>1. CASE UNCHANGED vars
  <2>1. UNCHANGED <<hub, clock, lastWatermark, lastSeq, cursorHub, configs, whole, poll>>
    BY <1>1 DEF vars, hubVars, connectorVars
  <2>2. HubsSound' /\ CursorSound' /\ WholeTree'
    BY SMTT(60), <2>1, CursorStays DEF TellsOfLoss
  <2>3. PollsSound'
    BY SMTT(60), <2>1 DEF ConfigInv, PollsSound, PollSound, AnswerSound, Served, Kept, Follows, LostSince,
                Bare, Cursor, Merged
  <2> QED
    BY <2>2, <2>3 DEF ConfigInv
<1>2. ASSUME NEW p \in Polls, Step(p) PROVE ConfigInv'
  <2>1. CASE FailOver(p) \/ Regress(p)
    BY <2>1, RefetchKeeps DEF FailOver, Regress
  <2> QED
    BY <1>2, <2>1, AskKeeps, AnsweredKeeps, FailureKeeps, GiveUpKeeps, ApplyKeeps DEF Step
<1> QED
  BY <1>1, <1>2, HubsMoveOn, RestartKeeps DEF Next

-----------------------------------------------------------------------------
(* What the invariant says, for one poll in flight at a time: the tick of  *)
(* startSync has no guard against a tick still under way, and with two the *)
(* merge is not lossless (see MergeLossless in HubConfig).                 *)

THEOREM ConfigSound == OnePoll => (Spec => [](Typed /\ ConfigInv))
<1> SUFFICES ASSUME OnePoll PROVE Spec => [](Typed /\ ConfigInv)
  OBVIOUS
<1>1. Init => Typed /\ ConfigInv
  BY InitTyped, InitSound
<1>2. Typed /\ ConfigInv /\ [Next]_vars => (Typed /\ ConfigInv)'
  BY StepTyped, StepSound
<1> QED
  BY <1>1, <1>2, PTL DEF Spec

(* Every variable keeps its type, and while a poll refetches a full tree   *)
(* there is no cached tree a delta of another poll could be merged into    *)
(* (getAllConfig discards the cache before it asks again).                 *)
THEOREM ConfigTyped == OnePoll => (Spec => []TypeOK)
<1>1. Typed /\ ConfigInv => TypeOK
  <2> SUFFICES ASSUME Typed, ConfigInv PROVE TypeOK
    OBVIOUS
  <2>1. Refetching => configs = NoTree
    BY DEF ConfigInv, PollsSound, PollSound, Refetching
  <2>2. /\ hub \in [Hubs -> HubRecord] /\ clock \in 1..MaxClock /\ version \in 1..MaxVersion
        /\ left \in [Faults -> Nat]
    BY DEF Typed, HubsOK
  <2>3. CursorOK /\ {configs, whole, served, lastObtained, disk} \subseteq Trees \cup {NoTree}
    BY DEF Typed, CursorOK, ServedOK
  <2> QED
    BY <2>1, <2>2, <2>3 DEF TypeOK, HubRecord, CursorOK
<1> QED
  BY <1>1, ConfigSound, PTL

(* The cached tree is at every moment one whole tree that one hub held:    *)
(* no mixture of two hubs after a failover, nor of what a restored hub     *)
(* holds and what it lost.                                                 *)
THEOREM TreeOfOneHub == OnePoll => (Spec => []WholeTree)
<1>1. Typed /\ ConfigInv => WholeTree
  BY DEF ConfigInv
<1> QED
  BY <1>1, ConfigSound, PTL

(* Between two polls the next delta completes the cached tree, whatever    *)
(* was committed in the second of the watermark, or makes the poll discard *)
(* it (the cursor one second back, hubConfigRegressed).                    *)
THEOREM DeltaCompletes == OnePoll => (Spec => []NoRowStranded)
<1>1. Typed /\ ConfigInv => NoRowStranded
  <2> SUFFICES ASSUME Typed, ConfigInv, Quiet, lastWatermark > 0, configs # NoTree
               PROVE  \/ Regressed(NextDelta)
                      \/ Merged(configs, NextDelta.tree) = TreeOf(cursorHub)
    BY DEF NoRowStranded
  <2>1. \A p \in Polls : ~TellsOfLoss(p)
    BY DEF Quiet, TellsOfLoss, NoAnswer, Failure
  <2>2. /\ cursorHub \in Hubs /\ ~Bare(cursorHub)
        /\ Kept(cursorHub, whole, lastWatermark, lastSeq) /\ configs = whole
    BY <2>1 DEF ConfigInv, CursorSound, WholeTree
  <2>3. CASE LostSince(cursorHub, lastSeq)
    <3>1. PICK cursor, answer : /\ cursor = DeltaCursor(lastWatermark)
                                /\ answer = Envelope(cursorHub, cursor)
      OBVIOUS
    <3>2. ~answer.bare /\ answer.seq = hub[cursorHub].seq
      BY <2>2, <3>1, EnvelopeSound DEF ConfigInv
    <3>3. hub[cursorHub].seq \in Nat /\ lastSeq \in Nat
      BY <2>2, HubFields DEF Typed, CursorOK
    <3>4. Regressed(answer)
      BY <2>3, <3>2, <3>3 DEF Regressed, LostSince
    <3> QED
      BY <3>1, <3>4 DEF NextDelta
  <2>4. CASE Follows(cursorHub, whole, lastWatermark, lastSeq)
    <3>1. lastWatermark \in 1..MaxClock
      BY DEF Typed, CursorOK
    <3>2. HubSound(cursorHub)
      BY <2>2 DEF ConfigInv, HubsSound
    <3> QED
      BY <2>2, <2>4, <3>1, <3>2, DeltaIsWhole DEF NextDelta
  <2> QED
    BY <2>2, <2>3, <2>4 DEF Kept
<1> QED
  BY <1>1, ConfigSound, PTL
=============================================================================
