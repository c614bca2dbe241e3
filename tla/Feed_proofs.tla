----------------------------- MODULE Feed_proofs ------------------------------
(***************************************************************************)
(* Theorems about the two halves of the live feed.                         *)
(*                                                                         *)
(* MempoolFeed, for every set of transactions, every window and every      *)
(* bound: a removal is never false, as long as only the diff asks the      *)
(* decoder; the address memo never outlives a block, as long as no lookup  *)
(* fails; and the followers end up with what is pending, as long as no     *)
(* lookup fails and the address keeps its id.                              *)
(*                                                                         *)
(* LiveFeed, for every set of clients, every limit of polls, replays and   *)
(* logs, every bound and every budget of faults, whatever the database     *)
(* does between two reads: every variable keeps its type, and no           *)
(* subscription brings a frame of a row twice unless a rollback reached    *)
(* below its ceiling.  And the cursors and the history follow the chain,   *)
(* where it neither outruns the tips of a running pass nor changes under a *)
(* late seed pass.                                                         *)
(***************************************************************************)
EXTENDS LiveFeed, MempoolFeed, FiniteSetTheorems, SequenceTheorems, WellFoundedInduction, TLAPS

-----------------------------------------------------------------------------
(* The mempool feed.                                                       *)

Frames == [kind : {"action", "removed"}, tx : Txs]

\* A non-empty set of naturals has a least element.
LEMMA LeastOf ==
  ASSUME NEW S \in SUBSET Nat, S # {}
  PROVE  \E m \in S : \A t \in S : m <= t
<1> DEFINE R == {ss \in Nat \X Nat : ss[1] < ss[2]}
<1>1. IsWellFoundedOn(R, Nat)
  BY NatLessThanWellFounded DEF OpToRel
<1>2. PICK m \in S : \A t \in S : ~ (<<t, m>> \in R)
  <2> HIDE DEF R
  <2> QED BY <1>1, WFMin
<1>3. \A t \in S : t < m => <<t, m>> \in R
  OBVIOUS
<1>4. \A t \in S : ~ (t < m)
  BY <1>2, <1>3
<1>5. m \in Nat /\ \A t \in S : t \in Nat
  OBVIOUS
<1>6. \A t \in S : m <= t
  BY <1>4, <1>5
<1> QED BY <1>6

\* A window that is not full is the whole set, and nothing of the set that a
\* full window leaves out lies below what it holds.
LEMMA WindowIsLowest ==
  ASSUME NEW S \in SUBSET Txs, NEW t \in S \ LowestOf(S)
  PROVE  ~ Covers(LowestOf(S), t)
<1> USE MempoolAssumption
<1> DEFINE Below(u) == {v \in S : v < u}
<1>0. /\ MempoolWindow \in Nat /\ LowestOf(S) \subseteq S
      /\ \A u \in S : u \in LowestOf(S) <=> Cardinality(Below(u)) < MempoolWindow
  BY DEF LowestOf
<1>1. /\ IsFiniteSet(S) /\ S \subseteq Nat
      /\ \A u \in S : IsFiniteSet(Below(u)) /\ Cardinality(Below(u)) \in Nat
      /\ IsFiniteSet(LowestOf(S)) /\ Cardinality(LowestOf(S)) \in Nat
  <2>1. IsFiniteSet(S) /\ S \subseteq Nat
    BY FS_Subset
  <2> QED BY <1>0, <2>1, FS_Subset, FS_CardinalityType
<1>2. \A u \in LowestOf(S) : ~ (t <= u)
  <2> SUFFICES ASSUME NEW u \in LowestOf(S), t <= u
               PROVE  FALSE
    OBVIOUS
  <2>1. Below(t) \subseteq Below(u) /\ u \in S
    <3>1. t \in Nat /\ u \in Nat /\ S \subseteq Nat /\ u \in S
      BY <1>0, <1>1
    <3> SUFFICES ASSUME NEW v \in S, v < t
                 PROVE  v < u
      BY <3>1
    <3> QED BY <3>1
  <2>2. Cardinality(Below(t)) <= Cardinality(Below(u))
    BY <1>1, <2>1, FS_Subset
  <2> HIDE DEF Below
  <2> QED BY <1>0, <1>1, <2>1, <2>2
<1>3. Cardinality(LowestOf(S)) >= MempoolWindow
  <2> SUFFICES ASSUME Cardinality(LowestOf(S)) < MempoolWindow
               PROVE  FALSE
    BY <1>1
  <2>1. PICK m \in S \ LowestOf(S) : \A u \in S \ LowestOf(S) : m <= u
    BY <1>1, LeastOf, S \ LowestOf(S) \in SUBSET Nat, S \ LowestOf(S) # {}
  <2>2. Below(m) \subseteq LowestOf(S)
    <3>1. m \in Nat /\ S \subseteq Nat
      BY <1>1, <2>1
    <3> SUFFICES ASSUME NEW v \in S, v < m
                 PROVE  v \in LowestOf(S)
      BY <3>1
    <3> QED BY <2>1, <3>1
  <2>3. Cardinality(Below(m)) <= Cardinality(LowestOf(S))
    BY <1>1, <2>2, FS_Subset
  <2>4. m \in LowestOf(S)
    <3> HIDE DEF Below
    <3> QED BY <1>0, <1>1, <2>1, <2>3
  <2> QED BY <2>1, <2>4
<1> QED BY <1>2, <1>3 DEF Covers

-----------------------------------------------------------------------------
(* The memo.                                                               *)

\* An answer that can still be stored was read since the last block.
LookupCurrent ==
  /\ announced \in Nat
  /\ lookup \in [busy : BOOLEAN, map : Nat, read : BOOLEAN, id : Ids]
  /\ addressId \in idsSince /\ idsSince \subseteq Ids
  /\ lookup.map <= announced
  /\ lookup.read /\ lookup.map = announced => lookup.id \in idsSince
  /\ MemoFresh

LEMMA LookupInitial == MempoolInit => LookupCurrent
  BY DEF MempoolInit, LookupCurrent, MemoFresh, NoLookup, Ids

\* A block gives the coin a new map, and every other step keeps what was true
\* since the last block.
LEMMA LookupStep ==
  ASSUME ~LookupsFail, LookupCurrent, [MempoolNext]_mempoolVars
  PROVE  LookupCurrent'
<1> USE DEF LookupCurrent, MemoFresh
<1>1. CASE PoolChanges
  BY <1>1 DEF PoolChanges, frameVars, blockVars
<1>2. CASE CacheExpires
  BY <1>2 DEF CacheExpires, UntouchedByReads, blockVars
<1>3. CASE Follow
  BY <1>3 DEF Follow, frameVars, blockVars
<1>4. ASSUME NEW r \in WindowReaders,
             ServeCached(r) \/ AskDecoder(r) \/ DecoderAnswers(r) \/ DecoderFails(r)
      PROVE  LookupCurrent'
  BY <1>4 DEF ServeCached, AskDecoder, DecoderAnswers, DecoderFails, UntouchedByReads, blockVars
<1>5. CASE BlockIndexed
  <2>1. addressId' \in Ids
    BY <1>5 DEF BlockIndexed, Ids
  <2> QED BY <1>5, <2>1 DEF BlockIndexed, frameVars
<1>6. CASE BlockAnnounced
  BY <1>6 DEF BlockAnnounced, MemoAfterBlock
<1>7. CASE FrameEmitted
  BY <1>7 DEF FrameEmitted, UntouchedByFrames, blockVars
<1>8. CASE LookupBegins
  <2>1. lookup' = [busy |-> TRUE, map |-> announced, read |-> FALSE, id |-> "none"]
    BY <1>8 DEF LookupBegins, NoLookup
  <2>2. /\ lookup' \in [busy : BOOLEAN, map : Nat, read : BOOLEAN, id : Ids]
        /\ lookup'.map = announced /\ ~lookup'.read
    BY <2>1 DEF Ids
  <2> QED BY <1>8, <2>2 DEF LookupBegins, UntouchedByFrames, blockVars
<1>9. CASE LookupReads
  BY <1>9 DEF LookupReads, UntouchedByFrames, blockVars
<1>10. CASE LookupReturns
  BY <1>10 DEF LookupReturns, UntouchedByFrames, blockVars, MemoOf, NoLookup, Ids
<1>11. CASE UNCHANGED mempoolVars
  BY <1>11 DEF mempoolVars, frameVars, blockVars
<1> QED
  BY <1>1, <1>2, <1>3, <1>4, <1>5, <1>6, <1>7, <1>8, <1>9, <1>10, <1>11
  DEF MempoolNext

\* MemoFresh: whatever the coin's map holds of an address was its id at some
\* time since the last block announced, although the lookup that put it there
\* may have waited across that block (broadcaster/mempool.js:186, the map taken
\* before the await), as long as a query does not fail.
THEOREM MemoNeverOutlivesABlock ==
  ASSUME ~LookupsFail
  PROVE  MempoolSpec => []MemoFresh
<1>1. MempoolInit => LookupCurrent
  BY LookupInitial
<1>2. LookupCurrent /\ [MempoolNext]_mempoolVars => LookupCurrent'
  BY LookupStep
<1>3. LookupCurrent => MemoFresh
  BY DEF LookupCurrent
<1> QED BY <1>1, <1>2, <1>3, PTL DEF MempoolSpec

-----------------------------------------------------------------------------
(* Removals.                                                               *)

\* What a window may be used for: whatever it shows gone was gone.
Sound(rows) == \A t \in seenHashes \ rows : Covers(rows, t) => t \in absent

Windows == [rows : SUBSET Txs, known : BOOLEAN]

\* The frames and the windows have their types.
FeedTypes ==
  /\ pool \subseteq Txs /\ seenHashes \subseteq Txs
  /\ window \in Windows
  /\ asked \in [WindowReaders -> [rows : SUBSET Txs, hit : Windows, busy : BOOLEAN]]
  /\ tail \in Seq(Frames)

\* Every window the diff may still be given, the one kept included.
WindowsSound ==
  /\ seenHashes \ pool \subseteq absent
  /\ window.known => Sound(window.rows)
  /\ \A r \in WindowReaders : asked[r].busy =>
       /\ ~windowFresh
       /\ Sound(asked[r].rows)
       /\ asked[r].hit.known => Sound(asked[r].hit.rows)

RemovalInv == FeedTypes /\ WindowsSound

LEMMA RemovalInitial ==
  ASSUME MempoolInit
  PROVE  RemovalInv
BY MempoolAssumption
DEF MempoolInit, RemovalInv, FeedTypes, WindowsSound, Sound, Windows, Frames, NoWindow, Unasked

\* The frames of a set of transactions are a sequence of frames of that kind.
LEMMA FramesOfSet ==
  ASSUME NEW kind \in {"action", "removed"}, NEW S \in SUBSET Txs,
         NEW s \in FramesOf(kind, S)
  PROVE  /\ s \in Seq(Frames)
         /\ \A n \in 1..Len(s) : s[n].kind = kind /\ s[n].tx \in S
<1>1. Cardinality(S) \in Nat
  BY MempoolAssumption, FS_Subset, FS_CardinalityType
<1> DEFINE Kind == [kind : {kind}, tx : S]
<1>2. s \in [1..Cardinality(S) -> Kind]
  BY DEF FramesOf
<1>3. s \in Seq(Kind)
  <2> HIDE DEF Kind
  <2> QED BY <1>1, <1>2
<1>4. \A n \in 1..Len(s) : s[n] \in Kind
  <2> HIDE DEF Kind
  <2> QED BY <1>3, ElementOfSeq
<1>5. Kind \subseteq Frames
  BY DEF Frames
<1>6. s \in Seq(Frames)
  <2> HIDE DEF Kind
  <2> QED BY <1>3, <1>5
<1> QED BY <1>4, <1>6

\* Emitting takes one frame away.
LEMMA EmitShortens ==
  ASSUME tail \in Seq(Frames), NEW n \in {1} \cup 1..Len(tail), NEW id, Emit(n, id)
  PROVE  tail' \in Seq(Frames) /\ Len(tail') <= Len(tail)
<1>1. /\ Len(tail) \in Nat
      /\ \A i \in 1..Len(tail) : tail[i] \in Frames
  BY LenProperties, ElementOfSeq
<1> DEFINE before == SubSeq(tail, 1, n - 1)
           after == SubSeq(tail, n + 1, Len(tail))
<1>2. before \in Seq(Frames) /\ Len(before) = n - 1
  BY <1>1, SubSeqProperties
<1>3. after \in Seq(Frames) /\ Len(after) = IF n + 1 <= Len(tail) THEN Len(tail) - n ELSE 0
  BY <1>1, SubSeqProperties
<1>4. tail' = before \o after
  BY DEF Emit, RemoveAt
<1> HIDE DEF before, after
<1> QED BY <1>1, <1>2, <1>3, <1>4, ConcatProperties

-----------------------------------------------------------------------------
\* A diff announces as removed what was absent, and leaves nothing behind that
\* its own window shows gone.
LEMMA DiffSound ==
  ASSUME RemovalInv, NEW rows \in SUBSET Txs, Sound(rows), Diff(rows)
  PROVE  /\ seenHashes' \subseteq Txs /\ tail' \in Seq(Frames)
         /\ seenHashes' \ pool \subseteq absent'
         /\ \A t \in seenHashes' \ rows : Covers(rows, t) => t \in absent'
         /\ \A n \in Len(tail) + 1..Len(tail') :
              tail'[n].kind = "removed" => tail'[n].tx \in absent
<1>1. /\ seenHashes \subseteq Txs /\ pool \subseteq Txs /\ tail \in Seq(Frames)
      /\ seenHashes \ pool \subseteq absent
  BY DEF RemovalInv, FeedTypes, WindowsSound
<1>2. Gone(rows) \subseteq absent /\ Gone(rows) \subseteq Txs
  BY <1>1 DEF Sound, Gone
<1>3. seenHashes' \subseteq rows \cup seenHashes
  BY <1>1 DEF Diff, StillKnown
<1>4. seenHashes' \ pool \subseteq absent'
  BY <1>1, <1>3 DEF Diff
<1>5. \A t \in seenHashes' \ rows : Covers(rows, t) => t \in absent'
  BY <1>1 DEF Diff, StillKnown, Gone, Sound
<1>6. CASE ~diffed.known
  BY <1>1, <1>3, <1>4, <1>5, <1>6, LenProperties DEF Diff
<1>7. CASE diffed.known
  <2>1. PICK new \in FramesOf("action", (rows \ seenHashes) \ Undecodable),
             gone \in FramesOf("removed", Gone(rows)) : tail' = tail \o new \o gone
    BY <1>7 DEF Diff
  <2>2. /\ new \in Seq(Frames)
        /\ \A n \in 1..Len(new) : new[n].kind = "action"
    <3>1. (rows \ seenHashes) \ Undecodable \in SUBSET Txs
      OBVIOUS
    <3> QED BY <2>1, <3>1, FramesOfSet
  <2>3. /\ gone \in Seq(Frames)
        /\ \A n \in 1..Len(gone) : gone[n].tx \in absent
    BY <1>2, <2>1, FramesOfSet
  <2>4. /\ tail \o new \in Seq(Frames)
        /\ Len(tail \o new) = Len(tail) + Len(new)
        /\ \A n \in 1..Len(tail) + Len(new) :
             (tail \o new)[n] = IF n <= Len(tail) THEN tail[n] ELSE new[n - Len(tail)]
    BY <1>1, <2>2, ConcatProperties
  <2> DEFINE said == tail \o new
  <2>5. /\ tail' \in Seq(Frames)
        /\ Len(tail') = Len(said) + Len(gone)
        /\ \A n \in 1..Len(said) + Len(gone) :
             tail'[n] = IF n <= Len(said) THEN said[n] ELSE gone[n - Len(said)]
    <3> HIDE DEF said
    <3>1. tail' = said \o gone
      BY <2>1 DEF said
    <3>2. said \in Seq(Frames)
      BY <2>4 DEF said
    <3> QED BY <2>3, <3>1, <3>2, ConcatProperties
  <2>6. ASSUME NEW n \in Len(tail) + 1..Len(tail'), tail'[n].kind = "removed"
        PROVE  tail'[n].tx \in absent
    <3>1. Len(tail) \in Nat /\ Len(new) \in Nat /\ Len(gone) \in Nat
      BY <1>1, <2>2, <2>3, LenProperties
    <3>2. Len(said) = Len(tail) + Len(new)
      BY <2>4
    <3> HIDE DEF said
    <3>3. CASE n <= Len(said)
      <4>1. tail'[n] = said[n] /\ said[n] = new[n - Len(tail)] /\ n - Len(tail) \in 1..Len(new)
        <5>1. tail'[n] = said[n]
          BY <2>5, <2>6, <3>1, <3>2, <3>3
        <5>2. said[n] = new[n - Len(tail)]
          BY <2>4, <2>6, <3>1, <3>2, <3>3 DEF said
        <5> QED BY SMTT(60), <2>6, <3>1, <3>2, <3>3, <5>1, <5>2
      <4> QED BY <2>2, <2>6, <4>1
    <3>4. CASE n > Len(said)
      <4>1. tail'[n] = gone[n - Len(said)] /\ n - Len(said) \in 1..Len(gone)
        BY <2>5, <2>6, <3>1, <3>2, <3>4
      <4> QED BY <2>3, <4>1
    <3> QED BY <2>6, <3>1, <3>2, <3>3, <3>4
  <2> QED BY <1>1, <1>3, <1>4, <1>5, <2>5, <2>6
<1> QED BY <1>6, <1>7

-----------------------------------------------------------------------------
\* A window that a diff has been made of, or a page has got, is sound after it.
LEMMA ServeSound ==
  ASSUME RemovalInv, NEW r \in WindowReaders, NEW served \in Windows,
         served.known => Sound(served.rows), Serve(r, served), pool' = pool
  PROVE  /\ seenHashes' \subseteq Txs /\ tail' \in Seq(Frames)
         /\ seenHashes' \ pool' \subseteq absent'
         /\ served.known => \A t \in seenHashes' \ served.rows : Covers(served.rows, t) => t \in absent'
         /\ \A n \in Len(tail) + 1..Len(tail') :
              tail'[n].kind = "removed" => tail'[n].tx \in absent
<1>1. CASE r = "diff" /\ served.known
  <2>1. Diff(served.rows) /\ served.rows \in SUBSET Txs
    BY <1>1 DEF Serve, Windows
  <2> QED BY <1>1, <2>1, DiffSound
<1>2. CASE ~(r = "diff" /\ served.known)
  <2>1. UNCHANGED <<seenHashes, tail, absent>>
    BY <1>2 DEF Serve, diffVars
  <2>2. Len(tail) \in Nat
    BY LenProperties DEF RemovalInv, FeedTypes
  <2>3. Len(tail) + 1..Len(tail') = {}
    BY <2>1, <2>2
  <2> QED BY <2>1, <2>3 DEF RemovalInv, FeedTypes, WindowsSound, Sound
<1> QED BY <1>1, <1>2

\* Every step keeps the windows sound and announces no false removal, as long
\* as no two requests are in flight.
LEMMA RemovalStep ==
  ASSUME OneRequest, RemovalInv, [MempoolNext]_mempoolVars
  PROVE  /\ RemovalInv'
         /\ \A n \in Len(tail) + 1..Len(tail') :
              tail'[n].kind = "removed" => tail'[n].tx \in absent
<1> DEFINE Honest == \A n \in Len(tail) + 1..Len(tail') :
                       tail'[n].kind = "removed" => tail'[n].tx \in absent
           Requests == [rows : SUBSET Txs, hit : Windows, busy : BOOLEAN]
<1>0. /\ FeedTypes /\ WindowsSound
      /\ Len(tail) \in Nat
      /\ asked \in [WindowReaders -> Requests]
  BY LenProperties DEF RemovalInv, FeedTypes
<1>1. ASSUME tail' \in Seq(Frames), Len(tail') <= Len(tail)
      PROVE  Honest
  BY <1>0, <1>1, LenProperties
<1> SUFFICES RemovalInv' /\ Honest
  OBVIOUS
<1> HIDE DEF Honest, Requests
<1>2. ASSUME UNCHANGED <<pool, windowVars, seenHashes, absent>>,
             tail' \in Seq(Frames), Len(tail') <= Len(tail)
      PROVE  RemovalInv' /\ Honest
  BY <1>0, <1>1, <1>2 DEF RemovalInv, FeedTypes, WindowsSound, Sound, windowVars
<1>3. CASE PoolChanges
  <2>1. /\ pool' \subseteq Txs /\ absent \subseteq absent' /\ seenHashes' \ pool' \subseteq absent'
        /\ UNCHANGED <<windowVars, seenHashes, tail>>
    BY <1>0, <1>3 DEF PoolChanges, FeedTypes, WindowsSound, diffVars, frameVars
  <2>2. Honest
    BY <1>0, <1>1, <2>1 DEF FeedTypes
  <2>3. FeedTypes'
    BY <1>0, <2>1 DEF FeedTypes, windowVars
  <2>4. WindowsSound'
    BY <1>0, <2>1 DEF WindowsSound, Sound, windowVars
  <2> QED BY <2>2, <2>3, <2>4 DEF RemovalInv
<1>4. CASE CacheExpires
  <2>1. /\ UNCHANGED <<pool, asked, window, seenHashes, absent, tail>>
        /\ windowFresh' = FALSE
    BY <1>4 DEF CacheExpires, diffVars, UntouchedByReads, poolVars
  <2>2. Honest
    BY <1>0, <1>1, <2>1 DEF FeedTypes
  <2> QED BY <1>0, <2>1, <2>2 DEF RemovalInv, FeedTypes, WindowsSound, Sound
<1>5. ASSUME NEW r \in WindowReaders, ServeCached(r)
      PROVE  RemovalInv' /\ Honest
  <2>1. UNCHANGED <<pool, windowVars>> /\ windowFresh /\ Serve(r, window)
    BY <1>5 DEF ServeCached, UntouchedByReads, poolVars
  <2>2. \A s \in WindowReaders : ~asked'[s].busy
    BY <1>0, <2>1 DEF WindowsSound, windowVars
  <2>3. window \in Windows /\ (window.known => Sound(window.rows))
    BY <1>0 DEF FeedTypes, WindowsSound
  <2>4. /\ seenHashes' \subseteq Txs /\ tail' \in Seq(Frames)
        /\ seenHashes' \ pool' \subseteq absent'
        /\ window.known => \A t \in seenHashes' \ window.rows : Covers(window.rows, t) => t \in absent'
        /\ Honest
    BY <1>0, <1>5, <2>1, <2>3, ServeSound DEF Honest
  <2>5. FeedTypes'
    BY <1>0, <2>1, <2>4 DEF FeedTypes, windowVars
  <2>6. WindowsSound'
    BY <2>1, <2>2, <2>4 DEF WindowsSound, Sound, windowVars
  <2> QED BY <2>4, <2>5, <2>6 DEF RemovalInv
<1>6. ASSUME NEW r \in WindowReaders, AskDecoder(r)
      PROVE  RemovalInv' /\ Honest
  <2> DEFINE request == [rows |-> LowestOf(pool), hit |-> window, busy |-> TRUE]
  <2>1. /\ UNCHANGED <<pool, window, windowFresh, seenHashes, tail, absent>> /\ ~windowFresh
        /\ asked' = [asked EXCEPT ![r] = request]
    BY <1>6 DEF AskDecoder, diffVars, UntouchedByReads, poolVars
  <2>2. Sound(LowestOf(pool))
    BY <1>0, WindowIsLowest DEF FeedTypes, WindowsSound, Sound
  <2>3. LowestOf(pool) \subseteq Txs
    BY <1>0 DEF LowestOf, FeedTypes
  <2>4. request \in Requests
    BY <1>0, <2>3 DEF FeedTypes, Requests
  <2>5. /\ request.rows = LowestOf(pool) /\ request.hit = window
    OBVIOUS
  <2> HIDE DEF request
  <2>6. /\ asked' \in [WindowReaders -> Requests]
        /\ \A s \in WindowReaders : asked'[s] = IF s = r THEN request ELSE asked[s]
    BY <1>0, <2>1, <2>4
  <2>7. FeedTypes'
    BY <1>0, <2>1, <2>6 DEF FeedTypes, Requests
  <2>8. ASSUME NEW s \in WindowReaders, asked'[s].busy
        PROVE  /\ ~windowFresh'
               /\ \A t \in seenHashes' \ asked'[s].rows : Covers(asked'[s].rows, t) => t \in absent'
               /\ asked'[s].hit.known =>
                    \A t \in seenHashes' \ asked'[s].hit.rows : Covers(asked'[s].hit.rows, t) => t \in absent'
    <3>1. CASE s = r
      <4>1. asked'[s] = request
        BY <2>6, <3>1
      <4> QED BY <1>0, <2>1, <2>2, <2>5, <4>1 DEF WindowsSound, Sound
    <3>2. CASE s # r
      <4>1. asked'[s] = asked[s]
        BY <2>6, <3>2
      <4> QED BY <1>0, <2>1, <2>8, <4>1 DEF WindowsSound, Sound
    <3> QED BY <3>1, <3>2
  <2>9. WindowsSound'
    <3>1. seenHashes' \ pool' \subseteq absent'
      BY <1>0, <2>1 DEF WindowsSound
    <3>2. window'.known => \A t \in seenHashes' \ window'.rows : Covers(window'.rows, t) => t \in absent'
      BY <1>0, <2>1 DEF WindowsSound, Sound
    <3> QED BY <2>8, <3>1, <3>2 DEF WindowsSound, Sound
  <2>10. Honest
    BY <1>0, <1>1, <2>1 DEF FeedTypes
  <2> QED BY <2>7, <2>9, <2>10 DEF RemovalInv
<1>7. ASSUME NEW r \in WindowReaders,
             NEW served \in {WindowOf(asked[r].rows), asked[r].hit, NoWindow},
             DecoderAnswers(r) \/ DecoderFails(r),
             window' = served, Serve(r, served)
      PROVE  RemovalInv' /\ Honest
  <2>1. /\ asked[r].busy /\ pool' = pool
        /\ asked' = [asked EXCEPT ![r] = Unasked]
    BY <1>7 DEF DecoderAnswers, DecoderFails, UntouchedByReads, poolVars
  <2>2. served \in Windows /\ (served.known => Sound(served.rows))
    <3>1. CASE served = WindowOf(asked[r].rows)
      <4>1. served.rows = asked[r].rows /\ served \in Windows
        BY <1>0, <3>1 DEF WindowOf, Windows, Requests
      <4> QED BY <1>0, <2>1, <4>1 DEF WindowsSound
    <3>2. CASE served = asked[r].hit
      BY <1>0, <2>1, <3>2 DEF WindowsSound, Requests
    <3>3. CASE served = NoWindow
      BY <3>3 DEF NoWindow, Windows
    <3> QED BY <1>7, <3>1, <3>2, <3>3
  <2>3. asked' \in [WindowReaders -> Requests]
    <3>1. Unasked \in Requests
      BY DEF Unasked, NoWindow, Windows, Requests
    <3> QED BY <1>0, <2>1, <3>1
  <2>4. \A s \in WindowReaders : ~asked'[s].busy
    <3>1. \A s \in WindowReaders : s # r => ~asked[s].busy
      BY <2>1 DEF OneRequest
    <3> QED BY <1>0, <2>1, <3>1 DEF Unasked
  <2>5. /\ seenHashes' \subseteq Txs /\ tail' \in Seq(Frames)
        /\ seenHashes' \ pool' \subseteq absent'
        /\ served.known => \A t \in seenHashes' \ served.rows : Covers(served.rows, t) => t \in absent'
        /\ Honest
    BY <1>0, <1>7, <2>1, <2>2, ServeSound DEF Honest
  <2>6. FeedTypes'
    BY <1>0, <1>7, <2>1, <2>2, <2>3, <2>5 DEF FeedTypes, Requests
  <2>7. WindowsSound'
    BY <1>7, <2>4, <2>5 DEF WindowsSound, Sound
  <2> QED BY <2>5, <2>6, <2>7 DEF RemovalInv
<1>8. ASSUME NEW r \in WindowReaders, DecoderAnswers(r)
      PROVE  RemovalInv' /\ Honest
  BY <1>7, <1>8 DEF DecoderAnswers
<1>9. ASSUME NEW r \in WindowReaders, DecoderFails(r)
      PROVE  RemovalInv' /\ Honest
  BY <1>7, <1>9 DEF DecoderFails
<1>10. CASE BlockIndexed \/ BlockAnnounced \/ Follow \/ LookupBegins \/ LookupReads
            \/ UNCHANGED mempoolVars
  <2>1. UNCHANGED <<pool, windowVars, seenHashes, absent, tail>>
    BY <1>10 DEF BlockIndexed, BlockAnnounced, Follow, LookupBegins, LookupReads, mempoolVars,
                 UntouchedByFrames, poolVars, diffVars, frameVars
  <2> QED BY <1>0, <1>2, <2>1 DEF FeedTypes
<1>11. CASE FrameEmitted \/ LookupReturns
  <2>1. UNCHANGED <<pool, windowVars, seenHashes, absent>>
    BY <1>11 DEF FrameEmitted, LookupReturns, UntouchedByFrames, poolVars, diffVars
  <2>2. \E n \in {1} \cup 1..Len(tail) : \E id : Emit(n, id)
    BY <1>0, <1>11, LenProperties DEF FrameEmitted, LookupReturns, FeedTypes
  <2>3. tail' \in Seq(Frames) /\ Len(tail') <= Len(tail)
    BY <1>0, <2>2, EmitShortens DEF FeedTypes
  <2> QED BY <1>2, <2>1, <2>3
<1> QED BY <1>3, <1>4, <1>5, <1>6, <1>8, <1>9, <1>10, <1>11 DEF MempoolNext

\* NoFalseRemoval: a removal is announced only of a transaction that left the
\* mempool after the last window that held it was read, however the window is
\* cut (mempool.js:39-58), whoever else asks for it and keeps it fresh or stale
\* for the diff, as long as no request for the window leaves while another is
\* in flight.
THEOREM RemovalsAreTrue == MempoolSpec /\ []OneRequest => NoFalseRemoval
<1>1. MempoolInit => RemovalInv
  BY RemovalInitial
<1>2. OneRequest /\ RemovalInv /\ [MempoolNext]_mempoolVars => RemovalInv'
  BY RemovalStep
<1>3. OneRequest /\ RemovalInv /\ [MempoolNext]_mempoolVars =>
        [\A n \in Len(tail) + 1..Len(tail') :
           tail'[n].kind = "removed" => tail'[n].tx \in absent]_mempoolVars
  BY RemovalStep
<1> QED BY <1>1, <1>2, <1>3, PTL DEF MempoolSpec, NoFalseRemoval

-----------------------------------------------------------------------------
(* What a follower shows.                                                  *)

\* Whether t is shown once all the frames are out: its last frame tells, and if
\* it has none, what is shown now.
LastOf(frames, n, t) ==
  frames[n].tx = t /\ \A m \in DOMAIN frames : m > n => frames[m].tx # t
Shown(frames, pending, t) ==
  \/ \E n \in DOMAIN frames : LastOf(frames, n, t) /\ frames[n].kind = "action"
  \/ t \in pending /\ \A n \in DOMAIN frames : frames[n].tx # t

\* The transactions the detector knows, from the last window it has diffed.
SeenAfterDiff ==
  /\ unsaid \subseteq seenHashes
  /\ ~diffed.known => seenHashes = {}
  /\ diffed.known => /\ diffed.rows \subseteq seenHashes
                     /\ \A t \in seenHashes \ diffed.rows : ~ Covers(diffed.rows, t)
\* The channel's follower will show those, except what no frame announces.
ChannelKnows ==
  \A t \in Txs : Shown(tail, shown.channel, t) <=> t \in seenHashes \ (unsaid \cup Undecodable)

\* A lookup waits for the head of the tail, with no answer in the map.
LookupForHead ==
  /\ lookup.read => lookup.busy
  /\ lookup.busy => tail # <<>> /\ memo = Unknown
\* An answer "id" is the address's id from then on.
IdsStay ==
  /\ memo = "id" => addressId = "id"
  /\ lookup.read /\ lookup.id = "id" => addressId = "id"
\* The address's follower shows some of what the channel's does, and can be told
\* when it goes.
AddressFollows ==
  /\ shown.address \subseteq shown.channel
  /\ shown.address # {} => followed
  /\ shown.address \cap Undecodable = {}
  /\ shown.address \cap Compact # {} =>
       addressId = "id" /\ memo # "none" /\ (lookup.read => lookup.id = "id")

\* The frames of a set name each transaction of it once.
LEMMA FramesOfEach ==
  ASSUME NEW kind \in {"action", "removed"}, NEW S \in SUBSET Txs,
         NEW s \in FramesOf(kind, S), NEW t \in S
  PROVE  \E n \in DOMAIN s : LastOf(s, n, t) /\ s[n].kind = kind
<1>1. IsFiniteSet(S) /\ Cardinality(S) \in Nat
  BY MempoolAssumption, FS_Subset, FS_CardinalityType
<1>2. PICK N \in Nat : N = Cardinality(S)
  BY <1>1
<1>3. s \in [1..N -> [kind : {kind}, tx : S]] /\ IsInjective(s)
  BY <1>2 DEF FramesOf
<1>4. \A n \in 1..N : s[n].kind = kind /\ s[n].tx \in S /\ s[n] = [kind |-> s[n].kind, tx |-> s[n].tx]
  BY <1>3
<1>5. \A m, n \in 1..N : s[m].tx = s[n].tx => m = n
  BY <1>3, <1>4 DEF IsInjective
<1> DEFINE txs == [n \in 1..N |-> s[n].tx]
<1>6. txs \in Injection(1..N, S)
  BY <1>4, <1>5 DEF Injection, IsInjective
<1>7. Cardinality(1..N) = N
  BY <1>2, FS_Interval
<1>8. txs \in Surjection(1..N, S)
  <2> HIDE DEF txs
  <2> QED
    BY <1>1, <1>2, <1>6, <1>7, FS_Injection
<1>9. PICK n \in 1..N : txs[n] = t
  <2> HIDE DEF txs
  <2> QED
    BY <1>8 DEF Surjection
<1> QED
  BY <1>3, <1>4, <1>5, <1>9 DEF LastOf

\* No transaction has two last frames.
LEMMA OneLast ==
  ASSUME NEW s \in Seq(Frames), NEW t, NEW m \in DOMAIN s, NEW n \in DOMAIN s,
         LastOf(s, m, t), LastOf(s, n, t)
  PROVE  m = n
<1>1. m \in Nat /\ n \in Nat
  BY LenProperties
<1> QED
  BY <1>1 DEF LastOf

\* Frames that come later decide for the transactions they name.
LEMMA ShownMore ==
  ASSUME NEW s \in Seq(Frames), NEW more \in Seq(Frames), NEW pending, NEW t
  PROVE  /\ (\A n \in DOMAIN more : more[n].tx # t) =>
              (Shown(s \o more, pending, t) <=> Shown(s, pending, t))
         /\ \A n \in DOMAIN more : LastOf(more, n, t) =>
              (Shown(s \o more, pending, t) <=> more[n].kind = "action")
<1>1. PICK both \in Seq(Frames) : both = s \o more
  BY ConcatProperties
<1>2. /\ Len(s) \in Nat /\ Len(more) \in Nat
      /\ DOMAIN s = 1..Len(s) /\ DOMAIN more = 1..Len(more)
      /\ DOMAIN both = 1..(Len(s) + Len(more))
  BY <1>1, LenProperties, ConcatProperties
<1>3. /\ \A n \in DOMAIN s : n \in DOMAIN both /\ both[n] = s[n]
      /\ \A n \in DOMAIN more : Len(s) + n \in DOMAIN both /\ both[Len(s) + n] = more[n]
      /\ \A n \in DOMAIN both : n \notin DOMAIN s =>
           n > Len(s) /\ n - Len(s) \in DOMAIN more /\ both[n] = more[n - Len(s)]
  <2>1. \A n \in 1..(Len(s) + Len(more)) : both[n] = IF n <= Len(s) THEN s[n] ELSE more[n - Len(s)]
    BY <1>1, ConcatProperties
  <2> QED
    BY <1>2, <2>1
<1>4. ASSUME \A n \in DOMAIN more : more[n].tx # t
      PROVE  Shown(both, pending, t) <=> Shown(s, pending, t)
  <2>1. \A n \in DOMAIN both : both[n].tx = t => n \in DOMAIN s
    BY <1>3, <1>4
  <2>2. \A n \in DOMAIN s : LastOf(both, n, t) <=> LastOf(s, n, t)
    BY <1>2, <1>3, <2>1 DEF LastOf
  <2> QED
    BY ZenonT(60), <1>3, <2>1, <2>2 DEF Shown, LastOf
<1>5. ASSUME NEW n \in DOMAIN more, LastOf(more, n, t)
      PROVE  Shown(both, pending, t) <=> more[n].kind = "action"
  <2>1. PICK k \in DOMAIN both : k = Len(s) + n /\ both[k] = more[n]
    BY <1>3
  <2>2. LastOf(both, k, t)
    <3> SUFFICES ASSUME NEW m \in DOMAIN both, m > k PROVE both[m].tx # t
      BY <1>5, <2>1 DEF LastOf
    <3>1. m - Len(s) \in DOMAIN more /\ both[m] = more[m - Len(s)] /\ m - Len(s) > n
      BY <1>2, <1>3, <2>1
    <3> QED
      BY <1>5, <3>1 DEF LastOf
  <2>3. \A m \in DOMAIN both : LastOf(both, m, t) => m = k
    BY <2>2, OneLast
  <2>4. both[k].tx = t
    BY <2>2 DEF LastOf
  <2> QED
    BY <2>1, <2>2, <2>3, <2>4 DEF Shown
<1> QED
  BY <1>1, <1>4, <1>5

\* A frame that goes out moves its verdict from the tail to what is shown.
LEMMA ShownHead ==
  ASSUME NEW s \in Seq(Frames), s # <<>>, NEW pending, NEW t
  PROVE  Shown(Tail(s), Shows(pending, s[1]), t) <=> Shown(s, pending, t)
<1>1. PICK rest \in Seq(Frames) : rest = Tail(s)
  BY HeadTailProperties
<1>2. /\ Len(s) \in Nat /\ Len(s) >= 1 /\ DOMAIN s = 1..Len(s) /\ DOMAIN rest = 1..(Len(s) - 1)
      /\ \A n \in DOMAIN rest : rest[n] = s[n + 1]
      /\ s[1] \in Frames
  BY <1>1
<1>3. /\ \A n \in DOMAIN rest : n + 1 \in DOMAIN s /\ rest[n] = s[n + 1]
      /\ \A n \in DOMAIN s : n # 1 => n - 1 \in DOMAIN rest /\ rest[n - 1] = s[n]
      /\ \A n \in DOMAIN s : n \in Nat /\ n >= 1
      /\ \A n \in DOMAIN rest : n \in Nat /\ n >= 1
      /\ 1 \in DOMAIN s
  BY <1>2
<1>4. \A n \in DOMAIN rest : LastOf(rest, n, t) <=> LastOf(s, n + 1, t)
  <2> SUFFICES ASSUME NEW n \in DOMAIN rest PROVE LastOf(rest, n, t) <=> LastOf(s, n + 1, t)
    OBVIOUS
  <2>1. ASSUME LastOf(rest, n, t), NEW m \in DOMAIN s, m > n + 1 PROVE s[m].tx # t
    <3>1. m - 1 \in DOMAIN rest /\ m - 1 > n /\ rest[m - 1] = s[m]
      BY <1>3, <2>1
    <3> QED
      BY <2>1, <3>1 DEF LastOf
  <2>2. ASSUME LastOf(s, n + 1, t), NEW m \in DOMAIN rest, m > n PROVE rest[m].tx # t
    <3>1. m + 1 \in DOMAIN s /\ m + 1 > n + 1 /\ rest[m] = s[m + 1]
      BY <1>3, <2>2
    <3> QED
      BY <2>2, <3>1 DEF LastOf
  <2> QED
    BY <1>3, <2>1, <2>2 DEF LastOf
<1>5. (\E n \in DOMAIN rest : LastOf(rest, n, t) /\ rest[n].kind = "action")
      <=> \E n \in DOMAIN s : n # 1 /\ LastOf(s, n, t) /\ s[n].kind = "action"
  <2>1. ASSUME NEW n \in DOMAIN s, n # 1
        PROVE  n - 1 \in DOMAIN rest /\ rest[n - 1] = s[n] /\ (LastOf(rest, n - 1, t) <=> LastOf(s, n, t))
    <3>1. n - 1 \in DOMAIN rest /\ rest[n - 1] = s[n] /\ (n - 1) + 1 = n
      BY <1>3, <2>1
    <3> QED
      BY <1>4, <3>1
  <2>2. ASSUME NEW n \in DOMAIN rest, LastOf(rest, n, t), rest[n].kind = "action"
        PROVE  \E i \in DOMAIN s : i # 1 /\ LastOf(s, i, t) /\ s[i].kind = "action"
    <3>1. PICK i \in DOMAIN s : i = n + 1 /\ i # 1 /\ s[i] = rest[n]
      BY <1>3, <2>2
    <3> QED
      BY <1>4, <2>2, <3>1
  <2>3. ASSUME NEW n \in DOMAIN s, n # 1, LastOf(s, n, t), s[n].kind = "action"
        PROVE  \E i \in DOMAIN rest : LastOf(rest, i, t) /\ rest[i].kind = "action"
    BY <2>1, <2>3
  <2> QED
    BY <2>2, <2>3
<1>6. LastOf(s, 1, t) <=> s[1].tx = t /\ \A n \in DOMAIN rest : rest[n].tx # t
  <2>1. ASSUME LastOf(s, 1, t), NEW n \in DOMAIN rest PROVE rest[n].tx # t
    <3>1. n + 1 \in DOMAIN s /\ n + 1 > 1 /\ rest[n] = s[n + 1]
      BY <1>3
    <3> QED
      BY <2>1, <3>1 DEF LastOf
  <2>2. ASSUME \A n \in DOMAIN rest : rest[n].tx # t, NEW m \in DOMAIN s, m > 1 PROVE s[m].tx # t
    <3>1. m - 1 \in DOMAIN rest /\ rest[m - 1] = s[m]
      BY <1>3, <2>2
    <3> QED
      BY <2>2, <3>1
  <2> QED
    BY <2>1, <2>2 DEF LastOf
<1>7. (\A n \in DOMAIN s : s[n].tx # t) <=> s[1].tx # t /\ \A n \in DOMAIN rest : rest[n].tx # t
  BY ZenonT(60), <1>3
<1>8. t \in Shows(pending, s[1]) <=> IF s[1].tx = t THEN s[1].kind = "action" ELSE t \in pending
  BY DEF Shows
<1>9. \A n \in DOMAIN rest : LastOf(rest, n, t) => rest[n].tx = t
  BY DEF LastOf
<1>10. Shown(s, pending, t) <=> \/ \E n \in DOMAIN s : n # 1 /\ LastOf(s, n, t) /\ s[n].kind = "action"
                                \/ LastOf(s, 1, t) /\ s[1].kind = "action"
                                \/ t \in pending /\ \A n \in DOMAIN s : s[n].tx # t
  BY <1>3 DEF Shown
<1>11. Shown(rest, Shows(pending, s[1]), t) <=>
         \/ \E n \in DOMAIN rest : LastOf(rest, n, t) /\ rest[n].kind = "action"
         \/ t \in Shows(pending, s[1]) /\ \A n \in DOMAIN rest : rest[n].tx # t
  BY DEF Shown
<1> QED
  BY <1>1, <1>5, <1>6, <1>7, <1>8, <1>10, <1>11

-----------------------------------------------------------------------------
\* After a diff the detector knows the window, what it left out above a full
\* one, and nothing else; the frames tell the channel's follower as much.
LEMMA DiffKnows ==
  ASSUME FeedTypes, unsaid \subseteq seenHashes, ~diffed.known => seenHashes = {},
         ChannelKnows, NEW rows \in SUBSET Txs, Diff(rows), shown' = shown
  PROVE  /\ SeenAfterDiff' /\ ChannelKnows'
         /\ tail' \in Seq(Frames) /\ seenHashes' \subseteq Txs
         /\ tail # <<>> => tail' # <<>>
<1>1. /\ seenHashes \subseteq Txs /\ tail \in Seq(Frames)
      /\ diffed' = WindowOf(rows) /\ diffed'.known /\ diffed'.rows = rows
  BY DEF FeedTypes, Diff, WindowOf
<1>2. CASE ~diffed.known
  <2>1. seenHashes = {} /\ unsaid = {} /\ seenHashes' = rows /\ unsaid' = rows /\ tail' = tail
    BY <1>2 DEF Diff
  <2> QED
    BY <1>1, <2>1 DEF SeenAfterDiff, ChannelKnows
<1>3. CASE diffed.known
  <2>1. /\ seenHashes' = rows \cup (seenHashes \ Gone(rows)) /\ unsaid' = unsaid \ Gone(rows)
        /\ Gone(rows) \subseteq seenHashes \ rows
    BY <1>3 DEF Diff, StillKnown, Gone
  <2>2. SeenAfterDiff'
    BY <1>1, <2>1 DEF SeenAfterDiff, Gone
  <2>3. PICK S \in SUBSET Txs : S = (rows \ seenHashes) \ Undecodable
    OBVIOUS
  <2>4. PICK G \in SUBSET Txs : G = Gone(rows)
    BY <1>1, <2>1
  <2>5. PICK new \in FramesOf("action", S), gone \in FramesOf("removed", G) : tail' = tail \o new \o gone
    BY <1>3, <2>3, <2>4 DEF Diff
  <2>6. /\ new \in Seq(Frames) /\ gone \in Seq(Frames)
        /\ \A n \in 1..Len(new) : new[n].tx \in S
        /\ \A n \in 1..Len(gone) : gone[n].tx \in G
        /\ DOMAIN new = 1..Len(new) /\ DOMAIN gone = 1..Len(gone)
    BY FramesOfSet, LenProperties
  <2>7. PICK said \in Seq(Frames) : said = tail \o new /\ Len(said) = Len(tail) + Len(new)
    BY <1>1, <2>6, ConcatProperties
  <2>8. tail' = said \o gone /\ tail' \in Seq(Frames) /\ Len(tail') = Len(said) + Len(gone)
    BY <2>5, <2>6, <2>7, ConcatProperties
  <2>9. tail # <<>> => tail' # <<>>
    <3>1. tail # <<>> => Len(tail) > 0
      BY <1>1, EmptySeq, LenProperties
    <3> QED
      BY <1>1, <2>6, <2>7, <2>8, <3>1, EmptySeq, LenProperties
  <2>10. ASSUME NEW t \in Txs
         PROVE  Shown(tail', shown.channel, t) <=> t \in seenHashes' \ (unsaid' \cup Undecodable)
    <3>1. Shown(tail, shown.channel, t) <=> t \in seenHashes \ (unsaid \cup Undecodable)
      BY DEF ChannelKnows
    <3>2. CASE t \in G
      <4>1. PICK n \in DOMAIN gone : LastOf(gone, n, t) /\ gone[n].kind = "removed"
        BY <2>5, <3>2, FramesOfEach
      <4>2. Shown(said \o gone, shown.channel, t) <=> gone[n].kind = "action"
        BY <2>6, <2>7, <4>1, ShownMore, Zenon
      <4> QED
        BY <2>1, <2>4, <2>8, <3>2, <4>1, <4>2
    <3>3. CASE t \notin G
      <4>1. Shown(tail', shown.channel, t) <=> Shown(said, shown.channel, t)
        <5>1. \A n \in DOMAIN gone : gone[n].tx # t
          BY <2>6, <3>3
        <5> QED
          <6>1. Shown(said \o gone, shown.channel, t) <=> Shown(said, shown.channel, t)
            BY <2>6, <2>7, <5>1, ShownMore, Zenon
          <6> QED
            BY <2>8, <6>1
      <4>2. CASE t \in S
        <5>1. PICK n \in DOMAIN new : LastOf(new, n, t) /\ new[n].kind = "action"
          BY <2>5, <4>2, FramesOfEach
        <5>2. Shown(said, shown.channel, t)
          <6>1. Shown(tail \o new, shown.channel, t) <=> new[n].kind = "action"
            BY <1>1, <2>6, <5>1, ShownMore, Zenon
          <6> QED
            BY <2>7, <5>1, <6>1
        <5> QED
          BY <2>1, <2>3, <4>1, <4>2, <5>2
      <4>3. CASE t \notin S
        <5>1. Shown(said, shown.channel, t) <=> Shown(tail, shown.channel, t)
          <6>1. \A n \in DOMAIN new : new[n].tx # t
            BY <2>6, <4>3
          <6>2. Shown(tail \o new, shown.channel, t) <=> Shown(tail, shown.channel, t)
            BY <1>1, <2>6, <6>1, ShownMore, Zenon
          <6> QED
            BY <2>7, <6>2
        <5> QED
          BY <2>1, <2>3, <2>4, <3>1, <3>3, <4>1, <4>3, <5>1
      <4> QED
        BY <4>2, <4>3
    <3> QED
      BY <3>2, <3>3
  <2>11. ChannelKnows'
    BY <2>10 DEF ChannelKnows
  <2>12. seenHashes' \subseteq Txs
    BY <1>1, <2>1
  <2> QED
    BY <2>2, <2>8, <2>9, <2>11, <2>12
<1> QED
  BY <1>2, <1>3

\* What is shown are transactions.
FollowerTypes == shown \in [channel : SUBSET Txs, address : SUBSET Txs]

\* The inductive invariant of the followers.
PendingInv ==
  /\ LookupCurrent /\ FeedTypes /\ FollowerTypes
  /\ SeenAfterDiff /\ ChannelKnows
  /\ LookupForHead /\ IdsStay /\ AddressFollows

\* At the start nothing is known, nothing shown and no frame is out.
LEMMA PendingInitial ==
  ASSUME MempoolInit
  PROVE  PendingInv
<1>1. LookupCurrent
  BY LookupInitial
<1>2. FeedTypes
  BY RemovalInitial DEF RemovalInv
<1>3. FollowerTypes /\ SeenAfterDiff /\ LookupForHead /\ IdsStay /\ AddressFollows
  BY DEF MempoolInit, FollowerTypes, SeenAfterDiff, NoWindow, LookupForHead, NoLookup, Unknown,
         IdsStay, AddressFollows
<1>4. ChannelKnows
  BY DEF MempoolInit, ChannelKnows, Shown
<1> QED
  BY <1>1, <1>2, <1>3, <1>4 DEF PendingInv

\* A read of the decoder ends in a diff of some window or changes no frame.
LEMMA ReadOf ==
  ASSUME FeedTypes, NEW r \in WindowReaders,
         ServeCached(r) \/ AskDecoder(r) \/ DecoderAnswers(r) \/ DecoderFails(r)
  PROVE  /\ window' \in Windows
         /\ asked' \in [WindowReaders -> [rows : SUBSET Txs, hit : Windows, busy : BOOLEAN]]
         /\ UNCHANGED <<pool, addressId, followed, lookup, memo, shown>>
         /\ \/ \E rows \in SUBSET Txs : Diff(rows)
            \/ UNCHANGED <<seenHashes, diffed, unsaid, tail>>
<1> DEFINE Requests == [rows : SUBSET Txs, hit : Windows, busy : BOOLEAN]
<1>1. /\ window \in Windows /\ pool \subseteq Txs
      /\ asked \in [WindowReaders -> Requests] /\ asked[r] \in Requests
  BY DEF FeedTypes
<1>2. UNCHANGED <<pool, addressId, followed, lookup, memo, shown>>
  BY DEF ServeCached, AskDecoder, DecoderAnswers, DecoderFails, UntouchedByReads, poolVars, blockVars
<1>3. \A w \in Windows : Serve(r, w) =>
        \/ \E rows \in SUBSET Txs : Diff(rows)
        \/ UNCHANGED <<seenHashes, diffed, unsaid, tail>>
  BY DEF Serve, Windows, diffVars
<1>4. /\ NoWindow \in Windows /\ Unasked \in Requests /\ WindowOf(asked[r].rows) \in Windows
      /\ asked[r].hit \in Windows
  BY <1>1 DEF NoWindow, Unasked, WindowOf, Windows
<1>5. CASE ServeCached(r)
  BY <1>1, <1>2, <1>3, <1>5 DEF ServeCached, windowVars
<1>6. CASE AskDecoder(r)
  <2>1. [rows |-> LowestOf(pool), hit |-> window, busy |-> TRUE] \in Requests
    BY <1>1 DEF LowestOf
  <2> QED
    BY <1>1, <1>2, <1>6, <2>1 DEF AskDecoder, diffVars
<1>7. CASE DecoderAnswers(r)
  BY <1>1, <1>2, <1>3, <1>4, <1>7 DEF DecoderAnswers
<1>8. CASE DecoderFails(r)
  BY <1>1, <1>2, <1>3, <1>4, <1>8 DEF DecoderFails
<1> QED
  BY <1>5, <1>6, <1>7, <1>8

\* A reader of the decoder changes what is known through a diff only.
LEMMA PendingRead ==
  ASSUME PendingInv, LookupCurrent', NEW r \in WindowReaders,
         ServeCached(r) \/ AskDecoder(r) \/ DecoderAnswers(r) \/ DecoderFails(r)
  PROVE  PendingInv'
<1>1. /\ FeedTypes /\ window' \in Windows
      /\ asked' \in [WindowReaders -> [rows : SUBSET Txs, hit : Windows, busy : BOOLEAN]]
      /\ UNCHANGED <<pool, addressId, followed, lookup, memo, shown>>
      /\ \/ \E rows \in SUBSET Txs : Diff(rows)
         \/ UNCHANGED <<seenHashes, diffed, unsaid, tail>>
  BY ReadOf DEF PendingInv
<1>2. /\ SeenAfterDiff' /\ ChannelKnows' /\ tail' \in Seq(Frames) /\ seenHashes' \subseteq Txs
      /\ tail # <<>> => tail' # <<>>
  <2>1. CASE UNCHANGED <<seenHashes, diffed, unsaid, tail>>
    BY <1>1, <2>1 DEF PendingInv, FeedTypes, SeenAfterDiff, ChannelKnows
  <2>2. ASSUME NEW rows \in SUBSET Txs, Diff(rows)
        PROVE  /\ SeenAfterDiff' /\ ChannelKnows' /\ tail' \in Seq(Frames) /\ seenHashes' \subseteq Txs
               /\ tail # <<>> => tail' # <<>>
    BY <1>1, <2>2, DiffKnows DEF PendingInv, SeenAfterDiff
  <2> QED
    BY <1>1, <2>1, <2>2
<1>3. FeedTypes'
  BY <1>1, <1>2 DEF FeedTypes
<1>4. LookupForHead' /\ IdsStay' /\ AddressFollows' /\ FollowerTypes'
  BY <1>1, <1>2 DEF PendingInv, LookupForHead, IdsStay, AddressFollows, FollowerTypes
<1> QED
  BY <1>2, <1>3, <1>4 DEF PendingInv

\* The head goes out, matched with an answer that is the address's id if it has
\* been one before.
LEMMA PendingEmit ==
  ASSUME PendingInv, tail # <<>>, NEW id \in Ids \cup {Unknown}, Emit(1, id),
         id = "id" => addressId = "id",
         followed => id # Unknown,
         shown.address \cap Compact # {} => id = "id",
         UNCHANGED <<seenHashes, diffed, unsaid, followed, addressId>>
  PROVE  /\ tail' \in Seq(Frames) /\ FollowerTypes' /\ SeenAfterDiff' /\ ChannelKnows'
         /\ shown'.address \subseteq shown'.channel
         /\ shown'.address # {} => followed'
         /\ shown'.address \cap Undecodable = {}
         /\ shown'.address \cap Compact # {} => id = "id" /\ addressId' = "id"
<1>1. PICK f \in Frames : f = tail[1]
  BY ElementOfSeq, EmptySeq, LenProperties DEF PendingInv, FeedTypes
<1>2. tail \in Seq(Frames) /\ tail' = Tail(tail) /\ tail' \in Seq(Frames)
  <2>1. tail \in Seq(Frames)
    BY DEF PendingInv, FeedTypes
  <2>2. tail' = SubSeq(tail, 1, 0) \o SubSeq(tail, 2, Len(tail))
    BY DEF Emit, RemoveAt
  <2>3. SubSeq(tail, 1, 0) = <<>> /\ SubSeq(tail, 2, Len(tail)) = Tail(tail) /\ Tail(tail) \in Seq(Frames)
    BY <2>1, SubSeqEmpty, TailIsSubSeq, HeadTailProperties
  <2> QED
    BY <2>1, <2>2, <2>3
<1>3. shown' = [channel |-> Shows(shown.channel, f),
                address |-> IF followed /\ MatchesAddress(f.tx, id)
                            THEN Shows(shown.address, f) ELSE shown.address]
  BY <1>1 DEF Emit
<1>4. f.tx \in Txs
  BY DEF Frames
<1>5. FollowerTypes'
  BY <1>3, <1>4 DEF FollowerTypes, Shows, PendingInv
<1>6. SeenAfterDiff'
  BY DEF SeenAfterDiff, PendingInv
<1>7. ChannelKnows'
  <2> SUFFICES ASSUME NEW t \in Txs
               PROVE  Shown(tail', shown'.channel, t) <=> t \in seenHashes \ (unsaid \cup Undecodable)
    BY DEF ChannelKnows
  <2>1. Shown(tail, shown.channel, t) <=> t \in seenHashes \ (unsaid \cup Undecodable)
    BY DEF ChannelKnows, PendingInv
  <2>2. shown'.channel = Shows(shown.channel, tail[1])
    BY <1>1, <1>3
  <2> QED
    BY <1>2, <2>1, <2>2, ShownHead
<1>8. /\ shown.address \subseteq shown.channel /\ (shown.address # {} => followed)
      /\ shown.address \cap Undecodable = {}
  BY DEF PendingInv, AddressFollows
<1>9. CASE followed /\ MatchesAddress(f.tx, id)
  <2>1. shown'.channel = Shows(shown.channel, f) /\ shown'.address = Shows(shown.address, f)
        /\ f.tx \notin Undecodable /\ (f.tx \in Compact => id = "id")
    BY <1>3, <1>9 DEF MatchesAddress
  <2> QED
    BY <1>2, <1>5, <1>6, <1>7, <1>8, <1>9, <2>1 DEF Shows
<1>10. CASE ~(followed /\ MatchesAddress(f.tx, id))
  <2>1. shown'.channel = Shows(shown.channel, f) /\ shown'.address = shown.address
    BY <1>3, <1>10
  <2>2. f.tx \notin shown.address
    BY <1>8, <1>10 DEF MatchesAddress
  <2> QED
    BY <1>2, <1>5, <1>6, <1>7, <1>8, <2>1, <2>2 DEF Shows
<1> QED
  BY <1>9, <1>10

\* A frame is matched with the memo, or with the answer its lookup brought.
LEMMA PendingFrames ==
  ASSUME PendingInv, LookupCurrent', FrameEmitted \/ LookupReturns
  PROVE  PendingInv'
<1>1. UNCHANGED <<pool, asked, window, seenHashes, diffed, unsaid, followed, addressId>>
  BY DEF FrameEmitted, LookupReturns, UntouchedByFrames, poolVars, windowVars, diffVars, blockVars
<1>2. /\ LookupCurrent /\ FeedTypes /\ LookupForHead /\ IdsStay /\ AddressFollows
      /\ memo \in Ids \cup {Unknown} /\ lookup.id \in Ids /\ Unknown \notin Ids
  BY DEF PendingInv, LookupCurrent, MemoFresh, Unknown, Ids
<1>3. ASSUME tail' \in Seq(Frames) PROVE FeedTypes'
  BY <1>1, <1>2, <1>3 DEF FeedTypes
<1>4. CASE FrameEmitted
  <2>1. /\ ~lookup.busy /\ UNCHANGED <<lookup, memo>> /\ tail # <<>>
        /\ Emit(1, memo) /\ (followed => memo # Unknown)
    BY <1>4 DEF FrameEmitted, FrameDue
  <2>2. shown.address \cap Compact # {} => memo = "id"
    <3>1. shown.address \cap Compact # {} => memo # "none" /\ followed
      BY <1>2 DEF AddressFollows
    <3> QED
      BY <1>2, <2>1, <3>1 DEF Ids
  <2>3. /\ tail' \in Seq(Frames) /\ FollowerTypes' /\ SeenAfterDiff' /\ ChannelKnows'
        /\ shown'.address \subseteq shown'.channel
        /\ shown'.address # {} => followed'
        /\ shown'.address \cap Undecodable = {}
        /\ shown'.address \cap Compact # {} => memo = "id" /\ addressId' = "id"
    BY <1>1, <1>2, <2>1, <2>2, PendingEmit DEF IdsStay
  <2>4. LookupForHead' /\ IdsStay'
    BY <1>1, <1>2, <2>1 DEF LookupForHead, IdsStay
  <2>5. AddressFollows'
    BY <1>2, <2>1, <2>3 DEF AddressFollows, LookupForHead
  <2> QED
    BY <1>3, <2>3, <2>4, <2>5 DEF PendingInv
<1>5. CASE LookupReturns
  <2>1. /\ lookup.read /\ lookup.busy /\ lookup' = NoLookup /\ memo = Unknown /\ tail # <<>>
        /\ memo' \in {lookup.id, Unknown} /\ Emit(1, lookup.id)
    BY <1>2, <1>5 DEF LookupReturns, LookupForHead, MemoOf
  <2>2. /\ lookup.id = "id" => addressId = "id"
        /\ shown.address \cap Compact # {} => lookup.id = "id"
    BY <1>2, <2>1 DEF IdsStay, AddressFollows
  <2>3. /\ tail' \in Seq(Frames) /\ FollowerTypes' /\ SeenAfterDiff' /\ ChannelKnows'
        /\ shown'.address \subseteq shown'.channel
        /\ shown'.address # {} => followed'
        /\ shown'.address \cap Undecodable = {}
        /\ shown'.address \cap Compact # {} => lookup.id = "id" /\ addressId' = "id"
    BY <1>1, <1>2, <2>1, <2>2, PendingEmit
  <2>4. ~lookup'.read /\ ~lookup'.busy
    BY <2>1 DEF NoLookup
  <2>5. LookupForHead' /\ IdsStay'
    BY <1>1, <2>1, <2>2, <2>4 DEF LookupForHead, IdsStay, Unknown
  <2>6. AddressFollows'
    BY <2>1, <2>3, <2>4 DEF AddressFollows, Unknown
  <2> QED
    BY <1>3, <2>3, <2>5, <2>6 DEF PendingInv
<1> QED
  BY <1>4, <1>5

\* Steps that emit no frame and diff no window.
LEMMA PendingQuiet ==
  ASSUME ~LookupsFail, ~IdsRollBack, PendingInv, LookupCurrent',
         \/ PoolChanges \/ CacheExpires \/ Follow \/ BlockIndexed \/ BlockAnnounced
         \/ LookupBegins \/ LookupReads \/ UNCHANGED mempoolVars
  PROVE  PendingInv'
<1>1. UNCHANGED <<asked, window, seenHashes, diffed, unsaid, tail, shown>>
  BY DEF PoolChanges, CacheExpires, Follow, BlockIndexed, BlockAnnounced, LookupBegins, LookupReads,
         mempoolVars, UntouchedByReads, UntouchedByFrames, poolVars, windowVars, diffVars, frameVars
<1>2. /\ LookupCurrent /\ FeedTypes /\ LookupForHead /\ IdsStay /\ AddressFollows
      /\ lookup \in [busy : BOOLEAN, map : Nat, read : BOOLEAN, id : Ids]
  BY DEF PendingInv, LookupCurrent
<1>3. pool' \subseteq Txs
  <2>1. pool \subseteq Txs
    BY <1>2 DEF FeedTypes
  <2> QED
    BY <2>1 DEF PoolChanges, CacheExpires, Follow, BlockIndexed, BlockAnnounced, LookupBegins,
                LookupReads, mempoolVars, UntouchedByReads, UntouchedByFrames, poolVars
<1>4. FeedTypes' /\ FollowerTypes' /\ SeenAfterDiff' /\ ChannelKnows'
  BY <1>1, <1>2, <1>3 DEF PendingInv, FeedTypes, FollowerTypes, SeenAfterDiff, ChannelKnows
<1>5. SUFFICES LookupForHead' /\ IdsStay' /\ AddressFollows'
  BY <1>4 DEF PendingInv
<1>6. CASE PoolChanges \/ CacheExpires \/ UNCHANGED mempoolVars
  <2>1. UNCHANGED <<lookup, memo, addressId, followed>>
    BY <1>6 DEF PoolChanges, CacheExpires, mempoolVars, UntouchedByReads, frameVars, blockVars
  <2> QED
    BY <1>1, <1>2, <2>1 DEF LookupForHead, IdsStay, AddressFollows
<1>7. CASE Follow
  <2>1. UNCHANGED <<lookup, memo, addressId>> /\ followed'
    BY <1>7 DEF Follow, frameVars, blockVars
  <2> QED
    BY <1>1, <1>2, <2>1 DEF LookupForHead, IdsStay, AddressFollows
<1>8. CASE BlockIndexed
  <2>1. UNCHANGED <<lookup, memo, followed>> /\ addressId' \in {addressId, "id"}
    BY <1>8 DEF BlockIndexed, frameVars
  <2> QED
    BY <1>1, <1>2, <2>1 DEF LookupForHead, IdsStay, AddressFollows
<1>9. CASE BlockAnnounced
  <2>1. UNCHANGED <<lookup, addressId, followed>> /\ memo' = Unknown
    BY <1>9 DEF BlockAnnounced, MemoAfterBlock
  <2> QED
    BY <1>1, <1>2, <2>1 DEF LookupForHead, IdsStay, AddressFollows, Unknown
<1>10. CASE LookupBegins
  <2>1. /\ tail # <<>> /\ memo = Unknown /\ UNCHANGED <<memo, addressId, followed>>
        /\ lookup'.busy /\ ~lookup'.read
    BY <1>10 DEF LookupBegins, UntouchedByFrames, blockVars, NoLookup
  <2> QED
    BY <1>1, <1>2, <2>1 DEF LookupForHead, IdsStay, AddressFollows
<1>11. CASE LookupReads
  <2>1. /\ lookup.busy /\ UNCHANGED <<memo, addressId, followed>>
        /\ lookup' = [lookup EXCEPT !.read = TRUE, !.id = addressId]
    BY <1>11 DEF LookupReads, UntouchedByFrames, blockVars
  <2>2. lookup'.busy /\ lookup'.id = addressId
    BY <1>2, <2>1
  <2> QED
    BY <1>1, <1>2, <2>1, <2>2 DEF LookupForHead, IdsStay, AddressFollows
<1> QED
  BY <1>6, <1>7, <1>8, <1>9, <1>10, <1>11

\* Every step keeps what the followers will end up with.
LEMMA PendingStep ==
  ASSUME ~LookupsFail, ~IdsRollBack, PendingInv, [MempoolNext]_mempoolVars
  PROVE  PendingInv'
<1>1. LookupCurrent'
  BY LookupStep DEF PendingInv
<1> QED
  BY <1>1, PendingQuiet, PendingRead, PendingFrames DEF MempoolNext

\* With the mempool read whole and every frame out, what the detector knows is
\* the mempool, and what the followers will show they show.
LEMMA PendingIsEnough == PendingInv => PendingFollows
<1> SUFFICES ASSUME PendingInv, diffed = WindowOf(pool), Cardinality(pool) < MempoolWindow,
                    tail = <<>>
             PROVE  /\ shown.channel = pool \ (unsaid \cup Undecodable)
                    /\ shown.address \subseteq pool
  BY DEF PendingFollows
<1>1. pool \subseteq Txs /\ seenHashes \subseteq Txs
  BY DEF PendingInv, FeedTypes
<1>2. \A t : Covers(pool, t)
  <2>1. Cardinality(pool) \in Nat
    BY <1>1, MempoolAssumption, FS_Subset, FS_CardinalityType
  <2> QED
    BY <2>1, MempoolAssumption DEF Covers
<1>3. diffed.known /\ diffed.rows = pool
  BY DEF WindowOf
<1>4. seenHashes = pool
  BY <1>2, <1>3 DEF PendingInv, SeenAfterDiff
<1>5. \A t \in Txs : t \in shown.channel <=> t \in pool \ (unsaid \cup Undecodable)
  BY <1>4 DEF PendingInv, ChannelKnows, Shown
<1>6. shown.channel \subseteq Txs /\ shown.address \subseteq shown.channel
  BY DEF PendingInv, FollowerTypes, AddressFollows
<1> QED
  BY <1>1, <1>5, <1>6

\* PendingFollows: once the frames of a whole window of the mempool as it is are
\* out, the channel's follower shows what is pending and the address's follower
\* nothing that has gone (broadcaster/mempool.js:204, the frames of a coin one
\* after the other), whoever else asks the decoder, as long as a lookup does not
\* fail and the address keeps its id.
THEOREM FollowersShowThePending ==
  ASSUME ~LookupsFail, ~IdsRollBack
  PROVE  MempoolSpec => []PendingFollows
<1>1. MempoolInit => PendingInv
  BY PendingInitial
<1>2. PendingInv /\ [MempoolNext]_mempoolVars => PendingInv'
  BY PendingStep
<1> QED
  BY <1>1, <1>2, PendingIsEnough, PTL DEF MempoolSpec

-----------------------------------------------------------------------------
(* The feed of confirmed rows.                                             *)

USE LimitsAssumption, BoundsAssumption

-----------------------------------------------------------------------------
(* The operators the actions are built from.                               *)

\* The lowest of a set of indexes that is bounded from below.
LEMMA LowestIs ==
  ASSUME NEW m \in Int, NEW S, \A k \in S : k \in Int /\ k >= m, S # {}
  PROVE  Lowest(S) \in S /\ \A k \in S : Lowest(S) <= k
<1> DEFINE above == {k - m : k \in S}
<1>1. above \in SUBSET Nat /\ above # {}
  OBVIOUS
<1>2. PICK low \in above : \A other \in above : low <= other
  BY <1>1, LeastOf
<1>3. PICK a \in S : low = a - m
  OBVIOUS
<1>4. \A b \in S : a - m <= b - m
  BY <1>2, <1>3
<1>5. \A b \in S : a <= b
  BY <1>4
<1> QED
  BY <1>3, <1>5 DEF Lowest

\* The chain has a block, as many as the model allows at most.
ChainTyped == chain \in Seq(Blocks) /\ minted \in 1..MaxMinted /\ Len(chain) \in 1..MaxBlocks

LEMMA ChainIs ==
  ASSUME ChainTyped
  PROVE  /\ MaxBlock \in 1..MaxBlocks /\ MaxAction \in 0..MaxActions
         /\ \A h \in 1..MaxBlock : /\ h \in Heights
                                   /\ chain[h] \in Blocks
                                   /\ chain[h].hash \in 1..MaxMinted
                                   /\ Top(h) = chain[h].top /\ Top(h) \in 0..MaxActions
<1>1. MaxBlock \in 1..MaxBlocks /\ \A h \in 1..MaxBlock : chain[h] \in Blocks /\ h # 0
  BY DEF ChainTyped, MaxBlock
<1>2. \A h \in 1..MaxBlock : /\ chain[h].hash \in 1..MaxMinted
                            /\ Top(h) = chain[h].top /\ Top(h) \in 0..MaxActions
  BY <1>1 DEF Top, Blocks
<1> QED
  BY <1>1, <1>2 DEF MaxAction, Heights

\* The height of an indexed action: its block ends at or above it, the one
\* below ends before it.
LEMMA HeightOfAction ==
  ASSUME ChainTyped, NEW i \in 1..MaxAction
  PROVE  /\ HeightOf(i) \in 1..MaxBlock
         /\ Top(HeightOf(i) - 1) < i /\ i <= Top(HeightOf(i))
<1> DEFINE S == {h \in 1..MaxBlock : i <= Top(h)}
<1>1. MaxBlock \in Nat /\ MaxBlock >= 1 /\ \A h \in 1..MaxBlock : Top(h) \in Nat
  BY ChainIs
<1>2. MaxBlock \in S
  BY <1>1 DEF MaxAction
<1>3. S \in SUBSET Nat
  BY <1>1
<1> HIDE DEF S
<1>4. PICK h \in S : \A k \in S : h <= k
  BY <1>2, <1>3, LeastOf
<1>5. h \in 1..MaxBlock /\ i <= Top(h)
  BY <1>4 DEF S
<1>6. Top(h - 1) < i
  <2>1. CASE h = 1
    BY <2>1 DEF Top
  <2>2. CASE h # 1
    <3>1. h - 1 \in 1..MaxBlock /\ h - 1 \notin S
      BY <1>1, <1>4, <1>5, <2>2
    <3> QED
      BY <1>1, <3>1 DEF S
  <2> QED
    BY <2>1, <2>2
<1> QED
  BY <1>5, <1>6 DEF HeightOf

\* What getActionsSince answers: rows without a gap above from, none above the
\* bound or the last action, and no more than asked for.
LEMMA ActionsSinceAre ==
  ASSUME ChainTyped, NEW from \in Int, NEW limit \in Nat, NEW bound \in Int,
         NEW rows, rows = ActionsSince(from, limit, bound)
  PROVE  /\ rows \in Seq(Rows)
         /\ Len(rows) <= limit
         /\ \A n \in DOMAIN rows :
              /\ rows[n].index = Larger(from, 0) + n
              /\ rows[n].height = HeightOf(Larger(from, 0) + n)
              /\ rows[n].hash = HashOf(Larger(from, 0) + n)
              /\ Larger(from, 0) + n <= bound
              /\ Larger(from, 0) + n \in 1..MaxAction
<1> DEFINE low == Larger(from, 0)
           last == Smaller(Smaller(low + limit, bound), MaxAction)
           size == IF low < last THEN last - low ELSE 0
           since == [n \in 1..size |->
                      [index |-> low + n, height |-> HeightOf(low + n), hash |-> HashOf(low + n)]]
<1>1. MaxBlock \in 1..MaxBlocks /\ MaxAction \in 0..MaxActions
      /\ \A h \in 1..MaxBlock : chain[h].hash \in 1..MaxMinted
  BY ChainIs
<1>2. low \in Nat /\ last \in Int /\ last <= low + limit /\ last <= bound /\ last <= MaxAction
  <2>1. low \in Nat
    BY DEF Larger
  <2> HIDE DEF low
  <2> DEFINE top == low + limit
             room == Smaller(top, bound)
  <2>2. top \in Int
    BY <2>1
  <2> HIDE DEF top
  <2>3. room \in Int /\ room <= top /\ room <= bound
    BY <2>2 DEF Smaller
  <2> HIDE DEF room
  <2>4. Smaller(room, MaxAction) \in Int /\ Smaller(room, MaxAction) <= room
        /\ Smaller(room, MaxAction) <= MaxAction
    BY <1>1, <2>3 DEF Smaller
  <2>5. last = Smaller(room, MaxAction)
    BY DEF room, top
  <2> HIDE DEF last
  <2>6. last \in Int /\ last <= top /\ last <= bound /\ last <= MaxAction
    BY <1>1, <2>2, <2>3, <2>4, <2>5
  <2> QED
    BY <2>1, <2>6 DEF top
<1>3. size \in Nat /\ size <= limit /\ \A n \in 1..size : low + n <= last
  BY <1>2
<1> HIDE DEF low, last, size
<1>4. \A n \in 1..size : low + n \in 1..MaxAction /\ low + n <= bound
  BY <1>1, <1>2, <1>3
<1>5. \A n \in 1..size :
        [index |-> low + n, height |-> HeightOf(low + n), hash |-> HashOf(low + n)] \in Rows
  <2> SUFFICES ASSUME NEW n \in 1..size
               PROVE  /\ low + n \in Indexes
                      /\ HeightOf(low + n) \in Heights
                      /\ HashOf(low + n) \in 1..MaxMinted
    BY DEF Rows
  <2>1. low + n \in 1..MaxAction
    BY <1>4
  <2>2. HeightOf(low + n) \in 1..MaxBlock
    BY <2>1, HeightOfAction
  <2> QED
    BY <1>1, <2>1, <2>2 DEF Indexes, Heights, HashOf
<1>6. since \in Seq(Rows) /\ Len(since) = size /\ DOMAIN since = 1..size
  BY <1>3, <1>5
<1>7. rows = since
  BY DEF ActionsSince, low, last, size
<1> HIDE DEF since
<1>8. \A n \in 1..size : /\ since[n].index = low + n /\ since[n].height = HeightOf(low + n)
                         /\ since[n].hash = HashOf(low + n)
  BY DEF since
<1> QED
  BY <1>3, <1>4, <1>6, <1>7, <1>8 DEF low

-----------------------------------------------------------------------------
(* Types, with what the indexes of rows in flight need.                    *)

Pcs == {"idle", "tip", "probe", "block", "action", "tips", "history", "rewind", "fetch",
        "acts", "rows", "life"}
States == Stages \cup {"new", "away", "live", "resync"}

\* A pass in its rows is at one of them, or has none.
PassShape(p) ==
  /\ p.pc \notin {"rows", "life"} => p.next = 1
  /\ p.pc = "rows" => IF p.rows = <<>> THEN p.next = 1 ELSE p.next <= Len(p.rows)
  /\ p.pc = "life" => p.next <= Len(p.rows)

\* So is a client in its replay.
RowsShape(cl) ==
  /\ cl.state \notin {"replay", "replaylife"} => cl.next = 1
  /\ cl.state = "replay" => IF cl.rows = <<>> THEN cl.next = 1 ELSE cl.next <= Len(cl.rows)
  /\ cl.state = "replaylife" => cl.next <= Len(cl.rows)

\* A first action lies below index 1 by no more than the chain had actions.
Firsts == {k \in Int : k >= 1 - MaxActions}
Histories == [Heights -> [hash : 0..MaxMinted, first : SUBSET Firsts]]

CursorTyped ==
  /\ seeded \in BOOLEAN
  /\ lastTip \in Tips
  /\ pendingReorg \in BOOLEAN
  /\ blockIndex \in 0..MaxBlocks
  /\ actionIndex \in Int
  /\ liveMark \in Int
  /\ history \in Histories
LogTyped ==
  /\ reorgLog \in Seq([first : Int, tip : Int])
  /\ rollbacks \in Seq([seq : Nat \ {0}, first : Int])
  /\ Len(reorgLog) <= LogDepth /\ Len(rollbacks) <= LogDepth
  /\ rollbackSeq \in Nat
ReaderTyped == reader \in [Readers -> Passes] /\ \A r \in Readers : PassShape(reader[r])
ClientTyped == client \in [Clients -> ClientRecords] /\ \A c \in Clients : RowsShape(client[c])

FeedTyped ==
  /\ ChainTyped /\ CursorTyped /\ LogTyped /\ ReaderTyped
  /\ joined \subseteq Clients /\ ClientTyped
  /\ quiet \in BOOLEAN /\ left \in [Faults -> Nat]

LEMMA TypedIsTypeOK == FeedTyped => TypeOK
<1> SUFFICES ASSUME FeedTyped PROVE TypeOK
  OBVIOUS
<1>1. history \in [Heights -> [hash : 0..MaxMinted, first : SUBSET Int]]
  BY DEF FeedTyped, CursorTyped, Histories, Firsts
<1> QED
  BY <1>1 DEF TypeOK, FeedTyped, ChainTyped, CursorTyped, LogTyped, ReaderTyped, ClientTyped

\* An action that keeps the variables of a group keeps their types.
LEMMA TypeFrame ==
  ASSUME FeedTyped
  PROVE  /\ ChainTyped /\ CursorTyped /\ LogTyped /\ ReaderTyped /\ ClientTyped
         /\ UNCHANGED chainVars => ChainTyped'
         /\ UNCHANGED <<seeded, lastTip, pendingReorg, cursorVars, history>> => CursorTyped'
         /\ UNCHANGED logVars => LogTyped'
         /\ UNCHANGED feedVars => CursorTyped' /\ LogTyped'
         /\ UNCHANGED reader => ReaderTyped'
         /\ UNCHANGED joined => joined' \subseteq Clients
         /\ UNCHANGED client => ClientTyped'
         /\ UNCHANGED quiet => quiet' \in BOOLEAN
         /\ UNCHANGED left => left' \in [Faults -> Nat]
         /\ /\ ChainTyped' /\ CursorTyped' /\ LogTyped' /\ ReaderTyped'
            /\ joined' \subseteq Clients /\ ClientTyped'
            /\ quiet' \in BOOLEAN /\ left' \in [Faults -> Nat]
            => FeedTyped'
<1>1. /\ ChainTyped /\ CursorTyped /\ LogTyped /\ ReaderTyped /\ ClientTyped
      /\ joined \subseteq Clients /\ quiet \in BOOLEAN /\ left \in [Faults -> Nat]
  BY Zenon DEF FeedTyped
<1>2. UNCHANGED chainVars => ChainTyped'
  BY <1>1 DEF ChainTyped, chainVars
<1>3. UNCHANGED <<seeded, lastTip, pendingReorg, cursorVars, history>> => CursorTyped'
  BY <1>1 DEF CursorTyped, cursorVars
<1>4. UNCHANGED logVars => LogTyped'
  BY <1>1 DEF LogTyped, logVars
<1>5. UNCHANGED feedVars => CursorTyped' /\ LogTyped'
  BY <1>3, <1>4 DEF feedVars
<1>6. UNCHANGED reader => ReaderTyped'
  BY <1>1 DEF ReaderTyped
<1>7. UNCHANGED client => ClientTyped'
  BY <1>1 DEF ClientTyped
<1>8. /\ ChainTyped' /\ CursorTyped' /\ LogTyped' /\ ReaderTyped'
      /\ joined' \subseteq Clients /\ ClientTyped'
      /\ quiet' \in BOOLEAN /\ left' \in [Faults -> Nat]
      => FeedTyped'
  BY Zenon DEF FeedTyped
<1> QED
  BY <1>1, <1>2, <1>3, <1>4, <1>5, <1>6, <1>7, <1>8

\* Spending a fault leaves a budget.
LEMMA SpendType ==
  ASSUME FeedTyped, NEW kind \in Faults, Spend(kind)
  PROVE  left' \in [Faults -> Nat]
<1>1. left \in [Faults -> Nat] /\ left[kind] > 0 /\ left' = [left EXCEPT ![kind] = left[kind] - 1]
  BY DEF FeedTyped, Spend
<1> QED
  BY <1>1

\* One pass of one reader goes on.
LEMMA ReadsType ==
  ASSUME ReaderTyped, NEW r \in Readers, NEW pass \in Passes, PassShape(pass), Reads(r, pass)
  PROVE  ReaderTyped' /\ reader'[r] = pass /\ \A o \in Readers \ {r} : reader'[o] = reader[o]
<1>1. reader' = [reader EXCEPT ![r] = pass] /\ reader \in [Readers -> Passes]
  BY DEF Reads, ReaderTyped
<1>2. reader'[r] = pass /\ \A o \in Readers \ {r} : reader'[o] = reader[o]
  BY <1>1
<1>3. \A o \in Readers : PassShape(reader'[o])
  BY <1>2 DEF ReaderTyped
<1> QED
  BY <1>1, <1>2, <1>3 DEF ReaderTyped, PassShape

LEMMA IdleType == IdlePass \in Passes /\ PassShape(IdlePass) /\ NoTip \in Tips
BY DEF IdlePass, Passes, PassShape, NoTip, Tips

Helds == [Indexes -> 0..MaxMinted]
CopyCounts == [Parts -> [Indexes -> 0..2]]
RowSeqs == Seq(Rows)
Positives == Nat \ {0}
Levels == 0..MaxBlocks
Marks == 0..MaxActions

\* The passes with their parts named, for the provers to take them whole.
LEMMA PassesAre ==
  Passes = [pc : Pcs, tip : Tips, was : Tips, block : Levels, action : Marks, fork : Levels,
            rows : RowSeqs, next : Positives]
BY Zenon DEF Passes, Pcs, RowSeqs, Positives, Levels, Marks

\* Outside its rows a pass keeps its place whatever it reads.
LEMMA PlaceKept ==
  ASSUME NEW p, NEW q, PassShape(p), q.next = p.next,
         p.pc \notin {"rows", "life"}, q.pc \notin {"rows", "life"}
  PROVE  PassShape(q)
BY DEF PassShape

LEMMA PassMoves ==
  ASSUME NEW p \in Passes, PassShape(p), p.pc \notin {"rows", "life"},
         NEW pc \in Pcs \ {"rows", "life"}
  PROVE  [p EXCEPT !.pc = pc] \in Passes /\ PassShape([p EXCEPT !.pc = pc])
<1>1. LET q == [p EXCEPT !.pc = pc] IN q \in Passes /\ q.pc = pc /\ q.next = p.next
  BY PassesAre
<1> QED
  BY <1>1, PlaceKept

\* A pass between its rows: its place is the first.
LEMMA PassFields ==
  ASSUME ReaderTyped, NEW r \in Readers
  PROVE  /\ reader[r] \in Passes /\ PassShape(reader[r])
         /\ reader[r].pc \in Pcs
         /\ reader[r].tip \in Tips /\ reader[r].was \in Tips
         /\ reader[r].block \in 0..MaxBlocks /\ reader[r].action \in 0..MaxActions
         /\ reader[r].fork \in 0..MaxBlocks
         /\ reader[r].rows \in Seq(Rows) /\ reader[r].next \in Nat \ {0}
BY DEF ReaderTyped, Passes, Pcs

\* One client goes on.
LEMMA GoesType ==
  ASSUME ClientTyped, NEW c \in Clients, NEW cl \in ClientRecords, RowsShape(cl), Goes(c, cl)
  PROVE  ClientTyped' /\ client'[c] = cl /\ \A o \in Clients \ {c} : client'[o] = client[o]
<1>1. client' = [client EXCEPT ![c] = cl] /\ client \in [Clients -> ClientRecords]
  BY DEF Goes, ClientTyped
<1>2. client'[c] = cl /\ \A o \in Clients \ {c} : client'[o] = client[o]
  BY <1>1
<1>3. \A o \in Clients : RowsShape(client'[o])
  BY <1>2 DEF ClientTyped
<1> QED
  BY <1>1, <1>2, <1>3 DEF ClientTyped, RowsShape

LEMMA ClientFields ==
  ASSUME NEW cl \in ClientRecords
  PROVE  /\ cl.state \in States
         /\ cl.cursor \in Int /\ cl.base \in Int
         /\ cl.held \in [Indexes -> 0..MaxMinted]
         /\ cl.copies \in [Parts -> [Indexes -> 0..2]]
         /\ cl.ceiling \in Int /\ cl.bound \in Int /\ cl.rolled \in Int
         /\ cl.since \in Int /\ cl.startSeq \in Nat /\ cl.max \in Nat
         /\ cl.rows \in Seq(Rows) /\ cl.next \in Nat \ {0} /\ cl.seen \in Int
BY DEF ClientRecords, States
-----------------------------------------------------------------------------
(* What frames do to a client.                                             *)

\* The records with their parts named, for the provers to take them whole.
LEMMA RecordsAre ==
  ClientRecords =
    [state : States, cursor : Int, base : Int, held : Helds, copies : CopyCounts,
     ceiling : Int, bound : Int, rolled : Int, since : Int, startSeq : Nat, max : Nat,
     rows : RowSeqs, next : Positives, seen : Int]
BY Zenon DEF ClientRecords, States, Helds, CopyCounts, RowSeqs, Positives

\* The fields no frame touches.
SameReplay(a, b) ==
  /\ a.state = b.state /\ a.ceiling = b.ceiling /\ a.bound = b.bound
  /\ a.since = b.since /\ a.startSeq = b.startSeq /\ a.max = b.max
  /\ a.rows = b.rows /\ a.next = b.next

LEMMA NoneCounted == \A n \in 0..2 : ~(n > 0) => n = 0
OBVIOUS

LEMMA CountedType == \A n \in 0..2 : Counted(n) \in 0..2 /\ (n = 0 => Counted(n) = 1)
BY DEF Counted

\* The counts of two parts are a function of the parts.
LEMMA TwoCounts ==
  ASSUME NEW a \in [Indexes -> 0..2], NEW b \in [Indexes -> 0..2]
  PROVE  [action |-> a, life |-> b] \in [Parts -> [Indexes -> 0..2]]
BY DEF Parts

\* CountAction: a NEW_ACTION frame counts for its row alone.
LEMMA ActionCounted ==
  ASSUME NEW cl \in ClientRecords, NEW row \in Rows
  PROVE  LET copies == CountAction(cl, row) IN
         /\ copies \in CopyCounts
         /\ \A i \in Indexes \ {row.index}, p \in Parts : copies[p][i] = cl.copies[p][i]
         /\ cl.copies.action[row.index] = 0 => copies.action[row.index] = 1
         /\ copies.life[row.index] \in {0, cl.copies.life[row.index]}
<1> DEFINE same == cl.held[row.index] = row.hash
           actions == [cl.copies.action EXCEPT
                         ![row.index] = IF same THEN Counted(cl.copies.action[row.index]) ELSE 1]
           lives == [cl.copies.life EXCEPT
                       ![row.index] = IF same THEN cl.copies.life[row.index] ELSE 0]
<1>1. row.index \in Indexes
  BY DEF Rows
<1>2. cl.copies.action \in [Indexes -> 0..2] /\ cl.copies.life \in [Indexes -> 0..2]
  BY ClientFields DEF Parts
<1>3. CountAction(cl, row) = [action |-> actions, life |-> lives]
  BY Zenon DEF CountAction
<1>4. actions \in [Indexes -> 0..2] /\ lives \in [Indexes -> 0..2]
  BY <1>1, <1>2, CountedType
<1>5. /\ actions[row.index] = (IF same THEN Counted(cl.copies.action[row.index]) ELSE 1)
      /\ lives[row.index] = (IF same THEN cl.copies.life[row.index] ELSE 0)
      /\ \A i \in Indexes \ {row.index} : /\ actions[i] = cl.copies.action[i]
                                          /\ lives[i] = cl.copies.life[i]
  BY <1>1, <1>2
<1> HIDE DEF actions, lives
<1>6. CountAction(cl, row) \in CopyCounts
  BY <1>3, <1>4, TwoCounts DEF CopyCounts
<1>7. CountAction(cl, row).action = actions /\ CountAction(cl, row).life = lives
  BY <1>3
<1>8. \A i \in Indexes \ {row.index}, p \in Parts : CountAction(cl, row)[p][i] = cl.copies[p][i]
  BY <1>5, <1>7 DEF Parts
<1>9. cl.copies.action[row.index] = 0 => actions[row.index] = 1
  BY <1>5, CountedType
<1> QED
  BY <1>5, <1>6, <1>7, <1>8, <1>9

\* TakeAction: it shows the row and leaves the replay as it is.
LEMMA ActionTaken ==
  ASSUME NEW cl \in ClientRecords, NEW row \in Rows
  PROVE  LET taken == TakeAction(cl, row) IN
         /\ taken \in ClientRecords
         /\ SameReplay(taken, cl) /\ taken.rolled = cl.rolled /\ taken.base = cl.base
         /\ taken.copies = CountAction(cl, row)
<1> DEFINE held == [cl.held EXCEPT ![row.index] = row.hash]
           copies == CountAction(cl, row)
           cursor == IF cl.state = "live" THEN Larger(cl.cursor, row.index) ELSE cl.cursor
           seen == IF cl.state = "live" THEN cl.seen ELSE Larger(cl.seen, row.index)
<1>1. row.index \in Indexes /\ row.hash \in 0..MaxMinted
  BY DEF Rows
<1>2. /\ cl.held \in [Indexes -> 0..MaxMinted] /\ cl.cursor \in Int /\ cl.seen \in Int
  BY ClientFields
<1>3. held \in Helds
  BY <1>1, <1>2 DEF Helds
<1>4. cursor \in Int /\ seen \in Int
  BY <1>1, <1>2 DEF Larger, Indexes
<1>5. copies \in CopyCounts
  BY ActionCounted
<1> QED
  BY <1>3, <1>4, <1>5, RecordsAre, ZenonT(60) DEF TakeAction, SameReplay

\* TakeLife: a lifecycle frame counts for its row alone, too.
LEMMA LifeTaken ==
  ASSUME NEW cl \in ClientRecords, NEW row \in Rows
  PROVE  LET taken == TakeLife(cl, row) IN
         /\ taken \in ClientRecords
         /\ SameReplay(taken, cl) /\ taken.rolled = cl.rolled /\ taken.base = cl.base
         /\ \A i \in Indexes \ {row.index}, p \in Parts : taken.copies[p][i] = cl.copies[p][i]
         /\ taken.copies.action = cl.copies.action
         /\ cl.copies.life[row.index] = 0 => taken.copies.life[row.index] = 1
<1> DEFINE lives == [cl.copies.life EXCEPT ![row.index] = Counted(cl.copies.life[row.index])]
           copies == [action |-> cl.copies.action, life |-> lives]
<1>1. row.index \in Indexes
  BY DEF Rows
<1>2. cl.copies.action \in [Indexes -> 0..2] /\ cl.copies.life \in [Indexes -> 0..2]
  BY ClientFields DEF Parts
<1>3. lives \in [Indexes -> 0..2]
  BY <1>1, <1>2, CountedType
<1>4. /\ lives[row.index] = Counted(cl.copies.life[row.index])
      /\ \A i \in Indexes \ {row.index} : lives[i] = cl.copies.life[i]
  BY <1>1, <1>2
<1>5. CountLife(cl, row) = copies
  BY Zenon DEF CountLife
<1> HIDE DEF lives
<1>6. copies \in CopyCounts /\ copies.life = lives /\ copies.action = cl.copies.action
  BY <1>2, <1>3, TwoCounts DEF CopyCounts
<1> HIDE DEF copies
<1>7. TakeLife(cl, row) = [cl EXCEPT !.copies = copies]
  BY <1>5 DEF TakeLife
<1>8. /\ TakeLife(cl, row) \in ClientRecords
      /\ TakeLife(cl, row).copies = copies
      /\ SameReplay(TakeLife(cl, row), cl)
      /\ TakeLife(cl, row).rolled = cl.rolled /\ TakeLife(cl, row).base = cl.base
  BY <1>6, <1>7, RecordsAre DEF SameReplay
<1>9. cl.copies.life[row.index] = 0 => lives[row.index] = 1
  BY <1>4, CountedType, <1>1, <1>2
<1>10. \A i \in Indexes \ {row.index}, p \in Parts : copies[p][i] = cl.copies[p][i]
  BY <1>4, <1>6 DEF Parts
<1> QED
  BY <1>6, <1>8, <1>9, <1>10

\* TakeReorg: what lies from first on is dropped, what lies below is kept.
LEMMA ReorgTaken ==
  ASSUME NEW cl \in ClientRecords, NEW first \in Int
  PROVE  LET taken == TakeReorg(cl, first) IN
         /\ taken \in ClientRecords
         /\ SameReplay(taken, cl)
         /\ taken.rolled = Smaller(cl.rolled, first)
         /\ \A i \in Indexes, p \in Parts :
              taken.copies[p][i] = IF i < first THEN cl.copies[p][i] ELSE 0
<1> DEFINE held == KeptBelow(cl.held, first)
           copies == [action |-> KeptBelow(cl.copies.action, first), life |-> KeptBelow(cl.copies.life, first)]
<1>1. /\ cl.held \in [Indexes -> 0..MaxMinted]
      /\ cl.copies.action \in [Indexes -> 0..2] /\ cl.copies.life \in [Indexes -> 0..2]
      /\ cl.cursor \in Int /\ cl.seen \in Int /\ cl.base \in Int /\ cl.rolled \in Int
  BY ClientFields DEF Parts
<1>2. KeptBelow(cl.copies.action, first) \in [Indexes -> 0..2]
      /\ KeptBelow(cl.copies.life, first) \in [Indexes -> 0..2]
  BY <1>1 DEF KeptBelow
<1>3. held \in Helds
  BY <1>1 DEF Helds, KeptBelow
<1>4. copies \in CopyCounts
  BY <1>2, TwoCounts DEF CopyCounts
<1>5. \A i \in Indexes, p \in Parts : copies[p][i] = IF i < first THEN cl.copies[p][i] ELSE 0
  BY DEF KeptBelow, Parts
<1>6. /\ Smaller(cl.cursor, first - 1) \in Int /\ Smaller(cl.seen, first - 1) \in Int
      /\ Smaller(cl.base, first - 1) \in Int /\ Smaller(cl.rolled, first) \in Int
  BY <1>1 DEF Smaller
<1>7. /\ TakeReorg(cl, first) \in ClientRecords
      /\ TakeReorg(cl, first).copies = copies
      /\ SameReplay(TakeReorg(cl, first), cl)
      /\ TakeReorg(cl, first).rolled = Smaller(cl.rolled, first)
  BY <1>3, <1>4, <1>6, RecordsAre, ZenonT(60) DEF TakeReorg, SameReplay
<1> QED
  BY <1>5, <1>7

\* A subscription begins with no frame.
LEMMA NoCopiesAre ==
  NoCopies \in CopyCounts /\ \A p \in Parts, i \in Indexes : NoCopies[p][i] = 0
BY DEF NoCopies, CopyCounts

LEMMA FreshType ==
  /\ Fresh \in ClientRecords /\ RowsShape(Fresh) /\ Fresh.copies = NoCopies
  /\ Resync \in ClientRecords /\ RowsShape(Resync) /\ Resync.copies = NoCopies
  /\ Resync.state = "resync"
<1>1. NoCopies \in CopyCounts
  BY NoCopiesAre
<1>2. [i \in Indexes |-> 0] \in Helds
  BY DEF Helds
<1>3. <<>> \in RowSeqs /\ 1 \in Positives /\ MaxActions + 1 \in Int
  BY DEF RowSeqs, Positives
<1>4. {"new", "resync"} \subseteq States
  BY DEF States
<1>5. Fresh \in ClientRecords
  BY <1>1, <1>2, <1>3, <1>4, RecordsAre DEF Fresh
<1>6. Resync = [Fresh EXCEPT !.state = "resync"]
  BY DEF Resync
<1>7. Resync \in ClientRecords /\ Resync.state = "resync" /\ Resync.next = Fresh.next
      /\ Resync.copies = Fresh.copies
  BY <1>4, <1>5, <1>6, RecordsAre
<1>8. Fresh.next = 1 /\ Fresh.copies = NoCopies /\ Fresh.state = "new"
  BY DEF Fresh
<1> QED
  BY <1>5, <1>7, <1>8 DEF RowsShape

\* A frame keeps a client's place in its rows.
LEMMA SameShape ==
  ASSUME NEW a, NEW b, SameReplay(a, b), RowsShape(b)
  PROVE  RowsShape(a)
BY DEF SameReplay, RowsShape

-----------------------------------------------------------------------------
(* Types: the indexer and the reads of the tip.                            *)

LEMMA IndexerTyped ==
  ASSUME FeedTyped, IndexerStep
  PROVE  FeedTyped'
<1>1. ChainTyped
  BY TypeFrame
<1>2. ASSUME NEW n \in 0..MaxActions, Extend(n) PROVE ChainTyped' /\ ChainMoves
  <2> DEFINE block == [hash |-> minted + 1, top |-> MaxAction + n]
  <2>1. /\ MaxBlock < MaxBlocks /\ minted < MaxMinted /\ MaxAction + n <= MaxActions
        /\ chain' = Append(chain, block) /\ minted' = minted + 1 /\ ChainMoves
    BY <1>2 DEF Extend
  <2>2. MaxAction \in 0..MaxActions /\ minted \in 1..MaxMinted /\ Len(chain) \in 1..MaxBlocks
        /\ chain \in Seq(Blocks) /\ MaxBlock = Len(chain)
    BY <1>1, ChainIs DEF ChainTyped, MaxBlock
  <2>3. block \in Blocks
    BY <2>1, <2>2 DEF Blocks
  <2> HIDE DEF block
  <2> QED
    BY <2>1, <2>2, <2>3 DEF ChainTyped
<1>3. ASSUME NEW h \in Heights, RollBack(h) PROVE ChainTyped' /\ ChainMoves
  <2>1. h < Len(chain) /\ chain' = SubSeq(chain, 1, h) /\ minted' = minted /\ ChainMoves
    BY <1>3 DEF RollBack, MaxBlock
  <2> QED
    BY <1>1, <2>1 DEF ChainTyped, Heights
<1>4. ChainTyped' /\ ChainMoves
  BY <1>2, <1>3 DEF IndexerStep
<1> QED
  BY <1>4, TypeFrame DEF ChainMoves

LEMMA StartsTyped ==
  ASSUME FeedTyped, StartPoll \/ StartSeed
  PROVE  FeedTyped'
<1>1. [IdlePass EXCEPT !.pc = "tip"] \in Passes /\ PassShape([IdlePass EXCEPT !.pc = "tip"])
  BY IdleType DEF Passes, PassShape, IdlePass
<1>2. ReaderTyped'
  BY <1>1, TypeFrame, ReadsType DEF StartPoll, StartSeed, Readers
<1> QED
  BY <1>2, TypeFrame DEF StartPoll, StartSeed

LEMMA ReadTipTyped ==
  ASSUME FeedTyped, NEW r \in Readers, ReadTip(r)
  PROVE  FeedTyped'
<1> DEFINE tip == [index |-> MaxBlock, hash |-> chain[MaxBlock].hash]
           probe == lastTip # NoTip /\ tip.index > lastTip.index
           pass == [reader[r] EXCEPT !.pc = IF probe THEN "probe" ELSE "block",
                                     !.tip = tip, !.was = lastTip]
<1>1. /\ ChainTyped /\ CursorTyped /\ ReaderTyped
  BY TypeFrame
<1>2. tip \in Tips
  BY <1>1, ChainIs DEF Tips
<1>3. lastTip \in Tips /\ pendingReorg \in BOOLEAN
  BY <1>1 DEF CursorTyped
<1>4. reader[r].pc = "tip" /\ Reads(r, pass)
  BY DEF ReadTip
<1> HIDE DEF tip
<1>5. reader[r] \in Passes /\ PassShape(reader[r])
  BY <1>1, PassFields
<1>6. pass.next = reader[r].next /\ pass.pc \in {"probe", "block"}
  BY <1>5, PassesAre
<1>7. pass \in Passes
  BY <1>2, <1>3, <1>5, PassesAre, Zenon DEF Pcs
<1> HIDE DEF pass
<1>8. pass.pc \notin {"rows", "life"} /\ reader[r].pc \notin {"rows", "life"}
  BY <1>4, <1>6
<1>9. PassShape(pass)
  BY <1>5, <1>6, <1>8, PlaceKept
<1>10. ReaderTyped'
  BY <1>1, <1>4, <1>7, <1>9, ReadsType
<1>11. lastTip' \in Tips /\ pendingReorg' \in BOOLEAN
  BY <1>2, <1>3 DEF ReadTip, Verdict, tip
<1>12. CursorTyped'
  BY <1>1, <1>11 DEF ReadTip, CursorTyped, cursorVars
<1> QED
  BY <1>10, <1>12, TypeFrame DEF ReadTip

LEMMA ReadProbeTyped ==
  ASSUME FeedTyped, NEW r \in Readers, ReadProbe(r)
  PROVE  FeedTyped'
<1>1. /\ CursorTyped /\ ReaderTyped
  BY TypeFrame
<1>2. reader[r].tip \in Tips
  BY <1>1, PassFields
<1>3. reader[r].pc = "probe" /\ Reads(r, [reader[r] EXCEPT !.pc = "block"])
  BY DEF ReadProbe
<1>4. [reader[r] EXCEPT !.pc = "block"] \in Passes /\ PassShape([reader[r] EXCEPT !.pc = "block"])
  BY <1>1, <1>3, PassFields, PassMoves DEF Pcs
<1>5. ReaderTyped'
  BY <1>1, <1>3, <1>4, ReadsType
<1>6. lastTip' \in Tips /\ pendingReorg' \in BOOLEAN
  BY <1>1, <1>2 DEF ReadProbe, Verdict, CursorTyped
<1>7. CursorTyped'
  BY <1>1, <1>6 DEF ReadProbe, CursorTyped, cursorVars
<1> QED
  BY <1>5, <1>7, TypeFrame DEF ReadProbe

LEMMA ReadMaxTyped ==
  ASSUME FeedTyped, NEW r \in Readers, ReadMaxBlock(r) \/ ReadMaxAction(r)
  PROVE  FeedTyped'
<1>1. /\ ChainTyped /\ ReaderTyped
  BY TypeFrame
<1>2. MaxBlock \in 0..MaxBlocks /\ MaxAction \in 0..MaxActions
  BY <1>1, ChainIs
<1>3. ASSUME ReadMaxBlock(r) PROVE ReaderTyped'
  <2> DEFINE pass == [reader[r] EXCEPT !.pc = "action", !.block = MaxBlock]
  <2>1. reader[r].pc = "block" /\ Reads(r, pass)
    BY <1>3 DEF ReadMaxBlock
  <2>2. pass \in Passes /\ PassShape(pass)
    <3>1. reader[r] \in Passes /\ PassShape(reader[r])
      BY <1>1, PassFields
    <3>2. pass \in Passes /\ pass.next = reader[r].next /\ pass.pc = "action"
      BY <1>2, <3>1, PassesAre DEF Pcs, Levels
    <3> QED
      BY <2>1, <3>1, <3>2, PlaceKept
  <2> QED
    BY <1>1, <2>1, <2>2, ReadsType
<1>4. ASSUME ReadMaxAction(r) PROVE ReaderTyped'
  <2> DEFINE pass == [reader[r] EXCEPT !.pc = "tips", !.action = MaxAction]
  <2>1. reader[r].pc = "action" /\ Reads(r, pass)
    BY <1>4 DEF ReadMaxAction
  <2>2. pass \in Passes /\ PassShape(pass)
    <3>1. reader[r] \in Passes /\ PassShape(reader[r])
      BY <1>1, PassFields
    <3>2. pass \in Passes /\ pass.next = reader[r].next /\ pass.pc = "tips"
      BY <1>2, <3>1, PassesAre DEF Pcs, Marks
    <3> QED
      BY <2>1, <3>1, <3>2, PlaceKept
  <2> QED
    BY <1>1, <2>1, <2>2, ReadsType
<1> QED
  BY <1>3, <1>4, TypeFrame DEF ReadMaxBlock, ReadMaxAction

LEMMA SeedTyped ==
  ASSUME FeedTyped, NEW r \in Readers, Seed(r)
  PROVE  FeedTyped'
<1> DEFINE pass == [reader[r] EXCEPT !.pc = "history"]
<1>1. /\ CursorTyped /\ ReaderTyped
  BY TypeFrame
<1>2. reader[r].pc = "tips" /\ Reads(r, pass)
  BY DEF Seed
<1>3. pass \in Passes /\ PassShape(pass)
  BY <1>1, <1>2, PassFields, PassMoves DEF Pcs
<1>4. ReaderTyped'
  BY <1>1, <1>2, <1>3, ReadsType
<1>5. blockIndex' \in 0..MaxBlocks /\ actionIndex' \in Int /\ liveMark' \in Int
  BY <1>1, PassFields DEF Seed
<1>6. /\ seeded' = TRUE /\ pendingReorg' = FALSE /\ lastTip' = lastTip /\ history' = history
  BY DEF Seed
<1>7. CursorTyped'
  BY <1>1, <1>5, <1>6 DEF CursorTyped
<1> QED
  BY <1>4, <1>7, TypeFrame DEF Seed

LEMMA EndsTyped ==
  ASSUME ReaderTyped, NEW r \in Readers, EndPass(r)
  PROVE  ReaderTyped' /\ reader'[r] = IdlePass /\ \A o \in Readers \ {r} : reader'[o] = reader[o]
BY IdleType, ReadsType DEF EndPass

LEMMA SeedHistoryTyped ==
  ASSUME FeedTyped, NEW r \in Readers, SeedHistory(r)
  PROVE  FeedTyped'
<1> DEFINE shift == reader[r].action - MaxAction
           firsts(h) == IF MaxBlock = reader[r].block /\ Top(h - 1) < Top(h)
                        THEN {Top(h - 1) + 1 + shift} ELSE history[h].first
<1>1. /\ ChainTyped /\ CursorTyped /\ ReaderTyped
  BY TypeFrame
<1>2. shift \in Int /\ shift >= -MaxActions
  BY <1>1, ChainIs, PassFields
<1>3. \A h \in Heights : h <= MaxBlock => Top(h - 1) \in 0..MaxActions
  BY <1>1, ChainIs DEF Heights, Top
<1>4. \A h \in Heights : history[h] \in [hash : 0..MaxMinted, first : SUBSET Firsts]
  BY <1>1 DEF CursorTyped, Histories
<1>5. \A h \in Heights : h <= MaxBlock => chain[h].hash \in 0..MaxMinted
  BY <1>1, ChainIs DEF Heights
<1> HIDE DEF shift
<1>6. \A h \in Heights : h <= MaxBlock => firsts(h) \in SUBSET Firsts
  <2> SUFFICES ASSUME NEW h \in Heights, h <= MaxBlock
               PROVE  firsts(h) \in SUBSET Firsts
    OBVIOUS
  <2>1. Top(h - 1) + 1 + shift \in Firsts
    BY <1>2, <1>3 DEF Firsts
  <2> QED
    BY <1>4, <2>1
<1>7. history' = [h \in Heights |-> IF h > MaxBlock THEN history[h]
                                   ELSE [hash |-> chain[h].hash, first |-> firsts(h)]]
  BY Zenon DEF SeedHistory, shift
<1> HIDE DEF firsts
<1>8. history' \in Histories
  <2>1. \A h \in Heights : (IF h > MaxBlock THEN history[h]
                            ELSE [hash |-> chain[h].hash, first |-> firsts(h)])
                           \in [hash : 0..MaxMinted, first : SUBSET Firsts]
    <3> SUFFICES ASSUME NEW h \in Heights, ~(h > MaxBlock)
                 PROVE  [hash |-> chain[h].hash, first |-> firsts(h)]
                          \in [hash : 0..MaxMinted, first : SUBSET Firsts]
      BY <1>4
    <3>1. h <= MaxBlock
      BY <1>1, ChainIs DEF Heights
    <3> QED
      BY <1>5, <1>6, <3>1
  <2> QED
    BY <1>7, <2>1 DEF Histories
<1>9. CursorTyped'
  BY <1>1, <1>8 DEF SeedHistory, CursorTyped, cursorVars
<1>10. ReaderTyped'
  BY <1>1, EndsTyped DEF SeedHistory
<1> QED
  BY <1>9, <1>10, TypeFrame DEF SeedHistory

LEMMA EndingsTyped ==
  ASSUME FeedTyped, SeedLate \/ NoActions \/ \E r \in Readers : PassFails(r)
  PROVE  FeedTyped'
<1>1. ReaderTyped /\ quiet \in BOOLEAN
  BY DEF FeedTyped
<1>2. ReaderTyped'
  BY <1>1, EndsTyped DEF SeedLate, NoActions, PassFails, Readers
<1>3. (\E r \in Readers : PassFails(r)) => left' \in [Faults -> Nat]
  BY SpendType DEF PassFails, Faults
<1> QED
  BY <1>1, <1>2, <1>3, TypeFrame DEF SeedLate, NoActions, PassFails

-----------------------------------------------------------------------------
(* Types: the rewind, the blocks and the actions.                          *)

LEMMA PollFields ==
  ASSUME ReaderTyped
  PROVE  /\ poll \in Passes /\ PassShape(poll) /\ "poll" \in Readers /\ poll = reader["poll"]
         /\ poll.block \in 0..MaxBlocks /\ poll.action \in 0..MaxActions
         /\ poll.fork \in 0..MaxBlocks /\ poll.rows \in Seq(Rows) /\ poll.next \in Nat \ {0}
         /\ poll.pc = "rows" /\ poll.rows # <<>> => poll.next \in DOMAIN poll.rows
         /\ poll.pc = "life" => poll.next \in DOMAIN poll.rows
<1>1. "poll" \in Readers /\ poll = reader["poll"]
  BY DEF Readers, poll
<1>2. /\ poll \in Passes /\ PassShape(poll)
      /\ poll.block \in 0..MaxBlocks /\ poll.action \in 0..MaxActions
      /\ poll.fork \in 0..MaxBlocks /\ poll.rows \in Seq(Rows) /\ poll.next \in Nat \ {0}
  BY <1>1, PassFields
<1>3. /\ poll.pc = "rows" /\ poll.rows # <<>> => poll.next <= Len(poll.rows)
      /\ poll.pc = "life" => poll.next <= Len(poll.rows)
  BY <1>2 DEF PassShape
<1> QED
  BY <1>1, <1>2, <1>3

LEMMA ReadForkTyped ==
  ASSUME FeedTyped, ReadFork
  PROVE  FeedTyped'
<1> DEFINE lost == {h \in Remembered : Changed(h)}
           fork == IF lost = {} THEN 0 ELSE Lowest(lost)
           pass == [poll EXCEPT !.pc = "rewind", !.fork = fork]
<1>1. ReaderTyped /\ poll.pc = "tips" /\ Reads("poll", pass)
  BY TypeFrame DEF ReadFork
<1>2. \A h \in lost : h \in Int /\ h >= 1 /\ h \in Heights
  BY DEF Remembered, Heights
<1>3. lost # {} => Lowest(lost) \in lost
  BY <1>2, LowestIs
<1>4. fork \in Levels
  BY <1>2, <1>3 DEF Levels, Heights
<1> HIDE DEF fork
<1>5. pass \in Passes /\ pass.next = poll.next /\ pass.pc = "rewind"
  BY <1>1, <1>4, PollFields, PassesAre DEF Pcs
<1>6. PassShape(pass)
  BY <1>1, <1>5, PollFields, PlaceKept, ZenonT(60)
<1>7. ReaderTyped'
  BY <1>1, <1>5, <1>6, PollFields, ReadsType
<1> QED
  BY <1>7, TypeFrame DEF ReadFork

\* The logs keep their newest entries.
LEMMA KeptIs ==
  ASSUME NEW S, NEW log \in Seq(S), Len(log) <= LogDepth, NEW e \in S
  PROVE  Kept(Append(log, e)) \in Seq(S) /\ Len(Kept(Append(log, e))) <= LogDepth
<1>1. Append(log, e) \in Seq(S) /\ Len(Append(log, e)) = Len(log) + 1
  OBVIOUS
<1>2. PICK more \in Seq(S) : more = Append(log, e)
  BY <1>1
<1>3. CASE Len(more) > LogDepth
  <2>1. Tail(more) \in Seq(S) /\ Len(Tail(more)) = Len(more) - 1
    BY <1>3
  <2> QED
    BY <1>1, <1>2, <1>3, <2>1 DEF Kept
<1>4. CASE ~(Len(more) > LogDepth)
  BY <1>1, <1>2, <1>4 DEF Kept
<1> QED
  BY <1>3, <1>4

LEMMA LoggedType ==
  ASSUME LogTyped, NEW first \in Int, NEW tip \in Int, LogRollback(first, tip)
  PROVE  LogTyped'
<1> DEFINE noted == [seq |-> rollbackSeq + 1, first |-> first]
           voided == [first |-> first, tip |-> tip]
           Notes == [seq : Nat \ {0}, first : Int]
           Ranges == [first : Int, tip : Int]
<1>1. /\ rollbacks \in Seq(Notes) /\ Len(rollbacks) <= LogDepth
      /\ reorgLog \in Seq(Ranges) /\ Len(reorgLog) <= LogDepth
      /\ rollbackSeq \in Nat
  BY DEF LogTyped
<1>2. noted \in Notes /\ voided \in Ranges
  BY <1>1
<1>3. /\ rollbackSeq' = rollbackSeq + 1
      /\ rollbacks' = Kept(Append(rollbacks, noted))
      /\ reorgLog' = IF first <= tip THEN Kept(Append(reorgLog, voided)) ELSE reorgLog
  BY DEF LogRollback
<1>4. LogTyped' <=> /\ rollbacks' \in Seq(Notes) /\ Len(rollbacks') <= LogDepth
                    /\ reorgLog' \in Seq(Ranges) /\ Len(reorgLog') <= LogDepth
                    /\ rollbackSeq' \in Nat
  BY DEF LogTyped
<1> HIDE DEF noted, voided, Notes, Ranges
<1>5. rollbacks' \in Seq(Notes) /\ Len(rollbacks') <= LogDepth
  BY <1>1, <1>2, <1>3, KeptIs
<1>6. reorgLog' \in Seq(Ranges) /\ Len(reorgLog') <= LogDepth
  BY <1>1, <1>2, <1>3, KeptIs
<1> QED
  BY <1>1, <1>3, <1>4, <1>5, <1>6

\* The names Rewind gives what it computes.
RewindFirsts == IF poll.fork = 0 THEN {} ELSE FirstsFrom(poll.fork)
RewindBlock ==
  Smaller(IF poll.fork = 0 THEN blockIndex ELSE Smaller(blockIndex, poll.fork - 1), poll.block)
RewindAction ==
  Smaller(IF RewindFirsts = {} THEN actionIndex
          ELSE Smaller(actionIndex, Lowest(RewindFirsts) - 1), poll.action)

LEMMA RewindIs ==
  ASSUME CursorTyped, ReaderTyped
  PROVE  /\ RewindBlock \in 0..MaxBlocks /\ RewindBlock <= blockIndex
         /\ RewindAction \in Int /\ RewindAction <= actionIndex /\ RewindAction <= poll.action
<1>1. /\ poll.fork \in 0..MaxBlocks /\ poll.block \in 0..MaxBlocks /\ poll.action \in 0..MaxActions
      /\ blockIndex \in 0..MaxBlocks /\ actionIndex \in Int
  BY PollFields DEF CursorTyped
<1>2. \A k \in RewindFirsts : k \in Int /\ k >= 1 - MaxActions
  <2> SUFFICES ASSUME poll.fork # 0, NEW k \in FirstsFrom(poll.fork)
               PROVE  k \in Int /\ k >= 1 - MaxActions
    BY DEF RewindFirsts
  <2>1. PICK h \in poll.fork..MaxBlocks : k \in history[h].first
    BY DEF FirstsFrom
  <2>2. h \in Heights
    BY <1>1, <2>1 DEF Heights
  <2>3. history[h].first \in SUBSET Firsts
    BY <2>2 DEF CursorTyped, Histories
  <2> QED
    BY <2>1, <2>3 DEF Firsts
<1>3. RewindFirsts # {} => Lowest(RewindFirsts) \in RewindFirsts
  BY <1>2, LowestIs
<1>4. RewindFirsts # {} => Lowest(RewindFirsts) \in Int
  BY <1>2, <1>3
<1>5. RewindBlock \in 0..MaxBlocks /\ RewindBlock <= blockIndex
  BY <1>1 DEF RewindBlock, Smaller
<1>6. RewindAction \in Int /\ RewindAction <= actionIndex /\ RewindAction <= poll.action
  BY <1>1, <1>4 DEF RewindAction, Smaller
<1> QED
  BY <1>5, <1>6

\* Rewind, in those names.
LEMMA RewindDoes ==
  ASSUME Rewind
  PROVE  /\ poll.pc = "rewind"
         /\ blockIndex' = RewindBlock /\ actionIndex' = RewindAction
         /\ liveMark' = Smaller(liveMark, RewindAction)
         /\ history' = [h \in Heights |-> IF poll.fork # 0 /\ h >= poll.fork
                                          THEN NoEntry ELSE history[h]]
         /\ pendingReorg' = FALSE
         /\ IF RewindBlock < blockIndex \/ RewindAction < actionIndex
            THEN /\ LogRollback(RewindAction + 1, actionIndex)
                 /\ client' = [c \in Clients |->
                                 IF c \in Subscribed
                                 THEN TakeReorg(client[c], RewindAction + 1) ELSE client[c]]
            ELSE UNCHANGED <<logVars, client>>
         /\ Reads("poll", [poll EXCEPT !.pc = "fetch"])
         /\ UNCHANGED <<chainVars, seeded, lastTip, joined, quiet, left>>
BY Zenon DEF Rewind, RewindBlock, RewindAction, RewindFirsts, MarkAt

LEMMA RewindTyped ==
  ASSUME FeedTyped, Rewind
  PROVE  FeedTyped'
<1>1. CursorTyped /\ ReaderTyped /\ LogTyped /\ ClientTyped
  BY TypeFrame
<1>2. /\ RewindBlock \in 0..MaxBlocks /\ RewindAction \in Int /\ liveMark \in Int /\ actionIndex \in Int
  BY <1>1, RewindIs DEF CursorTyped
<1>3. history' \in Histories
  <2>1. NoEntry \in [hash : 0..MaxMinted, first : SUBSET Firsts]
    BY DEF NoEntry
  <2>2. history \in Histories
    BY <1>1 DEF CursorTyped
  <2>3. history' = [h \in Heights |-> IF poll.fork # 0 /\ h >= poll.fork
                                      THEN NoEntry ELSE history[h]]
    BY RewindDoes
  <2> QED
    BY <2>1, <2>2, <2>3 DEF Histories
<1>4. /\ seeded' = seeded /\ lastTip' = lastTip /\ pendingReorg' = FALSE
      /\ liveMark' \in Int /\ blockIndex' \in 0..MaxBlocks /\ actionIndex' \in Int
  BY <1>2, RewindDoes DEF Smaller
<1>5. CursorTyped'
  BY <1>1, <1>3, <1>4 DEF CursorTyped
<1>6. LogTyped'
  <2>1. LogRollback(RewindAction + 1, actionIndex) \/ UNCHANGED logVars
    BY RewindDoes
  <2> QED
    BY <1>1, <1>2, <2>1, LoggedType, TypeFrame
<1>7. ClientTyped'
  <2>1. CASE client' = client
    BY <2>1, TypeFrame
  <2>2. CASE client' = [c \in Clients |-> IF c \in Subscribed
                                          THEN TakeReorg(client[c], RewindAction + 1) ELSE client[c]]
    <3>1. \A c \in Clients : client[c] \in ClientRecords /\ RowsShape(client[c])
      BY <1>1 DEF ClientTyped
    <3>2. \A c \in Clients : /\ TakeReorg(client[c], RewindAction + 1) \in ClientRecords
                             /\ RowsShape(TakeReorg(client[c], RewindAction + 1))
      BY <1>2, <3>1, ReorgTaken, SameShape
    <3>3. \A c \in Clients : client'[c] \in ClientRecords /\ RowsShape(client'[c])
      BY <2>2, <3>1, <3>2
    <3> QED
      BY <2>2, <3>3 DEF ClientTyped, RowsShape
  <2> QED
    BY <2>1, <2>2, RewindDoes
<1>8. ReaderTyped'
  <2>1. [poll EXCEPT !.pc = "fetch"] \in Passes /\ PassShape([poll EXCEPT !.pc = "fetch"])
    BY <1>1, RewindDoes, PollFields, PassMoves DEF Pcs
  <2> QED
    BY <1>1, <2>1, RewindDoes, PollFields, ReadsType
<1> QED
  BY <1>5, <1>6, <1>7, <1>8, RewindDoes, TypeFrame

LEMMA ReadBlocksTyped ==
  ASSUME FeedTyped, ReadBlocks
  PROVE  FeedTyped'
<1> DEFINE count == Larger(Smaller(blockIndex + FetchLimit, MaxBlock) - blockIndex, 0)
<1>1. ChainTyped /\ CursorTyped /\ ReaderTyped
  BY TypeFrame
<1>2. blockIndex \in 0..MaxBlocks /\ history \in Histories /\ MaxBlock \in 1..MaxBlocks
  BY <1>1, ChainIs DEF CursorTyped
<1>3. count \in Nat /\ (count # 0 => blockIndex + count <= MaxBlock)
  BY <1>2 DEF Larger, Smaller
<1>4. /\ history' = [h \in Heights |-> IF h \in (blockIndex + 1)..(blockIndex + count)
                                      THEN [history[h] EXCEPT !.hash = chain[h].hash] ELSE history[h]]
      /\ blockIndex' = NextCursor(blockIndex, count, poll.block)
      /\ pendingReorg' = (pendingReorg \/ Short(blockIndex, count, poll.block))
      /\ seeded' = seeded /\ lastTip' = lastTip /\ actionIndex' = actionIndex /\ liveMark' = liveMark
      /\ Fetching /\ Reads("poll", [poll EXCEPT !.pc = "acts"])
  BY DEF ReadBlocks
<1> HIDE DEF count
<1>5. blockIndex' \in 0..MaxBlocks
  BY <1>2, <1>3, <1>4 DEF NextCursor, Larger
<1>6. history' \in Histories
  <2>1. \A h \in Heights : h \in (blockIndex + 1)..(blockIndex + count) => chain[h].hash \in 0..MaxMinted
    BY <1>1, <1>2, <1>3, ChainIs DEF Heights
  <2>2. \A h \in Heights : history[h] \in [hash : 0..MaxMinted, first : SUBSET Firsts]
    BY <1>2 DEF Histories
  <2>3. \A h \in Heights : h \in (blockIndex + 1)..(blockIndex + count) =>
          [history[h] EXCEPT !.hash = chain[h].hash] \in [hash : 0..MaxMinted, first : SUBSET Firsts]
    BY <2>1, <2>2
  <2> QED
    BY <1>4, <2>2, <2>3 DEF Histories
<1>7. pendingReorg' \in BOOLEAN
  BY <1>1, <1>4 DEF CursorTyped, Short
<1>8. CursorTyped'
  BY <1>1, <1>4, <1>5, <1>6, <1>7 DEF CursorTyped
<1>9. ReaderTyped'
  <2>1. poll.pc \notin {"rows", "life"}
    BY <1>4 DEF Fetching
  <2>2. [poll EXCEPT !.pc = "acts"] \in Passes /\ PassShape([poll EXCEPT !.pc = "acts"])
    BY <1>1, <2>1, PollFields, PassMoves DEF Pcs
  <2> QED
    BY <1>1, <1>4, <2>2, PollFields, ReadsType
<1> QED
  BY <1>8, <1>9, TypeFrame DEF ReadBlocks

LEMMA DueBetweenRows == ActionsDue => poll.pc \notin {"rows", "life"}
BY DEF ActionsDue, Fetching

\* The fetch: the rows of the pass follow the action cursor without a gap.
LEMMA ReadActionsIs ==
  ASSUME ChainTyped, ReaderTyped, actionIndex \in Int, ReadActions
  PROVE  LET rows == ActionsSince(actionIndex, FetchLimit, MaxActions)
             pass == [poll EXCEPT !.pc = "rows", !.rows = rows]
         IN  /\ Reads("poll", pass) /\ pass \in Passes /\ PassShape(pass)
             /\ pass.pc = "rows" /\ pass.rows = rows /\ pass.next = 1
             /\ pass.block = poll.block /\ pass.action = poll.action
<1> DEFINE rows == ActionsSince(actionIndex, FetchLimit, MaxActions)
           pass == [poll EXCEPT !.pc = "rows", !.rows = rows]
<1>1. Reads("poll", pass) /\ poll.pc \notin {"rows", "life"}
  BY DueBetweenRows DEF ReadActions
<1>2. rows \in Seq(Rows)
  BY ActionsSinceAre
<1>3. poll \in Passes /\ poll.next = 1
  BY <1>1, PollFields DEF PassShape
<1> HIDE DEF rows
<1>4. rows \in RowSeqs /\ (rows # <<>> => 1 <= Len(rows))
  BY <1>2 DEF RowSeqs
<1>5. /\ pass \in Passes /\ pass.pc = "rows" /\ pass.rows = rows /\ pass.next = 1
      /\ pass.block = poll.block /\ pass.action = poll.action
  BY <1>3, <1>4, PassesAre DEF Pcs
<1>6. PassShape(pass)
  BY <1>4, <1>5 DEF PassShape
<1> QED
  BY <1>1, <1>5, <1>6 DEF rows

LEMMA ReadActionsTyped ==
  ASSUME FeedTyped, ReadActions
  PROVE  FeedTyped'
<1>1. ChainTyped /\ CursorTyped /\ ReaderTyped
  BY TypeFrame
<1>2. actionIndex \in Int
  BY <1>1 DEF CursorTyped
<1>3. ReaderTyped'
  BY <1>1, <1>2, ReadActionsIs, PollFields, ReadsType
<1> QED
  BY <1>3, TypeFrame DEF ReadActions

\* The row in flight is one of the chain's when it was fetched.
LEMMA RowIs ==
  ASSUME ReaderTyped, poll.pc = "life" \/ (poll.pc = "rows" /\ poll.rows # <<>>)
  PROVE  /\ poll.rows[poll.next] \in Rows /\ poll.rows[poll.next].index \in Indexes
         /\ poll.next \in DOMAIN poll.rows
<1>1. poll.next \in DOMAIN poll.rows /\ poll.rows \in Seq(Rows)
  BY PollFields
<1>2. poll.rows[poll.next] \in Rows
  BY <1>1
<1> QED
  BY <1>1, <1>2 DEF Rows

LEMMA SendActionTyped ==
  ASSUME FeedTyped, SendAction
  PROVE  FeedTyped'
<1> DEFINE row == poll.rows[poll.next]
           pass == [poll EXCEPT !.pc = "life"]
<1>1. CursorTyped /\ ReaderTyped /\ ClientTyped
  BY TypeFrame
<1>2. /\ poll.pc = "rows" /\ poll.rows # <<>> /\ liveMark' = row.index /\ Reads("poll", pass)
      /\ client' = [c \in Clients |-> IF c \in Subscribed
                                      THEN TakeAction(client[c], row) ELSE client[c]]
      /\ UNCHANGED <<seeded, lastTip, pendingReorg, blockIndex, actionIndex, history>>
      /\ joined' = {}
  BY DEF SendAction
<1>3. row \in Rows /\ row.index \in Indexes
  BY <1>1, <1>2, RowIs
<1>4. CursorTyped'
  BY <1>1, <1>2, <1>3 DEF CursorTyped, Indexes
<1>5. ReaderTyped'
  <2>1. poll \in Passes /\ PassShape(poll)
    BY <1>1, PollFields
  <2>2. /\ pass \in Passes /\ pass.pc = "life" /\ pass.rows = poll.rows /\ pass.next = poll.next
    BY <2>1, PassesAre DEF Pcs
  <2>3. PassShape(pass)
    BY <1>2, <2>1, <2>2, SMTT(60) DEF PassShape
  <2> QED
    BY <1>1, <1>2, <2>2, <2>3, PollFields, ReadsType
<1>6. ClientTyped'
  <2>1. \A c \in Clients : client[c] \in ClientRecords /\ RowsShape(client[c])
    BY <1>1 DEF ClientTyped
  <2>2. \A c \in Clients : /\ TakeAction(client[c], row) \in ClientRecords
                           /\ RowsShape(TakeAction(client[c], row))
    BY <1>3, <2>1, ActionTaken, SameShape
  <2>3. \A c \in Clients : client'[c] \in ClientRecords /\ RowsShape(client'[c])
    BY <1>2, <2>1, <2>2
  <2> QED
    BY <1>2, <2>3 DEF ClientTyped, RowsShape
<1> QED
  BY <1>2, <1>4, <1>5, <1>6, TypeFrame DEF SendAction

\* What follows the last row: the cursor moves past it, the mark with it.
LEMMA FirstsTyped ==
  ASSUME CursorTyped, ReaderTyped
  PROVE  WithFirsts \in Histories
<1> DEFINE at(h) == {poll.rows[n].index : n \in {m \in DOMAIN poll.rows : poll.rows[m].height = h}}
           entry(h) == IF at(h) = {} THEN history[h]
                       ELSE [history[h] EXCEPT !.first = {Lowest(at(h) \cup history[h].first)}]
<1>1. \A h \in Heights : history[h] \in [hash : 0..MaxMinted, first : SUBSET Firsts]
  BY DEF CursorTyped, Histories
<1>2. \A h \in Heights : at(h) \subseteq Firsts
  <2> SUFFICES ASSUME NEW n \in DOMAIN poll.rows PROVE poll.rows[n].index \in Firsts
    OBVIOUS
  <2>1. poll.rows[n] \in Rows
    BY PollFields
  <2> QED
    BY <2>1 DEF Rows, Indexes, Firsts
<1> HIDE DEF at
<1>3. \A h \in Heights : at(h) # {} => Lowest(at(h) \cup history[h].first) \in Firsts
  <2> SUFFICES ASSUME NEW h \in Heights, at(h) # {}
               PROVE  Lowest(at(h) \cup history[h].first) \in Firsts
    OBVIOUS
  <2>1. PICK S : S = at(h) \cup history[h].first
    OBVIOUS
  <2>2. S \subseteq Firsts /\ S # {}
    <3>1. history[h].first \subseteq Firsts
      BY <1>1
    <3> QED
      BY <1>2, <2>1, <3>1
  <2>3. Lowest(S) \in S
    <3>1. \A k \in S : k \in Int /\ k >= 1 - MaxActions
      BY <2>2 DEF Firsts
    <3>2. 1 - MaxActions \in Int
      OBVIOUS
    <3> QED
      BY <2>2, <3>1, <3>2, LowestIs
  <2> QED
    BY <2>1, <2>2, <2>3
<1>4. \A h \in Heights : entry(h) \in [hash : 0..MaxMinted, first : SUBSET Firsts]
  <2> SUFFICES ASSUME NEW h \in Heights
               PROVE  entry(h) \in [hash : 0..MaxMinted, first : SUBSET Firsts]
    OBVIOUS
  <2>1. CASE at(h) = {}
    BY <1>1, <2>1
  <2>2. CASE at(h) # {}
    <3>1. {Lowest(at(h) \cup history[h].first)} \in SUBSET Firsts
      BY <1>3, <2>2
    <3>2. history[h] \in [hash : 0..MaxMinted, first : SUBSET Firsts]
      BY <1>1
    <3> QED
      BY <2>2, <3>1, <3>2
  <2> QED
    BY <2>1, <2>2
<1>5. WithFirsts = [h \in Heights |-> entry(h)]
  BY Zenon DEF WithFirsts, at
<1> QED
  BY <1>4, <1>5 DEF Histories

LEMMA SentTyped ==
  ASSUME CursorTyped, ReaderTyped, ActionsSent, UNCHANGED <<seeded, lastTip, blockIndex>>
  PROVE  CursorTyped' /\ ReaderTyped'
<1>1. /\ history' = WithFirsts
      /\ actionIndex' = NextCursor(actionIndex, Len(poll.rows), poll.action)
      /\ liveMark' = Larger(liveMark, actionIndex')
      /\ pendingReorg' = (pendingReorg \/ Short(actionIndex, Len(poll.rows), poll.action))
      /\ EndPass("poll")
  BY DEF ActionsSent
<1>2. actionIndex \in Int /\ liveMark \in Int /\ Len(poll.rows) \in Nat
  BY PollFields DEF CursorTyped
<1>3. actionIndex' \in Int /\ liveMark' \in Int
  BY <1>1, <1>2 DEF NextCursor, Larger
<1>4. pendingReorg' \in BOOLEAN
  BY <1>1 DEF CursorTyped, Short
<1>5. CursorTyped'
  BY <1>1, <1>3, <1>4, FirstsTyped DEF CursorTyped
<1>6. ReaderTyped'
  BY <1>1, PollFields, EndsTyped
<1> QED
  BY <1>5, <1>6

LEMMA NothingFetchedTyped ==
  ASSUME FeedTyped, NothingFetched
  PROVE  FeedTyped'
<1>1. CursorTyped' /\ ReaderTyped'
  BY TypeFrame, SentTyped DEF NothingFetched
<1> QED
  BY <1>1, TypeFrame DEF NothingFetched

LEMMA SendLifeTyped ==
  ASSUME FeedTyped, SendLife
  PROVE  FeedTyped'
<1> DEFINE row == poll.rows[poll.next]
           pass == [poll EXCEPT !.pc = "rows", !.next = poll.next + 1]
<1>1. CursorTyped /\ ReaderTyped /\ ClientTyped
  BY TypeFrame
<1>2. /\ poll.pc = "life" /\ joined' = {}
      /\ client' = [c \in Clients |-> IF c \in Subscribed \ Joined
                                      THEN TakeLife(client[c], row) ELSE client[c]]
      /\ IF poll.next < Len(poll.rows)
         THEN Reads("poll", pass) /\ UNCHANGED <<pendingReorg, actionIndex, liveMark, history>>
         ELSE ActionsSent
      /\ UNCHANGED <<chainVars, seeded, lastTip, blockIndex, logVars, quiet, left>>
  BY DEF SendLife
<1>3. row \in Rows
  BY <1>1, <1>2, RowIs
<1>4. CursorTyped' /\ ReaderTyped'
  <2>1. CASE poll.next < Len(poll.rows)
    <3>1. poll \in Passes /\ poll.next + 1 \in Positives
      BY <1>1, PollFields DEF Positives
    <3>2. pass \in Passes /\ pass.pc = "rows" /\ pass.rows = poll.rows /\ pass.next = poll.next + 1
      BY <3>1, PassesAre DEF Pcs
    <3>3. PassShape(pass)
      <4>1. poll.rows \in Seq(Rows) /\ poll.next \in Nat /\ poll.next + 1 <= Len(poll.rows)
        BY <1>1, <2>1, PollFields
      <4>2. poll.rows # <<>>
        BY <4>1
      <4> HIDE DEF pass
      <4> QED
        BY <3>2, <4>1, <4>2 DEF PassShape
    <3>4. ReaderTyped'
      BY <1>1, <1>2, <2>1, <3>2, <3>3, PollFields, ReadsType
    <3>5. CursorTyped'
      BY <1>1, <1>2, <2>1 DEF CursorTyped
    <3> QED
      BY <3>4, <3>5
  <2>2. CASE ~(poll.next < Len(poll.rows))
    <3>1. ActionsSent /\ UNCHANGED <<seeded, lastTip, blockIndex>>
      BY <1>2, <2>2, SMTT(60)
    <3> QED
      BY <1>1, <3>1, SentTyped
  <2> QED
    BY <2>1, <2>2
<1>5. ClientTyped'
  <2>1. \A c \in Clients : client[c] \in ClientRecords /\ RowsShape(client[c])
    BY <1>1 DEF ClientTyped
  <2>2. \A c \in Clients : /\ TakeLife(client[c], row) \in ClientRecords
                           /\ RowsShape(TakeLife(client[c], row))
    BY <1>3, <2>1, LifeTaken, SameShape
  <2>3. \A c \in Clients : client'[c] \in ClientRecords /\ RowsShape(client'[c])
    BY <1>2, <2>1, <2>2
  <2> QED
    BY <1>2, <2>3 DEF ClientTyped, RowsShape
<1> QED
  BY <1>2, <1>4, <1>5, TypeFrame

-----------------------------------------------------------------------------
(* Types: a client.                                                        *)

\* A change of fields other than the rows, the copies and the held ones.
LEMMA LiveShape ==
  ASSUME NEW cl, cl.state \notin {"replay", "replaylife"}, cl.next = 1
  PROVE  RowsShape(cl)
BY DEF RowsShape

\* A client that goes live freezes its ceiling.
LEMMA GoesLiveTyped ==
  ASSUME FeedTyped, NEW c \in Clients, NEW cl \in ClientRecords, RowsShape(cl),
         cl.state \notin {"replay", "replaylife"}, GoesLive(c, cl)
  PROVE  /\ FeedTyped'
         /\ client'[c] = [cl EXCEPT !.ceiling = liveMark]
         /\ \A o \in Clients \ {c} : client'[o] = client[o]
<1> DEFINE live == [cl EXCEPT !.ceiling = liveMark]
<1>1. ClientTyped /\ liveMark \in Int /\ Goes(c, live)
  BY TypeFrame DEF GoesLive, Ceiling, CursorTyped
<1>2. live \in ClientRecords /\ live.state = cl.state /\ live.next = cl.next
  BY <1>1, RecordsAre
<1>3. cl.next = 1
  BY DEF RowsShape
<1> HIDE DEF live
<1>4. RowsShape(live)
  BY <1>2, <1>3, LiveShape
<1>5. ClientTyped' /\ client'[c] = live /\ \A o \in Clients \ {c} : client'[o] = client[o]
  BY <1>1, <1>2, <1>4, GoesType
<1>6. joined' \subseteq Clients
  BY DEF GoesLive, FeedTyped
<1> QED
  BY <1>5, <1>6, TypeFrame DEF GoesLive, live

\* What a client has when it opens, and when it comes back.
LEMMA OpenIs ==
  ASSUME FeedTyped, NEW c \in Clients, Open(c)
  PROVE  \E cl \in ClientRecords :
           /\ cl.state = "live" /\ cl.next = 1 /\ cl.copies = NoCopies
           /\ cl.rolled = MaxActions + 1 /\ RowsShape(cl) /\ GoesLive(c, cl)
<1> DEFINE held == [i \in Indexes |-> IF i <= liveMark THEN HashOf(i) ELSE 0]
           cl == [Fresh EXCEPT !.state = "live", !.cursor = liveMark, !.base = liveMark, !.held = held]
<1>1. liveMark \in Int /\ ChainTyped
  BY TypeFrame DEF CursorTyped
<1>2. \A i \in Indexes : HashOf(i) \in 0..MaxMinted
  <2> SUFFICES ASSUME NEW i \in 1..MaxAction PROVE chain[HeightOf(i)].hash \in 0..MaxMinted
    BY <1>1 DEF HashOf
  <2> QED
    BY <1>1, HeightOfAction, ChainIs
<1>3. held \in Helds
  BY <1>2 DEF Helds
<1>4. GoesLive(c, cl)
  BY DEF Open
<1> HIDE DEF held
<1>5. Fresh \in ClientRecords /\ Fresh.copies = NoCopies /\ Fresh.next = 1
      /\ Fresh.rolled = MaxActions + 1
  BY FreshType DEF Fresh
<1>6. /\ cl \in ClientRecords /\ cl.state = "live" /\ cl.next = Fresh.next
      /\ cl.copies = Fresh.copies /\ cl.rolled = Fresh.rolled
  BY <1>1, <1>3, <1>5, RecordsAre DEF States
<1> HIDE DEF cl
<1>7. RowsShape(cl)
  BY <1>5, <1>6, LiveShape
<1> QED
  BY <1>4, <1>5, <1>6, <1>7

LEMMA ReconnectIs ==
  ASSUME FeedTyped, NEW c \in Clients, Reconnect(c)
  PROVE  \E cl \in ClientRecords :
           /\ cl.state \in {"gate", "live"} /\ cl.next = 1 /\ cl.copies = client[c].copies
           /\ cl.rolled = client[c].rolled /\ RowsShape(cl) /\ GoesLive(c, cl)
           /\ client[c].state = "away"
<1> DEFINE back == [client[c] EXCEPT !.state = "gate", !.since = client[c].cursor]
           live == [client[c] EXCEPT !.state = "live"]
<1>1. client[c] \in ClientRecords /\ client[c].state = "away" /\ RowsShape(client[c])
  BY TypeFrame DEF Reconnect, ClientTyped
<1>2. client[c].next = 1 /\ client[c].cursor \in Int
  BY <1>1, ClientFields DEF RowsShape
<1>3. GoesLive(c, back) \/ GoesLive(c, live)
  BY DEF Reconnect
<1>4. /\ back \in ClientRecords /\ back.state = "gate" /\ back.next = client[c].next
      /\ back.copies = client[c].copies /\ back.rolled = client[c].rolled
  BY <1>1, <1>2, RecordsAre DEF States, Stages
<1>5. /\ live \in ClientRecords /\ live.state = "live" /\ live.next = client[c].next
      /\ live.copies = client[c].copies /\ live.rolled = client[c].rolled
  BY <1>1, <1>2, RecordsAre DEF States, Stages
<1> HIDE DEF back, live
<1>6. RowsShape(back) /\ RowsShape(live)
  BY <1>2, <1>4, <1>5, LiveShape
<1> QED
  BY <1>1, <1>2, <1>3, <1>4, <1>5, <1>6

LEMMA ConnectTyped ==
  ASSUME FeedTyped, NEW c \in Clients, Open(c) \/ Reconnect(c)
  PROVE  FeedTyped'
<1>1. \E cl \in ClientRecords : /\ cl.state \notin {"replay", "replaylife"} /\ RowsShape(cl)
                                /\ GoesLive(c, cl)
  BY OpenIs, ReconnectIs
<1> QED
  BY <1>1, GoesLiveTyped

\* What a client carries through its replay: the frames counted, the lowest
\* index voided, the ceiling.
SameFrames(a, b) == a.copies = b.copies /\ a.rolled = b.rolled /\ a.ceiling = b.ceiling

\* The steps of a replay before its rows.
LEMMA GateIs ==
  ASSUME FeedTyped, NEW c \in Clients, Gate(c) \/ ReadMax(c) \/ Bound(c)
  PROVE  \E cl \in ClientRecords :
           /\ RowsShape(cl) /\ Goes(c, cl)
           /\ \/ cl = Resync
              \/ /\ SameFrames(cl, client[c]) /\ cl.since = client[c].since /\ cl.next = 1
                 /\ client[c].state \in {"gate", "max", "bound"}
                 /\ cl.state \in {"max", "bound", "read"}
                 /\ cl.state = "read" => cl.bound = Smaller(client[c].ceiling, liveMark)
<1> DEFINE max == [client[c] EXCEPT !.state = "max", !.startSeq = rollbackSeq]
           bound == [client[c] EXCEPT !.state = "bound", !.max = MaxAction]
           low == Smaller(client[c].ceiling, liveMark)
           read == [client[c] EXCEPT !.state = "read", !.bound = low]
<1>1. /\ ChainTyped /\ CursorTyped /\ LogTyped
      /\ client[c] \in ClientRecords /\ RowsShape(client[c])
  BY TypeFrame DEF ClientTyped
<1>2. client[c].state \in {"gate", "max", "bound"} /\ client[c].next = 1
  BY <1>1 DEF Gate, ReadMax, Bound, RowsShape
<1>3. Goes(c, Resync) \/ Goes(c, max) \/ Goes(c, bound) \/ Goes(c, read)
  BY DEF Gate, ReadMax, Bound
<1>4. rollbackSeq \in Nat /\ MaxAction \in Nat /\ low \in Int
  <2>1. client[c].ceiling \in Int /\ liveMark \in Int
    BY <1>1, ClientFields DEF CursorTyped
  <2> QED
    BY <1>1, <2>1, ChainIs DEF LogTyped, Smaller
<1>5. Resync \in ClientRecords /\ RowsShape(Resync)
  BY FreshType
<1> HIDE DEF low
<1>6. /\ max \in ClientRecords /\ max.state = "max" /\ max.next = client[c].next
      /\ max.since = client[c].since /\ SameFrames(max, client[c])
  BY <1>1, <1>4, RecordsAre DEF States, Stages, SameFrames
<1>7. /\ bound \in ClientRecords /\ bound.state = "bound" /\ bound.next = client[c].next
      /\ bound.since = client[c].since /\ SameFrames(bound, client[c])
  BY <1>1, <1>4, RecordsAre DEF States, Stages, SameFrames
<1>8. /\ read \in ClientRecords /\ read.state = "read" /\ read.next = client[c].next
      /\ read.since = client[c].since /\ SameFrames(read, client[c]) /\ read.bound = low
  BY <1>1, <1>4, RecordsAre DEF States, Stages, SameFrames
<1> HIDE DEF max, bound, read
<1>9. RowsShape(max) /\ RowsShape(bound) /\ RowsShape(read)
  BY <1>2, <1>6, <1>7, <1>8, LiveShape
<1>10. CASE Goes(c, Resync)
  BY <1>5, <1>10
<1>11. CASE Goes(c, max)
  BY <1>2, <1>6, <1>9, <1>11
<1>12. CASE Goes(c, bound)
  BY <1>2, <1>7, <1>9, <1>12
<1>13. CASE Goes(c, read)
  BY <1>2, <1>8, <1>9, <1>13 DEF low
<1> QED
  BY <1>3, <1>10, <1>11, <1>12, <1>13

LEMMA ReadRowsIs ==
  ASSUME FeedTyped, NEW c \in Clients, ReadRows(c)
  PROVE  \E cl \in ClientRecords :
           /\ RowsShape(cl) /\ Goes(c, cl)
           /\ client[c].state = "read" /\ cl.state = "replay" /\ cl.next = 1
           /\ SameFrames(cl, client[c]) /\ cl.since = client[c].since
           /\ cl.rows = ActionsSince(client[c].since, ReplayLimit, client[c].bound)
<1> DEFINE rows == ActionsSince(client[c].since, ReplayLimit, client[c].bound)
           cl == [client[c] EXCEPT !.state = "replay", !.next = 1, !.rows = rows]
<1>1. ChainTyped /\ client[c] \in ClientRecords /\ client[c].state = "read"
  BY TypeFrame DEF ClientTyped, ReadRows
<1>2. client[c].since \in Int /\ client[c].bound \in Int
  BY <1>1, ClientFields
<1>3. rows \in Seq(Rows)
  BY <1>1, <1>2, ActionsSinceAre
<1>4. Goes(c, cl)
  BY DEF ReadRows
<1> HIDE DEF rows
<1>5. rows \in RowSeqs /\ 1 \in Positives /\ (rows # <<>> => 1 <= Len(rows))
  BY <1>3 DEF RowSeqs, Positives
<1>6. /\ cl \in ClientRecords /\ cl.state = "replay" /\ cl.next = 1 /\ cl.rows = rows
      /\ SameFrames(cl, client[c]) /\ cl.since = client[c].since
  BY <1>1, <1>5, RecordsAre DEF States, Stages, SameFrames
<1> HIDE DEF cl
<1>7. RowsShape(cl)
  BY <1>5, <1>6 DEF RowsShape
<1> QED
  BY <1>1, <1>4, <1>6, <1>7 DEF rows

\* A catch-up that is complete: live, or on to the next part of the replay.
LEMMA CompletedIs ==
  ASSUME NEW cl \in ClientRecords
  PROVE  LET done == Completed(cl) IN
         /\ done \in ClientRecords /\ RowsShape(done) /\ SameFrames(done, cl)
         /\ done.next = 1
         /\ done.state = "live" \/ (done.state = "gate" /\ done.since = Latest(cl))
<1> DEFINE seen == Larger(cl.seen, Latest(cl))
           cursor == Larger(cl.cursor, seen)
           on == [cl EXCEPT !.state = "gate", !.since = Latest(cl), !.seen = seen, !.rows = <<>>,
                            !.next = 1]
           live == [cl EXCEPT !.state = "live", !.cursor = cursor, !.seen = 0, !.since = 0,
                              !.startSeq = 0, !.max = 0, !.bound = 0, !.rows = <<>>, !.next = 1]
<1>1. cl.since \in Int /\ cl.seen \in Int /\ cl.cursor \in Int /\ cl.rows \in Seq(Rows)
  BY ClientFields
<1>2. Latest(cl) \in Int
  <2>1. CASE cl.rows # <<>>
    <3>1. Len(cl.rows) \in DOMAIN cl.rows
      BY <1>1, <2>1
    <3>2. cl.rows[Len(cl.rows)] \in Rows
      BY <1>1, <3>1
    <3> QED
      BY <2>1, <3>2 DEF Latest, Rows, Indexes
  <2> QED
    BY <1>1, <2>1 DEF Latest
<1>3. seen \in Int /\ cursor \in Int
  BY <1>1, <1>2 DEF Larger
<1>4. <<>> \in RowSeqs /\ 1 \in Positives
  BY DEF RowSeqs, Positives
<1>5. Completed(cl) = on \/ Completed(cl) = live
  BY Zenon DEF Completed
<1> HIDE DEF seen, cursor
<1>6. /\ on \in ClientRecords /\ on.state = "gate" /\ on.next = 1 /\ on.since = Latest(cl)
      /\ SameFrames(on, cl)
  BY <1>2, <1>3, <1>4, RecordsAre DEF States, Stages, SameFrames
<1>7. /\ live \in ClientRecords /\ live.state = "live" /\ live.next = 1 /\ SameFrames(live, cl)
  <2>1. /\ live.state = "live" /\ live.next = 1
        /\ live.copies = cl.copies /\ live.rolled = cl.rolled /\ live.ceiling = cl.ceiling
    BY RecordsAre
  <2>2. "live" \in States /\ 0 \in Int /\ 0 \in Nat
    BY DEF States
  <2>3. live \in ClientRecords
    BY <1>3, <1>4, <2>2, RecordsAre, ZenonT(60)
  <2> QED
    BY <2>1, <2>3 DEF SameFrames
<1> HIDE DEF on, live
<1>8. RowsShape(on) /\ RowsShape(live)
  BY <1>6, <1>7, LiveShape
<1> QED
  BY <1>5, <1>6, <1>7, <1>8

\* A row of a replay, and the frames derived from it.
LEMMA ReplayRowIs ==
  ASSUME FeedTyped, NEW c \in Clients, ReplayRow(c)
  PROVE  LET row == client[c].rows[client[c].next] IN
         /\ client[c].state = "replay" /\ client[c].next \in DOMAIN client[c].rows
         /\ row \in Rows
         /\ \E cl \in ClientRecords :
              /\ RowsShape(cl) /\ Goes(c, cl) /\ cl.state = "replaylife"
              /\ cl.copies = CountAction(client[c], row)
              /\ cl.rolled = client[c].rolled /\ cl.ceiling = client[c].ceiling
              /\ cl.since = client[c].since /\ cl.rows = client[c].rows /\ cl.next = client[c].next
<1> DEFINE row == client[c].rows[client[c].next]
           taken == TakeAction(client[c], row)
           cl == [taken EXCEPT !.state = "replaylife"]
<1>1. client[c] \in ClientRecords /\ RowsShape(client[c])
  BY TypeFrame DEF ClientTyped
<1>2. client[c].state = "replay" /\ client[c].rows # <<>> /\ Goes(c, cl)
  BY DEF ReplayRow
<1>3. /\ client[c].rows \in Seq(Rows) /\ client[c].next \in Nat \ {0}
      /\ client[c].next <= Len(client[c].rows)
  <2>1. client[c].rows \in Seq(Rows) /\ client[c].next \in Nat \ {0}
    BY <1>1, ClientFields
  <2> QED
    BY <1>1, <1>2, <2>1, SMTT(60) DEF RowsShape
<1>4. client[c].next \in DOMAIN client[c].rows /\ row \in Rows
  BY <1>3
<1>5. /\ taken \in ClientRecords /\ SameReplay(taken, client[c])
      /\ taken.rolled = client[c].rolled /\ taken.copies = CountAction(client[c], row)
  BY <1>1, <1>4, ActionTaken
<1> HIDE DEF taken
<1>6. /\ cl \in ClientRecords /\ cl.state = "replaylife" /\ cl.copies = taken.copies
      /\ cl.rolled = taken.rolled /\ cl.ceiling = taken.ceiling /\ cl.since = taken.since
      /\ cl.rows = taken.rows /\ cl.next = taken.next
  BY <1>5, RecordsAre DEF States, Stages
<1> HIDE DEF cl
<1>7. RowsShape(cl)
  BY <1>3, <1>5, <1>6 DEF RowsShape, SameReplay
<1> QED
  BY <1>2, <1>4, <1>5, <1>6, <1>7 DEF SameReplay

LEMMA ReplayLifeIs ==
  ASSUME FeedTyped, NEW c \in Clients, ReplayLife(c)
  PROVE  LET row == client[c].rows[client[c].next]
             taken == TakeLife(client[c], row)
         IN
         /\ client[c].state = "replaylife" /\ client[c].next \in DOMAIN client[c].rows
         /\ row \in Rows
         /\ \E cl \in ClientRecords :
              /\ RowsShape(cl) /\ Goes(c, cl) /\ SameFrames(cl, taken)
              /\ \/ /\ client[c].next < Len(client[c].rows)
                    /\ cl.state = "replay" /\ cl.since = client[c].since
                    /\ cl.rows = client[c].rows /\ cl.next = client[c].next + 1
                 \/ /\ client[c].next = Len(client[c].rows)
                    /\ cl.next = 1
                    /\ \/ cl.state = "live"
                       \/ cl.state = "gate" /\ cl.since = Latest(client[c])
<1> DEFINE row == client[c].rows[client[c].next]
           taken == TakeLife(client[c], row)
           more == [taken EXCEPT !.state = "replay", !.next = taken.next + 1]
<1>1. client[c] \in ClientRecords /\ RowsShape(client[c])
  BY TypeFrame DEF ClientTyped
<1>2. client[c].state = "replaylife"
      /\ Goes(c, IF taken.next < Len(taken.rows) THEN more ELSE Completed(taken))
  BY DEF ReplayLife
<1>3. /\ client[c].rows \in Seq(Rows) /\ client[c].next \in Nat \ {0}
      /\ client[c].next <= Len(client[c].rows)
  <2>1. client[c].rows \in Seq(Rows) /\ client[c].next \in Nat \ {0}
    BY <1>1, ClientFields
  <2> QED
    BY <1>1, <1>2, <2>1, SMTT(60) DEF RowsShape
<1>4. client[c].next \in DOMAIN client[c].rows /\ row \in Rows
  BY <1>3
<1>5. taken \in ClientRecords /\ SameReplay(taken, client[c])
  BY <1>1, <1>4, LifeTaken
<1> HIDE DEF taken
<1>6. taken.next = client[c].next /\ taken.rows = client[c].rows /\ taken.since = client[c].since
  BY <1>5 DEF SameReplay
<1>7. CASE taken.next < Len(taken.rows)
  <2>1. taken.next + 1 \in Positives
    BY <1>3, <1>6 DEF Positives
  <2>2. /\ more \in ClientRecords /\ more.state = "replay" /\ more.next = taken.next + 1
        /\ more.rows = taken.rows /\ more.since = taken.since /\ SameFrames(more, taken)
    BY <1>5, <2>1, RecordsAre DEF States, Stages, SameFrames
  <2> HIDE DEF more
  <2>3. RowsShape(more)
    <3>1. taken.rows # <<>> /\ taken.next + 1 <= Len(taken.rows)
      BY <1>3, <1>6, <1>7
    <3> QED
      BY <2>2, <3>1 DEF RowsShape
  <2>4. Goes(c, more)
    BY <1>2, <1>7
  <2> QED
    BY <1>2, <1>4, <1>6, <1>7, <2>2, <2>3, <2>4 DEF taken
<1>8. CASE ~(taken.next < Len(taken.rows))
  <2>1. Goes(c, Completed(taken))
    BY <1>2, <1>8
  <2>2. /\ Completed(taken) \in ClientRecords /\ RowsShape(Completed(taken))
        /\ SameFrames(Completed(taken), taken) /\ Completed(taken).next = 1
        /\ \/ Completed(taken).state = "live"
           \/ Completed(taken).state = "gate" /\ Completed(taken).since = Latest(taken)
    BY <1>5, CompletedIs
  <2>3. Latest(taken) = Latest(client[c])
    BY <1>6 DEF Latest
  <2>4. client[c].next = Len(client[c].rows)
    BY <1>3, <1>6, <1>8
  <2> QED
    BY <1>2, <1>4, <2>1, <2>2, <2>3, <2>4 DEF taken
<1> QED
  BY <1>7, <1>8, ZenonT(60)

LEMMA DropIs ==
  ASSUME FeedTyped, NEW c \in Clients, Drop(c)
  PROVE  \E cl \in ClientRecords :
           /\ RowsShape(cl) /\ Goes(c, cl) /\ cl.state = "away" /\ cl.copies = NoCopies
           /\ cl.rolled = MaxActions + 1
<1> DEFINE cl == [Fresh EXCEPT !.state = "away", !.cursor = CursorOnClose(client[c]),
                               !.base = client[c].base, !.held = client[c].held]
<1>1. /\ client[c] \in ClientRecords
      /\ Fresh \in ClientRecords /\ Fresh.copies = NoCopies /\ Fresh.next = 1
      /\ Fresh.rolled = MaxActions + 1
  BY TypeFrame, FreshType DEF ClientTyped, Fresh
<1>2. /\ CursorOnClose(client[c]) \in Int /\ client[c].base \in Int /\ client[c].held \in Helds
  BY <1>1, ClientFields DEF CursorOnClose, Helds
<1>3. Goes(c, cl)
  BY DEF Drop
<1>4. /\ cl \in ClientRecords /\ cl.state = "away" /\ cl.copies = Fresh.copies
      /\ cl.next = Fresh.next /\ cl.rolled = Fresh.rolled
  BY <1>1, <1>2, RecordsAre DEF States
<1> HIDE DEF cl
<1>5. RowsShape(cl)
  BY <1>1, <1>4, LiveShape
<1> QED
  BY <1>1, <1>3, <1>4, <1>5

LEMMA ClientTypedNext ==
  ASSUME FeedTyped, NEW c \in Clients, ReplayStep(c) \/ ReplayFails(c) \/ Drop(c)
  PROVE  FeedTyped'
<1>1. \E cl \in ClientRecords : RowsShape(cl) /\ Goes(c, cl)
  <2>1. CASE Gate(c) \/ ReadMax(c) \/ Bound(c)
    BY <2>1, GateIs
  <2>2. CASE ReadRows(c)
    BY <2>2, ReadRowsIs
  <2>3. CASE Stop(c) \/ ReplayFails(c)
    BY <2>3, FreshType DEF Stop, ReplayFails
  <2>4. CASE ReplayNothing(c)
    <3>1. client[c] \in ClientRecords
      BY TypeFrame DEF ClientTyped
    <3> QED
      BY <2>4, <3>1, CompletedIs DEF ReplayNothing
  <2>5. CASE ReplayRow(c)
    BY <2>5, ReplayRowIs
  <2>6. CASE ReplayLife(c)
    BY <2>6, ReplayLifeIs
  <2>7. CASE Drop(c)
    BY <2>7, DropIs
  <2> QED
    BY <2>1, <2>2, <2>3, <2>4, <2>5, <2>6, <2>7 DEF ReplayStep
<1>2. ClientTyped'
  BY <1>1, TypeFrame, GoesType
<1>3. /\ UNCHANGED <<chainVars, feedVars, reader, quiet>> /\ joined' \subseteq Clients
      /\ left' \in [Faults -> Nat]
  <2>1. CASE ReplayStep(c)
    BY <2>1, TypeFrame DEF ReplayStep, Gate, ReadMax, Bound, ReadRows, Stop, ReplayNothing,
                           ReplayRow, ReplayLife
  <2>2. CASE ReplayFails(c) \/ Drop(c)
    <3>1. "query" \in Faults /\ "close" \in Faults
      BY DEF Faults
    <3>2. left' \in [Faults -> Nat]
      BY <2>2, <3>1, SpendType DEF ReplayFails, Drop
    <3>3. joined' \subseteq Clients
      BY <2>2 DEF FeedTyped, ReplayFails, Drop
    <3>4. UNCHANGED <<chainVars, feedVars, reader, quiet>>
      BY <2>2, Zenon DEF ReplayFails, Drop
    <3> QED
      BY <3>2, <3>3, <3>4
  <2> QED
    BY <2>1, <2>2, SMTT(60)
<1> QED
  BY <1>2, <1>3, TypeFrame

-----------------------------------------------------------------------------
LEMMA InitTyped == Init => FeedTyped
<1> SUFFICES ASSUME Init PROVE FeedTyped
  OBVIOUS
<1>1. ChainTyped
  <2> DEFINE block(h, n) == [hash |-> h, top |-> n]
  <2>1. PICK n \in InitialActions :
          \/ chain = <<block(1, n)>>
          \/ \E m \in n..MaxActions : MaxBlocks > 1 /\ chain = <<block(1, n), block(2, m)>>
    BY DEF Init
  <2>2. n \in 0..MaxActions /\ minted = Len(chain)
    BY <2>1 DEF Init
  <2>3. \A h \in {1, 2}, m \in 0..MaxActions : block(h, m) \in Blocks
    BY DEF Blocks
  <2> HIDE DEF block
  <2>4. CASE chain = <<block(1, n)>>
    BY <2>2, <2>3, <2>4 DEF ChainTyped
  <2>5. CASE \E m \in n..MaxActions : MaxBlocks > 1 /\ chain = <<block(1, n), block(2, m)>>
    <3>1. PICK m \in n..MaxActions : MaxBlocks > 1 /\ chain = <<block(1, n), block(2, m)>>
      BY <2>5
    <3>2. block(1, n) \in Blocks /\ block(2, m) \in Blocks
      BY <2>2, <2>3
    <3> QED
      BY <2>2, <3>1, <3>2 DEF ChainTyped
  <2> QED
    BY <2>1, <2>4, <2>5
<1>2. CursorTyped
  <2>1. NoEntry \in [hash : 0..MaxMinted, first : SUBSET Firsts]
    BY DEF NoEntry
  <2>2. history = [h \in Heights |-> NoEntry]
    BY DEF Init
  <2>3. history \in Histories
    BY <2>1, <2>2 DEF Histories
  <2>4. /\ seeded = FALSE /\ lastTip = NoTip /\ pendingReorg = FALSE
        /\ blockIndex = 0 /\ actionIndex = 0 /\ liveMark = 0
    BY DEF Init
  <2>5. lastTip \in Tips
    BY <2>4, IdleType
  <2>6. blockIndex \in 0..MaxBlocks /\ actionIndex \in Int /\ liveMark \in Int
    BY <2>4
  <2> QED
    BY <2>3, <2>4, <2>5, <2>6 DEF CursorTyped
<1>3. LogTyped
  BY DEF Init, LogTyped
<1>4. ReaderTyped
  BY IdleType DEF Init, ReaderTyped
<1>5. ClientTyped
  BY FreshType DEF Init, ClientTyped
<1>6. joined \subseteq Clients /\ quiet \in BOOLEAN /\ left \in [Faults -> Nat]
  BY DEF Init
<1> QED
  BY <1>1, <1>2, <1>3, <1>4, <1>5, <1>6 DEF FeedTyped

LEMMA NextTyped == FeedTyped /\ [Next]_vars => FeedTyped'
<1> SUFFICES ASSUME FeedTyped, [Next]_vars PROVE FeedTyped'
  OBVIOUS
<1>1. CASE IndexerStep
  BY <1>1, IndexerTyped
<1>2. CASE StartPoll \/ StartSeed
  BY <1>2, StartsTyped
<1>3. ASSUME NEW r \in Readers, TipStep(r) PROVE FeedTyped'
  BY <1>3, ReadTipTyped, ReadProbeTyped, ReadMaxTyped, SeedTyped, SeedHistoryTyped DEF TipStep
<1>4. CASE PassStep
  <2>1. CASE FeedStep
    BY <2>1, ReadForkTyped, RewindTyped, ReadBlocksTyped, ReadActionsTyped, EndingsTyped,
       SendActionTyped, SendLifeTyped, NothingFetchedTyped DEF FeedStep
  <2>2. CASE TipStep("poll")
    BY <1>3, <2>2 DEF Readers
  <2> QED
    BY <1>4, <2>1, <2>2 DEF PassStep
<1>5. CASE SeedStep
  <2>1. CASE SeedLate
    BY <2>1, EndingsTyped
  <2>2. CASE TipStep("seed")
    BY <1>3, <2>2 DEF Readers
  <2> QED
    BY <1>5, <2>1, <2>2 DEF SeedStep
<1>6. CASE \E r \in Readers : PassFails(r)
  BY <1>6, EndingsTyped
<1>7. ASSUME NEW c \in Clients,
             Open(c) \/ Reconnect(c) \/ ReplayStep(c) \/ ReplayFails(c) \/ Drop(c)
      PROVE  FeedTyped'
  BY <1>7, ConnectTyped, ClientTypedNext
<1>8. CASE UNCHANGED vars
  BY <1>8, TypeFrame DEF vars
<1> QED
  BY <1>1, <1>2, <1>4, <1>5, <1>6, <1>7, <1>8 DEF Next

\* Every variable keeps its type, the rollback logs stay within their depth and
\* the block cursor is a height, whatever the database does between two reads.
THEOREM TypesKept == Spec => []TypeOK
<1>1. Spec => []FeedTyped
  BY InitTyped, NextTyped, PTL DEF Spec
<1> QED
  BY <1>1, TypedIsTypeOK, PTL

-----------------------------------------------------------------------------
(* Exactly once, from above.  The cursors first: where the live mark stands *)
(* while rows go out, and that nobody subscribes to a coin without cursors. *)

\* The rows of a pass follow the action cursor without a gap.
RowsRun ==
  poll.pc \in {"rows", "life"} =>
    \A n \in DOMAIN poll.rows : poll.rows[n].index = Larger(actionIndex, 0) + n

\* The live mark is the row in flight, the last one sent, or the cursor.
MarkInv ==
  liveMark = IF poll.pc = "life" THEN Larger(actionIndex, 0) + poll.next
             ELSE IF poll.pc = "rows" /\ poll.next > 1 THEN Larger(actionIndex, 0) + poll.next - 1
             ELSE actionIndex

PollSeeded == poll.pc \in {"rewind", "fetch", "acts", "rows", "life"} => seeded
JoinedInv == joined # {} => poll.pc = "life"
CursorInv == RowsRun /\ MarkInv /\ PollSeeded /\ JoinedInv

SeededInv == ~seeded => Subscribed = {}

(* Per client: what its subscription brought it, and how far its replay is. *)

LifeDone(cl) == Larger(cl.since, 0) + cl.next - 1
ActionDone(cl) == IF cl.state = "replaylife" THEN LifeDone(cl) + 1 ELSE LifeDone(cl)

\* Of the rows the replay may bring, the highest no rollback voided.
Reach(cl) == Smaller(cl.ceiling, cl.rolled - 1)

\* One row of a subscription: above the ceiling it came live and not after the
\* mark, up to the ceiling it came from the replay and not after its place.
CountInv(cl, i, mark, pc) ==
  /\ cl.copies.action[i] <= 1 /\ cl.copies.life[i] <= 1
  /\ i > cl.ceiling /\ cl.copies.action[i] > 0 => i <= mark
  /\ i > cl.ceiling /\ cl.copies.life[i] > 0 => i <= mark /\ (pc = "life" => i < mark)
  /\ i <= cl.ceiling /\ cl.state \in Stages /\ cl.copies.action[i] > 0 => i <= ActionDone(cl)
  /\ i <= cl.ceiling /\ cl.state \in Stages /\ cl.copies.life[i] > 0 => i <= LifeDone(cl)

\* The live feed is past the replay's reach; in mid-row, only for a client that
\* joined there may the row in flight lie within it.
SubscriberInv(c, cl, mark, pc, mid) ==
  /\ Reach(cl) <= mark
  /\ pc = "life" /\ c \notin mid => Reach(cl) < mark
  /\ c \in mid => cl.ceiling = mark
  /\ \A i \in Indexes : i < cl.rolled => CountInv(cl, i, mark, pc)

\* The replay has read rows without a gap, none above the ceiling.
ReplayInv(cl) ==
  /\ cl.state = "read" => cl.bound <= cl.ceiling
  /\ cl.state \in {"replay", "replaylife"} =>
       \A n \in DOMAIN cl.rows : /\ cl.rows[n].index = Larger(cl.since, 0) + n
                                 /\ cl.rows[n].index <= cl.ceiling

SubscribedStates == Stages \cup {"live"}
ClientInv(c, cl, mark, pc, mid) ==
  /\ cl.state \notin SubscribedStates => cl.copies = NoCopies
  /\ ReplayInv(cl)
  /\ cl.state \in SubscribedStates => SubscriberInv(c, cl, mark, pc, mid)

OnceInv == \A c \in Clients : ClientInv(c, client[c], liveMark, poll.pc, joined)
FeedInv == FeedTyped /\ CursorInv /\ SeededInv /\ OnceInv

\* No subscription brings a frame twice, then.
LEMMA OnceIsNoRepeat == FeedInv => NoRepeat
<1> SUFFICES ASSUME FeedInv, NEW c \in Clients, NEW p \in Parts, NEW i \in Indexes,
                    client[c].copies[p][i] > 1, ~(i >= client[c].rolled)
             PROVE  FALSE
  BY DEF NoRepeat
<1>1. /\ client[c] \in ClientRecords
      /\ ClientInv(c, client[c], liveMark, poll.pc, joined)
  BY TypeFrame DEF FeedInv, OnceInv, ClientTyped
<1>2. client[c].rolled \in Int /\ i \in Int
  BY <1>1, ClientFields DEF Indexes
<1>3. CASE client[c].state \in SubscribedStates
  <2>1. CountInv(client[c], i, liveMark, poll.pc)
    BY <1>1, <1>2, <1>3 DEF ClientInv, SubscriberInv
  <2>2. client[c].copies[p][i] <= 1
    BY <2>1 DEF CountInv, Parts
  <2>3. client[c].copies[p][i] \in 0..2
    BY <1>1, ClientFields
  <2> QED
    BY <2>2, <2>3
<1>4. CASE client[c].state \notin SubscribedStates
  <2>1. client[c].copies = NoCopies
    BY <1>1, <1>4 DEF ClientInv
  <2> QED
    BY <2>1, NoCopiesAre
<1> QED
  BY <1>3, <1>4

-----------------------------------------------------------------------------
(* The cursors.                                                            *)

\* Whatever leaves the pass and the cursors alone keeps them.
LEMMA CursorFrame ==
  ASSUME CursorInv, poll' = poll, actionIndex' = actionIndex, liveMark' = liveMark,
         seeded => seeded', joined' \subseteq joined \/ poll.pc = "life"
  PROVE  CursorInv'
<1>1. RowsRun' /\ MarkInv'
  BY DEF CursorInv, RowsRun, MarkInv
<1>2. PollSeeded' /\ JoinedInv'
  BY DEF CursorInv, PollSeeded, JoinedInv
<1> QED
  BY <1>1, <1>2 DEF CursorInv

\* So does a pass outside its rows.
LEMMA PassFrame ==
  ASSUME CursorInv, poll.pc \notin {"rows", "life"}, poll'.pc \notin {"rows", "life"},
         actionIndex' = actionIndex, liveMark' = liveMark, joined' = joined, PollSeeded'
  PROVE  CursorInv'
<1>1. RowsRun' /\ MarkInv'
  BY DEF CursorInv, RowsRun, MarkInv
<1>2. JoinedInv'
  BY DEF CursorInv, JoinedInv
<1> QED
  BY <1>1, <1>2 DEF CursorInv

\* What stays for the clients when they, the mark and "in mid-row" stay.
LEMMA OnceFrame ==
  ASSUME OnceInv, client' = client, liveMark' = liveMark, joined' = joined,
         poll.pc = "life" <=> poll'.pc = "life"
  PROVE  OnceInv'
<1> SUFFICES ASSUME NEW c \in Clients
             PROVE  ClientInv(c, client[c], liveMark, poll'.pc, joined)
  BY DEF OnceInv
<1>1. ClientInv(c, client[c], liveMark, poll.pc, joined)
  BY DEF OnceInv
<1> QED
  BY <1>1 DEF ClientInv, SubscriberInv, CountInv

\* One client goes on, the others keep what they have.
LEMMA OneClient ==
  ASSUME OnceInv, NEW c \in Clients, NEW cl, client'[c] = cl,
         \A o \in Clients \ {c} : client'[o] = client[o],
         \A o \in Clients \ {c} : o \in joined' <=> o \in joined,
         liveMark' = liveMark, poll' = poll,
         ClientInv(c, cl, liveMark, poll.pc, joined')
  PROVE  OnceInv'
<1>1. \A o \in Clients \ {c} : ClientInv(o, client[o], liveMark, poll.pc, joined')
  <2> SUFFICES ASSUME NEW o \in Clients \ {c}
               PROVE  ClientInv(o, client[o], liveMark, poll.pc, joined')
    OBVIOUS
  <2>1. ClientInv(o, client[o], liveMark, poll.pc, joined) /\ (o \in joined' <=> o \in joined)
    BY DEF OnceInv
  <2> QED
    BY <2>1 DEF ClientInv, SubscriberInv
<1> QED
  BY <1>1 DEF OnceInv

\* A pass of the poll loop is the poll's, one of the seed leaves it alone.
LEMMA PollAfter ==
  ASSUME ReaderTyped, NEW r \in Readers, NEW pass, Reads(r, pass)
  PROVE  poll' = IF r = "poll" THEN pass ELSE poll
BY DEF Reads, ReaderTyped, Readers, poll

TipPcs == {"idle", "tip", "probe", "block", "action", "tips", "history"}

\* The reads of the tip move neither mark nor clients, except that a seed sets
\* the cursors.
LEMMA TipMoves ==
  ASSUME FeedTyped, NEW r \in Readers, TipStep(r)
  PROVE  /\ reader[r].pc \in TipPcs
         /\ \E pass : Reads(r, pass) /\ pass.pc \in TipPcs
         /\ client' = client /\ joined' = joined
         /\ \/ seeded' = seeded /\ actionIndex' = actionIndex /\ liveMark' = liveMark
            \/ ~seeded /\ seeded' /\ liveMark' = actionIndex'
<1>1. reader[r] \in Passes
  BY TypeFrame, PassFields
<1>2. CASE ReadTip(r)
  <2> DEFINE tip == [index |-> MaxBlock, hash |-> chain[MaxBlock].hash]
             probe == lastTip # NoTip /\ tip.index > lastTip.index
             pc == IF probe THEN "probe" ELSE "block"
             pass == [reader[r] EXCEPT !.pc = pc, !.tip = tip, !.was = lastTip]
  <2>1. Reads(r, pass) /\ reader[r].pc = "tip"
    BY <1>2 DEF ReadTip
  <2>2. pc \in {"probe", "block"}
    OBVIOUS
  <2> HIDE DEF tip, pc
  <2>3. pass.pc = pc
    BY <1>1, PassesAre
  <2> HIDE DEF pass
  <2> QED
    BY <1>2, <2>1, <2>2, <2>3 DEF ReadTip, TipPcs, cursorVars
<1>3. CASE ReadProbe(r)
  <2>1. [reader[r] EXCEPT !.pc = "block"].pc = "block"
    BY <1>1, PassesAre
  <2> QED
    BY <1>3, <2>1 DEF ReadProbe, TipPcs, cursorVars
<1>4. CASE ReadMaxBlock(r)
  <2>1. [reader[r] EXCEPT !.pc = "action", !.block = MaxBlock].pc = "action"
    BY <1>1, PassesAre
  <2> QED
    BY <1>4, <2>1 DEF ReadMaxBlock, TipPcs, cursorVars, feedVars
<1>5. CASE ReadMaxAction(r)
  <2>1. [reader[r] EXCEPT !.pc = "tips", !.action = MaxAction].pc = "tips"
    BY <1>1, PassesAre
  <2> QED
    BY <1>5, <2>1 DEF ReadMaxAction, TipPcs, cursorVars, feedVars
<1>6. CASE Seed(r)
  <2>1. [reader[r] EXCEPT !.pc = "history"].pc = "history"
    BY <1>1, PassesAre
  <2>2. /\ reader[r].pc = "tips" /\ Reads(r, [reader[r] EXCEPT !.pc = "history"])
        /\ client' = client /\ joined' = joined /\ ~seeded /\ seeded' = TRUE
        /\ liveMark' = actionIndex'
    BY <1>6 DEF Seed
  <2> QED
    BY <2>1, <2>2 DEF TipPcs
<1>7. CASE SeedHistory(r)
  <2>1. IdlePass.pc = "idle"
    BY DEF IdlePass
  <2> QED
    BY <1>7, <2>1 DEF SeedHistory, EndPass, TipPcs, cursorVars
<1> QED
  BY <1>2, <1>3, <1>4, <1>5, <1>6, <1>7 DEF TipStep

\* Without cursors nobody is subscribed: what is to be shown of a client is
\* that it is not.
LEMMA UnseededOnce ==
  ASSUME FeedTyped, SeededInv, OnceInv, ~seeded, client' = client
  PROVE  OnceInv'
<1> SUFFICES ASSUME NEW c \in Clients
             PROVE  ClientInv(c, client[c], liveMark', poll'.pc, joined')
  BY DEF OnceInv
<1>1. client[c].state \notin SubscribedStates
  BY DEF SeededInv, Subscribed, SubscribedStates
<1>2. ClientInv(c, client[c], liveMark, poll.pc, joined)
  BY DEF OnceInv
<1> QED
  BY <1>1, <1>2 DEF ClientInv

LEMMA TipOnce ==
  ASSUME FeedInv, NEW r \in Readers, TipStep(r)
  PROVE  CursorInv' /\ OnceInv'
<1>1. FeedTyped /\ ReaderTyped /\ CursorInv /\ SeededInv /\ OnceInv
  BY TypeFrame DEF FeedInv
<1>2. PICK pass : Reads(r, pass) /\ pass.pc \in TipPcs
  BY <1>1, TipMoves
<1>3. poll' = IF r = "poll" THEN pass ELSE poll
  BY <1>1, <1>2, PollAfter
<1>4. /\ client' = client /\ joined' = joined
      /\ r = "poll" => poll.pc \in TipPcs /\ poll'.pc \in TipPcs
  BY <1>1, <1>2, <1>3, TipMoves DEF poll
<1>5. CASE seeded' = seeded /\ actionIndex' = actionIndex /\ liveMark' = liveMark
  <2>1. CASE r = "poll"
    <3>1. poll.pc \notin {"rows", "life"} /\ poll'.pc \notin {"rewind", "fetch", "acts", "rows", "life"}
      BY <1>4, <2>1 DEF TipPcs
    <3>2. PollSeeded'
      BY <3>1 DEF PollSeeded
    <3>3. CursorInv'
      BY <1>1, <1>4, <1>5, <3>1, <3>2, PassFrame
    <3>4. OnceInv'
      BY <1>1, <1>4, <1>5, <3>1, OnceFrame
    <3> QED
      BY <3>3, <3>4
  <2>2. CASE r # "poll"
    BY <1>1, <1>3, <1>4, <1>5, <2>2, CursorFrame, OnceFrame
  <2> QED
    BY <2>1, <2>2
<1>6. CASE ~seeded /\ seeded' /\ liveMark' = actionIndex'
  <2>1. poll.pc \notin {"rewind", "fetch", "acts", "rows", "life"}
    BY <1>1, <1>6 DEF CursorInv, PollSeeded
  <2>2. poll'.pc \notin {"rewind", "fetch", "acts", "rows", "life"}
    BY <1>3, <1>4, <2>1 DEF TipPcs
  <2>3. CursorInv'
    BY <1>1, <1>4, <1>6, <2>1, <2>2 DEF CursorInv, RowsRun, MarkInv, PollSeeded, JoinedInv
  <2>4. OnceInv'
    BY <1>1, <1>4, <1>6, UnseededOnce
  <2> QED
    BY <2>3, <2>4
<1> QED
  BY <1>1, <1>5, <1>6, TipMoves

\* What neither a pass nor a client does: the indexer, and the ends of passes.
LEMMA AsideOnce ==
  ASSUME FeedInv,
         IndexerStep \/ StartPoll \/ StartSeed \/ SeedLate \/ \E r \in Readers : PassFails(r)
  PROVE  CursorInv' /\ OnceInv'
<1>1. FeedTyped /\ ReaderTyped /\ CursorInv /\ OnceInv
  BY TypeFrame DEF FeedInv
<1>2. /\ client' = client /\ joined' = joined /\ seeded' = seeded
      /\ actionIndex' = actionIndex /\ liveMark' = liveMark
  BY DEF IndexerStep, Extend, RollBack, ChainMoves, StartPoll, StartSeed, SeedLate, PassFails,
         feedVars, cursorVars
<1>3. \/ poll' = poll
      \/ poll.pc \notin {"rows", "life"} /\ poll'.pc \in TipPcs
  <2>1. CASE IndexerStep
    BY <2>1 DEF IndexerStep, Extend, RollBack, ChainMoves, poll
  <2>2. CASE StartPoll
    <3>1. [IdlePass EXCEPT !.pc = "tip"].pc = "tip"
      BY DEF IdlePass
    <3>2. poll' = [IdlePass EXCEPT !.pc = "tip"]
      BY <1>1, <2>2, PollFields, PollAfter DEF StartPoll
    <3> QED
      BY <2>2, <3>1, <3>2 DEF StartPoll, TipPcs, poll
  <2>3. CASE StartSeed \/ SeedLate
    BY <1>1, <2>3, PollAfter DEF StartSeed, SeedLate, EndPass, Readers
  <2>4. ASSUME NEW r \in Readers, PassFails(r)
        PROVE  poll' = poll \/ (poll.pc \notin {"rows", "life"} /\ poll'.pc \in TipPcs)
    <3>1. poll' = IF r = "poll" THEN IdlePass ELSE poll
      BY <1>1, <2>4, PollAfter DEF PassFails, EndPass
    <3>2. IdlePass.pc = "idle"
      BY DEF IdlePass
    <3> QED
      BY <2>4, <3>1, <3>2 DEF PassFails, TipPcs, poll
  <2> QED
    BY <2>1, <2>2, <2>3, <2>4
<1>4. CASE poll' = poll
  BY <1>1, <1>2, <1>4, CursorFrame, OnceFrame
<1>5. CASE poll.pc \notin {"rows", "life"} /\ poll'.pc \in TipPcs
  <2>1. poll'.pc \notin {"rewind", "fetch", "acts", "rows", "life"}
    BY <1>5 DEF TipPcs
  <2>2. PollSeeded'
    BY <2>1 DEF PollSeeded
  <2> QED
    BY <1>1, <1>2, <1>5, <2>1, <2>2, PassFrame, OnceFrame
<1> QED
  BY <1>3, <1>4, <1>5

\* The reads of a running pass: the fork, the blocks, the rows, or none.
LEMMA FetchOnce ==
  ASSUME FeedInv, ReadFork \/ ReadBlocks \/ NoActions \/ ReadActions
  PROVE  CursorInv' /\ OnceInv'
<1>1. /\ ChainTyped /\ ReaderTyped /\ CursorInv /\ OnceInv /\ actionIndex \in Int
      /\ poll \in Passes /\ "poll" \in Readers
  BY TypeFrame, PollFields DEF FeedInv, CursorTyped
<1>2. /\ client' = client /\ joined' = joined /\ seeded' = seeded
      /\ actionIndex' = actionIndex /\ liveMark' = liveMark
  BY DEF ReadFork, ReadBlocks, NoActions, ReadActions, feedVars, cursorVars
<1>3. poll.pc \notin {"rows", "life"} /\ seeded
  BY <1>1 DEF ReadFork, ReadBlocks, NoActions, ReadActions, ActionsDue, Fetching, CursorInv, PollSeeded
<1>4. CASE ReadFork \/ ReadBlocks \/ NoActions
  <2>1. poll'.pc \in {"rewind", "acts", "idle"}
    <3>1. CASE ReadFork
      <4> DEFINE lost == {h \in Remembered : Changed(h)}
                 fork == IF lost = {} THEN 0 ELSE Lowest(lost)
      <4>1. Reads("poll", [poll EXCEPT !.pc = "rewind", !.fork = fork])
        BY <3>1 DEF ReadFork
      <4> HIDE DEF fork
      <4>2. [poll EXCEPT !.pc = "rewind", !.fork = fork].pc = "rewind"
        BY <1>1, PassesAre
      <4> QED
        BY <1>1, <4>1, <4>2, PollAfter
    <3>2. CASE ReadBlocks
      <4>1. [poll EXCEPT !.pc = "acts"].pc = "acts"
        BY <1>1, PassesAre
      <4> QED
        BY <1>1, <3>2, <4>1, PollAfter DEF ReadBlocks
    <3>3. CASE NoActions
      BY <1>1, <3>3, PollAfter DEF NoActions, EndPass, IdlePass
    <3> QED
      BY <1>4, <3>1, <3>2, <3>3
  <2>2. PollSeeded'
    BY <1>2, <1>3 DEF PollSeeded
  <2> QED
    BY <1>1, <1>2, <1>3, <2>1, <2>2, PassFrame, OnceFrame
<1>5. CASE ReadActions
  <2> DEFINE rows == ActionsSince(actionIndex, FetchLimit, MaxActions)
             pass == [poll EXCEPT !.pc = "rows", !.rows = rows]
  <2>1. Reads("poll", pass) /\ pass.pc = "rows" /\ pass.rows = rows /\ pass.next = 1
    BY <1>1, <1>5, ReadActionsIs
  <2>2. \A n \in DOMAIN rows : rows[n].index = Larger(actionIndex, 0) + n
    <3>1. FetchLimit \in Nat /\ MaxActions \in Int
      OBVIOUS
    <3> QED
      BY <1>1, <3>1, ActionsSinceAre
  <2>3. poll' = pass
    BY <1>1, <2>1, PollAfter
  <2> HIDE DEF rows, pass
  <2>4. RowsRun'
    BY <1>2, <2>1, <2>2, <2>3 DEF RowsRun
  <2>5. MarkInv'
    BY <1>1, <1>2, <1>3, <2>1, <2>3 DEF CursorInv, MarkInv
  <2>6. PollSeeded' /\ JoinedInv'
    BY <1>1, <1>2, <1>3, <2>1, <2>3 DEF CursorInv, PollSeeded, JoinedInv
  <2>7. OnceInv'
    BY <1>1, <1>2, <1>3, <2>1, <2>3, OnceFrame
  <2> QED
    BY <2>4, <2>5, <2>6, <2>7 DEF CursorInv
<1> QED
  BY <1>4, <1>5

\* A rollback: the mark follows the cursor down, and what a client keeps lies
\* below the rows it is told to drop.
LEMMA ReorgOnce ==
  ASSUME NEW c \in Clients, NEW cl \in ClientRecords, NEW mark \in Int, NEW low \in Int, low <= mark,
         NEW pc, pc # "life", NEW next, next # "life", ClientInv(c, cl, mark, pc, {}),
         cl.state \in SubscribedStates
  PROVE  ClientInv(c, TakeReorg(cl, low + 1), low, next, {})
<1> DEFINE first == low + 1
           taken == TakeReorg(cl, first)
<1>1. /\ taken \in ClientRecords /\ SameReplay(taken, cl)
      /\ taken.rolled = Smaller(cl.rolled, first)
      /\ \A i \in Indexes, p \in Parts :
           taken.copies[p][i] = IF i < first THEN cl.copies[p][i] ELSE 0
  <2>1. first \in Int
    OBVIOUS
  <2> HIDE DEF first
  <2> QED
    BY <2>1, ReorgTaken
<1>2. cl.rolled \in Int /\ cl.ceiling \in Int
  BY ClientFields
<1> HIDE DEF taken
<1>3. ReplayInv(cl) /\ SubscriberInv(c, cl, mark, pc, {})
  BY DEF ClientInv
<1>4. ReplayInv(taken)
  BY <1>1, <1>3 DEF ReplayInv, SameReplay
<1>5. ASSUME NEW i \in Indexes, i < taken.rolled
      PROVE  CountInv(taken, i, low, next)
  <2>1. i < cl.rolled /\ i <= low /\ i \in Int
    BY <1>1, <1>2, <1>5 DEF Smaller, Indexes
  <2>2. CountInv(cl, i, mark, pc)
    BY <1>3, <2>1 DEF SubscriberInv
  <2>3. taken.copies.action[i] = cl.copies.action[i] /\ taken.copies.life[i] = cl.copies.life[i]
    BY <1>1, <2>1 DEF Parts
  <2>4. ActionDone(taken) = ActionDone(cl) /\ LifeDone(taken) = LifeDone(cl)
        /\ taken.state = cl.state /\ taken.ceiling = cl.ceiling
    BY <1>1 DEF ActionDone, LifeDone, SameReplay
  <2> QED
    BY <2>1, <2>2, <2>3, <2>4 DEF CountInv
<1>6. Reach(taken) <= low
  BY <1>1, <1>2 DEF Reach, Smaller, SameReplay
<1> QED
  BY <1>1, <1>4, <1>5, <1>6 DEF ClientInv, SubscriberInv, SameReplay, taken

LEMMA RewindOnce ==
  ASSUME FeedInv, Rewind
  PROVE  CursorInv' /\ OnceInv'
<1>1. /\ ReaderTyped /\ CursorTyped /\ ClientTyped /\ CursorInv /\ OnceInv
      /\ poll \in Passes /\ "poll" \in Readers
  BY TypeFrame, PollFields DEF FeedInv
<1>2. /\ poll.pc = "rewind" /\ seeded /\ joined = {} /\ liveMark = actionIndex
  BY <1>1, RewindDoes DEF CursorInv, MarkInv, PollSeeded, JoinedInv
<1>3. /\ RewindAction \in Int /\ RewindAction <= actionIndex /\ actionIndex \in Int
      /\ RewindBlock \in Int /\ RewindBlock <= blockIndex /\ blockIndex \in Int
  BY <1>1, RewindIs DEF CursorTyped
<1>4. /\ actionIndex' = RewindAction /\ liveMark' = RewindAction /\ joined' = {} /\ seeded'
  BY <1>2, <1>3, RewindDoes DEF Smaller
<1>5. poll'.pc = "fetch"
  <2>1. [poll EXCEPT !.pc = "fetch"].pc = "fetch"
    BY <1>1, PassesAre
  <2> QED
    BY <1>1, <2>1, RewindDoes, PollAfter
<1>6. CursorInv'
  BY <1>4, <1>5 DEF CursorInv, RowsRun, MarkInv, PollSeeded, JoinedInv
<1>7. OnceInv'
  <2>1. CASE RewindBlock < blockIndex \/ RewindAction < actionIndex
    <3> SUFFICES ASSUME NEW c \in Clients
                 PROVE  ClientInv(c, client'[c], RewindAction, poll'.pc, {})
      BY <1>4 DEF OnceInv
    <3>1. /\ client'[c] = IF c \in Subscribed THEN TakeReorg(client[c], RewindAction + 1) ELSE client[c]
          /\ client[c] \in ClientRecords /\ ClientInv(c, client[c], liveMark, poll.pc, {})
      BY <1>1, <1>2, <2>1, RewindDoes DEF OnceInv, ClientTyped
    <3>2. c \in Subscribed <=> client[c].state \in SubscribedStates
      BY DEF Subscribed, SubscribedStates
    <3>3. CASE c \in Subscribed
      BY <1>2, <1>3, <1>5, <3>1, <3>2, <3>3, ReorgOnce
    <3>4. CASE c \notin Subscribed
      <4>1. client'[c] = client[c] /\ client[c].state \notin SubscribedStates
        BY <3>1, <3>2, <3>4
      <4>2. ClientInv(c, client[c], liveMark, poll.pc, {})
        BY <3>1
      <4> QED
        BY <4>1, <4>2 DEF ClientInv
    <3> QED
      BY <3>3, <3>4
  <2>2. CASE ~(RewindBlock < blockIndex \/ RewindAction < actionIndex)
    <3>1. client' = client
      BY <2>2, RewindDoes
    <3>2. RewindAction = actionIndex
      BY <1>3, <2>2
    <3> QED
      BY <1>1, <1>2, <1>4, <1>5, <3>1, <3>2, OnceFrame
  <2> QED
    BY <2>1, <2>2
<1> QED
  BY <1>6, <1>7

\* A row's NEW_ACTION: it lies above the mark, so above every ceiling that is
\* still to be replayed, and no subscription had it.
LEMMA ActionOnce ==
  ASSUME NEW c \in Clients, NEW cl \in ClientRecords, NEW mark \in Int, NEW row \in Rows,
         mark < row.index, NEW pc, pc # "life", ClientInv(c, cl, mark, pc, {}),
         cl.state \in SubscribedStates
  PROVE  ClientInv(c, TakeAction(cl, row), row.index, "life", {})
<1> DEFINE taken == TakeAction(cl, row)
           k == row.index
<1>1. /\ taken \in ClientRecords /\ SameReplay(taken, cl)
      /\ taken.rolled = cl.rolled /\ taken.copies = CountAction(cl, row)
  BY ActionTaken
<1>2. /\ \A i \in Indexes \ {k}, p \in Parts : taken.copies[p][i] = cl.copies[p][i]
      /\ cl.copies.action[k] = 0 => taken.copies.action[k] = 1
      /\ taken.copies.life[k] \in {0, cl.copies.life[k]}
  BY <1>1, ActionCounted
<1>3. /\ cl.rolled \in Int /\ cl.ceiling \in Int /\ k \in Indexes /\ k \in Int
      /\ \A i \in Indexes : cl.copies.action[i] \in 0..2 /\ cl.copies.life[i] \in 0..2
  BY ClientFields DEF Rows, Indexes, Parts
<1> HIDE DEF taken, k
<1>4. ReplayInv(cl) /\ SubscriberInv(c, cl, mark, pc, {}) /\ mark < k
  BY DEF ClientInv, k
<1>5. ReplayInv(taken) /\ Reach(taken) = Reach(cl)
  BY <1>1, <1>4 DEF ReplayInv, SameReplay, Reach
<1>6. Reach(taken) < k /\ Reach(taken) <= k
  <2>1. Reach(cl) \in Int /\ Reach(cl) <= mark
    BY <1>3, <1>4 DEF SubscriberInv, Reach, Smaller
  <2> QED
    BY <1>3, <1>4, <1>5, <2>1
<1>7. ActionDone(taken) = ActionDone(cl) /\ LifeDone(taken) = LifeDone(cl)
      /\ taken.state = cl.state /\ taken.ceiling = cl.ceiling
  BY <1>1 DEF ActionDone, LifeDone, SameReplay
<1>8. ASSUME NEW i \in Indexes, i < taken.rolled
      PROVE  CountInv(taken, i, k, "life")
  <2>1. CountInv(cl, i, mark, pc) /\ i \in Int /\ i < cl.rolled
    BY <1>1, <1>4, <1>8 DEF SubscriberInv, Indexes
  <2>2. CASE i # k
    <3>1. taken.copies.action[i] = cl.copies.action[i] /\ taken.copies.life[i] = cl.copies.life[i]
      BY <1>2, <2>2 DEF Parts
    <3> QED
      BY <1>3, <1>4, <1>7, <2>1, <3>1 DEF CountInv
  <2>3. CASE i = k
    <3>1. i > cl.ceiling
      BY <1>1, <1>3, <1>4, <1>6, <2>1, <2>3 DEF Reach, Smaller, SameReplay
    <3>2. ~(cl.copies.action[i] > 0) /\ ~(cl.copies.life[i] > 0)
      BY <1>3, <1>4, <2>1, <2>3, <3>1 DEF CountInv
    <3>3. cl.copies.action[i] = 0 /\ cl.copies.life[i] = 0
      BY <1>3, <3>2, NoneCounted, Zenon
    <3>4. taken.copies.action[i] = 1 /\ taken.copies.life[i] = 0
      BY <1>2, <2>3, <3>3
    <3>5. ~(i <= taken.ceiling)
      BY <1>3, <1>7, <2>1, <3>1
    <3> QED
      BY <2>1, <2>3, <3>4, <3>5 DEF CountInv
  <2> QED
    BY <2>2, <2>3
<1>9. taken.state \in SubscribedStates
  BY <1>7
<1> QED
  BY <1>5, <1>6, <1>8, <1>9 DEF ClientInv, SubscriberInv, taken, k

\* Its other frames: for those that took the NEW_ACTION it is above the reach
\* of their replay, and none of them had one yet.
LEMMA LifeOnce ==
  ASSUME NEW c \in Clients, NEW cl \in ClientRecords, NEW mid, c \notin mid, NEW row \in Rows,
         ClientInv(c, cl, row.index, "life", mid), cl.state \in SubscribedStates,
         NEW pc, pc # "life"
  PROVE  ClientInv(c, TakeLife(cl, row), row.index, pc, {})
<1> DEFINE taken == TakeLife(cl, row)
           k == row.index
<1>1. /\ taken \in ClientRecords /\ SameReplay(taken, cl) /\ taken.rolled = cl.rolled
      /\ \A i \in Indexes \ {k}, p \in Parts : taken.copies[p][i] = cl.copies[p][i]
      /\ taken.copies.action = cl.copies.action
      /\ cl.copies.life[k] = 0 => taken.copies.life[k] = 1
  BY LifeTaken
<1>2. /\ cl.rolled \in Int /\ cl.ceiling \in Int /\ k \in Indexes /\ k \in Int
      /\ \A i \in Indexes : cl.copies.action[i] \in 0..2 /\ cl.copies.life[i] \in 0..2
  BY ClientFields DEF Rows, Indexes, Parts
<1> HIDE DEF taken, k
<1>3. ReplayInv(cl) /\ SubscriberInv(c, cl, k, "life", mid)
  BY DEF ClientInv, k
<1>4. ReplayInv(taken) /\ Reach(taken) = Reach(cl)
  BY <1>1, <1>3 DEF ReplayInv, SameReplay, Reach
<1>5. Reach(cl) < k /\ Reach(cl) \in Int
  BY <1>2, <1>3 DEF SubscriberInv, Reach, Smaller
<1>6. ActionDone(taken) = ActionDone(cl) /\ LifeDone(taken) = LifeDone(cl)
      /\ taken.state = cl.state /\ taken.ceiling = cl.ceiling
  BY <1>1 DEF ActionDone, LifeDone, SameReplay
<1>7. ASSUME NEW i \in Indexes, i < taken.rolled
      PROVE  CountInv(taken, i, k, pc)
  <2>1. CountInv(cl, i, k, "life") /\ i \in Int /\ i < cl.rolled
    BY <1>1, <1>3, <1>7 DEF SubscriberInv, Indexes
  <2>2. CASE i # k
    <3>1. taken.copies.action[i] = cl.copies.action[i] /\ taken.copies.life[i] = cl.copies.life[i]
      BY <1>1, <2>2 DEF Parts
    <3> QED
      BY <1>6, <2>1, <3>1 DEF CountInv
  <2>3. CASE i = k
    <3>1. i > cl.ceiling
      BY <1>2, <1>5, <2>1, <2>3 DEF Reach, Smaller
    <3>2. ~(cl.copies.life[i] > 0)
      BY <1>2, <2>1, <2>3, <3>1 DEF CountInv
    <3>3. cl.copies.life[i] = 0
      BY <1>2, <3>2, NoneCounted, Zenon
    <3>4. taken.copies.life[i] = 1 /\ taken.copies.action[i] = cl.copies.action[i]
      BY <1>1, <2>3, <3>3
    <3>5. ~(i <= taken.ceiling)
      BY <1>2, <1>6, <2>1, <3>1
    <3> QED
      BY <2>1, <2>3, <3>4, <3>5 DEF CountInv
  <2> QED
    BY <2>2, <2>3
<1>8. taken.state \in SubscribedStates
  BY <1>6
<1> QED
  BY <1>2, <1>4, <1>5, <1>7, <1>8 DEF ClientInv, SubscriberInv, taken, k

\* One that joined in mid-row gets them from its replay.
LEMMA SkippedOnce ==
  ASSUME NEW c \in Clients, NEW cl, NEW mark \in Int, NEW mid, NEW pc, pc # "life",
         ClientInv(c, cl, mark, "life", mid)
  PROVE  ClientInv(c, cl, mark, pc, {})
BY DEF ClientInv, SubscriberInv, CountInv

LEMMA SendActionOnce ==
  ASSUME FeedInv, SendAction
  PROVE  CursorInv' /\ OnceInv'
<1> DEFINE row == poll.rows[poll.next]
           pass == [poll EXCEPT !.pc = "life"]
<1>1. /\ ReaderTyped /\ CursorTyped /\ ClientTyped /\ CursorInv /\ OnceInv
      /\ poll \in Passes /\ "poll" \in Readers /\ poll.next \in Nat \ {0}
  BY TypeFrame, PollFields DEF FeedInv
<1>2. /\ poll.pc = "rows" /\ poll.rows # <<>> /\ liveMark' = row.index /\ Reads("poll", pass)
      /\ client' = [c \in Clients |-> IF c \in Subscribed
                                      THEN TakeAction(client[c], row) ELSE client[c]]
      /\ seeded' = seeded /\ actionIndex' = actionIndex /\ joined' = {}
  BY DEF SendAction
<1>3. /\ row \in Rows /\ row.index \in Int /\ poll.next \in DOMAIN poll.rows
      /\ liveMark \in Int /\ actionIndex \in Int
  BY <1>1, <1>2, RowIs, SMTT(60) DEF Indexes, CursorTyped
<1>4. /\ row.index = Larger(actionIndex, 0) + poll.next /\ joined = {} /\ seeded
  BY <1>1, <1>2, <1>3 DEF CursorInv, RowsRun, JoinedInv, PollSeeded
<1>5. liveMark < row.index
  <2> DEFINE low == Larger(actionIndex, 0)
             next == poll.next
  <2>1. low \in Int /\ actionIndex <= low /\ next \in Nat \ {0}
    BY <1>1, <1>3 DEF Larger
  <2>2. liveMark = IF next > 1 THEN low + next - 1 ELSE actionIndex
    BY <1>1, <1>2 DEF CursorInv, MarkInv
  <2>3. row.index = low + next
    BY <1>4
  <2> HIDE DEF low, next, row
  <2> QED
    BY <1>3, <2>1, <2>2, <2>3
<1>6. poll' = pass
  BY <1>1, <1>2, PollAfter
<1>7. pass.pc = "life" /\ pass.rows = poll.rows /\ pass.next = poll.next
  BY <1>1, PassesAre
<1> HIDE DEF row, pass
<1>8. CursorInv'
  <2>1. RowsRun'
    BY <1>1, <1>2, <1>6, <1>7 DEF CursorInv, RowsRun
  <2>2. MarkInv'
    BY <1>2, <1>4, <1>6, <1>7 DEF MarkInv
  <2>3. PollSeeded' /\ JoinedInv'
    BY <1>2, <1>4 DEF PollSeeded, JoinedInv
  <2> QED
    BY <2>1, <2>2, <2>3 DEF CursorInv
<1>9. OnceInv'
  <2> SUFFICES ASSUME NEW c \in Clients
               PROVE  ClientInv(c, client'[c], row.index, "life", {})
    BY <1>2, <1>6, <1>7 DEF OnceInv
  <2>1. /\ client'[c] = IF c \in Subscribed THEN TakeAction(client[c], row) ELSE client[c]
        /\ client[c] \in ClientRecords /\ ClientInv(c, client[c], liveMark, "rows", {})
    BY <1>1, <1>2, <1>4 DEF OnceInv, ClientTyped
  <2>2. c \in Subscribed <=> client[c].state \in SubscribedStates
    BY DEF Subscribed, SubscribedStates
  <2>3. CASE c \in Subscribed
    BY <1>3, <1>5, <2>1, <2>2, <2>3, ActionOnce
  <2>4. CASE c \notin Subscribed
    <3>1. client'[c] = client[c] /\ client[c].state \notin SubscribedStates
      BY <2>1, <2>2, <2>4
    <3> QED
      BY <2>1, <3>1 DEF ClientInv
  <2> QED
    BY <2>3, <2>4
<1> QED
  BY <1>8, <1>9

\* The last row sent, the cursor is where the mark is.
LEMMA SentMark ==
  ASSUME ReaderTyped, CursorTyped, CursorInv, ActionsSent, seeded' = seeded,
         \/ poll.pc = "life" /\ poll.next = Len(poll.rows) /\ joined' = {}
         \/ poll.pc = "rows" /\ poll.rows = <<>> /\ joined' = joined
  PROVE  CursorInv' /\ liveMark' = liveMark /\ poll' = IdlePass
<1>1. /\ poll.rows \in Seq(Rows) /\ poll.next \in Nat \ {0} /\ "poll" \in Readers
      /\ actionIndex \in Int /\ liveMark \in Int
      /\ poll.pc = "rows" /\ poll.rows = <<>> => poll.next = 1
  BY PollFields DEF CursorTyped, PassShape
<1>2. /\ actionIndex' = NextCursor(actionIndex, Len(poll.rows), poll.action)
      /\ liveMark' = Larger(liveMark, actionIndex') /\ EndPass("poll")
  BY DEF ActionsSent
<1>3. poll' = IdlePass /\ IdlePass.pc = "idle"
  BY <1>1, <1>2, PollAfter DEF EndPass, IdlePass
<1>4. actionIndex' = liveMark
  <2>1. CASE poll.pc = "life" /\ poll.next = Len(poll.rows)
    <3>1. liveMark = Larger(actionIndex, 0) + Len(poll.rows) /\ Len(poll.rows) # 0
      BY <1>1, <2>1 DEF CursorInv, MarkInv
    <3> QED
      BY <1>2, <3>1 DEF NextCursor
  <2>2. CASE poll.pc = "rows" /\ poll.rows = <<>>
    <3>1. liveMark = actionIndex /\ Len(poll.rows) = 0
      BY <1>1, <2>2 DEF CursorInv, MarkInv
    <3> QED
      BY <1>2, <3>1 DEF NextCursor
  <2> QED
    BY <2>1, <2>2
<1>5. liveMark' = liveMark
  BY <1>1, <1>2, <1>4 DEF Larger
<1>6. joined' = {}
  BY DEF CursorInv, JoinedInv
<1>7. CursorInv'
  BY <1>3, <1>4, <1>5, <1>6 DEF CursorInv, RowsRun, MarkInv, PollSeeded, JoinedInv
<1> QED
  BY <1>3, <1>5, <1>7

LEMMA NothingFetchedOnce ==
  ASSUME FeedInv, NothingFetched
  PROVE  CursorInv' /\ OnceInv'
<1>1. /\ ReaderTyped /\ CursorTyped /\ CursorInv /\ OnceInv
  BY TypeFrame DEF FeedInv
<1>2. /\ poll.pc = "rows" /\ poll.rows = <<>> /\ ActionsSent
      /\ client' = client /\ joined' = joined /\ seeded' = seeded
  BY DEF NothingFetched
<1>3. CursorInv' /\ liveMark' = liveMark /\ poll' = IdlePass
  BY <1>1, <1>2, SentMark
<1>4. IdlePass.pc = "idle"
  BY DEF IdlePass
<1>5. OnceInv'
  BY <1>1, <1>2, <1>3, <1>4, OnceFrame
<1> QED
  BY <1>3, <1>5

LEMMA SendLifeOnce ==
  ASSUME FeedInv, SendLife
  PROVE  CursorInv' /\ OnceInv'
<1> DEFINE row == poll.rows[poll.next]
           pass == [poll EXCEPT !.pc = "rows", !.next = poll.next + 1]
<1>1. /\ ReaderTyped /\ CursorTyped /\ ClientTyped /\ CursorInv /\ OnceInv
      /\ poll \in Passes /\ "poll" \in Readers
  BY TypeFrame, PollFields DEF FeedInv
<1>2. /\ poll.pc = "life" /\ joined' = {} /\ seeded' = seeded
      /\ client' = [c \in Clients |-> IF c \in Subscribed \ joined
                                      THEN TakeLife(client[c], row) ELSE client[c]]
      /\ IF poll.next < Len(poll.rows)
         THEN Reads("poll", pass) /\ UNCHANGED <<pendingReorg, actionIndex, liveMark, history>>
         ELSE ActionsSent
  BY DEF SendLife, Joined
<1>3. /\ row \in Rows /\ row.index \in Int /\ poll.next \in DOMAIN poll.rows
      /\ poll.rows \in Seq(Rows) /\ poll.next \in Nat \ {0} /\ poll.next <= Len(poll.rows)
  <2>1. row \in Rows /\ poll.next \in DOMAIN poll.rows
    BY <1>1, <1>2, RowIs
  <2>2. poll.rows \in Seq(Rows) /\ poll.next \in Nat \ {0} /\ poll.next <= Len(poll.rows)
    BY <1>1, <1>2, PollFields DEF PassShape
  <2>3. row.index \in Int
    BY <2>1 DEF Rows, Indexes
  <2> QED
    BY <2>1, <2>2, <2>3
<1>4. row.index = liveMark /\ seeded
  BY <1>1, <1>2, <1>3 DEF CursorInv, RowsRun, MarkInv, PollSeeded
<1> HIDE DEF row
<1>5. CursorInv' /\ liveMark' = liveMark /\ poll'.pc # "life"
  <2>1. CASE poll.next < Len(poll.rows)
    <3>1. poll' = pass /\ actionIndex' = actionIndex /\ liveMark' = liveMark
      BY <1>1, <1>2, <2>1, PollAfter
    <3>2. pass.pc = "rows" /\ pass.rows = poll.rows /\ pass.next = poll.next + 1
      BY <1>1, PassesAre
    <3> HIDE DEF pass
    <3>3. RowsRun'
      BY <1>1, <1>2, <3>1, <3>2 DEF CursorInv, RowsRun
    <3>4. MarkInv'
      <4>1. liveMark = Larger(actionIndex, 0) + poll.next
        BY <1>1, <1>2 DEF CursorInv, MarkInv
      <4>2. Larger(actionIndex, 0) \in Int
        BY <1>1 DEF CursorTyped, Larger
      <4> QED
        BY <1>3, <3>1, <3>2, <4>1, <4>2 DEF MarkInv, Larger
    <3>5. PollSeeded' /\ JoinedInv'
      BY <1>2, <1>4 DEF PollSeeded, JoinedInv
    <3> QED
      BY <3>1, <3>2, <3>3, <3>4, <3>5 DEF CursorInv
  <2>2. CASE ~(poll.next < Len(poll.rows))
    <3>1. poll.next = Len(poll.rows)
      BY <1>3, <2>2
    <3>2. CursorInv' /\ liveMark' = liveMark /\ poll' = IdlePass
      BY <1>1, <1>2, <2>2, <3>1, SentMark
    <3> QED
      BY <3>2 DEF IdlePass
  <2> QED
    BY <2>1, <2>2
<1>6. OnceInv'
  <2> SUFFICES ASSUME NEW c \in Clients
               PROVE  ClientInv(c, client'[c], liveMark, poll'.pc, {})
    BY <1>2, <1>5 DEF OnceInv
  <2>1. /\ client'[c] = IF c \in Subscribed \ joined THEN TakeLife(client[c], row) ELSE client[c]
        /\ client[c] \in ClientRecords /\ ClientInv(c, client[c], liveMark, "life", joined)
        /\ liveMark \in Int
    BY <1>1, <1>2 DEF OnceInv, ClientTyped, CursorTyped
  <2>2. c \in Subscribed <=> client[c].state \in SubscribedStates
    BY DEF Subscribed, SubscribedStates
  <2>3. CASE c \in Subscribed \ joined
    <3>1. client'[c] = TakeLife(client[c], row) /\ client[c].state \in SubscribedStates /\ c \notin joined
      BY <2>1, <2>2, <2>3
    <3>2. ClientInv(c, client[c], row.index, "life", joined)
      BY <1>4, <2>1
    <3>3. ClientInv(c, TakeLife(client[c], row), row.index, poll'.pc, {})
      BY <1>3, <1>5, <2>1, <3>1, <3>2, LifeOnce, ZenonT(60)
    <3> QED
      BY <1>4, <3>1, <3>3
  <2>4. CASE c \notin Subscribed \ joined
    BY <1>5, <2>1, <2>4, SkippedOnce
  <2> QED
    BY <2>3, <2>4
<1> QED
  BY <1>5, <1>6

-----------------------------------------------------------------------------
(* The clients' own steps.                                                 *)

\* A client that goes on, the feed standing still.
LEMMA ClientOnce ==
  ASSUME FeedInv, NEW c \in Clients, NEW cl \in ClientRecords, RowsShape(cl), Goes(c, cl),
         UNCHANGED <<feedVars, reader>>, joined' \in {joined, joined \ {c}},
         ClientInv(c, cl, liveMark, poll.pc, joined')
  PROVE  CursorInv' /\ OnceInv'
<1>1. ClientTyped /\ CursorInv /\ OnceInv
  BY TypeFrame DEF FeedInv
<1>2. client'[c] = cl /\ \A o \in Clients \ {c} : client'[o] = client[o]
  BY <1>1, GoesType
<1>3. poll' = poll /\ actionIndex' = actionIndex /\ liveMark' = liveMark /\ seeded' = seeded
  BY DEF poll, feedVars, cursorVars
<1>4. CursorInv'
  BY <1>1, <1>3, CursorFrame
<1>5. \A o \in Clients \ {c} : o \in joined' <=> o \in joined
  OBVIOUS
<1>6. OnceInv'
  BY <1>1, <1>2, <1>3, <1>5, OneClient
<1> QED
  BY <1>4, <1>6

\* One that keeps its frames and its place in the replay.
LEMMA PlaceOnce ==
  ASSUME NEW c, NEW a, NEW b, NEW mark, NEW pc, NEW mid,
         ClientInv(c, b, mark, pc, mid), SameFrames(a, b), ReplayInv(a),
         a.state \in SubscribedStates, b.state \in SubscribedStates,
         a.state \in Stages => b.state \in Stages /\ LifeDone(a) = LifeDone(b)
                                               /\ ActionDone(a) = ActionDone(b)
  PROVE  ClientInv(c, a, mark, pc, mid)
<1>1. SubscriberInv(c, b, mark, pc, mid)
  BY DEF ClientInv
<1>2. Reach(a) = Reach(b) /\ a.ceiling = b.ceiling /\ a.rolled = b.rolled
  BY DEF SameFrames, Reach
<1>3. \A i \in Indexes : CountInv(b, i, mark, pc) => CountInv(a, i, mark, pc)
  BY DEF CountInv, SameFrames
<1>4. SubscriberInv(c, a, mark, pc, mid)
  BY <1>1, <1>2, <1>3 DEF SubscriberInv
<1> QED
  BY <1>4 DEF ClientInv

\* One that is told to reload has no frames to count.
LEMMA ResyncOnce ==
  ASSUME NEW c, NEW mark, NEW pc, NEW mid
  PROVE  ClientInv(c, Resync, mark, pc, mid)
<1>1. Resync.state = "resync" /\ Resync.copies = NoCopies
  BY FreshType
<1> QED
  BY <1>1 DEF ClientInv, ReplayInv, SubscribedStates, Stages

LEMMA GateOnce ==
  ASSUME FeedInv, NEW c \in Clients, Gate(c) \/ ReadMax(c) \/ Bound(c)
  PROVE  CursorInv' /\ OnceInv'
<1>1. FeedTyped /\ client[c] \in ClientRecords /\ RowsShape(client[c]) /\ liveMark \in Int
      /\ ClientInv(c, client[c], liveMark, poll.pc, joined)
  BY TypeFrame DEF FeedInv, OnceInv, ClientTyped, CursorTyped
<1>2. UNCHANGED <<feedVars, reader, joined>>
  BY DEF Gate, ReadMax, Bound
<1>3. PICK cl \in ClientRecords :
        /\ RowsShape(cl) /\ Goes(c, cl)
        /\ \/ cl = Resync
           \/ /\ SameFrames(cl, client[c]) /\ cl.since = client[c].since /\ cl.next = 1
              /\ client[c].state \in {"gate", "max", "bound"}
              /\ cl.state \in {"max", "bound", "read"}
              /\ cl.state = "read" => cl.bound = Smaller(client[c].ceiling, liveMark)
  BY <1>1, GateIs
<1>4. ClientInv(c, cl, liveMark, poll.pc, joined)
  <2>1. CASE cl = Resync
    BY <2>1, ResyncOnce
  <2>2. CASE cl # Resync
    <3>1. /\ SameFrames(cl, client[c]) /\ cl.since = client[c].since /\ cl.next = client[c].next
          /\ client[c].state \in {"gate", "max", "bound"} /\ cl.state \in {"max", "bound", "read"}
          /\ cl.state = "read" => cl.bound = Smaller(client[c].ceiling, liveMark)
      BY <1>1, <1>3, <2>2 DEF RowsShape
    <3>2. LifeDone(cl) = LifeDone(client[c]) /\ ActionDone(cl) = ActionDone(client[c])
      BY <3>1 DEF LifeDone, ActionDone
    <3>3. ReplayInv(cl)
      <4>1. client[c].ceiling \in Int
        BY <1>1, ClientFields
      <4> QED
        BY <1>1, <3>1, <4>1 DEF ReplayInv, SameFrames, Smaller
    <3> QED
      BY <1>1, <3>1, <3>2, <3>3, PlaceOnce DEF SubscribedStates, Stages
  <2> QED
    BY <2>1, <2>2
<1> QED
  BY <1>2, <1>3, <1>4, ClientOnce

\* Of the rows it reads, their indexes.
LEMMA RowsSince ==
  ASSUME ChainTyped, NEW from \in Int, NEW limit \in Nat, NEW bound \in Int,
         NEW n \in DOMAIN ActionsSince(from, limit, bound)
  PROVE  /\ ActionsSince(from, limit, bound)[n].index = Larger(from, 0) + n
         /\ Larger(from, 0) + n <= bound
         /\ Larger(from, 0) + n \in Int
<1> DEFINE low == Larger(from, 0)
           last == Smaller(Smaller(low + limit, bound), MaxAction)
           size == IF low < last THEN last - low ELSE 0
           row(m) == [index |-> low + m, height |-> HeightOf(low + m), hash |-> HashOf(low + m)]
<1>1. ActionsSince(from, limit, bound)[n].index = low + n
  <2>1. ActionsSince(from, limit, bound) = [m \in 1..size |-> row(m)]
    BY DEF ActionsSince
  <2> HIDE DEF size
  <2>2. ActionsSince(from, limit, bound)[n] = row(n)
    BY <2>1
  <2> QED
    BY <2>2
<1>2. \A rows : rows = ActionsSince(from, limit, bound) =>
        \A m \in DOMAIN rows : Larger(from, 0) + m <= bound
  BY ActionsSinceAre
<1>3. \A rows : rows = ActionsSince(from, limit, bound) =>
        \A m \in DOMAIN rows : Larger(from, 0) + m \in 1..MaxAction
  BY ActionsSinceAre, ZenonT(60)
<1>4. MaxAction \in Int
  BY ChainIs
<1> QED
  BY <1>1, <1>2, <1>3, <1>4

LEMMA ReadRowsOnce ==
  ASSUME FeedInv, NEW c \in Clients, ReadRows(c)
  PROVE  CursorInv' /\ OnceInv'
<1>1. FeedTyped /\ ChainTyped /\ client[c] \in ClientRecords /\ RowsShape(client[c])
      /\ ClientInv(c, client[c], liveMark, poll.pc, joined)
  BY TypeFrame DEF FeedInv, OnceInv, ClientTyped
<1>2. UNCHANGED <<feedVars, reader, joined>>
  BY DEF ReadRows
<1>3. PICK cl \in ClientRecords :
        /\ RowsShape(cl) /\ Goes(c, cl)
        /\ client[c].state = "read" /\ cl.state = "replay" /\ cl.next = 1
        /\ SameFrames(cl, client[c]) /\ cl.since = client[c].since
        /\ cl.rows = ActionsSince(client[c].since, ReplayLimit, client[c].bound)
  BY <1>1, ReadRowsIs
<1>4. ReplayInv(cl)
  <2>1. /\ client[c].since \in Int /\ client[c].bound \in Int /\ client[c].ceiling \in Int
        /\ ReplayLimit \in Nat
    BY <1>1, ClientFields
  <2>2. \A n \in DOMAIN cl.rows : /\ cl.rows[n].index = Larger(client[c].since, 0) + n
                                  /\ Larger(client[c].since, 0) + n <= client[c].bound
                                  /\ Larger(client[c].since, 0) + n \in Int
    BY <1>1, <1>3, <2>1, RowsSince
  <2>3. client[c].bound <= client[c].ceiling
    BY <1>1, <1>3 DEF ClientInv, ReplayInv
  <2>4. \A n \in DOMAIN cl.rows : cl.rows[n].index <= client[c].ceiling
    BY <2>1, <2>2, <2>3
  <2> QED
    BY <1>3, <2>2, <2>4 DEF ReplayInv, SameFrames
<1>5. LifeDone(cl) = LifeDone(client[c]) /\ ActionDone(cl) = ActionDone(client[c])
  BY <1>1, <1>3 DEF LifeDone, ActionDone, RowsShape
<1>6. ClientInv(c, cl, liveMark, poll.pc, joined)
  BY <1>1, <1>3, <1>4, <1>5, PlaceOnce DEF SubscribedStates, Stages
<1> QED
  BY <1>2, <1>3, <1>6, ClientOnce

LEMMA StopOnce ==
  ASSUME FeedInv, NEW c \in Clients, Stop(c) \/ ReplayFails(c)
  PROVE  CursorInv' /\ OnceInv'
<1>1. UNCHANGED <<feedVars, reader, joined>> /\ Goes(c, Resync)
  BY DEF Stop, ReplayFails
<1> QED
  BY <1>1, FreshType, ResyncOnce, ClientOnce

\* A replay that read nothing is complete, or asks again from where it is.
LEMMA ReplayNothingOnce ==
  ASSUME FeedInv, NEW c \in Clients, ReplayNothing(c)
  PROVE  CursorInv' /\ OnceInv'
<1> DEFINE cl == Completed(client[c])
<1>1. FeedTyped /\ client[c] \in ClientRecords /\ RowsShape(client[c])
      /\ ClientInv(c, client[c], liveMark, poll.pc, joined)
  BY TypeFrame DEF FeedInv, OnceInv, ClientTyped
<1>2. /\ UNCHANGED <<feedVars, reader, joined>> /\ Goes(c, cl)
      /\ client[c].state = "replay" /\ client[c].rows = <<>>
  BY DEF ReplayNothing
<1>3. /\ cl \in ClientRecords /\ RowsShape(cl) /\ SameFrames(cl, client[c]) /\ cl.next = 1
      /\ cl.state = "live" \/ (cl.state = "gate" /\ cl.since = Latest(client[c]))
  BY <1>1, CompletedIs
<1> HIDE DEF cl
<1>4. cl.state = "gate" => LifeDone(cl) = LifeDone(client[c]) /\ ActionDone(cl) = ActionDone(client[c])
  BY <1>1, <1>2, <1>3 DEF LifeDone, ActionDone, Latest, RowsShape
<1>5. ReplayInv(cl)
  BY <1>3 DEF ReplayInv
<1>6. ClientInv(c, cl, liveMark, poll.pc, joined)
  BY <1>1, <1>2, <1>3, <1>4, <1>5, PlaceOnce DEF SubscribedStates, Stages
<1> QED
  BY <1>2, <1>3, <1>6, ClientOnce DEF cl

\* A row of the replay: its NEW_ACTION is the first one of this subscription.
LEMMA ReplayRowOnce ==
  ASSUME FeedInv, NEW c \in Clients, ReplayRow(c)
  PROVE  CursorInv' /\ OnceInv'
<1> DEFINE old == client[c]
           row == old.rows[old.next]
           k == row.index
<1>1. /\ FeedTyped /\ old \in ClientRecords /\ liveMark \in Int
      /\ ClientInv(c, old, liveMark, poll.pc, joined)
  BY TypeFrame DEF FeedInv, OnceInv, ClientTyped, CursorTyped
<1>2. UNCHANGED <<feedVars, reader, joined>>
  BY DEF ReplayRow
<1>3. /\ old.state = "replay" /\ old.next \in DOMAIN old.rows /\ row \in Rows
      /\ \E cl \in ClientRecords :
           /\ RowsShape(cl) /\ Goes(c, cl) /\ cl.state = "replaylife"
           /\ cl.copies = CountAction(old, row)
           /\ cl.rolled = old.rolled /\ cl.ceiling = old.ceiling
           /\ cl.since = old.since /\ cl.rows = old.rows /\ cl.next = old.next
  BY <1>1, ReplayRowIs
<1>4. PICK cl \in ClientRecords :
        /\ RowsShape(cl) /\ Goes(c, cl) /\ cl.state = "replaylife"
        /\ cl.copies = CountAction(old, row)
        /\ cl.rolled = old.rolled /\ cl.ceiling = old.ceiling
        /\ cl.since = old.since /\ cl.rows = old.rows /\ cl.next = old.next
  BY <1>3
<1>5. /\ k \in Indexes /\ k \in Int /\ old.rolled \in Int /\ old.ceiling \in Int
      /\ old.since \in Int /\ old.next \in Nat \ {0}
      /\ \A i \in Indexes : old.copies.action[i] \in 0..2 /\ old.copies.life[i] \in 0..2
  <2>1. k \in Indexes
    BY <1>3 DEF Rows
  <2>2. /\ old.rolled \in Int /\ old.ceiling \in Int /\ old.since \in Int /\ old.next \in Nat \ {0}
        /\ old.copies \in [Parts -> [Indexes -> 0..2]]
    BY <1>1, ClientFields
  <2>3. \A i \in Indexes : old.copies.action[i] \in 0..2 /\ old.copies.life[i] \in 0..2
    BY <2>2 DEF Parts
  <2> QED
    BY <2>1, <2>2, <2>3 DEF Indexes
<1>6. /\ \A i \in Indexes \ {k}, p \in Parts : cl.copies[p][i] = old.copies[p][i]
      /\ old.copies.action[k] = 0 => cl.copies.action[k] = 1
      /\ cl.copies.life[k] \in {0, old.copies.life[k]}
  <2>1. CountAction(old, row) = cl.copies
    BY <1>4
  <2> HIDE DEF old, row
  <2> QED
    BY <1>1, <1>3, <2>1, ActionCounted DEF k
<1>7. /\ ReplayInv(old) /\ SubscriberInv(c, old, liveMark, poll.pc, joined)
      /\ k = Larger(old.since, 0) + old.next /\ k <= old.ceiling
  BY <1>1, <1>3 DEF ClientInv, ReplayInv, SubscribedStates, Stages
<1> HIDE DEF old, row, k
<1>8. Larger(old.since, 0) \in Int
  BY <1>5 DEF Larger
<1>9. LifeDone(old) = k - 1 /\ ActionDone(old) = k - 1 /\ LifeDone(cl) = k - 1 /\ ActionDone(cl) = k
  BY <1>3, <1>4, <1>5, <1>7, <1>8 DEF LifeDone, ActionDone
<1>10. ReplayInv(cl) /\ Reach(cl) = Reach(old)
  BY <1>3, <1>4, <1>7 DEF ReplayInv, Reach
<1>11. ASSUME NEW i \in Indexes, i < cl.rolled
       PROVE  CountInv(cl, i, liveMark, poll.pc)
  <2>1. CountInv(old, i, liveMark, poll.pc) /\ i \in Int
    BY <1>4, <1>7, <1>11 DEF SubscriberInv, Indexes
  <2>2. old.state \in Stages
    BY <1>3 DEF Stages
  <2>3. CASE i # k
    <3>1. cl.copies.action[i] = old.copies.action[i] /\ cl.copies.life[i] = old.copies.life[i]
      BY <1>6, <2>3 DEF Parts
    <3>2. i <= k - 1 => i <= k
      BY <1>5, <2>1
    <3> QED
      BY <1>4, <1>9, <2>1, <2>2, <3>1, <3>2 DEF CountInv
  <2>4. CASE i = k
    <3>1. ~(i <= k - 1) /\ ~(i > old.ceiling)
      BY <1>5, <1>7, <2>4
    <3>2. ~(old.copies.action[i] > 0) /\ ~(old.copies.life[i] > 0)
      BY <1>7, <1>9, <2>1, <2>2, <2>4, <3>1 DEF CountInv
    <3>3. old.copies.action[i] = 0 /\ old.copies.life[i] = 0
      BY <1>5, <3>2, NoneCounted, Zenon
    <3>4. cl.copies.action[i] = 1 /\ cl.copies.life[i] = 0
      BY <1>6, <2>4, <3>3
    <3> QED
      BY <1>4, <1>5, <1>9, <2>4, <3>1, <3>4 DEF CountInv
  <2> QED
    BY <2>3, <2>4
<1>12. ClientInv(c, cl, liveMark, poll.pc, joined)
  <2>1. SubscriberInv(c, cl, liveMark, poll.pc, joined)
    BY <1>4, <1>7, <1>10, <1>11 DEF SubscriberInv
  <2> QED
    BY <1>4, <1>10, <2>1 DEF ClientInv, SubscribedStates, Stages
<1> QED
  BY <1>2, <1>4, <1>12, ClientOnce

\* Its other frames: after the last row the replay is at that row's index.
LEMMA ReplayLifeOnce ==
  ASSUME FeedInv, NEW c \in Clients, ReplayLife(c)
  PROVE  CursorInv' /\ OnceInv'
<1> DEFINE old == client[c]
           row == old.rows[old.next]
           k == row.index
           taken == TakeLife(old, row)
<1>1. /\ FeedTyped /\ old \in ClientRecords /\ liveMark \in Int
      /\ ClientInv(c, old, liveMark, poll.pc, joined)
  BY TypeFrame DEF FeedInv, OnceInv, ClientTyped, CursorTyped
<1>2. UNCHANGED <<feedVars, reader, joined>>
  BY DEF ReplayLife
<1>3. /\ old.state = "replaylife" /\ old.next \in DOMAIN old.rows /\ row \in Rows
      /\ \E cl \in ClientRecords :
           /\ RowsShape(cl) /\ Goes(c, cl) /\ SameFrames(cl, taken)
           /\ \/ /\ old.next < Len(old.rows)
                 /\ cl.state = "replay" /\ cl.since = old.since
                 /\ cl.rows = old.rows /\ cl.next = old.next + 1
              \/ /\ old.next = Len(old.rows)
                 /\ cl.next = 1
                 /\ \/ cl.state = "live"
                    \/ cl.state = "gate" /\ cl.since = Latest(old)
  BY <1>1, ReplayLifeIs
<1>4. PICK cl \in ClientRecords :
        /\ RowsShape(cl) /\ Goes(c, cl) /\ SameFrames(cl, taken)
        /\ \/ /\ old.next < Len(old.rows)
              /\ cl.state = "replay" /\ cl.since = old.since
              /\ cl.rows = old.rows /\ cl.next = old.next + 1
           \/ /\ old.next = Len(old.rows)
              /\ cl.next = 1
              /\ \/ cl.state = "live"
                 \/ cl.state = "gate" /\ cl.since = Latest(old)
  BY <1>3
<1>5. /\ k \in Indexes /\ k \in Int /\ k >= 1 /\ old.rolled \in Int /\ old.ceiling \in Int
      /\ old.since \in Int /\ old.next \in Nat \ {0}
      /\ \A i \in Indexes : old.copies.action[i] \in 0..2 /\ old.copies.life[i] \in 0..2
  <2>1. k \in Indexes
    BY <1>3 DEF Rows
  <2>2. /\ old.rolled \in Int /\ old.ceiling \in Int /\ old.since \in Int /\ old.next \in Nat \ {0}
        /\ old.copies \in [Parts -> [Indexes -> 0..2]]
    BY <1>1, ClientFields
  <2>3. \A i \in Indexes : old.copies.action[i] \in 0..2 /\ old.copies.life[i] \in 0..2
    BY <2>2 DEF Parts
  <2> QED
    BY <2>1, <2>2, <2>3 DEF Indexes
<1>6. /\ SameReplay(taken, old) /\ taken.rolled = old.rolled
      /\ \A i \in Indexes \ {k}, p \in Parts : taken.copies[p][i] = old.copies[p][i]
      /\ taken.copies.action = old.copies.action
      /\ old.copies.life[k] = 0 => taken.copies.life[k] = 1
  <2> HIDE DEF old, row
  <2>1. SameReplay(taken, old) /\ taken.rolled = old.rolled
    BY <1>1, <1>3, LifeTaken, ZenonT(60) DEF taken
  <2>2. \A i \in Indexes \ {k}, p \in Parts : taken.copies[p][i] = old.copies[p][i]
    BY <1>1, <1>3, LifeTaken, ZenonT(60) DEF k, taken
  <2>3. taken.copies.action = old.copies.action
        /\ (old.copies.life[k] = 0 => taken.copies.life[k] = 1)
    BY <1>1, <1>3, LifeTaken, ZenonT(60) DEF k, taken
  <2> QED
    BY <2>1, <2>2, <2>3
<1>7. /\ cl.copies = taken.copies /\ cl.rolled = old.rolled /\ cl.ceiling = old.ceiling
  BY <1>4, <1>6, ZenonT(60) DEF SameFrames, SameReplay
<1>8. /\ ReplayInv(old) /\ SubscriberInv(c, old, liveMark, poll.pc, joined)
      /\ k = Larger(old.since, 0) + old.next /\ k <= old.ceiling
  BY <1>1, <1>3 DEF ClientInv, ReplayInv, SubscribedStates, Stages
<1>9. old.next = Len(old.rows) => Latest(old) = k
  BY <1>3, <1>5 DEF Latest
<1> HIDE DEF old, row, k, taken
<1>10. Larger(old.since, 0) \in Int
  BY <1>5 DEF Larger
<1>11. LifeDone(old) = k - 1 /\ ActionDone(old) = k
  BY <1>3, <1>5, <1>8, <1>10 DEF LifeDone, ActionDone
<1>12. cl.state \in {"replay", "gate"} => LifeDone(cl) = k /\ ActionDone(cl) = k
  <2>1. CASE cl.state = "replay"
    BY <1>4, <1>5, <1>8, <1>10, <2>1 DEF LifeDone, ActionDone
  <2>2. CASE cl.state = "gate"
    <3>1. cl.since = k /\ cl.next = 1
      BY <1>4, <1>9, <2>2
    <3>2. Larger(k, 0) = k
      BY <1>5 DEF Larger
    <3> QED
      BY <1>5, <2>2, <3>1, <3>2 DEF LifeDone, ActionDone
  <2> QED
    BY <2>1, <2>2
<1>13. ReplayInv(cl) /\ Reach(cl) = Reach(old)
  <2>1. CASE cl.state = "replay"
    BY <1>3, <1>4, <1>7, <1>8, <2>1 DEF ReplayInv, Reach
  <2>2. CASE cl.state \in {"live", "gate"}
    BY <1>7, <2>2 DEF ReplayInv, Reach
  <2> QED
    BY <1>4, <2>1, <2>2
<1>14. ASSUME NEW i \in Indexes, i < cl.rolled
       PROVE  CountInv(cl, i, liveMark, poll.pc)
  <2>1. CountInv(old, i, liveMark, poll.pc) /\ i \in Int /\ i < old.rolled
    BY <1>7, <1>8, <1>14 DEF SubscriberInv, Indexes
  <2>2. old.state \in Stages
    BY <1>3 DEF Stages
  <2>3. cl.state \in Stages => LifeDone(cl) = k /\ ActionDone(cl) = k
    BY <1>4, <1>12 DEF Stages
  <2>4. cl.copies.action[i] = old.copies.action[i]
    BY <1>6, <1>7
  <2>5. CASE i # k
    <3>1. cl.copies.life[i] = old.copies.life[i]
      BY <1>6, <1>7, <2>5 DEF Parts
    <3>2. i <= k - 1 => i <= k
      BY <1>5, <2>1
    <3> QED
      BY <1>7, <1>11, <2>1, <2>2, <2>3, <2>4, <3>1, <3>2 DEF CountInv
  <2>6. CASE i = k
    <3>1. ~(i <= k - 1) /\ ~(i > old.ceiling) /\ i <= old.ceiling
      BY <1>5, <1>8, <2>6
    <3>2. ~(old.copies.life[i] > 0)
      BY <1>11, <2>1, <2>2, <3>1 DEF CountInv
    <3>3. old.copies.life[i] = 0
      BY <1>5, <3>2, NoneCounted, Zenon
    <3>4. cl.copies.life[i] = 1
      BY <1>6, <1>7, <2>6, <3>3
    <3> QED
      BY <1>5, <1>7, <2>1, <2>3, <2>4, <2>6, <3>1, <3>4 DEF CountInv
  <2> QED
    BY <2>5, <2>6
<1>15. c \in joined => cl.ceiling = liveMark
  BY <1>7, <1>8 DEF SubscriberInv
<1>16. ClientInv(c, cl, liveMark, poll.pc, joined)
  <2>1. SubscriberInv(c, cl, liveMark, poll.pc, joined)
    BY <1>8, <1>13, <1>14, <1>15 DEF SubscriberInv
  <2> QED
    BY <1>4, <1>13, <2>1 DEF ClientInv, SubscribedStates, Stages
<1> QED
  BY <1>2, <1>4, <1>16, ClientOnce

\* The socket closes: the count of the next subscription starts anew.
LEMMA DropOnce ==
  ASSUME FeedInv, NEW c \in Clients, Drop(c)
  PROVE  CursorInv' /\ OnceInv'
<1>1. PICK cl \in ClientRecords :
        /\ RowsShape(cl) /\ Goes(c, cl) /\ cl.state = "away" /\ cl.copies = NoCopies
        /\ cl.rolled = MaxActions + 1
  BY DropIs DEF FeedInv
<1>2. UNCHANGED <<feedVars, reader>> /\ joined' = joined \ {c}
  BY DEF Drop
<1>3. ClientInv(c, cl, liveMark, poll.pc, joined')
  BY <1>1 DEF ClientInv, ReplayInv, SubscribedStates, Stages
<1> QED
  BY <1>1, <1>2, <1>3, ClientOnce

\* A client that goes live: its ceiling is the mark, and in mid-row it is among
\* those left out of the rest of the row.
LEMMA GoesLiveOnce ==
  ASSUME FeedInv, NEW c \in Clients, NEW cl \in ClientRecords, RowsShape(cl),
         cl.state \in {"gate", "live"}, cl.copies = NoCopies, GoesLive(c, cl)
  PROVE  CursorInv' /\ OnceInv'
<1> DEFINE live == [cl EXCEPT !.ceiling = liveMark]
<1>1. FeedTyped /\ CursorInv /\ OnceInv /\ liveMark \in Int /\ cl.rolled \in Int
  BY TypeFrame, ClientFields DEF FeedInv, CursorTyped
<1>2. client'[c] = live /\ \A o \in Clients \ {c} : client'[o] = client[o]
  BY <1>1, GoesLiveTyped
<1>3. /\ poll' = poll /\ actionIndex' = actionIndex /\ liveMark' = liveMark /\ seeded' = seeded
      /\ joined' = IF poll.pc = "life" THEN joined \cup {c} ELSE joined
  BY DEF GoesLive, poll, feedVars, cursorVars
<1>4. CursorInv'
  BY <1>1, <1>3, CursorFrame
<1>5. /\ live.state = cl.state /\ live.copies = NoCopies /\ live.rolled = cl.rolled
      /\ live.ceiling = liveMark
  BY RecordsAre
<1> HIDE DEF live
<1>6. \A i \in Indexes : live.copies.action[i] = 0 /\ live.copies.life[i] = 0
  BY <1>5, NoCopiesAre DEF Parts
<1>7. \A i \in Indexes : CountInv(live, i, liveMark, poll.pc)
  BY <1>6 DEF CountInv
<1>8. Reach(live) <= liveMark
  BY <1>1, <1>5 DEF Reach, Smaller
<1>9. poll.pc = "life" => c \in joined'
  BY <1>3
<1>10. ClientInv(c, live, liveMark, poll.pc, joined')
  BY <1>5, <1>7, <1>8, <1>9 DEF ClientInv, SubscriberInv, ReplayInv, SubscribedStates, Stages
<1>11. \A o \in Clients \ {c} : o \in joined' <=> o \in joined
  BY <1>3
<1>12. OnceInv'
  BY <1>1, <1>2, <1>3, <1>10, <1>11, OneClient
<1> QED
  BY <1>4, <1>12

LEMMA ConnectOnce ==
  ASSUME FeedInv, NEW c \in Clients, Open(c) \/ Reconnect(c)
  PROVE  CursorInv' /\ OnceInv'
<1>1. FeedTyped /\ ClientInv(c, client[c], liveMark, poll.pc, joined)
  BY DEF FeedInv, OnceInv
<1>2. CASE Open(c)
  BY <1>1, <1>2, OpenIs, GoesLiveOnce
<1>3. CASE Reconnect(c)
  <2>1. PICK cl \in ClientRecords :
          /\ cl.state \in {"gate", "live"} /\ cl.copies = client[c].copies /\ RowsShape(cl)
          /\ GoesLive(c, cl) /\ client[c].state = "away"
    BY <1>1, <1>3, ReconnectIs
  <2>2. client[c].copies = NoCopies
    BY <1>1, <2>1 DEF ClientInv, SubscribedStates, Stages
  <2> QED
    BY <2>1, <2>2, GoesLiveOnce
<1> QED
  BY <1>2, <1>3

-----------------------------------------------------------------------------
(* No frame twice.                                                         *)

LEMMA SeededKept ==
  ASSUME FeedInv, Next
  PROVE  SeededInv'
<1>1. FeedTyped /\ CursorInv /\ SeededInv /\ seeded \in BOOLEAN
  BY TypeFrame DEF FeedInv, CursorTyped
<1>2. ASSUME NEW r \in Readers, TipStep(r)
      PROVE  client' = client /\ (seeded => seeded')
  BY <1>1, <1>2, TipMoves
<1>3. CASE IndexerStep \/ StartPoll \/ StartSeed \/ SeedLate \/ \E r \in Readers : PassFails(r)
  <2>1. client' = client /\ seeded' = seeded
    BY <1>3 DEF IndexerStep, Extend, RollBack, ChainMoves, StartPoll, StartSeed, SeedLate,
                PassFails, feedVars
  <2> QED
    BY <1>1, <2>1 DEF SeededInv, Subscribed
<1>4. CASE \E r \in Readers : TipStep(r)
  BY <1>1, <1>2, <1>4 DEF SeededInv, Subscribed
<1>5. CASE FeedStep
  <2>1. CASE ReadFork \/ ReadBlocks \/ ReadActions \/ NoActions \/ NothingFetched
    <3>1. client' = client /\ seeded' = seeded
      BY <2>1 DEF ReadFork, ReadBlocks, ReadActions, NoActions, NothingFetched, feedVars
    <3> QED
      BY <1>1, <3>1 DEF SeededInv, Subscribed
  <2>2. CASE Rewind \/ SendAction \/ SendLife
    <3>1. poll.pc \in {"rewind", "rows", "life"} /\ seeded' = seeded
      BY <2>2 DEF Rewind, SendAction, SendLife
    <3> QED
      BY <1>1, <3>1 DEF SeededInv, CursorInv, PollSeeded
  <2> QED
    BY <1>5, <2>1, <2>2 DEF FeedStep
<1>6. ASSUME NEW c \in Clients, Open(c) \/ Reconnect(c)
      PROVE  SeededInv'
  <2>1. seeded /\ seeded' = seeded
    BY <1>6 DEF Open, Reconnect, GoesLive, feedVars
  <2> QED
    BY <2>1 DEF SeededInv
<1>7. ASSUME NEW c \in Clients, ReplayStep(c) \/ ReplayFails(c) \/ Drop(c)
      PROVE  SeededInv'
  <2>1. c \in Subscribed /\ seeded' = seeded
    <3>1. CASE ReplayStep(c)
      BY <3>1 DEF ReplayStep, Gate, ReadMax, Bound, ReadRows, Stop, ReplayNothing, ReplayRow,
                  ReplayLife, Subscribed, Stages, feedVars
    <3>2. CASE ReplayFails(c) \/ Drop(c)
      BY <3>2 DEF ReplayFails, Drop, Subscribed, Stages, feedVars
    <3> QED
      BY <1>7, <3>1, <3>2, SMTT(60)
  <2> QED
    BY <1>1, <2>1 DEF SeededInv
<1> QED
  BY <1>3, <1>4, <1>5, <1>6, <1>7 DEF Next, PassStep, SeedStep, Readers

LEMMA InitOnce == Init => FeedInv
<1> SUFFICES ASSUME Init PROVE FeedInv
  OBVIOUS
<1>1. FeedTyped
  BY InitTyped
<1>2. /\ reader = [r \in Readers |-> IdlePass] /\ actionIndex = 0 /\ liveMark = 0
      /\ joined = {} /\ client = [c \in Clients |-> Fresh]
  BY DEF Init
<1>3. poll.pc = "idle"
  BY <1>2 DEF poll, Readers, IdlePass
<1>4. CursorInv
  BY <1>2, <1>3 DEF CursorInv, RowsRun, MarkInv, PollSeeded, JoinedInv
<1>5. Fresh.state = "new" /\ Fresh.copies = NoCopies
  BY DEF Fresh
<1>6. SeededInv
  BY <1>2, <1>5 DEF SeededInv, Subscribed, Stages
<1>7. OnceInv
  BY <1>2, <1>5 DEF OnceInv, ClientInv, ReplayInv, SubscribedStates, Stages
<1> QED
  BY <1>1, <1>4, <1>6, <1>7 DEF FeedInv

LEMMA NextOnce == FeedInv /\ [Next]_vars => FeedInv'
<1> SUFFICES ASSUME FeedInv, [Next]_vars PROVE FeedInv'
  OBVIOUS
<1>1. FeedTyped'
  BY NextTyped DEF FeedInv
<1>2. CASE Next
  <2>1. CursorInv' /\ OnceInv'
    <3>1. CASE IndexerStep \/ StartPoll \/ StartSeed \/ SeedLate \/ \E r \in Readers : PassFails(r)
      BY <3>1, AsideOnce
    <3>2. CASE \E r \in Readers : TipStep(r)
      BY <3>2, TipOnce
    <3>3. CASE FeedStep
      BY <3>3, FetchOnce, RewindOnce, SendActionOnce, SendLifeOnce, NothingFetchedOnce DEF FeedStep
    <3>4. CASE \E c \in Clients : \/ Open(c) \/ Reconnect(c) \/ ReplayStep(c)
                                 \/ ReplayFails(c) \/ Drop(c)
      BY <3>4, ConnectOnce, GateOnce, ReadRowsOnce, StopOnce, ReplayNothingOnce, ReplayRowOnce,
         ReplayLifeOnce, DropOnce DEF ReplayStep
    <3> QED
      BY <1>2, <3>1, <3>2, <3>3, <3>4 DEF Next, PassStep, SeedStep, Readers
  <2>2. SeededInv'
    BY <1>2, SeededKept
  <2> QED
    BY <1>1, <2>1, <2>2 DEF FeedInv
<1>3. CASE UNCHANGED vars
  <2>1. /\ poll' = poll /\ actionIndex' = actionIndex /\ liveMark' = liveMark
        /\ seeded' = seeded /\ joined' = joined /\ client' = client
    BY <1>3 DEF vars, poll, feedVars, cursorVars
  <2>2. CursorInv' /\ OnceInv'
    BY <2>1, CursorFrame, OnceFrame DEF FeedInv
  <2>3. SeededInv'
    BY <2>1 DEF FeedInv, SeededInv, Subscribed
  <2> QED
    BY <1>1, <2>2, <2>3 DEF FeedInv
<1> QED
  BY <1>2, <1>3

\* Between replay and live feed a subscription brings no frame of a row twice,
\* except where a rollback announced since it went live reached below its
\* ceiling: whatever the depth of the logs and the limits of polls and replays,
\* and even where the chain outruns the tips a poll has read.
THEOREM NoFrameTwice == Spec => []NoRepeat
<1>1. Spec => []FeedInv
  BY InitOnce, NextOnce, PTL DEF Spec
<1> QED
  BY <1>1, OnceIsNoRepeat, PTL

-----------------------------------------------------------------------------
(* The cursors follow the chain, where it does not outrun the tips that a  *)
(* running poll has read and stands still while a late seed pass runs.     *)

ChainTip == [index |-> MaxBlock, hash |-> chain[MaxBlock].hash]
OnChain(t) == t.index \in 1..MaxBlock /\ chain[t.index].hash = t.hash

\* Hashes are used up one by one, and the last action rises with the height.
ChainInv ==
  /\ \A h \in 1..MaxBlock : chain[h].hash <= minted
  /\ \A h, k \in 0..MaxBlock : h <= k => Top(h) <= Top(k)
TipInv == lastTip.hash <= minted /\ (seeded => lastTip.index # 0)

\* While the chain stands still, what the passes have read is the chain.
Standing == ~seeded \/ reader["seed"].pc \notin {"idle", "history"}
HasRead(pass) ==
  /\ pass.pc \in {"idle", "tip", "block", "action", "tips", "history"}
  /\ pass.pc \in {"block", "action", "tips"} => lastTip = ChainTip
  /\ pass.pc \in {"action", "tips"} => pass.block = MaxBlock
  /\ pass.pc = "tips" => pass.action = MaxAction
  /\ pass.pc = "history" => seeded
CursorsAtTip ==
  IF seeded THEN lastTip = ChainTip /\ blockIndex = MaxBlock /\ actionIndex = MaxAction
  ELSE blockIndex = 0 /\ actionIndex = 0 /\ \A h \in Heights : history[h].hash = 0
StandingInv ==
  Standing => /\ ~pendingReorg
              /\ lastTip \in {NoTip, ChainTip}
              /\ CursorsAtTip
              /\ \A r \in Readers : HasRead(reader[r])

\* A block of the history that was replaced: the verdict of the reorg check is
\* there, or will be, for the block at the last tip was replaced too.
Stale(h) ==
  /\ h <= blockIndex /\ history[h].hash # 0
  /\ h > MaxBlock \/ chain[h].hash # history[h].hash
StaleNoted == \A h \in Heights : Stale(h) => pendingReorg \/ ~OnChain(lastTip)

\* While the last tip is on the chain the cursors are not above it.
CursorsWithin ==
  ~pendingReorg /\ OnChain(lastTip) =>
    blockIndex <= lastTip.index /\ actionIndex <= Top(lastTip.index)

\* The poll reads no further than the tip it has checked.
TipsRead == {"tips", "rewind", "fetch", "acts"}
PollInv ==
  /\ poll.pc = "probe" =>
       /\ poll.was = lastTip /\ poll.tip.index > lastTip.index
       /\ MaxBlock <= poll.tip.index /\ poll.tip.hash <= minted
  /\ poll.pc \in {"block", "action"} \cup TipsRead => MaxBlock <= lastTip.index
  /\ poll.pc \in {"action"} \cup TipsRead => poll.block <= lastTip.index
  /\ poll.pc \in TipsRead => (OnChain(lastTip) => poll.action <= Top(lastTip.index))
  /\ poll.pc = "rewind" =>
       \A h \in Heights : Stale(h) /\ (poll.fork = 0 \/ h < poll.fork) => ~OnChain(lastTip)
  /\ poll.pc \in {"rows", "life"} =>
       \A n \in DOMAIN poll.rows : OnChain(lastTip) => poll.rows[n].index <= Top(lastTip.index)

\* A chain that has stood still since the pass began is the one it has read.
QuietInv ==
  quiet => IF poll.pc = "probe" THEN poll.tip = ChainTip
           ELSE poll.pc # "tip" => lastTip = ChainTip

FollowInv ==
  /\ ChainInv /\ TipInv /\ StandingInv /\ StaleNoted /\ CursorsWithin /\ PollInv /\ QuietInv

LEMMA FollowTypes ==
  ASSUME FeedTyped
  PROVE  /\ MaxBlock \in Nat \ {0} /\ MaxBlock \in Heights /\ minted \in Nat
         /\ MaxAction = Top(MaxBlock) /\ MaxAction \in Nat
         /\ \A h \in 0..MaxBlock : Top(h) \in Nat
         /\ \A h \in 1..MaxBlock : h \in Heights /\ chain[h].hash \in Nat \ {0}
         /\ lastTip \in Tips /\ lastTip.index \in Nat /\ lastTip.hash \in Nat
         /\ blockIndex \in Nat /\ actionIndex \in Int
         /\ pendingReorg \in BOOLEAN /\ seeded \in BOOLEAN /\ quiet \in BOOLEAN
         /\ \A h \in Heights : h \in Nat /\ h # 0 /\ history[h].hash \in Nat
<1>1. ChainTyped /\ CursorTyped /\ quiet \in BOOLEAN
  BY DEF FeedTyped
<1>2. /\ MaxBlock \in 1..MaxBlocks /\ MaxAction \in 0..MaxActions
      /\ \A h \in 1..MaxBlock : /\ h \in Heights /\ chain[h].hash \in 1..MaxMinted
                                /\ Top(h) \in 0..MaxActions
  BY <1>1, ChainIs
<1>3. Top(0) = 0
  BY DEF Top
<1>4. /\ lastTip \in Tips /\ blockIndex \in 0..MaxBlocks /\ actionIndex \in Int
      /\ pendingReorg \in BOOLEAN /\ seeded \in BOOLEAN /\ history \in Histories
      /\ minted \in Nat
  BY <1>1 DEF CursorTyped, ChainTyped
<1>5. lastTip.index \in Nat /\ lastTip.hash \in Nat
  BY <1>4 DEF Tips
<1>6. \A h \in Heights : h \in Nat /\ h # 0 /\ history[h].hash \in Nat
  BY <1>4 DEF Histories, Heights
<1>7. \A h \in 0..MaxBlock : Top(h) \in Nat
  BY <1>2, <1>3
<1>8. MaxBlock \in Nat \ {0} /\ MaxBlock \in Heights /\ MaxAction = Top(MaxBlock)
  BY <1>2 DEF MaxAction
<1> QED
  BY <1>1, <1>2, <1>4, <1>5, <1>6, <1>7, <1>8

LEMMA TipIs ==
  ASSUME FeedTyped
  PROVE  /\ ChainTip.index = MaxBlock /\ ChainTip.hash = chain[MaxBlock].hash
         /\ OnChain(ChainTip) /\ ChainTip # NoTip
         /\ ~(NoTip.index \in 1..MaxBlock) /\ ~OnChain(NoTip)
<1>1. ChainTip.index = MaxBlock /\ ChainTip.hash = chain[MaxBlock].hash /\ NoTip.index = 0
  BY DEF ChainTip, NoTip
<1>2. MaxBlock \in Nat \ {0}
  BY FollowTypes
<1> QED
  BY <1>1, <1>2 DEF OnChain

\* One reader goes on, the other stays.
LEMMA PollReads ==
  ASSUME ReaderTyped, NEW pass, Reads("poll", pass)
  PROVE  poll' = pass /\ reader'["poll"] = pass /\ reader'["seed"] = reader["seed"]
BY DEF Reads, ReaderTyped, Readers, poll

LEMMA SeedReads ==
  ASSUME ReaderTyped, NEW pass, Reads("seed", pass)
  PROVE  poll' = poll /\ reader'["poll"] = reader["poll"] /\ reader'["seed"] = pass
BY DEF Reads, ReaderTyped, Readers, poll

\* A step that keeps the chain, the tip, the cursors and the history.
LEMMA TipFrame ==
  ASSUME FollowInv,
         UNCHANGED <<chain, minted, seeded, lastTip, pendingReorg, blockIndex, actionIndex, history>>
  PROVE  ChainInv' /\ TipInv' /\ StaleNoted' /\ CursorsWithin'
<1>1. ChainInv' /\ TipInv'
  BY DEF FollowInv, ChainInv, TipInv, MaxBlock, Top
<1>2. StaleNoted'
  BY DEF FollowInv, StaleNoted, Stale, OnChain, MaxBlock
<1>3. CursorsWithin'
  BY DEF FollowInv, CursorsWithin, OnChain, MaxBlock, Top
<1> QED
  BY <1>1, <1>2, <1>3

LEMMA FollowFrame ==
  ASSUME FollowInv,
         UNCHANGED <<chain, minted, seeded, lastTip, pendingReorg, blockIndex, actionIndex,
                     history, reader, quiet>>
  PROVE  FollowInv'
<1>1. ChainInv' /\ TipInv' /\ StaleNoted' /\ CursorsWithin'
  BY TipFrame
<1>2. MaxBlock' = MaxBlock /\ MaxAction' = MaxAction /\ ChainTip' = ChainTip /\ poll' = poll
  BY DEF MaxBlock, MaxAction, Top, ChainTip, poll
<1>3. StandingInv'
  BY <1>2 DEF FollowInv, StandingInv, Standing, HasRead, CursorsAtTip
<1>4. OnChain(lastTip)' <=> OnChain(lastTip)
  BY <1>2 DEF OnChain
<1>5. Top(lastTip.index)' = Top(lastTip.index)
  BY DEF Top
<1>6. \A h \in Heights : Stale(h)' <=> Stale(h)
  BY <1>2 DEF Stale
<1>7. PollInv'
  BY <1>2, <1>4, <1>5, <1>6 DEF FollowInv, PollInv
<1>8. QuietInv'
  BY <1>2 DEF FollowInv, QuietInv
<1> QED
  BY <1>1, <1>3, <1>7, <1>8 DEF FollowInv

-----------------------------------------------------------------------------
(* The indexer.                                                            *)

\* What a step of the indexer does to the chain.
LEMMA ChainAfter ==
  ASSUME FeedTyped, IndexerStep
  PROVE  /\ \/ /\ MaxBlock' = MaxBlock + 1 /\ minted' = minted + 1 /\ MayOutrun
               /\ \A h \in 1..MaxBlock : chain'[h] = chain[h]
               /\ chain'[MaxBlock + 1].hash = minted + 1
               /\ chain'[MaxBlock + 1].top \in Nat /\ MaxAction <= chain'[MaxBlock + 1].top
            \/ /\ MaxBlock' \in 1..(MaxBlock - 1) /\ minted' = minted
               /\ \A h \in 1..MaxBlock' : chain'[h] = chain[h]
         /\ seeded /\ (SeedOverlaps \/ reader["seed"].pc \in {"idle", "history"})
         /\ UNCHANGED <<feedVars, reader>> /\ ~quiet'
<1>1. /\ MaxBlock \in Nat \ {0} /\ MaxAction \in Nat /\ minted \in Nat
      /\ chain \in Seq(Blocks) /\ MaxBlock = Len(chain)
  BY FollowTypes DEF FeedTyped, ChainTyped, MaxBlock
<1>2. ASSUME NEW n \in 0..MaxActions, Extend(n)
      PROVE  /\ MaxBlock' = MaxBlock + 1 /\ minted' = minted + 1 /\ MayOutrun
             /\ \A h \in 1..MaxBlock : chain'[h] = chain[h]
             /\ chain'[MaxBlock + 1].hash = minted + 1
             /\ chain'[MaxBlock + 1].top \in Nat /\ MaxAction <= chain'[MaxBlock + 1].top
             /\ ChainMoves
  <2> DEFINE block == [hash |-> minted + 1, top |-> MaxAction + n]
  <2>1. /\ chain' = Append(chain, block) /\ minted' = minted + 1 /\ MayOutrun /\ ChainMoves
        /\ minted < MaxMinted /\ MaxAction + n <= MaxActions
    BY <1>2 DEF Extend
  <2>2. block.hash = minted + 1 /\ block.top = MaxAction + n
    OBVIOUS
  <2>3. block \in Blocks
    <3>1. minted + 1 \in 1..MaxMinted /\ MaxAction + n \in 0..MaxActions
      BY <1>1, <2>1
    <3> QED
      BY <3>1 DEF Blocks
  <2> HIDE DEF block
  <2>4. /\ Len(chain') = Len(chain) + 1 /\ chain'[Len(chain) + 1] = block
        /\ \A h \in 1..Len(chain) : chain'[h] = chain[h]
    BY <1>1, <2>1, <2>3
  <2> QED
    BY <1>1, <2>1, <2>2, <2>4 DEF MaxBlock
<1>3. ASSUME NEW h \in Heights, RollBack(h)
      PROVE  /\ MaxBlock' \in 1..(MaxBlock - 1) /\ minted' = minted
             /\ \A k \in 1..MaxBlock' : chain'[k] = chain[k]
             /\ ChainMoves
  <2>1. h < Len(chain) /\ chain' = SubSeq(chain, 1, h) /\ minted' = minted /\ ChainMoves
    BY <1>3 DEF RollBack, MaxBlock
  <2>2. Len(chain') = h /\ \A k \in 1..h : chain'[k] = chain[k]
    BY <1>1, <2>1 DEF Heights
  <2> QED
    BY <1>1, <2>1, <2>2 DEF MaxBlock, Heights
<1>4. ChainMoves
  BY <1>2, <1>3 DEF IndexerStep
<1>5. /\ seeded /\ (SeedOverlaps \/ reader["seed"].pc \in {"idle", "history"})
      /\ UNCHANGED <<feedVars, reader>> /\ ~quiet'
  BY <1>4 DEF ChainMoves
<1> QED
  BY <1>2, <1>3, <1>5 DEF IndexerStep

\* A tip that is on the chain afterwards was before, with all below it: what
\* left the chain does not return, for its hash is not used again.
LEMMA BelowStays ==
  ASSUME FeedTyped, ChainInv, IndexerStep,
         NEW t, t.index \in Nat, t.hash \in Nat, t.hash <= minted, OnChain(t)'
  PROVE  /\ OnChain(t)
         /\ \A h \in 1..t.index : h <= MaxBlock /\ h <= MaxBlock' /\ chain'[h] = chain[h]
         /\ Top(t.index)' = Top(t.index)
<1>1. t.index \in 1..MaxBlock' /\ chain'[t.index].hash = t.hash
  BY DEF OnChain
<1>2. MaxBlock \in Nat /\ minted \in Nat
  BY FollowTypes
<1>3. t.index <= MaxBlock /\ \A h \in 1..t.index : chain'[h] = chain[h]
  <2>1. CASE /\ MaxBlock' = MaxBlock + 1
             /\ \A h \in 1..MaxBlock : chain'[h] = chain[h]
             /\ chain'[MaxBlock + 1].hash = minted + 1
    <3>1. t.index # MaxBlock + 1
      BY <1>1, <1>2, <2>1
    <3> QED
      BY <1>1, <1>2, <2>1, <3>1
  <2>2. CASE MaxBlock' \in 1..(MaxBlock - 1) /\ \A h \in 1..MaxBlock' : chain'[h] = chain[h]
    BY <1>1, <1>2, <2>2
  <2> QED
    BY <2>1, <2>2, ChainAfter
<1>4. OnChain(t) /\ \A h \in 1..t.index : h <= MaxBlock /\ h <= MaxBlock'
  <2>1. MaxBlock' \in Nat
    BY <1>2, ChainAfter
  <2> QED
    BY <1>1, <1>2, <1>3, <2>1 DEF OnChain
<1>5. Top(t.index)' = Top(t.index)
  BY <1>1, <1>3 DEF Top
<1> QED
  BY <1>3, <1>4, <1>5

LEMMA IndexerFollows ==
  ASSUME FeedTyped, FollowInv, IndexerStep, ~OutrunsTip, ~SeedOverlaps
  PROVE  FollowInv'
<1> DEFINE tip == lastTip
<1>1. /\ ChainInv /\ TipInv /\ StaleNoted /\ CursorsWithin /\ PollInv
      /\ ChainInv /\ tip.index \in Nat /\ tip.hash \in Nat /\ tip.hash <= minted
  BY FollowTypes DEF FollowInv, TipInv
<1>2. /\ UNCHANGED <<seeded, lastTip, pendingReorg, blockIndex, actionIndex, history, reader>>
      /\ poll' = poll /\ ~quiet'
  BY ChainAfter DEF feedVars, cursorVars, poll
<1>3. MaxBlock \in Nat \ {0} /\ MaxAction \in Nat /\ minted \in Nat /\ MaxBlock' \in Nat
      /\ minted' \in Nat /\ minted <= minted'
  BY FollowTypes, ChainAfter
<1>4. OnChain(tip)' => /\ OnChain(tip) /\ Top(tip.index)' = Top(tip.index)
                       /\ \A h \in 1..tip.index : h <= MaxBlock' /\ chain'[h] = chain[h]
  <2>1. PICK t : t = tip
    OBVIOUS
  <2>2. t = tip' /\ t.index \in Nat /\ t.hash \in Nat /\ t.hash <= minted
    BY <1>1, <1>2, <2>1
  <2>3. OnChain(t)' => /\ OnChain(t) /\ Top(t.index)' = Top(t.index)
                       /\ \A h \in 1..t.index : h <= MaxBlock' /\ chain'[h] = chain[h]
    BY <1>1, <2>2, BelowStays
  <2> HIDE DEF tip
  <2> QED
    BY <2>1, <2>2, <2>3
<1>5. ChainInv'
  <2>1. \A h \in 1..MaxBlock : chain[h].hash <= minted /\ chain[h].hash \in Nat
    BY <1>1, FollowTypes DEF ChainInv
  <2>2. \A h, k \in 0..MaxBlock : h <= k => Top(h) <= Top(k)
    BY <1>1 DEF ChainInv
  <2>3. \A h \in 0..MaxBlock : Top(h) \in Nat
    BY FollowTypes
  <2>4. CASE /\ MaxBlock' = MaxBlock + 1 /\ minted' = minted + 1
             /\ \A h \in 1..MaxBlock : chain'[h] = chain[h]
             /\ chain'[MaxBlock + 1].hash = minted + 1
             /\ chain'[MaxBlock + 1].top \in Nat /\ MaxAction <= chain'[MaxBlock + 1].top
    <3>1. \A h \in 1..MaxBlock' : chain'[h].hash <= minted'
      BY <1>3, <2>1, <2>4
    <3>2. \A h \in 0..MaxBlock : Top(h)' = Top(h)
      BY <2>4 DEF Top
    <3> PICK new \in Nat : new = MaxBlock + 1
      BY <1>3
    <3>3. Top(new)' = chain'[new].top /\ chain'[new].top \in Nat /\ MaxAction <= chain'[new].top
      BY <1>3, <2>4 DEF Top
    <3>4. \A h \in 0..MaxBlock : Top(h) <= Top(new)'
      <4>1. \A h \in 0..MaxBlock : Top(h) <= Top(MaxBlock)
        BY <1>3, <2>2
      <4> QED
        BY <1>3, <2>3, <3>3, <4>1 DEF MaxAction
    <3>5. \A h, k \in 0..MaxBlock' : h <= k => Top(h)' <= Top(k)'
      <4> SUFFICES ASSUME NEW h \in 0..new, NEW k \in 0..new, h <= k
                   PROVE  Top(h)' <= Top(k)'
        BY <2>4
      <4>1. CASE k \in 0..MaxBlock
        BY <1>3, <2>2, <3>2, <4>1
      <4>2. CASE k = new /\ h \in 0..MaxBlock
        BY <3>2, <3>4, <4>2
      <4>3. CASE k = new /\ h = new
        BY <3>3, <4>3
      <4> QED
        BY <1>3, <4>1, <4>2, <4>3
    <3> QED
      BY <3>1, <3>5 DEF ChainInv
  <2>5. CASE /\ MaxBlock' \in 1..(MaxBlock - 1) /\ minted' = minted
             /\ \A h \in 1..MaxBlock' : chain'[h] = chain[h]
    <3>1. \A h \in 0..MaxBlock' : Top(h)' = Top(h)
      BY <2>5 DEF Top
    <3>2. \A h, k \in 0..MaxBlock' : h <= k => Top(h)' <= Top(k)'
      BY <1>3, <2>2, <2>5, <3>1
    <3>3. \A h \in 1..MaxBlock' : chain'[h].hash <= minted'
      BY <1>3, <2>1, <2>5
    <3> QED
      BY <3>2, <3>3 DEF ChainInv
  <2> QED
    BY <2>4, <2>5, ChainAfter
<1>6. TipInv'
  BY <1>1, <1>2, <1>3 DEF TipInv
<1>7. StandingInv'
  BY <1>2, ChainAfter DEF StandingInv, Standing
<1>8. ASSUME NEW h \in Heights, Stale(h)', OnChain(tip)', h <= tip.index
      PROVE  Stale(h)
  <2>1. h \in Nat /\ h # 0 /\ MaxBlock' \in Nat
    BY <1>3, FollowTypes
  <2>2. h <= MaxBlock' /\ chain'[h] = chain[h]
    BY <1>1, <1>4, <1>8, <2>1
  <2> QED
    BY <1>2, <1>3, <1>8, <2>1, <2>2 DEF Stale
<1>9. StaleNoted'
  <2> SUFFICES ASSUME NEW h \in Heights, Stale(h)', ~pendingReorg, OnChain(tip)'
               PROVE  FALSE
    BY <1>2 DEF StaleNoted
  <2>1. OnChain(tip) /\ blockIndex <= tip.index
    BY <1>1, <1>4 DEF CursorsWithin
  <2>2. h <= tip.index
    <3>1. h <= blockIndex /\ h \in Nat /\ blockIndex \in Nat
      BY <1>2, FollowTypes DEF Stale
    <3> QED
      BY <1>1, <2>1, <3>1
  <2>3. Stale(h)
    BY <1>8, <2>2
  <2> QED
    BY <1>1, <2>1, <2>3 DEF StaleNoted
<1>10. CursorsWithin'
  BY <1>1, <1>2, <1>4 DEF CursorsWithin
<1>11. PollInv'
  <2>1. poll.pc \in {"probe", "block", "action"} \cup TipsRead =>
          MaxBlock' <= MaxBlock \/ MaxBlock' <= tip.index
    <3>1. MayOutrun => poll.pc \notin {"probe", "block", "action"} \cup TipsRead \/ MaxBlock < tip.index
      BY DEF MayOutrun, TipsRead, poll
    <3> QED
      BY <1>1, <1>3, <3>1, ChainAfter
  <2>2. poll.pc = "probe" =>
          /\ poll.was = tip /\ poll.tip.index > tip.index
          /\ MaxBlock' <= poll.tip.index /\ poll.tip.hash <= minted'
    <3>1. poll.tip \in Tips
      BY PassFields DEF poll, Readers, FeedTyped
    <3>2. poll.tip.index \in Nat /\ poll.tip.hash \in Nat
      BY <3>1 DEF Tips
    <3>3. poll.pc = "probe" =>
            /\ poll.was = tip /\ poll.tip.index > tip.index
            /\ MaxBlock <= poll.tip.index /\ poll.tip.hash <= minted
      BY <1>1 DEF PollInv
    <3> QED
      BY <1>1, <1>3, <2>1, <3>2, <3>3
  <2>3. poll.pc \in {"block", "action"} \cup TipsRead => MaxBlock' <= tip.index
    BY <1>1, <1>3, <2>1 DEF PollInv
  <2>4. poll.pc \in TipsRead => (OnChain(tip)' => poll.action <= Top(tip.index)')
    BY <1>1, <1>4 DEF PollInv
  <2>5. poll.pc = "rewind" =>
          \A h \in Heights : Stale(h)' /\ (poll.fork = 0 \/ h < poll.fork) => ~OnChain(tip)'
    <3> SUFFICES ASSUME poll.pc = "rewind", NEW h \in Heights, Stale(h)',
                        poll.fork = 0 \/ h < poll.fork, OnChain(tip)'
                 PROVE  FALSE
      OBVIOUS
    <3>1. ~Stale(h) /\ OnChain(tip) /\ MaxBlock <= tip.index
      BY <1>1, <1>4 DEF PollInv, TipsRead
    <3>2. h <= MaxBlock
      BY <1>2, <3>1, FollowTypes DEF Stale
    <3>3. h <= tip.index
      BY <1>1, <1>3, <3>1, <3>2, FollowTypes
    <3> QED
      BY <1>8, <3>1, <3>3
  <2>6. poll.pc \in {"rows", "life"} =>
          \A n \in DOMAIN poll.rows : OnChain(tip)' => poll.rows[n].index <= Top(tip.index)'
    BY <1>1, <1>4 DEF PollInv
  <2>7. poll.pc \in {"action"} \cup TipsRead => poll.block <= tip.index
    BY <1>1 DEF PollInv
  <2> QED
    BY <1>2, <2>2, <2>3, <2>4, <2>5, <2>6, <2>7 DEF PollInv
<1>12. QuietInv'
  BY <1>2 DEF QuietInv
<1> QED
  BY <1>5, <1>6, <1>7, <1>9, <1>10, <1>11, <1>12 DEF FollowInv

-----------------------------------------------------------------------------
(* Passes begin and end.                                                   *)

\* What there is to know of a reader while the chain stands still.
LEMMA StandingIs ==
  ASSUME FollowInv
  PROVE  /\ Standing => /\ ~pendingReorg /\ lastTip \in {NoTip, ChainTip} /\ CursorsAtTip
                        /\ HasRead(reader["poll"]) /\ HasRead(reader["seed"]) /\ HasRead(poll)
         /\ ~Standing => seeded /\ reader["seed"].pc \in {"idle", "history"}
         /\ ~seeded => Standing
<1>1. Standing => HasRead(reader["poll"]) /\ HasRead(reader["seed"])
  BY DEF FollowInv, StandingInv, Readers
<1>2. Standing => ~pendingReorg /\ lastTip \in {NoTip, ChainTip} /\ CursorsAtTip
  BY DEF FollowInv, StandingInv
<1> QED
  BY <1>1, <1>2 DEF Standing, poll

\* A reader that begins or ends a pass has read nothing.
LEMMA PassTurns ==
  ASSUME FeedTyped, FollowInv,
         UNCHANGED <<chain, minted, seeded, lastTip, pendingReorg, blockIndex, actionIndex, history>>,
         NEW r \in Readers, NEW pass, Reads(r, pass), pass.pc \in {"idle", "tip"},
         Standing' => Standing, QuietInv'
  PROVE  FollowInv'
<1>1. ReaderTyped
  BY DEF FeedTyped
<1>2. ChainInv' /\ TipInv' /\ StaleNoted' /\ CursorsWithin'
  BY TipFrame
<1>3. /\ MaxBlock' = MaxBlock /\ MaxAction' = MaxAction /\ ChainTip' = ChainTip
      /\ Top(lastTip.index)' = Top(lastTip.index)
      /\ OnChain(lastTip)' <=> OnChain(lastTip)
  BY DEF MaxBlock, MaxAction, Top, ChainTip, OnChain
<1>4. \A o \in Readers : reader'[o] = reader[o] \/ reader'[o].pc \in {"idle", "tip"}
  BY <1>1, PollReads, SeedReads DEF Readers
<1>5. StandingInv'
  <2> SUFFICES ASSUME Standing'
               PROVE  /\ ~pendingReorg /\ lastTip \in {NoTip, ChainTip} /\ CursorsAtTip'
                      /\ \A o \in Readers : HasRead(reader[o])'
    BY <1>3 DEF StandingInv
  <2>1. ~pendingReorg /\ lastTip \in {NoTip, ChainTip} /\ CursorsAtTip
    BY StandingIs
  <2>2. CursorsAtTip'
    BY <1>3, <2>1 DEF CursorsAtTip
  <2>3. \A o \in Readers : HasRead(reader[o])'
    <3> SUFFICES ASSUME NEW o \in Readers PROVE HasRead(reader[o])'
      OBVIOUS
    <3>1. HasRead(reader[o])
      BY StandingIs DEF Readers
    <3>2. CASE reader'[o] = reader[o]
      BY <1>3, <3>1, <3>2 DEF HasRead
    <3>3. CASE reader'[o].pc \in {"idle", "tip"}
      BY <3>3 DEF HasRead
    <3> QED
      BY <1>4, <3>2, <3>3
  <2> QED
    BY <2>1, <2>2, <2>3
<1>6. PollInv'
  <2>1. poll' = poll \/ poll'.pc \in {"idle", "tip"}
    BY <1>4 DEF poll, Readers
  <2>2. CASE poll' = poll
    <3>1. \A h \in Heights : Stale(h)' <=> Stale(h)
      BY <1>3 DEF Stale
    <3> QED
      BY <1>3, <2>2, <3>1 DEF FollowInv, PollInv
  <2>3. CASE poll'.pc \in {"idle", "tip"}
    BY <2>3 DEF PollInv, TipsRead
  <2> QED
    BY <2>1, <2>2, <2>3
<1> QED
  BY <1>2, <1>5, <1>6 DEF FollowInv

LEMMA QuietFrame ==
  ASSUME FollowInv, UNCHANGED <<chain, lastTip>>, poll' = poll, quiet' => quiet
  PROVE  QuietInv'
<1>1. ChainTip' = ChainTip
  BY DEF ChainTip, MaxBlock
<1> QED
  BY <1>1 DEF FollowInv, QuietInv

LEMMA TurnsFollow ==
  ASSUME FeedTyped, FollowInv,
         StartPoll \/ StartSeed \/ SeedLate \/ NoActions \/ \E r \in Readers : PassFails(r)
  PROVE  FollowInv'
<1>1. ReaderTyped /\ "poll" \in Readers /\ "seed" \in Readers /\ IdlePass.pc = "idle"
  BY DEF FeedTyped, Readers, IdlePass
<1>2. UNCHANGED <<chain, minted, seeded, lastTip, pendingReorg, blockIndex, actionIndex, history>>
  BY DEF StartPoll, StartSeed, SeedLate, NoActions, PassFails, chainVars, feedVars, cursorVars
<1>3. ChainTip' = ChainTip
  BY <1>2 DEF ChainTip, MaxBlock
<1>4. CASE StartPoll
  <2> DEFINE pass == [IdlePass EXCEPT !.pc = "tip"]
  <2>1. Reads("poll", pass) /\ pass.pc = "tip"
    BY <1>4 DEF StartPoll, IdlePass
  <2> HIDE DEF pass
  <2>2. poll' = pass /\ reader'["seed"] = reader["seed"]
    BY <1>1, <2>1, PollReads
  <2>3. (Standing' => Standing) /\ QuietInv'
    BY <1>2, <2>1, <2>2 DEF Standing, QuietInv
  <2> QED
    BY <1>1, <1>2, <2>1, <2>3, PassTurns
<1>5. CASE StartSeed
  <2> DEFINE pass == [IdlePass EXCEPT !.pc = "tip"]
  <2>1. Reads("seed", pass) /\ pass.pc = "tip" /\ ~seeded /\ quiet' = quiet
    BY <1>5 DEF StartSeed, IdlePass
  <2> HIDE DEF pass
  <2>2. poll' = poll
    BY <1>1, <2>1, SeedReads
  <2>3. Standing /\ QuietInv'
    BY <1>2, <2>1, <2>2, QuietFrame DEF Standing
  <2> QED
    BY <1>1, <1>2, <2>1, <2>3, PassTurns
<1>6. CASE SeedLate
  <2>1. Reads("seed", IdlePass) /\ seeded /\ quiet' = quiet
    BY <1>6 DEF SeedLate, EndPass
  <2>2. poll' = poll /\ reader'["seed"] = IdlePass
    BY <1>1, <2>1, SeedReads
  <2>3. ~Standing' /\ QuietInv'
    BY <1>1, <1>2, <2>1, <2>2, QuietFrame DEF Standing
  <2> QED
    BY <1>1, <1>2, <2>1, <2>3, PassTurns
<1>7. CASE NoActions
  <2>1. Reads("poll", IdlePass) /\ quiet' = quiet /\ poll.pc \in TipsRead
    BY <1>7 DEF NoActions, EndPass, ActionsDue, Fetching, TipsRead
  <2>2. poll' = IdlePass /\ reader'["seed"] = reader["seed"]
    BY <1>1, <2>1, PollReads
  <2>3. quiet => lastTip = ChainTip
    BY <2>1 DEF FollowInv, QuietInv, TipsRead
  <2>4. (Standing' => Standing) /\ QuietInv'
    BY <1>1, <1>2, <1>3, <2>1, <2>2, <2>3 DEF Standing, QuietInv
  <2> QED
    BY <1>1, <1>2, <2>1, <2>4, PassTurns
<1>8. ASSUME NEW r \in Readers, PassFails(r) PROVE FollowInv'
  <2>1. Reads(r, IdlePass) /\ quiet' = (quiet /\ r # "poll")
    BY <1>8 DEF PassFails, EndPass
  <2>2. CASE r = "poll"
    <3>1. reader'["seed"] = reader["seed"]
      BY <1>1, <2>1, <2>2, PollReads
    <3>2. (Standing' => Standing) /\ QuietInv'
      BY <1>2, <2>1, <2>2, <3>1 DEF Standing, QuietInv
    <3> QED
      BY <1>1, <1>2, <2>1, <3>2, PassTurns
  <2>3. CASE r = "seed"
    <3>1. poll' = poll /\ reader'["seed"] = IdlePass
      BY <1>1, <2>1, <2>3, SeedReads
    <3>2. (Standing' => Standing) /\ QuietInv'
      BY <1>1, <1>2, <2>1, <3>1, QuietFrame DEF Standing
    <3> QED
      BY <1>1, <1>2, <2>1, <3>2, PassTurns
  <2> QED
    BY <2>2, <2>3 DEF Readers
<1> QED
  BY <1>4, <1>5, <1>6, <1>7, <1>8

-----------------------------------------------------------------------------
(* The reads of the tip.                                                   *)

\* What the reorg check sets.
LEMMA ReadTipDoes ==
  ASSUME FeedTyped, NEW r \in Readers, ReadTip(r)
  PROVE  LET probe == lastTip # NoTip /\ MaxBlock > lastTip.index IN
         /\ reader[r].pc = "tip"
         /\ \E pass : /\ Reads(r, pass) /\ pass.tip = ChainTip /\ pass.was = lastTip
                      /\ pass.pc = IF probe THEN "probe" ELSE "block"
         /\ probe => lastTip' = lastTip /\ pendingReorg' = pendingReorg
         /\ ~probe => /\ lastTip' = ChainTip
                      /\ pendingReorg' = (pendingReorg \/ (lastTip # NoTip /\ ChainTip # lastTip))
         /\ UNCHANGED <<chain, minted, seeded, blockIndex, actionIndex, history, quiet>>
<1> DEFINE probe == lastTip # NoTip /\ MaxBlock > lastTip.index
           pc == IF probe THEN "probe" ELSE "block"
           pass == [reader[r] EXCEPT !.pc = pc, !.tip = ChainTip, !.was = lastTip]
<1>1. /\ reader[r].pc = "tip" /\ Reads(r, pass)
      /\ IF probe THEN UNCHANGED <<pendingReorg, lastTip>>
         ELSE Verdict(lastTip # NoTip /\ ChainTip # lastTip, ChainTip)
      /\ UNCHANGED <<chain, minted, seeded, blockIndex, actionIndex, history, quiet>>
  BY DEF ReadTip, ChainTip, chainVars, cursorVars
<1>2. reader[r] \in Passes
  BY PassFields DEF FeedTyped
<1> HIDE DEF pc
<1>3. pass.tip = ChainTip /\ pass.was = lastTip /\ pass.pc = pc
  BY <1>2, PassesAre
<1> HIDE DEF pass
<1> QED
  BY <1>1, <1>3 DEF pc, Verdict

LEMMA ReadTipFollows ==
  ASSUME FeedTyped, FollowInv, NEW r \in Readers, ReadTip(r)
  PROVE  FollowInv'
<1> DEFINE probe == lastTip # NoTip /\ MaxBlock > lastTip.index
<1>1. ReaderTyped /\ ChainInv /\ TipInv /\ StaleNoted /\ CursorsWithin /\ PollInv /\ QuietInv
  BY DEF FeedTyped, FollowInv
<1>2. PICK pass : /\ Reads(r, pass) /\ pass.tip = ChainTip /\ pass.was = lastTip
                  /\ pass.pc = IF probe THEN "probe" ELSE "block"
  BY ReadTipDoes
<1>3. /\ reader[r].pc = "tip"
      /\ probe => lastTip' = lastTip /\ pendingReorg' = pendingReorg
      /\ ~probe => /\ lastTip' = ChainTip
                   /\ pendingReorg' = (pendingReorg \/ (lastTip # NoTip /\ ChainTip # lastTip))
      /\ UNCHANGED <<chain, minted, seeded, blockIndex, actionIndex, history, quiet>>
  BY ReadTipDoes
<1>4. /\ ChainTip' = ChainTip /\ MaxBlock' = MaxBlock /\ MaxAction' = MaxAction
      /\ \A h \in Heights : Stale(h)' <=> Stale(h)
  BY <1>3 DEF ChainTip, MaxBlock, MaxAction, Top, Stale
<1>5. /\ ChainTip.index = MaxBlock /\ ChainTip.hash <= minted /\ OnChain(ChainTip)
      /\ ChainTip # NoTip /\ MaxBlock \in Nat \ {0}
  <2>1. MaxBlock \in 1..MaxBlock
    BY FollowTypes
  <2> QED
    BY <1>1, <2>1, FollowTypes, TipIs DEF ChainInv
<1>6. ChainInv'
  BY <1>1, <1>3 DEF ChainInv, MaxBlock, Top
<1>7. TipInv'
  BY <1>1, <1>3, <1>5 DEF TipInv
<1>8. CASE probe
  <2>1. ~Standing
    BY <1>5, <1>8, StandingIs
  <2>2. seeded /\ r = "poll"
    BY <1>3, <2>1, StandingIs DEF Readers
  <2>3. poll' = pass /\ reader'["seed"] = reader["seed"]
    BY <1>1, <1>2, <2>2, PollReads
  <2>4. StandingInv'
    BY <1>3, <2>1, <2>3 DEF StandingInv, Standing
  <2>5. StaleNoted' /\ CursorsWithin'
    BY <1>3, <1>8, TipFrame
  <2>6. PollInv'
    BY <1>2, <1>3, <1>4, <1>5, <1>8, <2>3 DEF PollInv, TipsRead
  <2>7. QuietInv'
    BY <1>2, <1>4, <1>8, <2>3 DEF QuietInv
  <2> QED
    BY <1>6, <1>7, <2>4, <2>5, <2>6, <2>7 DEF FollowInv
<1>9. CASE ~probe
  <2>1. lastTip' = ChainTip
        /\ pendingReorg' = (pendingReorg \/ (lastTip # NoTip /\ ChainTip # lastTip))
    BY <1>3, <1>9
  <2>2. OnChain(lastTip)'
    BY <1>3, <1>4, <1>5, <2>1 DEF OnChain
  <2>3. Top(lastTip.index)' = MaxAction
    BY <1>3, <1>5, <2>1, FollowTypes DEF Top
  <2>4. CASE ~seeded
    <3>1. Standing /\ ~pendingReorg /\ lastTip \in {NoTip, ChainTip} /\ CursorsAtTip
      BY <2>4, StandingIs
    <3>2. ~pendingReorg'
      BY <2>1, <3>1
    <3>3. blockIndex = 0 /\ actionIndex = 0 /\ \A h \in Heights : history[h].hash = 0
      BY <2>4, <3>1 DEF CursorsAtTip
    <3>4. StaleNoted'
      BY <1>3, <3>3 DEF StaleNoted, Stale
    <3>5. CursorsWithin'
      BY <1>3, <1>5, <2>1, <2>3, <3>3, FollowTypes DEF CursorsWithin
    <3> QED
      <4>1. StandingInv'
        <5>1. CursorsAtTip'
          BY <1>3, <2>4, <3>3 DEF CursorsAtTip
        <5>2. \A o \in Readers : HasRead(reader[o])'
          <6> SUFFICES ASSUME NEW o \in Readers PROVE HasRead(reader[o])'
            OBVIOUS
          <6>1. CASE o = r
            <7>1. reader'[o] = pass
              BY <1>1, <1>2, <6>1, PollReads, SeedReads DEF Readers
            <7> QED
              BY <1>2, <1>4, <1>9, <2>1, <7>1 DEF HasRead
          <6>2. CASE o # r
            <7>1. reader'[o] = reader[o]
              BY <1>1, <1>2, <6>2, PollReads, SeedReads DEF Readers
            <7>2. HasRead(reader[o])
              BY <3>1, StandingIs DEF Readers
            <7> QED
              BY <1>3, <1>4, <2>1, <7>1, <7>2 DEF HasRead
          <6> QED
            BY <6>1, <6>2
        <5> QED
          BY <1>4, <2>1, <3>2, <5>1, <5>2 DEF StandingInv
      <4>2. PollInv'
        <5>1. CASE r = "poll"
          <6>1. poll' = pass
            BY <1>1, <1>2, <5>1, PollReads
          <6> QED
            BY <1>2, <1>4, <1>5, <1>9, <2>1, <6>1 DEF PollInv, TipsRead
        <5>2. CASE r = "seed"
          <6>1. poll' = poll
            BY <1>1, <1>2, <5>2, SeedReads
          <6>2. HasRead(poll)
            BY <3>1, StandingIs
          <6>3. poll.pc \in {"block", "action"} \cup TipsRead => lastTip = ChainTip
            BY <6>2 DEF HasRead, TipsRead
          <6>4. poll.pc \notin {"probe", "rewind", "fetch", "acts", "rows", "life"}
            BY <6>2 DEF HasRead
          <6>5. poll.pc \in TipsRead => poll.pc = "tips"
            BY <6>4 DEF TipsRead
          <6>6. poll.pc = "tips" => poll.action = MaxAction
            BY <6>2 DEF HasRead
          <6>7. MaxAction \in Nat
            BY FollowTypes
          <6>8. poll.pc \in {"block", "action"} \cup TipsRead => MaxBlock' <= lastTip'.index
            BY <1>4, <1>5, <2>1
          <6>9. poll.pc \in {"action"} \cup TipsRead => poll.block <= lastTip'.index
            BY <1>1, <2>1, <6>3 DEF PollInv
          <6>10. poll.pc \in TipsRead => poll.action <= Top(lastTip.index)'
            BY <2>3, <6>5, <6>6, <6>7
          <6> QED
            BY <6>1, <6>4, <6>8, <6>9, <6>10 DEF PollInv
        <5> QED
          BY <5>1, <5>2 DEF Readers
      <4>3. QuietInv'
        <5>1. poll'.pc # "probe"
          <6>1. poll' = pass \/ poll' = poll
            BY <1>1, <1>2, PollReads, SeedReads DEF Readers
          <6>2. HasRead(poll)
            BY <3>1, StandingIs
          <6> QED
            BY <1>2, <1>9, <6>1, <6>2 DEF HasRead
        <5> QED
          BY <1>4, <2>1, <5>1 DEF QuietInv
      <4> QED
        BY <1>6, <1>7, <3>4, <3>5, <4>1, <4>2, <4>3 DEF FollowInv
  <2>5. CASE seeded
    <3>1. lastTip # NoTip
      BY <1>1, <2>5 DEF TipInv, NoTip
    <3>2. pendingReorg' = (pendingReorg \/ ChainTip # lastTip)
      BY <2>1, <3>1
    <3>3. StaleNoted'
      BY <1>1, <1>4, <1>5, <3>2 DEF StaleNoted
    <3>4. CursorsWithin'
      <4> SUFFICES ASSUME ~pendingReorg'
                   PROVE  blockIndex' <= lastTip'.index /\ actionIndex' <= Top(lastTip.index)'
        BY DEF CursorsWithin
      <4>1. ~pendingReorg /\ lastTip = ChainTip
        BY <3>2
      <4>2. blockIndex <= MaxBlock /\ actionIndex <= MaxAction
        BY <1>1, <1>5, <4>1 DEF CursorsWithin, MaxAction
      <4> QED
        BY <1>3, <1>5, <2>1, <2>3, <4>2
    <3>5. CASE r = "poll"
      <4>1. poll' = pass /\ reader'["seed"] = reader["seed"] /\ reader'["poll"] = pass
        BY <1>1, <1>2, <3>5, PollReads
      <4>2. PollInv' /\ QuietInv'
        BY <1>2, <1>4, <1>5, <1>9, <2>1, <4>1 DEF PollInv, TipsRead, QuietInv
      <4>3. StandingInv'
        <5> SUFFICES ASSUME Standing' PROVE StandingInv'
          BY DEF StandingInv
        <5>1. Standing
          BY <1>3, <4>1 DEF Standing
        <5>2. /\ ~pendingReorg /\ lastTip = ChainTip /\ CursorsAtTip /\ HasRead(reader["seed"])
          BY <2>5, <5>1, StandingIs DEF CursorsAtTip
        <5>3. ~pendingReorg' /\ lastTip' = lastTip
          BY <2>1, <3>2, <5>2
        <5>4. CursorsAtTip'
          BY <1>3, <1>4, <5>2, <5>3 DEF CursorsAtTip
        <5>5. HasRead(reader["seed"])'
          BY <1>3, <1>4, <4>1, <5>2, <5>3 DEF HasRead
        <5>6. HasRead(reader["poll"])'
          BY <1>2, <1>4, <1>9, <2>1, <4>1 DEF HasRead
        <5> QED
          BY <1>4, <2>1, <5>3, <5>4, <5>5, <5>6 DEF StandingInv, Readers
      <4> QED
        BY <1>6, <1>7, <3>3, <3>4, <4>2, <4>3 DEF FollowInv
    <3>6. CASE r = "seed"
      <4>1. Standing
        BY <1>3, <3>6, StandingIs
      <4>2. ~pendingReorg /\ lastTip = ChainTip /\ CursorsAtTip /\ HasRead(reader["poll"])
        BY <2>5, <4>1, StandingIs DEF CursorsAtTip
      <4>3. ~pendingReorg' /\ lastTip' = lastTip /\ pendingReorg' = pendingReorg
        BY <2>1, <3>2, <4>2, FollowTypes
      <4>4. poll' = poll /\ reader'["seed"] = pass /\ reader'["poll"] = reader["poll"]
        BY <1>1, <1>2, <3>6, SeedReads
      <4>5. PollInv' /\ QuietInv'
        <5>1. OnChain(lastTip)' <=> OnChain(lastTip)
          BY <1>3, <1>4, <4>3 DEF OnChain
        <5>2. Top(lastTip.index)' = Top(lastTip.index)
          BY <1>3, <4>3 DEF Top
        <5>3. PollInv'
          BY <1>1, <1>3, <1>4, <4>3, <4>4, <5>1, <5>2 DEF PollInv
        <5> QED
          BY <1>3, <4>3, <4>4, <5>3, QuietFrame
      <4>6. StandingInv'
        <5>1. CursorsAtTip'
          BY <1>3, <1>4, <4>2, <4>3 DEF CursorsAtTip
        <5>2. HasRead(reader["poll"])'
          BY <1>3, <1>4, <4>2, <4>3, <4>4 DEF HasRead
        <5>3. HasRead(reader["seed"])'
          BY <1>2, <1>4, <1>9, <2>1, <4>4 DEF HasRead
        <5> QED
          BY <1>4, <2>1, <4>3, <5>1, <5>2, <5>3 DEF StandingInv, Readers
      <4> QED
        BY <1>6, <1>7, <3>3, <3>4, <4>5, <4>6 DEF FollowInv
    <3> QED
      BY <3>5, <3>6 DEF Readers
  <2> QED
    BY <2>4, <2>5, FollowTypes
<1> QED
  BY <1>8, <1>9

\* The probe: the block at the last tip's height, then the tip read before.
LEMMA ReadProbeFollows ==
  ASSUME FeedTyped, FollowInv, NEW r \in Readers, ReadProbe(r)
  PROVE  FollowInv'
<1> DEFINE pass == [poll EXCEPT !.pc = "block"]
<1>1. ReaderTyped /\ ChainInv /\ TipInv /\ StaleNoted /\ CursorsWithin /\ PollInv /\ QuietInv
  BY DEF FeedTyped, FollowInv
<1>2. ~Standing /\ seeded /\ r = "poll"
  <2>1. reader[r].pc = "probe"
    BY DEF ReadProbe
  <2>2. ~Standing
    BY <2>1, StandingIs DEF HasRead, Readers
  <2> QED
    BY <2>1, <2>2, StandingIs DEF Readers
<1>3. /\ poll.pc = "probe" /\ Reads("poll", pass)
      /\ pendingReorg' = (pendingReorg \/ Replaced(poll.was)) /\ lastTip' = poll.tip
      /\ UNCHANGED <<chain, minted, seeded, blockIndex, actionIndex, history, quiet>>
  BY <1>2 DEF ReadProbe, Verdict, poll, chainVars, cursorVars
<1>4. /\ poll \in Passes /\ poll.tip \in Tips /\ pass.pc = "block"
      /\ poll.tip.index \in Nat /\ poll.tip.hash \in Nat
  <2>1. poll \in Passes /\ poll.tip \in Tips
    BY <1>1, PassFields DEF poll, Readers
  <2>2. pass.pc = "block"
    BY <2>1, PassesAre
  <2> QED
    BY <2>1, <2>2 DEF Tips
<1>5. /\ poll.was = lastTip /\ poll.tip.index > lastTip.index
      /\ MaxBlock <= poll.tip.index /\ poll.tip.hash <= minted
  BY <1>1, <1>3 DEF PollInv
<1> HIDE DEF pass
<1>6. poll' = pass /\ reader'["seed"] = reader["seed"]
  BY <1>1, <1>3, PollReads
<1>7. /\ ChainTip' = ChainTip /\ MaxBlock' = MaxBlock
      /\ \A h \in Heights : Stale(h)' <=> Stale(h)
      /\ \A h \in 0..MaxBlock : Top(h)' = Top(h)
  BY <1>3 DEF ChainTip, MaxBlock, Top, Stale
<1>8. MaxBlock \in Nat /\ lastTip.index \in Nat /\ blockIndex \in Nat /\ actionIndex \in Int
      /\ \A h \in 0..MaxBlock : Top(h) \in Nat
  BY FollowTypes
<1>9. ~pendingReorg' => ~pendingReorg /\ OnChain(lastTip)
  <2>1. lastTip.index \in Nat \ {0}
    BY <1>1, <1>2, <1>8 DEF TipInv
  <2>2. ~Replaced(lastTip) => OnChain(lastTip)
    BY <1>8, <2>1 DEF Replaced, OnChain
  <2> QED
    BY <1>3, <1>5, <2>2
<1>10. ChainInv'
  BY <1>1, <1>3 DEF ChainInv, MaxBlock, Top
<1>11. TipInv'
  BY <1>3, <1>5, <1>8, <1>4 DEF TipInv
<1>12. StandingInv'
  BY <1>2, <1>3, <1>6 DEF StandingInv, Standing
<1>13. StaleNoted'
  BY <1>1, <1>7, <1>9 DEF StaleNoted
<1>14. CursorsWithin'
  <2> SUFFICES ASSUME ~pendingReorg', OnChain(lastTip)'
               PROVE  blockIndex' <= lastTip'.index /\ actionIndex' <= Top(lastTip.index)'
    BY DEF CursorsWithin
  <2>1. blockIndex <= lastTip.index /\ actionIndex <= Top(lastTip.index)
    BY <1>1, <1>9 DEF CursorsWithin
  <2>2. lastTip.index \in 0..MaxBlock /\ poll.tip.index \in 0..MaxBlock
    BY <1>3, <1>4, <1>5, <1>7, <1>8 DEF OnChain
  <2>3. Top(lastTip.index) <= Top(poll.tip.index)
    BY <1>1, <1>5, <1>8, <2>2 DEF ChainInv
  <2>4. Top(lastTip.index)' = Top(poll.tip.index)
    BY <1>3 DEF Top
  <2> QED
    BY <1>3, <1>4, <1>5, <1>8, <2>1, <2>2, <2>3, <2>4
<1>15. PollInv'
  BY <1>3, <1>4, <1>5, <1>6, <1>7 DEF PollInv, TipsRead
<1>16. QuietInv'
  BY <1>1, <1>3, <1>4, <1>6, <1>7 DEF QuietInv
<1> QED
  BY <1>10, <1>11, <1>12, <1>13, <1>14, <1>15, <1>16 DEF FollowInv

\* The two high-water marks.
LEMMA ReadMaxFollows ==
  ASSUME FeedTyped, FollowInv, NEW r \in Readers, ReadMaxBlock(r) \/ ReadMaxAction(r)
  PROVE  FollowInv'
<1>1. ReaderTyped /\ PollInv /\ QuietInv /\ reader[r] \in Passes
  BY PassFields DEF FeedTyped, FollowInv
<1>2. UNCHANGED <<chain, minted, seeded, lastTip, pendingReorg, blockIndex, actionIndex, history, quiet>>
  BY DEF ReadMaxBlock, ReadMaxAction, chainVars, feedVars, cursorVars
<1>3. ChainInv' /\ TipInv' /\ StaleNoted' /\ CursorsWithin'
  BY <1>2, TipFrame
<1>4. /\ ChainTip' = ChainTip /\ MaxBlock' = MaxBlock /\ MaxAction' = MaxAction
      /\ OnChain(lastTip)' <=> OnChain(lastTip)
      /\ Top(lastTip.index)' = Top(lastTip.index)
  BY <1>2 DEF ChainTip, MaxBlock, MaxAction, Top, OnChain
<1>5. MaxBlock \in Nat /\ MaxAction \in Nat /\ lastTip.index \in Nat
  BY FollowTypes
<1>6. PICK pass : /\ Reads(r, pass)
                  /\ \/ /\ reader[r].pc = "block" /\ pass.pc = "action"
                        /\ pass.block = MaxBlock
                     \/ /\ reader[r].pc = "action" /\ pass.pc = "tips"
                        /\ pass.block = reader[r].block /\ pass.action = MaxAction
  <2>1. CASE ReadMaxBlock(r)
    <3> DEFINE pass == [reader[r] EXCEPT !.pc = "action", !.block = MaxBlock]
    <3>1. Reads(r, pass) /\ reader[r].pc = "block"
      BY <2>1 DEF ReadMaxBlock
    <3>2. pass.pc = "action" /\ pass.block = MaxBlock
      BY <1>1, PassesAre
    <3> QED
      BY <3>1, <3>2
  <2>2. CASE ReadMaxAction(r)
    <3> DEFINE pass == [reader[r] EXCEPT !.pc = "tips", !.action = MaxAction]
    <3>1. Reads(r, pass) /\ reader[r].pc = "action"
      BY <2>2 DEF ReadMaxAction
    <3>2. pass.pc = "tips" /\ pass.action = MaxAction /\ pass.block = reader[r].block
      BY <1>1, PassesAre
    <3> QED
      BY <3>1, <3>2
  <2> QED
    BY <2>1, <2>2
<1>7. /\ reader'[r] = pass
      /\ \A o \in Readers : o # r => reader'[o] = reader[o]
      /\ r = "poll" => poll' = pass /\ poll = reader[r]
      /\ r = "seed" => poll' = poll
  BY <1>1, <1>6, PollReads, SeedReads DEF Readers, poll
<1>8. StandingInv'
  <2> SUFFICES ASSUME Standing'
               PROVE  /\ ~pendingReorg /\ lastTip \in {NoTip, ChainTip} /\ CursorsAtTip'
                      /\ \A o \in Readers : HasRead(reader[o])'
    BY <1>2, <1>4 DEF StandingInv
  <2>1. Standing
    BY <1>2, <1>6, <1>7 DEF Standing, Readers
  <2>2. ~pendingReorg /\ lastTip \in {NoTip, ChainTip} /\ CursorsAtTip
    BY <2>1, StandingIs
  <2>3. CursorsAtTip'
    BY <1>2, <1>4, <2>2 DEF CursorsAtTip
  <2>4. \A o \in Readers : HasRead(reader[o])
    BY <2>1, StandingIs DEF Readers
  <2>5. HasRead(reader[r])'
    BY <1>2, <1>4, <1>6, <1>7, <2>4 DEF HasRead
  <2>6. \A o \in Readers : o # r => HasRead(reader[o])'
    BY <1>2, <1>4, <1>7, <2>4 DEF HasRead
  <2> QED
    BY <2>2, <2>3, <2>5, <2>6
<1>9. PollInv'
  <2>1. CASE r = "seed"
    <3>1. \A h \in Heights : Stale(h)' <=> Stale(h)
      BY <1>2, <1>4 DEF Stale
    <3> QED
      BY <1>1, <1>2, <1>4, <1>7, <2>1, <3>1 DEF PollInv
  <2>2. CASE r = "poll"
    <3>1. /\ MaxBlock <= lastTip.index
          /\ reader[r].pc = "action" => reader[r].block <= lastTip.index
      BY <1>1, <1>6, <1>7, <2>2 DEF PollInv
    <3>2. OnChain(lastTip) => MaxAction = Top(lastTip.index)
      <4>1. OnChain(lastTip) => lastTip.index = MaxBlock
        BY <1>5, <3>1 DEF OnChain
      <4> QED
        BY <4>1 DEF MaxAction
    <3>3. pass.pc \in {"action", "tips"} /\ pass.block <= lastTip.index
      BY <1>6, <3>1
    <3>4. pass.pc = "tips" => (OnChain(lastTip) => pass.action <= Top(lastTip.index))
      BY <1>5, <1>6, <3>2
    <3> QED
      BY <1>2, <1>4, <1>7, <2>2, <3>1, <3>3, <3>4 DEF PollInv, TipsRead
  <2> QED
    BY <2>1, <2>2 DEF Readers
<1>10. QuietInv'
  <2>1. CASE r = "seed"
    BY <1>2, <1>7, <2>1, QuietFrame
  <2>2. CASE r = "poll"
    BY <1>1, <1>2, <1>4, <1>6, <1>7, <2>2 DEF QuietInv
  <2> QED
    BY <2>1, <2>2 DEF Readers
<1> QED
  BY <1>3, <1>8, <1>9, <1>10 DEF FollowInv

\* A seed sets the cursors to the tips just read; nothing is remembered yet.
LEMMA SeedFollows ==
  ASSUME FeedTyped, FollowInv, NEW r \in Readers, Seed(r)
  PROVE  FollowInv'
<1> DEFINE pass == [reader[r] EXCEPT !.pc = "history"]
<1>1. ReaderTyped /\ ChainInv /\ TipInv /\ PollInv /\ QuietInv /\ reader[r] \in Passes
  BY PassFields DEF FeedTyped, FollowInv
<1>2. /\ reader[r].pc = "tips" /\ ~seeded /\ seeded' /\ pendingReorg' = FALSE
      /\ blockIndex' = reader[r].block /\ actionIndex' = reader[r].action /\ Reads(r, pass)
      /\ UNCHANGED <<chain, minted, lastTip, history, quiet>>
  BY DEF Seed, chainVars
<1>3. pass.pc = "history"
  BY <1>1, PassesAre
<1> HIDE DEF pass
<1>4. Standing /\ lastTip = ChainTip /\ reader[r].block = MaxBlock /\ reader[r].action = MaxAction
  <2>1. Standing /\ HasRead(reader[r])
    BY <1>2, StandingIs DEF Readers
  <2> QED
    BY <1>2, <2>1 DEF HasRead
<1>5. /\ ChainTip' = ChainTip /\ MaxBlock' = MaxBlock /\ MaxAction' = MaxAction
      /\ OnChain(lastTip)' <=> OnChain(lastTip)
      /\ Top(lastTip.index)' = Top(lastTip.index)
  BY <1>2 DEF ChainTip, MaxBlock, MaxAction, Top, OnChain
<1>6. /\ MaxBlock \in Nat \ {0} /\ MaxAction \in Nat /\ MaxAction = Top(MaxBlock)
      /\ ChainTip.index = MaxBlock
  BY FollowTypes, TipIs
<1>7. /\ reader'[r] = pass
      /\ \A o \in Readers : o # r => reader'[o] = reader[o]
      /\ r = "poll" => poll' = pass /\ poll = reader[r]
      /\ r = "seed" => poll' = poll
  BY <1>1, <1>2, PollReads, SeedReads DEF Readers, poll
<1>8. \A h \in Heights : ~Stale(h)'
  <2>1. \A h \in Heights : history[h].hash = 0
    BY <1>2, <1>4, StandingIs DEF CursorsAtTip
  <2> QED
    BY <1>2, <2>1 DEF Stale
<1>9. ChainInv'
  BY <1>1, <1>2 DEF ChainInv, MaxBlock, Top
<1>10. TipInv'
  BY <1>1, <1>2, <1>4, <1>6 DEF TipInv
<1>11. StaleNoted'
  BY <1>8 DEF StaleNoted
<1>12. CursorsWithin'
  BY <1>2, <1>4, <1>5, <1>6 DEF CursorsWithin
<1>13. StandingInv'
  <2> SUFFICES ASSUME Standing' PROVE StandingInv'
    BY DEF StandingInv
  <2>1. \A o \in Readers : HasRead(reader[o])
    BY <1>4, StandingIs DEF Readers
  <2>2. HasRead(reader[r])'
    BY <1>2, <1>3, <1>7 DEF HasRead
  <2>3. \A o \in Readers : o # r => HasRead(reader[o])'
    BY <1>2, <1>5, <1>7, <2>1 DEF HasRead
  <2>4. CursorsAtTip'
    BY <1>2, <1>4, <1>5 DEF CursorsAtTip
  <2> QED
    BY <1>2, <1>4, <1>5, <2>2, <2>3, <2>4 DEF StandingInv
<1>14. PollInv'
  <2>1. CASE r = "seed"
    <3>1. poll.pc # "rewind"
      BY <1>4, StandingIs DEF HasRead
    <3> QED
      BY <1>1, <1>2, <1>5, <1>7, <2>1, <3>1 DEF PollInv
  <2>2. CASE r = "poll"
    BY <1>3, <1>7, <2>2 DEF PollInv, TipsRead
  <2> QED
    BY <2>1, <2>2 DEF Readers
<1>15. QuietInv'
  <2>1. CASE r = "seed"
    BY <1>2, <1>7, <2>1, QuietFrame
  <2>2. CASE r = "poll"
    BY <1>2, <1>3, <1>4, <1>5, <1>7, <2>2 DEF QuietInv
  <2> QED
    BY <2>1, <2>2 DEF Readers
<1> QED
  BY <1>9, <1>10, <1>11, <1>12, <1>13, <1>14, <1>15 DEF FollowInv

\* seedHistory reads the chain as it is now: it leaves no block stale that was
\* not, even when the chain has moved since the marks were read.
LEMMA SeedHistoryFollows ==
  ASSUME FeedTyped, FollowInv, NEW r \in Readers, SeedHistory(r)
  PROVE  FollowInv'
<1>1. ReaderTyped /\ StaleNoted /\ CursorsWithin /\ PollInv /\ QuietInv
  BY DEF FeedTyped, FollowInv
<1>2. /\ reader[r].pc = "history" /\ Reads(r, IdlePass)
      /\ UNCHANGED <<chain, minted, seeded, lastTip, pendingReorg, blockIndex, actionIndex, quiet>>
  BY DEF SeedHistory, EndPass, chainVars, cursorVars
<1>3. /\ ChainTip' = ChainTip /\ MaxBlock' = MaxBlock /\ MaxAction' = MaxAction
      /\ OnChain(lastTip)' <=> OnChain(lastTip)
      /\ Top(lastTip.index)' = Top(lastTip.index)
  BY <1>2 DEF ChainTip, MaxBlock, MaxAction, Top, OnChain
<1>4. \A h \in Heights : IF h > MaxBlock THEN history'[h] = history[h]
                         ELSE history'[h].hash = chain[h].hash
  BY DEF SeedHistory
<1>5. \A h \in Heights : Stale(h)' => Stale(h)
  BY <1>2, <1>3, <1>4 DEF Stale
<1>6. seeded
  <2>1. Standing => seeded
    BY <1>2, StandingIs DEF HasRead, Readers
  <2> QED
    BY <2>1 DEF Standing
<1>7. IdlePass.pc = "idle"
  BY DEF IdlePass
<1>8. /\ reader'[r] = IdlePass
      /\ \A o \in Readers : o # r => reader'[o] = reader[o]
      /\ r = "poll" => poll' = IdlePass /\ poll = reader[r]
      /\ r = "seed" => poll' = poll
  BY <1>1, <1>2, PollReads, SeedReads DEF Readers, poll
<1>9. ChainInv' /\ TipInv'
  BY <1>2 DEF FollowInv, ChainInv, TipInv, MaxBlock, Top
<1>10. StaleNoted'
  BY <1>1, <1>2, <1>3, <1>5 DEF StaleNoted
<1>11. CursorsWithin'
  BY <1>1, <1>2, <1>3 DEF CursorsWithin
<1>12. StandingInv'
  <2> SUFFICES ASSUME Standing' PROVE StandingInv'
    BY DEF StandingInv
  <2>1. Standing
    BY <1>2, <1>6, <1>7, <1>8 DEF Standing, Readers
  <2>2. \A o \in Readers : HasRead(reader[o])
    BY <2>1, StandingIs DEF Readers
  <2>3. HasRead(reader[r])'
    BY <1>7, <1>8 DEF HasRead
  <2>4. \A o \in Readers : o # r => HasRead(reader[o])'
    BY <1>2, <1>3, <1>8, <2>2 DEF HasRead
  <2>5. ~pendingReorg /\ lastTip \in {NoTip, ChainTip} /\ CursorsAtTip
    BY <2>1, StandingIs
  <2>6. CursorsAtTip'
    BY <1>2, <1>3, <1>6, <2>5 DEF CursorsAtTip
  <2> QED
    BY <1>2, <1>3, <2>3, <2>4, <2>5, <2>6 DEF StandingInv
<1>13. PollInv'
  <2>1. CASE r = "seed"
    BY <1>1, <1>2, <1>3, <1>5, <1>8, <2>1 DEF PollInv
  <2>2. CASE r = "poll"
    BY <1>7, <1>8, <2>2 DEF PollInv, TipsRead
  <2> QED
    BY <2>1, <2>2 DEF Readers
<1>14. QuietInv'
  <2>1. CASE r = "seed"
    BY <1>2, <1>8, <2>1, QuietFrame
  <2>2. CASE r = "poll"
    BY <1>1, <1>2, <1>3, <1>7, <1>8, <2>2 DEF QuietInv
  <2> QED
    BY <2>1, <2>2 DEF Readers
<1> QED
  BY <1>9, <1>10, <1>11, <1>12, <1>13, <1>14 DEF FollowInv

-----------------------------------------------------------------------------
(* The rewind, the blocks and the actions.                                 *)

\* None of this happens while the chain stands still: the cursors are at the
\* tip, and no reorganisation is pending.
LEMMA FeedMoves ==
  ASSUME FeedTyped, FollowInv,
         ReadFork \/ Rewind \/ ReadBlocks \/ ReadActions \/ SendAction \/ SendLife \/ NothingFetched
  PROVE  ~Standing
<1> SUFFICES ASSUME Standing PROVE FALSE
  OBVIOUS
<1>1. ~pendingReorg /\ CursorsAtTip /\ HasRead(poll)
  BY StandingIs
<1>2. poll.pc = "tips" /\ seeded
  BY <1>1 DEF HasRead, ReadFork, Rewind, ReadBlocks, ReadActions, SendAction, SendLife,
              NothingFetched, ActionsDue, Fetching
<1>3. poll.block = blockIndex /\ poll.action = actionIndex /\ blockIndex \in Nat /\ actionIndex \in Int
  BY <1>1, <1>2, FollowTypes DEF HasRead, CursorsAtTip
<1>4. CASE ReadFork
  BY <1>1, <1>4 DEF ReadFork
<1>5. CASE ReadBlocks
  BY <1>3, <1>5 DEF ReadBlocks
<1>6. CASE ReadActions
  BY <1>3, <1>6 DEF ReadActions
<1>7. CASE Rewind \/ SendAction \/ SendLife \/ NothingFetched
  BY <1>2, <1>7 DEF Rewind, SendAction, SendLife, NothingFetched
<1> QED
  BY <1>4, <1>5, <1>6, <1>7

LEMMA FeedFrame ==
  ASSUME FeedTyped, FollowInv, ~Standing,
         UNCHANGED <<chain, minted, seeded, lastTip, quiet>>,
         poll.pc \notin {"tip", "probe"},
         NEW pass, Reads("poll", pass), pass.pc \notin {"tip", "probe"}
  PROVE  /\ ChainInv' /\ TipInv' /\ StandingInv' /\ QuietInv'
         /\ poll' = pass
         /\ MaxBlock' = MaxBlock /\ (OnChain(lastTip)' <=> OnChain(lastTip))
         /\ Top(lastTip.index)' = Top(lastTip.index)
<1>1. poll' = pass /\ reader'["seed"] = reader["seed"]
  BY PollReads DEF FeedTyped
<1>2. MaxBlock' = MaxBlock /\ ChainTip' = ChainTip /\ (OnChain(lastTip)' <=> OnChain(lastTip))
      /\ Top(lastTip.index)' = Top(lastTip.index)
  BY DEF ChainTip, MaxBlock, Top, OnChain
<1>3. ChainInv' /\ TipInv'
  BY DEF FollowInv, ChainInv, TipInv, MaxBlock, Top
<1>4. StandingInv'
  BY <1>1 DEF StandingInv, Standing
<1>5. QuietInv'
  BY <1>1, <1>2 DEF FollowInv, QuietInv
<1> QED
  BY <1>1, <1>2, <1>3, <1>4, <1>5

\* What ends a pass or keeps it at its rows needs no more than the cursors.
LEMMA PollOfRows ==
  ASSUME poll'.pc \in {"idle", "rows", "life"},
         poll'.pc \in {"rows", "life"} =>
           \A n \in DOMAIN poll'.rows : OnChain(lastTip)' => poll'.rows[n].index <= Top(lastTip.index)'
  PROVE  PollInv'
BY DEF PollInv, TipsRead

\* findForkPoint: what it passes over is on the chain.
LEMMA ReadForkFollows ==
  ASSUME FeedTyped, FollowInv, ReadFork
  PROVE  FollowInv'
<1> DEFINE lost == {h \in Remembered : Changed(h)}
           fork == IF lost = {} THEN 0 ELSE Lowest(lost)
           pass == [poll EXCEPT !.pc = "rewind", !.fork = fork]
<1>1. /\ poll.pc = "tips" /\ Reads("poll", pass)
      /\ UNCHANGED <<chain, minted, seeded, lastTip, pendingReorg, blockIndex, actionIndex,
                     history, quiet>>
  BY DEF ReadFork, chainVars, feedVars, cursorVars
<1>2. ReaderTyped /\ PollInv /\ ~Standing /\ poll \in Passes
  BY FeedMoves, PollFields DEF FeedTyped, FollowInv
<1>3. \A h \in lost : h \in Int /\ h >= 1
  BY DEF Remembered, Heights
<1>4. \A h \in Heights : Stale(h) => h \in lost
  BY DEF Stale, Remembered, Changed, NoEntry
<1>5. lost # {} => \A h \in lost : Lowest(lost) <= h
  BY <1>3, LowestIs
<1>6. lost # {} => Lowest(lost) \in lost
  BY <1>3, LowestIs
<1>7. fork \in Nat /\ \A h \in Heights : Stale(h) => ~(fork = 0 \/ h < fork)
  BY <1>3, <1>4, <1>5, <1>6
<1> HIDE DEF lost, fork
<1>8. pass.pc = "rewind" /\ pass.fork = fork /\ pass.block = poll.block /\ pass.action = poll.action
  BY <1>2, PassesAre
<1> HIDE DEF pass
<1>9. /\ ChainInv' /\ TipInv' /\ StandingInv' /\ QuietInv' /\ poll' = pass
      /\ MaxBlock' = MaxBlock /\ (OnChain(lastTip)' <=> OnChain(lastTip))
      /\ Top(lastTip.index)' = Top(lastTip.index)
  BY <1>1, <1>2, <1>8, FeedFrame
<1>10. StaleNoted' /\ CursorsWithin'
  BY <1>1, TipFrame
<1>11. PollInv'
  <2>1. \A h \in Heights : Stale(h)' <=> Stale(h)
    BY <1>1, <1>9 DEF Stale
  <2>2. /\ MaxBlock <= lastTip.index /\ poll.block <= lastTip.index
        /\ OnChain(lastTip) => poll.action <= Top(lastTip.index)
    BY <1>1, <1>2 DEF PollInv, TipsRead
  <2> QED
    BY <1>1, <1>7, <1>8, <1>9, <2>1, <2>2 DEF PollInv
<1> QED
  BY <1>9, <1>10, <1>11 DEF FollowInv

\* The rewind clears the verdict: what it keeps of the history was on the
\* chain, and it brings the cursors to the tips the pass has read.
LEMMA RewindFollows ==
  ASSUME FeedTyped, FollowInv, Rewind
  PROVE  FollowInv'
<1> DEFINE pass == [poll EXCEPT !.pc = "fetch"]
<1>1. /\ poll.pc = "rewind" /\ Reads("poll", pass)
      /\ blockIndex' = RewindBlock /\ actionIndex' = RewindAction /\ pendingReorg' = FALSE
      /\ history' = [h \in Heights |-> IF poll.fork # 0 /\ h >= poll.fork
                                       THEN NoEntry ELSE history[h]]
      /\ UNCHANGED <<chain, minted, seeded, lastTip, quiet>>
  BY RewindDoes DEF chainVars
<1>2. ReaderTyped /\ PollInv /\ ~Standing /\ poll \in Passes /\ CursorTyped
  BY FeedMoves, PollFields DEF FeedTyped, FollowInv
<1>3. pass.pc = "fetch" /\ pass.block = poll.block /\ pass.action = poll.action
  BY <1>2, PassesAre
<1> HIDE DEF pass
<1>4. /\ ChainInv' /\ TipInv' /\ StandingInv' /\ QuietInv' /\ poll' = pass
      /\ MaxBlock' = MaxBlock /\ (OnChain(lastTip)' <=> OnChain(lastTip))
      /\ Top(lastTip.index)' = Top(lastTip.index)
  BY <1>1, <1>2, <1>3, FeedFrame
<1>5. /\ MaxBlock <= lastTip.index /\ poll.block <= lastTip.index
      /\ OnChain(lastTip) => poll.action <= Top(lastTip.index)
      /\ \A h \in Heights : Stale(h) /\ (poll.fork = 0 \/ h < poll.fork) => ~OnChain(lastTip)
  BY <1>1, <1>2 DEF PollInv, TipsRead
<1>6. /\ RewindBlock \in Nat /\ RewindBlock <= blockIndex /\ RewindBlock <= poll.block
      /\ RewindAction \in Int /\ RewindAction <= poll.action
      /\ poll.block \in Nat /\ poll.action \in Nat /\ poll.fork \in Nat
  <2>1. /\ RewindBlock \in 0..MaxBlocks /\ RewindBlock <= blockIndex
        /\ RewindAction \in Int /\ RewindAction <= poll.action
    BY <1>2, RewindIs
  <2>2. /\ poll.block \in Nat /\ poll.action \in Nat /\ poll.fork \in Nat /\ blockIndex \in Nat
    BY <1>2, PollFields, FollowTypes
  <2>3. RewindBlock <= poll.block
    BY <2>2 DEF RewindBlock, Smaller
  <2> QED
    BY <2>1, <2>2, <2>3
<1>7. StaleNoted'
  <2> SUFFICES ASSUME NEW h \in Heights, Stale(h)', OnChain(lastTip)
               PROVE  FALSE
    BY <1>4 DEF StaleNoted
  <2>1. h \in Nat /\ h # 0 /\ blockIndex \in Nat
    BY FollowTypes
  <2>2. ~(poll.fork # 0 /\ h >= poll.fork)
    <3>1. history'[h].hash # 0
      BY DEF Stale
    <3>2. NoEntry.hash = 0
      BY DEF NoEntry
    <3> QED
      BY <1>1, <3>1, <3>2
  <2>3. history'[h] = history[h] /\ h <= blockIndex
    BY <1>1, <1>6, <2>1, <2>2 DEF Stale
  <2>4. Stale(h)
    BY <1>1, <1>4, <2>3 DEF Stale
  <2> QED
    BY <1>5, <1>6, <2>1, <2>2, <2>4
<1>8. CursorsWithin'
  <2>1. OnChain(lastTip) => Top(lastTip.index) \in Nat
    BY FollowTypes DEF OnChain
  <2>2. lastTip.index \in Nat
    BY FollowTypes
  <2> QED
    BY <1>1, <1>4, <1>5, <1>6, <2>1, <2>2 DEF CursorsWithin
<1>9. PollInv'
  BY <1>1, <1>3, <1>4, <1>5 DEF PollInv, TipsRead
<1> QED
  BY <1>4, <1>7, <1>8, <1>9 DEF FollowInv

\* The blocks: what is remembered is read from the chain.
LEMMA ReadBlocksFollows ==
  ASSUME FeedTyped, FollowInv, ReadBlocks
  PROVE  FollowInv'
<1> DEFINE count == Larger(Smaller(blockIndex + FetchLimit, MaxBlock) - blockIndex, 0)
           pass == [poll EXCEPT !.pc = "acts"]
<1>1. /\ poll.pc \in {"fetch", "tips"} /\ Reads("poll", pass)
      /\ history' = [h \in Heights |-> IF h \in (blockIndex + 1)..(blockIndex + count)
                                      THEN [history[h] EXCEPT !.hash = chain[h].hash] ELSE history[h]]
      /\ blockIndex' = NextCursor(blockIndex, count, poll.block)
      /\ pendingReorg' = (pendingReorg \/ Short(blockIndex, count, poll.block))
      /\ UNCHANGED <<chain, minted, seeded, lastTip, actionIndex, quiet>>
  BY DEF ReadBlocks, Fetching, chainVars
<1>2. /\ ReaderTyped /\ PollInv /\ StaleNoted /\ CursorsWithin /\ ~Standing
      /\ poll \in Passes /\ CursorTyped
  BY FeedMoves, PollFields DEF FeedTyped, FollowInv
<1>3. /\ blockIndex \in Nat /\ MaxBlock \in Nat /\ lastTip.index \in Nat /\ pendingReorg \in BOOLEAN
      /\ \A h \in Heights : h \in Nat /\ h # 0
  BY FollowTypes
<1>4. count \in Nat /\ (count # 0 => blockIndex + count <= MaxBlock)
  BY <1>3 DEF Larger, Smaller
<1> HIDE DEF count
<1>5. pass.pc = "acts" /\ pass.block = poll.block /\ pass.action = poll.action
  BY <1>2, PassesAre
<1> HIDE DEF pass
<1>6. /\ ChainInv' /\ TipInv' /\ StandingInv' /\ QuietInv' /\ poll' = pass
      /\ MaxBlock' = MaxBlock /\ (OnChain(lastTip)' <=> OnChain(lastTip))
      /\ Top(lastTip.index)' = Top(lastTip.index)
  BY <1>1, <1>2, <1>5, FeedFrame
<1>7. /\ MaxBlock <= lastTip.index /\ poll.block <= lastTip.index
      /\ OnChain(lastTip) => poll.action <= Top(lastTip.index)
  BY <1>1, <1>2 DEF PollInv, TipsRead
<1>8. blockIndex' = blockIndex + count
  BY <1>1, <1>3, <1>4 DEF NextCursor, Larger
<1>9. \A h \in Heights : Stale(h)' => Stale(h)
  <2> SUFFICES ASSUME NEW h \in Heights, Stale(h)' PROVE Stale(h)
    OBVIOUS
  <2>1. h <= blockIndex + count /\ history'[h].hash # 0
        /\ (h > MaxBlock \/ chain[h].hash # history'[h].hash)
    BY <1>1, <1>6, <1>8 DEF Stale
  <2>2. CASE h \in (blockIndex + 1)..(blockIndex + count)
    <3>1. history[h] \in [hash : 0..MaxMinted, first : SUBSET Firsts]
      BY <1>2 DEF CursorTyped, Histories
    <3>2. history'[h] = [history[h] EXCEPT !.hash = chain[h].hash]
      BY <1>1, <2>2
    <3>3. history'[h].hash = chain[h].hash
      BY <3>1, <3>2
    <3> QED
      BY <1>3, <1>4, <2>1, <2>2, <3>3
  <2>3. CASE h \notin (blockIndex + 1)..(blockIndex + count)
    <3>1. history'[h] = history[h] /\ h <= blockIndex
      BY <1>1, <1>3, <1>4, <2>1, <2>3
    <3> QED
      BY <2>1, <3>1 DEF Stale
  <2> QED
    BY <2>2, <2>3
<1>10. StaleNoted'
  BY <1>1, <1>2, <1>6, <1>9 DEF StaleNoted
<1>11. CursorsWithin'
  BY <1>1, <1>2, <1>3, <1>4, <1>6, <1>7, <1>8 DEF CursorsWithin
<1>12. PollInv'
  BY <1>1, <1>5, <1>6, <1>7 DEF PollInv, TipsRead
<1> QED
  BY <1>6, <1>10, <1>11, <1>12 DEF FollowInv

LEMMA RowsFetched ==
  ASSUME ChainTyped, NEW from \in Int, NEW limit \in Nat, NEW bound \in Int
  PROVE  \A n \in DOMAIN ActionsSince(from, limit, bound) :
           /\ ActionsSince(from, limit, bound)[n].index \in Nat
           /\ ActionsSince(from, limit, bound)[n].index <= MaxAction
<1>1. \A rows : rows = ActionsSince(from, limit, bound) =>
        \A m \in DOMAIN rows : Larger(from, 0) + m \in 1..MaxAction
  BY ActionsSinceAre, ZenonT(60)
<1>2. \A m \in DOMAIN ActionsSince(from, limit, bound) : Larger(from, 0) + m \in 1..MaxAction
  BY <1>1, Zenon
<1>3. MaxAction \in Nat
  BY ChainIs
<1> SUFFICES ASSUME NEW n \in DOMAIN ActionsSince(from, limit, bound)
             PROVE  /\ ActionsSince(from, limit, bound)[n].index \in Nat
                    /\ ActionsSince(from, limit, bound)[n].index <= MaxAction
  OBVIOUS
<1>4. ActionsSince(from, limit, bound)[n].index = Larger(from, 0) + n
  BY RowsSince
<1>5. Larger(from, 0) + n \in 1..MaxAction
  BY <1>2, Zenon
<1> DEFINE index == ActionsSince(from, limit, bound)[n].index
<1>6. index \in 1..MaxAction
  BY <1>4, <1>5
<1> HIDE DEF index
<1>7. index \in Nat /\ index <= MaxAction
  BY <1>3, <1>6
<1> QED
  BY <1>7 DEF index

\* The rows: none is above the tip that was read, while that is on the chain.
LEMMA ReadActionsFollows ==
  ASSUME FeedTyped, FollowInv, ReadActions
  PROVE  FollowInv'
<1> DEFINE rows == ActionsSince(actionIndex, FetchLimit, MaxActions)
           pass == [poll EXCEPT !.pc = "rows", !.rows = rows]
<1>1. /\ poll.pc \in TipsRead
      /\ UNCHANGED <<chain, minted, seeded, lastTip, pendingReorg, blockIndex, actionIndex,
                     history, quiet>>
  BY DEF ReadActions, ActionsDue, Fetching, TipsRead, chainVars, feedVars, cursorVars
<1>2. ReaderTyped /\ ChainTyped /\ PollInv /\ ~Standing
  BY FeedMoves DEF FeedTyped, FollowInv
<1>3. Reads("poll", pass) /\ pass.pc = "rows" /\ pass.rows = rows
  BY <1>2, FollowTypes, ReadActionsIs
<1>4. \A n \in DOMAIN rows : rows[n].index \in Nat /\ rows[n].index <= MaxAction
  BY <1>2, FollowTypes, RowsFetched
<1> HIDE DEF rows
<1> HIDE DEF pass
<1>5. poll.pc \notin {"tip", "probe"} /\ pass.pc \notin {"tip", "probe"}
  BY <1>1, <1>3 DEF TipsRead
<1>6. /\ ChainInv' /\ TipInv' /\ StandingInv' /\ QuietInv' /\ poll' = pass
      /\ MaxBlock' = MaxBlock /\ (OnChain(lastTip)' <=> OnChain(lastTip))
      /\ Top(lastTip.index)' = Top(lastTip.index)
  BY <1>1, <1>2, <1>3, <1>5, FeedFrame
<1>7. StaleNoted' /\ CursorsWithin'
  BY <1>1, TipFrame
<1>8. OnChain(lastTip) => Top(lastTip.index) = MaxAction
  <2>1. MaxBlock <= lastTip.index /\ MaxBlock \in Nat /\ lastTip.index \in Nat
    BY <1>1, <1>2, FollowTypes DEF PollInv
  <2>2. OnChain(lastTip) => lastTip.index = MaxBlock
    BY <2>1 DEF OnChain
  <2> QED
    BY <2>2 DEF MaxAction
<1>9. PollInv'
  BY <1>3, <1>4, <1>6, <1>8, PollOfRows
<1> QED
  BY <1>6, <1>7, <1>9 DEF FollowInv

\* A row's frames leave the cursors alone.
LEMMA SendActionFollows ==
  ASSUME FeedTyped, FollowInv, SendAction
  PROVE  FollowInv'
<1> DEFINE pass == [poll EXCEPT !.pc = "life"]
<1>1. /\ poll.pc = "rows" /\ Reads("poll", pass)
      /\ UNCHANGED <<chain, minted, seeded, lastTip, pendingReorg, blockIndex, actionIndex,
                     history, quiet>>
  BY DEF SendAction, chainVars
<1>2. ReaderTyped /\ PollInv /\ ~Standing /\ poll \in Passes
  BY FeedMoves, PollFields DEF FeedTyped, FollowInv
<1>3. pass.pc = "life" /\ pass.rows = poll.rows
  BY <1>2, PassesAre
<1> HIDE DEF pass
<1>4. /\ ChainInv' /\ TipInv' /\ StandingInv' /\ QuietInv' /\ poll' = pass
      /\ (OnChain(lastTip)' <=> OnChain(lastTip)) /\ Top(lastTip.index)' = Top(lastTip.index)
  BY <1>1, <1>2, <1>3, FeedFrame
<1>5. StaleNoted' /\ CursorsWithin'
  BY <1>1, TipFrame
<1>6. PollInv'
  BY <1>1, <1>2, <1>3, <1>4, PollOfRows DEF PollInv
<1> QED
  BY <1>4, <1>5, <1>6 DEF FollowInv

\* After the last row the cursor is that row's index; the hashes stay.
LEMMA SentFollows ==
  ASSUME FeedInv, FollowInv, ~Standing, ActionsSent, poll.pc \in {"rows", "life"},
         UNCHANGED <<chain, minted, seeded, lastTip, blockIndex, quiet>>
  PROVE  FollowInv'
<1>1. /\ FeedTyped /\ ReaderTyped /\ RowsRun /\ PollInv /\ StaleNoted /\ CursorsWithin /\ CursorTyped
  BY DEF FeedInv, FeedTyped, CursorInv, FollowInv
<1>2. /\ history' = WithFirsts /\ Reads("poll", IdlePass)
      /\ actionIndex' = NextCursor(actionIndex, Len(poll.rows), poll.action)
      /\ pendingReorg' = (pendingReorg \/ Short(actionIndex, Len(poll.rows), poll.action))
  BY DEF ActionsSent, EndPass
<1>3. IdlePass.pc = "idle"
  BY DEF IdlePass
<1>4. /\ ChainInv' /\ TipInv' /\ StandingInv' /\ QuietInv' /\ poll' = IdlePass
      /\ MaxBlock' = MaxBlock
      /\ (OnChain(lastTip)' <=> OnChain(lastTip)) /\ Top(lastTip.index)' = Top(lastTip.index)
  BY <1>1, <1>2, <1>3, FeedFrame
<1>5. \A h \in Heights : history'[h].hash = history[h].hash
  <2> SUFFICES ASSUME NEW h \in Heights PROVE WithFirsts[h].hash = history[h].hash
    BY <1>2
  <2>1. history[h] \in [hash : 0..MaxMinted, first : SUBSET Firsts]
    BY <1>1 DEF CursorTyped, Histories
  <2>2. \E S : WithFirsts[h] = history[h] \/ WithFirsts[h] = [history[h] EXCEPT !.first = S]
    BY DEF WithFirsts
  <2> QED
    BY <2>1, <2>2
<1>6. \A h \in Heights : Stale(h)' <=> Stale(h)
  BY <1>4, <1>5 DEF Stale
<1>7. StaleNoted'
  BY <1>1, <1>2, <1>4, <1>6 DEF StaleNoted
<1>8. CursorsWithin'
  <2> SUFFICES ASSUME ~pendingReorg, OnChain(lastTip)
               PROVE  blockIndex <= lastTip.index /\ actionIndex' <= Top(lastTip.index)
    BY <1>2, <1>4 DEF CursorsWithin
  <2>1. blockIndex <= lastTip.index /\ actionIndex <= Top(lastTip.index)
    BY <1>1 DEF CursorsWithin
  <2>2. poll.rows \in Seq(Rows) /\ Len(poll.rows) \in Nat
    BY <1>1, PollFields
  <2>3. CASE Len(poll.rows) = 0
    BY <1>2, <2>1, <2>3 DEF NextCursor
  <2>4. CASE Len(poll.rows) # 0
    <3>1. Len(poll.rows) \in DOMAIN poll.rows
      BY <2>2, <2>4
    <3>2. poll.rows[Len(poll.rows)].index = Larger(actionIndex, 0) + Len(poll.rows)
      BY <1>1, <3>1 DEF RowsRun
    <3>3. poll.rows[Len(poll.rows)].index <= Top(lastTip.index)
      BY <1>1, <3>1 DEF PollInv
    <3> QED
      BY <1>2, <2>1, <2>4, <3>2, <3>3 DEF NextCursor
  <2> QED
    BY <2>3, <2>4
<1>9. PollInv'
  BY <1>3, <1>4, PollOfRows
<1> QED
  BY <1>4, <1>7, <1>8, <1>9 DEF FollowInv

LEMMA SendLifeFollows ==
  ASSUME FeedInv, FollowInv, SendLife \/ NothingFetched
  PROVE  FollowInv'
<1>1. /\ poll.pc \in {"rows", "life"}
      /\ UNCHANGED <<chain, minted, seeded, lastTip, blockIndex, quiet>>
  BY DEF SendLife, NothingFetched, chainVars
<1>2. FeedTyped /\ ReaderTyped /\ PollInv /\ ~Standing /\ poll \in Passes
  BY FeedMoves, PollFields DEF FeedInv, FeedTyped, FollowInv
<1>3. CASE ActionsSent
  BY <1>1, <1>2, <1>3, SentFollows
<1>4. CASE /\ Reads("poll", [poll EXCEPT !.pc = "rows", !.next = @ + 1])
           /\ UNCHANGED <<pendingReorg, actionIndex, liveMark, history>>
  <2> DEFINE pass == [poll EXCEPT !.pc = "rows", !.next = @ + 1]
  <2>1. Reads("poll", pass) /\ UNCHANGED <<pendingReorg, actionIndex, history>>
    BY <1>4
  <2>2. pass.pc = "rows" /\ pass.rows = poll.rows
    BY <1>2, PassesAre
  <2> HIDE DEF pass
  <2>3. /\ ChainInv' /\ TipInv' /\ StandingInv' /\ QuietInv' /\ poll' = pass
        /\ (OnChain(lastTip)' <=> OnChain(lastTip)) /\ Top(lastTip.index)' = Top(lastTip.index)
    BY <1>1, <1>2, <2>1, <2>2, FeedFrame
  <2>4. StaleNoted' /\ CursorsWithin'
    BY <1>1, <2>1, TipFrame
  <2>5. PollInv'
    BY <1>1, <1>2, <2>2, <2>3, PollOfRows DEF PollInv
  <2> QED
    BY <2>3, <2>4, <2>5 DEF FollowInv
<1> QED
  BY <1>3, <1>4 DEF SendLife, NothingFetched

-----------------------------------------------------------------------------
LEMMA InitFollows == Init => FollowInv
<1> SUFFICES ASSUME Init PROVE FollowInv
  OBVIOUS
<1>1. FeedTyped
  BY InitTyped
<1>2. /\ seeded = FALSE /\ lastTip = NoTip /\ pendingReorg = FALSE /\ quiet = FALSE
      /\ blockIndex = 0 /\ actionIndex = 0 /\ history = [h \in Heights |-> NoEntry]
      /\ reader = [r \in Readers |-> IdlePass] /\ minted = Len(chain)
  BY DEF Init
<1>3. NoTip.index = 0 /\ NoTip.hash = 0 /\ NoEntry.hash = 0 /\ IdlePass.pc = "idle"
  BY DEF NoTip, NoEntry, IdlePass
<1>4. poll.pc = "idle"
  BY <1>2, <1>3 DEF poll, Readers
<1>5. ChainInv
  <2> DEFINE block(h, n) == [hash |-> h, top |-> n]
  <2>1. PICK n \in InitialActions :
          \/ chain = <<block(1, n)>>
          \/ \E m \in n..MaxActions : MaxBlocks > 1 /\ chain = <<block(1, n), block(2, m)>>
    BY DEF Init
  <2>2. n \in 0..MaxActions
    BY <2>1
  <2>3. Top(0) = 0
    BY DEF Top
  <2>4. CASE chain = <<block(1, n)>>
    <3>1. MaxBlock = 1 /\ chain[1].hash = 1 /\ Top(1) = n /\ minted = 1
      BY <1>2, <2>4 DEF MaxBlock, Top
    <3>2. \A h \in 0..1 : h = 0 \/ h = 1
      OBVIOUS
    <3> QED
      BY <2>2, <2>3, <3>1, <3>2 DEF ChainInv
  <2>5. CASE \E m \in n..MaxActions : MaxBlocks > 1 /\ chain = <<block(1, n), block(2, m)>>
    <3>1. PICK m \in n..MaxActions : chain = <<block(1, n), block(2, m)>>
      BY <2>5
    <3>2. /\ MaxBlock = 2 /\ chain[1].hash = 1 /\ chain[2].hash = 2
          /\ Top(1) = n /\ Top(2) = m /\ minted = 2
      BY <1>2, <3>1 DEF MaxBlock, Top
    <3>3. \A h \in 0..2 : h = 0 \/ h = 1 \/ h = 2
      OBVIOUS
    <3> QED
      BY <2>2, <2>3, <3>1, <3>2, <3>3 DEF ChainInv
  <2> QED
    BY <2>1, <2>4, <2>5
<1>6. TipInv
  BY <1>1, <1>2, <1>3, FollowTypes DEF TipInv
<1>7. StandingInv
  BY <1>2, <1>3 DEF StandingInv, CursorsAtTip, HasRead
<1>8. StaleNoted
  BY <1>2, <1>3 DEF StaleNoted, Stale
<1>9. CursorsWithin
  BY <1>1, <1>2, TipIs DEF CursorsWithin
<1>10. PollInv
  BY <1>4 DEF PollInv, TipsRead
<1>11. QuietInv
  BY <1>2 DEF QuietInv
<1> QED
  BY <1>5, <1>6, <1>7, <1>8, <1>9, <1>10, <1>11 DEF FollowInv

LEMMA NextFollows ==
  ASSUME ~OutrunsTip, ~SeedOverlaps, FeedInv, FollowInv, [Next]_vars
  PROVE  FollowInv'
<1>1. FeedTyped
  BY DEF FeedInv
<1>2. CASE IndexerStep
  BY <1>1, <1>2, IndexerFollows
<1>3. CASE StartPoll \/ StartSeed \/ SeedLate \/ NoActions \/ \E r \in Readers : PassFails(r)
  BY <1>1, <1>3, TurnsFollow
<1>4. ASSUME NEW r \in Readers, TipStep(r) PROVE FollowInv'
  BY <1>1, <1>4, ReadTipFollows, ReadProbeFollows, ReadMaxFollows, SeedFollows, SeedHistoryFollows
  DEF TipStep
<1>5. CASE FeedStep
  BY <1>1, <1>3, <1>5, ReadForkFollows, RewindFollows, ReadBlocksFollows, ReadActionsFollows,
     SendActionFollows, SendLifeFollows DEF FeedStep
<1>6. ASSUME NEW c \in Clients,
             Open(c) \/ Reconnect(c) \/ ReplayStep(c) \/ ReplayFails(c) \/ Drop(c)
      PROVE  FollowInv'
  <2>1. UNCHANGED <<chainVars, feedVars, reader, quiet>>
    <3>1. CASE ReplayStep(c)
      BY <3>1, Zenon DEF ReplayStep, Gate, ReadMax, Bound, ReadRows, Stop, ReplayNothing,
                         ReplayRow, ReplayLife
    <3>2. CASE Open(c) \/ Reconnect(c)
      BY <3>2, Zenon DEF Open, Reconnect, GoesLive
    <3>3. CASE ReplayFails(c) \/ Drop(c)
      BY <3>3, Zenon DEF ReplayFails, Drop
    <3> QED
      BY <1>6, <3>1, <3>2, <3>3
  <2> QED
    BY <2>1, FollowFrame DEF chainVars, feedVars, cursorVars
<1>7. CASE UNCHANGED vars
  BY <1>7, FollowFrame DEF vars, chainVars, feedVars, cursorVars
<1> QED
  BY <1>2, <1>3, <1>4, <1>5, <1>6, <1>7 DEF Next, PassStep, SeedStep, Readers

\* What the last poll saw is the chain: its tip is the last tip, with no verdict
\* pending and nothing stale below the cursors.
LEMMA FollowIsCursorsFollow == FeedInv /\ FollowInv => CursorsFollow
<1> SUFFICES ASSUME FeedInv, FollowInv, UpToDate
             PROVE  /\ blockIndex <= MaxBlock /\ actionIndex <= MaxAction /\ liveMark = actionIndex
                    /\ \A h \in 1..blockIndex : history[h].hash # 0 => history[h].hash = chain[h].hash
  BY DEF CursorsFollow
<1>1. FeedTyped /\ MarkInv /\ StaleNoted /\ CursorsWithin /\ QuietInv /\ CursorTyped
  BY DEF FeedInv, FeedTyped, CursorInv, FollowInv
<1>2. poll.pc = "idle" /\ ~pendingReorg /\ lastTip = ChainTip
  BY <1>1 DEF UpToDate, QuietInv
<1>3. OnChain(lastTip) /\ lastTip.index = MaxBlock
  BY <1>1, <1>2, TipIs
<1>4. blockIndex <= MaxBlock /\ actionIndex <= MaxAction
  BY <1>1, <1>2, <1>3 DEF CursorsWithin, MaxAction
<1>5. liveMark = actionIndex
  BY <1>1, <1>2 DEF MarkInv
<1>6. \A h \in 1..blockIndex : history[h].hash # 0 => history[h].hash = chain[h].hash
  <2> SUFFICES ASSUME NEW h \in 1..blockIndex, history[h].hash # 0, history[h].hash # chain[h].hash
               PROVE  FALSE
    OBVIOUS
  <2>1. h \in Heights /\ h <= blockIndex
    BY <1>1 DEF CursorTyped, Heights
  <2> QED
    BY <1>1, <1>2, <1>3, <2>1 DEF StaleNoted, Stale
<1> QED
  BY <1>4, <1>5, <1>6

\* After a pass that nothing disturbed no cursor stays above what the chain has,
\* and the history holds no block up to the cursor that was replaced, whatever
\* the limits and however the chain reorganised: for a chain that does not
\* outrun the tips of a running pass, nor change under a late seed pass.
THEOREM CursorsFollowTheChain ==
  ASSUME ~OutrunsTip, ~SeedOverlaps
  PROVE  Spec => []CursorsFollow
<1>1. Spec => []FeedInv
  BY InitOnce, NextOnce, PTL DEF Spec
<1>2. FeedInv /\ FollowInv /\ [Next]_vars => FollowInv'
  BY NextFollows
<1>3. Spec => []FollowInv
  BY <1>1, <1>2, InitFollows, PTL DEF Spec
<1> QED
  BY <1>1, <1>3, FollowIsCursorsFollow, PTL
====
