--------------------------- MODULE HubMirror_proofs ---------------------------
(***************************************************************************)
(* Theorems about HubMirror for every set of tables, every page and buffer *)
(* limit, every budget of faults and every bound of the model: its types,  *)
(* the gate, and the changes of a hub that revises rows in place.          *)
(***************************************************************************)
EXTENDS HubMirror, WellFoundedInduction, TLAPS

USE TablesAssumption, LimitsAssumption, EnvironmentAssumption

-----------------------------------------------------------------------------
(* The operators the actions are built from.                               *)

\* The later of two times of the model is one of its times.
LEMMA LargerType ==
  ASSUME NEW a \in Times, NEW b \in Times
  PROVE  Larger(a, b) \in Times
BY DEF Larger

\* Merged, the upsert of row_upserts.js, maps mirrors to mirrors.
LEMMA MergedType ==
  ASSUME mirror \in [Tables -> [Ids -> Times]],
         NEW t \in Tables, NEW rows \in [Ids -> Times]
  PROVE  Merged(t, rows) \in [Tables -> [Ids -> Times]]
<1>1. Overwritten(t, rows) \in [Ids -> Times]
  BY DEF Overwritten
<1>2. Upgraded(t, rows) \in [Ids -> Times]
  BY DEF Upgraded, Larger, Times
<1> QED
  BY <1>1, <1>2 DEF Merged

\* A set of naturals with an element has a least one.
LEMMA HasLeast ==
  ASSUME NEW S \in SUBSET Nat, S # {}
  PROVE  \E a \in S : \A b \in S : a <= b
<1>1. \E a \in S : \A b \in S : ~(<<b, a>> \in OpToRel(<, Nat))
  <2>1. IsWellFoundedOn(OpToRel(<, Nat), Nat)
    BY NatLessThanWellFounded
  <2> QED
    BY <2>1, WFMin, Zenon
<1>2. \A a, b \in Nat : b < a => <<b, a>> \in OpToRel(<, Nat)
  BY Zenon DEF OpToRel
<1>3. PICK R : /\ \E a \in S : \A b \in S : ~(<<b, a>> \in R)
               /\ \A a, b \in Nat : b < a => <<b, a>> \in R
  BY <1>1, <1>2, Zenon
<1>4. PICK a \in S : \A b \in S : ~(<<b, a>> \in R)
  BY <1>3, Zenon
<1>5. a \in Nat
  BY <1>4, Zenon
<1>6. \A b \in S : b \in Nat /\ ~(b < a)
  BY <1>3, <1>4, <1>5, Zenon
<1>7. \A b \in S : a <= b
  BY <1>5, <1>6
<1> QED
  BY <1>4, <1>7, Zenon

\* A set of naturals with an element and a bound has a greatest one.
LEMMA HasGreatest ==
  ASSUME NEW n \in Nat, NEW S \in SUBSET (0..n), S # {}
  PROVE  \E a \in S : \A b \in S : b <= a
<1> DEFINE Gaps == {n - a : a \in S}
<1>1. Gaps \in SUBSET Nat /\ Gaps # {}
  <2>1. \A a \in S : n - a \in Nat
    OBVIOUS
  <2> QED
    BY <2>1
<1>2. PICK gap \in Gaps : \A other \in Gaps : gap <= other
  BY <1>1, HasLeast
<1>3. PICK a \in S : gap = n - a
  OBVIOUS
<1>4. \A b \in S : n - a <= n - b
  BY <1>2, <1>3
<1> QED
  BY <1>4

\* HighestIn is an id of the rows, or the position it started from.
LEMMA HighestInType ==
  ASSUME NEW rows \in [Ids -> Times], NEW above
  PROVE  HighestIn(rows, above) \in Ids \cup {above}
<1> DEFINE S == {i \in Ids : rows[i] # 0}
<1>1. CASE S # {}
  <2>1. S \in SUBSET (0..MaxRows)
    BY DEF Ids
  <2>2. \E i \in S : \A j \in S : j <= i
    BY <1>1, <2>1, HasGreatest
  <2>3. \E i \in Ids : rows[i] # 0 /\ \A j \in Ids : rows[j] # 0 => j <= i
    BY <2>2
  <2> QED
    BY <2>3 DEF HighestIn
<1>2. CASE S = {}
  BY <1>2 DEF HighestIn
<1> QED
  BY <1>1, <1>2

\* The least mark of a pass, and the newest version of a buffered row, are
\* times of the model.
LEMMA LeastType ==
  ASSUME NEW S \in SUBSET Times, S # {}
  PROVE  Least(S) \in S
<1>1. S \in SUBSET Nat
  BY DEF Times
<1>2. \E a \in S : \A b \in S : a <= b
  BY <1>1, HasLeast
<1> QED
  BY <1>2 DEF Least

LEMMA NewestType ==
  ASSUME NEW S \in SUBSET Times, S # {}
  PROVE  Newest(S) \in S
<1>1. \E a \in S : \A b \in S : b <= a
  BY HasGreatest DEF Times
<1> QED
  BY <1>1 DEF Newest

\* The rows a replay writes are rows.
LEMMA BufferedRowsType ==
  ASSUME priceBuf \in Seq(RowFrames), NEW n \in 0..Len(priceBuf)
  PROVE  BufferedRows(n) \in [Ids -> Times]
<1>1. \A k \in 1..n : priceBuf[k] \in RowFrames
  OBVIOUS
<1>2. \A k \in 1..n : priceBuf[k].ts \in Times
  BY <1>1 DEF RowFrames
<1>3. ASSUME NEW S \in SUBSET Times
      PROVE  (IF S = {} THEN 0 ELSE Newest(S)) \in Times
  <2>1. S # {} => Newest(S) \in S
    BY NewestType
  <2>2. 0 \in Times
    BY DEF Times
  <2> QED
    BY <2>1, <2>2
<1>4. \A i \in Ids : {priceBuf[k].ts : k \in {j \in 1..n : priceBuf[j].id = i}} \in SUBSET Times
  BY <1>2
<1> QED
  BY <1>3, <1>4, Zenon DEF BufferedRows

\* The oldest unhandled frame is a frame, and a row frame if it says so.
LEMMA HeadType ==
  ASSUME stream \in Seq(Frames), stream # <<>>
  PROVE  /\ Head(stream) \in Frames
         /\ Tail(stream) \in Seq(Frames)
         /\ Head(stream).kind = "row" => Head(stream) \in RowFrames
         /\ Head(stream).kind = "beat" => Head(stream) \in BeatFrames
<1>1. Head(stream) \in Frames /\ Tail(stream) \in Seq(Frames)
  OBVIOUS
<1> QED
  BY <1>1 DEF Frames, RowFrames, BeatFrames

\* Every phase a drain returns to leaves its locals well typed.
LEMMA DrainTypes ==
  ASSUME drain \in DrainStates
  PROVE  /\ IdleDrain \in DrainStates
         /\ epoch \in Nat => [IdleDrain EXCEPT !.phase = "table", !.epoch = epoch, !.todo = Tables]
                             \in DrainStates
         /\ \A marks \in SUBSET Times, undrained \in BOOLEAN :
              TableDone(marks, undrained) => drain' \in DrainStates
         /\ Undrained => drain' \in DrainStates
         /\ drain.marks \in SUBSET Times
         /\ drain.table \in Tables
         /\ drain.page \in [Ids -> Times]
         /\ drain.mark \in Times
         /\ drain.undrained \in BOOLEAN
<1>1. IdleDrain \in DrainStates
  BY DEF IdleDrain, DrainStates, NoRows, Times, Phases
<1>2. /\ drain.marks \in SUBSET Times
      /\ drain.table \in Tables
      /\ drain.page \in [Ids -> Times]
      /\ drain.mark \in Times
      /\ drain.undrained \in BOOLEAN
      /\ drain.epoch \in Nat
      /\ drain.todo \in SUBSET Tables
  BY DEF DrainStates
<1>3. ASSUME NEW e \in Nat, NEW todo \in SUBSET Tables,
             NEW marks \in SUBSET Times, NEW undrained \in BOOLEAN
      PROVE  [IdleDrain EXCEPT !.phase = "table", !.epoch = e, !.todo = todo,
                               !.marks = marks, !.undrained = undrained] \in DrainStates
  BY <1>1 DEF DrainStates, Phases
<1>4. ASSUME epoch \in Nat
      PROVE  [IdleDrain EXCEPT !.phase = "table", !.epoch = epoch, !.todo = Tables]
             \in DrainStates
  BY <1>1, <1>4 DEF DrainStates, Phases
<1>5. ASSUME NEW marks \in SUBSET Times, NEW undrained \in BOOLEAN,
             TableDone(marks, undrained)
      PROVE  drain' \in DrainStates
  <2>1. [IdleDrain EXCEPT !.phase = "table", !.epoch = drain.epoch, !.todo = drain.todo,
                          !.marks = marks, !.undrained = undrained] \in DrainStates
    BY <1>2, <1>3
  <2> QED
    BY <1>5, <2>1 DEF TableDone
<1>6. Undrained => drain' \in DrainStates
  BY <1>2, <1>5 DEF Undrained
<1> QED
  BY <1>1, <1>2, <1>4, <1>5, <1>6

-----------------------------------------------------------------------------
(* The type invariant is inductive: one step per action.                   *)

\* The initial state is well typed.
LEMMA InitTypeOK == Init => TypeOK
<1> SUFFICES ASSUME Init PROVE TypeOK
  OBVIOUS
<1>1. IdleDrain \in DrainStates
  BY DEF IdleDrain, DrainStates, NoRows, Times, Phases
<1>2. stream \in Seq(Frames) /\ priceBuf \in Seq(RowFrames)
  BY DEF Init
<1>3. 0 \in Times /\ 1 \in Times /\ 0 \in 0..MaxRows
  BY DEF Times
<1>4. /\ hub \in [Tables -> [Ids -> Times]]
      /\ mirror \in [Tables -> [Ids -> Times]]
      /\ tableWM \in [Tables -> Times]
      /\ tableEpoch \in [Tables -> Nat]
      /\ owed \in [Tables -> Nat]
      /\ env \in Environments
  BY <1>3, EnvironmentAssumption DEF Init, NoRows
<1>5. /\ hubMax \in [Tables -> 0..MaxRows]
      /\ readyMax \in Ceilings
      /\ positions \in [Tables -> 0..MaxRows]
  BY <1>3 DEF Init, Ceilings
<1>6. drain \in DrainStates
  BY <1>1 DEF Init
<1>7. /\ hubTime \in Times /\ streamWM \in Times /\ hubTip \in Times
      /\ epoch \in Nat \ {0} /\ owedSeq \in Nat
      /\ conn \in {"down", "opening", "live", "closing"}
  BY <1>3 DEF Init
<1>8. /\ knownHub \in BOOLEAN /\ gate \in BOOLEAN /\ schemaSeen \in BOOLEAN
      /\ applySeen \in BOOLEAN /\ priceDrained \in BOOLEAN /\ priceOver \in BOOLEAN
      /\ bootCall \in BOOLEAN /\ retryTimer \in BOOLEAN /\ starting \in BOOLEAN
  BY DEF Init
<1> QED
  BY <1>2, <1>4, <1>5, <1>6, <1>7, <1>8 DEF TypeOK

\* The types of the variables that most actions keep or change together.
HubTyped ==
  /\ hub \in [Tables -> [Ids -> Times]]
  /\ hubMax \in [Tables -> 0..MaxRows]
  /\ hubTime \in Times
LinkTyped ==
  /\ conn \in {"down", "opening", "live", "closing"}
  /\ epoch \in Nat \ {0}
  /\ knownHub \in BOOLEAN
  /\ readyMax \in Ceilings
  /\ stream \in Seq(Frames)
CertTyped ==
  /\ gate \in BOOLEAN
  /\ streamWM \in Times
  /\ hubTip \in Times
  /\ tableEpoch \in [Tables -> Nat]
  /\ tableWM \in [Tables -> Times]
  /\ schemaSeen \in BOOLEAN
  /\ applySeen \in BOOLEAN
TableTyped ==
  /\ mirror \in [Tables -> [Ids -> Times]]
  /\ positions \in [Tables -> 0..MaxRows]
  /\ owed \in [Tables -> Nat]
  /\ owedSeq \in Nat
PriceTyped ==
  /\ priceDrained \in BOOLEAN
  /\ priceBuf \in Seq(RowFrames)
  /\ priceOver \in BOOLEAN
RunTyped == bootCall \in BOOLEAN /\ retryTimer \in BOOLEAN /\ starting \in BOOLEAN

\* An action that keeps the variables of a group keeps their types, and the
\* groups are all there is.
LEMMA TypeFrame ==
  ASSUME TypeOK
  PROVE  /\ HubTyped /\ LinkTyped /\ CertTyped /\ TableTyped /\ PriceTyped /\ RunTyped
         /\ drain \in DrainStates /\ env \in Environments
         /\ UNCHANGED hubVars => HubTyped'
         /\ UNCHANGED linkVars => LinkTyped'
         /\ UNCHANGED certVars => CertTyped'
         /\ UNCHANGED tableVars => TableTyped'
         /\ UNCHANGED priceVars => PriceTyped'
         /\ UNCHANGED runVars => RunTyped'
         /\ /\ HubTyped' /\ LinkTyped' /\ CertTyped' /\ TableTyped' /\ PriceTyped' /\ RunTyped'
            /\ drain' \in DrainStates /\ env' \in Environments
            => TypeOK'
<1>1. /\ HubTyped /\ LinkTyped /\ CertTyped /\ TableTyped /\ PriceTyped /\ RunTyped
      /\ drain \in DrainStates /\ env \in Environments
  BY ZenonT(60)
     DEF TypeOK, HubTyped, LinkTyped, CertTyped, TableTyped, PriceTyped, RunTyped
<1>2. UNCHANGED hubVars => HubTyped'
  BY <1>1 DEF HubTyped, hubVars
<1>3. UNCHANGED linkVars => LinkTyped'
  BY <1>1 DEF LinkTyped, linkVars
<1>4. UNCHANGED certVars => CertTyped'
  BY <1>1 DEF CertTyped, certVars
<1>5. UNCHANGED tableVars => TableTyped'
  BY <1>1 DEF TableTyped, tableVars
<1>6. UNCHANGED priceVars => PriceTyped'
  BY <1>1 DEF PriceTyped, priceVars
<1>7. UNCHANGED runVars => RunTyped'
  BY <1>1 DEF RunTyped, runVars
<1>8. /\ HubTyped' /\ LinkTyped' /\ CertTyped' /\ TableTyped' /\ PriceTyped' /\ RunTyped'
      /\ drain' \in DrainStates /\ env' \in Environments
      => TypeOK'
  BY ZenonT(60)
     DEF TypeOK, HubTyped, LinkTyped, CertTyped, TableTyped, PriceTyped, RunTyped
<1> QED
  BY <1>1, <1>2, <1>3, <1>4, <1>5, <1>6, <1>7, <1>8

\* A fault that is spent leaves fewer.
LEMMA SpendType ==
  ASSUME TypeOK, NEW kind, Spend(kind)
  PROVE  env' \in Environments
<1>1. env \in Environments
  BY DEF TypeOK
<1>2. kind \in Faults /\ env.left[kind] > 0 => env.left[kind] - 1 \in Nat
  BY <1>1 DEF Environments
<1>3. env' = [env EXCEPT !.left[kind] = env.left[kind] - 1] /\ env.left[kind] > 0
  BY DEF Spend
<1> QED
  BY <1>1, <1>2, <1>3 DEF Environments

\* What the hub does.
LEMMA HubStepType == TypeOK /\ HubStep => TypeOK'
<1> SUFFICES ASSUME TypeOK, HubStep PROVE TypeOK'
  OBVIOUS
<1>1. ASSUME NEW t \in Tables, NEW i \in Ids, HubChanges(t, i),
             hubMax' \in [Tables -> 0..MaxRows]
      PROVE  TypeOK'
  <2>1. hubTime + 1 \in Times
    BY <1>1 DEF HubChanges, TypeOK, Times
  <2>2. \A ok \in BOOLEAN : [kind |-> "row", table |-> t, id |-> i, ts |-> hubTime + 1,
                             ok |-> ok, epoch |-> epoch] \in Frames
    BY <2>1 DEF TypeOK, Frames, RowFrames
  <2>3. ASSUME NEW ok \in BOOLEAN, Broadcast(t, i, ok)
        PROVE  stream' \in Seq(Frames)
    <3>1. stream \in Seq(Frames)
      BY DEF TypeOK
    <3> DEFINE frame == [kind |-> "row", table |-> t, id |-> i, ts |-> hubTime + 1,
                         ok |-> ok, epoch |-> epoch]
    <3>2. stream' = Append(stream, frame) \/ stream' = stream
      BY <2>3 DEF Broadcast
    <3>3. frame \in Frames
      BY <2>2
    <3> HIDE DEF frame
    <3> QED
      BY <3>1, <3>2, <3>3
  <2>4. stream' \in Seq(Frames) /\ env' \in Environments
    <3>1. stream' \in Seq(Frames)
      BY <1>1, <2>3 DEF HubChanges
    <3>2. env' = env \/ Spend("refuse")
      BY <1>1 DEF HubChanges
    <3> QED
      BY <3>1, <3>2, SpendType DEF TypeOK
  <2>5. hub' \in [Tables -> [Ids -> Times]]
    BY <1>1, <2>1 DEF HubChanges, TypeOK
  <2>6. hubTime' \in Times
    BY <1>1, <2>1 DEF HubChanges
  <2> QED
    <3>1. HubTyped'
      BY <1>1, <2>5, <2>6 DEF HubTyped
    <3>2. LinkTyped'
      BY <1>1, <2>4, TypeFrame DEF HubChanges, LinkTyped
    <3> QED
      BY <1>1, <2>4, <3>1, <3>2, TypeFrame DEF HubChanges
<1>2. ASSUME NEW t \in Tables, HubInserts(t) PROVE TypeOK'
  <2>1. hubMax[t] + 1 \in Ids /\ hubMax' \in [Tables -> 0..MaxRows]
    BY SMTT(60), <1>2 DEF HubInserts, TypeOK, Ids
  <2> QED
    BY <1>1, <1>2, <2>1 DEF HubInserts
<1>3. ASSUME NEW t \in Tables, NEW i \in Ids, HubRevises(t, i) PROVE TypeOK'
  <2>1. hubMax' \in [Tables -> 0..MaxRows]
    BY <1>3 DEF HubRevises, TypeOK
  <2> QED
    BY <1>1, <1>3, <2>1 DEF HubRevises
<1>4. ASSUME HubBeats PROVE TypeOK'
  <2>1. [kind |-> "beat", ts |-> hubTime, epoch |-> epoch] \in Frames
    BY DEF TypeOK, Frames, BeatFrames
  <2>2. stream' \in Seq(Frames)
    BY <1>4, <2>1 DEF HubBeats, TypeOK
  <2> QED
    <3>1. LinkTyped'
      BY <1>4, <2>2, TypeFrame DEF HubBeats, LinkTyped
    <3> QED
      BY <1>4, <3>1, TypeFrame DEF HubBeats
<1> QED
  BY <1>2, <1>3, <1>4 DEF HubStep

\* markRepageOwed keeps the marks well typed.
LEMMA MarkType ==
  ASSUME TypeOK, NEW S \in SUBSET Tables, Mark(S)
  PROVE  owedSeq' \in Nat /\ owed' \in [Tables -> Nat]
BY DEF TypeOK, Mark

\* What the socket does.
LEMMA SocketStepType == TypeOK /\ SocketStep => TypeOK'
<1> SUFFICES ASSUME TypeOK, SocketStep PROVE TypeOK'
  OBVIOUS
<1>1. ASSUME Connect PROVE TypeOK'
  <2>1. LinkTyped'
    BY <1>1, TypeFrame DEF Connect, LinkTyped
  <2> QED
    BY <1>1, <2>1, TypeFrame DEF Connect
<1>2. ASSUME ReadyArrives PROVE TypeOK'
  <2>1. owedSeq' \in Nat /\ owed' \in [Tables -> Nat]
    BY <1>2, MarkType DEF ReadyArrives
  <2>2. positions' \in [Tables -> 0..MaxRows]
    BY <1>2 DEF ReadyArrives, TypeOK
  <2>3. readyMax' \in Ceilings
    BY <1>2 DEF ReadyArrives, TypeOK, Ceilings
  <2> QED
    <3>1. LinkTyped'
      BY <1>2, <2>3, TypeFrame DEF ReadyArrives, LinkTyped
    <3>2. TableTyped'
      BY <1>2, <2>1, <2>2, TypeFrame DEF ReadyArrives, TableTyped
    <3>3. RunTyped'
      BY <1>2, TypeFrame DEF ReadyArrives, RunTyped
    <3> QED
      BY <1>2, <3>1, <3>2, <3>3, TypeFrame DEF ReadyArrives
<1>3. ASSUME NEW forget \in BOOLEAN, SocketCloses(forget), env' \in Environments
      PROVE  TypeOK'
  <2>1. priceBuf' \in Seq(RowFrames)
    BY <1>3 DEF SocketCloses
  <2>2. epoch' \in Nat \ {0} /\ knownHub' \in BOOLEAN /\ bootCall' \in BOOLEAN
    BY <1>3 DEF SocketCloses, TypeOK
  <2> QED
    <3>1. LinkTyped'
      BY <1>3, <2>2, TypeFrame DEF SocketCloses, LinkTyped
    <3>2. CertTyped'
      BY <1>3, TypeFrame DEF SocketCloses, CertTyped
    <3>3. PriceTyped'
      BY <1>3, <2>1 DEF SocketCloses, PriceTyped
    <3>4. RunTyped'
      BY <1>3, <2>2, TypeFrame DEF SocketCloses, RunTyped
    <3> QED
      BY <1>3, <3>1, <3>2, <3>3, <3>4, TypeFrame DEF SocketCloses
<1>4. ASSUME ConnectionLost PROVE TypeOK'
  BY <1>3, <1>4, SpendType DEF ConnectionLost
<1>5. ASSUME TerminatedSocketCloses PROVE TypeOK'
  BY <1>3, <1>5, TypeFrame DEF TerminatedSocketCloses
<1>6. ASSUME DriveResync, env' \in Environments PROVE TypeOK'
  <2>1. owedSeq' \in Nat /\ owed' \in [Tables -> Nat]
    BY <1>6, MarkType DEF DriveResync
  <2>2. positions' \in [Tables -> 0..MaxRows]
    BY <1>6 DEF DriveResync
  <2> QED
    <3>1. LinkTyped'
      BY <1>6, TypeFrame DEF DriveResync, LinkTyped
    <3>2. TableTyped'
      BY <1>6, <2>1, <2>2, TypeFrame DEF DriveResync, TableTyped
    <3>3. RunTyped'
      BY <1>6, TypeFrame DEF DriveResync, RunTyped
    <3> QED
      BY <1>6, <3>1, <3>2, <3>3, TypeFrame DEF DriveResync
<1>7. ASSUME RequestResync PROVE TypeOK'
  BY <1>6, <1>7, SpendType DEF RequestResync
<1>8. ASSUME StallResync PROVE TypeOK'
  BY <1>6, <1>8, TypeFrame DEF StallResync
<1> QED
  BY <1>1, <1>2, <1>4, <1>5, <1>7, <1>8 DEF SocketStep

\* What the frame handlers do.
LEMMA FrameStepType == TypeOK /\ FrameStep => TypeOK'
<1> SUFFICES ASSUME TypeOK, FrameStep PROVE TypeOK'
  OBVIOUS
<1> USE DEF Pop
<1>1. stream # <<>> => /\ Head(stream) \in Frames
                       /\ Tail(stream) \in Seq(Frames)
                       /\ Head(stream).kind = "row" => Head(stream) \in RowFrames
                       /\ Head(stream).kind = "beat" => Head(stream) \in BeatFrames
  BY HeadType DEF TypeOK
<1>2. ASSUME StaleFrame PROVE TypeOK'
  <2>1. LinkTyped'
    BY <1>1, <1>2, TypeFrame DEF StaleFrame, LinkTyped
  <2> QED
    BY <1>2, <2>1, TypeFrame DEF StaleFrame
<1>3. ASSUME HandleBeat PROVE TypeOK'
  <2>1. stream' \in Seq(Frames) /\ Head(stream).ts \in Times
    BY <1>1, <1>3 DEF HandleBeat, FrameDue, BeatFrames
  <2>2. hubTip' \in Times /\ streamWM' \in Times
    BY <1>3, <2>1, LargerType DEF HandleBeat, TypeOK
  <2>3. tableWM' \in [Tables -> Times]
    BY <1>3, <2>1 DEF HandleBeat, TypeOK
  <2> QED
    <3>1. LinkTyped'
      BY <1>3, <2>1, TypeFrame DEF HandleBeat, LinkTyped
    <3>2. CertTyped'
      BY <1>3, <2>2, <2>3, TypeFrame DEF HandleBeat, CertTyped
    <3> QED
      BY <1>3, <3>1, <3>2, TypeFrame DEF HandleBeat
<1>4. ASSUME RefuseRow PROVE TypeOK'
  <2>1. owedSeq' \in Nat /\ owed' \in [Tables -> Nat]
    BY <1>4, MarkType DEF RefuseRow
  <2> QED
    <3>1. LinkTyped'
      BY <1>1, <1>4, TypeFrame DEF RefuseRow, FrameDue, LinkTyped
    <3>2. CertTyped'
      BY <1>4, TypeFrame DEF RefuseRow, CertTyped
    <3>3. TableTyped'
      BY <1>4, <2>1, TypeFrame DEF RefuseRow, TableTyped
    <3> QED
      BY <1>4, <3>1, <3>2, <3>3, TypeFrame DEF RefuseRow
<1>5. ASSUME BufferRow PROVE TypeOK'
  <2>1. Head(stream) \in RowFrames /\ stream' \in Seq(Frames)
    BY <1>1, <1>5 DEF BufferRow, FrameDue
  <2>2. priceBuf' \in Seq(RowFrames) /\ priceOver' \in BOOLEAN
    <3>1. priceBuf \in Seq(RowFrames) /\ priceOver \in BOOLEAN
      BY DEF TypeOK
    <3>2. <<>> \in Seq(RowFrames) /\ Append(priceBuf, Head(stream)) \in Seq(RowFrames)
      BY <2>1, <3>1
    <3> QED
      BY <1>5, <3>1, <3>2 DEF BufferRow
  <2> QED
    <3>1. LinkTyped'
      BY <1>5, <2>1, TypeFrame DEF BufferRow, LinkTyped
    <3>2. PriceTyped'
      BY <1>5, <2>2, TypeFrame DEF BufferRow, PriceTyped
    <3> QED
      BY <1>5, <3>1, <3>2, TypeFrame DEF BufferRow
<1>6. ASSUME ApplyRow PROVE TypeOK'
  <2> DEFINE row == Head(stream)
  <2>1. row \in RowFrames /\ stream' \in Seq(Frames)
    BY <1>1, <1>6 DEF ApplyRow, FrameDue
  <2>2. row.table \in Tables /\ OneRow(row.id, row.ts) \in [Ids -> Times]
    BY <2>1 DEF RowFrames, OneRow, NoRows, Times
  <2>3. mirror' \in [Tables -> [Ids -> Times]]
    BY <1>6, <2>2, MergedType DEF ApplyRow, TypeOK
  <2> QED
    <3>1. LinkTyped'
      BY <1>6, <2>1, TypeFrame DEF ApplyRow, LinkTyped
    <3>2. TableTyped'
      BY <1>6, <2>3, TypeFrame DEF ApplyRow, TableTyped
    <3> QED
      BY <1>6, <3>1, <3>2, TypeFrame DEF ApplyRow
<1>7. ASSUME ApplyRowFails PROVE TypeOK'
  <2>1. stream' \in Seq(Frames) /\ env' \in Environments
    BY <1>1, <1>7, SpendType DEF ApplyRowFails, FrameDue
  <2> QED
    <3>1. LinkTyped'
      BY <1>7, <2>1, TypeFrame DEF ApplyRowFails, LinkTyped
    <3>2. CertTyped'
      BY <1>7, TypeFrame DEF ApplyRowFails, CertTyped
    <3> QED
      BY <1>7, <2>1, <3>1, <3>2, TypeFrame DEF ApplyRowFails
<1> QED
  BY <1>2, <1>3, <1>4, <1>5, <1>6, <1>7 DEF FrameStep

\* A page of the hub's rows is rows.
LEMMA PageType ==
  ASSUME TypeOK, NEW t \in Tables, NEW above
  PROVE  Page(t, above) \in [Ids -> Times]
BY DEF Page, TypeOK, Times

\* The position after a page is a position.
LEMMA AdvancedType ==
  ASSUME TypeOK, NEW t \in Tables, NEW rows \in [Ids -> Times]
  PROVE  Advanced(t, rows) \in [Tables -> 0..MaxRows]
<1>1. HighestIn(rows, drain.cursor) \in Ids \cup {drain.cursor}
  BY HighestInType
<1>2. drain.cursor \in Nat /\ positions \in [Tables -> 0..MaxRows]
  BY DEF TypeOK, DrainStates
<1>3. CASE HighestIn(rows, drain.cursor) > drain.cursor
  <2>1. HighestIn(rows, drain.cursor) \in 0..MaxRows
    BY <1>1, <1>2, <1>3 DEF Ids
  <2> QED
    BY <1>2, <1>3, <2>1 DEF Advanced
<1>4. CASE ~(HighestIn(rows, drain.cursor) > drain.cursor)
  BY <1>2, <1>4 DEF Advanced
<1> QED
  BY <1>3, <1>4

\* A page that fails half-way leaves a well-typed mirror and position.
LEMMA RowsFailType ==
  ASSUME TypeOK, NEW t \in Tables, NEW rows \in [Ids -> Times], RowsFail(t, rows)
  PROVE  /\ mirror' \in [Tables -> [Ids -> Times]]
         /\ positions' \in [Tables -> 0..MaxRows]
         /\ env' \in Environments
         /\ drain' \in DrainStates
<1>1. PICK bad \in Ids :
        LET kept == [i \in Ids |-> IF i < bad THEN rows[i] ELSE 0] IN
        mirror' = Merged(t, kept) /\ positions' = Advanced(t, kept)
  BY DEF RowsFail
<1> DEFINE kept == [i \in Ids |-> IF i < bad THEN rows[i] ELSE 0]
<1>2. kept \in [Ids -> Times]
  BY DEF Times
<1> HIDE DEF kept
<1>3. Merged(t, kept) \in [Tables -> [Ids -> Times]]
  BY <1>2, MergedType DEF TypeOK
<1>4. Advanced(t, kept) \in [Tables -> 0..MaxRows]
  BY <1>2, AdvancedType
<1>5. mirror' = Merged(t, kept) /\ positions' = Advanced(t, kept)
  BY <1>1 DEF kept
<1>6. env' \in Environments
  BY SpendType DEF RowsFail
<1>7. drain' \in DrainStates
  BY DrainTypes DEF RowsFail, TypeOK
<1> QED
  BY <1>3, <1>4, <1>5, <1>6, <1>7

\* What the pass over the tables does.
LEMMA TableStepType == TypeOK /\ TableStep => TypeOK'
<1> SUFFICES ASSUME TypeOK, TableStep PROVE TypeOK'
  OBVIOUS
<1>1. /\ drain \in DrainStates /\ drain.page \in [Ids -> Times] /\ drain.table \in Tables
      /\ Undrained => drain' \in DrainStates
  BY DrainTypes DEF TypeOK
<1>2. ASSUME NEW t \in Tables, OpenTable(t) PROVE TypeOK'
  <2> DEFINE start == IF t \in FromZeroTables \/ owed[t] # 0 \/ AboveCeiling(t)
                      THEN 0 ELSE positions[t]
  <2>1. start \in 0..MaxRows
    BY DEF TypeOK
  <2>2. owed[t] \in Nat
    BY DEF TypeOK
  <2> HIDE DEF start
  <2>3. drain' = [drain EXCEPT !.phase = "fetch", !.table = t, !.todo = @ \ {t},
                               !.cursor = start, !.full = (start = 0), !.seq = owed[t]]
    BY <1>2 DEF OpenTable, start
  <2>4. start \in Nat /\ (start = 0) \in BOOLEAN /\ "fetch" \in Phases
    BY <2>1 DEF Phases
  <2>5. drain' \in DrainStates
    BY <1>1, <2>2, <2>3, <2>4 DEF DrainStates
  <2>6. positions' \in [Tables -> 0..MaxRows]
    BY <1>2, <2>1 DEF OpenTable, start, TypeOK
  <2> QED
    <3>1. TableTyped'
      BY <1>2, <2>6, TypeFrame DEF OpenTable, TableTyped
    <3> QED
      BY <1>2, <2>5, <3>1, TypeFrame DEF OpenTable
<1>3. ASSUME SkipTables PROVE TypeOK'
  <2>1. drain' \in DrainStates
    BY <1>1, <1>3 DEF SkipTables, DrainStates
  <2> QED
    BY <1>3, <2>1, TypeFrame DEF SkipTables
<1>4. ASSUME ServePage PROVE TypeOK'
  <2>1. Page(drain.table, drain.cursor) \in [Ids -> Times] /\ hubTime \in Times
    BY <1>1, PageType DEF TypeOK
  <2>2. (hubMax[drain.table] - drain.cursor < PageLimit) \in BOOLEAN /\ "page" \in Phases
    BY DEF Phases
  <2>3. drain' \in DrainStates
    BY <1>1, <1>4, <2>1, <2>2 DEF ServePage, DrainStates
  <2> QED
    BY <1>4, <2>3, TypeFrame DEF ServePage
<1>5. ASSUME PageFails PROVE TypeOK'
  <2>1. env' \in Environments
    BY <1>5, SpendType DEF PageFails, TypeOK
  <2> QED
    BY <1>1, <1>5, <2>1, TypeFrame DEF PageFails
<1>6. ASSUME ApplyPage PROVE TypeOK'
  <2>1. mirror' \in [Tables -> [Ids -> Times]]
    BY <1>1, <1>6, MergedType DEF ApplyPage, TypeOK
  <2>2. positions' \in [Tables -> 0..MaxRows]
    BY <1>1, <1>6, AdvancedType DEF ApplyPage
  <2>3. HighestIn(drain.page, drain.cursor) \in Nat
    BY <1>1, HighestInType DEF Ids, DrainStates
  <2>4. NoRows \in [Ids -> Times]
    BY DEF NoRows, Times
  <2>5. drain' \in DrainStates
    BY <1>1, <1>6, <2>3, <2>4 DEF ApplyPage, DrainStates, Phases
  <2> QED
    <3>1. TableTyped'
      BY <1>6, <2>1, <2>2, TypeFrame DEF ApplyPage, TableTyped
    <3> QED
      BY <1>6, <2>5, <3>1, TypeFrame DEF ApplyPage
<1>7. ASSUME ApplyPageFails PROVE TypeOK'
  <2>1. /\ mirror' \in [Tables -> [Ids -> Times]]
        /\ positions' \in [Tables -> 0..MaxRows]
        /\ env' \in Environments
        /\ drain' \in DrainStates
    BY <1>1, <1>7, RowsFailType DEF ApplyPageFails
  <2> QED
    <3>1. TableTyped'
      BY <1>7, <2>1, TypeFrame DEF ApplyPageFails, TableTyped
    <3> QED
      BY <1>7, <2>1, <3>1, TypeFrame DEF ApplyPageFails
<1>8. ASSUME CatchUp PROVE TypeOK'
  <2> DEFINE rows == Page(drain.table, positions[drain.table])
  <2>1. rows \in [Ids -> Times]
    BY <1>1, PageType
  <2>2. /\ Merged(drain.table, rows) \in [Tables -> [Ids -> Times]]
        /\ Advanced(drain.table, rows) \in [Tables -> 0..MaxRows]
    BY <1>1, <2>1, MergedType, AdvancedType DEF TypeOK
  <2> HIDE DEF rows
  <2>3. \/ mirror' = Merged(drain.table, rows) /\ positions' = Advanced(drain.table, rows)
        \/ UNCHANGED <<mirror, positions>>
    BY <1>8 DEF CatchUp, rows
  <2>4. mirror' \in [Tables -> [Ids -> Times]] /\ positions' \in [Tables -> 0..MaxRows]
    BY <2>2, <2>3 DEF TypeOK
  <2>5. env' \in Environments
    <3>1. env' = env \/ Spend("rest")
      BY <1>8 DEF CatchUp
    <3> QED
      BY <3>1, SpendType DEF TypeOK
  <2>6. drain' \in DrainStates
    BY <1>1, <1>8 DEF CatchUp, DrainStates, Phases
  <2> QED
    <3>1. TableTyped'
      BY <1>8, <2>4, TypeFrame DEF CatchUp, TableTyped
    <3> QED
      BY <1>8, <2>5, <2>6, <3>1, TypeFrame DEF CatchUp
<1>9. ASSUME CatchUpFails PROVE TypeOK'
  <2>1. Page(drain.table, positions[drain.table]) \in [Ids -> Times]
    BY <1>1, PageType
  <2>2. /\ mirror' \in [Tables -> [Ids -> Times]]
        /\ positions' \in [Tables -> 0..MaxRows]
        /\ env' \in Environments
        /\ drain' \in DrainStates
    BY <1>1, <1>9, <2>1, RowsFailType DEF CatchUpFails
  <2> QED
    <3>1. TableTyped'
      BY <1>9, <2>2, TypeFrame DEF CatchUpFails, TableTyped
    <3> QED
      BY <1>9, <2>2, <3>1, TypeFrame DEF CatchUpFails
<1>10. ASSUME DrainOutlived PROVE TypeOK'
  BY <1>1, <1>10, TypeFrame DEF DrainOutlived
<1> QED
  BY <1>2, <1>3, <1>4, <1>5, <1>6, <1>7, <1>8, <1>9, <1>10 DEF TableStep

\* How a drain ends.
LEMMA VerdictStepType == TypeOK /\ VerdictStep => TypeOK'
<1> SUFFICES ASSUME TypeOK, VerdictStep PROVE TypeOK'
  OBVIOUS
<1>1. /\ drain \in DrainStates /\ drain.table \in Tables /\ drain.mark \in Times
      /\ drain.marks \in SUBSET Times /\ drain.undrained \in BOOLEAN
      /\ IdleDrain \in DrainStates
      /\ Undrained => drain' \in DrainStates
      /\ \A marks \in SUBSET Times, undrained \in BOOLEAN :
           TableDone(marks, undrained) => drain' \in DrainStates
  BY DrainTypes DEF TypeOK
<1>2. ASSUME NEW n \in 0..Len(priceBuf)
      PROVE  Merged(PriceTable, BufferedRows(n)) \in [Tables -> [Ids -> Times]]
  BY BufferedRowsType, MergedType DEF TypeOK
<1>3. /\ priceBuf \in Seq(RowFrames) /\ Len(priceBuf) \in Nat
      /\ <<>> \in Seq(RowFrames)
      /\ \A n \in 0..Len(priceBuf) : SubSeq(priceBuf, n + 1, Len(priceBuf)) \in Seq(RowFrames)
  BY DEF TypeOK
<1>4. ASSUME QueueReplay PROVE TypeOK'
  <2>1. drain' \in DrainStates
    BY <1>1, <1>4 DEF QueueReplay, DrainStates, Phases
  <2> QED
    BY <1>4, <2>1, TypeFrame DEF QueueReplay
<1>5. ASSUME Replay PROVE TypeOK'
  <2>1. drain' \in DrainStates
    BY ZenonT(60), <1>1, <1>5 DEF Replay, DrainStates, Phases
  <2>2. mirror' \in [Tables -> [Ids -> Times]]
    BY <1>2, <1>3, <1>5 DEF Replay
  <2>3. priceDrained' \in BOOLEAN /\ priceBuf' \in Seq(RowFrames)
    BY <1>3, <1>5 DEF Replay, TypeOK
  <2> QED
    <3>1. TableTyped'
      BY <1>5, <2>2, TypeFrame DEF Replay, TableTyped
    <3>2. PriceTyped'
      BY <1>5, <2>3, TypeFrame DEF Replay, PriceTyped
    <3> QED
      BY <1>5, <2>1, <3>1, <3>2, TypeFrame DEF Replay
<1>6. ASSUME ReplayOverflowed PROVE TypeOK'
  <2>1. PriceTyped'
    BY <1>3, <1>6, TypeFrame DEF ReplayOverflowed, PriceTyped
  <2> QED
    BY <1>1, <1>6, <2>1, TypeFrame DEF ReplayOverflowed
<1>7. ASSUME ReplayFails PROVE TypeOK'
  <2>1. PICK n \in 0..(Len(priceBuf) - 1) :
          /\ mirror' = Merged(PriceTable, BufferedRows(n))
          /\ priceBuf' = SubSeq(priceBuf, n + 1, Len(priceBuf))
    BY <1>7 DEF ReplayFails
  <2>2. n \in 0..Len(priceBuf)
    BY <1>3
  <2>3. mirror' \in [Tables -> [Ids -> Times]] /\ priceBuf' \in Seq(RowFrames)
    BY <1>2, <1>3, <2>1, <2>2
  <2>4. env' \in Environments
    BY <1>7, SpendType DEF ReplayFails
  <2> QED
    <3>1. CertTyped'
      BY <1>7, TypeFrame DEF ReplayFails, CertTyped
    <3>2. TableTyped'
      BY <1>7, <2>3, TypeFrame DEF ReplayFails, TableTyped
    <3>3. PriceTyped'
      BY <1>7, <2>3, TypeFrame DEF ReplayFails, PriceTyped
    <3> QED
      BY <1>1, <1>7, <2>4, <3>1, <3>2, <3>3, TypeFrame DEF ReplayFails
<1>8. ASSUME CertifyTable PROVE TypeOK'
  <2>1. drain' \in DrainStates
    BY <1>1, <1>8 DEF CertifyTable
  <2>2. tableEpoch' \in [Tables -> Nat] /\ tableWM' \in [Tables -> Times]
    BY <1>1, <1>8 DEF CertifyTable, TypeOK
  <2>3. owed' \in [Tables -> Nat]
    BY <1>8 DEF CertifyTable, TypeOK
  <2> QED
    <3>1. CertTyped'
      BY <1>8, <2>2, TypeFrame DEF CertifyTable, CertTyped
    <3>2. TableTyped'
      BY <1>8, <2>3, TypeFrame DEF CertifyTable, TableTyped
    <3> QED
      BY <1>8, <2>1, <3>1, <3>2, TypeFrame DEF CertifyTable
<1>9. ASSUME CertifyFullDrain PROVE TypeOK'
  <2>1. Least(drain.marks) \in Times
    BY <1>1, <1>9, LeastType DEF CertifyFullDrain, DrainClean
  <2>2. streamWM' \in Times
    BY <1>9, <2>1, LargerType DEF CertifyFullDrain, TypeOK
  <2> QED
    <3>1. CertTyped'
      BY <1>9, <2>2, TypeFrame DEF CertifyFullDrain, CertTyped
    <3> QED
      BY <1>1, <1>9, <3>1, TypeFrame DEF CertifyFullDrain
<1>10. ASSUME ScheduleRetry PROVE TypeOK'
  <2>1. RunTyped'
    BY <1>10, TypeFrame DEF ScheduleRetry, RunTyped
  <2> QED
    BY <1>1, <1>10, <2>1, TypeFrame DEF ScheduleRetry
<1> QED
  BY <1>4, <1>5, <1>6, <1>7, <1>8, <1>9, <1>10 DEF VerdictStep

\* How a drain begins.
LEMMA BeginType ==
  ASSUME TypeOK, RunBootCall \/ RetryFires
  PROVE  TypeOK'
<1>1. Begin => drain' \in DrainStates
  BY DrainTypes DEF Begin, TypeOK
<1>2. drain' \in DrainStates
  BY <1>1 DEF RunBootCall, RetryFires, TypeOK
<1>3. CASE RunBootCall
  <2>1. RunTyped'
    BY <1>3, TypeFrame DEF RunBootCall, RunTyped
  <2> QED
    BY <1>2, <1>3, <2>1, TypeFrame DEF RunBootCall
<1>4. CASE RetryFires
  <2>1. RunTyped'
    BY <1>4, TypeFrame DEF RetryFires, RunTyped
  <2> QED
    BY <1>2, <1>4, <2>1, TypeFrame DEF RetryFires
<1> QED
  BY <1>3, <1>4

LEMMA NextType == TypeOK /\ [Next]_vars => TypeOK'
<1> SUFFICES ASSUME TypeOK, [Next]_vars PROVE TypeOK'
  OBVIOUS
<1>1. CASE Next
  BY <1>1, HubStepType, SocketStepType, FrameStepType, TableStepType, VerdictStepType,
     BeginType DEF Next, DrainStep
<1>2. CASE UNCHANGED vars
  BY <1>2, TypeFrame DEF vars
<1> QED
  BY <1>1, <1>2

\* The client never leaves its types: no certificate, position or mark runs
\* out of the range of what it counts, however calls and frames interleave.
THEOREM TypeCorrect == Spec => []TypeOK
<1> QED
  BY InitTypeOK, NextType, PTL DEF Spec

-----------------------------------------------------------------------------
(* The gate.  GateNeedsEveryTable reads only what a full drain has left;   *)
(* the invariant adds what the running pass knows.                         *)

\* The table a pass has opened and not yet returned from.
InHand == IF drain.phase \in {"fetch", "page", "catchup", "verdict", "replay", "landed"}
          THEN {drain.table} ELSE {}

\* A pass without a failure has certified, on its own connection, every table
\* it is done with.
PassCertified ==
  Current /\ Draining /\ ~drain.undrained =>
    \A t \in Tables \ (drain.todo \cup InHand) : tableEpoch[t] = epoch

\* A pass that has an answer has it from a hub it is subscribed to.
PassSubscribed ==
  Current /\ (drain.marks # {} \/ drain.phase \in {"page", "catchup", "verdict",
                                                   "replay", "landed"})
    => conn \in {"live", "closing"}

GateInv ==
  /\ drain.epoch <= epoch
  /\ PassCertified
  /\ GateNeedsEveryTable
  /\ ~RestWithoutStream => PassSubscribed

\* Steps that leave the connection, the pass and the certificates alone.
LEMMA GateUntouched ==
  ASSUME GateInv, UNCHANGED <<epoch, drain, tableEpoch, gate, conn>>
  PROVE  GateInv'
BY DEF GateInv, PassCertified, PassSubscribed, InHand, Current, Draining,
       GateNeedsEveryTable

\* The hub and the frames never touch the gate.
LEMMA HubAndFramesKeepGate ==
  ASSUME GateInv, HubStep \/ FrameStep
  PROVE  GateInv'
<1>1. UNCHANGED <<epoch, drain, tableEpoch, gate, conn>>
  <2> USE DEF certVars
  <2>1. CASE HubStep
    BY <2>1 DEF HubStep, HubInserts, HubRevises, HubChanges, HubBeats
  <2>2. CASE FrameStep
    BY <2>2 DEF FrameStep, StaleFrame, HandleBeat, RefuseRow, BufferRow, ApplyRow,
                ApplyRowFails
  <2> QED
    BY <2>1, <2>2
<1> QED
  BY <1>1, GateUntouched

\* A close takes the certificates with it: the pass is of an older epoch.
LEMMA SocketKeepsGate ==
  ASSUME TypeOK, GateInv, SocketStep
  PROVE  GateInv'
<1> USE DEF GateInv, PassCertified, PassSubscribed, InHand, Current, Draining,
            GateNeedsEveryTable, certVars
<1>1. CASE Connect
  BY <1>1 DEF Connect
<1>2. CASE ReadyArrives
  BY <1>2 DEF ReadyArrives
<1>3. ASSUME NEW forget, SocketCloses(forget) PROVE GateInv'
  <2>1. epoch \in Nat /\ drain.epoch \in Nat
    BY DEF TypeOK, DrainStates
  <2>2. drain.epoch <= epoch' /\ drain.epoch # epoch' /\ drain' = drain /\ ~gate'
    BY <1>3, <2>1 DEF SocketCloses
  <2> QED
    BY <2>2
<1>4. CASE ConnectionLost
  BY <1>3, <1>4 DEF ConnectionLost
<1>5. CASE TerminatedSocketCloses
  BY <1>3, <1>5 DEF TerminatedSocketCloses
<1>6. ASSUME DriveResync PROVE GateInv'
  BY <1>6 DEF DriveResync
<1> QED
  BY <1>1, <1>2, <1>4, <1>5, <1>6 DEF SocketStep, RequestResync, StallResync

\* A table that does not drain is held against the pass.
LEMMA UndrainedKeepsGate ==
  ASSUME TypeOK, GateInv, Undrained, UNCHANGED <<epoch, tableEpoch, gate, conn>>
  PROVE  GateInv'
<1>1. /\ drain' \in DrainStates /\ drain'.epoch = drain.epoch /\ drain'.undrained
      /\ drain'.phase = "table" /\ drain'.marks = drain.marks
  BY DrainTypes DEF TypeOK, Undrained, TableDone, IdleDrain
<1> QED
  BY <1>1 DEF GateInv, PassCertified, PassSubscribed, Current,
              GateNeedsEveryTable

\* The pass over the tables.
LEMMA TablesKeepGate ==
  ASSUME TypeOK, GateInv, TableStep
  PROVE  GateInv'
<1> USE DEF linkVars, certVars
<1>1. drain \in DrainStates
  BY DEF TypeOK
<1>2. ASSUME NEW t \in Tables, OpenTable(t) PROVE GateInv'
  <2>1. /\ drain'.epoch = drain.epoch /\ drain'.phase = "fetch" /\ drain'.table = t
        /\ drain'.todo = drain.todo \ {t} /\ drain'.marks = drain.marks
        /\ drain'.undrained = drain.undrained /\ drain.phase = "table"
    BY <1>1, <1>2 DEF OpenTable, DrainStates
  <2>2. UNCHANGED <<epoch, tableEpoch, gate, conn>>
    BY <1>2 DEF OpenTable
  <2>3. drain'.todo \cup InHand' = drain.todo \cup {t}
    BY <2>1 DEF InHand
  <2>4. PassCertified'
    BY <2>1, <2>2, <2>3 DEF GateInv, PassCertified, InHand, Current, Draining
  <2> QED
    BY <2>1, <2>2, <2>4 DEF GateInv, PassSubscribed, Current, GateNeedsEveryTable
<1>3. ASSUME SkipTables PROVE GateInv'
  <2>1. drain'.epoch = drain.epoch /\ drain.epoch # epoch
    BY <1>1, <1>3 DEF SkipTables, Current, DrainStates
  <2> QED
    BY <1>3, <2>1 DEF SkipTables, GateInv, PassCertified, PassSubscribed, Current,
                      GateNeedsEveryTable
<1>4. ASSUME drain.phase \in {"fetch", "page", "catchup"},
             drain'.phase \in {"page", "fetch", "catchup", "verdict"},
             drain'.epoch = drain.epoch, drain'.table = drain.table,
             drain'.todo = drain.todo, drain'.marks = drain.marks,
             drain'.undrained = drain.undrained,
             drain.phase = "fetch" => RestServes,
             UNCHANGED <<epoch, tableEpoch, gate, conn>>
      PROVE  GateInv'
  <2>1. InHand' = InHand
    BY <1>4 DEF InHand
  <2>2. PassCertified'
    BY <1>4, <2>1 DEF GateInv, PassCertified, Current, Draining
  <2>3. ~RestWithoutStream => PassSubscribed'
    BY <1>4 DEF GateInv, PassSubscribed, Current, RestServes
  <2> QED
    BY <1>4, <2>2, <2>3 DEF GateInv, GateNeedsEveryTable
<1>5. ASSUME ServePage PROVE GateInv'
  <2>1. /\ drain.phase = "fetch" /\ RestServes
        /\ UNCHANGED <<epoch, tableEpoch, gate, conn>>
    BY <1>5 DEF ServePage
  <2>2. /\ drain'.phase = "page" /\ drain'.epoch = drain.epoch
        /\ drain'.table = drain.table /\ drain'.todo = drain.todo
        /\ drain'.marks = drain.marks /\ drain'.undrained = drain.undrained
    BY <1>1, <1>5 DEF ServePage, DrainStates
  <2> QED
    BY <1>4, <2>1, <2>2
<1>6. ASSUME ApplyPage PROVE GateInv'
  <2>1. drain.phase = "page" /\ UNCHANGED <<epoch, tableEpoch, gate, conn>>
    BY <1>6 DEF ApplyPage
  <2>2. /\ drain'.phase \in {"catchup", "fetch"} /\ drain'.epoch = drain.epoch
        /\ drain'.table = drain.table /\ drain'.todo = drain.todo
        /\ drain'.marks = drain.marks /\ drain'.undrained = drain.undrained
    BY <1>1, <1>6 DEF ApplyPage, DrainStates
  <2> QED
    BY <1>4, <2>1, <2>2
<1>7. ASSUME CatchUp PROVE GateInv'
  <2>1. drain.phase = "catchup" /\ UNCHANGED <<epoch, tableEpoch, gate, conn>>
    BY <1>7 DEF CatchUp
  <2>2. /\ drain'.phase = "verdict" /\ drain'.epoch = drain.epoch
        /\ drain'.table = drain.table /\ drain'.todo = drain.todo
        /\ drain'.marks = drain.marks /\ drain'.undrained = drain.undrained
    BY <1>1, <1>7 DEF CatchUp, DrainStates
  <2> QED
    BY <1>4, <2>1, <2>2
<1>8. ASSUME PageFails \/ ApplyPageFails \/ CatchUpFails \/ DrainOutlived PROVE GateInv'
  <2>1. Undrained /\ UNCHANGED <<epoch, tableEpoch, gate, conn>>
    BY <1>8 DEF PageFails, ApplyPageFails, CatchUpFails, RowsFail, DrainOutlived
  <2> QED
    BY <2>1, UndrainedKeepsGate
<1> QED
  BY <1>2, <1>3, <1>5, <1>6, <1>7, <1>8 DEF TableStep

\* How a pass ends: the gate opens on a clean one, and a clean one has
\* certified every table on its own connection.
LEMMA VerdictKeepsGate ==
  ASSUME TypeOK, GateInv, VerdictStep
  PROVE  GateInv'
<1> USE DEF linkVars, certVars
<1>1. drain \in DrainStates /\ drain.table \in Tables
  BY DrainTypes DEF TypeOK
<1>2. ASSUME drain.phase \in {"verdict", "replay"}, drain'.phase \in {"replay", "landed"},
             drain' = [drain EXCEPT !.phase = drain'.phase],
             UNCHANGED <<epoch, tableEpoch, gate, conn>>
      PROVE  GateInv'
  <2>1. /\ drain'.epoch = drain.epoch /\ drain'.table = drain.table
        /\ drain'.todo = drain.todo /\ drain'.marks = drain.marks
        /\ drain'.undrained = drain.undrained
    BY <1>1, <1>2 DEF DrainStates
  <2>2. InHand' = InHand
    BY <1>2, <2>1 DEF InHand
  <2>3. PassCertified'
    BY <1>2, <2>1, <2>2 DEF GateInv, PassCertified, Current, Draining
  <2>4. ~RestWithoutStream => PassSubscribed'
    BY <1>2, <2>1 DEF GateInv, PassSubscribed, Current
  <2> QED
    BY <1>2, <2>1, <2>3, <2>4 DEF GateInv, GateNeedsEveryTable
<1>3. ASSUME QueueReplay PROVE GateInv'
  <2>1. drain'.phase = "replay"
    BY <1>1, <1>3 DEF QueueReplay, DrainStates
  <2> QED
    BY <1>2, <1>3, <2>1 DEF QueueReplay
<1>4. ASSUME Replay PROVE GateInv'
  <2>1. UNCHANGED <<epoch, tableEpoch, gate, conn>>
    BY <1>4 DEF Replay
  <2>2. CASE Current
    <3>1. drain' = [drain EXCEPT !.phase = "landed"] /\ drain.phase = "replay"
      BY <1>4, <2>2 DEF Replay
    <3>2. drain'.phase = "landed"
      BY <1>1, <3>1 DEF DrainStates
    <3> QED
      BY <1>2, <2>1, <3>1, <3>2
  <2>3. CASE ~Current
    BY <1>4, <2>1, <2>3, UndrainedKeepsGate DEF Replay
  <2> QED
    BY <2>2, <2>3
<1>5. ASSUME ReplayOverflowed \/ ReplayFails PROVE GateInv'
  <2>1. Undrained /\ UNCHANGED <<epoch, tableEpoch, gate, conn>>
    BY <1>5 DEF ReplayOverflowed, ReplayFails
  <2> QED
    BY <2>1, UndrainedKeepsGate
<1>6. ASSUME CertifyTable PROVE GateInv'
  <2>1. /\ drain'.epoch = drain.epoch /\ drain'.phase = "table"
        /\ drain'.todo = drain.todo /\ drain'.undrained = drain.undrained
    BY <1>1, <1>6 DEF CertifyTable, TableDone, IdleDrain
  <2>2. /\ drain.phase \in {"verdict", "landed"} /\ Current
        /\ tableEpoch' = [tableEpoch EXCEPT ![drain.table] = epoch]
        /\ UNCHANGED <<epoch, gate, conn>>
    BY <1>6 DEF CertifyTable
  <2>3. \A t \in Tables : tableEpoch'[t] = IF t = drain.table THEN epoch ELSE tableEpoch[t]
    BY <2>2 DEF TypeOK
  <2>4. InHand = {drain.table} /\ InHand' = {}
    BY <2>1, <2>2 DEF InHand
  <2>5. PassCertified'
    BY <2>1, <2>2, <2>3, <2>4 DEF GateInv, PassCertified, Current, Draining
  <2>6. GateNeedsEveryTable'
    BY <2>2, <2>3 DEF GateInv, GateNeedsEveryTable
  <2>7. ~RestWithoutStream => PassSubscribed'
    BY <2>2 DEF GateInv, PassSubscribed
  <2> QED
    BY <2>1, <2>2, <2>5, <2>6, <2>7 DEF GateInv
<1>7. drain' = IdleDrain =>
        /\ drain'.phase = "idle" /\ drain'.epoch = 0 /\ drain'.marks = {}
  BY DEF IdleDrain
<1>8. epoch \in Nat \ {0}
  BY DEF TypeOK
<1>9. ASSUME drain' = IdleDrain, UNCHANGED epoch
      PROVE  drain'.epoch <= epoch' /\ PassCertified' /\ PassSubscribed'
  BY <1>7, <1>8, <1>9 DEF PassCertified, PassSubscribed, Current, Draining
<1>10. ASSUME CertifyFullDrain PROVE GateInv'
  <2>1. /\ drain.phase = "table" /\ drain.todo = {} /\ Current /\ ~drain.undrained
        /\ drain.marks # {} /\ drain' = IdleDrain
        /\ UNCHANGED <<epoch, tableEpoch, conn>>
    BY <1>10 DEF CertifyFullDrain, DrainClean
  <2>2. \A t \in Tables : tableEpoch[t] = epoch
    BY <2>1 DEF GateInv, PassCertified, InHand, Draining
  <2>3. ~RestWithoutStream => conn \in {"live", "closing"}
    BY <2>1 DEF GateInv, PassSubscribed
  <2> QED
    BY <1>9, <2>1, <2>2, <2>3 DEF GateInv, GateNeedsEveryTable
<1>11. ASSUME ScheduleRetry PROVE GateInv'
  BY <1>9, <1>11 DEF ScheduleRetry, GateInv, GateNeedsEveryTable
<1> QED
  BY <1>3, <1>4, <1>5, <1>6, <1>10, <1>11 DEF VerdictStep

\* A pass begins with every table to do.
LEMMA BeginKeepsGate ==
  ASSUME TypeOK, GateInv, RunBootCall \/ RetryFires
  PROVE  GateInv'
<1>1. UNCHANGED <<epoch, tableEpoch, gate, conn>>
  BY DEF RunBootCall, RetryFires, linkVars, certVars
<1>2. CASE UNCHANGED drain
  BY <1>1, <1>2, GateUntouched
<1>3. CASE Begin
  <2>1. /\ drain'.epoch = epoch /\ drain'.phase = "table" /\ drain'.todo = Tables
        /\ drain'.marks = {}
    BY <1>3 DEF Begin, IdleDrain
  <2>2. epoch \in Nat
    BY DEF TypeOK
  <2> QED
    BY <1>1, <2>1, <2>2 DEF GateInv, PassCertified, PassSubscribed,
                            GateNeedsEveryTable
<1> QED
  BY <1>2, <1>3 DEF RunBootCall, RetryFires

LEMMA GateInductive ==
  /\ Init => GateInv
  /\ TypeOK /\ GateInv /\ [Next]_vars => GateInv'
<1>1. Init => GateInv
  BY DEF Init, GateInv, PassCertified, PassSubscribed, Current, Draining, IdleDrain,
         GateNeedsEveryTable
<1>2. ASSUME TypeOK, GateInv, Next PROVE GateInv'
  BY <1>2, HubAndFramesKeepGate, SocketKeepsGate, TablesKeepGate, VerdictKeepsGate,
     BeginKeepsGate DEF Next, DrainStep
<1>3. ASSUME GateInv, UNCHANGED vars PROVE GateInv'
  BY <1>3, GateUntouched DEF vars, linkVars, certVars
<1> QED
  BY <1>1, <1>2, <1>3

\* The gate is never opened by adding up the tables of two connections: every
\* close, wherever it falls between two awaits of bootstrapAll, disarms
\* certifyFullDrain until a whole pass ran on the new one.
THEOREM GateCertifiesEveryTable == Spec => []GateNeedsEveryTable
<1>1. TypeOK /\ GateInv => GateNeedsEveryTable
  BY DEF GateInv
<1> QED
  BY <1>1, InitTypeOK, NextType, GateInductive, PTL DEF Spec

-----------------------------------------------------------------------------
(* A hub that changes rows in place.  Every change of a table certified on  *)
(* this connection is held or on its way, or the table owes a page from     *)
(* zero: whatever loses a change marks the table or ends the connection,    *)
(* and a mark is settled only by a drain begun after it.                    *)

\* What is asked of the scenario, at the start: the tables the hub revises keep
\* the newer version of a row, and no live row fails to apply.
NewestKept == env.revised \cap WholeRowTables = {}
LiveRowsApply == env.left["live"] = 0

\* A version of row i that the hub may have sent: where it only appends there is one.
Version(t, i, ts) ==
  \/ ts = 0
  \/ ts = hub[t][i]
  \/ t \in env.revised /\ ts <= hub[t][i]

Holds(t, i) == mirror[t][i] = hub[t][i]
Settled(t, i) == Holds(t, i) \/ OnItsWay(t, i)
AllSettled(t) == \A i \in Ids : Settled(t, i)
HeldTo(t, n) == n <= hubMax[t] /\ \A i \in Ids : i <= n => Holds(t, i)

VersionsInv ==
  /\ env.revised \cap WholeRowTables = {} /\ env.left["live"] = 0
  /\ \A t \in Tables, i \in Ids : /\ hub[t][i] # 0 <=> i <= hubMax[t]
                                  /\ hub[t][i] <= hubTime
                                  /\ Version(t, i, mirror[t][i])
  /\ \A n \in 1..Len(stream) : stream[n].kind = "row" =>
       Version(stream[n].table, stream[n].id, stream[n].ts)
  /\ \A k \in 1..Len(priceBuf) : Version(PriceTable, priceBuf[k].id, priceBuf[k].ts)
  /\ drain.phase = "page" => \A i \in Ids : Version(drain.table, i, drain.page[i])

\* The phases of a table that has its answer.
Answered == {"page", "catchup", "verdict", "replay", "landed"}

LinkInv ==
  /\ drain.epoch <= epoch
  /\ \A t \in Tables : /\ tableEpoch[t] <= epoch
                       /\ tableEpoch[t] = epoch => conn \in {"live", "closing"}
  /\ drain.phase \in Answered /\ Current => conn = "live"

OwedInv ==
  /\ drain.seq <= owedSeq
  /\ \A t \in Tables : owed[t] <= owedSeq
  /\ conn = "closing" => \A t \in Tables : owed[t] # 0
  /\ conn = "live" => \A t \in RepageTables : owed[t] = 0 => tableEpoch[t] = epoch
  /\ InHand # {} => owed[drain.table] = drain.seq \/ owed[drain.table] # 0

BufferInv ==
  /\ tableEpoch[PriceTable] = epoch => priceDrained
  /\ drain.phase = "landed" /\ Current => priceDrained
  /\ priceDrained => priceBuf = <<>> /\ ~priceOver

PrefixInv ==
  /\ \A t \in Tables \ env.revised : HeldTo(t, positions[t])
  /\ \A t \in InHand \ env.revised : HeldTo(t, drain.cursor)

\* Nothing has been marked, or lost from the price buffer, since the drain of
\* the table in hand began.
Clear ==
  /\ Current /\ conn = "live"
  /\ owed[drain.table] = drain.seq
  /\ ~(drain.table = PriceTable /\ priceOver)

Paged(t) ==
  \E last \in 0..hubMax[t] :
    \A i \in Ids : drain.page[i] # 0 <=> drain.cursor < i /\ i <= last

Drained(t) ==
  /\ drain.phase = "page" => Paged(t)
  /\ drain.phase \in {"fetch", "page"} /\ Clear =>
       \A i \in Ids : i <= drain.cursor => Settled(t, i)
  /\ drain.phase = "page" /\ Clear =>
       \A i \in Ids : drain.cursor < i /\ (drain.short \/ drain.page[i] # 0) =>
         Settled(t, i) \/ drain.page[i] = hub[t][i]
  /\ drain.phase \in Answered \ {"page"} /\ Clear => AllSettled(t)
DrainedInv == \A t \in InHand : Drained(t)

SettledInv == \A t \in Tables : tableEpoch[t] = epoch /\ owed[t] = 0 => AllSettled(t)

ReviseInv ==
  /\ VersionsInv /\ LinkInv /\ OwedInv /\ BufferInv /\ PrefixInv /\ DrainedInv /\ SettledInv

-----------------------------------------------------------------------------
(* Types of what the invariant speaks of, and its frames.                  *)

LEMMA ReviseTypes ==
  ASSUME TypeOK
  PROVE  /\ epoch \in Nat \ {0} /\ hubTime \in Nat /\ owedSeq \in Nat
         /\ conn \in {"down", "opening", "live", "closing"}
         /\ priceDrained \in BOOLEAN /\ priceOver \in BOOLEAN
         /\ drain.epoch \in Nat /\ drain.cursor \in Nat /\ drain.seq \in Nat
         /\ drain.table \in Tables /\ drain.short \in BOOLEAN /\ drain.full \in BOOLEAN
         /\ drain.phase \in Phases /\ drain.page \in [Ids -> Times]
         /\ \A i \in Ids : i \in Nat \ {0} /\ i <= MaxRows /\ drain.page[i] \in Nat
         /\ \A i \in Nat \ {0} : i <= MaxRows => i \in Ids
         /\ \A t \in Tables : /\ hubMax[t] \in 0..MaxRows /\ positions[t] \in 0..MaxRows
                              /\ owed[t] \in Nat /\ tableEpoch[t] \in Nat
         /\ \A t \in Tables, i \in Ids : hub[t][i] \in Nat /\ mirror[t][i] \in Nat
         /\ env.revised \subseteq RepageTables /\ RepageTables \subseteq Tables
<1>1. /\ HubTyped /\ LinkTyped /\ CertTyped /\ TableTyped /\ PriceTyped
      /\ drain \in DrainStates /\ env \in Environments
  BY TypeFrame
<1>2. /\ drain.epoch \in Nat /\ drain.cursor \in Nat /\ drain.seq \in Nat
      /\ drain.table \in Tables /\ drain.short \in BOOLEAN /\ drain.full \in BOOLEAN
      /\ drain.phase \in Phases /\ drain.page \in [Ids -> Times]
  BY <1>1 DEF DrainStates
<1>3. \A i \in Ids : i \in Nat \ {0} /\ i <= MaxRows /\ drain.page[i] \in Nat
  BY <1>2 DEF Ids, Times
<1>4. \A i \in Nat \ {0} : i <= MaxRows => i \in Ids
  BY DEF Ids
<1>5. \A t \in Tables : /\ hubMax[t] \in 0..MaxRows /\ positions[t] \in 0..MaxRows
                        /\ owed[t] \in Nat /\ tableEpoch[t] \in Nat
  BY <1>1 DEF HubTyped, TableTyped, CertTyped
<1>6. \A t \in Tables, i \in Ids : hub[t][i] \in Nat /\ mirror[t][i] \in Nat
  BY <1>1 DEF HubTyped, TableTyped, Times
<1>7. /\ epoch \in Nat \ {0} /\ hubTime \in Nat /\ owedSeq \in Nat
      /\ conn \in {"down", "opening", "live", "closing"}
      /\ priceDrained \in BOOLEAN /\ priceOver \in BOOLEAN
  BY <1>1 DEF HubTyped, TableTyped, LinkTyped, PriceTyped, Times
<1>8. env.revised \subseteq RepageTables /\ RepageTables \subseteq Tables
  BY <1>1 DEF Environments
<1> QED
  BY <1>2, <1>3, <1>4, <1>5, <1>6, <1>7, <1>8

\* The environment keeps its scenario, whatever fault it spends but the live one.
SameScenario == env'.revised = env.revised /\ env'.left["live"] = env.left["live"]

LEMMA ScenarioKept ==
  ASSUME TypeOK, env.left["live"] = 0, env' = env \/ \E kind \in Faults : Spend(kind)
  PROVE  SameScenario
<1>1. env \in Environments
  BY TypeFrame
<1>2. CASE env' = env
  BY <1>2 DEF SameScenario
<1>3. ASSUME NEW kind \in Faults, Spend(kind)
      PROVE  SameScenario
  <2>1. kind # "live" /\ env' = [env EXCEPT !.left[kind] = env.left[kind] - 1]
    BY <1>3 DEF Spend
  <2>2. env.left \in [Faults -> Nat] /\ "live" \in Faults
    BY <1>1 DEF Environments, Faults
  <2> QED
    BY <1>1, <2>1, <2>2 DEF SameScenario, Environments
<1> QED
  BY <1>2, <1>3

\* What is settled, where the hub stands still and no frame is lost.
KeepsSettled == \A t \in Tables, i \in Ids : Settled(t, i) => Settled(t, i)'

LEMMA SettledFrame ==
  ASSUME UNCHANGED <<hub, mirror, epoch, stream, priceBuf>>
  PROVE  KeepsSettled
BY DEF KeepsSettled, Settled, Holds, OnItsWay

\* The parts that a step does not touch.
LEMMA VersionsFrame ==
  ASSUME VersionsInv, SameScenario, UNCHANGED <<hub, hubMax, hubTime, stream, priceBuf>>,
         \A t \in Tables, i \in Ids : Version(t, i, mirror'[t][i]),
         drain'.phase = "page" => UNCHANGED drain
  PROVE  VersionsInv'
<1>1. \A t \in Tables, i \in Ids : Version(t, i, mirror[t][i])'
  BY DEF Version, SameScenario
<1>2. \A n \in 1..Len(stream) : stream'[n].kind = "row" =>
        Version(stream[n].table, stream[n].id, stream[n].ts)'
  BY DEF Version, SameScenario, VersionsInv
<1>3. \A k \in 1..Len(priceBuf) : Version(PriceTable, priceBuf[k].id, priceBuf[k].ts)'
  BY DEF Version, SameScenario, VersionsInv
<1>4. drain'.phase = "page" => \A i \in Ids : Version(drain.table, i, drain.page[i])'
  BY DEF Version, SameScenario, VersionsInv
<1> QED
  BY <1>1, <1>2, <1>3, <1>4 DEF VersionsInv, SameScenario

-----------------------------------------------------------------------------
(* Upserts: the mirror holds versions of the hub, and what it holds it keeps. *)

LEMMA MergedSettles ==
  ASSUME TypeOK, VersionsInv, NEW t \in Tables, NEW rows \in [Ids -> Times],
         \A i \in Ids : Version(t, i, rows[i]), mirror' = Merged(t, rows)
  PROVE  /\ \A u \in Tables, i \in Ids : Version(u, i, mirror'[u][i])
         /\ \A u \in Tables, i \in Ids : Holds(u, i) => mirror'[u][i] = hub[u][i]
         /\ \A i \in Ids : rows[i] = hub[t][i] => mirror'[t][i] = hub[t][i]
<1>1. /\ mirror \in [Tables -> [Ids -> Times]] /\ env.revised \cap WholeRowTables = {}
      /\ \A i \in Ids : hub[t][i] \in Nat /\ mirror[t][i] \in Nat /\ rows[i] \in Nat
      /\ \A u \in Tables, i \in Ids : Version(u, i, mirror[u][i])
  <2>1. mirror \in [Tables -> [Ids -> Times]]
    BY TypeFrame DEF TableTyped
  <2>2. \A i \in Ids : hub[t][i] \in Nat /\ mirror[t][i] \in Nat
    BY ReviseTypes
  <2>3. \A i \in Ids : rows[i] \in Nat
    BY DEF Times
  <2> QED
    BY <2>1, <2>2, <2>3 DEF VersionsInv
<1>2. ASSUME NEW u \in Tables, u # t
      PROVE  mirror'[u] = mirror[u]
  BY <1>1, <1>2 DEF Merged
<1>3. ASSUME NEW i \in Ids
      PROVE  /\ Version(t, i, mirror'[t][i])
             /\ Holds(t, i) => mirror'[t][i] = hub[t][i]
             /\ rows[i] = hub[t][i] => mirror'[t][i] = hub[t][i]
  <2>1. Version(t, i, mirror[t][i]) /\ Version(t, i, rows[i])
    BY <1>1
  <2>2. CASE t \in WholeRowTables
    <3>1. mirror'[t][i] = IF rows[i] # 0 THEN rows[i] ELSE mirror[t][i]
      BY <1>1, <2>2 DEF Merged, Overwritten
    <3>2. t \notin env.revised
      BY <1>1, <2>2
    <3> QED
      BY <1>1, <2>1, <3>1, <3>2 DEF Version, Holds
  <2>3. CASE t \notin WholeRowTables
    <3>1. mirror'[t][i] = IF mirror[t][i] < rows[i] THEN rows[i] ELSE mirror[t][i]
      BY <1>1, <2>3 DEF Merged, Upgraded, Larger
    <3>2. mirror[t][i] \in Nat /\ rows[i] \in Nat /\ hub[t][i] \in Nat
      BY <1>1
    <3>3. mirror[t][i] <= hub[t][i] /\ rows[i] <= hub[t][i]
      BY <2>1, <3>2 DEF Version
    <3>4. Version(t, i, mirror'[t][i])
      BY <2>1, <3>1, Zenon
    <3>5. mirror[t][i] = hub[t][i] \/ rows[i] = hub[t][i] => mirror'[t][i] = hub[t][i]
      BY <3>1, <3>2, <3>3
    <3> QED
      BY <3>4, <3>5 DEF Holds
  <2> QED
    BY <2>2, <2>3
<1> QED
  BY <1>1, <1>2, <1>3 DEF Holds

LEMMA MergedKeeps ==
  ASSUME TypeOK, VersionsInv, NEW t \in Tables, NEW rows \in [Ids -> Times],
         \A i \in Ids : Version(t, i, rows[i]), mirror' = Merged(t, rows),
         UNCHANGED <<hub, epoch, stream, priceBuf>>
  PROVE  /\ KeepsSettled
         /\ \A u \in Tables, i \in Ids : Holds(u, i) => Holds(u, i)'
         /\ \A i \in Ids : rows[i] = hub[t][i] => Holds(t, i)'
<1>1. /\ \A u \in Tables, i \in Ids : Holds(u, i) => mirror'[u][i] = hub[u][i]
      /\ \A i \in Ids : rows[i] = hub[t][i] => mirror'[t][i] = hub[t][i]
  BY MergedSettles
<1>2. \A u \in Tables, i \in Ids : Holds(u, i) => Holds(u, i)'
  BY <1>1 DEF Holds
<1>3. \A u \in Tables, i \in Ids : OnItsWay(u, i) => OnItsWay(u, i)'
  BY DEF OnItsWay
<1> QED
  BY <1>1, <1>2, <1>3 DEF Holds, KeepsSettled, Settled

\* A page of the hub, and the part of it below a row that fails.
LEMMA PageVersions ==
  ASSUME TypeOK, VersionsInv, NEW t \in Tables, NEW above \in Nat
  PROVE  /\ Page(t, above) \in [Ids -> Times]
         /\ \A i \in Ids : Version(t, i, Page(t, above)[i])
<1>1. Page(t, above) \in [Ids -> Times]
  BY PageType
<1> QED
  BY <1>1 DEF Page, Version

\* The rows of a replay are versions too, the newest that are buffered.
LEMMA BufferedVersions ==
  ASSUME TypeOK, VersionsInv, NEW n \in 0..Len(priceBuf)
  PROVE  /\ BufferedRows(n) \in [Ids -> Times]
         /\ \A i \in Ids : Version(PriceTable, i, BufferedRows(n)[i])
         /\ \A k \in 1..n : priceBuf[k].ts = hub[PriceTable][priceBuf[k].id] =>
              BufferedRows(n)[priceBuf[k].id] = hub[PriceTable][priceBuf[k].id]
<1>1. priceBuf \in Seq(RowFrames) /\ BufferedRows(n) \in [Ids -> Times] /\ PriceTable \in Tables
  BY TypeFrame, BufferedRowsType DEF PriceTyped
<1>2. \A k \in 1..n : /\ priceBuf[k].ts \in Times /\ priceBuf[k].id \in Ids
                      /\ Version(PriceTable, priceBuf[k].id, priceBuf[k].ts)
  <2>1. \A k \in 1..n : k \in 1..Len(priceBuf) /\ priceBuf[k] \in RowFrames
    BY <1>1
  <2> QED
    BY <2>1 DEF RowFrames, VersionsInv
<1> DEFINE times(i) == {priceBuf[k].ts : k \in {j \in 1..n : priceBuf[j].id = i}}
<1>3. ASSUME NEW i \in Ids
      PROVE  BufferedRows(n)[i] = IF times(i) = {} THEN 0 ELSE Newest(times(i))
  BY DEF BufferedRows
<1>4. \A i \in Ids : times(i) \in SUBSET Times /\ \A ts \in times(i) : Version(PriceTable, i, ts)
  BY <1>2
<1>5. \A k \in 1..n : priceBuf[k].ts \in times(priceBuf[k].id)
  OBVIOUS
<1>6. ASSUME NEW S \in SUBSET Times, S # {}
      PROVE  Newest(S) \in S /\ \A a \in S : a <= Newest(S)
  <2>1. \E a \in S : \A b \in S : b <= a
    BY <1>6, HasGreatest DEF Times
  <2> QED
    BY <2>1 DEF Newest
<1> HIDE DEF times
<1>7. ASSUME NEW i \in Ids
      PROVE  /\ Version(PriceTable, i, BufferedRows(n)[i])
             /\ \A ts \in times(i) : ts = hub[PriceTable][i] => BufferedRows(n)[i] = ts
  <2>1. CASE times(i) = {}
    BY <1>3, <2>1 DEF Version
  <2>2. CASE times(i) # {}
    <3> DEFINE newest == Newest(times(i))
    <3>1. newest \in times(i) /\ \A ts \in times(i) : ts <= newest
      BY <1>4, <1>6, <2>2
    <3>2. BufferedRows(n)[i] = newest
      BY <1>3, <2>2
    <3> HIDE DEF newest
    <3>3. hub[PriceTable][i] \in Nat /\ newest \in Nat /\ Version(PriceTable, i, newest)
      BY <1>1, <1>4, <3>1, ReviseTypes DEF Times
    <3>4. newest <= hub[PriceTable][i]
      BY <3>3 DEF Version
    <3>5. \A ts \in times(i) : ts = hub[PriceTable][i] => newest = ts
      BY <3>1, <3>3, <3>4
    <3> QED
      BY <3>2, <3>3, <3>5
  <2> QED
    BY <2>1, <2>2
<1> QED
  BY <1>1, <1>2, <1>5, <1>7

-----------------------------------------------------------------------------
(* The hub: a change in place of a row makes its older versions stale; to a *)
(* subscriber it is on its way at once.                                     *)

\* The invariant where a step touches neither the connection nor what is owed.
LEMMA LinksFrame ==
  ASSUME LinkInv, OwedInv, BufferInv,
         UNCHANGED <<conn, epoch, tableEpoch, owed, owedSeq, drain, priceDrained>>,
         priceDrained => UNCHANGED <<priceBuf, priceOver>>
  PROVE  LinkInv' /\ OwedInv' /\ BufferInv'
<1>1. LinkInv'
  BY DEF LinkInv, Current
<1>2. OwedInv'
  BY DEF OwedInv, InHand
<1>3. BufferInv'
  BY DEF BufferInv, Current
<1> QED
  BY <1>1, <1>2, <1>3

LEMMA HubChangesKeeps ==
  ASSUME TypeOK, ReviseInv, NEW t \in Tables, NEW i \in Ids, HubChanges(t, i),
         \/ i = hubMax[t] + 1 /\ hubMax' = [hubMax EXCEPT ![t] = @ + 1]
         \/ t \in env.revised /\ i <= hubMax[t] /\ hubMax' = hubMax
  PROVE  ReviseInv'
<1> DEFINE frame(ok) == [kind |-> "row", table |-> t, id |-> i, ts |-> hubTime + 1,
                         ok |-> ok, epoch |-> epoch]
<1>1. /\ VersionsInv /\ LinkInv /\ OwedInv /\ BufferInv /\ PrefixInv /\ DrainedInv /\ SettledInv
      /\ stream \in Seq(Frames) /\ hub \in [Tables -> [Ids -> Times]]
      /\ hubMax \in [Tables -> 0..MaxRows] /\ hubTime \in Nat
  <2>1. HubTyped /\ LinkTyped
    BY TypeFrame
  <2>2. /\ stream \in Seq(Frames) /\ hub \in [Tables -> [Ids -> Times]]
        /\ hubMax \in [Tables -> 0..MaxRows] /\ hubTime \in Nat
    BY <2>1 DEF LinkTyped, HubTyped, Times
  <2> QED
    BY <2>2 DEF ReviseInv
<1>2. /\ hubTime' = hubTime + 1 /\ hub' = [hub EXCEPT ![t][i] = hubTime + 1]
      /\ UNCHANGED <<conn, epoch, tableEpoch, owed, owedSeq, drain, mirror, positions,
                     priceDrained, priceBuf, priceOver>>
  BY DEF HubChanges, certVars, tableVars, priceVars
<1>3. \A u \in Tables, j \in Ids :
        hub'[u][j] = IF u = t /\ j = i THEN hubTime + 1 ELSE hub[u][j]
  BY <1>1, <1>2
<1>4. SameScenario
  <2>1. env' = env \/ \E kind \in Faults : Spend(kind)
    BY DEF HubChanges, Faults
  <2> QED
    BY <1>1, <2>1, ScenarioKept DEF VersionsInv
<1>5. \/ conn # "live" /\ stream' = stream
      \/ conn = "live" /\ \E ok \in BOOLEAN : stream' = Append(stream, frame(ok))
  BY DEF HubChanges, Broadcast
<1>6. /\ Len(stream) \in Nat /\ Len(stream') \in Nat /\ Len(stream) <= Len(stream')
      /\ \A n \in 1..Len(stream) : stream'[n] = stream[n]
      /\ \A n \in 1..Len(stream') : n \notin 1..Len(stream) =>
           \E ok \in BOOLEAN : stream'[n] = frame(ok)
      /\ conn = "live" => \E n \in 1..Len(stream'), ok \in BOOLEAN : stream'[n] = frame(ok)
  <2>1. CASE stream' = stream /\ conn # "live"
    BY <1>1, <2>1
  <2>2. ASSUME NEW ok \in BOOLEAN, stream' = Append(stream, frame(ok))
        PROVE  /\ Len(stream) \in Nat /\ Len(stream') = Len(stream) + 1
               /\ \A n \in 1..Len(stream) : stream'[n] = stream[n]
               /\ stream'[Len(stream) + 1] = frame(ok)
    <3> HIDE DEF frame
    <3> QED
      BY <1>1, <2>2
  <2>3. CASE conn = "live"
    <3>1. PICK ok \in BOOLEAN : stream' = Append(stream, frame(ok))
      BY <1>5, <2>3
    <3> HIDE DEF frame
    <3>2. /\ Len(stream) \in Nat /\ Len(stream') = Len(stream) + 1
          /\ \A n \in 1..Len(stream) : stream'[n] = stream[n]
          /\ stream'[Len(stream) + 1] = frame(ok)
      BY <2>2, <3>1
    <3>3. \A n \in 1..Len(stream') : n \notin 1..Len(stream) => n = Len(stream) + 1
      BY <3>2
    <3> QED
      BY <3>2, <3>3
  <2> QED
    BY <1>5, <2>1, <2>3
<1>7. ASSUME NEW u \in Tables, NEW j \in Ids, Settled(u, j), ~(u = t /\ j = i)
      PROVE  Settled(u, j)'
  <2>1. hub'[u][j] = hub[u][j]
    BY <1>3, <1>7
  <2>2. CASE Holds(u, j)
    BY <1>2, <2>1, <2>2 DEF Settled, Holds
  <2>3. CASE OnItsWay(u, j)
    <3>1. CASE \E n \in 1..Len(stream) :
                 /\ stream[n].kind = "row" /\ stream[n].epoch = epoch
                 /\ stream[n].table = u /\ stream[n].id = j /\ stream[n].ts = hub[u][j]
      <4>1. PICK n \in 1..Len(stream) :
                 /\ stream[n].kind = "row" /\ stream[n].epoch = epoch
                 /\ stream[n].table = u /\ stream[n].id = j /\ stream[n].ts = hub[u][j]
        BY <3>1
      <4>2. n \in 1..Len(stream') /\ stream'[n] = stream[n]
        BY <1>6
      <4>3. OnItsWay(u, j)'
        BY <1>2, <2>1, <4>1, <4>2 DEF OnItsWay
      <4> QED
        BY <4>3 DEF Settled
    <3>2. CASE u = PriceTable /\ \E n \in 1..Len(priceBuf) :
                 priceBuf[n].id = j /\ priceBuf[n].ts = hub[u][j]
      <4>1. OnItsWay(u, j)'
        BY <1>2, <2>1, <3>2 DEF OnItsWay
      <4> QED
        BY <4>1 DEF Settled
    <3> QED
      BY <2>3, <3>1, <3>2 DEF OnItsWay
  <2> QED
    BY <1>7, <2>2, <2>3 DEF Settled
<1>8. conn = "live" => Settled(t, i)' /\ KeepsSettled
  <2> SUFFICES ASSUME conn = "live" PROVE Settled(t, i)' /\ KeepsSettled
    OBVIOUS
  <2>1. PICK n \in 1..Len(stream'), ok \in BOOLEAN : stream'[n] = frame(ok)
    BY <1>6
  <2>2. /\ stream'[n].kind = "row" /\ stream'[n].epoch = epoch' /\ stream'[n].table = t
        /\ stream'[n].id = i /\ stream'[n].ts = hub'[t][i]
    BY <1>2, <1>3, <2>1
  <2>3. Settled(t, i)'
    BY <2>2 DEF Settled, OnItsWay
  <2> QED
    BY <1>7, <2>3 DEF KeepsSettled
<1>9. \A u \in Tables, j \in Ids, ts \in Nat : Version(u, j, ts) => Version(u, j, ts)'
  <2> SUFFICES ASSUME NEW u \in Tables, NEW j \in Ids, NEW ts \in Nat, Version(u, j, ts)
               PROVE  Version(u, j, ts)'
    OBVIOUS
  <2>1. CASE ~(u = t /\ j = i)
    BY <1>3, <1>4, <2>1 DEF Version, SameScenario
  <2>2. CASE u = t /\ j = i
    <3>1. hub[t][i] <= hubTime /\ hub[t][i] \in Nat /\ hub'[t][i] = hubTime + 1
      BY <1>1, <1>3, ReviseTypes DEF VersionsInv
    <3>2. t \in env.revised \/ hub[t][i] = 0
      BY <1>1, ReviseTypes DEF VersionsInv
    <3> QED
      BY <1>1, <1>4, <2>2, <3>1, <3>2 DEF Version, SameScenario
  <2> QED
    BY <2>1, <2>2
<1>10. VersionsInv'
  <2>1. ASSUME NEW u \in Tables, NEW j \in Ids
        PROVE  /\ hub'[u][j] # 0 <=> j <= hubMax'[u]
               /\ hub'[u][j] <= hubTime'
    <3>1. /\ hub[u][j] # 0 <=> j <= hubMax[u]
          /\ hub[u][j] <= hubTime /\ hub[u][j] \in Nat /\ hubMax[u] \in Nat /\ j \in Nat /\ i \in Nat
          /\ hubMax[t] \in Nat
      BY <1>1, ReviseTypes DEF VersionsInv
    <3>2. \/ i = hubMax[t] + 1 /\ hubMax'[u] = (IF u = t THEN hubMax[t] + 1 ELSE hubMax[u])
          \/ i <= hubMax[t] /\ hubMax'[u] = hubMax[u]
      BY <1>1
    <3>3. hub'[u][j] = IF u = t /\ j = i THEN hubTime + 1 ELSE hub[u][j]
      BY <1>3
    <3> QED
      BY <1>1, <1>2, <3>1, <3>2, <3>3
  <2>2. \A u \in Tables, j \in Ids : Version(u, j, mirror[u][j])'
    <3>1. \A u \in Tables, j \in Ids : Version(u, j, mirror[u][j]) /\ mirror[u][j] \in Nat
      BY <1>1, ReviseTypes DEF VersionsInv
    <3> QED
      BY <1>2, <1>9, <3>1 DEF Version
  <2>3. ASSUME NEW n \in 1..Len(stream'), stream'[n].kind = "row"
        PROVE  Version(stream[n].table, stream[n].id, stream[n].ts)'
    <3>1. CASE n \in 1..Len(stream)
      <4>1. stream[n].kind = "row" /\ stream[n] \in RowFrames /\ stream'[n] = stream[n]
        BY <1>1, <1>6, <2>3, <3>1 DEF Frames, RowFrames, BeatFrames
      <4>2. /\ Version(stream[n].table, stream[n].id, stream[n].ts)
            /\ stream[n].table \in Tables /\ stream[n].id \in Ids /\ stream[n].ts \in Nat
        BY <1>1, <3>1, <4>1 DEF VersionsInv, RowFrames, Times
      <4> QED
        BY <1>9, <4>1, <4>2 DEF Version
    <3>2. CASE n \notin 1..Len(stream)
      <4>1. PICK ok \in BOOLEAN : stream'[n] = frame(ok)
        BY <1>6, <3>2
      <4>2. stream'[n].table = t /\ stream'[n].id = i /\ stream'[n].ts = hubTime + 1
        BY <4>1
      <4> QED
        BY <1>3, <4>2 DEF Version
    <3> QED
      BY <3>1, <3>2
  <2>4. \A k \in 1..Len(priceBuf) : Version(PriceTable, priceBuf[k].id, priceBuf[k].ts)'
    <3>1. \A k \in 1..Len(priceBuf) :
            /\ Version(PriceTable, priceBuf[k].id, priceBuf[k].ts)
            /\ priceBuf[k].id \in Ids /\ priceBuf[k].ts \in Nat /\ PriceTable \in Tables
      <4>1. priceBuf \in Seq(RowFrames) /\ PriceTable \in Tables
        BY TypeFrame DEF PriceTyped
      <4>2. \A k \in 1..Len(priceBuf) : priceBuf[k] \in RowFrames
        BY <4>1
      <4>3. \A k \in 1..Len(priceBuf) : Version(PriceTable, priceBuf[k].id, priceBuf[k].ts)
        BY <1>1 DEF VersionsInv
      <4>4. \A k \in 1..Len(priceBuf) : priceBuf[k].id \in Ids /\ priceBuf[k].ts \in Nat
        BY <4>2 DEF RowFrames, Times
      <4> QED
        BY <4>1, <4>3, <4>4
    <3> QED
      BY <1>2, <1>9, <3>1 DEF Version
  <2>5. drain'.phase = "page" => \A j \in Ids : Version(drain.table, j, drain.page[j])'
    <3>1. /\ drain.phase = "page" => \A j \in Ids : Version(drain.table, j, drain.page[j])
          /\ drain.table \in Tables /\ \A j \in Ids : drain.page[j] \in Nat
      BY <1>1, ReviseTypes DEF VersionsInv
    <3> QED
      BY <1>2, <1>9, <3>1 DEF Version
  <2>6. Len(priceBuf') = Len(priceBuf)
    BY <1>2
  <2> QED
    BY <1>1, <1>4, <2>1, <2>2, <2>3, <2>4, <2>5, <2>6 DEF VersionsInv, SameScenario
<1>11. LinkInv' /\ OwedInv' /\ BufferInv'
  BY <1>1, <1>2, LinksFrame
<1>12. \A u \in Tables : /\ hubMax[u] \in Nat /\ hubMax'[u] \in Nat /\ hubMax[u] <= hubMax'[u]
  <2> SUFFICES ASSUME NEW u \in Tables
               PROVE  hubMax[u] \in Nat /\ hubMax'[u] \in Nat /\ hubMax[u] <= hubMax'[u]
    OBVIOUS
  <2>1. hubMax[u] \in Nat /\ hubMax[t] \in Nat
    BY <1>1
  <2>2. hubMax'[u] = hubMax[u] \/ hubMax'[u] = hubMax[u] + 1
    BY <1>1
  <2> QED
    BY <2>1, <2>2
<1>13. PrefixInv'
  <2>1. ASSUME NEW u \in Tables \ env.revised, NEW n \in Nat, HeldTo(u, n)
        PROVE  HeldTo(u, n)'
    <3>1. u = t => i = hubMax[t] + 1
      BY <2>1
    <3>2. \A j \in Ids : j <= n => ~(u = t /\ j = i)
      BY <1>12, <2>1, <3>1, ReviseTypes DEF HeldTo
    <3> QED
      BY <1>2, <1>3, <1>12, <2>1, <3>2 DEF HeldTo, Holds
  <2>2. \A u \in Tables : positions[u] \in Nat
    BY ReviseTypes
  <2>3. \A u \in Tables \ env.revised : HeldTo(u, positions[u])'
    BY <1>1, <1>2, <2>1, <2>2 DEF PrefixInv, HeldTo
  <2>4. \A u \in InHand \ env.revised : HeldTo(u, drain.cursor)'
    <3>1. drain.cursor \in Nat /\ InHand \subseteq Tables
      BY ReviseTypes DEF InHand
    <3> QED
      BY <1>1, <1>2, <2>1, <3>1 DEF PrefixInv, HeldTo
  <2> QED
    BY <1>2, <1>4, <2>3, <2>4 DEF PrefixInv, SameScenario, InHand
<1>14. InHand \subseteq Tables /\ InHand' = InHand
  BY <1>2, ReviseTypes DEF InHand
<1>15. DrainedInv'
  <2> SUFFICES ASSUME NEW u \in InHand PROVE Drained(u)'
    BY <1>14 DEF DrainedInv
  <2>1. (Clear' <=> Clear) /\ u \in Tables /\ Drained(u)
    BY <1>1, <1>2, <1>14 DEF Clear, Current, DrainedInv
  <2>2. Clear => KeepsSettled /\ Settled(t, i)'
    BY <1>8 DEF Clear
  <2>3. drain.phase = "page" => Paged(u)'
    <3> SUFFICES ASSUME drain.phase = "page" PROVE Paged(u)'
      OBVIOUS
    <3>1. PICK last \in 0..hubMax[u] :
            \A j \in Ids : drain.page[j] # 0 <=> drain.cursor < j /\ j <= last
      BY <2>1 DEF Drained, Paged
    <3>2. last \in 0..hubMax'[u]
      BY <1>12, <2>1, <3>1
    <3> QED
      BY <1>2, <3>1, <3>2 DEF Paged
  <2>4. drain.phase \in {"fetch", "page"} /\ Clear =>
          \A j \in Ids : j <= drain.cursor => Settled(u, j)'
    BY <2>1, <2>2 DEF Drained, KeepsSettled
  <2>5. drain.phase = "page" /\ Clear =>
          \A j \in Ids : drain.cursor < j /\ (drain.short \/ drain.page[j] # 0) =>
            Settled(u, j)' \/ drain.page[j] = hub'[u][j]
    <3> SUFFICES ASSUME drain.phase = "page", Clear, NEW j \in Ids,
                        drain.cursor < j, drain.short \/ drain.page[j] # 0
                 PROVE  Settled(u, j)' \/ drain.page[j] = hub'[u][j]
      OBVIOUS
    <3>1. Settled(u, j) \/ drain.page[j] = hub[u][j]
      BY <2>1 DEF Drained
    <3>2. CASE u = t /\ j = i
      BY <2>2, <3>2
    <3>3. CASE ~(u = t /\ j = i)
      BY <1>3, <2>1, <2>2, <3>1, <3>3 DEF KeepsSettled
    <3> QED
      BY <3>2, <3>3
  <2>6. drain.phase \in Answered \ {"page"} /\ Clear => AllSettled(u)'
    BY <2>1, <2>2 DEF Drained, AllSettled, KeepsSettled
  <2> QED
    BY <1>2, <2>1, <2>3, <2>4, <2>5, <2>6 DEF Drained
<1>16. SettledInv'
  <2> SUFFICES ASSUME NEW u \in Tables, tableEpoch[u] = epoch, owed[u] = 0
               PROVE  AllSettled(u)'
    BY <1>2 DEF SettledInv
  <2>1. AllSettled(u) /\ conn = "live"
    BY <1>1 DEF SettledInv, LinkInv, OwedInv
  <2> QED
    BY <1>8, <2>1 DEF AllSettled, KeepsSettled
<1> QED
  BY <1>10, <1>11, <1>13, <1>15, <1>16 DEF ReviseInv

\* Where the hub and the drain stand still: what is certified, or in hand, is
\* so still, or a mark or the connection says otherwise.
LEMMA StandStill ==
  ASSUME TypeOK, ReviseInv, SameScenario, UNCHANGED <<hub, hubMax, drain>>,
         \A u \in Tables : positions'[u] \in {positions[u], 0},
         \A u \in Tables, j \in Ids : Holds(u, j) => Holds(u, j)',
         \A u \in Tables : tableEpoch'[u] = epoch' /\ owed'[u] = 0 =>
           /\ tableEpoch[u] = epoch /\ owed[u] = 0
           /\ \A j \in Ids : Settled(u, j) => Settled(u, j)',
         Clear' => /\ Clear
                   /\ \A u \in InHand, j \in Ids : Settled(u, j) => Settled(u, j)'
  PROVE  PrefixInv' /\ DrainedInv' /\ SettledInv'
<1>1. PrefixInv /\ DrainedInv /\ SettledInv
  BY DEF ReviseInv
<1>2. InHand' = InHand /\ InHand \subseteq Tables
  BY ReviseTypes DEF InHand
<1>3. \A u \in Tables : hubMax[u] \in Nat /\ positions[u] \in Nat
  BY ReviseTypes
<1>4. PrefixInv'
  <2>1. ASSUME NEW u \in Tables, NEW n \in Nat, HeldTo(u, n)
        PROVE  HeldTo(u, n)'
    BY <2>1 DEF HeldTo
  <2>2. ASSUME NEW u \in Tables \ env.revised PROVE HeldTo(u, positions[u])'
    <3>1. HeldTo(u, positions[u])
      BY <1>1, <2>2 DEF PrefixInv
    <3>2. CASE positions'[u] = positions[u]
      BY <3>1, <3>2 DEF HeldTo
    <3>3. CASE positions'[u] = 0
      <4>1. 0 <= hubMax[u] /\ \A j \in Ids : ~(j <= 0)
        BY <1>3, ReviseTypes
      <4> QED
        BY <3>3, <4>1 DEF HeldTo
    <3> QED
      BY <3>2, <3>3
  <2>3. ASSUME NEW u \in InHand \ env.revised PROVE HeldTo(u, drain.cursor)'
    BY <1>1, <1>2, <2>3 DEF PrefixInv, HeldTo
  <2> QED
    BY <1>2, <2>2, <2>3 DEF PrefixInv, SameScenario
<1>5. DrainedInv'
  <2> SUFFICES ASSUME NEW u \in InHand PROVE Drained(u)'
    BY <1>2 DEF DrainedInv
  <2>1. Drained(u) /\ u \in Tables
    BY <1>1, <1>2 DEF DrainedInv
  <2>2. drain.phase = "page" => Paged(u)'
    BY <2>1 DEF Drained, Paged
  <2>3. Clear' => Clear /\ \A j \in Ids : Settled(u, j) => Settled(u, j)'
    OBVIOUS
  <2>4. Clear' => /\ drain.phase \in {"fetch", "page"} =>
                       \A j \in Ids : j <= drain.cursor => Settled(u, j)'
                  /\ drain.phase = "page" =>
                       \A j \in Ids : drain.cursor < j /\ (drain.short \/ drain.page[j] # 0) =>
                         Settled(u, j)' \/ drain.page[j] = hub'[u][j]
                  /\ drain.phase \in Answered \ {"page"} => \A j \in Ids : Settled(u, j)'
    BY <2>1, <2>3 DEF Drained, AllSettled
  <2> QED
    BY <2>2, <2>4 DEF Drained, AllSettled
<1>6. SettledInv'
  BY <1>1 DEF SettledInv, AllSettled
<1> QED
  BY <1>4, <1>5, <1>6

LEMMA BeatKeeps ==
  ASSUME TypeOK, ReviseInv, HubBeats
  PROVE  ReviseInv'
<1> DEFINE beat == [kind |-> "beat", ts |-> hubTime, epoch |-> epoch]
<1>1. /\ stream' = Append(stream, beat)
      /\ UNCHANGED <<hub, hubMax, hubTime, conn, epoch, tableEpoch, owed, owedSeq, drain, mirror,
                     positions, priceDrained, priceBuf, priceOver, env>>
  BY DEF HubBeats, hubVars, certVars, tableVars, priceVars
<1>2. stream \in Seq(Frames) /\ beat.kind # "row"
  BY TypeFrame DEF LinkTyped
<1> HIDE DEF beat
<1>3. /\ Len(stream) \in Nat /\ Len(stream') = Len(stream) + 1
      /\ \A n \in 1..Len(stream) : stream'[n] = stream[n]
      /\ stream'[Len(stream) + 1] = beat
  BY <1>1, <1>2
<1>4. SameScenario /\ VersionsInv /\ LinkInv /\ OwedInv /\ BufferInv
  BY <1>1 DEF SameScenario, ReviseInv
<1>5. KeepsSettled
  BY <1>1, <1>3 DEF KeepsSettled, Settled, Holds, OnItsWay
<1>6. PrefixInv' /\ DrainedInv' /\ SettledInv'
  <2>1. Clear' <=> Clear
    BY <1>1 DEF Clear, Current
  <2>2. \A u \in Tables, j \in Ids : Holds(u, j) => Holds(u, j)'
    BY <1>1 DEF Holds
  <2>3. InHand \subseteq Tables
    BY ReviseTypes DEF InHand
  <2> QED
    BY <1>1, <1>4, <1>5, <2>1, <2>2, <2>3, StandStill DEF KeepsSettled
<1>7. VersionsInv'
  <2>1. \A n \in 1..Len(stream') : stream'[n].kind = "row" => n \in 1..Len(stream)
    BY <1>2, <1>3
  <2>2. \A n \in 1..Len(stream') : stream'[n].kind = "row" =>
          Version(stream[n].table, stream[n].id, stream[n].ts)'
    BY <1>1, <1>3, <1>4, <2>1 DEF VersionsInv, Version
  <2>3. \A t \in Tables, i \in Ids : Version(t, i, mirror[t][i])'
    BY <1>1, <1>4 DEF VersionsInv, Version
  <2>4. \A k \in 1..Len(priceBuf) : Version(PriceTable, priceBuf[k].id, priceBuf[k].ts)'
    BY <1>1, <1>4 DEF VersionsInv, Version
  <2>5. drain'.phase = "page" => \A j \in Ids : Version(drain.table, j, drain.page[j])'
    BY <1>1, <1>4 DEF VersionsInv, Version
  <2> QED
    BY <1>1, <1>4, <2>2, <2>3, <2>4, <2>5 DEF VersionsInv
<1>8. LinkInv' /\ OwedInv' /\ BufferInv'
  BY <1>1, <1>4, LinksFrame
<1> QED
  BY <1>6, <1>7, <1>8 DEF ReviseInv

LEMMA HubStepKeeps ==
  ASSUME TypeOK, ReviseInv, HubStep
  PROVE  ReviseInv'
<1>1. ASSUME NEW t \in Tables, HubInserts(t) PROVE ReviseInv'
  <2>1. hubMax[t] + 1 \in Ids
    BY <1>1, ReviseTypes DEF HubInserts
  <2> QED
    BY <1>1, <2>1, HubChangesKeeps DEF HubInserts
<1>2. ASSUME NEW t \in Tables, NEW i \in Ids, HubRevises(t, i) PROVE ReviseInv'
  BY <1>2, HubChangesKeeps DEF HubRevises
<1> QED
  BY <1>1, <1>2, BeatKeeps DEF HubStep

-----------------------------------------------------------------------------
(* The socket: a close leaves nothing certified, a ready frame or a resync  *)
(* marks the tables whose changes it may have lost.                         *)

LEMMA MarkIs ==
  ASSUME TypeOK, OwedInv, NEW S, Mark(S)
  PROVE  /\ owedSeq' = owedSeq + 1
         /\ \A t \in Tables : /\ owed'[t] = IF t \in S THEN owedSeq + 1 ELSE owed[t]
                              /\ owed[t] \in Nat /\ owed'[t] \in Nat /\ owed'[t] <= owedSeq'
                              /\ t \in S => owed'[t] # 0 /\ owed'[t] # drain.seq
         /\ drain.seq \in Nat /\ drain.seq <= owedSeq'
<1>1. /\ owedSeq \in Nat /\ drain.seq \in Nat /\ drain.seq <= owedSeq
      /\ \A t \in Tables : owed[t] \in Nat /\ owed[t] <= owedSeq
  BY ReviseTypes DEF OwedInv
<1>2. owedSeq' = owedSeq + 1 /\ owed' = [t \in Tables |-> IF t \in S THEN owedSeq + 1 ELSE owed[t]]
  BY DEF Mark
<1>3. \A t \in Tables : owed'[t] = IF t \in S THEN owedSeq + 1 ELSE owed[t]
  BY <1>2
<1> QED
  BY <1>1, <1>2, <1>3

LEMMA ConnectKeeps ==
  ASSUME TypeOK, ReviseInv, Connect
  PROVE  ReviseInv'
<1>1. /\ conn = "down" /\ conn' = "opening"
      /\ UNCHANGED <<hub, hubMax, hubTime, epoch, stream, tableEpoch, owed, owedSeq, drain, mirror,
                     positions, priceDrained, priceBuf, priceOver, env>>
  BY DEF Connect, hubVars, certVars, tableVars, priceVars
<1>2. /\ SameScenario /\ VersionsInv /\ LinkInv /\ OwedInv /\ BufferInv
  BY <1>1 DEF SameScenario, ReviseInv
<1>3. VersionsInv'
  BY <1>1, <1>2, VersionsFrame DEF VersionsInv
<1>4. LinkInv' /\ OwedInv' /\ BufferInv'
  BY <1>1, <1>2 DEF LinkInv, OwedInv, BufferInv, InHand, Current
<1>5. PrefixInv' /\ DrainedInv' /\ SettledInv'
  <2>1. ~Clear'
    BY <1>1 DEF Clear
  <2>2. \A u \in Tables : tableEpoch[u] # epoch
    BY <1>1, <1>2 DEF LinkInv
  <2>3. \A u \in Tables, j \in Ids : Holds(u, j) => Holds(u, j)'
    BY <1>1 DEF Holds
  <2> QED
    BY <1>1, <1>2, <2>1, <2>2, <2>3, StandStill
<1> QED
  BY <1>3, <1>4, <1>5 DEF ReviseInv

LEMMA ReadyKeeps ==
  ASSUME TypeOK, ReviseInv, ReadyArrives
  PROVE  ReviseInv'
<1>1. /\ conn = "opening" /\ conn' = "live" /\ Mark(RepageTables)
      /\ UNCHANGED <<hub, hubMax, hubTime, epoch, stream, tableEpoch, drain, mirror,
                     priceDrained, priceBuf, priceOver, env>>
      /\ \A u \in Tables : positions'[u] \in {positions[u], 0}
  BY DEF ReadyArrives, hubVars, certVars, priceVars
<1>2. /\ SameScenario /\ VersionsInv /\ LinkInv /\ OwedInv /\ BufferInv /\ DrainedInv /\ PrefixInv
  BY <1>1 DEF SameScenario, ReviseInv
<1>3. VersionsInv'
  BY <1>1, <1>2, VersionsFrame DEF VersionsInv
<1>4. /\ owedSeq' = owedSeq + 1
      /\ \A t \in Tables : /\ owed'[t] = IF t \in RepageTables THEN owedSeq + 1 ELSE owed[t]
                           /\ owed'[t] <= owedSeq'
                           /\ t \in RepageTables => owed'[t] # 0 /\ owed'[t] # drain.seq
      /\ drain.seq <= owedSeq'
  BY <1>1, <1>2, MarkIs
<1>5. InHand' = InHand /\ InHand \subseteq Tables /\ \A u \in InHand : u = drain.table
  BY <1>1, ReviseTypes DEF InHand
<1>6. LinkInv' /\ OwedInv' /\ BufferInv'
  <2>1. LinkInv'
    BY <1>1, <1>2 DEF LinkInv, Current
  <2>2. InHand # {} => owed'[drain.table] = drain.seq \/ owed'[drain.table] # 0
    BY <1>2, <1>4, <1>5, ReviseTypes DEF OwedInv
  <2>3. OwedInv'
    BY <1>1, <1>4, <1>5, <2>2, ReviseTypes DEF OwedInv
  <2>4. BufferInv'
    BY <1>1, <1>2 DEF BufferInv, Current
  <2> QED
    BY <2>1, <2>3, <2>4
<1>7. \A u \in Tables : tableEpoch[u] # epoch
  BY <1>1, <1>2 DEF LinkInv
<1>8. \A u \in Tables, j \in Ids : Holds(u, j) => Holds(u, j)'
  BY <1>1 DEF Holds
<1>9. PrefixInv' /\ SettledInv'
  <2>1. ASSUME NEW u \in Tables \ env.revised PROVE HeldTo(u, positions[u])'
    <3>1. HeldTo(u, positions[u])
      BY <1>2, <2>1 DEF PrefixInv
    <3>2. CASE positions'[u] = positions[u]
      BY <1>1, <3>1, <3>2 DEF HeldTo, Holds
    <3>3. CASE positions'[u] = 0
      <4>1. 0 <= hubMax[u] /\ \A j \in Ids : ~(j <= 0)
        BY ReviseTypes
      <4> QED
        BY <1>1, <3>3, <4>1 DEF HeldTo
    <3> QED
      BY <1>1, <3>2, <3>3
  <2>2. \A u \in InHand \ env.revised : HeldTo(u, drain.cursor)'
    BY <1>1, <1>2, <1>5 DEF PrefixInv, HeldTo, Holds
  <2>3. SettledInv'
    BY <1>1, <1>7 DEF SettledInv
  <2> QED
    BY <1>1, <1>5, <2>1, <2>2, <2>3 DEF PrefixInv
<1>10. DrainedInv'
  <2> SUFFICES ASSUME NEW u \in InHand PROVE Drained(u)'
    BY <1>5 DEF DrainedInv
  <2>1. Drained(u) /\ u \in Tables /\ u = drain.table
    BY <1>2, <1>5 DEF DrainedInv
  <2>2. drain.phase = "page" => Paged(u)'
    BY <1>1, <2>1 DEF Drained, Paged
  <2>3. drain.phase \in Answered => ~Clear'
    BY <1>1, <1>2 DEF LinkInv, Clear, Current
  <2>4. Clear' => u \notin env.revised
    BY <1>1, <1>4, <2>1, ReviseTypes DEF Clear
  <2>5. Clear' => \A j \in Ids : j <= drain.cursor => Settled(u, j)'
    BY <1>2, <1>8, <2>1, <2>4 DEF PrefixInv, HeldTo, Settled
  <2> QED
    BY <1>1, <2>2, <2>3, <2>5 DEF Drained, Answered
<1> QED
  BY <1>3, <1>6, <1>9, <1>10 DEF ReviseInv

LEMMA CloseKeeps ==
  ASSUME TypeOK, ReviseInv, SameScenario, NEW forget, SocketCloses(forget)
  PROVE  ReviseInv'
<1>1. /\ conn' = "down" /\ epoch' = epoch + 1 /\ ~priceDrained' /\ priceBuf' = <<>>
      /\ UNCHANGED <<hub, hubMax, hubTime, stream, tableEpoch, owed, owedSeq, drain, mirror,
                     positions>>
  BY DEF SocketCloses, hubVars, tableVars
<1>2. VersionsInv /\ LinkInv /\ OwedInv
  BY DEF ReviseInv
<1>3. /\ \A u \in Tables : tableEpoch'[u] # epoch' /\ tableEpoch'[u] <= epoch'
      /\ drain.epoch # epoch' /\ drain.epoch <= epoch' /\ PriceTable \in Tables
  BY <1>1, <1>2, ReviseTypes DEF LinkInv
<1>4. VersionsInv'
  <2>1. \A n \in 1..Len(stream) : stream'[n].kind = "row" =>
          Version(stream[n].table, stream[n].id, stream[n].ts)'
    BY <1>1, <1>2 DEF VersionsInv, Version, SameScenario
  <2>2. \A t \in Tables, i \in Ids : Version(t, i, mirror[t][i])'
    BY <1>1, <1>2 DEF VersionsInv, Version, SameScenario
  <2>3. drain'.phase = "page" => \A j \in Ids : Version(drain.table, j, drain.page[j])'
    BY <1>1, <1>2 DEF VersionsInv, Version, SameScenario
  <2> QED
    BY <1>1, <1>2, <2>1, <2>2, <2>3 DEF VersionsInv, SameScenario
<1>5. LinkInv' /\ OwedInv' /\ BufferInv'
  <2>1. LinkInv' /\ BufferInv'
    BY <1>1, <1>3 DEF LinkInv, BufferInv, Current
  <2>2. OwedInv'
    BY <1>1, <1>2 DEF OwedInv, InHand
  <2> QED
    BY <2>1, <2>2
<1>6. PrefixInv' /\ DrainedInv' /\ SettledInv'
  <2>1. ~Clear'
    BY <1>1 DEF Clear
  <2>2. \A u \in Tables, j \in Ids : Holds(u, j) => Holds(u, j)'
    BY <1>1 DEF Holds
  <2> QED
    BY <1>1, <1>3, <2>1, <2>2, StandStill
<1> QED
  BY <1>4, <1>5, <1>6 DEF ReviseInv

LEMMA ResyncKeeps ==
  ASSUME TypeOK, ReviseInv, SameScenario, DriveResync,
         ~Draining \/ drain.phase = "fetch"
  PROVE  ReviseInv'
<1>1. /\ Mark(Tables) /\ conn' # "live" /\ conn' \in {conn, "closing"}
      /\ conn' = "closing" \/ conn = "down"
      /\ UNCHANGED <<hub, hubMax, hubTime, epoch, stream, tableEpoch, drain, mirror,
                     priceDrained, priceBuf, priceOver>>
      /\ \A u \in Tables : positions'[u] = 0
  BY DEF DriveResync, hubVars, certVars, priceVars
<1>2. VersionsInv /\ LinkInv /\ OwedInv /\ BufferInv
  BY DEF ReviseInv
<1>3. /\ owedSeq' = owedSeq + 1 /\ drain.seq <= owedSeq'
      /\ \A t \in Tables : owed'[t] <= owedSeq' /\ owed'[t] # 0
  BY <1>1, <1>2, MarkIs
<1>4. VersionsInv'
  BY <1>1, <1>2, VersionsFrame DEF VersionsInv
<1>5. LinkInv' /\ OwedInv' /\ BufferInv'
  <2>1. drain.phase \notin Answered
    BY DEF Answered, Draining
  <2>2. LinkInv'
    BY <1>1, <1>2, <2>1 DEF LinkInv, Current
  <2>3. OwedInv'
    BY <1>1, <1>3, ReviseTypes DEF OwedInv
  <2>4. BufferInv'
    BY <1>1, <1>2 DEF BufferInv, Current
  <2> QED
    BY <2>2, <2>3, <2>4
<1>6. PrefixInv' /\ DrainedInv' /\ SettledInv'
  <2>1. ~Clear'
    BY <1>1 DEF Clear
  <2>2. \A u \in Tables, j \in Ids : Holds(u, j) => Holds(u, j)'
    BY <1>1 DEF Holds
  <2> QED
    BY <1>1, <1>3, <2>1, <2>2, StandStill
<1> QED
  BY <1>4, <1>5, <1>6 DEF ReviseInv

LEMMA SocketStepKeeps ==
  ASSUME TypeOK, ReviseInv, SocketStep
  PROVE  ReviseInv'
<1>1. env.left["live"] = 0
  BY DEF ReviseInv, VersionsInv
<1>2. CASE ConnectionLost
  <2>1. SameScenario
    BY <1>1, <1>2, ScenarioKept DEF ConnectionLost, Faults
  <2> QED
    BY <1>2, <2>1, CloseKeeps DEF ConnectionLost
<1>3. CASE TerminatedSocketCloses
  <2>1. SameScenario
    BY <1>3 DEF TerminatedSocketCloses, SameScenario
  <2> QED
    BY <1>3, <2>1, CloseKeeps DEF TerminatedSocketCloses
<1>4. CASE RequestResync
  <2>1. SameScenario
    BY <1>1, <1>4, ScenarioKept DEF RequestResync, Faults
  <2> QED
    BY <1>4, <2>1, ResyncKeeps DEF RequestResync
<1>5. CASE StallResync
  <2>1. SameScenario
    BY <1>5 DEF StallResync, SameScenario
  <2> QED
    BY <1>5, <2>1, ResyncKeeps DEF StallResync
<1> QED
  BY <1>2, <1>3, <1>4, <1>5, ConnectKeeps, ReadyKeeps DEF SocketStep

-----------------------------------------------------------------------------
(* The frames: a row that is handled lands in the mirror or in the price    *)
(* buffer, or it marks every table; a discarded buffer spoils its drain.    *)

LEMMA PopIs ==
  ASSUME TypeOK, stream # <<>>, Pop
  PROVE  /\ Head(stream) = stream[1] /\ 1 \in 1..Len(stream)
         /\ \A n \in 1..Len(stream) : n = 1 \/ (n - 1 \in 1..Len(stream') /\ stream'[n - 1] = stream[n])
         /\ \A n \in 1..Len(stream') : n + 1 \in 1..Len(stream) /\ stream'[n] = stream[n + 1]
<1>1. stream \in Seq(Frames) /\ stream' = Tail(stream)
  BY TypeFrame DEF LinkTyped, Pop
<1>2. /\ Len(stream) \in Nat /\ Len(stream) # 0 /\ Head(stream) = stream[1]
      /\ Len(stream') = Len(stream) - 1
      /\ \A n \in 1..Len(stream') : stream'[n] = stream[n + 1]
  BY <1>1
<1>3. ASSUME NEW n \in 1..Len(stream), n # 1
      PROVE  n - 1 \in 1..Len(stream') /\ stream'[n - 1] = stream[n]
  <2>1. n - 1 \in 1..Len(stream') /\ (n - 1) + 1 = n
    BY <1>2, <1>3
  <2> QED
    BY <1>2, <2>1, Zenon
<1>4. 1 \in 1..Len(stream) /\ \A n \in 1..Len(stream') : n + 1 \in 1..Len(stream)
  BY <1>2
<1> QED
  BY <1>2, <1>3, <1>4

\* Only the frame that is handled may be missed.
LEMMA PopKeeps ==
  ASSUME TypeOK, stream # <<>>, Pop, UNCHANGED <<hub, epoch>>,
         NEW t \in Tables, NEW i \in Ids, OnItsWay(t, i),
         Len(priceBuf') \in Nat,
         t = PriceTable => \A k \in 1..Len(priceBuf) : \E m \in 1..Len(priceBuf') :
                             priceBuf'[m] = priceBuf[k]
  PROVE  \/ OnItsWay(t, i)'
         \/ /\ Head(stream).kind = "row" /\ Head(stream).epoch = epoch
            /\ Head(stream).table = t /\ Head(stream).id = i /\ Head(stream).ts = hub[t][i]
<1>1. CASE \E n \in 1..Len(stream) :
             /\ stream[n].kind = "row" /\ stream[n].epoch = epoch
             /\ stream[n].table = t /\ stream[n].id = i /\ stream[n].ts = hub[t][i]
  <2>1. PICK n \in 1..Len(stream) :
             /\ stream[n].kind = "row" /\ stream[n].epoch = epoch
             /\ stream[n].table = t /\ stream[n].id = i /\ stream[n].ts = hub[t][i]
    BY <1>1
  <2>2. CASE n = 1
    BY <2>1, <2>2, PopIs
  <2>3. CASE n # 1
    <3>1. n - 1 \in 1..Len(stream') /\ stream'[n - 1] = stream[n]
      BY <2>3, PopIs
    <3> QED
      BY <2>1, <3>1 DEF OnItsWay
  <2> QED
    BY <2>2, <2>3
<1>2. CASE t = PriceTable /\ \E k \in 1..Len(priceBuf) :
             priceBuf[k].id = i /\ priceBuf[k].ts = hub[t][i]
  BY <1>2 DEF OnItsWay
<1> QED
  BY <1>1, <1>2 DEF OnItsWay

LEMMA PopVersions ==
  ASSUME TypeOK, VersionsInv, SameScenario, stream # <<>>, Pop,
         UNCHANGED <<hub, hubMax, hubTime, drain>>,
         \A t \in Tables, i \in Ids : Version(t, i, mirror'[t][i]),
         \A k \in 1..Len(priceBuf') : Version(PriceTable, priceBuf'[k].id, priceBuf'[k].ts)
  PROVE  VersionsInv'
<1>1. \A t \in Tables, i \in Ids : Version(t, i, mirror[t][i])'
  BY DEF Version, SameScenario
<1>2. \A n \in 1..Len(stream') : stream'[n].kind = "row" =>
        Version(stream[n].table, stream[n].id, stream[n].ts)'
  <2> SUFFICES ASSUME NEW n \in 1..Len(stream'), stream'[n].kind = "row"
               PROVE  Version(stream[n].table, stream[n].id, stream[n].ts)'
    OBVIOUS
  <2>1. n + 1 \in 1..Len(stream) /\ stream'[n] = stream[n + 1]
    BY PopIs
  <2>2. Version(stream'[n].table, stream'[n].id, stream'[n].ts)
    BY <2>1 DEF VersionsInv
  <2> QED
    BY <2>2 DEF Version, SameScenario
<1>3. \A k \in 1..Len(priceBuf') : Version(PriceTable, priceBuf[k].id, priceBuf[k].ts)'
  BY DEF Version, SameScenario
<1>4. drain'.phase = "page" => \A i \in Ids : Version(drain.table, i, drain.page[i])'
  BY DEF Version, SameScenario, VersionsInv
<1> QED
  BY <1>1, <1>2, <1>3, <1>4 DEF VersionsInv, SameScenario

\* A frame of an earlier connection, or a beat, carries no change.
LEMMA QuietPop ==
  ASSUME TypeOK, ReviseInv, stream # <<>>, Pop,
         ~(Head(stream).kind = "row" /\ Head(stream).epoch = epoch),
         UNCHANGED <<hub, hubMax, hubTime, conn, epoch, tableEpoch, owed, owedSeq, drain, mirror,
                     positions, priceDrained, priceBuf, priceOver, env>>
  PROVE  ReviseInv'
<1>1. SameScenario /\ VersionsInv /\ LinkInv /\ OwedInv /\ BufferInv /\ Len(priceBuf) \in Nat
  BY TypeFrame DEF SameScenario, ReviseInv, PriceTyped
<1>2. \A u \in Tables, j \in Ids : Holds(u, j) => Holds(u, j)'
  BY DEF Holds
<1>3. \A u \in Tables, j \in Ids : OnItsWay(u, j) => OnItsWay(u, j)'
  BY <1>1, PopKeeps
<1>4. \A u \in Tables, j \in Ids : Settled(u, j) => Settled(u, j)'
  BY <1>2, <1>3 DEF Settled
<1>5. InHand \subseteq Tables /\ (Clear' <=> Clear)
  BY ReviseTypes DEF InHand, Clear, Current
<1>6. PrefixInv' /\ DrainedInv' /\ SettledInv'
  BY <1>1, <1>2, <1>4, <1>5, StandStill
<1>7. VersionsInv'
  BY <1>1, PopVersions DEF VersionsInv
<1>8. LinkInv' /\ OwedInv' /\ BufferInv'
  BY <1>1, LinksFrame
<1> QED
  BY <1>6, <1>7, <1>8 DEF ReviseInv

LEMMA RefuseKeeps ==
  ASSUME TypeOK, ReviseInv, RefuseRow
  PROVE  ReviseInv'
<1>1. /\ stream # <<>> /\ Pop /\ Mark(Tables)
      /\ UNCHANGED <<hub, hubMax, hubTime, conn, epoch, tableEpoch, drain, mirror,
                     positions, priceDrained, priceBuf, priceOver, env>>
  BY DEF RefuseRow, FrameDue, hubVars, priceVars
<1>2. SameScenario /\ VersionsInv /\ LinkInv /\ OwedInv /\ BufferInv /\ PrefixInv
  BY <1>1 DEF SameScenario, ReviseInv
<1>3. /\ drain.seq <= owedSeq' /\ drain.table \in Tables
      /\ \A t \in Tables : owed'[t] <= owedSeq' /\ owed'[t] # 0 /\ owed'[t] # drain.seq
  BY <1>1, <1>2, MarkIs, ReviseTypes
<1>4. VersionsInv'
  BY <1>1, <1>2, PopVersions DEF VersionsInv
<1>5. LinkInv' /\ OwedInv' /\ BufferInv'
  <2>1. LinkInv' /\ BufferInv'
    BY <1>1, <1>2 DEF LinkInv, BufferInv, Current
  <2>2. OwedInv'
    BY <1>1, <1>2, <1>3, ReviseTypes DEF OwedInv
  <2> QED
    BY <2>1, <2>2
<1>6. PrefixInv' /\ DrainedInv' /\ SettledInv'
  <2>1. ~Clear'
    BY <1>1, <1>3 DEF Clear
  <2>2. \A u \in Tables, j \in Ids : Holds(u, j) => Holds(u, j)'
    BY <1>1 DEF Holds
  <2> QED
    BY <1>1, <1>2, <1>3, <2>1, <2>2, StandStill
<1> QED
  BY <1>4, <1>5, <1>6 DEF ReviseInv

\* The frame due, a row the mirror accepts: a version of one of its table's rows.
LEMMA RowDue ==
  ASSUME TypeOK, VersionsInv, FrameDue("row")
  PROVE  /\ stream # <<>> /\ Pop
         /\ Head(stream) \in RowFrames
         /\ Head(stream).table \in Tables /\ Head(stream).id \in Ids /\ Head(stream).ts \in Times
         /\ Version(Head(stream).table, Head(stream).id, Head(stream).ts)
<1>1. stream # <<>> /\ Pop /\ Head(stream).kind = "row"
  BY DEF FrameDue
<1>2. Head(stream) \in RowFrames
  BY <1>1, HeadType, TypeFrame DEF LinkTyped
<1>3. Version(Head(stream).table, Head(stream).id, Head(stream).ts)
  BY <1>1, PopIs DEF VersionsInv
<1> QED
  BY <1>1, <1>2, <1>3 DEF RowFrames

LEMMA BufferKeeps ==
  ASSUME TypeOK, ReviseInv, BufferRow
  PROVE  ReviseInv'
<1> DEFINE row == Head(stream)
<1>1. /\ FrameDue("row") /\ row.table = PriceTable /\ ~priceDrained
      /\ UNCHANGED <<hub, hubMax, hubTime, conn, epoch, tableEpoch, owed, owedSeq, drain, mirror,
                     positions, priceDrained, env>>
      /\ \/ priceOver' /\ priceBuf' \in {priceBuf, <<>>}
         \/ ~priceOver /\ ~priceOver' /\ priceBuf' = Append(priceBuf, row)
  BY TypeFrame DEF BufferRow, Buffered, hubVars, certVars, tableVars, PriceTyped
<1>2. SameScenario /\ VersionsInv /\ LinkInv /\ OwedInv /\ BufferInv
  BY <1>1 DEF SameScenario, ReviseInv
<1>3. /\ stream # <<>> /\ Pop /\ row \in RowFrames /\ row.id \in Ids
      /\ Version(PriceTable, row.id, row.ts)
  BY <1>1, <1>2, RowDue
<1>4. priceBuf \in Seq(RowFrames) /\ Len(priceBuf) \in Nat /\ PriceTable \in Tables
  BY TypeFrame DEF PriceTyped
<1> HIDE DEF row
<1>5. /\ Len(priceBuf') \in Nat
      /\ \A k \in 1..Len(priceBuf') : \/ k \in 1..Len(priceBuf) /\ priceBuf'[k] = priceBuf[k]
                                      \/ priceBuf'[k] = row
  <2>1. CASE priceBuf' \in {priceBuf, <<>>}
    BY <1>4, <2>1
  <2>2. CASE priceBuf' = Append(priceBuf, row)
    BY <1>3, <1>4, <2>2
  <2> QED
    BY <1>1, <2>1, <2>2
<1>6. ~priceOver' => /\ \A k \in 1..Len(priceBuf) : k \in 1..Len(priceBuf') /\ priceBuf'[k] = priceBuf[k]
                     /\ \E k \in 1..Len(priceBuf') : priceBuf'[k] = row
  <2> SUFFICES ASSUME ~priceOver'
               PROVE  /\ \A k \in 1..Len(priceBuf) : k \in 1..Len(priceBuf') /\ priceBuf'[k] = priceBuf[k]
                      /\ \E k \in 1..Len(priceBuf') : priceBuf'[k] = row
    OBVIOUS
  <2>1. priceBuf' = Append(priceBuf, row)
    BY <1>1
  <2>2. /\ Len(priceBuf') = Len(priceBuf) + 1
        /\ \A k \in 1..Len(priceBuf) : priceBuf'[k] = priceBuf[k]
        /\ priceBuf'[Len(priceBuf) + 1] = row
    BY <1>3, <1>4, <2>1
  <2>3. \A k \in 1..Len(priceBuf) : k \in 1..Len(priceBuf')
    BY <1>4, <2>2
  <2>4. Len(priceBuf) + 1 \in 1..Len(priceBuf')
    BY <1>4, <2>2
  <2> QED
    BY <2>2, <2>3, <2>4
<1>7. \A u \in Tables, j \in Ids : Holds(u, j) => Holds(u, j)'
  BY <1>1 DEF Holds
<1>8. ASSUME NEW u \in Tables, NEW j \in Ids, Settled(u, j), u # PriceTable \/ ~priceOver'
      PROVE  Settled(u, j)'
  <2>1. CASE Holds(u, j)
    BY <1>7, <2>1 DEF Settled
  <2>2. CASE OnItsWay(u, j)
    <3>1. \/ OnItsWay(u, j)'
          \/ row.table = u /\ row.id = j /\ row.ts = hub[u][j]
      <4>1. u = PriceTable => \A k \in 1..Len(priceBuf) : \E m \in 1..Len(priceBuf') :
              priceBuf'[m] = priceBuf[k]
        BY <1>6, <1>8
      <4> QED
        BY <1>1, <1>3, <1>5, <2>2, <4>1, PopKeeps DEF row
    <3>2. CASE row.table = u /\ row.id = j /\ row.ts = hub[u][j]
      <4>1. u = PriceTable /\ ~priceOver'
        BY <1>1, <1>8, <3>2
      <4>2. PICK k \in 1..Len(priceBuf') : priceBuf'[k] = row
        BY <1>6, <4>1
      <4> QED
        BY <1>1, <3>2, <4>1, <4>2 DEF Settled, OnItsWay
    <3> QED
      BY <3>1, <3>2 DEF Settled
  <2> QED
    BY <1>8, <2>1, <2>2 DEF Settled
<1>9. PrefixInv' /\ DrainedInv' /\ SettledInv'
  <2>1. \A u \in Tables : tableEpoch'[u] = epoch' => u # PriceTable
    BY <1>1, <1>2 DEF BufferInv
  <2>2. Clear' => Clear /\ (drain.table # PriceTable \/ ~priceOver')
    BY <1>1 DEF Clear, Current
  <2>3. InHand \subseteq Tables /\ \A u \in InHand : u = drain.table
    BY ReviseTypes DEF InHand
  <2> QED
    BY <1>1, <1>2, <1>7, <1>8, <2>1, <2>2, <2>3, StandStill
<1>10. VersionsInv'
  <2>1. \A k \in 1..Len(priceBuf') : Version(PriceTable, priceBuf'[k].id, priceBuf'[k].ts)
    BY <1>2, <1>3, <1>5 DEF VersionsInv
  <2>2. \A t \in Tables, i \in Ids : Version(t, i, mirror'[t][i])
    BY <1>1, <1>2 DEF VersionsInv
  <2> QED
    BY <1>1, <1>2, <1>3, <2>1, <2>2, PopVersions
<1>11. LinkInv' /\ OwedInv' /\ BufferInv'
  BY <1>1, <1>2, LinksFrame
<1> QED
  BY <1>9, <1>10, <1>11 DEF ReviseInv

LEMMA ApplyKeeps ==
  ASSUME TypeOK, ReviseInv, ApplyRow
  PROVE  ReviseInv'
<1> DEFINE row == Head(stream)
           rows == OneRow(row.id, row.ts)
<1>1. /\ FrameDue("row") /\ mirror' = Merged(row.table, rows)
      /\ UNCHANGED <<hub, hubMax, hubTime, conn, epoch, tableEpoch, owed, owedSeq, drain,
                     positions, priceDrained, priceBuf, priceOver, env>>
  BY DEF ApplyRow, hubVars, certVars, priceVars
<1>2. SameScenario /\ VersionsInv /\ LinkInv /\ OwedInv /\ BufferInv /\ Len(priceBuf) \in Nat
  BY <1>1, TypeFrame DEF SameScenario, ReviseInv, PriceTyped
<1>3. /\ stream # <<>> /\ Pop /\ row.table \in Tables /\ row.id \in Ids /\ row.ts \in Times
      /\ Version(row.table, row.id, row.ts)
  BY <1>1, <1>2, RowDue
<1>4. /\ rows \in [Ids -> Times]
      /\ \A i \in Ids : rows[i] = IF i = row.id THEN row.ts ELSE 0
  <2>1. 0 \in Times
    BY DEF Times
  <2> HIDE DEF row
  <2> QED
    BY <1>3, <2>1 DEF OneRow, NoRows
<1>5. \A i \in Ids : Version(row.table, i, rows[i])
  BY <1>3, <1>4 DEF Version
<1> HIDE DEF row, rows
<1>6. /\ \A u \in Tables, i \in Ids : Version(u, i, mirror'[u][i])
      /\ \A u \in Tables, i \in Ids : Holds(u, i) => mirror'[u][i] = hub[u][i]
      /\ \A i \in Ids : rows[i] = hub[row.table][i] => mirror'[row.table][i] = hub[row.table][i]
  BY <1>1, <1>2, <1>3, <1>4, <1>5, MergedSettles
<1>7. \A u \in Tables, j \in Ids : Holds(u, j) => Holds(u, j)'
  BY <1>1, <1>6 DEF Holds
<1>8. ASSUME NEW u \in Tables, NEW j \in Ids, Settled(u, j)
      PROVE  Settled(u, j)'
  <2>1. CASE Holds(u, j)
    BY <1>7, <2>1 DEF Settled
  <2>2. CASE OnItsWay(u, j)
    <3>1. \/ OnItsWay(u, j)'
          \/ row.table = u /\ row.id = j /\ row.ts = hub[u][j]
      BY <1>1, <1>2, <1>3, <2>2, PopKeeps DEF row
    <3>2. CASE row.table = u /\ row.id = j /\ row.ts = hub[u][j]
      <4>1. mirror'[u][j] = hub[u][j]
        BY <1>4, <1>6, <3>2
      <4> QED
        BY <1>1, <4>1 DEF Settled, Holds
    <3> QED
      BY <3>1, <3>2 DEF Settled
  <2> QED
    BY <1>8, <2>1, <2>2 DEF Settled
<1>9. PrefixInv' /\ DrainedInv' /\ SettledInv'
  <2>1. InHand \subseteq Tables /\ (Clear' <=> Clear)
    BY <1>1, ReviseTypes DEF InHand, Clear, Current
  <2> QED
    BY <1>1, <1>2, <1>7, <1>8, <2>1, StandStill
<1>10. VersionsInv'
  <2>1. \A k \in 1..Len(priceBuf') : Version(PriceTable, priceBuf'[k].id, priceBuf'[k].ts)
    BY <1>1, <1>2 DEF VersionsInv
  <2> QED
    BY <1>1, <1>2, <1>3, <1>6, <2>1, PopVersions
<1>11. LinkInv' /\ OwedInv' /\ BufferInv'
  BY <1>1, <1>2, LinksFrame
<1> QED
  BY <1>9, <1>10, <1>11 DEF ReviseInv

LEMMA FrameStepKeeps ==
  ASSUME TypeOK, ReviseInv, FrameStep
  PROVE  ReviseInv'
<1>1. CASE StaleFrame
  BY <1>1, QuietPop DEF StaleFrame, hubVars, certVars, tableVars, priceVars
<1>2. CASE HandleBeat
  BY <1>2, QuietPop DEF HandleBeat, FrameDue, hubVars, tableVars, priceVars
<1>3. ~ApplyRowFails
  BY DEF ApplyRowFails, Spend, ReviseInv, VersionsInv
<1> QED
  BY <1>1, <1>2, <1>3, RefuseKeeps, BufferKeeps, ApplyKeeps DEF FrameStep

-----------------------------------------------------------------------------
(* The drain: a page is hub rows in a run above the cursor, what it writes  *)
(* is settled, and the pass of a table from zero settles all of it.         *)

\* The rows run from the one above a position to the last of them.
RunAbove(t, rows, above) ==
  \E last \in 0..hubMax[t] : \A i \in Ids : rows[i] # 0 <=> above < i /\ i <= last

LEMMA HighestIs ==
  ASSUME NEW rows \in [Ids -> Times], NEW above, \E i \in Ids : rows[i] # 0
  PROVE  /\ HighestIn(rows, above) \in Ids /\ rows[HighestIn(rows, above)] # 0
         /\ \A j \in Ids : rows[j] # 0 => j <= HighestIn(rows, above)
<1> DEFINE S == {i \in Ids : rows[i] # 0}
<1>1. S \in SUBSET (0..MaxRows) /\ S # {}
  BY DEF Ids
<1>2. \E i \in S : \A j \in S : j <= i
  BY <1>1, HasGreatest
<1>3. \E i \in Ids : rows[i] # 0 /\ \A j \in Ids : rows[j] # 0 => j <= i
  BY <1>2
<1> QED
  BY <1>3 DEF HighestIn

\* What an append-only table holds up to a position it holds up to the highest
\* row of a run above it.
LEMMA RunHeld ==
  ASSUME TypeOK, VersionsInv, NEW t \in Tables \ env.revised, NEW rows \in [Ids -> Times],
         \A i \in Ids : Version(t, i, rows[i]), mirror' = Merged(t, rows),
         UNCHANGED <<hub, hubMax>>, NEW above \in Nat, HeldTo(t, above), RunAbove(t, rows, above),
         NEW from \in Nat, HighestIn(rows, from) # from
  PROVE  /\ HighestIn(rows, from) <= hubMax'[t]
         /\ \A i \in Ids : i <= HighestIn(rows, from) => Holds(t, i)'
<1> DEFINE highest == HighestIn(rows, from)
<1>1. \E i \in Ids : rows[i] # 0
  BY DEF HighestIn
<1>2. highest \in Ids /\ rows[highest] # 0 /\ \A j \in Ids : rows[j] # 0 => j <= highest
  BY <1>1, HighestIs
<1> HIDE DEF highest
<1>3. PICK last \in 0..hubMax[t] : \A i \in Ids : rows[i] # 0 <=> above < i /\ i <= last
  BY DEF RunAbove
<1>4. highest <= last /\ highest \in Nat /\ hubMax[t] \in Nat /\ highest <= hubMax[t]
  BY <1>2, <1>3, ReviseTypes
<1>5. ASSUME NEW j \in Ids, j <= highest
      PROVE  mirror'[t][j] = hub[t][j]
  <2>1. CASE j <= above
    <3>1. Holds(t, j)
      BY <2>1 DEF HeldTo
    <3> QED
      BY <3>1, MergedSettles
  <2>2. CASE above < j
    <3>1. rows[j] # 0
      BY <1>3, <1>4, <1>5, <2>2, ReviseTypes
    <3>2. rows[j] = hub[t][j]
      BY <3>1 DEF Version
    <3> QED
      BY <3>2, MergedSettles
  <2> QED
    BY <2>1, <2>2, ReviseTypes
<1>6. highest <= hubMax'[t] /\ \A i \in Ids : i <= highest => Holds(t, i)'
  BY <1>4, <1>5 DEF Holds
<1> QED
  BY <1>6 DEF highest

\* The same for every position of the drains, where the table in hand advances.
LEMMA AdvancedHeld ==
  ASSUME TypeOK, ReviseInv, SameScenario, NEW t \in InHand, NEW rows \in [Ids -> Times],
         \A i \in Ids : Version(t, i, rows[i]), mirror' = Merged(t, rows),
         UNCHANGED <<hub, hubMax>>, NEW above \in Nat,
         t \notin env.revised => HeldTo(t, above), RunAbove(t, rows, above),
         positions' = Advanced(t, rows)
  PROVE  \A u \in Tables \ env.revised : HeldTo(u, positions[u])'
<1>1. /\ VersionsInv /\ PrefixInv /\ t \in Tables /\ drain.cursor \in Nat
      /\ positions \in [Tables -> 0..MaxRows]
  BY TypeFrame, ReviseTypes DEF ReviseInv, InHand, TableTyped
<1>2. \A u \in Tables, i \in Ids : Holds(u, i) => Holds(u, i)'
  BY <1>1, MergedSettles DEF Holds
<1> SUFFICES ASSUME NEW u \in Tables \ env.revised PROVE HeldTo(u, positions[u])'
  OBVIOUS
<1>3. HeldTo(u, positions[u])
  BY <1>1 DEF PrefixInv
<1>4. CASE positions'[u] = positions[u]
  BY <1>2, <1>3, <1>4 DEF HeldTo
<1>5. CASE positions'[u] # positions[u]
  <2> DEFINE highest == HighestIn(rows, drain.cursor)
  <2>1. u = t /\ highest > drain.cursor /\ positions'[u] = highest
    BY <1>1, <1>5 DEF Advanced
  <2>2. highest # drain.cursor
    BY <1>1, <2>1
  <2>3. highest <= hubMax'[t] /\ \A i \in Ids : i <= highest => Holds(t, i)'
    BY <1>1, <2>1, <2>2, RunHeld
  <2> QED
    BY <2>1, <2>3 DEF HeldTo
<1> QED
  BY <1>4, <1>5

\* What the steps of a drain leave alone.
DrainQuiet ==
  /\ SameScenario
  /\ UNCHANGED <<hub, hubMax, hubTime, conn, epoch, stream, tableEpoch, owed, owedSeq>>

LEMMA DrainVersions ==
  ASSUME TypeOK, VersionsInv, DrainQuiet,
         \A t \in Tables, i \in Ids : Version(t, i, mirror'[t][i]),
         \A k \in 1..Len(priceBuf') : Version(PriceTable, priceBuf'[k].id, priceBuf'[k].ts),
         drain'.phase = "page" => \A i \in Ids : Version(drain'.table, i, drain'.page[i])
  PROVE  VersionsInv'
<1>1. \A t \in Tables, i \in Ids : Version(t, i, mirror[t][i])'
  BY DEF Version, DrainQuiet, SameScenario
<1>2. \A n \in 1..Len(stream) : stream'[n].kind = "row" =>
        Version(stream[n].table, stream[n].id, stream[n].ts)'
  BY DEF Version, DrainQuiet, SameScenario, VersionsInv
<1>3. \A k \in 1..Len(priceBuf') : Version(PriceTable, priceBuf[k].id, priceBuf[k].ts)'
  BY DEF Version, DrainQuiet, SameScenario
<1>4. drain'.phase = "page" => \A i \in Ids : Version(drain.table, i, drain.page[i])'
  BY DEF Version, DrainQuiet, SameScenario
<1> QED
  BY <1>1, <1>2, <1>3, <1>4 DEF VersionsInv, DrainQuiet, SameScenario

\* A table certified on this connection keeps what it has settled.
CertifiedKeeps ==
  \A t \in Tables : tableEpoch[t] = epoch => \A i \in Ids : Settled(t, i) => Settled(t, i)'

LEMMA SettledStays ==
  ASSUME SettledInv, DrainQuiet, CertifiedKeeps
  PROVE  SettledInv'
BY DEF SettledInv, AllSettled, DrainQuiet, CertifiedKeeps

\* A step that returns from a table, begins a pass or ends one: no table is in hand.
LEMMA HandEmptied ==
  ASSUME TypeOK, ReviseInv, DrainQuiet, CertifiedKeeps,
         drain'.phase \in {"idle", "table"}, drain'.epoch <= epoch, drain'.seq <= owedSeq,
         \A t \in Tables, i \in Ids : Version(t, i, mirror'[t][i]),
         \A k \in 1..Len(priceBuf') : Version(PriceTable, priceBuf'[k].id, priceBuf'[k].ts),
         \A t \in Tables \ env.revised : HeldTo(t, positions[t])',
         priceDrained' = priceDrained, priceDrained => priceBuf' = <<>> /\ ~priceOver'
  PROVE  ReviseInv'
<1>1. VersionsInv /\ LinkInv /\ OwedInv /\ BufferInv /\ SettledInv
  BY DEF ReviseInv
<1>2. InHand' = {}
  BY DEF InHand
<1>3. VersionsInv'
  BY <1>1, DrainVersions
<1>4. LinkInv' /\ OwedInv' /\ BufferInv'
  <2>1. LinkInv'
    BY <1>1 DEF LinkInv, DrainQuiet, Answered
  <2>2. OwedInv'
    BY <1>1, <1>2 DEF OwedInv, DrainQuiet
  <2>3. BufferInv'
    BY <1>1 DEF BufferInv, DrainQuiet
  <2> QED
    BY <2>1, <2>2, <2>3
<1>5. PrefixInv' /\ DrainedInv'
  BY <1>2 DEF PrefixInv, DrainedInv, DrainQuiet, SameScenario
<1>6. SettledInv'
  BY <1>1, SettledStays
<1> QED
  BY <1>3, <1>4, <1>5, <1>6 DEF ReviseInv

\* A step within the pass of the table in hand.
LEMMA HandKept ==
  ASSUME TypeOK, ReviseInv, DrainQuiet, KeepsSettled, InHand # {}, InHand' # {},
         drain'.table = drain.table, drain'.epoch = drain.epoch, drain'.seq = drain.seq,
         drain'.phase \in Answered /\ Current => conn = "live",
         \A t \in Tables, i \in Ids : Version(t, i, mirror'[t][i]),
         \A k \in 1..Len(priceBuf') : Version(PriceTable, priceBuf'[k].id, priceBuf'[k].ts),
         drain'.phase = "page" => \A i \in Ids : Version(drain'.table, i, drain'.page[i]),
         \A t \in Tables \ env.revised : HeldTo(t, positions[t])',
         drain.table \notin env.revised => HeldTo(drain.table, drain.cursor)',
         BufferInv', \A t \in InHand : Drained(t)'
  PROVE  ReviseInv'
<1>1. VersionsInv /\ LinkInv /\ OwedInv /\ BufferInv /\ SettledInv
  BY DEF ReviseInv
<1>2. InHand' = {drain.table} /\ InHand = {drain.table} /\ drain.table \in Tables
  BY ReviseTypes DEF InHand
<1>3. VersionsInv'
  BY <1>1, DrainVersions
<1>4. LinkInv' /\ OwedInv'
  <2>1. LinkInv'
    BY <1>1 DEF LinkInv, DrainQuiet, Current
  <2>2. OwedInv'
    BY <1>1, <1>2 DEF OwedInv, DrainQuiet
  <2> QED
    BY <2>1, <2>2
<1>5. PrefixInv'
  BY <1>2 DEF PrefixInv, DrainQuiet, SameScenario
<1>6. DrainedInv'
  BY <1>2 DEF DrainedInv
<1>7. SettledInv'
  <2>1. CertifiedKeeps
    BY DEF KeepsSettled, CertifiedKeeps
  <2> QED
    BY <1>1, <2>1, SettledStays
<1> QED
  BY <1>3, <1>4, <1>5, <1>6, <1>7 DEF ReviseInv

\* Returning from a table, whatever the pass has to say of it.
LEMMA Returned ==
  ASSUME TypeOK, OwedInv, LinkInv, NEW marks, NEW undrained, TableDone(marks, undrained)
  PROVE  drain'.phase = "table" /\ drain'.epoch <= epoch /\ drain'.seq <= owedSeq
<1>1. drain'.phase = "table" /\ drain'.epoch = drain.epoch /\ drain'.seq = 0
  BY DEF TableDone, IdleDrain
<1> QED
  BY <1>1, ReviseTypes DEF LinkInv

\* A step that writes no row, resets no buffer and leaves no table in hand.
LEMMA QuietReturn ==
  ASSUME TypeOK, ReviseInv, SameScenario,
         UNCHANGED <<hubVars, linkVars, certVars, tableVars, priceVars>>,
         drain'.phase \in {"idle", "table"}, drain'.epoch <= epoch, drain'.seq <= owedSeq
  PROVE  ReviseInv'
<1>1. UNCHANGED <<hub, hubMax, hubTime, conn, epoch, stream, tableEpoch, owed, owedSeq, mirror,
                  positions, priceDrained, priceBuf, priceOver>>
  BY DEF hubVars, linkVars, certVars, tableVars, priceVars
<1>2. VersionsInv /\ PrefixInv /\ BufferInv
  BY DEF ReviseInv
<1>3. DrainQuiet /\ CertifiedKeeps
  BY <1>1, SettledFrame DEF DrainQuiet, CertifiedKeeps, KeepsSettled
<1>4. \A t \in Tables \ env.revised : HeldTo(t, positions[t])'
  BY <1>1, <1>2 DEF PrefixInv, HeldTo, Holds
<1>5. \A t \in Tables, i \in Ids : Version(t, i, mirror'[t][i])
  BY <1>1, <1>2 DEF VersionsInv
<1>6. \A k \in 1..Len(priceBuf') : Version(PriceTable, priceBuf'[k].id, priceBuf'[k].ts)
  BY <1>1, <1>2 DEF VersionsInv
<1> QED
  BY <1>1, <1>2, <1>3, <1>4, <1>5, <1>6, HandEmptied DEF BufferInv

LEMMA BeginKeeps ==
  ASSUME TypeOK, ReviseInv, RunBootCall \/ RetryFires
  PROVE  ReviseInv'
<1>1. /\ UNCHANGED <<hubVars, linkVars, certVars, tableVars, priceVars, env>>
      /\ Begin \/ UNCHANGED drain
  BY DEF RunBootCall, RetryFires
<1>2. UNCHANGED <<hub, hubMax, hubTime, conn, epoch, stream, tableEpoch, owed, owedSeq, mirror,
                  positions, priceDrained, priceBuf, priceOver, env>> /\ SameScenario
  BY <1>1 DEF hubVars, linkVars, certVars, tableVars, priceVars, SameScenario
<1>3. CASE Begin
  <2>1. drain'.phase = "table" /\ drain'.epoch = epoch /\ drain'.seq = 0
    BY <1>3 DEF Begin, IdleDrain
  <2> QED
    BY <1>1, <1>2, <2>1, QuietReturn, ReviseTypes
<1>4. CASE UNCHANGED drain
  <2>1. VersionsInv /\ LinkInv /\ OwedInv /\ BufferInv
    BY DEF ReviseInv
  <2>2. VersionsInv'
    BY <1>2, <1>4, <2>1, VersionsFrame DEF VersionsInv
  <2>3. LinkInv' /\ OwedInv' /\ BufferInv'
    BY <1>2, <1>4, <2>1, LinksFrame
  <2>4. KeepsSettled /\ InHand \subseteq Tables /\ (Clear' <=> Clear)
    BY <1>2, <1>4, SettledFrame, ReviseTypes DEF InHand, Clear, Current
  <2>5. \A u \in Tables, j \in Ids : Holds(u, j) => Holds(u, j)'
    BY <1>2 DEF Holds
  <2>6. PrefixInv' /\ DrainedInv' /\ SettledInv'
    BY <1>2, <1>4, <2>4, <2>5, StandStill DEF KeepsSettled
  <2> QED
    BY <2>2, <2>3, <2>6 DEF ReviseInv
<1> QED
  BY <1>1, <1>3, <1>4

\* A request fails, a table is skipped, or a pass ends.
LEMMA ReturnsKeep ==
  ASSUME TypeOK, ReviseInv,
         PageFails \/ DrainOutlived \/ SkipTables \/ CertifyFullDrain \/ ScheduleRetry
  PROVE  ReviseInv'
<1>1. OwedInv /\ LinkInv /\ env.left["live"] = 0
  BY DEF ReviseInv, VersionsInv
<1>2. CASE PageFails \/ DrainOutlived
  <2>1. /\ Undrained
        /\ UNCHANGED <<hubVars, linkVars, certVars, tableVars, priceVars>>
        /\ env' = env \/ \E kind \in Faults : Spend(kind)
    BY <1>2 DEF PageFails, DrainOutlived, Faults
  <2>2. SameScenario
    BY <1>1, <2>1, ScenarioKept
  <2>3. drain'.phase = "table" /\ drain'.epoch <= epoch /\ drain'.seq <= owedSeq
    BY <1>1, <2>1, Returned DEF Undrained
  <2> QED
    BY <2>1, <2>2, <2>3, QuietReturn
<1>3. CASE SkipTables
  <2>1. /\ drain'.phase = "table" /\ drain'.epoch = drain.epoch /\ drain'.seq = drain.seq
        /\ UNCHANGED <<hubVars, linkVars, certVars, tableVars, priceVars, env>>
    <3>1. drain \in DrainStates /\ drain.phase = "table"
      BY <1>3, TypeFrame DEF SkipTables
    <3>2. drain' = [drain EXCEPT !.todo = {}, !.undrained = TRUE]
      BY <1>3 DEF SkipTables
    <3>3. drain'.phase = "table" /\ drain'.epoch = drain.epoch /\ drain'.seq = drain.seq
      BY <3>1, <3>2 DEF DrainStates
    <3> QED
      BY <1>3, <3>3 DEF SkipTables
  <2>2. SameScenario
    BY <2>1 DEF SameScenario
  <2> QED
    BY <1>1, <2>1, <2>2, QuietReturn DEF OwedInv, LinkInv
<1>4. CASE CertifyFullDrain \/ ScheduleRetry
  <2>1. /\ drain'.phase = "idle" /\ drain'.epoch = 0 /\ drain'.seq = 0
        /\ UNCHANGED <<hub, hubMax, hubTime, conn, epoch, stream, tableEpoch, owed, owedSeq, mirror,
                       positions, priceDrained, priceBuf, priceOver, env>>
    BY <1>4 DEF CertifyFullDrain, ScheduleRetry, IdleDrain, hubVars, linkVars, certVars,
                tableVars, priceVars
  <2>2. VersionsInv /\ PrefixInv /\ BufferInv
    BY DEF ReviseInv
  <2>3. DrainQuiet /\ CertifiedKeeps
    BY <2>1, SettledFrame DEF DrainQuiet, SameScenario, CertifiedKeeps, KeepsSettled
  <2>4. \A t \in Tables \ env.revised : HeldTo(t, positions[t])'
    BY <2>1, <2>2 DEF PrefixInv, HeldTo, Holds
  <2>5. \A t \in Tables, i \in Ids : Version(t, i, mirror'[t][i])
    BY <2>1, <2>2 DEF VersionsInv
  <2>6. \A k \in 1..Len(priceBuf') : Version(PriceTable, priceBuf'[k].id, priceBuf'[k].ts)
    BY <2>1, <2>2 DEF VersionsInv
  <2> QED
    BY <2>1, <2>2, <2>3, <2>4, <2>5, <2>6, HandEmptied, ReviseTypes DEF BufferInv
<1> QED
  BY <1>2, <1>3, <1>4

\* A page that fails half-way: what is kept of it runs from the same position.
LEMMA RowsFailKeeps ==
  ASSUME TypeOK, ReviseInv, NEW t \in InHand, NEW rows \in [Ids -> Times],
         \A i \in Ids : Version(t, i, rows[i]), NEW above \in Nat,
         t \notin env.revised => HeldTo(t, above), RunAbove(t, rows, above), RowsFail(t, rows),
         UNCHANGED <<hubVars, linkVars, certVars, owed, owedSeq, priceVars>>
  PROVE  ReviseInv'
<1>1. PICK bad \in Ids :
        LET kept == [i \in Ids |-> IF i < bad THEN rows[i] ELSE 0] IN
        mirror' = Merged(t, kept) /\ positions' = Advanced(t, kept)
  BY DEF RowsFail
<1> DEFINE kept == [i \in Ids |-> IF i < bad THEN rows[i] ELSE 0]
<1>2. /\ mirror' = Merged(t, kept) /\ positions' = Advanced(t, kept)
      /\ UNCHANGED <<hub, hubMax, hubTime, conn, epoch, stream, tableEpoch, owed, owedSeq,
                     priceDrained, priceBuf, priceOver>>
  BY <1>1 DEF hubVars, linkVars, certVars, priceVars
<1>3. kept \in [Ids -> Times] /\ \A i \in Ids : kept[i] = IF i < bad THEN rows[i] ELSE 0
  BY DEF Times
<1> HIDE DEF kept
<1>4. VersionsInv /\ OwedInv /\ LinkInv /\ BufferInv /\ env.left["live"] = 0 /\ t \in Tables
  BY ReviseTypes DEF ReviseInv, VersionsInv, InHand
<1>5. SameScenario
  <2>1. Spend("apply") /\ "apply" \in Faults
    BY DEF RowsFail, Faults
  <2> QED
    BY <1>4, <2>1, ScenarioKept
<1>6. \A i \in Ids : Version(t, i, kept[i])
  BY <1>3 DEF Version
<1>7. RunAbove(t, kept, above)
  <2>1. PICK last \in 0..hubMax[t] : \A i \in Ids : rows[i] # 0 <=> above < i /\ i <= last
    BY DEF RunAbove
  <2>2. hubMax[t] \in Nat /\ bad \in Nat \ {0}
    BY <1>4, ReviseTypes
  <2>3. PICK low \in 0..hubMax[t] : \A i \in Nat : i <= low <=> i < bad /\ i <= last
    <3>1. CASE last < bad
      BY <2>2, <3>1
    <3>2. CASE bad <= last
      <4>1. bad - 1 \in 0..hubMax[t] /\ \A i \in Nat : i <= bad - 1 <=> i < bad /\ i <= last
        BY <2>2, <3>2
      <4> QED
        BY <4>1
    <3> QED
      BY <2>2, <3>1, <3>2
  <2>4. \A i \in Ids : i \in Nat
    BY ReviseTypes
  <2>5. \A i \in Ids : kept[i] # 0 <=> above < i /\ i <= low
    BY <1>3, <2>1, <2>3, <2>4
  <2> QED
    BY <2>5 DEF RunAbove
<1>8. \A u \in Tables \ env.revised : HeldTo(u, positions[u])'
  BY <1>2, <1>3, <1>5, <1>6, <1>7, AdvancedHeld
<1>9. /\ KeepsSettled
      /\ \A u \in Tables, i \in Ids : Version(u, i, mirror'[u][i])
  BY <1>2, <1>3, <1>4, <1>6, MergedKeeps, MergedSettles
<1>10. \A k \in 1..Len(priceBuf') : Version(PriceTable, priceBuf'[k].id, priceBuf'[k].ts)
  BY <1>2, <1>4 DEF VersionsInv
<1>11. DrainQuiet /\ CertifiedKeeps
  BY <1>2, <1>5, <1>9 DEF DrainQuiet, CertifiedKeeps, KeepsSettled
<1>12. drain'.phase = "table" /\ drain'.epoch <= epoch /\ drain'.seq <= owedSeq
  BY <1>4, Returned DEF RowsFail, Undrained
<1> QED
  BY <1>2, <1>4, <1>8, <1>9, <1>10, <1>11, <1>12, HandEmptied DEF BufferInv

\* A table is opened: what it does not page again it has settled.
LEMMA OpenKeeps ==
  ASSUME TypeOK, ReviseInv, NEW t \in Tables, OpenTable(t)
  PROVE  ReviseInv'
<1>1. PICK start \in {0, positions[t]} :
        /\ start # 0 => owed[t] = 0
        /\ drain' = [drain EXCEPT !.phase = "fetch", !.table = t, !.todo = drain.todo \ {t},
                                  !.cursor = start, !.full = (start = 0), !.seq = owed[t]]
        /\ positions' = [positions EXCEPT ![t] = start]
  BY DEF OpenTable
<1>2. /\ drain.phase = "table" /\ Current
      /\ UNCHANGED <<hub, hubMax, hubTime, conn, epoch, stream, tableEpoch, owed, owedSeq, mirror,
                     priceDrained, priceBuf, priceOver, env>>
  BY DEF OpenTable, hubVars, linkVars, certVars, priceVars
<1>3. /\ drain'.phase = "fetch" /\ drain'.table = t /\ drain'.cursor = start
      /\ drain'.seq = owed[t] /\ drain'.epoch = drain.epoch
  <2>1. drain \in DrainStates
    BY TypeFrame
  <2> QED
    BY <1>1, <2>1 DEF DrainStates
<1>4. \A u \in Tables : positions'[u] \in {positions[u], 0} /\ (u = t => positions'[u] = start)
  <2>1. positions \in [Tables -> 0..MaxRows]
    BY TypeFrame DEF TableTyped
  <2> QED
    BY <1>1, <2>1
<1>5. /\ VersionsInv /\ LinkInv /\ OwedInv /\ BufferInv /\ PrefixInv /\ SettledInv
      /\ SameScenario /\ DrainQuiet
  BY <1>2 DEF ReviseInv, SameScenario, DrainQuiet
<1>6. InHand' = {t}
  BY <1>3 DEF InHand
<1>7. KeepsSettled
  BY <1>2, SettledFrame
<1>8. VersionsInv'
  <2>1. \A u \in Tables, i \in Ids : Version(u, i, mirror'[u][i])
    BY <1>2, <1>5 DEF VersionsInv
  <2>2. \A k \in 1..Len(priceBuf') : Version(PriceTable, priceBuf'[k].id, priceBuf'[k].ts)
    BY <1>2, <1>5 DEF VersionsInv
  <2> QED
    BY <1>3, <1>5, <2>1, <2>2, DrainVersions
<1>9. LinkInv' /\ OwedInv' /\ BufferInv'
  <2>1. LinkInv'
    BY <1>2, <1>3, <1>5 DEF LinkInv, Answered
  <2>2. OwedInv'
    BY <1>2, <1>3, <1>5, <1>6 DEF OwedInv
  <2>3. BufferInv'
    BY <1>2, <1>3, <1>5 DEF BufferInv
  <2> QED
    BY <2>1, <2>2, <2>3
<1>10. PrefixInv'
  <2>1. ASSUME NEW u \in Tables \ env.revised PROVE HeldTo(u, positions[u])'
    <3>1. HeldTo(u, positions[u])
      BY <1>5, <2>1 DEF PrefixInv
    <3>2. CASE positions'[u] = positions[u]
      BY <1>2, <3>1, <3>2 DEF HeldTo, Holds
    <3>3. CASE positions'[u] = 0
      <4>1. hubMax[u] \in Nat /\ \A j \in Ids : ~(j <= 0)
        BY ReviseTypes
      <4> QED
        BY <1>2, <3>3, <4>1 DEF HeldTo
    <3> QED
      BY <1>4, <3>2, <3>3
  <2>2. \A u \in InHand' : drain'.cursor = positions'[u] /\ u \in Tables
    BY <1>3, <1>4, <1>6
  <2> QED
    BY <1>2, <2>1, <2>2 DEF PrefixInv, HeldTo
<1>11. DrainedInv'
  <2>1. ASSUME Clear', NEW i \in Ids, i <= start
        PROVE  Settled(t, i)
    <3>1. conn = "live" /\ start # 0
      BY <1>2, <2>1, ReviseTypes DEF Clear
    <3>2. start = positions[t] /\ owed[t] = 0
      BY <1>1, <3>1
    <3>3. CASE t \in env.revised
      <4>1. tableEpoch[t] = epoch
        BY <1>5, <3>1, <3>2, <3>3, ReviseTypes DEF OwedInv
      <4> QED
        BY <1>5, <3>2, <4>1 DEF SettledInv, AllSettled
    <3>4. CASE t \notin env.revised
      BY <1>5, <2>1, <3>2, <3>4 DEF PrefixInv, HeldTo, Settled
    <3> QED
      BY <3>3, <3>4
  <2>2. ASSUME NEW i \in Ids, Clear', i <= drain'.cursor PROVE Settled(t, i)'
    BY <1>3, <1>7, <2>1, <2>2 DEF KeepsSettled
  <2>3. Drained(t)'
    BY <1>3, <2>2 DEF Drained, Answered
  <2> QED
    BY <1>6, <2>3 DEF DrainedInv
<1>12. SettledInv'
  <2>1. CertifiedKeeps
    BY <1>7 DEF KeepsSettled, CertifiedKeeps
  <2> QED
    BY <1>5, <2>1, SettledStays
<1> QED
  BY <1>8, <1>9, <1>10, <1>11, <1>12 DEF ReviseInv

\* The snapshot is answered while a subscription is live.
LEMMA ServeKeeps ==
  ASSUME TypeOK, ReviseInv, ~RestWithoutStream, ServePage
  PROVE  ReviseInv'
<1>0. PICK t, rows, short : /\ t = drain.table /\ rows = Page(t, drain.cursor)
                            /\ short = (hubMax[t] - drain.cursor < PageLimit)
  OBVIOUS
<1>1. /\ drain.phase = "fetch" /\ conn = "live"
      /\ drain' = [drain EXCEPT !.phase = "page", !.page = rows, !.short = short,
                                !.mark = hubTime]
      /\ UNCHANGED <<hub, hubMax, hubTime, conn, epoch, stream, tableEpoch, owed, owedSeq, mirror,
                     positions, priceDrained, priceBuf, priceOver, env>>
  BY <1>0 DEF ServePage, RestServes, hubVars, linkVars, certVars, tableVars, priceVars
<1>2. /\ VersionsInv /\ BufferInv /\ PrefixInv /\ DrainedInv /\ DrainQuiet
      /\ InHand = {t} /\ t \in Tables
      /\ hubMax[t] \in Nat /\ drain.cursor \in Nat /\ PageLimit \in Nat \ {0}
  BY <1>0, <1>1, ReviseTypes DEF ReviseInv, InHand, DrainQuiet, SameScenario
<1>3. /\ \A i \in Ids : Version(t, i, rows[i])
      /\ \A i \in Ids : rows[i] = IF drain.cursor < i /\ i <= PageEnd(t, drain.cursor)
                                  THEN hub[t][i] ELSE 0
  BY <1>0, <1>2, PageVersions DEF Page
<1>4. PageEnd(t, drain.cursor) \in 0..hubMax[t] /\ (short => PageEnd(t, drain.cursor) = hubMax[t])
  BY <1>0, <1>2 DEF PageEnd
<1>5. /\ drain'.phase = "page" /\ drain'.table = drain.table /\ drain'.epoch = drain.epoch
      /\ drain'.seq = drain.seq /\ drain'.cursor = drain.cursor
      /\ drain'.page = rows /\ drain'.short = short
  <2>1. drain \in DrainStates
    BY TypeFrame
  <2> QED
    BY <1>1, <2>1 DEF DrainStates
<1>6. InHand' # {} /\ KeepsSettled
  BY <1>1, <1>5, SettledFrame DEF InHand
<1>7. \A i \in Ids : rows[i] # 0 <=> drain.cursor < i /\ i <= PageEnd(t, drain.cursor)
  <2>1. \A i \in Ids : hub[t][i] # 0 <=> i <= hubMax[t]
    BY <1>2 DEF VersionsInv
  <2>2. \A i \in Ids : i \in Nat
    BY ReviseTypes
  <2> QED
    BY <1>2, <1>3, <1>4, <2>1, <2>2
<1>8. \A i \in Ids : drain.cursor < i /\ (short \/ rows[i] # 0) => rows[i] = hub[t][i]
  <2>1. \A i \in Ids : hub[t][i] # 0 <=> i <= hubMax[t]
    BY <1>2 DEF VersionsInv
  <2>2. \A i \in Ids : i \in Nat
    BY ReviseTypes
  <2> QED
    BY <1>2, <1>3, <1>4, <2>1, <2>2
<1>9. Drained(t)'
  <2>1. Paged(t)'
    <3>1. PageEnd(t, drain.cursor) \in 0..hubMax'[t]
      BY <1>1, <1>4
    <3>2. \A i \in Ids : drain'.page[i] # 0 <=> drain'.cursor < i /\ i <= PageEnd(t, drain.cursor)
      BY <1>5, <1>7
    <3> QED
      BY <3>1, <3>2 DEF Paged
  <2>2. Clear' => \A i \in Ids : i <= drain'.cursor => Settled(t, i)'
    <3>1. Clear' <=> Clear
      BY <1>1, <1>5 DEF Clear, Current
    <3>2. Clear => \A i \in Ids : i <= drain.cursor => Settled(t, i)
      BY <1>1, <1>2 DEF DrainedInv, Drained
    <3> QED
      BY <1>2, <1>5, <1>6, <3>1, <3>2 DEF KeepsSettled
  <2>3. \A i \in Ids : drain'.cursor < i /\ (drain'.short \/ drain'.page[i] # 0) =>
          drain'.page[i] = hub'[t][i]
    BY <1>1, <1>5, <1>8
  <2> QED
    BY <1>5, <2>1, <2>2, <2>3 DEF Drained
<1>10. \A u \in Tables, i \in Ids : Version(u, i, mirror'[u][i])
  BY <1>1, <1>2 DEF VersionsInv
<1>11. \A k \in 1..Len(priceBuf') : Version(PriceTable, priceBuf'[k].id, priceBuf'[k].ts)
  BY <1>1, <1>2 DEF VersionsInv
<1>12. \A i \in Ids : Version(drain'.table, i, drain'.page[i])
  BY <1>0, <1>3, <1>5
<1>13. /\ \A u \in Tables \ env.revised : HeldTo(u, positions[u])'
       /\ drain.table \notin env.revised => HeldTo(drain.table, drain.cursor)'
  <2>1. \A u \in Tables \ env.revised : HeldTo(u, positions[u])'
    BY <1>1, <1>2 DEF PrefixInv, HeldTo, Holds
  <2>2. drain.table \notin env.revised => HeldTo(drain.table, drain.cursor)'
    BY <1>0, <1>1, <1>2, <1>5 DEF PrefixInv, HeldTo, Holds
  <2> QED
    BY <2>1, <2>2
<1>14. BufferInv'
  BY <1>1, <1>2, <1>5 DEF BufferInv
<1>15. \A u \in InHand : Drained(u)'
  BY <1>2, <1>9
<1> QED
  BY <1>0, <1>1, <1>2, <1>5, <1>6, <1>10, <1>11, <1>12, <1>13, <1>14, <1>15, HandKept

\* What the page in hand writes.
LEMMA PageInHand ==
  ASSUME TypeOK, ReviseInv, drain.phase = "page", Current
  PROVE  /\ InHand = {drain.table} /\ drain.table \in Tables /\ conn = "live"
         /\ drain.page \in [Ids -> Times]
         /\ \A i \in Ids : Version(drain.table, i, drain.page[i])
         /\ drain.cursor \in Nat /\ RunAbove(drain.table, drain.page, drain.cursor)
         /\ drain.table \notin env.revised => HeldTo(drain.table, drain.cursor)
         /\ Drained(drain.table)
<1>1. InHand = {drain.table} /\ VersionsInv /\ DrainedInv /\ PrefixInv /\ LinkInv
  BY DEF InHand, ReviseInv
<1>2. drain.table \in Tables /\ drain.page \in [Ids -> Times] /\ drain.cursor \in Nat
  BY ReviseTypes
<1>3. Drained(drain.table)
  BY <1>1 DEF DrainedInv
<1>4. RunAbove(drain.table, drain.page, drain.cursor)
  BY <1>3 DEF Drained, Paged, RunAbove
<1>5. conn = "live"
  BY <1>1 DEF LinkInv, Answered
<1> QED
  BY <1>1, <1>2, <1>3, <1>4, <1>5 DEF VersionsInv, PrefixInv

LEMMA PageKeeps ==
  ASSUME TypeOK, ReviseInv, ApplyPage
  PROVE  ReviseInv'
<1>0. PICK t, rows, highest : /\ t = drain.table /\ rows = drain.page
                              /\ highest = HighestIn(rows, drain.cursor)
  OBVIOUS
<1>1. /\ drain.phase = "page" /\ Current
      /\ mirror' = Merged(t, rows) /\ positions' = Advanced(t, rows)
      /\ drain' = [drain EXCEPT !.phase = IF drain.short THEN "catchup" ELSE "fetch",
                                !.cursor = highest, !.page = NoRows]
      /\ UNCHANGED <<hub, hubMax, hubTime, conn, epoch, stream, tableEpoch, owed, owedSeq,
                     priceDrained, priceBuf, priceOver, env>>
  BY <1>0 DEF ApplyPage, hubVars, linkVars, certVars, priceVars
<1>2. /\ InHand = {t} /\ t \in Tables /\ conn = "live" /\ rows \in [Ids -> Times]
      /\ \A i \in Ids : Version(t, i, rows[i])
      /\ drain.cursor \in Nat /\ RunAbove(t, rows, drain.cursor)
      /\ t \notin env.revised => HeldTo(t, drain.cursor)
      /\ Drained(t) /\ drain.short \in BOOLEAN
  BY <1>0, <1>1, PageInHand, ReviseTypes
<1>3. VersionsInv /\ BufferInv /\ PrefixInv /\ DrainQuiet /\ SameScenario
  BY <1>1 DEF ReviseInv, DrainQuiet, SameScenario
<1>4. /\ KeepsSettled
      /\ \A u \in Tables, i \in Ids : Holds(u, i) => Holds(u, i)'
      /\ \A i \in Ids : rows[i] = hub[t][i] => Holds(t, i)'
      /\ \A u \in Tables, i \in Ids : Version(u, i, mirror'[u][i])
  BY <1>1, <1>2, <1>3, MergedKeeps, MergedSettles
<1>5. \A u \in Tables \ env.revised : HeldTo(u, positions[u])'
  BY <1>1, <1>2, <1>3, AdvancedHeld
<1>6. /\ drain'.phase = (IF drain.short THEN "catchup" ELSE "fetch")
      /\ drain'.table = t /\ drain'.epoch = drain.epoch
      /\ drain'.seq = drain.seq /\ drain'.cursor = highest
  <2>1. drain \in DrainStates
    BY TypeFrame
  <2> QED
    BY <1>0, <1>1, <2>1 DEF DrainStates
<1>7. InHand' # {}
  BY <1>2, <1>6 DEF InHand
<1>8. t \notin env.revised => HeldTo(t, drain.cursor)'
  <2> SUFFICES ASSUME t \notin env.revised PROVE HeldTo(t, drain.cursor)'
    OBVIOUS
  <2>1. CASE highest = drain.cursor
    BY <1>1, <1>2, <1>4, <1>6, <2>1 DEF HeldTo
  <2>2. CASE highest # drain.cursor
    <3>1. /\ highest <= hubMax'[t]
          /\ \A i \in Ids : i <= highest => Holds(t, i)'
      BY <1>0, <1>1, <1>2, <1>3, <2>2, RunHeld
    <3> QED
      BY <1>6, <3>1 DEF HeldTo
  <2> QED
    BY <2>1, <2>2
<1>9. Clear => \A i \in Ids : i <= highest \/ drain.short => Settled(t, i)'
  <2> SUFFICES ASSUME Clear, NEW i \in Ids, i <= highest \/ drain.short PROVE Settled(t, i)'
    OBVIOUS
  <2>1. CASE i <= drain.cursor
    <3>1. Settled(t, i)
      BY <1>1, <1>2, <2>1 DEF Drained
    <3> QED
      BY <1>2, <1>4, <3>1 DEF KeepsSettled
  <2>2. CASE drain.cursor < i
    <3>1. drain.short \/ rows[i] # 0
      <4> SUFFICES ASSUME i <= highest PROVE rows[i] # 0
        OBVIOUS
      <4>1. highest # drain.cursor
        BY <1>2, <2>2, ReviseTypes
      <4>2. \E j \in Ids : rows[j] # 0
        BY <1>0, <4>1 DEF HighestIn
      <4>3. highest \in Ids /\ rows[highest] # 0
        BY <1>0, <1>2, <4>2, HighestIs
      <4>4. PICK last \in 0..hubMax[t] : \A j \in Ids : rows[j] # 0 <=> drain.cursor < j /\ j <= last
        BY <1>2 DEF RunAbove
      <4>5. highest <= last /\ highest \in Nat /\ i \in Nat /\ hubMax[t] \in Nat
        BY <1>2, <4>3, <4>4, ReviseTypes
      <4> QED
        BY <2>2, <4>4, <4>5
    <3>2. Settled(t, i) \/ rows[i] = hub[t][i]
      BY <1>0, <1>1, <1>2, <2>2, <3>1 DEF Drained
    <3> QED
      BY <1>2, <1>4, <3>2 DEF KeepsSettled, Settled
  <2> QED
    BY <1>2, <2>1, <2>2, ReviseTypes
<1>10. \A u \in InHand : Drained(u)'
  <2>1. Clear' <=> Clear
    BY <1>0, <1>1, <1>6 DEF Clear, Current
  <2>2. CASE drain.short
    <3>1. drain'.phase = "catchup"
      BY <1>6, <2>2
    <3>2. Clear' => \A i \in Ids : Settled(t, i)'
      BY <1>9, <2>1, <2>2
    <3>3. Drained(t)'
      BY <3>1, <3>2 DEF Drained, AllSettled
    <3> QED
      BY <1>2, <3>3
  <2>3. CASE ~drain.short
    <3>1. drain'.phase = "fetch"
      BY <1>6, <2>3
    <3>2. Clear' => \A i \in Ids : i <= drain'.cursor => Settled(t, i)'
      BY <1>6, <1>9, <2>1
    <3>3. Drained(t)'
      BY <3>1, <3>2 DEF Drained, Answered
    <3> QED
      BY <1>2, <3>3
  <2> QED
    BY <2>2, <2>3
<1>11. \A k \in 1..Len(priceBuf') : Version(PriceTable, priceBuf'[k].id, priceBuf'[k].ts)
  BY <1>1, <1>3 DEF VersionsInv
<1>12. BufferInv'
  BY <1>1, <1>3, <1>6 DEF BufferInv
<1>13. drain'.phase # "page"
  BY <1>6
<1> QED
  BY <1>0, <1>2, <1>3, <1>4, <1>5, <1>6, <1>7, <1>8, <1>10, <1>11, <1>12, <1>13, HandKept

LEMMA PageRuns ==
  ASSUME TypeOK, VersionsInv, NEW t \in Tables, NEW above \in Nat
  PROVE  RunAbove(t, Page(t, above), above)
<1>1. /\ hubMax[t] \in Nat /\ PageLimit \in Nat
      /\ \A i \in Ids : i \in Nat /\ (hub[t][i] # 0 <=> i <= hubMax[t])
  BY ReviseTypes DEF VersionsInv
<1>2. PageEnd(t, above) \in 0..hubMax[t]
  BY <1>1 DEF PageEnd
<1>3. \A i \in Ids : Page(t, above)[i] = IF above < i /\ i <= PageEnd(t, above) THEN hub[t][i] ELSE 0
  BY DEF Page
<1>4. \A i \in Ids : Page(t, above)[i] # 0 <=> above < i /\ i <= PageEnd(t, above)
  BY <1>1, <1>2, <1>3
<1> QED
  BY <1>2, <1>4 DEF RunAbove

\* The catch-up page runs from the table's position.
LEMMA CatchUpPage ==
  ASSUME TypeOK, ReviseInv, drain.phase = "catchup"
  PROVE  LET t == drain.table  above == positions[t]  rows == Page(t, above) IN
         /\ t \in Tables /\ InHand = {t} /\ above \in Nat
         /\ rows \in [Ids -> Times] /\ \A i \in Ids : Version(t, i, rows[i])
         /\ RunAbove(t, rows, above)
         /\ t \notin env.revised => HeldTo(t, above)
<1>1. PICK t \in Tables : t = drain.table
  BY ReviseTypes
<1>2. PICK above \in Nat : above = positions[t]
  BY ReviseTypes
<1>3. VersionsInv /\ PrefixInv
  BY DEF ReviseInv
<1>4. Page(t, above) \in [Ids -> Times] /\ \A i \in Ids : Version(t, i, Page(t, above)[i])
  BY <1>3, PageVersions
<1>5. RunAbove(t, Page(t, above), above)
  BY <1>3, PageRuns
<1>6. InHand = {t}
  BY <1>1 DEF InHand
<1>7. t \notin env.revised => HeldTo(t, above)
  BY <1>2, <1>3 DEF PrefixInv
<1> QED
  BY <1>1, <1>2, <1>4, <1>5, <1>6, <1>7

LEMMA RowsFailStepKeeps ==
  ASSUME TypeOK, ReviseInv, ApplyPageFails \/ CatchUpFails
  PROVE  ReviseInv'
<1>1. CASE ApplyPageFails
  <2>1. PICK t, rows, above : t = drain.table /\ rows = drain.page /\ above = drain.cursor
    OBVIOUS
  <2>2. /\ RowsFail(t, rows)
        /\ UNCHANGED <<hubVars, linkVars, certVars, owed, owedSeq, priceVars>>
    BY <1>1, <2>1 DEF ApplyPageFails
  <2>3. /\ t \in InHand /\ rows \in [Ids -> Times] /\ above \in Nat
        /\ \A i \in Ids : Version(t, i, rows[i])
        /\ t \notin env.revised => HeldTo(t, above)
        /\ RunAbove(t, rows, above)
    BY <1>1, <2>1, PageInHand DEF ApplyPageFails
  <2> QED
    BY <2>2, <2>3, RowsFailKeeps
<1>2. CASE CatchUpFails
  <2>1. PICK t, above : t = drain.table /\ above = positions[t]
    OBVIOUS
  <2>2. PICK rows : rows = Page(t, above)
    OBVIOUS
  <2>3. /\ RowsFail(t, rows)
        /\ UNCHANGED <<hubVars, linkVars, certVars, owed, owedSeq, priceVars>>
    BY <1>2, <2>1, <2>2 DEF CatchUpFails
  <2>4. /\ t \in InHand /\ rows \in [Ids -> Times] /\ above \in Nat
        /\ \A i \in Ids : Version(t, i, rows[i])
        /\ t \notin env.revised => HeldTo(t, above)
        /\ RunAbove(t, rows, above)
    BY <1>2, <2>1, <2>2, CatchUpPage DEF CatchUpFails
  <2> QED
    BY <2>3, <2>4, RowsFailKeeps
<1> QED
  BY <1>1, <1>2

\* A step after the last page of a table: what was settled stays so.
LEMMA AnsweredKeeps ==
  ASSUME TypeOK, ReviseInv, DrainQuiet, KeepsSettled,
         drain.phase \in Answered \ {"page"}, Current,
         drain'.phase \in {"verdict", "replay", "landed"},
         drain' = [drain EXCEPT !.phase = drain'.phase],
         \A t \in Tables, i \in Ids : Holds(t, i) => Holds(t, i)',
         \A t \in Tables, i \in Ids : Version(t, i, mirror'[t][i]),
         \A k \in 1..Len(priceBuf') : Version(PriceTable, priceBuf'[k].id, priceBuf'[k].ts),
         \A t \in Tables \ env.revised : HeldTo(t, positions[t])',
         UNCHANGED priceOver, BufferInv'
  PROVE  ReviseInv'
<1>1. /\ drain'.table = drain.table /\ drain'.epoch = drain.epoch
      /\ drain'.seq = drain.seq /\ drain'.cursor = drain.cursor
  <2>1. drain \in DrainStates
    BY TypeFrame
  <2> QED
    BY <2>1 DEF DrainStates
<1>2. PICK t \in Tables : t = drain.table
  BY ReviseTypes
<1>3. InHand = {t} /\ InHand' = {t} /\ PrefixInv /\ DrainedInv /\ conn = "live"
  BY <1>1, <1>2 DEF InHand, Answered, ReviseInv, LinkInv
<1>4. Drained(t)'
  <2>1. Clear' => Clear
    BY <1>1 DEF Clear, Current, DrainQuiet
  <2>2. Clear => \A i \in Ids : Settled(t, i)
    BY <1>3 DEF DrainedInv, Drained, AllSettled
  <2>3. Clear' => \A i \in Ids : Settled(t, i)'
    BY <2>1, <2>2 DEF KeepsSettled
  <2> QED
    BY <2>3 DEF Drained, AllSettled
<1>5. drain.table \notin env.revised => HeldTo(drain.table, drain.cursor)'
  <2> SUFFICES ASSUME t \notin env.revised PROVE HeldTo(drain.table, drain.cursor)'
    BY <1>2
  <2>1. HeldTo(t, drain.cursor)
    BY <1>3 DEF PrefixInv
  <2> QED
    BY <1>1, <1>2, <2>1 DEF HeldTo, DrainQuiet
<1>6. \A u \in InHand : Drained(u)'
  BY <1>3, <1>4
<1> QED
  BY <1>1, <1>3, <1>5, <1>6, HandKept

LEMMA CatchUpKeeps ==
  ASSUME TypeOK, ReviseInv, CatchUp
  PROVE  ReviseInv'
<1>1. PICK t, above : t = drain.table /\ above = positions[t]
  OBVIOUS
<1>2. PICK rows : rows = Page(t, above)
  OBVIOUS
<1>3. /\ drain.phase = "catchup" /\ Current
      /\ drain' = [drain EXCEPT !.phase = "verdict"]
      /\ \/ mirror' = Merged(t, rows) /\ positions' = Advanced(t, rows)
         \/ UNCHANGED <<mirror, positions>>
      /\ env' = env \/ \E kind \in Faults : Spend(kind)
      /\ UNCHANGED <<hub, hubMax, hubTime, conn, epoch, stream, tableEpoch, owed, owedSeq,
                     priceDrained, priceBuf, priceOver>>
  <2>1. env' = env \/ Spend("rest")
    BY DEF CatchUp
  <2>2. "rest" \in Faults
    BY DEF Faults
  <2> QED
    BY <1>1, <1>2, <2>1, <2>2 DEF CatchUp, hubVars, linkVars, certVars, priceVars
<1>4. /\ t \in Tables /\ InHand = {t} /\ above \in Nat
      /\ rows \in [Ids -> Times] /\ \A i \in Ids : Version(t, i, rows[i])
      /\ RunAbove(t, rows, above)
      /\ t \notin env.revised => HeldTo(t, above)
  BY <1>1, <1>2, <1>3, CatchUpPage
<1>5. VersionsInv /\ BufferInv /\ PrefixInv /\ env.left["live"] = 0
  BY DEF ReviseInv, VersionsInv
<1>6. SameScenario /\ DrainQuiet
  BY <1>3, <1>5, ScenarioKept DEF DrainQuiet
<1>7. /\ KeepsSettled
      /\ \A u \in Tables, i \in Ids : Holds(u, i) => Holds(u, i)'
      /\ \A u \in Tables, i \in Ids : Version(u, i, mirror'[u][i])
      /\ \A u \in Tables \ env.revised : HeldTo(u, positions[u])'
  <2>1. CASE mirror' = Merged(t, rows) /\ positions' = Advanced(t, rows)
    BY <1>3, <1>4, <1>5, <1>6, <2>1, MergedKeeps, MergedSettles, AdvancedHeld
  <2>2. CASE UNCHANGED <<mirror, positions>>
    <3>1. KeepsSettled
      BY <1>3, <2>2, SettledFrame
    <3>2. /\ \A u \in Tables, i \in Ids : Holds(u, i) => Holds(u, i)'
          /\ \A u \in Tables, i \in Ids : Version(u, i, mirror'[u][i])
      BY <1>3, <1>5, <2>2 DEF Holds, VersionsInv
    <3>3. \A u \in Tables \ env.revised : HeldTo(u, positions[u])'
      BY <1>3, <1>5, <2>2 DEF PrefixInv, HeldTo, Holds
    <3> QED
      BY <3>1, <3>2, <3>3
  <2> QED
    BY <1>3, <2>1, <2>2
<1>8. \A k \in 1..Len(priceBuf') : Version(PriceTable, priceBuf'[k].id, priceBuf'[k].ts)
  BY <1>3, <1>5 DEF VersionsInv
<1>9. drain'.phase = "verdict"
  BY <1>3, TypeFrame DEF DrainStates
<1>10. BufferInv'
  BY <1>3, <1>5, <1>9 DEF BufferInv
<1> QED
  BY <1>3, <1>6, <1>7, <1>8, <1>9, <1>10, AnsweredKeeps DEF Answered

LEMMA QueueKeeps ==
  ASSUME TypeOK, ReviseInv, QueueReplay
  PROVE  ReviseInv'
<1>1. /\ drain.phase = "verdict" /\ Current
      /\ drain' = [drain EXCEPT !.phase = "replay"]
      /\ UNCHANGED <<hub, hubMax, hubTime, conn, epoch, stream, tableEpoch, owed, owedSeq, mirror,
                     positions, priceDrained, priceBuf, priceOver, env>>
  BY DEF QueueReplay, hubVars, linkVars, certVars, tableVars, priceVars
<1>2. VersionsInv /\ BufferInv /\ PrefixInv
  BY DEF ReviseInv
<1>3. DrainQuiet /\ KeepsSettled
  BY <1>1, SettledFrame DEF DrainQuiet, SameScenario
<1>4. drain'.phase = "replay"
  BY <1>1, TypeFrame DEF DrainStates
<1>5. BufferInv'
  BY <1>1, <1>2, <1>4 DEF BufferInv
<1>6. /\ \A u \in Tables, i \in Ids : Holds(u, i) => Holds(u, i)'
      /\ \A u \in Tables, i \in Ids : Version(u, i, mirror'[u][i])
  BY <1>1, <1>2 DEF Holds, VersionsInv
<1>7. \A u \in Tables \ env.revised : HeldTo(u, positions[u])'
  BY <1>1, <1>2 DEF PrefixInv, HeldTo, Holds
<1>8. \A k \in 1..Len(priceBuf') : Version(PriceTable, priceBuf'[k].id, priceBuf'[k].ts)
  BY <1>1, <1>2 DEF VersionsInv
<1> QED
  BY <1>1, <1>3, <1>4, <1>5, <1>6, <1>7, <1>8, AnsweredKeeps DEF Answered

\* What a replay writes of the buffer, and what it leaves there.
LEMMA ReplayWrites ==
  ASSUME TypeOK, ReviseInv, NEW n \in 0..Len(priceBuf),
         mirror' = Merged(PriceTable, BufferedRows(n)),
         priceBuf' = SubSeq(priceBuf, n + 1, Len(priceBuf)),
         UNCHANGED <<hub, hubMax, epoch, stream, positions>>, SameScenario
  PROVE  /\ KeepsSettled
         /\ \A u \in Tables, i \in Ids : Holds(u, i) => Holds(u, i)'
         /\ \A u \in Tables, i \in Ids : Version(u, i, mirror'[u][i])
         /\ \A k \in 1..Len(priceBuf') : Version(PriceTable, priceBuf'[k].id, priceBuf'[k].ts)
         /\ \A u \in Tables \ env.revised : HeldTo(u, positions[u])'
<1>1. PICK rows : rows = BufferedRows(n)
  OBVIOUS
<1>2. /\ VersionsInv /\ PrefixInv /\ priceBuf \in Seq(RowFrames) /\ PriceTable \in Tables
      /\ Len(priceBuf) \in Nat /\ n \in Nat
  BY TypeFrame DEF ReviseInv, PriceTyped
<1>3. /\ rows \in [Ids -> Times] /\ \A i \in Ids : Version(PriceTable, i, rows[i])
      /\ \A k \in 1..n : priceBuf[k].ts = hub[PriceTable][priceBuf[k].id] =>
           rows[priceBuf[k].id] = hub[PriceTable][priceBuf[k].id]
  BY <1>1, <1>2, BufferedVersions
<1>4. /\ \A u \in Tables, i \in Ids : Version(u, i, mirror'[u][i])
      /\ \A u \in Tables, i \in Ids : Holds(u, i) => mirror'[u][i] = hub[u][i]
      /\ \A i \in Ids : rows[i] = hub[PriceTable][i] => mirror'[PriceTable][i] = hub[PriceTable][i]
  BY <1>1, <1>2, <1>3, MergedSettles
<1>5. \A u \in Tables, i \in Ids : Holds(u, i) => Holds(u, i)'
  BY <1>4 DEF Holds
<1>6. /\ Len(priceBuf') = Len(priceBuf) - n
      /\ \A k \in 1..Len(priceBuf') : priceBuf'[k] = priceBuf[n + k]
  BY <1>2
<1>7. ASSUME NEW k \in 1..Len(priceBuf), k \notin 1..n
      PROVE  \E m \in 1..Len(priceBuf') : priceBuf'[m] = priceBuf[k]
  <2>1. k - n \in 1..Len(priceBuf') /\ n + (k - n) = k
    BY <1>2, <1>6, <1>7
  <2> QED
    BY <1>6, <2>1
<1>8. ASSUME NEW u \in Tables, NEW i \in Ids, OnItsWay(u, i)
      PROVE  Settled(u, i)'
  <2>1. CASE \E k \in 1..Len(stream) :
               /\ stream[k].kind = "row" /\ stream[k].epoch = epoch
               /\ stream[k].table = u /\ stream[k].id = i /\ stream[k].ts = hub[u][i]
    BY <2>1 DEF Settled, OnItsWay
  <2>2. CASE u = PriceTable /\ \E k \in 1..Len(priceBuf) :
               priceBuf[k].id = i /\ priceBuf[k].ts = hub[u][i]
    <3>1. PICK k \in 1..Len(priceBuf) : priceBuf[k].id = i /\ priceBuf[k].ts = hub[u][i]
      BY <2>2
    <3>2. CASE k \in 1..n
      <4>1. rows[i] = hub[PriceTable][i]
        BY <1>3, <2>2, <3>1, <3>2
      <4> QED
        BY <1>4, <2>2, <4>1 DEF Settled, Holds
    <3>3. CASE k \notin 1..n
      <4>1. PICK m \in 1..Len(priceBuf') : priceBuf'[m] = priceBuf[k]
        BY <1>7, <3>3
      <4> QED
        BY <2>2, <3>1, <4>1 DEF Settled, OnItsWay
    <3> QED
      BY <3>2, <3>3
  <2> QED
    BY <1>8, <2>1, <2>2 DEF OnItsWay
<1>9. KeepsSettled
  BY <1>5, <1>8 DEF KeepsSettled, Settled
<1>10. \A k \in 1..Len(priceBuf') : Version(PriceTable, priceBuf'[k].id, priceBuf'[k].ts)
  <2> SUFFICES ASSUME NEW k \in 1..Len(priceBuf')
               PROVE  Version(PriceTable, priceBuf'[k].id, priceBuf'[k].ts)
    OBVIOUS
  <2>1. n + k \in 1..Len(priceBuf) /\ priceBuf'[k] = priceBuf[n + k]
    BY <1>2, <1>6
  <2> QED
    BY <1>2, <2>1 DEF VersionsInv
<1>11. \A u \in Tables \ env.revised : HeldTo(u, positions[u])'
  BY <1>2, <1>5 DEF PrefixInv, HeldTo
<1> QED
  BY <1>4, <1>5, <1>9, <1>10, <1>11

LEMMA ReplayKeeps ==
  ASSUME TypeOK, ReviseInv, Replay
  PROVE  ReviseInv'
<1>1. /\ drain.phase = "replay" /\ ~priceOver /\ priceBuf' = <<>>
      /\ mirror' = Merged(PriceTable, BufferedRows(Len(priceBuf)))
      /\ IF Current THEN priceDrained' = TRUE /\ drain' = [drain EXCEPT !.phase = "landed"]
                    ELSE UNCHANGED priceDrained /\ Undrained
      /\ UNCHANGED <<hub, hubMax, hubTime, conn, epoch, stream, tableEpoch, owed, owedSeq,
                     positions, priceOver, env>>
  BY DEF Replay, hubVars, linkVars, certVars
<1>2. OwedInv /\ LinkInv /\ BufferInv /\ SameScenario /\ DrainQuiet
  BY <1>1 DEF ReviseInv, SameScenario, DrainQuiet
<1>3. Len(priceBuf) \in 0..Len(priceBuf) /\ priceBuf' = SubSeq(priceBuf, Len(priceBuf) + 1, Len(priceBuf))
  BY <1>1, TypeFrame DEF PriceTyped
<1>4. /\ KeepsSettled
      /\ \A u \in Tables, i \in Ids : Holds(u, i) => Holds(u, i)'
      /\ \A u \in Tables, i \in Ids : Version(u, i, mirror'[u][i])
      /\ \A k \in 1..Len(priceBuf') : Version(PriceTable, priceBuf'[k].id, priceBuf'[k].ts)
      /\ \A u \in Tables \ env.revised : HeldTo(u, positions[u])'
  BY <1>1, <1>2, <1>3, ReplayWrites
<1>5. CASE Current
  <2>1. drain'.phase = "landed" /\ drain' = [drain EXCEPT !.phase = "landed"]
    BY <1>1, <1>5, TypeFrame DEF DrainStates
  <2>2. BufferInv'
    BY <1>1, <1>2, <1>5 DEF BufferInv
  <2> QED
    BY <1>1, <1>2, <1>4, <1>5, <2>1, <2>2, AnsweredKeeps DEF Answered
<1>6. CASE ~Current
  <2>1. drain'.phase = "table" /\ drain'.epoch <= epoch /\ drain'.seq <= owedSeq
    BY <1>1, <1>2, <1>6, Returned DEF Undrained
  <2>2. CertifiedKeeps
    BY <1>4 DEF KeepsSettled, CertifiedKeeps
  <2> QED
    BY <1>1, <1>2, <1>4, <1>6, <2>1, <2>2, HandEmptied
<1> QED
  BY <1>5, <1>6

LEMMA ReplayFailsKeeps ==
  ASSUME TypeOK, ReviseInv, ReplayFails
  PROVE  ReviseInv'
<1>1. /\ ~priceOver /\ Undrained /\ Spend("apply") /\ "apply" \in Faults
      /\ UNCHANGED <<hub, hubMax, hubTime, conn, epoch, stream, tableEpoch, owed, owedSeq,
                     positions, priceDrained, priceOver>>
  BY DEF ReplayFails, Faults, hubVars, linkVars
<1>2. PICK n \in 0..(Len(priceBuf) - 1) :
        /\ mirror' = Merged(PriceTable, BufferedRows(n))
        /\ priceBuf' = SubSeq(priceBuf, n + 1, Len(priceBuf))
  BY DEF ReplayFails
<1>3. priceBuf \in Seq(RowFrames) /\ Len(priceBuf) \in Nat
  BY TypeFrame DEF PriceTyped
<1>4. n \in 0..Len(priceBuf) /\ priceBuf # <<>>
  BY <1>2, <1>3
<1>5. OwedInv /\ LinkInv /\ BufferInv /\ env.left["live"] = 0
  BY DEF ReviseInv, VersionsInv
<1>6. SameScenario /\ DrainQuiet
  BY <1>1, <1>5, ScenarioKept DEF DrainQuiet
<1>7. /\ KeepsSettled
      /\ \A u \in Tables, i \in Ids : Version(u, i, mirror'[u][i])
      /\ \A k \in 1..Len(priceBuf') : Version(PriceTable, priceBuf'[k].id, priceBuf'[k].ts)
      /\ \A u \in Tables \ env.revised : HeldTo(u, positions[u])'
  BY <1>1, <1>2, <1>4, <1>6, ReplayWrites
<1>8. drain'.phase = "table" /\ drain'.epoch <= epoch /\ drain'.seq <= owedSeq
  BY <1>1, <1>5, Returned DEF Undrained
<1>9. CertifiedKeeps /\ ~priceDrained
  BY <1>4, <1>5, <1>7 DEF KeepsSettled, CertifiedKeeps, BufferInv
<1> QED
  BY <1>1, <1>6, <1>7, <1>8, <1>9, HandEmptied

\* A discarded buffer: the price table is not certified on this connection.
LEMMA OverflowKeeps ==
  ASSUME TypeOK, ReviseInv, ReplayOverflowed
  PROVE  ReviseInv'
<1>1. /\ priceOver /\ priceBuf' = <<>> /\ Undrained
      /\ UNCHANGED <<hub, hubMax, hubTime, conn, epoch, stream, tableEpoch, owed, owedSeq, mirror,
                     positions, priceDrained, env>>
  BY DEF ReplayOverflowed, hubVars, linkVars, certVars, tableVars
<1>2. VersionsInv /\ PrefixInv /\ OwedInv /\ LinkInv /\ BufferInv /\ DrainQuiet
  BY <1>1 DEF ReviseInv, DrainQuiet, SameScenario
<1>3. ~priceDrained /\ tableEpoch[PriceTable] # epoch
  BY <1>1, <1>2 DEF BufferInv
<1>4. CertifiedKeeps
  <2> SUFFICES ASSUME NEW t \in Tables, t # PriceTable, NEW i \in Ids, Settled(t, i)
               PROVE  Settled(t, i)'
    BY <1>3 DEF CertifiedKeeps
  <2> QED
    BY <1>1 DEF Settled, Holds, OnItsWay
<1>5. drain'.phase = "table" /\ drain'.epoch <= epoch /\ drain'.seq <= owedSeq
  BY <1>1, <1>2, Returned DEF Undrained
<1>6. \A u \in Tables \ env.revised : HeldTo(u, positions[u])'
  BY <1>1, <1>2 DEF PrefixInv, HeldTo, Holds
<1>7. /\ \A u \in Tables, i \in Ids : Version(u, i, mirror'[u][i])
      /\ \A k \in 1..Len(priceBuf') : Version(PriceTable, priceBuf'[k].id, priceBuf'[k].ts)
  BY <1>1, <1>2 DEF VersionsInv
<1> QED
  BY <1>1, <1>2, <1>3, <1>4, <1>5, <1>6, <1>7, HandEmptied

\* The certificate: it settles the mark its drain began under, and no later one.
LEMMA CertifyKeeps ==
  ASSUME TypeOK, ReviseInv, CertifyTable
  PROVE  ReviseInv'
<1>1. PICK t \in Tables : t = drain.table
  BY ReviseTypes
<1>2. /\ \/ drain.phase = "verdict" /\ t # PriceTable
         \/ drain.phase = "landed"
      /\ Current
      /\ tableEpoch' = [tableEpoch EXCEPT ![t] = epoch]
      /\ owed' = IF Settles(t) THEN [owed EXCEPT ![t] = 0] ELSE owed
      /\ TableDone(drain.marks \cup {drain.mark}, drain.undrained)
      /\ UNCHANGED <<hub, hubMax, hubTime, conn, epoch, stream, owedSeq, mirror,
                     positions, priceDrained, priceBuf, priceOver, env>>
  BY <1>1 DEF CertifyTable, hubVars, linkVars, priceVars
<1>3. /\ VersionsInv /\ LinkInv /\ OwedInv /\ BufferInv /\ PrefixInv /\ DrainedInv /\ SettledInv
      /\ SameScenario
  BY <1>2 DEF ReviseInv, SameScenario
<1>4. drain'.phase = "table" /\ drain'.epoch <= epoch /\ drain'.seq <= owedSeq
  BY <1>2, <1>3, Returned
<1>5. /\ InHand = {t} /\ InHand' = {} /\ conn = "live" /\ drain.phase \in Answered \ {"page"}
  BY <1>1, <1>2, <1>3, <1>4 DEF InHand, LinkInv, Answered
<1>6. /\ \A u \in Tables : tableEpoch'[u] = IF u = t THEN epoch ELSE tableEpoch[u]
      /\ \A u \in Tables : owed'[u] = IF u = t /\ Settles(t) THEN 0 ELSE owed[u]
  BY <1>2, TypeFrame DEF CertTyped, TableTyped
<1>7. owed'[t] = 0 => owed[t] = drain.seq
  <2>1. owed[t] = drain.seq \/ owed[t] # 0
    BY <1>1, <1>3, <1>5 DEF OwedInv
  <2> QED
    BY <1>6, <2>1 DEF Settles
<1>8. t = PriceTable => ~priceOver /\ priceDrained
  BY <1>2, <1>3 DEF BufferInv
<1>9. owed'[t] = 0 => AllSettled(t)
  <2>1. owed'[t] = 0 => Clear
    BY <1>1, <1>2, <1>5, <1>7, <1>8 DEF Clear
  <2> QED
    BY <1>3, <1>5, <2>1 DEF DrainedInv, Drained
<1>10. VersionsInv'
  BY <1>2, <1>3, <1>4, VersionsFrame DEF VersionsInv
<1>11. LinkInv'
  BY <1>2, <1>3, <1>4, <1>5, <1>6, ReviseTypes DEF LinkInv, Answered
<1>12. OwedInv'
  <2>1. ASSUME NEW u \in Tables PROVE owed'[u] <= owedSeq'
    <3>1. owed[u] <= owedSeq /\ owedSeq \in Nat
      BY <1>3, ReviseTypes DEF OwedInv
    <3> QED
      BY <1>2, <1>6, <3>1
  <2>2. ASSUME NEW u \in RepageTables, owed'[u] = 0 PROVE tableEpoch'[u] = epoch'
    <3>1. CASE u = t
      BY <1>2, <1>6, <3>1
    <3>2. CASE u # t
      BY <1>2, <1>3, <1>5, <1>6, <2>2, <3>2, ReviseTypes DEF OwedInv
    <3> QED
      BY <3>1, <3>2
  <2> QED
    BY <1>2, <1>4, <1>5, <2>1, <2>2 DEF OwedInv
<1>13. BufferInv'
  BY <1>2, <1>3, <1>4, <1>6, <1>8 DEF BufferInv
<1>14. PrefixInv' /\ DrainedInv'
  <2>1. \A u \in Tables \ env.revised : HeldTo(u, positions[u])'
    BY <1>2, <1>3 DEF PrefixInv, HeldTo, Holds
  <2> QED
    BY <1>2, <1>5, <2>1 DEF PrefixInv, DrainedInv
<1>15. SettledInv'
  <2> SUFFICES ASSUME NEW u \in Tables, tableEpoch'[u] = epoch', owed'[u] = 0
               PROVE  AllSettled(u)'
    BY DEF SettledInv
  <2>1. AllSettled(u)
    BY <1>2, <1>3, <1>6, <1>9 DEF SettledInv
  <2>2. KeepsSettled
    BY <1>2, SettledFrame
  <2> QED
    BY <2>1, <2>2 DEF AllSettled, KeepsSettled
<1> QED
  BY <1>10, <1>11, <1>12, <1>13, <1>14, <1>15 DEF ReviseInv

LEMMA DrainStepKeeps ==
  ASSUME TypeOK, ReviseInv, ~RestWithoutStream, DrainStep
  PROVE  ReviseInv'
<1>1. CASE TableStep
  <2>1. CASE \E t \in Tables : OpenTable(t)
    BY <2>1, OpenKeeps
  <2> QED
    BY <1>1, <2>1, ServeKeeps, ReturnsKeep, PageKeeps, RowsFailStepKeeps, CatchUpKeeps DEF TableStep
<1>2. CASE VerdictStep
  BY <1>2, QueueKeeps, ReplayKeeps, OverflowKeeps, ReplayFailsKeeps, CertifyKeeps, ReturnsKeep
     DEF VerdictStep
<1> QED
  BY <1>1, <1>2, BeginKeeps DEF DrainStep

LEMMA InitRevises == NewestKept /\ LiveRowsApply /\ Init => ReviseInv
<1> SUFFICES ASSUME NewestKept, LiveRowsApply, Init PROVE ReviseInv
  OBVIOUS
<1>1. TypeOK
  BY InitTypeOK
<1>2. /\ hub = [t \in Tables |-> NoRows] /\ mirror = [t \in Tables |-> NoRows]
      /\ hubMax = [t \in Tables |-> 0] /\ hubTime = 1 /\ conn = "opening" /\ epoch = 1
      /\ stream = <<>> /\ tableEpoch = [t \in Tables |-> 0] /\ positions = [t \in Tables |-> 0]
      /\ owed = [t \in Tables |-> 0] /\ owedSeq = 0 /\ ~priceDrained /\ priceBuf = <<>>
      /\ ~priceOver /\ drain.phase = "idle" /\ drain.epoch = 0 /\ drain.seq = 0
      /\ env \in Scenarios
  BY DEF Init, IdleDrain
<1>3. /\ \A t \in Tables, i \in Ids : hub[t][i] = 0 /\ mirror[t][i] = 0
      /\ \A t \in Tables : /\ hubMax[t] = 0 /\ tableEpoch[t] = 0
                           /\ positions[t] = 0 /\ owed[t] = 0
      /\ \A i \in Ids : i \in Nat \ {0}
      /\ RepageTables \subseteq Tables /\ PriceTable \in Tables
  BY <1>1, <1>2, ReviseTypes DEF NoRows
<1>4. InHand = {}
  BY <1>2 DEF InHand
<1>5. VersionsInv
  BY <1>2, <1>3 DEF VersionsInv, Version, NewestKept, LiveRowsApply
<1>6. LinkInv /\ BufferInv
  BY <1>2, <1>3 DEF LinkInv, BufferInv, Answered
<1>7. OwedInv
  BY <1>2, <1>3, <1>4 DEF OwedInv
<1>8. PrefixInv /\ DrainedInv /\ SettledInv
  BY <1>2, <1>3, <1>4 DEF PrefixInv, DrainedInv, SettledInv, HeldTo
<1> QED
  BY <1>5, <1>6, <1>7, <1>8 DEF ReviseInv

LEMMA NextRevises == ~RestWithoutStream /\ TypeOK /\ ReviseInv /\ [Next]_vars => ReviseInv'
<1> SUFFICES ASSUME ~RestWithoutStream, TypeOK, ReviseInv, [Next]_vars PROVE ReviseInv'
  OBVIOUS
<1>1. CASE Next
  BY <1>1, HubStepKeeps, SocketStepKeeps, FrameStepKeeps, DrainStepKeeps DEF Next
<1>2. CASE UNCHANGED vars
  <2>1. /\ UNCHANGED <<hub, hubMax, hubTime, conn, epoch, stream, tableEpoch, owed, owedSeq, mirror,
                       positions, priceDrained, priceBuf, priceOver, drain, env>>
    BY <1>2 DEF vars, hubVars, linkVars, certVars, tableVars, priceVars
  <2>2. /\ VersionsInv /\ LinkInv /\ OwedInv /\ BufferInv /\ SameScenario
    BY <2>1 DEF ReviseInv, SameScenario
  <2>3. VersionsInv'
    BY <2>1, <2>2, VersionsFrame DEF VersionsInv
  <2>4. LinkInv' /\ OwedInv' /\ BufferInv'
    BY <2>1, <2>2, LinksFrame
  <2>5. KeepsSettled /\ InHand \subseteq Tables /\ (Clear' <=> Clear)
    BY <2>1, SettledFrame, ReviseTypes DEF InHand, Clear, Current
  <2>6. \A u \in Tables, j \in Ids : Holds(u, j) => Holds(u, j)'
    BY <2>1 DEF Holds
  <2>7. PrefixInv' /\ DrainedInv' /\ SettledInv'
    BY <2>1, <2>2, <2>5, <2>6, StandStill DEF KeepsSettled
  <2> QED
    BY <2>3, <2>4, <2>7 DEF ReviseInv
<1> QED
  BY <1>1, <1>2

\* What a watermark covers, open gate or not, is settled or owed.
LEMMA RevisesAccounted ==
  ASSUME TypeOK, GateInv, ReviseInv
  PROVE  ChangesAccounted
<1>1. VersionsInv /\ SettledInv /\ GateNeedsEveryTable
  BY DEF ReviseInv, GateInv
<1>2. ASSUME NEW t \in Tables, tableEpoch[t] = epoch, NEW ts
      PROVE  Accounted(t, ts)
  BY <1>1, <1>2 DEF SettledInv, AllSettled, Settled, Holds, Accounted
<1>3. ASSUME NEW t \in Tables
      PROVE  Accounted(t, 0)
  <2> SUFFICES ASSUME NEW i \in Ids, hub[t][i] <= 0 PROVE mirror[t][i] = hub[t][i]
    BY DEF Accounted
  <2>1. hub[t][i] \in Nat /\ mirror[t][i] \in Nat /\ Version(t, i, mirror[t][i])
    BY <1>1, ReviseTypes DEF VersionsInv
  <2> QED
    BY <2>1 DEF Version
<1>4. ASSUME NEW t \in Tables, gate
      PROVE  Accounted(t, streamWM)
  BY <1>1, <1>2, <1>4 DEF GateNeedsEveryTable
<1>5. ASSUME NEW t \in Tables
      PROVE  Accounted(t, TableWatermark(t))
  <2>1. CASE Certified(t)
    BY <1>1, <1>2, <2>1 DEF Certified, GateNeedsEveryTable
  <2>2. CASE ~Certified(t)
    BY <1>3, <2>2 DEF TableWatermark
  <2> QED
    BY <2>1, <2>2
<1> QED
  BY <1>4, <1>5 DEF ChangesAccounted

\* A hub that changes rows in place loses the mirror no change: one that the
\* watermark of a table, or with the gate open the stream watermark, covers is
\* held, on its way, or owed a page from zero (watermarks.js 67-75).  It needs a
\* hub that answers snapshots only to its subscribers, upserts that keep the
\* newer version of what the hub revises, and live rows that apply: one that
\* fails under a running drain costs the row its frame and owes nothing.
THEOREM ChangesAreAccounted ==
  ASSUME ~RestWithoutStream
  PROVE  Spec /\ NewestKept /\ LiveRowsApply => []ChangesAccounted
<1>1. Init /\ NewestKept /\ LiveRowsApply => TypeOK /\ GateInv /\ ReviseInv
  BY InitTypeOK, GateInductive, InitRevises
<1>2. TypeOK /\ GateInv /\ ReviseInv /\ [Next]_vars => (TypeOK /\ GateInv /\ ReviseInv)'
  BY NextType, GateInductive, NextRevises
<1>3. TypeOK /\ GateInv /\ ReviseInv => ChangesAccounted
  BY RevisesAccounted
<1> QED
  BY <1>1, <1>2, <1>3, PTL DEF Spec
=============================================================================
