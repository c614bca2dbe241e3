------------------------ MODULE HubMirrorAppend_proofs ------------------------
(***************************************************************************)
(* What the watermarks of HubMirror certify, and that the mirror           *)
(* implements CertifiedReplica, for every set of tables, every page and    *)
(* buffer limit, every budget of faults and every bound of the model.      *)
(*                                                                         *)
(* The hypotheses are those under which the model checker finds it true,   *)
(* and no others: the hub only appends, it serves snapshots to subscribers *)
(* only, and no live row fails to apply while a drain runs.                *)
(*                                                                         *)
(* The invariant says where a row is that the mirror lacks.  What a beat   *)
(* may certify is missing only while it travels ahead of that beat, waits  *)
(* in the price buffer, or is owed: its table has no certificate of this   *)
(* connection or a latch holds the watermarks, and the pass that could     *)
(* lift either has not counted the table and will not before a page brings *)
(* the row.                                                                *)
(***************************************************************************)
EXTENDS HubMirror_proofs

USE TablesAssumption, LimitsAssumption, EnvironmentAssumption

OnlyAppends == \A s \in Scenarios : s.revised = {}

-----------------------------------------------------------------------------
(* What the mirror, the frames and the pages hold.                         *)

\* The hub appends: a row is there from its insertion on, under the next id.
HubAppends ==
  /\ env.revised = {}
  /\ \A t \in Tables, i \in Ids : /\ hub[t][i] # 0 <=> i <= hubMax[t]
                                  /\ hub[t][i] <= hubTime

\* So there is one version of a row: who has the row has that one.
Has(t, i) == mirror[t][i] = hub[t][i]
RowsOf(t, rows) == \A i \in Ids : rows[i] # 0 => rows[i] = hub[t][i]

FramesOfHub ==
  \A n \in 1..Len(stream) :
    /\ stream[n].epoch <= epoch
    /\ stream[n].kind = "beat" => stream[n].ts <= hubTime
    /\ stream[n].kind = "row" =>
         stream[n].ts # 0 /\ stream[n].ts = hub[stream[n].table][stream[n].id]

BufferOfHub ==
  \A k \in 1..Len(priceBuf) :
    priceBuf[k].ts # 0 /\ priceBuf[k].ts = hub[PriceTable][priceBuf[k].id]

\* The rows of t above one id, up to another.
Run(t, above, rows) ==
  \E last \in above..hubMax[t] :
    \A i \in Ids : rows[i] = IF above < i /\ i <= last THEN hub[t][i] ELSE 0

MirrorOfHub == \A t \in Tables : RowsOf(t, mirror[t])
PageOfHub == drain.phase = "page" => Run(drain.table, drain.cursor, drain.page)

-----------------------------------------------------------------------------
(* What a position, a cursor, a mark and a watermark stand for.            *)

HasThrough(t, above) == above <= hubMax[t] /\ \A i \in Ids : i <= above => Has(t, i)

Prefixes ==
  /\ InHand # {} => HasThrough(drain.table, drain.cursor)
  /\ \A t \in Tables : HasThrough(t, positions[t])

RowsInv == HubAppends /\ MirrorOfHub /\ FramesOfHub /\ BufferOfHub /\ PageOfHub /\ Prefixes

HasServed(t, ts) ==
  \A i \in Ids : hub[t][i] <= ts => Has(t, i) \/ drain.page[i] = hub[t][i]

InPass == {"catchup", "verdict", "replay", "landed"}

DrainHolds ==
  /\ drain.mark <= hubTime /\ \A m \in drain.marks : m <= hubTime
  /\ drain.phase = "page" /\ drain.short => HasServed(drain.table, drain.mark)
  /\ drain.phase \in InPass => CompleteThrough(drain.table, drain.mark)
  /\ Draining /\ ~drain.undrained =>
       \A t \in Tables \ (drain.todo \cup InHand) : \E m \in drain.marks : CompleteThrough(t, m)

CertificatesHold ==
  /\ streamWM <= hubTime /\ StreamComplete
  /\ \A t \in Tables : tableWM[t] <= hubTime /\ CompleteThrough(t, tableWM[t])

-----------------------------------------------------------------------------
(* Epochs, marks and the price buffer.                                     *)

Numbers ==
  /\ drain.seq <= owedSeq
  /\ \A t \in Tables : /\ owed[t] <= owedSeq
                       /\ tableEpoch[t] <= epoch
                       /\ tableEpoch[t] = epoch => conn \in {"live", "closing"}

PriceKept ==
  /\ tableEpoch[PriceTable] = epoch => priceDrained
  /\ drain.phase = "landed" /\ Current => priceDrained
  /\ drain.phase = "replay" => drain.table = PriceTable
  /\ priceDrained => priceBuf = <<>>

-----------------------------------------------------------------------------
(* Where a row is that the mirror lacks.                                   *)

Missing(t, i) == hub[t][i] # 0 /\ ~Has(t, i)

\* In a frame of this connection ahead of the n-th one.
Ahead(t, i, n) ==
  \E k \in 1..Len(stream) : /\ k < n
                            /\ stream[k].kind = "row" /\ stream[k].epoch = epoch
                            /\ stream[k].table = t /\ stream[k].id = i

InBuffer(t, i) == t = PriceTable /\ \E k \in 1..Len(priceBuf) : priceBuf[k].id = i

\* The pass has drained t, and t owes nothing since.
Counted(t) ==
  /\ Current /\ Draining /\ ~drain.undrained
  /\ t \in Tables \ (drain.todo \cup InHand)
  /\ owed[t] = 0

\* The pass has the last page of t.
Served(t) ==
  /\ Current /\ t = drain.table
  /\ drain.phase \in InPass \/ (drain.phase = "page" /\ drain.short)

\* Its certificate will not end t's debt, or not come.
Spoiled(t) ==
  \/ owed[t] # 0 /\ owed[t] # drain.seq /\ schemaSeen
  \/ t = PriceTable /\ priceOver /\ drain.phase # "landed"

\* Nobody certifies it before a later page brings it.
Owing(t, i) ==
  /\ tableEpoch[t] # epoch \/ Latched
  /\ ~Counted(t)
  /\ Served(t) => hub[t][i] <= drain.mark \/ Spoiled(t)

Awaited(t, i, n) == Ahead(t, i, n) \/ InBuffer(t, i) \/ Owing(t, i)

BeatsHold ==
  \A n \in 1..Len(stream) :
    stream[n].kind = "beat" /\ stream[n].epoch = epoch =>
      \A t \in Tables, i \in Ids :
        Missing(t, i) /\ hub[t][i] <= stream[n].ts => Awaited(t, i, n)

\* The beat the hub could send now.
NextBeatHolds ==
  conn = "live" =>
    \A t \in Tables, i \in Ids : Missing(t, i) => Awaited(t, i, Len(stream) + 1)

AppendInv ==
  /\ RowsInv /\ DrainHolds /\ CertificatesHold
  /\ Numbers /\ PriceKept /\ BeatsHold /\ NextBeatHolds

-----------------------------------------------------------------------------
(* The rows of an answer.                                                  *)

LEMMA RunOfPage ==
  ASSUME TypeOK, HubAppends, NEW t \in Tables, NEW above \in Nat, above <= hubMax[t]
  PROVE  Run(t, above, Page(t, above))
<1>1. hubMax[t] \in Nat
  BY DEF TypeOK
<1>2. PageEnd(t, above) \in above..hubMax[t]
  BY <1>1 DEF PageEnd
<1> QED
  BY <1>2 DEF Run, Page

LEMMA RowsOfRun ==
  ASSUME NEW t, NEW above, NEW rows, Run(t, above, rows)
  PROVE  RowsOf(t, rows)
BY DEF Run, RowsOf

\* The part of a run below one of its rows.
LEMMA RunBelow ==
  ASSUME TypeOK, NEW t \in Tables, NEW above \in Nat, NEW rows, Run(t, above, rows),
         NEW bad \in Ids, rows[bad] # 0
  PROVE  Run(t, above, [i \in Ids |-> IF i < bad THEN rows[i] ELSE 0])
<1>1. hubMax[t] \in Nat /\ bad \in Nat \ {0}
  BY DEF TypeOK, Ids
<1>2. PICK last \in above..hubMax[t] :
        \A i \in Ids : rows[i] = IF above < i /\ i <= last THEN hub[t][i] ELSE 0
  BY DEF Run
<1>3. above < bad /\ bad <= last
  BY <1>2
<1>4. bad - 1 \in above..hubMax[t]
  BY <1>1, <1>2, <1>3
<1>5. \A i \in Ids : (IF i < bad THEN rows[i] ELSE 0)
                     = IF above < i /\ i <= bad - 1 THEN hub[t][i] ELSE 0
  BY <1>1, <1>2, <1>3 DEF Ids
<1> QED
  BY <1>4, <1>5 DEF Run

\* Its highest row is its end.
LEMMA HighestOfRun ==
  ASSUME TypeOK, HubAppends, NEW t \in Tables, NEW above \in Nat, NEW rows, NEW c,
         NEW last \in above..hubMax[t],
         \A i \in Ids : rows[i] = IF above < i /\ i <= last THEN hub[t][i] ELSE 0
  PROVE  HighestIn(rows, c) = IF above < last THEN last ELSE c
<1>1. hubMax[t] \in 0..MaxRows
  BY DEF TypeOK
<1>2. CASE above < last
  <2>1. last \in Ids /\ hub[t][last] # 0
    BY <1>1, <1>2 DEF HubAppends, Ids
  <2>2. rows[last] # 0 /\ \A j \in Ids : rows[j] # 0 => j <= last
    BY <1>2, <2>1
  <2>3. ASSUME NEW i \in Ids, rows[i] # 0, \A j \in Ids : rows[j] # 0 => j <= i
        PROVE  i = last
    BY <2>1, <2>2, <2>3 DEF Ids
  <2> QED
    BY <1>2, <2>1, <2>2, <2>3 DEF HighestIn
<1>3. CASE ~(above < last)
  <2>1. \A i \in Ids : rows[i] = 0
    BY <1>1, <1>3 DEF Ids
  <2> QED
    BY <1>3, <2>1 DEF HighestIn
<1> QED
  BY <1>2, <1>3

\* Where there is one version of a row, both kinds of upsert fill gaps.
LEMMA MergedFills ==
  ASSUME TypeOK, MirrorOfHub, NEW t \in Tables, NEW rows \in [Ids -> Times],
         RowsOf(t, rows), mirror' = Merged(t, rows)
  PROVE  \A u \in Tables, i \in Ids :
           mirror'[u][i] = IF u = t /\ rows[i] # 0 THEN hub[t][i] ELSE mirror[u][i]
<1>1. /\ mirror \in [Tables -> [Ids -> Times]] /\ hub[t] \in [Ids -> Times]
      /\ \A i \in Ids : mirror[t][i] # 0 => mirror[t][i] = hub[t][i]
      /\ \A i \in Ids : rows[i] # 0 => rows[i] = hub[t][i]
  BY DEF TypeOK, MirrorOfHub, RowsOf
<1>2. ASSUME NEW u \in Tables, NEW i \in Ids, u # t
      PROVE  mirror'[u][i] = mirror[u][i]
  BY <1>1, <1>2 DEF Merged
<1>3. ASSUME NEW i \in Ids
      PROVE  mirror'[t][i] = IF rows[i] # 0 THEN hub[t][i] ELSE mirror[t][i]
  <2>1. mirror[t][i] \in Nat /\ rows[i] \in Nat
    BY <1>1 DEF Times
  <2>2. CASE t \in WholeRowTables
    BY <1>1, <2>2 DEF Merged, Overwritten
  <2>3. CASE t \notin WholeRowTables
    <3>1. mirror'[t][i] = Larger(mirror[t][i], rows[i])
      BY <1>1, <2>3 DEF Merged, Upgraded
    <3>2. mirror[t][i] # 0 /\ rows[i] # 0 => mirror[t][i] = rows[i]
      BY <1>1
    <3> QED
      BY <1>1, <2>1, <3>1, <3>2 DEF Larger
  <2> QED
    BY <2>2, <2>3
<1> QED
  BY <1>2, <1>3

\* After a step, for a table, an id and a time of before it.
HasNext(t, i) == mirror'[t][i] = hub'[t][i]
HasThroughNext(t, above) == above <= hubMax'[t] /\ \A i \in Ids : i <= above => HasNext(t, i)
CompleteNext(t, ts) == \A i \in Ids : hub'[t][i] <= ts => HasNext(t, i)

\* The hub stands still and the mirror loses nothing.
Grows ==
  /\ UNCHANGED <<hub, hubMax>>
  /\ MirrorOfHub'
  /\ \A t \in Tables, i \in Ids : Has(t, i) => HasNext(t, i)

LEMMA MergedGrows ==
  ASSUME TypeOK, MirrorOfHub, NEW t \in Tables, NEW rows \in [Ids -> Times],
         RowsOf(t, rows), mirror' = Merged(t, rows), UNCHANGED <<hub, hubMax>>
  PROVE  Grows /\ \A i \in Ids : rows[i] # 0 => HasNext(t, i)
BY MergedFills DEF Grows, MirrorOfHub, RowsOf, Has, HasNext

LEMMA StillGrows ==
  ASSUME MirrorOfHub, UNCHANGED <<hub, hubMax, mirror>>
  PROVE  Grows
BY DEF Grows, MirrorOfHub, RowsOf, Has, HasNext

LEMMA GrowsKeeps ==
  ASSUME Grows
  PROVE  /\ \A t \in Tables, ts \in Nat : CompleteThrough(t, ts) => CompleteNext(t, ts)
         /\ \A t \in Tables, above \in Nat : HasThrough(t, above) => HasThroughNext(t, above)
         /\ \A t \in Tables, i \in Ids : hub'[t][i] # 0 /\ ~HasNext(t, i) => Missing(t, i)
<1>1. hub' = hub /\ hubMax' = hubMax /\ \A t \in Tables, i \in Ids : Has(t, i) => HasNext(t, i)
  BY DEF Grows
<1>2. ASSUME NEW t \in Tables, NEW ts \in Nat, CompleteThrough(t, ts)
      PROVE  CompleteNext(t, ts)
  BY <1>1, <1>2 DEF CompleteThrough, CompleteNext, Has
<1>3. ASSUME NEW t \in Tables, NEW above \in Nat, HasThrough(t, above)
      PROVE  HasThroughNext(t, above)
  BY <1>1, <1>3 DEF HasThrough, HasThroughNext
<1>4. ASSUME NEW t \in Tables, NEW i \in Ids, hub'[t][i] # 0, ~HasNext(t, i)
      PROVE  Missing(t, i)
  BY <1>1, <1>4 DEF Missing
<1> QED
  BY <1>2, <1>3, <1>4

\* A run that is applied on top of what it starts above.
LEMMA RunExtends ==
  ASSUME TypeOK, HubAppends, MirrorOfHub, NEW t \in Tables, NEW above \in Nat,
         NEW rows \in [Ids -> Times], Run(t, above, rows),
         HasThrough(t, above), mirror' = Merged(t, rows), UNCHANGED <<hub, hubMax>>,
         NEW c \in Nat, HasThrough(t, c)
  PROVE  HasThroughNext(t, HighestIn(rows, c)) /\ HighestIn(rows, c) \in Nat
<1>1. Grows /\ \A i \in Ids : rows[i] # 0 => HasNext(t, i)
  BY RowsOfRun, MergedGrows
<1>2. HasThroughNext(t, above) /\ HasThroughNext(t, c)
  BY <1>1, GrowsKeeps
<1>3. PICK last \in above..hubMax[t] :
        \A i \in Ids : rows[i] = IF above < i /\ i <= last THEN hub[t][i] ELSE 0
  BY DEF Run
<1>4. HighestIn(rows, c) = IF above < last THEN last ELSE c
  BY <1>3, HighestOfRun
<1>5. ASSUME above < last PROVE HasThroughNext(t, last)
  <2>1. last <= hubMax[t]
    BY <1>3, <1>5 DEF TypeOK
  <2>2. ASSUME NEW i \in Ids, i <= last PROVE HasNext(t, i)
    <3>1. CASE i <= above
      BY <1>2, <3>1 DEF HasThroughNext
    <3>2. CASE above < i
      <4>1. i <= hubMax[t]
        BY SMTT(60), <2>1, <2>2, <1>3 DEF Ids, TypeOK
      <4>2. rows[i] # 0
        BY <1>3, <2>2, <3>2, <4>1 DEF HubAppends
      <4> QED
        BY <1>1, <4>2
    <3> QED
      BY <3>1, <3>2 DEF Ids
  <2> QED
    BY <2>1, <2>2 DEF HasThroughNext
<1>6. last \in Nat
  BY <1>3 DEF TypeOK
<1> QED
  BY <1>2, <1>4, <1>5, <1>6

LEMMA PositionExtends ==
  ASSUME TypeOK, HubAppends, MirrorOfHub, Prefixes, NEW t \in Tables, NEW above \in Nat,
         NEW rows \in [Ids -> Times], Run(t, above, rows),
         HasThrough(t, above), HasThrough(t, drain.cursor),
         mirror' = Merged(t, rows), positions' = Advanced(t, rows),
         UNCHANGED <<hub, hubMax>>
  PROVE  \A u \in Tables : HasThroughNext(u, positions'[u])
<1>1. Grows
  BY RowsOfRun, MergedGrows
<1>2. drain.cursor \in Nat /\ positions \in [Tables -> 0..MaxRows]
  BY DEF TypeOK, DrainStates
<1>3. HasThroughNext(t, HighestIn(rows, drain.cursor))
  BY <1>2, RunExtends
<1>4. \A u \in Tables : HasThrough(u, positions[u])
  BY DEF Prefixes
<1>5. ASSUME NEW u \in Tables PROVE HasThroughNext(u, positions'[u])
  <2>1. positions'[u] = positions[u] \/ (u = t /\ positions'[u] = HighestIn(rows, drain.cursor))
    BY <1>2 DEF Advanced
  <2>2. HasThroughNext(u, positions[u])
    BY <1>1, <1>2, <1>4, GrowsKeeps
  <2> QED
    BY <1>3, <2>1, <2>2
<1> QED
  BY <1>5

-----------------------------------------------------------------------------
(* What the steps do, as far as the invariant reads it.                    *)

LEMMA SpendKeepsScenario ==
  ASSUME TypeOK, NEW kind, Spend(kind)
  PROVE  env'.revised = env.revised
BY DEF TypeOK, Spend, Environments

\* The frames that wait are frames.
LEMMA FrameFields ==
  ASSUME TypeOK
  PROVE  /\ \A k \in 1..Len(priceBuf) : priceBuf[k].id \in Ids /\ priceBuf[k].ts \in Nat
         /\ \A n \in 1..Len(stream) :
              /\ stream[n].epoch \in Nat /\ stream[n].ts \in Nat
              /\ stream[n].kind = "row" => stream[n].table \in Tables /\ stream[n].id \in Ids
<1>1. priceBuf \in Seq(RowFrames) /\ stream \in Seq(Frames)
  BY DEF TypeOK
<1>2. \A k \in 1..Len(priceBuf) : priceBuf[k] \in RowFrames
  BY <1>1
<1>3. \A n \in 1..Len(stream) : stream[n] \in Frames
  BY <1>1
<1> QED
  BY SMTT(60), <1>2, <1>3 DEF Frames, RowFrames, BeatFrames, Times

\* The row an insertion adds, and the frame that announces it.
Inserted(t, new) ==
  /\ new = hubMax[t] + 1
  /\ hub[t][new] = 0 /\ mirror[t][new] = 0
  /\ \A u \in Tables, i \in Ids :
       hub'[u][i] = IF u = t /\ i = new THEN hubTime + 1 ELSE hub[u][i]
  /\ \A u \in Tables : hubMax'[u] = IF u = t THEN new ELSE hubMax[u]
  /\ hubTime' = hubTime + 1
  /\ env'.revised = env.revised
  /\ UNCHANGED <<conn, epoch, knownHub, readyMax, certVars, tableVars, priceVars, drain, runVars>>

RowFrameOf(t, i, ts, ok) ==
  [kind |-> "row", table |-> t, id |-> i, ts |-> ts, ok |-> ok, epoch |-> epoch]

LEMMA InsertionAdds ==
  ASSUME TypeOK, HubAppends, MirrorOfHub, NEW t \in Tables, HubInserts(t)
  PROVE  /\ hubMax[t] + 1 \in Ids
         /\ Inserted(t, hubMax[t] + 1)
         /\ \/ conn = "live" /\ \E ok \in BOOLEAN :
                 stream' = Append(stream, RowFrameOf(t, hubMax[t] + 1, hubTime + 1, ok))
            \/ conn # "live" /\ stream' = stream
<1> DEFINE new == hubMax[t] + 1
<1>1. /\ hub \in [Tables -> [Ids -> Times]] /\ hubMax \in [Tables -> 0..MaxRows]
      /\ mirror \in [Tables -> [Ids -> Times]]
  BY DEF TypeOK
<1>2. new \in Ids /\ HubChanges(t, new) /\ hubMax' = [hubMax EXCEPT ![t] = @ + 1]
  BY <1>1 DEF HubInserts, Ids
<1>3. hub[t][new] = 0
  BY <1>1, <1>2 DEF HubAppends
<1>4. mirror[t][new] = 0
  BY <1>2, <1>3 DEF MirrorOfHub, RowsOf
<1>5. env'.revised = env.revised
  BY <1>2, SpendKeepsScenario DEF HubChanges
<1>6. hub' = [hub EXCEPT ![t][new] = hubTime + 1] /\ hubTime' = hubTime + 1
  BY <1>2 DEF HubChanges
<1>7. /\ \A u \in Tables, i \in Ids :
           hub'[u][i] = IF u = t /\ i = new THEN hubTime + 1 ELSE hub[u][i]
      /\ \A u \in Tables : hubMax'[u] = IF u = t THEN new ELSE hubMax[u]
  BY <1>1, <1>2, <1>6
<1>8. UNCHANGED <<conn, epoch, knownHub, readyMax, certVars, tableVars, priceVars, drain, runVars>>
  BY <1>2 DEF HubChanges
<1>9. \E ok \in BOOLEAN : Broadcast(t, new, ok)
  BY <1>2 DEF HubChanges
<1> QED
  BY <1>2, <1>3, <1>4, <1>5, <1>6, <1>7, <1>8, <1>9 DEF Inserted, Broadcast, RowFrameOf

\* A hub that only appends revises nothing.
LEMMA NoRevision ==
  ASSUME HubAppends, NEW t, NEW i
  PROVE  ~HubRevises(t, i)
BY DEF HubAppends, HubRevises

\* A table that did not drain: what is left of the pass.
LEMMA UndrainedPass ==
  ASSUME drain \in DrainStates, Undrained
  PROVE  /\ drain'.phase = "table" /\ drain'.undrained /\ InHand' = {}
         /\ drain'.epoch = drain.epoch /\ drain'.todo = drain.todo
         /\ drain'.marks = drain.marks /\ drain'.mark = 0 /\ drain'.seq = 0
BY DEF Undrained, TableDone, IdleDrain, InHand, DrainStates

LEMMA FramesStay ==
  ASSUME TypeOK, FramesOfHub, UNCHANGED <<hub, hubTime>>,
         epoch' = epoch \/ epoch' = epoch + 1,
         stream' = stream \/ (stream # <<>> /\ stream' = Tail(stream))
  PROVE  FramesOfHub'
<1>1. stream \in Seq(Frames) /\ epoch \in Nat
  BY DEF TypeOK
<1>2. ASSUME NEW n \in 1..Len(stream')
      PROVE  \E k \in 1..Len(stream) : stream'[n] = stream[k]
  BY <1>1
<1>3. \A k \in 1..Len(stream) : stream[k].epoch \in Nat
  BY <1>1 DEF Frames, RowFrames, BeatFrames
<1> QED
  BY SMTT(60), <1>1, <1>2, <1>3 DEF FramesOfHub

LEMMA RowsStay ==
  ASSUME TypeOK, RowsInv, UNCHANGED hubVars, env'.revised = env.revised, Grows,
         epoch' = epoch \/ epoch' = epoch + 1,
         stream' = stream \/ (stream # <<>> /\ stream' = Tail(stream)),
         BufferOfHub', PageOfHub', InHand' # {} => HasThroughNext(drain'.table, drain'.cursor),
         \A t \in Tables : HasThroughNext(t, positions'[t])
  PROVE  RowsInv' /\ Grows
<1>1. HubAppends'
  BY DEF RowsInv, HubAppends, hubVars
<1>2. FramesOfHub'
  BY FramesStay DEF RowsInv, hubVars
<1>3. Prefixes'
  BY DEF Prefixes, HasThrough, HasThroughNext, Has, HasNext
<1> QED
  BY <1>1, <1>2, <1>3 DEF RowsInv, Grows

-----------------------------------------------------------------------------
(* The rows: who holds what.                                               *)

LEMMA HubKeepsRows ==
  ASSUME TypeOK, RowsInv, HubStep
  PROVE  RowsInv'
<1>s. stream \in Seq(Frames) /\ epoch \in Nat /\ hubTime \in Nat
  BY DEF TypeOK, Times
<1>1. ASSUME NEW t \in Tables, HubInserts(t) PROVE RowsInv'
  <2> DEFINE new == hubMax[t] + 1
  <2>1. new \in Ids /\ Inserted(t, new)
    BY <1>1, InsertionAdds DEF RowsInv
  <2>2. stream' = stream \/ \E ok \in BOOLEAN :
          stream' = Append(stream, RowFrameOf(t, new, hubTime + 1, ok))
    BY <1>1, InsertionAdds DEF RowsInv
  <2> HIDE DEF new
  <2>3. UNCHANGED <<epoch, mirror, positions, priceBuf, drain>> /\ hubTime' = hubTime + 1
    BY <2>1 DEF Inserted, tableVars, priceVars
  <2>4. /\ \A u \in Tables : hubMax[u] \in Nat /\ hubMax[u] <= hubMax'[u]
        /\ \A u \in Tables, i \in Ids : hub[u][i] # 0 => hub'[u][i] = hub[u][i]
        /\ \A u \in Tables, i \in Ids : i <= hubMax[u] => hub'[u][i] = hub[u][i]
    <3>1. \A u \in Tables : hubMax[u] \in Nat
      BY DEF TypeOK
    <3>2. new = hubMax[t] + 1 /\ hub[t][new] = 0
      BY <2>1 DEF Inserted
    <3>3. \A u \in Tables : hubMax'[u] = IF u = t THEN new ELSE hubMax[u]
      BY <2>1 DEF Inserted
    <3>4. \A u \in Tables, i \in Ids :
            hub'[u][i] = IF u = t /\ i = new THEN hubTime + 1 ELSE hub[u][i]
      BY <2>1 DEF Inserted
    <3>5. \A i \in Ids : i <= hubMax[t] => i # new
      BY <3>1, <3>2 DEF Ids
    <3> QED
      BY <3>1, <3>2, <3>3, <3>4, <3>5
  <2>5. HubAppends'
    <3>1. \A u \in Tables, i \in Ids : hub[u][i] \in Nat /\ hub[u][i] <= hubTime
      BY DEF RowsInv, HubAppends, TypeOK, Times
    <3>2. \A u \in Tables, i \in Ids : hub'[u][i] <= hubTime'
      BY SMTT(60), <1>s, <2>1, <2>3, <3>1 DEF Inserted
    <3>3. \A u \in Tables, i \in Ids : hub'[u][i] # 0 <=> i <= hubMax'[u]
      <4>1. new = hubMax[t] + 1 /\ hub[t][new] = 0
        BY <2>1 DEF Inserted
      <4>2. ASSUME NEW u \in Tables, NEW i \in Ids PROVE hub'[u][i] # 0 <=> i <= hubMax'[u]
        <5>1. hub[u][i] # 0 <=> i <= hubMax[u]
          BY DEF RowsInv, HubAppends
        <5>2. hubMax'[u] = (IF u = t THEN new ELSE hubMax[u]) /\ hubMax[u] \in Nat /\ i \in Nat
          BY <2>1, <2>4 DEF Inserted, Ids
        <5>3. hub'[u][i] = IF u = t /\ i = new THEN hubTime + 1 ELSE hub[u][i]
          BY <2>1 DEF Inserted
        <5> QED
          BY <1>s, <4>1, <5>1, <5>2, <5>3
      <4> QED
        BY <4>2
    <3>4. env'.revised = {}
      BY <2>1 DEF Inserted, RowsInv, HubAppends
    <3> QED
      BY <3>2, <3>3, <3>4 DEF HubAppends
  <2>6. MirrorOfHub'
    BY <2>1, <2>3 DEF Inserted, RowsInv, MirrorOfHub, RowsOf
  <2>7. FramesOfHub'
    <3>1. ASSUME NEW n \in 1..Len(stream)
          PROVE  /\ stream[n].epoch <= epoch
                 /\ stream[n].kind = "beat" => stream[n].ts <= hubTime'
                 /\ stream[n].kind = "row" =>
                      stream[n].ts # 0 /\ stream[n].ts = hub'[stream[n].table][stream[n].id]
      <4>1. /\ stream[n].kind = "row" => stream[n].table \in Tables /\ stream[n].id \in Ids
            /\ stream[n].ts \in Nat
        BY FrameFields
      <4> QED
        BY SMTT(60), <1>s, <2>3, <2>4, <4>1 DEF RowsInv, FramesOfHub
    <3>2. CASE stream' = stream
      BY <2>3, <3>1, <3>2 DEF FramesOfHub
    <3>3. ASSUME NEW ok \in BOOLEAN,
                 stream' = Append(stream, RowFrameOf(t, new, hubTime + 1, ok))
          PROVE  FramesOfHub'
      <4>1. ASSUME NEW n \in 1..Len(stream')
            PROVE  \/ n \in 1..Len(stream) /\ stream'[n] = stream[n]
                   \/ stream'[n] = RowFrameOf(t, new, hubTime + 1, ok)
        BY <1>s, <3>3
      <4>2. hub'[t][new] = hubTime + 1
        BY <2>1 DEF Inserted
      <4> QED
        BY <1>s, <2>3, <3>1, <4>1, <4>2 DEF FramesOfHub, RowFrameOf
    <3> QED
      BY <2>2, <3>2, <3>3
  <2>8. BufferOfHub'
    <3>1. \A k \in 1..Len(priceBuf) : priceBuf[k].id \in Ids
      BY FrameFields
    <3>2. \A k \in 1..Len(priceBuf) :
            priceBuf[k].ts # 0 /\ priceBuf[k].ts = hub[PriceTable][priceBuf[k].id]
      BY DEF RowsInv, BufferOfHub
    <3> QED
      BY <2>3, <2>4, <3>1, <3>2 DEF BufferOfHub
  <2>9. PageOfHub'
    <3>1. ASSUME drain.phase = "page" PROVE Run(drain.table, drain.cursor, drain.page)'
      <4>1. drain.table \in Tables /\ drain.cursor \in Nat
        BY DEF TypeOK, DrainStates
      <4>2. PICK last \in drain.cursor..hubMax[drain.table] :
              \A i \in Ids : drain.page[i] = IF drain.cursor < i /\ i <= last
                                             THEN hub[drain.table][i] ELSE 0
        BY <3>1 DEF RowsInv, PageOfHub, Run
      <4>3. last \in drain.cursor..hubMax'[drain.table]
        <5>1. /\ hubMax[drain.table] \in Nat /\ hubMax'[drain.table] \in Nat
              /\ hubMax[drain.table] <= hubMax'[drain.table]
          BY <2>1, <2>4, <4>1 DEF Inserted, Ids
        <5> QED
          BY <4>1, <4>2, <5>1
      <4>4. \A i \in Ids : i <= last => hub'[drain.table][i] = hub[drain.table][i]
        BY <2>4, <4>1, <4>2 DEF Ids
      <4> QED
        BY <2>3, <4>2, <4>3, <4>4 DEF Run
    <3> QED
      BY <2>3, <3>1 DEF PageOfHub
  <2>10. ASSUME NEW u \in Tables, NEW above \in Nat, HasThrough(u, above)
         PROVE  HasThroughNext(u, above)
    <3>1. above <= hubMax'[u]
      BY <2>1, <2>4, <2>10 DEF HasThrough, Inserted
    <3>2. \A i \in Ids : i <= above => hub'[u][i] = hub[u][i]
      BY <2>4, <2>10 DEF HasThrough, Ids
    <3> QED
      BY <2>3, <2>10, <3>1, <3>2 DEF HasThrough, HasThroughNext, Has, HasNext
  <2>11. Prefixes'
    <3>1. drain.table \in Tables /\ drain.cursor \in Nat /\ \A u \in Tables : positions[u] \in Nat
      BY DEF TypeOK, DrainStates
    <3>2. InHand' = InHand
      BY <2>3 DEF InHand
    <3> QED
      BY <2>3, <2>10, <3>1, <3>2
      DEF RowsInv, Prefixes, HasThrough, HasThroughNext, Has, HasNext
  <2> QED
    BY <2>5, <2>6, <2>7, <2>8, <2>9, <2>11 DEF RowsInv
<1>2. ASSUME HubBeats PROVE RowsInv'
  <2> DEFINE beat == [kind |-> "beat", ts |-> hubTime, epoch |-> epoch]
  <2>1. stream' = Append(stream, beat)
        /\ UNCHANGED <<hub, hubMax, hubTime, env, epoch, mirror, positions, priceBuf, drain>>
    BY <1>2 DEF HubBeats, hubVars, tableVars, priceVars
  <2>2. ASSUME NEW n \in 1..Len(stream')
        PROVE  \/ n \in 1..Len(stream) /\ stream'[n] = stream[n]
               \/ stream'[n] = beat
    BY <1>s, <2>1
  <2>3. FramesOfHub'
    BY <1>s, <2>1, <2>2 DEF RowsInv, FramesOfHub
  <2>4. /\ HubAppends' /\ MirrorOfHub' /\ BufferOfHub' /\ PageOfHub' /\ Prefixes'
    BY <2>1 DEF RowsInv, HubAppends, MirrorOfHub, RowsOf, BufferOfHub, PageOfHub, Run,
                Prefixes, HasThrough, Has, InHand
  <2> QED
    BY <2>3, <2>4 DEF RowsInv
<1> QED
  BY <1>1, <1>2, NoRevision DEF HubStep, RowsInv

LEMMA PositionsStay ==
  ASSUME TypeOK, RowsInv, Grows,
         \A t \in Tables : positions'[t] = positions[t] \/ positions'[t] = 0
  PROVE  \A t \in Tables : HasThroughNext(t, positions'[t])
<1>1. \A t \in Tables : positions[t] \in Nat /\ HasThrough(t, positions[t]) /\ hubMax[t] \in Nat
  BY DEF TypeOK, RowsInv, Prefixes
<1>2. \A t \in Tables : HasThrough(t, 0)
  BY <1>1 DEF HasThrough, Ids
<1> QED
  BY <1>1, <1>2, GrowsKeeps

LEMMA CursorStays ==
  ASSUME TypeOK, RowsInv, Grows, InHand # {},
         drain'.table = drain.table, drain'.cursor = drain.cursor
  PROVE  HasThroughNext(drain'.table, drain'.cursor)
<1>1. drain.table \in Tables /\ drain.cursor \in Nat /\ HasThrough(drain.table, drain.cursor)
  BY DEF TypeOK, DrainStates, RowsInv, Prefixes
<1> QED
  BY <1>1, GrowsKeeps

LEMMA PassStands ==
  ASSUME TypeOK, RowsInv, Grows, UNCHANGED drain
  PROVE  PageOfHub' /\ (InHand' # {} => HasThroughNext(drain'.table, drain'.cursor))
<1>1. PageOfHub'
  BY DEF Grows, RowsInv, PageOfHub, Run
<1>2. InHand' = InHand
  BY DEF InHand
<1> QED
  BY <1>1, <1>2, CursorStays

LEMMA SocketKeepsRows ==
  ASSUME TypeOK, RowsInv, SocketStep
  PROVE  RowsInv' /\ Grows
<1> USE DEF hubVars, tableVars, priceVars
<1>1. ASSUME UNCHANGED <<hubVars, mirror, drain, stream>>, env'.revised = env.revised,
             epoch' = epoch \/ epoch' = epoch + 1,
             priceBuf' = priceBuf \/ priceBuf' = <<>>,
             \A t \in Tables : positions'[t] = positions[t] \/ positions'[t] = 0
      PROVE  RowsInv' /\ Grows
  <2>1. Grows
    BY <1>1, StillGrows DEF RowsInv
  <2>2. BufferOfHub'
    BY <1>1 DEF RowsInv, BufferOfHub
  <2> QED
    BY <1>1, <2>1, <2>2, PositionsStay, PassStands, RowsStay
<1>2. ASSUME Connect PROVE RowsInv' /\ Grows
  BY <1>1, <1>2 DEF Connect
<1>3. ASSUME ReadyArrives PROVE RowsInv' /\ Grows
  BY <1>1, <1>3 DEF ReadyArrives
<1>4. ASSUME NEW forget, SocketCloses(forget), env'.revised = env.revised PROVE RowsInv' /\ Grows
  BY <1>1, <1>4 DEF SocketCloses
<1>5. ASSUME DriveResync, env'.revised = env.revised PROVE RowsInv' /\ Grows
  BY <1>1, <1>5 DEF DriveResync
<1>6. ASSUME ConnectionLost PROVE RowsInv' /\ Grows
  BY <1>4, <1>6, SpendKeepsScenario DEF ConnectionLost
<1>7. ASSUME TerminatedSocketCloses PROVE RowsInv' /\ Grows
  BY <1>4, <1>7 DEF TerminatedSocketCloses
<1>8. ASSUME RequestResync PROVE RowsInv' /\ Grows
  BY <1>5, <1>8, SpendKeepsScenario DEF RequestResync
<1>9. ASSUME StallResync PROVE RowsInv' /\ Grows
  BY <1>5, <1>9 DEF StallResync
<1> QED
  BY <1>2, <1>3, <1>6, <1>7, <1>8, <1>9 DEF SocketStep

\* The row a frame carries is one of the hub's.
LEMMA HeadRow ==
  ASSUME TypeOK, FramesOfHub, FrameDue("row")
  PROVE  LET row == Head(stream) IN
         /\ row = stream[1] /\ 1 \in 1..Len(stream)
         /\ row \in RowFrames
         /\ row.ts # 0 /\ row.ts = hub[row.table][row.id]
<1>1. stream \in Seq(Frames) /\ stream # <<>> /\ Head(stream).kind = "row"
  BY DEF TypeOK, FrameDue
<1>2. Head(stream) = stream[1] /\ 1 \in 1..Len(stream)
  BY <1>1
<1> QED
  BY <1>1, <1>2, HeadType DEF FramesOfHub

LEMMA OneRowOfHub ==
  ASSUME TypeOK, FramesOfHub, FrameDue("row")
  PROVE  LET row == Head(stream)  rows == OneRow(row.id, row.ts) IN
         /\ row.table \in Tables /\ row.id \in Ids
         /\ rows \in [Ids -> Times] /\ RowsOf(row.table, rows) /\ rows[row.id] # 0
<1>1. /\ Head(stream).table \in Tables /\ Head(stream).id \in Ids /\ Head(stream).ts \in Times
      /\ Head(stream).ts # 0 /\ Head(stream).ts = hub[Head(stream).table][Head(stream).id]
  BY HeadRow DEF RowFrames
<1> QED
  BY <1>1 DEF OneRow, NoRows, Times, RowsOf

LEMMA FramesKeepRows ==
  ASSUME TypeOK, RowsInv, FrameStep
  PROVE  RowsInv' /\ Grows
<1> USE DEF hubVars, tableVars, priceVars
<1>1. ASSUME UNCHANGED <<hubVars, drain, positions, epoch>>, Grows, BufferOfHub',
             env'.revised = env.revised, stream # <<>>, Pop
      PROVE  RowsInv' /\ Grows
  <2>1. stream' = Tail(stream)
    BY <1>1 DEF Pop
  <2> QED
    BY <1>1, <2>1, PositionsStay, PassStands, RowsStay
<1>2. ASSUME UNCHANGED <<hubVars, drain, positions, epoch, mirror, priceBuf>>,
             env'.revised = env.revised, stream # <<>>, Pop
      PROVE  RowsInv' /\ Grows
  <2>1. BufferOfHub'
    BY <1>2 DEF RowsInv, BufferOfHub
  <2> QED
    BY <1>1, <1>2, <2>1, StillGrows DEF RowsInv
<1>3. ASSUME StaleFrame PROVE RowsInv' /\ Grows
  BY <1>2, <1>3 DEF StaleFrame
<1>4. ASSUME HandleBeat PROVE RowsInv' /\ Grows
  BY <1>2, <1>4 DEF HandleBeat, FrameDue
<1>5. ASSUME RefuseRow PROVE RowsInv' /\ Grows
  BY <1>2, <1>5 DEF RefuseRow, FrameDue
<1>6. ASSUME BufferRow PROVE RowsInv' /\ Grows
  <2>1. /\ UNCHANGED <<hubVars, drain, positions, epoch, mirror, env>>
        /\ stream # <<>> /\ Pop /\ FrameDue("row") /\ Head(stream).table = PriceTable
        /\ priceBuf' = priceBuf \/ priceBuf' = <<>> \/ priceBuf' = Append(priceBuf, Head(stream))
    BY <1>6 DEF BufferRow, FrameDue, Buffered
  <2>2. BufferOfHub'
    <3>1. priceBuf \in Seq(RowFrames) /\ BufferOfHub
      BY DEF TypeOK, RowsInv
    <3>2. CASE priceBuf' = Append(priceBuf, Head(stream))
      <4>1. Head(stream).ts # 0 /\ Head(stream).ts = hub[PriceTable][Head(stream).id]
        BY <2>1, HeadRow DEF RowsInv
      <4>2. ASSUME NEW k \in 1..Len(priceBuf')
            PROVE  \/ k \in 1..Len(priceBuf) /\ priceBuf'[k] = priceBuf[k]
                   \/ priceBuf'[k] = Head(stream)
        BY <3>1, <3>2
      <4> QED
        BY <2>1, <3>1, <4>1, <4>2 DEF BufferOfHub
    <3>3. CASE priceBuf' = priceBuf \/ priceBuf' = <<>>
      BY <2>1, <3>1, <3>3 DEF BufferOfHub
    <3> QED
      BY <2>1, <3>2, <3>3
  <2> QED
    BY <1>1, <2>1, <2>2, StillGrows DEF RowsInv
<1>7. ASSUME ApplyRow PROVE RowsInv' /\ Grows
  <2>1. /\ UNCHANGED <<hubVars, drain, positions, epoch, priceBuf, env>>
        /\ stream # <<>> /\ Pop /\ FrameDue("row")
        /\ mirror' = Merged(Head(stream).table, OneRow(Head(stream).id, Head(stream).ts))
    BY <1>7 DEF ApplyRow, FrameDue
  <2>2. Grows
    BY <2>1, OneRowOfHub, MergedGrows DEF RowsInv
  <2>3. BufferOfHub'
    BY <2>1 DEF RowsInv, BufferOfHub
  <2> QED
    BY <1>1, <2>1, <2>2, <2>3
<1>8. ASSUME ApplyRowFails PROVE RowsInv' /\ Grows
  BY <1>2, <1>8, SpendKeepsScenario DEF ApplyRowFails, FrameDue
<1> QED
  BY <1>3, <1>4, <1>5, <1>6, <1>7, <1>8 DEF FrameStep

\* What the running pass changes, apart from its own state and the rows.
LEMMA PassKeepsRows ==
  ASSUME TypeOK, RowsInv, UNCHANGED <<hubVars, linkVars, priceBuf>>,
         env'.revised = env.revised, Grows, PageOfHub',
         InHand' # {} => HasThroughNext(drain'.table, drain'.cursor),
         \A t \in Tables : HasThroughNext(t, positions'[t])
  PROVE  RowsInv' /\ Grows
<1>1. BufferOfHub'
  BY DEF RowsInv, BufferOfHub, hubVars
<1> QED
  BY <1>1, RowsStay DEF linkVars

LEMMA BeginKeepsRows ==
  ASSUME TypeOK, RowsInv, RunBootCall \/ RetryFires
  PROVE  RowsInv' /\ Grows
<1>1. UNCHANGED <<hubVars, linkVars, tableVars, priceVars, env>>
  BY DEF RunBootCall, RetryFires
<1>2. Grows /\ \A t \in Tables : HasThroughNext(t, positions'[t])
  <2>1. UNCHANGED <<hub, hubMax, mirror, positions>>
    BY <1>1 DEF hubVars, tableVars
  <2>2. Grows
    BY <2>1, StillGrows DEF RowsInv
  <2> QED
    BY <2>1, <2>2, PositionsStay
<1>3. CASE UNCHANGED drain
  BY <1>1, <1>2, <1>3, PassStands, PassKeepsRows DEF priceVars
<1>4. CASE Begin
  <2>1. drain'.phase = "table"
    BY <1>4 DEF Begin, IdleDrain
  <2>2. PageOfHub' /\ InHand' = {}
    BY <2>1 DEF PageOfHub, InHand
  <2> QED
    BY <1>1, <1>2, <2>2, PassKeepsRows DEF priceVars
<1> QED
  BY <1>3, <1>4 DEF RunBootCall, RetryFires

\* The pass drops the table in hand.
LEMMA UndrainedKeepsRows ==
  ASSUME TypeOK, RowsInv, UNCHANGED <<hubVars, linkVars, priceBuf>>,
         env'.revised = env.revised, Grows, Undrained,
         \A t \in Tables : HasThroughNext(t, positions'[t])
  PROVE  RowsInv' /\ Grows
<1>1. drain'.phase = "table" /\ InHand' = {}
  BY UndrainedPass DEF TypeOK
<1>2. PageOfHub'
  BY <1>1 DEF PageOfHub
<1> QED
  BY <1>1, <1>2, PassKeepsRows

\* Rows of a run that fail half way are a shorter run.
LEMMA FailedRunKeepsRows ==
  ASSUME TypeOK, RowsInv, NEW t \in Tables, NEW above \in Nat,
         NEW rows \in [Ids -> Times], Run(t, above, rows),
         HasThrough(t, above), HasThrough(t, drain.cursor),
         RowsFail(t, rows), UNCHANGED <<hubVars, linkVars, priceBuf>>
  PROVE  RowsInv' /\ Grows
<1>1. PICK bad \in Ids :
        /\ rows[bad] # 0
        /\ mirror' = Merged(t, [i \in Ids |-> IF i < bad THEN rows[i] ELSE 0])
        /\ positions' = Advanced(t, [i \in Ids |-> IF i < bad THEN rows[i] ELSE 0])
  BY DEF RowsFail
<1> DEFINE kept == [i \in Ids |-> IF i < bad THEN rows[i] ELSE 0]
<1>2. kept \in [Ids -> Times] /\ Run(t, above, kept)
  BY <1>1, RunBelow DEF Times
<1>3. mirror' = Merged(t, kept) /\ positions' = Advanced(t, kept)
  BY <1>1
<1> HIDE DEF kept
<1>4. Grows
  BY <1>2, <1>3, RowsOfRun, MergedGrows DEF RowsInv, hubVars
<1>5. \A u \in Tables : HasThroughNext(u, positions'[u])
  BY <1>2, <1>3, PositionExtends DEF RowsInv, hubVars
<1>6. env'.revised = env.revised /\ Undrained
  BY SpendKeepsScenario DEF RowsFail
<1> QED
  BY <1>4, <1>5, <1>6, UndrainedKeepsRows

LEMMA TablesKeepRows ==
  ASSUME TypeOK, RowsInv, TableStep
  PROVE  RowsInv' /\ Grows
<1> USE DEF tableVars, priceVars
<1>d. /\ drain \in DrainStates /\ drain.table \in Tables /\ drain.cursor \in Nat
      /\ drain.page \in [Ids -> Times]
      /\ \A u \in Tables : positions[u] \in Nat
  BY SMTT(60) DEF TypeOK, DrainStates
<1>q. /\ InHand # {} => HasThrough(drain.table, drain.cursor)
      /\ \A u \in Tables : HasThrough(u, positions[u]) /\ positions[u] <= hubMax[u]
  BY DEF RowsInv, Prefixes, HasThrough
<1>u. ASSUME UNCHANGED <<hubVars, linkVars, tableVars, priceVars>>
      PROVE  Grows /\ \A u \in Tables : HasThroughNext(u, positions'[u])
  <2>1. UNCHANGED <<hub, hubMax, mirror, positions>>
    BY <1>u DEF hubVars
  <2>2. Grows
    BY <2>1, StillGrows DEF RowsInv
  <2> QED
    BY <2>1, <2>2, PositionsStay
<1>1. ASSUME NEW t \in Tables, OpenTable(t) PROVE RowsInv' /\ Grows
  <2> DEFINE start == IF t \in FromZeroTables \/ owed[t] # 0 \/ AboveCeiling(t)
                      THEN 0 ELSE positions[t]
  <2>1. /\ drain'.phase = "fetch" /\ drain'.table = t /\ drain'.cursor = start
        /\ positions' = [positions EXCEPT ![t] = start]
        /\ UNCHANGED <<hubVars, linkVars, mirror, priceBuf, env>>
    BY <1>1, <1>d DEF OpenTable, DrainStates
  <2>2. start = 0 \/ start = positions[t]
    OBVIOUS
  <2> HIDE DEF start
  <2>3. \A u \in Tables : positions'[u] = positions[u] \/ positions'[u] = 0
    BY <2>1, <2>2 DEF TypeOK
  <2>4. Grows
    BY <2>1, StillGrows DEF RowsInv, hubVars
  <2>5. \A u \in Tables : HasThroughNext(u, positions'[u])
    BY <2>3, <2>4, PositionsStay
  <2>6. drain'.cursor = positions'[t]
    BY <2>1 DEF TypeOK
  <2>7. PageOfHub'
    BY <2>1 DEF PageOfHub
  <2> QED
    BY <2>1, <2>4, <2>5, <2>6, <2>7, PassKeepsRows
<1>2. ASSUME SkipTables PROVE RowsInv' /\ Grows
  <2>1. drain'.phase = "table" /\ UNCHANGED <<hubVars, linkVars, tableVars, priceVars, env>>
    BY <1>2, <1>d DEF SkipTables, DrainStates
  <2>2. PageOfHub' /\ InHand' = {}
    BY <2>1 DEF PageOfHub, InHand
  <2> QED
    BY <1>u, <2>1, <2>2, PassKeepsRows
<1>3. ASSUME ServePage PROVE RowsInv' /\ Grows
  <2>1. /\ drain.phase = "fetch" /\ drain'.table = drain.table /\ drain'.cursor = drain.cursor
        /\ drain'.page = Page(drain.table, drain.cursor)
        /\ UNCHANGED <<hubVars, linkVars, tableVars, priceVars, env>>
    BY <1>3, <1>d DEF ServePage, DrainStates
  <2>2. InHand # {} /\ drain.cursor <= hubMax[drain.table]
    BY <1>q, <2>1 DEF InHand, HasThrough
  <2>3. Run(drain.table, drain.cursor, Page(drain.table, drain.cursor))
    BY <1>d, <2>2, RunOfPage DEF RowsInv
  <2>5. PageOfHub'
    <3>1. hub' = hub /\ hubMax' = hubMax
      BY <2>1 DEF hubVars
    <3> QED
      BY <2>1, <2>3, <3>1 DEF PageOfHub, Run
  <2> QED
    BY <1>u, <2>1, <2>2, <2>5, CursorStays, PassKeepsRows
<1>4. ASSUME PageFails \/ DrainOutlived PROVE RowsInv' /\ Grows
  <2>1. Undrained /\ UNCHANGED <<hubVars, linkVars, tableVars, priceVars>>
        /\ env'.revised = env.revised
    BY <1>4, SpendKeepsScenario DEF PageFails, DrainOutlived
  <2> QED
    BY <1>u, <2>1, UndrainedKeepsRows
<1>5. ASSUME ApplyPage PROVE RowsInv' /\ Grows
  <2>1. /\ drain.phase = "page"
        /\ mirror' = Merged(drain.table, drain.page)
        /\ positions' = Advanced(drain.table, drain.page)
        /\ UNCHANGED <<hubVars, linkVars, priceBuf, env>>
        /\ drain'.phase \in {"catchup", "fetch"} /\ drain'.table = drain.table
        /\ drain'.cursor = HighestIn(drain.page, drain.cursor)
    BY <1>5, <1>d DEF ApplyPage, DrainStates
  <2>2. HasThrough(drain.table, drain.cursor) /\ Run(drain.table, drain.cursor, drain.page)
    BY <1>q, <2>1 DEF InHand, RowsInv, PageOfHub
  <2>3. Grows
    BY <1>d, <2>1, <2>2, RowsOfRun, MergedGrows DEF RowsInv, hubVars
  <2>4. \A u \in Tables : HasThroughNext(u, positions'[u])
    BY <1>d, <2>1, <2>2, PositionExtends DEF RowsInv, hubVars
  <2>5. HasThroughNext(drain'.table, drain'.cursor)
    BY <1>d, <2>1, <2>2, RunExtends DEF RowsInv, hubVars
  <2>6. PageOfHub'
    BY <2>1 DEF PageOfHub
  <2> QED
    BY <2>1, <2>3, <2>4, <2>5, <2>6, PassKeepsRows
<1>6. ASSUME ApplyPageFails PROVE RowsInv' /\ Grows
  <2>1. /\ drain.phase = "page" /\ RowsFail(drain.table, drain.page)
        /\ UNCHANGED <<hubVars, linkVars, priceBuf>>
    BY <1>6 DEF ApplyPageFails
  <2>2. HasThrough(drain.table, drain.cursor) /\ Run(drain.table, drain.cursor, drain.page)
    BY <1>q, <2>1 DEF InHand, RowsInv, PageOfHub
  <2> QED
    BY <1>d, <2>1, <2>2, FailedRunKeepsRows
<1>7. ASSUME NEW rows, rows = Page(drain.table, positions[drain.table])
      PROVE  /\ rows \in [Ids -> Times]
             /\ Run(drain.table, positions[drain.table], rows)
  BY <1>d, <1>q, <1>7, PageType, RunOfPage DEF RowsInv
<1>8. ASSUME CatchUp PROVE RowsInv' /\ Grows
  <2> DEFINE rows == Page(drain.table, positions[drain.table])
  <2>1. /\ drain.phase = "catchup"
        /\ \/ mirror' = Merged(drain.table, rows) /\ positions' = Advanced(drain.table, rows)
           \/ UNCHANGED <<mirror, positions>>
        /\ UNCHANGED <<hubVars, linkVars, priceBuf>> /\ env'.revised = env.revised
        /\ drain'.phase = "verdict" /\ drain'.table = drain.table
        /\ drain'.cursor = drain.cursor
    BY <1>8, <1>d, SpendKeepsScenario DEF CatchUp, DrainStates
  <2>2. rows \in [Ids -> Times] /\ Run(drain.table, positions[drain.table], rows)
    BY <1>7
  <2> HIDE DEF rows
  <2>3. HasThrough(drain.table, drain.cursor) /\ InHand # {}
    BY <1>q, <2>1 DEF InHand
  <2>4. Grows /\ \A u \in Tables : HasThroughNext(u, positions'[u])
    <3>1. CASE mirror' = Merged(drain.table, rows) /\ positions' = Advanced(drain.table, rows)
      <4>1. Grows
        BY <1>d, <2>1, <2>2, <3>1, RowsOfRun, MergedGrows DEF RowsInv, hubVars
      <4>2. \A u \in Tables : HasThroughNext(u, positions'[u])
        BY <1>d, <1>q, <2>1, <2>2, <2>3, <3>1, PositionExtends DEF RowsInv, hubVars
      <4> QED
        BY <4>1, <4>2
    <3>2. CASE UNCHANGED <<mirror, positions>>
      <4>1. Grows
        BY <2>1, <3>2, StillGrows DEF RowsInv, hubVars
      <4> QED
        BY <3>2, <4>1, PositionsStay
    <3> QED
      BY <2>1, <3>1, <3>2
  <2>5. PageOfHub'
    BY <2>1 DEF PageOfHub
  <2> QED
    BY <2>1, <2>3, <2>4, <2>5, CursorStays, PassKeepsRows
<1>9. ASSUME CatchUpFails PROVE RowsInv' /\ Grows
  <2> DEFINE rows == Page(drain.table, positions[drain.table])
  <2>1. /\ drain.phase = "catchup" /\ RowsFail(drain.table, rows)
        /\ UNCHANGED <<hubVars, linkVars, priceBuf>>
    BY <1>9 DEF CatchUpFails
  <2>2. rows \in [Ids -> Times] /\ Run(drain.table, positions[drain.table], rows)
    BY <1>7
  <2> HIDE DEF rows
  <2>3. HasThrough(drain.table, drain.cursor)
    BY <1>q, <2>1 DEF InHand
  <2> QED
    BY <1>d, <1>q, <2>1, <2>2, <2>3, FailedRunKeepsRows
<1> QED
  BY <1>1, <1>2, <1>3, <1>4, <1>5, <1>6, <1>8, <1>9 DEF TableStep

\* The rows a replay writes are rows of the hub.
LEMMA BufferedRowsOfHub ==
  ASSUME TypeOK, BufferOfHub, NEW n \in 0..Len(priceBuf)
  PROVE  /\ BufferedRows(n) \in [Ids -> Times]
         /\ RowsOf(PriceTable, BufferedRows(n))
         /\ \A k \in 1..n : BufferedRows(n)[priceBuf[k].id] # 0
<1>1. priceBuf \in Seq(RowFrames) /\ BufferedRows(n) \in [Ids -> Times]
  BY BufferedRowsType DEF TypeOK
<1>2. \A k \in 1..n : /\ k \in 1..Len(priceBuf)
                      /\ priceBuf[k].id \in Ids /\ priceBuf[k].ts \in Times
                      /\ priceBuf[k].ts # 0
                      /\ priceBuf[k].ts = hub[PriceTable][priceBuf[k].id]
  <2>1. \A k \in 1..n : k \in 1..Len(priceBuf) /\ priceBuf[k] \in RowFrames
    BY <1>1
  <2> QED
    BY <2>1 DEF BufferOfHub, RowFrames
<1> DEFINE times(i) == {priceBuf[k].ts : k \in {j \in 1..n : priceBuf[j].id = i}}
<1>3. \A i \in Ids : BufferedRows(n)[i] = IF times(i) = {} THEN 0 ELSE Newest(times(i))
  BY DEF BufferedRows
<1>4. \A i \in Ids : times(i) \in SUBSET Times
                     /\ \A ts \in times(i) : ts # 0 /\ ts = hub[PriceTable][i]
  BY <1>2
<1>5. \A k \in 1..n : times(priceBuf[k].id) # {}
  OBVIOUS
<1> HIDE DEF times
<1>6. ASSUME NEW i \in Ids, times(i) # {}
      PROVE  BufferedRows(n)[i] # 0 /\ BufferedRows(n)[i] = hub[PriceTable][i]
  <2>1. Newest(times(i)) \in times(i)
    BY <1>4, <1>6, NewestType
  <2> QED
    BY <1>3, <1>4, <1>6, <2>1
<1>7. \A i \in Ids : times(i) = {} => BufferedRows(n)[i] = 0
  BY <1>3
<1> QED
  BY <1>1, <1>2, <1>5, <1>6, <1>7 DEF RowsOf

LEMMA VerdictKeepsRows ==
  ASSUME TypeOK, RowsInv, VerdictStep
  PROVE  RowsInv' /\ Grows
<1> USE DEF tableVars, priceVars
<1>d. drain \in DrainStates /\ priceBuf \in Seq(RowFrames)
  BY DEF TypeOK
<1>1. ASSUME UNCHANGED <<hubVars, stream, epoch, env, positions>>, Grows, BufferOfHub',
             \/ drain'.phase \in {"idle", "table"}
             \/ drain.phase \in {"verdict", "replay"} /\ drain'.phase \in {"replay", "landed"}
                /\ drain'.table = drain.table /\ drain'.cursor = drain.cursor
      PROVE  RowsInv' /\ Grows
  <2>1. PageOfHub'
    BY <1>1 DEF PageOfHub
  <2>2. InHand' # {} => HasThroughNext(drain'.table, drain'.cursor)
    BY <1>1, CursorStays DEF InHand
  <2> QED
    BY <1>1, <2>1, <2>2, PositionsStay, RowsStay
<1>2. ASSUME UNCHANGED <<hubVars, mirror>>, priceBuf' = priceBuf \/ priceBuf' = <<>>
      PROVE  Grows /\ BufferOfHub'
  <2>1. Grows
    BY <1>2, StillGrows DEF RowsInv, hubVars
  <2> QED
    BY <1>2, <2>1 DEF RowsInv, BufferOfHub, hubVars
<1>3. ASSUME QueueReplay PROVE RowsInv' /\ Grows
  <2>1. /\ drain.phase = "verdict" /\ drain'.phase = "replay"
        /\ drain'.table = drain.table /\ drain'.cursor = drain.cursor
        /\ UNCHANGED <<hubVars, linkVars, tableVars, priceVars, env>>
    BY <1>3, <1>d DEF QueueReplay, DrainStates
  <2> QED
    BY <1>1, <1>2, <2>1 DEF linkVars
<1>4. ASSUME Replay PROVE RowsInv' /\ Grows
  <2>1. /\ drain.phase = "replay" /\ priceBuf' = <<>>
        /\ mirror' = Merged(PriceTable, BufferedRows(Len(priceBuf)))
        /\ UNCHANGED <<hubVars, linkVars, positions, env>>
    BY <1>4 DEF Replay
  <2>2. \/ drain'.phase = "table"
        \/ drain'.phase = "landed" /\ drain'.table = drain.table /\ drain'.cursor = drain.cursor
    <3>1. drain' = [drain EXCEPT !.phase = "landed"] \/ Undrained
      BY <1>4 DEF Replay
    <3> QED
      BY <1>d, <3>1, UndrainedPass DEF DrainStates
  <2>3. Grows
    <3>1. Len(priceBuf) \in 0..Len(priceBuf)
      BY <1>d
    <3>2. BufferedRows(Len(priceBuf)) \in [Ids -> Times]
          /\ RowsOf(PriceTable, BufferedRows(Len(priceBuf)))
      BY <3>1, BufferedRowsOfHub DEF RowsInv
    <3> QED
      BY <2>1, <3>2, MergedGrows, TablesAssumption DEF RowsInv, hubVars
  <2>4. BufferOfHub'
    BY <2>1 DEF BufferOfHub
  <2> QED
    BY <1>1, <2>1, <2>2, <2>3, <2>4 DEF linkVars
<1>5. ASSUME ReplayOverflowed PROVE RowsInv' /\ Grows
  <2>1. /\ priceBuf' = <<>> /\ Undrained
        /\ UNCHANGED <<hubVars, linkVars, tableVars, env>>
    BY <1>5 DEF ReplayOverflowed
  <2>2. drain'.phase = "table"
    BY <1>d, <2>1, UndrainedPass
  <2> QED
    BY <1>1, <1>2, <2>1, <2>2 DEF linkVars
<1>6. ASSUME ReplayFails PROVE RowsInv' /\ Grows
  <2>1. PICK n \in 0..(Len(priceBuf) - 1) :
          /\ mirror' = Merged(PriceTable, BufferedRows(n))
          /\ priceBuf' = SubSeq(priceBuf, n + 1, Len(priceBuf))
    BY <1>6 DEF ReplayFails
  <2>2. Undrained /\ UNCHANGED <<hubVars, linkVars, positions>>
        /\ env'.revised = env.revised
    BY <1>6, SpendKeepsScenario DEF ReplayFails
  <2>3. n \in 0..Len(priceBuf)
    BY <1>d, <2>1
  <2>4. Grows
    <3>1. BufferedRows(n) \in [Ids -> Times] /\ RowsOf(PriceTable, BufferedRows(n))
      BY <2>3, BufferedRowsOfHub DEF RowsInv
    <3> QED
      BY <2>1, <2>2, <3>1, MergedGrows, TablesAssumption DEF RowsInv, hubVars
  <2>5. BufferOfHub'
    <3>1. ASSUME NEW k \in 1..Len(priceBuf')
          PROVE  k + n \in 1..Len(priceBuf) /\ priceBuf'[k] = priceBuf[k + n]
      BY <1>d, <2>1, <2>3
    <3>2. hub' = hub
      BY <2>2 DEF hubVars
    <3> QED
      BY SMTT(60), <3>1, <3>2 DEF RowsInv, BufferOfHub
  <2>6. PageOfHub' /\ InHand' = {}
    <3>1. drain'.phase = "table" /\ InHand' = {}
      BY <1>d, <2>2, UndrainedPass
    <3> QED
      BY <3>1 DEF PageOfHub
  <2> QED
    BY <2>2, <2>4, <2>5, <2>6, PositionsStay, RowsStay DEF linkVars
<1>7. ASSUME CertifyTable PROVE RowsInv' /\ Grows
  <2>1. drain'.phase = "table" /\ UNCHANGED <<hubVars, linkVars, mirror, positions, priceVars, env>>
    BY <1>7 DEF CertifyTable, TableDone, IdleDrain
  <2> QED
    BY <1>1, <1>2, <2>1 DEF linkVars
<1>8. ASSUME CertifyFullDrain \/ ScheduleRetry PROVE RowsInv' /\ Grows
  <2>1. drain'.phase = "idle" /\ UNCHANGED <<hubVars, linkVars, tableVars, priceVars, env>>
    BY <1>8 DEF CertifyFullDrain, ScheduleRetry, IdleDrain
  <2> QED
    BY <1>1, <1>2, <2>1 DEF linkVars
<1> QED
  BY <1>3, <1>4, <1>5, <1>6, <1>7, <1>8 DEF VerdictStep

LEMMA RowsInductive ==
  /\ Init /\ OnlyAppends => RowsInv
  /\ TypeOK /\ RowsInv /\ [Next]_vars => RowsInv'
<1>1. ASSUME Init, OnlyAppends PROVE RowsInv
  <2>1. HubAppends
    BY <1>1 DEF Init, OnlyAppends, HubAppends, NoRows, Ids
  <2>2. MirrorOfHub /\ FramesOfHub /\ BufferOfHub /\ PageOfHub
    BY <1>1 DEF Init, MirrorOfHub, RowsOf, NoRows, FramesOfHub, BufferOfHub, PageOfHub, IdleDrain
  <2>3. Prefixes
    BY <1>1 DEF Init, Prefixes, HasThrough, InHand, IdleDrain, NoRows, Has, Ids
  <2> QED
    BY <2>1, <2>2, <2>3 DEF RowsInv
<1>2. ASSUME TypeOK, RowsInv, Next PROVE RowsInv'
  BY <1>2, HubKeepsRows, SocketKeepsRows, FramesKeepRows, BeginKeepsRows, TablesKeepRows,
     VerdictKeepsRows DEF Next, DrainStep
<1>3. ASSUME RowsInv, UNCHANGED vars PROVE RowsInv'
  <2>1. UNCHANGED <<hub, hubMax, hubTime, mirror, stream, epoch, priceBuf, positions, drain, env>>
    BY <1>3 DEF vars, hubVars, linkVars, tableVars, priceVars
  <2> QED
    BY <1>3, <2>1 DEF RowsInv, HubAppends, MirrorOfHub, RowsOf, FramesOfHub, BufferOfHub,
                      PageOfHub, Run, Prefixes, HasThrough, Has, InHand
<1> QED
  BY <1>1, <1>2, <1>3

-----------------------------------------------------------------------------
(* The marks and the watermarks: what is complete stays complete, for a    *)
(* row comes later than every mark.                                        *)

\* Steps in which the hub stands still and the mirror loses nothing.
StandingStep == Grows /\ UNCHANGED hubTime

LEMMA CertificatesStay ==
  ASSUME TypeOK, StandingStep, CertificatesHold, UNCHANGED <<streamWM, tableWM>>
  PROVE  CertificatesHold'
<1>1. streamWM \in Nat /\ \A t \in Tables : tableWM[t] \in Nat
  BY DEF TypeOK, Times
<1>2. \A t \in Tables, ts \in Nat : CompleteThrough(t, ts) => CompleteNext(t, ts)
  BY GrowsKeeps DEF StandingStep
<1>3. \A t \in Tables : CompleteNext(t, streamWM) /\ CompleteNext(t, tableWM[t])
  BY <1>1, <1>2 DEF CertificatesHold, StreamComplete
<1> QED
  BY <1>3 DEF CertificatesHold, StandingStep, StreamComplete, CompleteThrough, CompleteNext,
              HasNext

\* The tables a pass is done with are as complete as one of its marks.
Covered(t) == \E m \in drain.marks : CompleteThrough(t, m)

LEMMA CoveredStay ==
  ASSUME TypeOK, StandingStep, drain.marks \subseteq drain'.marks
  PROVE  \A t \in Tables : Covered(t) => Covered(t)'
<1>1. drain.marks \subseteq Nat
  BY DEF TypeOK, DrainStates, Times
<1>2. \A t \in Tables, ts \in Nat : CompleteThrough(t, ts) => CompleteNext(t, ts)
  BY GrowsKeeps DEF StandingStep
<1> QED
  BY <1>1, <1>2 DEF Covered, CompleteThrough, CompleteNext, HasNext

\* A step that leaves the pass where it is, or moves it on with its table.
LEMMA DrainMoves ==
  ASSUME TypeOK, StandingStep, DrainHolds,
         UNCHANGED <<drain.mark, drain.marks, drain.undrained, drain.table, drain.todo>>,
         drain'.phase \in InPass => drain.phase \in InPass,
         drain'.phase = "page" => drain.phase = "page" /\ UNCHANGED <<drain.page, drain.short>>,
         InHand' = InHand, Draining' => Draining
  PROVE  DrainHolds'
<1>1. drain.mark \in Nat /\ drain.table \in Tables
  BY DEF TypeOK, DrainStates, Times
<1>2. CompleteThrough(drain.table, drain.mark) => CompleteNext(drain.table, drain.mark)
  BY <1>1, GrowsKeeps DEF StandingStep
<1>3. drain'.phase \in InPass => CompleteThrough(drain.table, drain.mark)'
  BY <1>2 DEF DrainHolds, CompleteThrough, CompleteNext, HasNext
<1>4. drain'.phase = "page" /\ drain'.short => HasServed(drain.table, drain.mark)'
  <2>1. ASSUME drain'.phase = "page", drain'.short
        PROVE  HasServed(drain.table, drain.mark) /\ drain'.page = drain.page
    BY <2>1 DEF DrainHolds
  <2> QED
    BY <1>1, <2>1 DEF StandingStep, Grows, HasServed, Has, HasNext
<1>5. \A t \in Tables : Covered(t) => Covered(t)'
  BY CoveredStay
<1>6. Draining' /\ ~drain'.undrained =>
        \A t \in Tables \ (drain'.todo \cup InHand') : Covered(t)'
  BY <1>5 DEF DrainHolds, Covered
<1> QED
  BY <1>3, <1>4, <1>6 DEF DrainHolds, StandingStep, Covered

\* The pass drops the table in hand, or ends, or begins.
LEMMA DrainDrops ==
  ASSUME TypeOK, StandingStep, DrainHolds,
         drain'.phase \in {"idle", "table"}, drain'.mark = 0, drain'.marks \subseteq drain.marks,
         drain'.phase = "table" => drain'.undrained \/ drain'.todo = Tables
  PROVE  DrainHolds'
<1>1. drain'.mark <= hubTime'
  BY DEF TypeOK, StandingStep, Times
<1> QED
  BY <1>1 DEF DrainHolds, StandingStep, Draining, InPass

\* An insertion happens after every mark and every watermark.
LEMMA InsertionKeepsMarks ==
  ASSUME TypeOK, RowsInv, DrainHolds, CertificatesHold, NEW t \in Tables, HubInserts(t)
  PROVE  DrainHolds' /\ CertificatesHold'
<1> DEFINE new == hubMax[t] + 1
<1>1. Inserted(t, new)
  BY InsertionAdds DEF RowsInv
<1> HIDE DEF new
<1>2. hubTime \in Nat /\ hubTime' = hubTime + 1
      /\ UNCHANGED <<mirror, drain, streamWM, tableWM>>
  BY <1>1 DEF Inserted, certVars, tableVars, TypeOK, Times
<1>3. \A u \in Tables, i \in Ids, ts \in Nat :
        ts <= hubTime /\ hub'[u][i] <= ts => hub[u][i] <= ts /\ hub'[u][i] = hub[u][i]
  BY <1>1, <1>2 DEF Inserted
<1>4. ASSUME NEW u \in Tables, NEW ts \in Nat, ts <= hubTime, CompleteThrough(u, ts)
      PROVE  CompleteNext(u, ts)
  BY <1>2, <1>3, <1>4 DEF CompleteThrough, CompleteNext, HasNext
<1>5. /\ drain.mark \in Nat /\ drain.marks \subseteq Nat /\ drain.table \in Tables
      /\ streamWM \in Nat /\ \A u \in Tables : tableWM[u] \in Nat
  <2>1. drain \in DrainStates /\ streamWM \in Times /\ tableWM \in [Tables -> Times]
    BY DEF TypeOK
  <2> QED
    BY <2>1 DEF DrainStates, Times
<1>6. DrainHolds'
  <2>1. drain'.mark <= hubTime' /\ \A m \in drain'.marks : m <= hubTime'
    BY <1>2, <1>5 DEF DrainHolds
  <2>2. drain'.phase = "page" /\ drain'.short => HasServed(drain.table, drain.mark)'
    BY <1>2, <1>3, <1>5 DEF DrainHolds, HasServed, Has
  <2>3. drain'.phase \in InPass => CompleteThrough(drain.table, drain.mark)'
    <3>1. drain'.phase \in InPass => CompleteNext(drain.table, drain.mark)
      BY <1>2, <1>4, <1>5 DEF DrainHolds
    <3> QED
      BY <1>2, <3>1 DEF CompleteThrough, CompleteNext, HasNext
  <2>4. Draining' /\ ~drain'.undrained =>
          \A u \in Tables \ (drain'.todo \cup InHand') :
            \E m \in drain'.marks : CompleteThrough(u, m)'
    <3>1. Draining' = Draining /\ InHand' = InHand
      BY <1>2 DEF Draining, InHand
    <3>2. Draining' /\ ~drain'.undrained =>
            \A u \in Tables \ (drain'.todo \cup InHand') : \E m \in drain.marks : CompleteNext(u, m)
      BY <1>2, <1>4, <1>5, <3>1 DEF DrainHolds
    <3> QED
      BY <1>2, <3>2 DEF CompleteThrough, CompleteNext, HasNext
  <2> QED
    BY <2>1, <2>2, <2>3, <2>4 DEF DrainHolds
<1>7. CertificatesHold'
  <2>1. streamWM <= hubTime /\ \A u \in Tables : CompleteNext(u, streamWM)
    BY <1>4, <1>5 DEF CertificatesHold, StreamComplete
  <2>2. \A u \in Tables : tableWM[u] <= hubTime /\ CompleteNext(u, tableWM[u])
    BY <1>4, <1>5 DEF CertificatesHold
  <2> QED
    BY <1>2, <1>5, <2>1, <2>2
    DEF CertificatesHold, StreamComplete, CompleteThrough, CompleteNext, HasNext
<1> QED
  BY <1>6, <1>7

\* Where the watermarks stand still and the pass does too.
LEMMA PassKeepsMarks ==
  ASSUME TypeOK, StandingStep, DrainHolds, CertificatesHold,
         UNCHANGED <<drain, streamWM, tableWM>>
  PROVE  DrainHolds' /\ CertificatesHold'
<1>1. InHand' = InHand /\ Draining' = Draining
  BY DEF InHand, Draining
<1> QED
  BY <1>1, DrainMoves, CertificatesStay

LEMMA HubKeepsMarks ==
  ASSUME TypeOK, RowsInv, DrainHolds, CertificatesHold, HubStep
  PROVE  DrainHolds' /\ CertificatesHold'
<1>1. ASSUME HubBeats PROVE DrainHolds' /\ CertificatesHold'
  <2>1. UNCHANGED <<hub, hubMax, hubTime, mirror, drain, streamWM, tableWM>>
    BY <1>1 DEF HubBeats, hubVars, tableVars, certVars
  <2>2. StandingStep
    BY <2>1, StillGrows DEF RowsInv, StandingStep
  <2> QED
    BY <2>1, <2>2, PassKeepsMarks
<1> QED
  BY <1>1, InsertionKeepsMarks, NoRevision DEF HubStep, RowsInv

LEMMA SocketKeepsMarks ==
  ASSUME TypeOK, RowsInv, DrainHolds, CertificatesHold, SocketStep
  PROVE  DrainHolds' /\ CertificatesHold'
<1>1. UNCHANGED <<hubTime, drain, streamWM, tableWM>>
  BY DEF SocketStep, Connect, ReadyArrives, ConnectionLost, TerminatedSocketCloses,
         RequestResync, StallResync, SocketCloses, DriveResync, hubVars, certVars
<1>2. StandingStep
  BY <1>1, SocketKeepsRows DEF StandingStep
<1> QED
  BY <1>1, <1>2, PassKeepsMarks

\* A beat certifies a table only where it holds every row up to it: none of
\* them is buffered, on its way behind the beat, or owed.
LEMMA BeatCertifies ==
  ASSUME TypeOK, RowsInv, PriceKept, BeatsHold, HandleBeat,
         NEW t \in Tables, ~Latched, tableEpoch[t] = epoch
  PROVE  CompleteThrough(t, Head(stream).ts)
<1>1. /\ stream[1] = Head(stream) /\ 1 \in 1..Len(stream)
      /\ stream[1].kind = "beat" /\ stream[1].epoch = epoch
  BY SMTT(60) DEF HandleBeat, FrameDue, TypeOK
<1>2. ASSUME NEW i \in Ids, hub[t][i] <= Head(stream).ts, ~Has(t, i) PROVE FALSE
  <2>1. hub[t][i] # 0
    BY <1>2 DEF RowsInv, MirrorOfHub, RowsOf, Has
  <2>2. Ahead(t, i, 1) \/ InBuffer(t, i) \/ Owing(t, i)
    BY <1>1, <1>2, <2>1 DEF BeatsHold, Awaited, Missing
  <2>3. ~Ahead(t, i, 1)
    BY DEF Ahead
  <2>4. ~InBuffer(t, i)
    BY DEF PriceKept, InBuffer
  <2> QED
    BY <2>2, <2>3, <2>4 DEF Owing
<1> QED
  BY <1>2 DEF CompleteThrough, Has

LEMMA FramesKeepMarks ==
  ASSUME TypeOK, GateInv, RowsInv, PriceKept, BeatsHold, DrainHolds, CertificatesHold,
         FrameStep
  PROVE  DrainHolds' /\ CertificatesHold'
<1>1. UNCHANGED <<hubTime, drain>>
  BY DEF FrameStep, StaleFrame, HandleBeat, RefuseRow, BufferRow, ApplyRow, ApplyRowFails,
         hubVars
<1>2. StandingStep
  BY <1>1, FramesKeepRows DEF StandingStep
<1>3. CASE ~HandleBeat
  <2>1. UNCHANGED <<streamWM, tableWM>>
    BY <1>3 DEF FrameStep, StaleFrame, RefuseRow, BufferRow, ApplyRow, ApplyRowFails, certVars
  <2> QED
    BY <1>1, <1>2, <2>1, PassKeepsMarks
<1>4. CASE HandleBeat
  <2> DEFINE ts == Head(stream).ts
  <2>1. UNCHANGED <<hub, mirror, hubTime, drain>>
    BY <1>4 DEF HandleBeat, hubVars, tableVars
  <2>2. DrainHolds'
    <3>1. InHand' = InHand /\ Draining' = Draining
      BY <2>1 DEF InHand, Draining
    <3> QED
      BY <1>2, <2>1, <3>1, DrainMoves
  <2>3. ts \in Nat /\ ts <= hubTime
    <3>1. Head(stream) = stream[1] /\ 1 \in 1..Len(stream) /\ stream[1].kind = "beat"
      BY SMTT(60), <1>4 DEF HandleBeat, FrameDue, TypeOK
    <3> QED
      BY <3>1, FrameFields DEF RowsInv, FramesOfHub
  <2>4. gate => \A t \in Tables : tableEpoch[t] = epoch
    BY DEF GateInv, GateNeedsEveryTable
  <2>5. \A t \in Tables : Certified(t) => CompleteThrough(t, ts)
    BY <1>4, <2>4, BeatCertifies DEF Certified
  <2> HIDE DEF ts
  <2>6. /\ streamWM' = IF ~Latched /\ gate THEN Larger(streamWM, ts) ELSE streamWM
        /\ tableWM' = [t \in Tables |-> IF Certified(t) /\ ts > TableWatermark(t)
                                        THEN ts ELSE tableWM[t]]
    BY <1>4 DEF HandleBeat, ts
  <2>7. streamWM' <= hubTime /\ \A t \in Tables : CompleteThrough(t, streamWM')
    <3>1. CASE streamWM' = streamWM
      BY <3>1 DEF CertificatesHold, StreamComplete
    <3>2. CASE streamWM' # streamWM
      <4>1. streamWM' = ts /\ ~Latched /\ gate
        BY <2>6, <3>2 DEF Larger
      <4> QED
        BY <2>3, <2>5, <4>1 DEF Certified
    <3> QED
      BY <3>1, <3>2
  <2>8. \A t \in Tables : tableWM'[t] <= hubTime /\ CompleteThrough(t, tableWM'[t])
    <3>1. ASSUME NEW t \in Tables
          PROVE  tableWM'[t] = tableWM[t] \/ (tableWM'[t] = ts /\ Certified(t))
      BY <2>6
    <3> QED
      BY <2>3, <2>5, <3>1 DEF CertificatesHold
  <2>9. CertificatesHold'
    BY <2>1, <2>7, <2>8 DEF CertificatesHold, StreamComplete, CompleteThrough
  <2> QED
    BY <2>2, <2>9
<1> QED
  BY <1>3, <1>4

\* A table that did not drain leaves its marks to the pass, which fails.
LEMMA UndrainedKeepsMarks ==
  ASSUME TypeOK, StandingStep, DrainHolds, CertificatesHold, Undrained,
         UNCHANGED <<streamWM, tableWM>>
  PROVE  DrainHolds' /\ CertificatesHold'
<1>1. /\ drain'.phase = "table" /\ drain'.mark = 0 /\ drain'.marks = drain.marks
      /\ drain'.undrained
  BY UndrainedPass DEF TypeOK
<1> QED
  BY <1>1, DrainDrops, CertificatesStay

LEMMA BeginKeepsMarks ==
  ASSUME TypeOK, RowsInv, DrainHolds, CertificatesHold, RunBootCall \/ RetryFires
  PROVE  DrainHolds' /\ CertificatesHold'
<1>1. UNCHANGED <<hubTime, streamWM, tableWM>>
  BY DEF RunBootCall, RetryFires, hubVars, certVars
<1>2. StandingStep
  BY <1>1, BeginKeepsRows DEF StandingStep
<1>3. CASE Begin
  <2>1. /\ drain'.phase = "table" /\ drain'.mark = 0 /\ drain'.marks = {}
        /\ drain'.todo = Tables
    BY <1>3 DEF Begin, IdleDrain
  <2> QED
    BY <1>1, <1>2, <2>1, DrainDrops, CertificatesStay
<1> QED
  BY <1>1, <1>2, <1>3, PassKeepsMarks DEF RunBootCall, RetryFires

\* The last page of a table: with what the mirror has, every row of it.
LEMMA LastPageServes ==
  ASSUME TypeOK, RowsInv, ServePage, drain'.short
  PROVE  HasServed(drain.table, drain.mark)'
<1>1. /\ drain \in DrainStates /\ drain.table \in Tables /\ drain.cursor \in Nat
      /\ hubMax[drain.table] \in Nat
  BY SMTT(60) DEF TypeOK, DrainStates
<1>2. /\ drain.phase = "fetch" /\ drain'.table = drain.table
      /\ drain'.page = Page(drain.table, drain.cursor)
      /\ hubMax[drain.table] - drain.cursor < PageLimit
      /\ UNCHANGED <<hub, mirror>>
  BY <1>1 DEF ServePage, DrainStates, hubVars, tableVars
<1>3. HasThrough(drain.table, drain.cursor)
  BY <1>2 DEF RowsInv, Prefixes, InHand
<1>4. PageEnd(drain.table, drain.cursor) = hubMax[drain.table]
  BY <1>1, <1>2, <1>3 DEF PageEnd, HasThrough
<1>5. ASSUME NEW i \in Ids
      PROVE  Has(drain.table, i) \/ drain'.page[i] = hub[drain.table][i]
  <2>1. i \in Nat
    BY DEF Ids
  <2>2. CASE i <= drain.cursor
    BY <1>3, <2>2 DEF HasThrough
  <2>3. CASE drain.cursor < i /\ i <= hubMax[drain.table]
    BY <1>2, <1>4, <2>3 DEF Page
  <2>4. CASE hubMax[drain.table] < i
    <3>1. hub[drain.table][i] = 0
      BY <1>1, <2>1, <2>4 DEF RowsInv, HubAppends
    <3>2. mirror[drain.table][i] = 0
      BY <1>1, <3>1 DEF RowsInv, MirrorOfHub, RowsOf
    <3> QED
      BY <3>1, <3>2 DEF Has
  <2> QED
    BY <1>1, <2>1, <2>2, <2>3, <2>4
<1> QED
  BY <1>2, <1>5 DEF HasServed, Has

\* Once it is applied the mirror is complete through its mark.
LEMMA LastPageCompletes ==
  ASSUME TypeOK, RowsInv, DrainHolds, ApplyPage, drain.short
  PROVE  CompleteNext(drain.table, drain.mark)
<1>1. drain.table \in Tables /\ drain.page \in [Ids -> Times] /\ drain.cursor \in Nat
  BY DEF TypeOK, DrainStates
<1>2. /\ drain.phase = "page" /\ mirror' = Merged(drain.table, drain.page)
      /\ UNCHANGED <<hub, hubMax>>
  BY DEF ApplyPage, hubVars
<1>3. RowsOf(drain.table, drain.page)
  BY <1>1, <1>2, RowsOfRun DEF RowsInv, PageOfHub
<1>4. Grows /\ \A i \in Ids : drain.page[i] # 0 => HasNext(drain.table, i)
  BY <1>1, <1>2, <1>3, MergedGrows DEF RowsInv
<1>5. HasServed(drain.table, drain.mark)
  BY <1>2 DEF DrainHolds
<1>6. ASSUME NEW i \in Ids, hub'[drain.table][i] <= drain.mark PROVE HasNext(drain.table, i)
  <2>1. Has(drain.table, i) \/ drain.page[i] = hub[drain.table][i]
    BY <1>2, <1>5, <1>6 DEF HasServed
  <2>2. CASE Has(drain.table, i)
    BY <1>1, <1>4, <2>2 DEF Grows
  <2>3. CASE drain.page[i] = hub[drain.table][i] /\ drain.page[i] # 0
    BY <1>4, <2>3
  <2>4. CASE hub[drain.table][i] = 0
    <3>1. Has(drain.table, i)
      BY <1>1, <2>4 DEF RowsInv, MirrorOfHub, RowsOf, Has
    <3> QED
      BY <1>1, <1>4, <3>1 DEF Grows
  <2> QED
    BY <2>1, <2>2, <2>3, <2>4
<1> QED
  BY <1>6 DEF CompleteNext

LEMMA TablesKeepMarks ==
  ASSUME TypeOK, RowsInv, DrainHolds, CertificatesHold, TableStep
  PROVE  DrainHolds' /\ CertificatesHold'
<1>d. drain \in DrainStates
  BY SMTT(60) DEF TypeOK
<1>1. UNCHANGED <<hubTime, streamWM, tableWM>>
  BY DEF TableStep, OpenTable, SkipTables, ServePage, PageFails, ApplyPage, ApplyPageFails,
         CatchUp, CatchUpFails, DrainOutlived, hubVars, certVars
<1>2. StandingStep
  BY <1>1, TablesKeepRows DEF StandingStep
<1>3. CertificatesHold'
  BY <1>1, <1>2, CertificatesStay
<1>4. ASSUME NEW t \in Tables, OpenTable(t) PROVE DrainHolds'
  <2>1. /\ drain.phase = "table" /\ drain'.phase = "fetch" /\ drain'.table = t
        /\ drain'.todo = drain.todo \ {t} /\ t \in drain.todo
        /\ UNCHANGED <<drain.mark, drain.marks, drain.undrained>>
    BY <1>4, <1>d DEF OpenTable, DrainStates
  <2>2. drain'.todo \cup InHand' = drain.todo \cup InHand
    BY <2>1 DEF InHand
  <2>3. \A u \in Tables : Covered(u) => Covered(u)'
    BY <1>2, <2>1, CoveredStay
  <2>4. ~drain'.undrained =>
          \A u \in Tables \ (drain'.todo \cup InHand') : Covered(u)'
    BY <2>1, <2>2, <2>3 DEF DrainHolds, Draining, Covered
  <2> QED
    BY <1>1, <2>1, <2>4 DEF DrainHolds, Covered, InPass
<1>5. ASSUME SkipTables PROVE DrainHolds'
  <2>1. /\ drain'.phase = "table" /\ drain'.undrained
        /\ UNCHANGED <<drain.mark, drain.marks>>
    BY <1>5, <1>d DEF SkipTables, DrainStates
  <2> QED
    BY <1>1, <2>1 DEF DrainHolds, InPass
<1>6. ASSUME ServePage PROVE DrainHolds'
  <2>1. /\ drain.phase = "fetch" /\ drain'.phase = "page" /\ drain'.mark = hubTime
        /\ UNCHANGED <<drain.table, drain.todo, drain.marks, drain.undrained>>
    BY <1>6, <1>d DEF ServePage, DrainStates
  <2>2. drain'.short => HasServed(drain.table, drain.mark)'
    BY <1>6, LastPageServes
  <2>4. InHand' = InHand /\ Draining
    BY <2>1 DEF InHand, Draining
  <2>5. \A u \in Tables : Covered(u) => Covered(u)'
    BY <1>2, <2>1, CoveredStay
  <2>6. ~drain'.undrained =>
          \A u \in Tables \ (drain'.todo \cup InHand') : Covered(u)'
    BY <2>1, <2>4, <2>5 DEF DrainHolds, Covered
  <2>7. drain'.mark <= hubTime'
    BY <1>1, <2>1 DEF TypeOK, Times
  <2> QED
    BY <1>1, <2>1, <2>2, <2>6, <2>7 DEF DrainHolds, Covered, InPass
<1>7. ASSUME PageFails \/ ApplyPageFails \/ CatchUpFails \/ DrainOutlived PROVE DrainHolds'
  <2>1. Undrained
    BY <1>7 DEF PageFails, ApplyPageFails, CatchUpFails, RowsFail, DrainOutlived
  <2> QED
    BY <1>1, <1>2, <2>1, UndrainedKeepsMarks
<1>8. ASSUME ApplyPage PROVE DrainHolds'
  <2>1. /\ drain.phase = "page"
        /\ drain'.phase = IF drain.short THEN "catchup" ELSE "fetch"
        /\ UNCHANGED <<drain.table, drain.todo, drain.mark, drain.marks, drain.undrained>>
    BY <1>8, <1>d DEF ApplyPage, DrainStates
  <2>2. drain'.phase \in InPass => CompleteThrough(drain.table, drain.mark)'
    <3>1. drain.short => CompleteNext(drain.table, drain.mark)
      BY <1>8, LastPageCompletes
    <3> QED
      BY <2>1, <3>1 DEF InPass, CompleteNext, CompleteThrough, HasNext
  <2>3. InHand' = InHand /\ Draining
    BY <2>1 DEF InHand, Draining
  <2>4. \A u \in Tables : Covered(u) => Covered(u)'
    BY <1>2, <2>1, CoveredStay
  <2>5. ~drain'.undrained =>
          \A u \in Tables \ (drain'.todo \cup InHand') : Covered(u)'
    BY <2>1, <2>3, <2>4 DEF DrainHolds, Covered
  <2> QED
    BY <1>1, <2>1, <2>2, <2>5 DEF DrainHolds, Covered
<1>9. ASSUME CatchUp PROVE DrainHolds'
  <2>1. /\ drain.phase = "catchup" /\ drain'.phase = "verdict"
        /\ UNCHANGED <<drain.table, drain.todo, drain.mark, drain.marks, drain.undrained>>
    BY <1>9, <1>d DEF CatchUp, DrainStates
  <2>2. InHand' = InHand /\ Draining /\ drain.phase \in InPass
    BY <2>1 DEF InHand, Draining, InPass
  <2> QED
    BY <1>2, <2>1, <2>2, DrainMoves
<1> QED
  BY <1>3, <1>4, <1>5, <1>6, <1>7, <1>8, <1>9 DEF TableStep

\* What the oldest mark covers is covered.
LEMMA LeastBelow ==
  ASSUME NEW S \in SUBSET Nat, S # {}
  PROVE  Least(S) \in S /\ \A m \in S : Least(S) <= m
BY HasLeast DEF Least

LEMMA FullDrainCompletes ==
  ASSUME TypeOK, RowsInv, DrainHolds, CertificatesHold, CertifyFullDrain
  PROVE  CertificatesHold'
<1>1. /\ drain.phase = "table" /\ drain.todo = {} /\ ~drain.undrained /\ drain.marks # {}
      /\ streamWM' = Larger(streamWM, Least(drain.marks))
      /\ UNCHANGED <<hub, hubTime, mirror, tableWM>>
  BY DEF CertifyFullDrain, DrainClean, hubVars, tableVars
<1>2. drain.marks \in SUBSET Nat /\ hubTime \in Nat
  BY DEF TypeOK, DrainStates, Times
<1>3. /\ Least(drain.marks) \in drain.marks
      /\ \A m \in drain.marks : Least(drain.marks) <= m
  BY <1>1, <1>2, LeastBelow
<1>4. \A t \in Tables : \E m \in drain.marks : CompleteThrough(t, m)
  BY <1>1 DEF DrainHolds, Draining, InHand
<1>5. ASSUME NEW t \in Tables PROVE CompleteThrough(t, Least(drain.marks))
  <2>1. PICK m \in drain.marks : CompleteThrough(t, m)
    BY <1>4
  <2>2. ASSUME NEW i \in Ids, hub[t][i] <= Least(drain.marks) PROVE hub[t][i] <= m
    <3>1. hub[t][i] \in Nat
      BY DEF TypeOK, Times
    <3> QED
      BY <1>2, <1>3, <2>2, <3>1
  <2> QED
    BY <2>1, <2>2 DEF CompleteThrough
<1>6. Least(drain.marks) <= hubTime
  BY <1>3 DEF DrainHolds
<1>7. streamWM' <= hubTime /\ \A t \in Tables : CompleteThrough(t, streamWM')
  BY <1>1, <1>5, <1>6 DEF Larger, CertificatesHold, StreamComplete
<1> QED
  BY <1>1, <1>7 DEF CertificatesHold, StreamComplete, CompleteThrough

LEMMA VerdictKeepsMarks ==
  ASSUME TypeOK, RowsInv, DrainHolds, CertificatesHold, VerdictStep
  PROVE  DrainHolds' /\ CertificatesHold'
<1>d. drain \in DrainStates
  BY DEF TypeOK
<1>1. UNCHANGED hubTime
  BY DEF VerdictStep, QueueReplay, Replay, ReplayOverflowed, ReplayFails, CertifyTable,
         CertifyFullDrain, ScheduleRetry, hubVars
<1>2. StandingStep
  BY <1>1, VerdictKeepsRows DEF StandingStep
<1>3. ASSUME drain.phase \in {"verdict", "replay"},
             drain' = [drain EXCEPT !.phase = "replay"]
             \/ drain' = [drain EXCEPT !.phase = "landed"],
             UNCHANGED <<streamWM, tableWM>>
      PROVE  DrainHolds' /\ CertificatesHold'
  <2>1. /\ drain'.phase \in {"replay", "landed"}
        /\ UNCHANGED <<drain.table, drain.todo, drain.mark, drain.marks, drain.undrained>>
    BY <1>3, <1>d DEF DrainStates
  <2>2. InHand' = InHand /\ Draining /\ drain.phase \in InPass
    BY <1>3, <2>1 DEF InHand, Draining, InPass
  <2> QED
    BY <1>2, <1>3, <2>1, <2>2, DrainMoves, CertificatesStay
<1>4. ASSUME QueueReplay PROVE DrainHolds' /\ CertificatesHold'
  BY <1>3, <1>4 DEF QueueReplay, certVars
<1>5. ASSUME Replay PROVE DrainHolds' /\ CertificatesHold'
  <2>1. drain.phase = "replay" /\ UNCHANGED <<streamWM, tableWM>>
    BY <1>5 DEF Replay, certVars
  <2>2. drain' = [drain EXCEPT !.phase = "landed"] \/ Undrained
    BY <1>5 DEF Replay
  <2> QED
    BY <1>2, <1>3, <2>1, <2>2, UndrainedKeepsMarks
<1>6. ASSUME ReplayOverflowed \/ ReplayFails PROVE DrainHolds' /\ CertificatesHold'
  <2>1. Undrained /\ UNCHANGED <<streamWM, tableWM>>
    BY <1>6 DEF ReplayOverflowed, ReplayFails, certVars
  <2> QED
    BY <1>2, <2>1, UndrainedKeepsMarks
<1>7. ASSUME CertifyTable PROVE DrainHolds' /\ CertificatesHold'
  <2>1. /\ drain.phase \in InPass /\ drain.table \in Tables
        /\ drain'.phase = "table" /\ drain'.todo = drain.todo /\ drain'.mark = 0
        /\ drain'.marks = drain.marks \cup {drain.mark} /\ drain'.undrained = drain.undrained
        /\ tableWM' = [tableWM EXCEPT ![drain.table] = drain.mark]
        /\ UNCHANGED <<hub, hubTime, mirror, streamWM>>
    BY <1>7, <1>d
    DEF CertifyTable, TableDone, IdleDrain, InPass, DrainStates, hubVars
  <2>2. InHand = {drain.table} /\ InHand' = {} /\ Draining
    BY <2>1 DEF InHand, InPass, Draining
  <2>3. drain.mark <= hubTime /\ CompleteThrough(drain.table, drain.mark)
    BY <2>1 DEF DrainHolds
  <2>4. CertificatesHold'
    <3>1. \A t \in Tables : tableWM'[t] = IF t = drain.table THEN drain.mark ELSE tableWM[t]
      BY <2>1 DEF TypeOK
    <3>2. \A t \in Tables : tableWM'[t] <= hubTime /\ CompleteThrough(t, tableWM'[t])
      BY <2>3, <3>1 DEF CertificatesHold
    <3> QED
      BY <2>1, <3>2 DEF CertificatesHold, StreamComplete, CompleteThrough
  <2>5. ASSUME ~drain'.undrained, NEW t \in Tables \ (drain'.todo \cup InHand')
        PROVE  \E m \in drain'.marks : CompleteThrough(t, m)
    <3>1. CASE t = drain.table
      BY <2>1, <2>3, <3>1
    <3>2. CASE t # drain.table
      BY <2>1, <2>2, <2>5, <3>2 DEF DrainHolds
    <3> QED
      BY <3>1, <3>2
  <2>6. DrainHolds'
    <3>1. 0 <= hubTime
      BY DEF TypeOK, Times
    <3> QED
      BY <2>1, <2>3, <2>5, <3>1 DEF DrainHolds, CompleteThrough, InPass
  <2> QED
    BY <2>4, <2>6
<1>8. ASSUME CertifyFullDrain \/ ScheduleRetry PROVE DrainHolds'
  <2>1. drain'.phase = "idle" /\ drain'.mark = 0 /\ drain'.marks = {}
    BY <1>8 DEF CertifyFullDrain, ScheduleRetry, IdleDrain
  <2> QED
    BY <1>2, <2>1, DrainDrops
<1>9. ASSUME ScheduleRetry PROVE CertificatesHold'
  BY <1>2, <1>9, CertificatesStay DEF ScheduleRetry, certVars
<1> QED
  BY <1>4, <1>5, <1>6, <1>7, <1>8, <1>9, FullDrainCompletes DEF VerdictStep

-----------------------------------------------------------------------------
(* Epochs, marks and the price buffer.                                     *)

LEMMA HubAndFramesKeepNumbers ==
  ASSUME TypeOK, Numbers, PriceKept, HubStep \/ FrameStep
  PROVE  Numbers' /\ PriceKept'
<1> USE DEF certVars, tableVars, priceVars
<1>1. ASSUME UNCHANGED <<drain, owed, owedSeq, tableEpoch, epoch, conn, priceDrained>>,
             priceDrained => priceBuf' = priceBuf
      PROVE  Numbers' /\ PriceKept'
  BY <1>1 DEF Numbers, PriceKept, Current
<1>2. CASE HubStep
  BY ZenonT(60), <1>1, <1>2 DEF HubStep, HubInserts, HubRevises, HubChanges, HubBeats
<1>3. CASE StaleFrame \/ HandleBeat \/ ApplyRow \/ ApplyRowFails
  BY <1>1, <1>3 DEF StaleFrame, HandleBeat, ApplyRow, ApplyRowFails
<1>4. CASE BufferRow
  BY <1>1, <1>4 DEF BufferRow, Buffered
<1>5. CASE RefuseRow
  <2>1. /\ UNCHANGED <<drain, tableEpoch, epoch, conn, priceDrained, priceBuf>>
        /\ Mark(Tables)
    BY <1>5 DEF RefuseRow
  <2>2. /\ owedSeq \in Nat /\ drain.seq \in Nat
        /\ owedSeq' = owedSeq + 1 /\ \A t \in Tables : owed'[t] = owedSeq + 1
    BY <2>1 DEF Mark, TypeOK, DrainStates
  <2> QED
    BY <2>1, <2>2 DEF Numbers, PriceKept, Current
<1> QED
  BY <1>2, <1>3, <1>4, <1>5 DEF FrameStep

LEMMA SocketKeepsNumbers ==
  ASSUME TypeOK, GateInv, Numbers, PriceKept, SocketStep
  PROVE  Numbers' /\ PriceKept'
<1> USE DEF certVars, tableVars, priceVars
<1>t. /\ owedSeq \in Nat /\ drain.seq \in Nat /\ epoch \in Nat /\ drain.epoch \in Nat
      /\ \A t \in Tables : owed[t] \in Nat /\ tableEpoch[t] \in Nat
  BY DEF TypeOK, DrainStates
<1>1. ASSUME NEW S \in SUBSET Tables, Mark(S)
      PROVE  drain.seq <= owedSeq' /\ \A t \in Tables : owed'[t] <= owedSeq'
  BY <1>1, <1>t DEF Mark, Numbers
<1>2. ASSUME Connect PROVE Numbers' /\ PriceKept'
  BY <1>2 DEF Connect, Numbers, PriceKept, Current
<1>3. ASSUME ReadyArrives PROVE Numbers' /\ PriceKept'
  <2>1. /\ Mark(RepageTables) /\ RepageTables \in SUBSET Tables /\ conn' = "live"
        /\ UNCHANGED <<drain, tableEpoch, epoch, priceDrained, priceBuf>>
    BY <1>3 DEF ReadyArrives
  <2> QED
    BY <1>1, <2>1 DEF Numbers, PriceKept, Current
<1>4. ASSUME NEW forget, SocketCloses(forget) PROVE Numbers' /\ PriceKept'
  <2>1. /\ epoch' = epoch + 1 /\ priceDrained' = FALSE
        /\ UNCHANGED <<drain, tableEpoch, owed, owedSeq>>
    BY <1>4 DEF SocketCloses
  <2>2. drain'.epoch # epoch' /\ \A t \in Tables : tableEpoch'[t] < epoch'
    BY <1>t, <2>1 DEF Numbers, GateInv
  <2> QED
    BY <1>t, <2>1, <2>2 DEF Numbers, PriceKept, Current
<1>5. ASSUME DriveResync PROVE Numbers' /\ PriceKept'
  <2>1. /\ Mark(Tables) /\ conn' \in {conn, "closing"}
        /\ UNCHANGED <<drain, tableEpoch, epoch, priceDrained, priceBuf>>
    BY <1>5 DEF DriveResync
  <2> QED
    BY <1>1, <2>1 DEF Numbers, PriceKept, Current
<1> QED
  BY <1>2, <1>3, <1>4, <1>5
  DEF SocketStep, ConnectionLost, TerminatedSocketCloses, RequestResync, StallResync

LEMMA PassKeepsNumbers ==
  ASSUME ~RestWithoutStream, TypeOK, GateInv, Numbers, PriceKept, DrainStep
  PROVE  Numbers' /\ PriceKept'
<1> USE DEF linkVars, certVars, tableVars, priceVars
<1>t. /\ drain \in DrainStates /\ priceBuf \in Seq(RowFrames)
      /\ owedSeq \in Nat /\ epoch \in Nat
      /\ owed \in [Tables -> Nat] /\ tableEpoch \in [Tables -> Nat]
  BY DEF TypeOK
<1>1. ASSUME UNCHANGED <<owed, owedSeq, tableEpoch, epoch, conn>>, drain'.seq <= owedSeq
      PROVE  Numbers'
  BY <1>1 DEF Numbers
<1>2. ASSUME UNCHANGED <<tableEpoch, epoch, priceDrained>>,
             drain'.phase \notin {"replay", "landed"}, priceDrained => priceBuf' = <<>>
      PROVE  PriceKept'
  BY <1>2 DEF PriceKept
<1>3. Undrained => drain'.phase = "table" /\ drain'.seq <= owedSeq
  BY <1>t, UndrainedPass
<1>4. ASSUME RunBootCall \/ RetryFires PROVE Numbers' /\ PriceKept'
  <2>1. UNCHANGED <<owed, owedSeq, tableEpoch, epoch, conn, priceDrained, priceBuf>>
    BY <1>4 DEF RunBootCall, RetryFires
  <2>2. CASE UNCHANGED drain
    BY <2>1, <2>2 DEF Numbers, PriceKept, Current
  <2>3. CASE Begin
    <3>1. drain'.phase = "table" /\ drain'.seq = 0
      BY <2>3 DEF Begin, IdleDrain
    <3> QED
      BY <1>1, <1>2, <1>t, <2>1, <3>1 DEF PriceKept
  <2> QED
    BY <1>4, <2>2, <2>3 DEF RunBootCall, RetryFires
<1>5. ASSUME TableStep PROVE Numbers' /\ PriceKept'
  <2>1. UNCHANGED <<owed, owedSeq, tableEpoch, epoch, conn, priceDrained, priceBuf>>
    BY <1>5 DEF TableStep, OpenTable, SkipTables, ServePage, PageFails, ApplyPage,
                ApplyPageFails, CatchUp, CatchUpFails, DrainOutlived
  <2>2. drain'.phase \notin {"replay", "landed"} /\ drain'.seq <= owedSeq
    <3>1. CASE PageFails \/ ApplyPageFails \/ CatchUpFails \/ DrainOutlived
      BY <1>3, <3>1 DEF PageFails, ApplyPageFails, CatchUpFails, RowsFail, DrainOutlived
    <3>2. CASE \E t \in Tables : OpenTable(t)
      BY <1>t, <3>2 DEF OpenTable, DrainStates, Numbers
    <3>3. CASE SkipTables \/ ServePage \/ ApplyPage \/ CatchUp
      BY ZenonT(60), <1>t, <3>3 DEF SkipTables, ServePage, ApplyPage, CatchUp, DrainStates, Numbers
    <3> QED
      BY <1>5, <3>1, <3>2, <3>3 DEF TableStep
  <2> QED
    BY SMTT(60), <1>1, <1>2, <2>1, <2>2 DEF PriceKept
<1>6. ASSUME QueueReplay PROVE Numbers' /\ PriceKept'
  <2>1. /\ drain'.phase = "replay" /\ drain'.table = PriceTable /\ drain'.seq = drain.seq
        /\ UNCHANGED <<owed, owedSeq, tableEpoch, epoch, conn, priceDrained, priceBuf>>
    BY <1>6, <1>t DEF QueueReplay, DrainStates
  <2> QED
    BY <1>1, <2>1 DEF Numbers, PriceKept
<1>7. ASSUME Replay PROVE Numbers' /\ PriceKept'
  <2>1. /\ UNCHANGED <<owed, owedSeq, tableEpoch, epoch, conn>> /\ priceBuf' = <<>>
    BY <1>7 DEF Replay
  <2>2. CASE Current
    <3>1. priceDrained' = TRUE /\ drain'.phase = "landed" /\ drain'.seq = drain.seq
      BY <1>7, <1>t, <2>2 DEF Replay, DrainStates
    <3> QED
      BY <1>1, <2>1, <3>1 DEF Numbers, PriceKept
  <2>3. CASE ~Current
    BY <1>1, <1>2, <1>3, <1>7, <2>1, <2>3 DEF Replay
  <2> QED
    BY <2>2, <2>3
<1>8. ASSUME ReplayOverflowed \/ ReplayFails PROVE Numbers' /\ PriceKept'
  <2>1. /\ UNCHANGED <<owed, owedSeq, tableEpoch, epoch, conn, priceDrained>> /\ Undrained
    BY <1>8 DEF ReplayOverflowed, ReplayFails
  <2>2. priceDrained => priceBuf' = <<>>
    <3>1. CASE ReplayOverflowed
      BY <3>1 DEF ReplayOverflowed
    <3>2. CASE ReplayFails
      BY <1>t, <3>2 DEF ReplayFails, PriceKept
    <3> QED
      BY <1>8, <3>1, <3>2
  <2> QED
    BY <1>1, <1>2, <1>3, <2>1, <2>2
<1>9. ASSUME CertifyTable PROVE Numbers' /\ PriceKept'
  <2>1. /\ Current /\ drain.phase \in {"verdict", "landed"}
        /\ drain.table = PriceTable => drain.phase = "landed"
        /\ \A t \in Tables : tableEpoch'[t] = IF t = drain.table THEN epoch ELSE tableEpoch[t]
        /\ \A t \in Tables : owed'[t] \in {owed[t], 0}
        /\ UNCHANGED <<owedSeq, epoch, conn, priceDrained, priceBuf>>
        /\ drain'.phase = "table" /\ drain'.seq = 0
    BY <1>9, <1>t DEF CertifyTable, TableDone, IdleDrain
  <2>2. conn \in {"live", "closing"}
    BY <2>1 DEF GateInv, PassSubscribed
  <2>3. Numbers'
    <3>1. 0 <= owedSeq /\ epoch <= epoch
      BY <1>t
    <3>2. \A t \in Tables : owed'[t] <= owedSeq /\ tableEpoch'[t] <= epoch
      BY <2>1, <3>1 DEF Numbers
    <3>3. drain'.seq <= owedSeq
      BY <2>1, <3>1
    <3> QED
      BY <2>1, <2>2, <3>1, <3>2, <3>3 DEF Numbers
  <2>4. PriceKept'
    BY <2>1, TablesAssumption DEF PriceKept
  <2> QED
    BY <2>3, <2>4
<1>10. ASSUME CertifyFullDrain \/ ScheduleRetry PROVE Numbers' /\ PriceKept'
  <2>1. /\ UNCHANGED <<owed, owedSeq, tableEpoch, epoch, conn, priceDrained, priceBuf>>
        /\ drain'.phase = "idle" /\ drain'.seq = 0
    BY <1>10 DEF CertifyFullDrain, ScheduleRetry, IdleDrain
  <2> QED
    BY <1>1, <1>2, <1>t, <2>1 DEF PriceKept
<1> QED
  BY <1>4, <1>5, <1>6, <1>7, <1>8, <1>9, <1>10 DEF DrainStep, VerdictStep

-----------------------------------------------------------------------------
(* The beats: no step takes a missing row from where it waits, but to the  *)
(* mirror or to the next place it waits at.                                *)

Waits(t, i) == InBuffer(t, i) \/ Owing(t, i)

LEMMA GrowsMisses ==
  ASSUME Grows
  PROVE  \A t \in Tables, i \in Ids : Missing(t, i)' => Missing(t, i)
BY GrowsKeeps DEF Missing, Has, HasNext

\* A step that touches no frame.
LEMMA QuietStep ==
  ASSUME BeatsHold, NextBeatHolds, Grows, UNCHANGED <<stream, epoch>>,
         conn' = "live" => conn = "live",
         \A t \in Tables, i \in Ids : Missing(t, i)' /\ Waits(t, i) => Waits(t, i)'
  PROVE  BeatsHold' /\ NextBeatHolds'
<1>1. hub' = hub /\ \A t \in Tables, i \in Ids : Missing(t, i)' => Missing(t, i)
  BY GrowsMisses DEF Grows
<1>2. ASSUME NEW t \in Tables, NEW i \in Ids, NEW n, Missing(t, i)', Awaited(t, i, n)
      PROVE  Ahead(t, i, n)' \/ Waits(t, i)'
  BY <1>2 DEF Awaited, Waits, Ahead
<1>3. ASSUME NEW n \in 1..Len(stream), stream[n].kind = "beat", stream[n].epoch = epoch,
             NEW t \in Tables, NEW i \in Ids, Missing(t, i)', hub[t][i] <= stream[n].ts
      PROVE  Ahead(t, i, n)' \/ Waits(t, i)'
  BY <1>1, <1>2, <1>3 DEF BeatsHold
<1>4. BeatsHold'
  BY <1>1, <1>3 DEF BeatsHold, Awaited, Waits
<1>5. ASSUME conn = "live", NEW t \in Tables, NEW i \in Ids, Missing(t, i)'
      PROVE  Ahead(t, i, Len(stream) + 1)' \/ Waits(t, i)'
  BY <1>1, <1>2, <1>5 DEF NextBeatHolds
<1>6. NextBeatHolds'
  BY <1>5 DEF NextBeatHolds, Awaited, Waits
<1> QED
  BY <1>4, <1>6

\* The oldest frame is handled.
LEMMA PopStep ==
  ASSUME TypeOK, BeatsHold, NextBeatHolds, Grows, stream # <<>>, Pop, UNCHANGED <<epoch, conn>>,
         \A t \in Tables, i \in Ids :
           /\ Missing(t, i)'
           /\ \/ Waits(t, i)
              \/ /\ Head(stream).kind = "row" /\ Head(stream).epoch = epoch
                 /\ Head(stream).table = t /\ Head(stream).id = i
           => Waits(t, i)'
  PROVE  BeatsHold' /\ NextBeatHolds'
<1>1. hub' = hub /\ \A t \in Tables, i \in Ids : Missing(t, i)' => Missing(t, i)
  BY GrowsMisses DEF Grows
<1>2. /\ stream' = Tail(stream) /\ Head(stream) = stream[1]
      /\ Len(stream') = Len(stream) - 1 /\ Len(stream) \in Nat \ {0}
      /\ \A n \in 1..Len(stream') : stream'[n] = stream[n + 1]
  BY DEF Pop, TypeOK
<1>3. ASSUME NEW t \in Tables, NEW i \in Ids, NEW n \in Nat, Missing(t, i)', Ahead(t, i, n + 1)
      PROVE  Ahead(t, i, n)' \/ Waits(t, i)'
  <2>1. PICK k \in 1..Len(stream) : /\ k < n + 1
                                    /\ stream[k].kind = "row" /\ stream[k].epoch = epoch
                                    /\ stream[k].table = t /\ stream[k].id = i
    BY <1>3 DEF Ahead
  <2>2. CASE k = 1
    BY <1>2, <1>3, <2>1, <2>2
  <2>3. CASE k # 1
    <3>1. k - 1 \in 1..Len(stream') /\ k - 1 < n /\ stream'[k - 1] = stream[k]
      BY <1>2, <2>1, <2>3
    <3> QED
      BY <2>1, <3>1 DEF Ahead
  <2> QED
    BY <2>2, <2>3
<1>4. ASSUME NEW t \in Tables, NEW i \in Ids, NEW n \in Nat, Missing(t, i)', Awaited(t, i, n + 1)
      PROVE  Ahead(t, i, n)' \/ Waits(t, i)'
  BY <1>3, <1>4 DEF Awaited, Waits
<1>5. ASSUME NEW n \in 1..Len(stream'), stream'[n].kind = "beat", stream'[n].epoch = epoch,
             NEW t \in Tables, NEW i \in Ids, Missing(t, i)', hub[t][i] <= stream'[n].ts
      PROVE  Ahead(t, i, n)' \/ Waits(t, i)'
  <2>1. n + 1 \in 1..Len(stream) /\ stream'[n] = stream[n + 1] /\ n \in Nat
    BY <1>2
  <2>2. Awaited(t, i, n + 1)
    BY <1>1, <1>5, <2>1 DEF BeatsHold
  <2> QED
    BY <1>4, <1>5, <2>1, <2>2
<1>6. BeatsHold'
  BY <1>1, <1>5 DEF BeatsHold, Awaited, Waits
<1>7. ASSUME conn = "live", NEW t \in Tables, NEW i \in Ids, Missing(t, i)'
      PROVE  Ahead(t, i, Len(stream) + 1)' \/ Waits(t, i)'
  <2>1. PICK n \in Nat : n = Len(stream)
    BY <1>2
  <2>2. Awaited(t, i, n + 1)
    BY <1>1, <1>7, <2>1 DEF NextBeatHolds
  <2>3. Ahead(t, i, n)' \/ Waits(t, i)'
    BY <1>4, <1>7, <2>2
  <2>4. Len(stream') + 1 = n
    BY <1>2, <2>1
  <2> QED
    BY SMTT(60), <2>3, <2>4 DEF Ahead
<1>8. NextBeatHolds'
  BY <1>7 DEF NextBeatHolds, Awaited, Waits
<1> QED
  BY <1>6, <1>8

\* What a table owes it goes on owing, unless the pass counts or serves it.
LEMMA OwingStays ==
  ASSUME UNCHANGED <<hub, epoch>>, NEW t \in Tables, NEW i \in Ids,
         tableEpoch'[t] = tableEpoch[t], Latched => Latched',
         Counted(t)' => Counted(t),
         Served(t)' => /\ Served(t) /\ drain'.mark = drain.mark
                       /\ Spoiled(t) => Spoiled(t)',
         Owing(t, i)
  PROVE  Owing(t, i)'
BY DEF Owing

\* A pass that is not done with a table and has not its last page.
LEMMA OwingOutside ==
  ASSUME UNCHANGED <<hub, epoch>>, NEW t \in Tables, NEW i \in Ids,
         tableEpoch'[t] = tableEpoch[t], tableEpoch[t] # epoch \/ Latched',
         ~Counted(t)', ~Served(t)'
  PROVE  Owing(t, i)'
BY DEF Owing

LEMMA NotCounted ==
  ASSUME GateInv, NEW t \in Tables, tableEpoch[t] # epoch
  PROVE  ~Counted(t)
BY DEF GateInv, PassCertified, Counted

\* A frame that is sent stands behind those that travel.
LEMMA SentBehind ==
  ASSUME TypeOK, NEW f, stream' = stream \/ stream' = Append(stream, f), UNCHANGED epoch
  PROVE  /\ \A n \in 1..Len(stream') :
              \/ n \in 1..Len(stream) /\ stream'[n] = stream[n]
              \/ n = Len(stream) + 1 /\ stream'[n] = f
         /\ \A t \in Tables, i \in Ids, n, m \in Nat :
              n <= m /\ Ahead(t, i, n) => Ahead(t, i, m)'
<1>1. Len(stream) \in Nat /\ stream \in Seq(Frames)
  BY DEF TypeOK
<1>2. \A n \in 1..Len(stream) : n \in 1..Len(stream') /\ stream'[n] = stream[n]
  BY <1>1
<1>3. ASSUME NEW t \in Tables, NEW i \in Ids, NEW n \in Nat, NEW m \in Nat, n <= m,
             Ahead(t, i, n)
      PROVE  Ahead(t, i, m)'
  <2>1. PICK k \in 1..Len(stream) : /\ k < n
                                    /\ stream[k].kind = "row" /\ stream[k].epoch = epoch
                                    /\ stream[k].table = t /\ stream[k].id = i
    BY <1>3 DEF Ahead
  <2>2. k \in 1..Len(stream') /\ k < m /\ stream'[k] = stream[k]
    BY <1>1, <1>2, <1>3, <2>1
  <2> QED
    BY <2>1, <2>2 DEF Ahead
<1>4. \A n \in 1..Len(stream') : \/ n \in 1..Len(stream) /\ stream'[n] = stream[n]
                                 \/ n = Len(stream) + 1 /\ stream'[n] = f
  <2>1. CASE stream' = stream
    BY <2>1
  <2>2. CASE stream' = Append(stream, f)
    <3>1. Len(stream') = Len(stream) + 1 /\ stream'[Len(stream) + 1] = f
      BY <1>1, <2>2
    <3> QED
      BY <1>1, <1>2, <3>1
  <2> QED
    BY <2>1, <2>2
<1> QED
  BY <1>3, <1>4

LEMMA InsertionKeepsBeats ==
  ASSUME TypeOK, RowsInv, BeatsHold, NextBeatHolds, NEW t \in Tables, HubInserts(t)
  PROVE  BeatsHold' /\ NextBeatHolds'
<1> DEFINE new == hubMax[t] + 1
<1>1. new \in Ids /\ Inserted(t, new)
  BY InsertionAdds DEF RowsInv
<1>2. \/ conn = "live" /\ \E ok \in BOOLEAN :
           stream' = Append(stream, RowFrameOf(t, new, hubTime + 1, ok))
      \/ conn # "live" /\ stream' = stream
  BY InsertionAdds DEF RowsInv
<1> HIDE DEF new
<1>3. PICK ok \in BOOLEAN :
        \/ conn = "live" /\ stream' = Append(stream, RowFrameOf(t, new, hubTime + 1, ok))
        \/ conn # "live" /\ stream' = stream
  BY <1>2
<1> DEFINE f == RowFrameOf(t, new, hubTime + 1, ok)
<1>4. f.kind = "row" /\ f.epoch = epoch /\ f.table = t /\ f.id = new
  BY DEF RowFrameOf
<1>5. stream' = stream \/ stream' = Append(stream, f)
  BY <1>3
<1> HIDE DEF f
<1>6. hubTime \in Nat /\ Len(stream) \in Nat
      /\ UNCHANGED <<conn, epoch, certVars, tableVars, priceVars, drain>>
  BY <1>1 DEF Inserted, TypeOK, Times
<1>7. ASSUME NEW u \in Tables, NEW i \in Ids, u # t \/ i # new, Missing(u, i)'
      PROVE  Missing(u, i) /\ hub'[u][i] = hub[u][i] /\ (Waits(u, i) => Waits(u, i)')
  <2>1. hub'[u][i] = hub[u][i]
    BY <1>1, <1>7 DEF Inserted
  <2>2. Missing(u, i)
    BY <1>6, <1>7, <2>1 DEF Missing, Has, tableVars
  <2>3. Waits(u, i) => Waits(u, i)'
    BY <1>6, <2>1 DEF Waits, InBuffer, Owing, Counted, Served, Spoiled, Latched, Current,
                      Draining, InHand, certVars, tableVars, priceVars
  <2> QED
    BY <2>1, <2>2, <2>3
<1>8. \A u \in Tables, i \in Ids, n, m \in Nat : n <= m /\ Ahead(u, i, n) => Ahead(u, i, m)'
  BY <1>5, <1>6, SentBehind
<1>9. BeatsHold'
  <2>1. ASSUME NEW n \in 1..Len(stream'), stream'[n].kind = "beat", stream'[n].epoch = epoch,
               NEW u \in Tables, NEW i \in Ids, Missing(u, i)', hub'[u][i] <= stream'[n].ts
        PROVE  Ahead(u, i, n)' \/ Waits(u, i)'
    <3>1. n \in 1..Len(stream) /\ stream'[n] = stream[n]
      BY <1>4, <1>5, <1>6, <2>1, SentBehind
    <3>2. stream[n].ts \in Nat /\ stream[n].ts <= hubTime
      BY <2>1, <3>1, FrameFields DEF RowsInv, FramesOfHub
    <3>3. u # t \/ i # new
      BY <1>1, <1>6, <2>1, <3>1, <3>2 DEF Inserted
    <3>4. Awaited(u, i, n) /\ (Waits(u, i) => Waits(u, i)')
      BY <1>7, <2>1, <3>1, <3>3 DEF BeatsHold
    <3>5. Ahead(u, i, n) => Ahead(u, i, n)'
      <4>1. n \in Nat /\ n <= n
        BY <1>6
      <4> QED
        BY <1>8, <4>1
    <3> QED
      BY <3>4, <3>5 DEF Awaited, Waits
  <2> QED
    BY <1>6, <2>1 DEF BeatsHold, Awaited, Waits
<1>10. NextBeatHolds'
  <2>1. ASSUME conn = "live", NEW u \in Tables, NEW i \in Ids, Missing(u, i)'
        PROVE  Ahead(u, i, Len(stream) + 1)' \/ Waits(u, i)'
    <3>1. stream' = Append(stream, f) /\ stream \in Seq(Frames)
      BY <1>3, <2>1 DEF f, TypeOK
    <3>2. PICK n \in Nat : n = Len(stream)
      BY <1>6
    <3>3. Len(stream') = n + 1 /\ stream'[n + 1] = f
      BY <3>1, <3>2
    <3>4. CASE u = t /\ i = new
      BY <1>4, <1>6, <3>2, <3>3, <3>4 DEF Ahead
    <3>5. CASE u # t \/ i # new
      <4>1. Awaited(u, i, n + 1) /\ (Waits(u, i) => Waits(u, i)')
        BY <1>7, <2>1, <3>2, <3>5 DEF NextBeatHolds
      <4>2. Ahead(u, i, n + 1) => Ahead(u, i, n + 2)'
        <5>1. n + 1 \in Nat /\ n + 2 \in Nat /\ n + 1 <= n + 2
          BY <3>2
        <5> QED
          BY <1>8, <5>1
      <4>3. Ahead(u, i, n + 2)' => Ahead(u, i, Len(stream) + 1)'
        BY SMTT(60), <3>2, <3>3 DEF Ahead
      <4> QED
        BY <4>1, <4>2, <4>3 DEF Awaited, Waits
    <3> QED
      BY <3>4, <3>5
  <2> QED
    BY <1>6, <2>1 DEF NextBeatHolds, Awaited, Waits
<1> QED
  BY <1>9, <1>10

\* The hub may beat only where the next beat holds.
LEMMA BeatKeepsBeats ==
  ASSUME TypeOK, BeatsHold, NextBeatHolds, HubBeats
  PROVE  BeatsHold' /\ NextBeatHolds'
<1> DEFINE beat == [kind |-> "beat", ts |-> hubTime, epoch |-> epoch]
<1>1. /\ stream' = Append(stream, beat) /\ conn = "live" /\ stream \in Seq(Frames)
      /\ UNCHANGED <<hub, epoch, conn, mirror, certVars, tableVars, priceVars, drain>>
  BY DEF HubBeats, hubVars, tableVars, TypeOK
<1> HIDE DEF beat
<1>2. ASSUME NEW t \in Tables, NEW i \in Ids, Missing(t, i)'
      PROVE  Missing(t, i) /\ (Waits(t, i) => Waits(t, i)')
  BY <1>1, <1>2 DEF Missing, Has, Waits, InBuffer, Owing, Counted, Served, Spoiled, Latched,
                    Current, Draining, InHand, certVars, tableVars, priceVars
<1>3. PICK n \in Nat : n = Len(stream)
  BY <1>1
<1>4. Len(stream') = n + 1
  BY <1>1, <1>3
<1>5. ASSUME NEW t \in Tables, NEW i \in Ids, NEW k \in Nat, NEW m \in Nat, k <= m,
             Missing(t, i)', Awaited(t, i, k)
      PROVE  Ahead(t, i, m)' \/ Waits(t, i)'
  BY <1>1, <1>2, <1>5, SentBehind DEF Awaited, Waits
<1>6. ASSUME NEW t \in Tables, NEW i \in Ids, Missing(t, i)' PROVE Awaited(t, i, n + 1)
  BY <1>1, <1>2, <1>3, <1>6 DEF NextBeatHolds
<1>7. BeatsHold'
  <2>1. ASSUME NEW k \in 1..Len(stream'), stream'[k].kind = "beat", stream'[k].epoch = epoch,
               NEW t \in Tables, NEW i \in Ids, Missing(t, i)', hub[t][i] <= stream'[k].ts
        PROVE  Ahead(t, i, k)' \/ Waits(t, i)'
    <3>1. \/ k \in 1..Len(stream) /\ stream'[k] = stream[k]
          \/ k = n + 1
      BY <1>1, <1>3, <2>1, SentBehind
    <3>2. Awaited(t, i, k)
      BY <1>1, <1>2, <1>6, <2>1, <3>1 DEF BeatsHold
    <3> QED
      BY <1>5, <2>1, <3>2
  <2> QED
    BY <1>1, <2>1 DEF BeatsHold, Awaited, Waits
<1>8. NextBeatHolds'
  <2>1. ASSUME NEW t \in Tables, NEW i \in Ids, Missing(t, i)'
        PROVE  Ahead(t, i, Len(stream) + 1)' \/ Waits(t, i)'
    <3>1. Ahead(t, i, n + 2)' \/ Waits(t, i)'
      BY <1>5, <1>6, <2>1
    <3> QED
      BY SMTT(60), <1>4, <3>1 DEF Ahead
  <2> QED
    BY <2>1 DEF NextBeatHolds, Awaited, Waits
<1> QED
  BY <1>7, <1>8

LEMMA HubKeepsBeats ==
  ASSUME TypeOK, RowsInv, BeatsHold, NextBeatHolds, HubStep
  PROVE  BeatsHold' /\ NextBeatHolds'
BY InsertionKeepsBeats, BeatKeepsBeats, NoRevision DEF HubStep, RowsInv

\* Marks that are made while a pass runs: nothing is counted that was not, and
\* what the pass cannot settle it still cannot.
LEMMA OwingMarked ==
  ASSUME TypeOK, Numbers, NEW S \in SUBSET Tables, Mark(S),
         UNCHANGED <<hub, epoch, tableEpoch, schemaSeen, applySeen, priceOver, drain>>
  PROVE  \A t \in Tables, i \in Ids : Owing(t, i) => Owing(t, i)'
<1>1. /\ owedSeq \in Nat /\ drain.seq \in Nat
      /\ \A t \in Tables : owed[t] \in Nat /\ owed'[t] \in {owed[t], owedSeq + 1}
  BY DEF TypeOK, DrainStates, Mark
<1>2. \A t \in Tables : Counted(t)' => Counted(t)
  BY <1>1 DEF Counted, Current, Draining, InHand
<1>3. \A t \in Tables : Served(t)' => Served(t)
  BY DEF Served, Current
<1>4. ASSUME NEW t \in Tables, Spoiled(t) PROVE Spoiled(t)'
  <2>1. owedSeq + 1 # 0 /\ owedSeq + 1 # drain.seq
    BY <1>1 DEF Numbers
  <2> QED
    BY <1>1, <1>4, <2>1 DEF Spoiled
<1>5. Latched' = Latched
  BY DEF Latched
<1> QED
  BY <1>2, <1>3, <1>4, <1>5, OwingStays

LEMMA SocketKeepsBeats ==
  ASSUME ~RestWithoutStream, TypeOK, GateInv, RowsInv, Numbers, BeatsHold, NextBeatHolds,
         SocketStep
  PROVE  BeatsHold' /\ NextBeatHolds'
<1> USE DEF certVars, priceVars, tableVars, hubVars
<1>g. Grows
  BY SocketKeepsRows
<1>1. ASSUME Connect PROVE BeatsHold' /\ NextBeatHolds'
  <2>1. /\ UNCHANGED <<stream, epoch, hub, tableEpoch, schemaSeen, applySeen, owed, priceOver,
                       priceBuf, drain>>
        /\ conn' # "live"
    BY <1>1 DEF Connect
  <2>2. \A t \in Tables, i \in Ids : Waits(t, i) => Waits(t, i)'
    BY <2>1 DEF Waits, InBuffer, Owing, Counted, Served, Spoiled, Latched, Current, Draining,
                InHand
  <2> QED
    BY <1>g, <2>1, <2>2, QuietStep
<1>2. ASSUME NEW S \in SUBSET Tables, Mark(S),
             UNCHANGED <<hub, epoch, stream, tableEpoch, schemaSeen, applySeen, priceBuf,
                         priceOver, drain>>
      PROVE  \A t \in Tables, i \in Ids : Waits(t, i) => Waits(t, i)'
  BY <1>2, OwingMarked DEF Waits, InBuffer
<1>3. ASSUME ReadyArrives PROVE BeatsHold' /\ NextBeatHolds'
  <2>1. /\ Mark(RepageTables) /\ RepageTables \in SUBSET Tables
        /\ conn = "opening" /\ conn' = "live"
        /\ UNCHANGED <<hub, epoch, stream, tableEpoch, schemaSeen, applySeen, priceBuf,
                       priceOver, drain>>
    BY <1>3 DEF ReadyArrives
  <2>2. \A t \in Tables, i \in Ids : Waits(t, i) => Waits(t, i)'
    BY <1>2, <2>1
  <2>3. BeatsHold'
    <3>1. \A t \in Tables, i \in Ids : Missing(t, i)' => Missing(t, i)
      BY <1>g, GrowsMisses
    <3>2. \A t \in Tables, i \in Ids, n \in Nat : Ahead(t, i, n) => Ahead(t, i, n)'
      BY <2>1 DEF Ahead
    <3> QED
      BY <2>1, <2>2, <3>1, <3>2 DEF BeatsHold, Awaited, Waits
  <2>4. ASSUME NEW t \in Tables PROVE ~Counted(t) /\ ~Served(t) /\ tableEpoch[t] # epoch
    <3>1. tableEpoch[t] # epoch
      BY <2>1 DEF Numbers
    <3>2. ~Served(t)
      BY <2>1 DEF GateInv, PassSubscribed, Served, InPass
    <3> QED
      BY <3>1, <3>2, NotCounted
  <2>5. ASSUME NEW t \in Tables PROVE ~Counted(t)' /\ ~Served(t)'
    <3>1. owed'[t] = 0 => owed[t] = 0
      BY <2>1 DEF Mark, TypeOK
    <3> QED
      BY <2>1, <2>4, <3>1 DEF Counted, Served, Current, Draining, InHand
  <2>6. \A t \in Tables, i \in Ids : Owing(t, i)'
    BY <2>1, <2>4, <2>5, OwingOutside
  <2> QED
    BY <2>3, <2>6 DEF NextBeatHolds, Awaited
<1>4. ASSUME NEW forget, SocketCloses(forget) PROVE BeatsHold' /\ NextBeatHolds'
  <2>1. conn' = "down" /\ epoch' = epoch + 1 /\ stream' = stream /\ epoch \in Nat
    BY <1>4 DEF SocketCloses, TypeOK
  <2>2. \A n \in 1..Len(stream) : stream[n].epoch # epoch'
    BY <2>1, FrameFields DEF RowsInv, FramesOfHub
  <2> QED
    BY <2>1, <2>2 DEF BeatsHold, NextBeatHolds
<1>5. ASSUME DriveResync PROVE BeatsHold' /\ NextBeatHolds'
  <2>1. /\ Mark(Tables) /\ Tables \in SUBSET Tables
        /\ conn' = "live" => conn = "live"
        /\ UNCHANGED <<hub, epoch, stream, tableEpoch, schemaSeen, applySeen, priceBuf,
                       priceOver, drain>>
    BY <1>5 DEF DriveResync
  <2>2. \A t \in Tables, i \in Ids : Waits(t, i) => Waits(t, i)'
    BY <1>2, <2>1
  <2> QED
    BY <1>g, <2>1, <2>2, QuietStep
<1> QED
  BY <1>1, <1>3, <1>4, <1>5
  DEF SocketStep, ConnectionLost, TerminatedSocketCloses, RequestResync, StallResync

\* A refused row, and an apply that fails while no drain runs, hold every
\* watermark until a later pass has paged the table.
LEMMA FramesKeepBeats ==
  ASSUME ~FaultsDuringDrain, TypeOK, GateInv, RowsInv, Numbers, PriceKept, BeatsHold,
         NextBeatHolds, FrameStep
  PROVE  BeatsHold' /\ NextBeatHolds'
<1> USE DEF certVars, priceVars, tableVars, hubVars
<1>g. Grows
  BY FramesKeepRows
<1>1. ASSUME UNCHANGED <<hub, epoch, tableEpoch, schemaSeen, applySeen, owed, priceBuf, priceOver,
                         drain>>
      PROVE  \A t \in Tables, i \in Ids : Waits(t, i) => Waits(t, i)'
  BY <1>1 DEF Waits, InBuffer, Owing, Counted, Served, Spoiled, Latched, Current, Draining,
              InHand
<1>2. ASSUME StaleFrame \/ HandleBeat PROVE BeatsHold' /\ NextBeatHolds'
  <2>1. /\ stream # <<>> /\ Pop
        /\ ~(Head(stream).kind = "row" /\ Head(stream).epoch = epoch)
        /\ UNCHANGED <<hub, epoch, conn, tableEpoch, schemaSeen, applySeen, owed, priceBuf,
                       priceOver, drain>>
    BY <1>2 DEF StaleFrame, HandleBeat, FrameDue
  <2>2. \A t \in Tables, i \in Ids : Waits(t, i) => Waits(t, i)'
    BY <1>1, <2>1
  <2> QED
    BY <1>g, <2>1, <2>2, PopStep
<1>3. ASSUME RefuseRow PROVE BeatsHold' /\ NextBeatHolds'
  <2>1. /\ stream # <<>> /\ Pop /\ Mark(Tables) /\ schemaSeen' = TRUE
        /\ UNCHANGED <<hub, epoch, conn, tableEpoch, priceOver, drain>>
    BY <1>3 DEF RefuseRow, FrameDue
  <2>2. \A t \in Tables : owed'[t] # 0 /\ owed'[t] # drain.seq
    <3>1. owedSeq \in Nat /\ drain.seq \in Nat /\ drain.seq <= owedSeq
      BY DEF TypeOK, DrainStates, Numbers
    <3> QED
      BY <2>1, <3>1 DEF Mark
  <2>3. \A t \in Tables, i \in Ids : Owing(t, i)'
    BY <2>1, <2>2 DEF Owing, Latched, Counted, Spoiled
  <2> QED
    BY <1>g, <2>1, <2>3, PopStep DEF Waits
<1>4. ASSUME BufferRow PROVE BeatsHold' /\ NextBeatHolds'
  <2>1. /\ stream # <<>> /\ Pop /\ Head(stream).table = PriceTable /\ ~priceDrained
        /\ \/ priceBuf' = Append(priceBuf, Head(stream)) /\ priceOver' = priceOver
           \/ priceOver' = TRUE
        /\ UNCHANGED <<hub, epoch, conn, tableEpoch, schemaSeen, applySeen, owed, drain>>
    BY <1>4 DEF BufferRow, Buffered, FrameDue
  <2>2. \A t \in Tables, i \in Ids : Owing(t, i) => Owing(t, i)'
    BY <2>1 DEF Owing, Counted, Served, Spoiled, Latched, Current, Draining, InHand
  <2>3. CASE priceOver'
    <3>1. tableEpoch[PriceTable] # epoch /\ ~Counted(PriceTable)
      BY <2>1, NotCounted, TablesAssumption DEF PriceKept
    <3>2. ~Counted(PriceTable)'
      BY <2>1, <3>1 DEF Counted, Current, Draining, InHand
    <3>3. Served(PriceTable)' => Spoiled(PriceTable)'
      BY <2>1, <2>3 DEF Served, Spoiled, PriceKept, Current
    <3>4. \A i \in Ids : Owing(PriceTable, i)'
      BY <2>1, <3>1, <3>2, <3>3 DEF Owing
    <3>5. \A t \in Tables, i \in Ids : t = PriceTable \/ Owing(t, i) => Waits(t, i)'
      BY <2>2, <3>4 DEF Waits
    <3>6. \A t \in Tables, i \in Ids : InBuffer(t, i) => t = PriceTable
      BY DEF InBuffer
    <3> QED
      BY <1>g, <2>1, <3>5, <3>6, PopStep DEF Waits
  <2>4. CASE priceBuf' = Append(priceBuf, Head(stream))
    <3>1. priceBuf \in Seq(RowFrames)
      BY DEF TypeOK
    <3>2. /\ Len(priceBuf') = Len(priceBuf) + 1 /\ Len(priceBuf) \in Nat
          /\ priceBuf'[Len(priceBuf) + 1] = Head(stream)
          /\ \A k \in 1..Len(priceBuf) : priceBuf'[k] = priceBuf[k]
      BY <2>4, <3>1
    <3>3. \A i \in Ids : InBuffer(PriceTable, i) \/ Head(stream).id = i
                           => InBuffer(PriceTable, i)'
      BY <3>2 DEF InBuffer
    <3>4. \A t \in Tables, i \in Ids : InBuffer(t, i) => InBuffer(t, i)'
      BY <3>3 DEF InBuffer
    <3>5. \A t \in Tables, i \in Ids :
            Waits(t, i) \/ (Head(stream).table = t /\ Head(stream).id = i) => Waits(t, i)'
      BY <2>1, <2>2, <3>3, <3>4 DEF Waits
    <3> QED
      BY <1>g, <2>1, <3>5, PopStep
  <2> QED
    BY <2>1, <2>3, <2>4
<1>5. ASSUME ApplyRow PROVE BeatsHold' /\ NextBeatHolds'
  <2> DEFINE row == Head(stream)
  <2>1. /\ stream # <<>> /\ Pop /\ FrameDue("row")
        /\ mirror' = Merged(row.table, OneRow(row.id, row.ts))
        /\ UNCHANGED <<hub, hubMax, epoch, conn, tableEpoch, schemaSeen, applySeen, owed,
                       priceBuf, priceOver, drain>>
    BY <1>5 DEF ApplyRow, FrameDue
  <2>2. /\ row.table \in Tables /\ row.id \in Ids
        /\ OneRow(row.id, row.ts) \in [Ids -> Times]
        /\ RowsOf(row.table, OneRow(row.id, row.ts))
        /\ OneRow(row.id, row.ts)[row.id] # 0
    BY <2>1, OneRowOfHub DEF RowsInv
  <2>3. HasNext(row.table, row.id)
    BY <2>1, <2>2, MergedGrows DEF RowsInv
  <2>4. \A t \in Tables, i \in Ids :
          Head(stream).table = t /\ Head(stream).id = i => ~Missing(t, i)'
    BY <2>3 DEF Missing, Has, HasNext
  <2>5. \A t \in Tables, i \in Ids : Waits(t, i) => Waits(t, i)'
    BY <1>1, <2>1
  <2> QED
    BY <1>g, <2>1, <2>4, <2>5, PopStep
<1>6. ASSUME ApplyRowFails PROVE BeatsHold' /\ NextBeatHolds'
  <2>1. /\ stream # <<>> /\ Pop /\ ~Draining /\ applySeen' = TRUE
        /\ UNCHANGED <<hub, epoch, conn, tableEpoch, drain>>
    BY <1>6 DEF ApplyRowFails, FrameDue
  <2>2. \A t \in Tables, i \in Ids : Owing(t, i)'
    BY <2>1 DEF Owing, Latched, Counted, Served, Draining, InPass
  <2> QED
    BY <1>g, <2>1, <2>2, PopStep DEF Waits
<1> QED
  BY <1>2, <1>3, <1>4, <1>5, <1>6 DEF FrameStep

\* The pass drops the table in hand, or begins, or ends: nothing is counted or
\* served, and what the price buffer held its table still owes.
LEMMA DroppedKeepsBeats ==
  ASSUME TypeOK, GateInv, PriceKept, BeatsHold, NextBeatHolds, Grows,
         UNCHANGED <<stream, epoch, conn, tableEpoch>>, Latched => Latched',
         drain'.phase \in {"idle", "table"},
         drain'.phase = "table" => drain'.undrained \/ drain'.todo = Tables
  PROVE  BeatsHold' /\ NextBeatHolds'
<1>1. \A t \in Tables : ~Counted(t)' /\ ~Served(t)'
  BY DEF Counted, Served, Draining, InPass
<1>2. hub' = hub
  BY DEF Grows
<1>3. \A t \in Tables, i \in Ids : InBuffer(t, i) => tableEpoch[t] # epoch
  BY DEF InBuffer, PriceKept
<1>4. \A t \in Tables, i \in Ids : Owing(t, i) => tableEpoch[t] # epoch \/ Latched'
  BY DEF Owing
<1>5. \A t \in Tables, i \in Ids : Waits(t, i) => Owing(t, i)'
  BY <1>1, <1>2, <1>3, <1>4, OwingOutside DEF Waits
<1> QED
  BY <1>5, QuietStep DEF Waits

LEMMA UndrainedKeepsBeats ==
  ASSUME TypeOK, GateInv, PriceKept, BeatsHold, NextBeatHolds, Grows, Undrained,
         UNCHANGED <<stream, epoch, conn, tableEpoch>>, Latched => Latched'
  PROVE  BeatsHold' /\ NextBeatHolds'
<1>1. drain'.phase = "table" /\ drain'.undrained
  BY UndrainedPass DEF TypeOK
<1> QED
  BY <1>1, DroppedKeepsBeats

LEMMA BeginKeepsBeats ==
  ASSUME TypeOK, GateInv, RowsInv, PriceKept, BeatsHold, NextBeatHolds,
         RunBootCall \/ RetryFires
  PROVE  BeatsHold' /\ NextBeatHolds'
<1>1. UNCHANGED <<stream, epoch, conn, hub, tableEpoch, schemaSeen, applySeen, owed, priceBuf,
                  priceOver>>
  BY DEF RunBootCall, RetryFires, hubVars, linkVars, certVars, tableVars, priceVars
<1>2. Grows
  BY BeginKeepsRows
<1>3. CASE Begin
  <2>1. drain'.phase = "table" /\ drain'.todo = Tables
    BY <1>3 DEF Begin, IdleDrain
  <2> QED
    BY <1>1, <1>2, <2>1, DroppedKeepsBeats DEF Latched
<1>4. CASE UNCHANGED drain
  <2>1. \A t \in Tables, i \in Ids : Waits(t, i) => Waits(t, i)'
    BY <1>1, <1>4 DEF Waits, InBuffer, Owing, Counted, Served, Spoiled, Latched, Current,
                      Draining, InHand
  <2> QED
    BY <1>1, <1>2, <2>1, QuietStep
<1> QED
  BY <1>3, <1>4 DEF RunBootCall, RetryFires

\* The pass goes on with the table in hand, or takes up one that it counts to
\* the tables in hand.
LEMMA PassMoves ==
  ASSUME TypeOK, BeatsHold, NextBeatHolds, Grows,
         UNCHANGED <<stream, epoch, conn, tableEpoch, schemaSeen, applySeen, owed, priceOver>>,
         UNCHANGED <<drain.epoch, drain.undrained>>, Draining,
         drain.todo \cup InHand \subseteq drain'.todo \cup InHand',
         \A t \in Tables, i \in Ids :
           /\ Missing(t, i)' /\ InBuffer(t, i) => InBuffer(t, i)'
           /\ Served(t)' => \/ hub'[t][i] <= drain'.mark
                            \/ /\ Served(t) /\ UNCHANGED <<drain.mark, drain.seq>>
                               /\ drain'.phase = "landed" => ~priceOver
  PROVE  BeatsHold' /\ NextBeatHolds'
<1>1. hub' = hub
  BY DEF Grows
<1>2. ASSUME NEW t \in Tables, NEW i \in Ids, Owing(t, i) PROVE Owing(t, i)'
  <2>1. tableEpoch'[t] # epoch' \/ Latched'
    BY <1>2 DEF Owing, Latched
  <2>2. ~Counted(t)'
    BY <1>2 DEF Owing, Counted, Current
  <2>3. ASSUME Served(t)' PROVE hub'[t][i] <= drain'.mark \/ Spoiled(t)'
    <3>1. CASE hub'[t][i] <= drain'.mark
      BY <3>1
    <3>2. CASE /\ Served(t) /\ UNCHANGED <<drain.mark, drain.seq>>
               /\ drain'.phase = "landed" => ~priceOver
      <4>1. hub[t][i] <= drain.mark \/ Spoiled(t)
        BY <1>2, <3>2 DEF Owing
      <4>2. Spoiled(t) => Spoiled(t)'
        BY <3>2 DEF Spoiled
      <4> QED
        BY <1>1, <3>2, <4>1, <4>2
    <3> QED
      BY <2>3, <3>1, <3>2
  <2> QED
    BY <2>1, <2>2, <2>3 DEF Owing
<1> QED
  BY <1>2, QuietStep DEF Waits

LEMMA TablesKeepBeats ==
  ASSUME TypeOK, GateInv, RowsInv, PriceKept, BeatsHold, NextBeatHolds, TableStep
  PROVE  BeatsHold' /\ NextBeatHolds'
<1>d. drain \in DrainStates
  BY SMTT(60) DEF TypeOK
<1>1. UNCHANGED <<stream, epoch, conn, hub, hubTime, tableEpoch, schemaSeen, applySeen, owed,
                  priceBuf, priceOver>>
  BY DEF TableStep, OpenTable, SkipTables, ServePage, PageFails, ApplyPage, ApplyPageFails,
         CatchUp, CatchUpFails, DrainOutlived, hubVars, linkVars, certVars, tableVars,
         priceVars
<1>2. Grows
  BY TablesKeepRows
<1>3. \A t \in Tables, i \in Ids : InBuffer(t, i) => InBuffer(t, i)'
  BY <1>1 DEF InBuffer
<1>4. ASSUME NEW t \in Tables, OpenTable(t) PROVE BeatsHold' /\ NextBeatHolds'
  <2>1. /\ drain.phase = "table" /\ drain'.phase = "fetch" /\ drain'.table = t
        /\ drain'.todo = drain.todo \ {t} /\ t \in drain.todo
        /\ UNCHANGED <<drain.epoch, drain.undrained>>
    BY <1>4, <1>d DEF OpenTable, DrainStates
  <2>2. drain.todo \cup InHand \subseteq drain'.todo \cup InHand' /\ Draining
    BY <2>1 DEF InHand, Draining
  <2>3. \A u \in Tables : ~Served(u)'
    BY <2>1 DEF Served, InPass
  <2> QED
    BY <1>1, <1>2, <1>3, <2>1, <2>2, <2>3, PassMoves
<1>5. ASSUME SkipTables PROVE BeatsHold' /\ NextBeatHolds'
  <2>1. drain'.phase = "table" /\ drain'.undrained
    BY <1>5, <1>d DEF SkipTables, DrainStates
  <2> QED
    BY <1>1, <1>2, <2>1, DroppedKeepsBeats DEF Latched
<1>6. ASSUME ServePage PROVE BeatsHold' /\ NextBeatHolds'
  <2>1. /\ drain.phase = "fetch" /\ drain'.phase = "page" /\ drain'.mark = hubTime
        /\ UNCHANGED <<drain.epoch, drain.undrained, drain.table, drain.todo>>
    BY <1>6, <1>d DEF ServePage, DrainStates
  <2>2. InHand' = InHand /\ Draining
    BY <2>1 DEF InHand, Draining
  <2>3. \A t \in Tables, i \in Ids : hub'[t][i] <= drain'.mark
    BY <1>1, <2>1 DEF RowsInv, HubAppends
  <2> QED
    BY <1>1, <1>2, <1>3, <2>1, <2>2, <2>3, PassMoves
<1>7. ASSUME PageFails \/ ApplyPageFails \/ CatchUpFails \/ DrainOutlived
      PROVE  BeatsHold' /\ NextBeatHolds'
  <2>1. Undrained
    BY <1>7 DEF PageFails, ApplyPageFails, CatchUpFails, RowsFail, DrainOutlived
  <2> QED
    BY <1>1, <1>2, <2>1, UndrainedKeepsBeats DEF Latched
<1>8. ASSUME ApplyPage \/ CatchUp PROVE BeatsHold' /\ NextBeatHolds'
  <2>1. /\ \/ /\ drain.phase = "page"
              /\ drain'.phase = IF drain.short THEN "catchup" ELSE "fetch"
           \/ drain.phase = "catchup" /\ drain'.phase = "verdict"
        /\ UNCHANGED <<drain.epoch, drain.undrained, drain.table, drain.todo, drain.mark,
                       drain.seq>>
    BY ZenonT(60), <1>8, <1>d DEF ApplyPage, CatchUp, DrainStates
  <2>2. InHand' = InHand /\ Draining
    BY <2>1 DEF InHand, Draining
  <2>3. \A t \in Tables : Served(t)' => Served(t)
    BY <1>1, <2>1 DEF Served, InPass, Current
  <2>4. drain'.phase # "landed"
    BY <2>1
  <2> QED
    BY <1>1, <1>2, <1>3, <2>1, <2>2, <2>3, <2>4, PassMoves
<1> QED
  BY <1>4, <1>5, <1>6, <1>7, <1>8 DEF TableStep

\* A table's certificate: what it does not hold up to its mark was refused
\* since the pass opened it, and its debt stands.
LEMMA CertifiedKeepsBeats ==
  ASSUME TypeOK, RowsInv, DrainHolds, PriceKept, BeatsHold, NextBeatHolds, CertifyTable
  PROVE  BeatsHold' /\ NextBeatHolds'
<1>c. PICK c \in Tables : c = drain.table
  BY DEF TypeOK, DrainStates
<1>1. /\ drain.phase \in InPass /\ Current
      /\ c = PriceTable => drain.phase = "landed"
      /\ \A t \in Tables : tableEpoch'[t] = IF t = c THEN epoch ELSE tableEpoch[t]
      /\ \A t \in Tables : t # c \/ ~Settles(c) => owed'[t] = owed[t]
      /\ UNCHANGED <<stream, hub, epoch, conn, mirror, schemaSeen, applySeen, priceBuf,
                     priceOver>>
  BY <1>c DEF CertifyTable, InPass, TypeOK, hubVars, linkVars, priceVars
<1>2. /\ drain'.phase = "table" /\ drain'.epoch = drain.epoch /\ drain'.todo = drain.todo
      /\ drain'.undrained = drain.undrained
  BY DEF CertifyTable, TableDone, IdleDrain, TypeOK, DrainStates
<1>3. Grows
  BY VerdictKeepsRows DEF VerdictStep
<1>4. \A t \in Tables : ~Served(t)'
  BY <1>2 DEF Served, InPass
<1>5. ASSUME NEW t \in Tables, NEW i \in Ids, t # c, Waits(t, i) PROVE Waits(t, i)'
  <2>1. InHand = {c} /\ InHand' = {} /\ Draining
    BY <1>c, <1>1, <1>2 DEF InHand, InPass, Draining
  <2>2. Counted(t)' => Counted(t)
    BY <1>1, <1>2, <1>5, <2>1 DEF Counted, Current
  <2> QED
    BY <1>1, <1>4, <1>5, <2>2 DEF Waits, InBuffer, Owing, Latched
<1>6. ASSUME NEW i \in Ids, Missing(c, i)', Waits(c, i) PROVE Waits(c, i)'
  <2>1. Missing(c, i) /\ CompleteThrough(c, drain.mark)
    BY <1>c, <1>1, <1>6 DEF Missing, Has, DrainHolds
  <2>2. ~InBuffer(c, i)
    BY <1>1 DEF InBuffer, PriceKept
  <2>3. Served(c)
    BY <1>c, <1>1 DEF Served
  <2>4. ~(hub[c][i] <= drain.mark)
    BY <2>1 DEF Missing, Has, CompleteThrough
  <2>5. owed[c] # 0 /\ owed[c] # drain.seq /\ schemaSeen
    BY <1>1, <1>6, <2>2, <2>3, <2>4 DEF Waits, Owing, Spoiled
  <2>6. owed'[c] # 0 /\ schemaSeen'
    BY <1>1, <2>5 DEF Settles
  <2> QED
    BY <1>2, <1>4, <2>6 DEF Waits, Owing, Latched, Counted
<1>7. \A t \in Tables, i \in Ids : Missing(t, i)' /\ Waits(t, i) => Waits(t, i)'
  BY <1>5, <1>6
<1> QED
  BY <1>1, <1>3, <1>7, QuietStep

LEMMA VerdictKeepsBeats ==
  ASSUME TypeOK, GateInv, RowsInv, DrainHolds, PriceKept, BeatsHold, NextBeatHolds,
         VerdictStep
  PROVE  BeatsHold' /\ NextBeatHolds'
<1> USE DEF hubVars, linkVars, certVars, tableVars, priceVars
<1>d. drain \in DrainStates
  BY DEF TypeOK
<1>g. Grows
  BY VerdictKeepsRows
<1>1. ASSUME QueueReplay PROVE BeatsHold' /\ NextBeatHolds'
  <2>1. /\ drain.phase = "verdict" /\ drain'.phase = "replay"
        /\ UNCHANGED <<drain.epoch, drain.undrained, drain.table, drain.todo, drain.mark,
                       drain.seq>>
        /\ UNCHANGED <<stream, epoch, conn, tableEpoch, schemaSeen, applySeen, owed, priceOver,
                       priceBuf>>
    BY <1>1, <1>d DEF QueueReplay, DrainStates
  <2>2. InHand' = InHand /\ Draining
    BY <2>1 DEF InHand, Draining
  <2>3. \A t \in Tables : Served(t)' => Served(t)
    BY <2>1 DEF Served, InPass, Current
  <2>4. \A t \in Tables, i \in Ids : InBuffer(t, i) => InBuffer(t, i)'
    BY <2>1 DEF InBuffer
  <2> QED
    BY <1>g, <2>1, <2>2, <2>3, <2>4, PassMoves
<1>2. ASSUME Replay PROVE BeatsHold' /\ NextBeatHolds'
  <2>1. /\ drain.phase = "replay" /\ ~priceOver
        /\ mirror' = Merged(PriceTable, BufferedRows(Len(priceBuf)))
        /\ UNCHANGED <<stream, hub, hubMax, epoch, conn, tableEpoch, schemaSeen, applySeen, owed,
                       priceOver>>
    BY <1>2 DEF Replay
  <2>2. CASE Current
    <3>1. /\ drain'.phase = "landed"
          /\ UNCHANGED <<drain.epoch, drain.undrained, drain.table, drain.todo, drain.mark,
                         drain.seq>>
      BY <1>2, <1>d, <2>2 DEF Replay, DrainStates
    <3>2. InHand' = InHand /\ Draining
      BY <2>1, <3>1 DEF InHand, Draining
    <3>3. \A t \in Tables : Served(t)' => Served(t)
      BY <2>1, <3>1 DEF Served, InPass, Current
    <3>4. \A t \in Tables, i \in Ids : InBuffer(t, i) => ~Missing(t, i)'
      <4>1. Len(priceBuf) \in 0..Len(priceBuf)
        BY DEF TypeOK
      <4>2. /\ BufferedRows(Len(priceBuf)) \in [Ids -> Times]
            /\ RowsOf(PriceTable, BufferedRows(Len(priceBuf)))
            /\ \A k \in 1..Len(priceBuf) : BufferedRows(Len(priceBuf))[priceBuf[k].id] # 0
        BY <4>1, BufferedRowsOfHub DEF RowsInv
      <4>3. \A i \in Ids : BufferedRows(Len(priceBuf))[i] # 0 => HasNext(PriceTable, i)
        BY <2>1, <4>2, MergedGrows, TablesAssumption DEF RowsInv
      <4> QED
        BY <4>2, <4>3 DEF InBuffer, Missing, Has, HasNext
    <3> QED
      BY <1>g, <2>1, <3>1, <3>2, <3>3, <3>4, PassMoves
  <2>3. CASE ~Current
    BY <1>2, <1>g, <2>1, <2>3, UndrainedKeepsBeats DEF Replay, Latched
  <2> QED
    BY <2>2, <2>3
<1>3. ASSUME ReplayOverflowed \/ ReplayFails PROVE BeatsHold' /\ NextBeatHolds'
  <2>1. /\ Undrained /\ UNCHANGED <<stream, epoch, conn, tableEpoch>>
        /\ Latched => Latched'
    BY <1>3 DEF ReplayOverflowed, ReplayFails, Latched
  <2> QED
    BY <1>g, <2>1, UndrainedKeepsBeats
<1>4. ASSUME CertifyFullDrain PROVE BeatsHold' /\ NextBeatHolds'
  <2>1. /\ drain.phase = "table" /\ drain.todo = {} /\ ~drain.undrained /\ Current
        /\ OwedTables = {} /\ UNCHANGED <<stream, epoch, conn, priceBuf>>
    BY <1>4 DEF CertifyFullDrain, DrainClean
  <2>2. \A t \in Tables : Counted(t)
    BY <2>1 DEF Counted, Draining, InHand, OwedTables
  <2>3. \A t \in Tables, i \in Ids : Waits(t, i) => Waits(t, i)'
    BY <2>1, <2>2 DEF Waits, Owing, InBuffer
  <2> QED
    BY <1>g, <2>1, <2>3, QuietStep
<1>5. ASSUME ScheduleRetry PROVE BeatsHold' /\ NextBeatHolds'
  <2>1. /\ drain'.phase = "idle" /\ UNCHANGED <<stream, epoch, conn, tableEpoch>>
        /\ Latched => Latched'
    BY <1>5 DEF ScheduleRetry, IdleDrain, Latched
  <2> QED
    BY <1>g, <2>1, DroppedKeepsBeats
<1> QED
  BY <1>1, <1>2, <1>3, <1>4, <1>5, CertifiedKeepsBeats DEF VerdictStep

-----------------------------------------------------------------------------
(* The invariant, and what follows from it.                                *)

LEMMA AppendInit ==
  ASSUME OnlyAppends, Init
  PROVE  AppendInv
<1>1. RowsInv
  BY RowsInductive
<1>2. DrainHolds /\ Numbers /\ PriceKept /\ BeatsHold /\ NextBeatHolds
  BY DEF Init, DrainHolds, Numbers, PriceKept, BeatsHold, NextBeatHolds, IdleDrain, InPass,
         Draining
<1>3. CertificatesHold
  BY DEF Init, CertificatesHold, StreamComplete, CompleteThrough
<1> QED
  BY <1>1, <1>2, <1>3 DEF AppendInv

LEMMA AppendUntouched ==
  ASSUME AppendInv, UNCHANGED vars
  PROVE  AppendInv'
<1> USE DEF vars, hubVars, linkVars, certVars, tableVars, priceVars, runVars
<1>1. UNCHANGED <<hub, hubMax, hubTime, conn, epoch, stream, streamWM, tableEpoch, tableWM,
                  schemaSeen, applySeen, mirror, positions, owed, owedSeq, priceDrained,
                  priceBuf, priceOver, drain, env>>
  OBVIOUS
<1>2. RowsInv'
  BY <1>1 DEF AppendInv, RowsInv, HubAppends, MirrorOfHub, RowsOf, FramesOfHub, BufferOfHub,
              PageOfHub, Run, Prefixes, HasThrough, Has, InHand
<1>3. DrainHolds' /\ CertificatesHold'
  BY <1>1 DEF AppendInv, DrainHolds, CertificatesHold, HasServed, CompleteThrough,
              StreamComplete, Has, InHand, Draining
<1>4. Numbers' /\ PriceKept'
  BY <1>1 DEF AppendInv, Numbers, PriceKept, Current
<1>5. BeatsHold' /\ NextBeatHolds'
  BY <1>1 DEF AppendInv, BeatsHold, NextBeatHolds, Missing, Has, Awaited, Ahead, InBuffer,
              Owing, Counted, Served, Spoiled, Latched, Current, Draining, InHand
<1> QED
  BY <1>2, <1>3, <1>4, <1>5 DEF AppendInv

LEMMA AppendInductive ==
  ASSUME ~RestWithoutStream, ~FaultsDuringDrain, TypeOK, GateInv, AppendInv, [Next]_vars
  PROVE  AppendInv'
<1> USE DEF AppendInv
<1>1. ASSUME Next PROVE RowsInv'
  BY <1>1, RowsInductive
<1>2. CASE HubStep
  BY <1>1, <1>2, HubKeepsMarks, HubAndFramesKeepNumbers, HubKeepsBeats DEF Next
<1>3. CASE SocketStep
  BY <1>1, <1>3, SocketKeepsMarks, SocketKeepsNumbers, SocketKeepsBeats DEF Next
<1>4. CASE FrameStep
  BY <1>1, <1>4, FramesKeepMarks, HubAndFramesKeepNumbers, FramesKeepBeats DEF Next
<1>5. CASE DrainStep
  <2>1. Numbers' /\ PriceKept'
    BY <1>5, PassKeepsNumbers
  <2>2. CASE RunBootCall \/ RetryFires
    BY <1>1, <1>5, <2>1, <2>2, BeginKeepsMarks, BeginKeepsBeats DEF Next
  <2>3. CASE TableStep
    BY <1>1, <1>5, <2>1, <2>3, TablesKeepMarks, TablesKeepBeats DEF Next
  <2>4. CASE VerdictStep
    BY <1>1, <1>5, <2>1, <2>4, VerdictKeepsMarks, VerdictKeepsBeats DEF Next
  <2> QED
    BY <1>5, <2>2, <2>3, <2>4 DEF DrainStep
<1> QED
  BY <1>2, <1>3, <1>4, <1>5, AppendUntouched DEF Next

\* With an append-only hub the stream watermark certifies nothing the mirror
\* does not hold, whatever is lost, refused or restarted on the way: bootstrapAll
\* and the heartbeats never certify a row between them that neither delivered.
THEOREM StreamCertifiesHeldRows ==
  ASSUME ~RestWithoutStream, ~FaultsDuringDrain, OnlyAppends
  PROVE  Spec => []StreamComplete
<1>1. AppendInv => StreamComplete
  BY DEF AppendInv, CertificatesHold
<1> QED
  BY <1>1, InitTypeOK, NextType, GateInductive, AppendInit, AppendInductive, PTL DEF Spec

\* Nor does the watermark a barrier reads for one table (tableWatermark), which
\* may rest on that table's drain alone while the rest of the pass still runs.
THEOREM TableCertifiesHeldRows ==
  ASSUME ~RestWithoutStream, ~FaultsDuringDrain, OnlyAppends
  PROVE  Spec => []TableComplete
<1>1. TypeOK /\ AppendInv => TableComplete
  <2> SUFFICES ASSUME TypeOK, AppendInv, NEW t \in Tables
               PROVE  CompleteThrough(t, TableWatermark(t))
    BY DEF TableComplete
  <2>1. CompleteThrough(t, streamWM) /\ CompleteThrough(t, tableWM[t])
    BY DEF AppendInv, CertificatesHold, StreamComplete
  <2>2. CompleteThrough(t, 0)
    <3>1. ASSUME NEW i \in Ids, hub[t][i] <= 0 PROVE mirror[t][i] = hub[t][i]
      <4>1. hub[t][i] = 0
        BY <3>1, TypeFrame DEF HubTyped, Times
      <4> QED
        BY <4>1 DEF AppendInv, RowsInv, MirrorOfHub, RowsOf
    <3> QED
      BY <3>1 DEF CompleteThrough
  <2> QED
    BY <2>1, <2>2 DEF TableWatermark
<1> QED
  BY <1>1, InitTypeOK, NextType, GateInductive, AppendInit, AppendInductive, PTL DEF Spec

-----------------------------------------------------------------------------
(* The mirror implements CertifiedReplica.                                 *)

\* The hub stands still and so does the watermark: the mirror follows.
LEMMA FollowsOrStutters ==
  ASSUME TypeOK, TypeOK', RowsInv, Grows, UNCHANGED <<hubTime, streamWM>>
  PROVE  Replica!Follow
<1>1. mirror' = [t \in Tables |-> [i \in Ids |-> mirror'[t][i]]]
  BY DEF TypeOK
<1>2. ASSUME NEW t \in Tables, NEW i \in Ids
      PROVE  mirror[t][i] <= mirror'[t][i] /\ mirror'[t][i] <= hub[t][i]
  <2>1. mirror[t][i] \in Nat /\ mirror'[t][i] \in Nat /\ hub[t][i] \in Nat
    BY DEF TypeOK, Times
  <2>2. mirror[t][i] = 0 \/ mirror'[t][i] = mirror[t][i]
    BY DEF RowsInv, MirrorOfHub, RowsOf, Grows, Has, HasNext
  <2>3. mirror'[t][i] = 0 \/ mirror'[t][i] = hub[t][i]
    BY DEF MirrorOfHub, RowsOf, Grows
  <2> QED
    BY <2>1, <2>2, <2>3
<1> QED
  BY <1>1, <1>2 DEF Replica!Follow, Grows

\* The rows stand still and the watermark, if it moves, is raised to a time
\* through which they are complete.
LEMMA CertifiesOrStutters ==
  ASSUME TypeOK, TypeOK', CertificatesHold', UNCHANGED <<hub, hubTime, mirror>>,
         streamWM' >= streamWM
  PROVE  Replica!Certify \/ UNCHANGED Replica!vars
<1>1. CASE streamWM' = streamWM
  BY <1>1 DEF Replica!vars
<1>2. CASE streamWM' # streamWM
  <2>1. streamWM' > streamWM /\ streamWM' <= hubTime
    BY <1>2 DEF TypeOK, Times, CertificatesHold
  <2>2. Replica!Complete(streamWM')
    BY DEF CertificatesHold, StreamComplete, CompleteThrough, Replica!Complete
  <2> QED
    BY <2>1, <2>2 DEF Replica!Certify
<1> QED
  BY <1>1, <1>2

LEMMA StepRefines ==
  ASSUME TypeOK, TypeOK', AppendInv, AppendInv', [Next]_vars
  PROVE  [Replica!Next]_(Replica!vars)
<1> USE DEF AppendInv, hubVars, certVars, tableVars
<1>1. ASSUME NEW t \in Tables, HubInserts(t) PROVE Replica!Next
  <2>1. hubMax[t] + 1 \in Ids /\ Inserted(t, hubMax[t] + 1)
    BY <1>1, InsertionAdds DEF RowsInv
  <2>2. hub' = [hub EXCEPT ![t][hubMax[t] + 1] = hubTime + 1] /\ hubTime' = hubTime + 1
    BY <1>1 DEF HubInserts, HubChanges
  <2>3. UNCHANGED <<mirror, streamWM>>
    BY <2>1 DEF Inserted
  <2> QED
    BY <2>1, <2>2, <2>3 DEF Replica!Next, Replica!Change
<1>2. ASSUME HubBeats \/ SocketStep \/ RunBootCall \/ RetryFires
      PROVE  UNCHANGED Replica!vars
  <2>1. CASE HubBeats \/ RunBootCall \/ RetryFires
    BY <2>1 DEF HubBeats, RunBootCall, RetryFires, Replica!vars
  <2>2. CASE SocketStep
    BY <2>2 DEF SocketStep, Connect, ReadyArrives, ConnectionLost, TerminatedSocketCloses,
                RequestResync, StallResync, SocketCloses, DriveResync, Replica!vars
  <2> QED
    BY <1>2, <2>1, <2>2
<1>3. ASSUME FrameStep, ~HandleBeat PROVE Replica!Next
  <2>1. UNCHANGED <<hubTime, streamWM>>
    BY <1>3 DEF FrameStep, StaleFrame, RefuseRow, BufferRow, ApplyRow, ApplyRowFails
  <2> QED
    BY <1>3, <2>1, FramesKeepRows, FollowsOrStutters DEF Replica!Next
<1>4. ASSUME TableStep PROVE Replica!Next
  <2>1. UNCHANGED <<hubTime, streamWM>>
    BY <1>4 DEF TableStep, OpenTable, SkipTables, ServePage, PageFails, ApplyPage,
                ApplyPageFails, CatchUp, CatchUpFails, DrainOutlived
  <2> QED
    BY SMTT(60), <1>4, <2>1, TablesKeepRows, FollowsOrStutters DEF Replica!Next
<1>5. ASSUME VerdictStep, ~CertifyFullDrain PROVE Replica!Next
  <2>1. UNCHANGED <<hubTime, streamWM>>
    BY <1>5 DEF VerdictStep, QueueReplay, Replay, ReplayOverflowed, ReplayFails, CertifyTable,
                ScheduleRetry
  <2> QED
    BY <1>5, <2>1, VerdictKeepsRows, FollowsOrStutters DEF Replica!Next
<1>6. \A ts : streamWM \in Nat /\ ts \in Nat => Larger(streamWM, ts) >= streamWM
  BY DEF Larger
<1>7. ASSUME HandleBeat PROVE Replica!Next \/ UNCHANGED Replica!vars
  <2>1. Head(stream).ts \in Nat
    BY SMTT(60), <1>7, HeadType DEF HandleBeat, FrameDue, TypeOK, BeatFrames, Times
  <2>2. streamWM' >= streamWM /\ UNCHANGED <<hub, hubTime, mirror>>
    BY SMTT(60), <1>6, <1>7, <2>1 DEF HandleBeat, TypeOK, Times
  <2> QED
    BY <2>2, CertifiesOrStutters DEF Replica!Next
<1>8. ASSUME CertifyFullDrain PROVE Replica!Next \/ UNCHANGED Replica!vars
  <2>1. Least(drain.marks) \in Nat
    <3>1. drain.marks \in SUBSET Times /\ drain.marks # {}
      BY <1>8, DrainTypes DEF CertifyFullDrain, DrainClean, TypeOK
    <3> QED
      BY <3>1, LeastType DEF Times
  <2>2. streamWM' >= streamWM /\ UNCHANGED <<hub, hubTime, mirror>>
    BY <1>6, <1>8, <2>1 DEF CertifyFullDrain, TypeOK, Times
  <2> QED
    BY <2>2, CertifiesOrStutters DEF Replica!Next
<1>9. CASE UNCHANGED vars
  BY <1>9 DEF vars, Replica!vars
<1>10. CASE Next
  BY <1>1, <1>2, <1>3, <1>4, <1>5, <1>7, <1>8, <1>10, NoRevision
  DEF Next, HubStep, DrainStep, RowsInv
<1> QED
  BY <1>9, <1>10

\* With an append-only hub the mirror is what CertifiedReplica promises its
\* readers: rows only move towards the hub's, and the stream watermark is raised
\* only to a time of the hub's through which every table is complete.
THEOREM MirrorImplementsReplica ==
  ASSUME ~RestWithoutStream, ~FaultsDuringDrain, OnlyAppends
  PROVE  Spec => Refines
<1>1. Init => Replica!Init
  BY DEF Init, Replica!Init, NoRows
<1> QED
  BY <1>1, InitTypeOK, NextType, GateInductive, AppendInit, AppendInductive, StepRefines, PTL
  DEF Spec, Refines, Replica!Spec
===============================================================================
