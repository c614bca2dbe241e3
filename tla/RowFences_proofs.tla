-------------------------- MODULE RowFences_proofs --------------------------
(***************************************************************************)
(* One mirrored row, for any number of reorgs, frames and faults: its      *)
(* content and its fence move together; once all it was sent is handled it *)
(* holds what the hub shows; and it shows nothing the hub has retracted    *)
(* unless the mirror was never told.  The first needs only what feeds the  *)
(* row: every row the hub, a page or the wire carries has the effective    *)
(* time of its generation.  The other two need the order of generations,   *)
(* on the hub, on the wire and in a drain's page and verdict.              *)
(***************************************************************************)
EXTENDS RowFences, TLAPS

Held == [gen : 0..MaxGen, eff : 0..MaxGen, status : {"finalized", "retracted"}, old : BOOLEAN]
GoodRows == {NoRow} \cup {r \in Held : r.gen = r.eff}

Frames == [type : {"inserted", "deleted"}, gen : 0..MaxGen, eff : -1..MaxGen,
           fenced : BOOLEAN, signed : BOOLEAN]
GoodFrames == {f \in Frames : f.type = "inserted" => f.gen = f.eff}

Drains == [pc : {"idle", "asked", "read", "judge"}, page : GoodRows, before : GoodRows,
           covers : BOOLEAN, owed : BOOLEAN]

HubGood ==
  /\ kind \in Kinds /\ hubRow \in GoodRows
  /\ chainGen \in 0..MaxGen /\ publishedGen \in -1..MaxGen
  /\ pending \subseteq 0..MaxGen /\ left \in [Faults -> Nat]
  /\ retained \in Seq(GoodFrames)
MirrorGood ==
  /\ wire \in Seq(GoodFrames) /\ row \in GoodRows /\ drain \in Drains
  /\ connected \in BOOLEAN /\ certifiedHub \in BOOLEAN /\ drained \in BOOLEAN
GhostsGood == owed \in BOOLEAN /\ upgraded \in BOOLEAN

\* Every row and every frame in the system carries content of its generation.
GoodContent == HubGood /\ MirrorGood /\ GhostsGood

\* The inductive invariant is as strong as the two properties.
LEMMA GoodIsEnough == GoodContent => RowTypeOK /\ ContentOfGeneration
<1> SUFFICES ASSUME GoodContent PROVE RowTypeOK /\ ContentOfGeneration
  OBVIOUS
<1>1. GoodRows \subseteq Rows
  BY DEF GoodRows, Held, Rows
<1>2. drain \in [pc : {"idle", "asked", "read", "judge"}, page : Rows, before : Rows,
                 covers : BOOLEAN, owed : BOOLEAN]
  BY <1>1 DEF GoodContent, MirrorGood, Drains
<1>3. RowTypeOK
  BY <1>1, <1>2 DEF RowTypeOK, GoodContent, HubGood, MirrorGood, GhostsGood
<1>4. ContentOfGeneration
  BY DEF ContentOfGeneration, GoodContent, MirrorGood, GoodRows
<1> QED BY <1>3, <1>4

\* A budget that is spent is still a budget.
LEMMA SpendKeepsBudget ==
  ASSUME left \in [Faults -> Nat], NEW k \in Faults, Spend(k)
  PROVE  left' \in [Faults -> Nat]
  BY DEF Spend

\* A row marked as predating a drain keeps its content.
LEMMA MarkKeepsContent ==
  ASSUME NEW r \in GoodRows, r # NoRow
  PROVE  [r EXCEPT !.old = TRUE] \in GoodRows
<1>1. r \in Held /\ r.gen = r.eff
  BY DEF GoodRows
<1> QED BY <1>1 DEF GoodRows, Held

\* A row of the hub stored, or merged into the local one, keeps content and
\* fence together: whichever of the two wins, the higher fence is its own.
LEMMA UpsertKeepsContent ==
  ASSUME NEW r \in GoodRows, r # NoRow, row \in GoodRows
  PROVE  Upsert(r) \in GoodRows
<1>1. CASE row = NoRow
  BY <1>1 DEF Upsert
<1>2. CASE row # NoRow
  <2> DEFINE kept == IF Wins(row, r) THEN r ELSE row
             high == Higher(row.gen, r.gen)
  <2>1. /\ row \in Held /\ row.gen = row.eff
        /\ r \in Held /\ r.gen = r.eff
    BY <1>2 DEF GoodRows
  <2>2. kept \in Held /\ high \in 0..MaxGen
    BY <2>1 DEF Higher, Held
  <2>3. kept.eff = high
    BY <2>1 DEF Wins, Higher, Held
  <2>4. \A c \in Held, g \in 0..MaxGen, b \in BOOLEAN :
          /\ [c EXCEPT !.gen = g, !.old = b] \in Held
          /\ [c EXCEPT !.gen = g, !.old = b].gen = g
          /\ [c EXCEPT !.gen = g, !.old = b].eff = c.eff
    BY DEF Held
  <2>5. Merged(row, r) = [kept EXCEPT !.gen = high, !.old = row.old]
    BY DEF Merged
  <2>6. row.old \in BOOLEAN
    BY <2>1 DEF Held
  <2> HIDE DEF kept, high
  <2>7. /\ [kept EXCEPT !.gen = high, !.old = row.old] \in Held
        /\ [kept EXCEPT !.gen = high, !.old = row.old].gen = high
        /\ [kept EXCEPT !.gen = high, !.old = row.old].eff = kept.eff
    BY ZenonT(60), <2>2, <2>4, <2>6
  <2>8. Merged(row, r) \in Held /\ Merged(row, r).gen = Merged(row, r).eff
    BY <2>3, <2>5, <2>7, Zenon
  <2> QED BY <1>2, <2>8 DEF Upsert, GoodRows
<1> QED BY <1>1, <1>2

\* The system starts without rows or frames.
LEMMA GoodInitially == RowInit => GoodContent
<1> SUFFICES ASSUME RowInit PROVE GoodContent
  OBVIOUS
<1>1. NoRow \in GoodRows /\ <<>> \in Seq(GoodFrames)
  BY DEF GoodRows
<1>2. IdleDrain \in Drains
  BY <1>1 DEF IdleDrain, Drains
<1>3. HubGood
  BY <1>1, KindsAssumption, RowBoundsAssumption DEF RowInit, HubGood
<1>4. MirrorGood
  BY <1>1, <1>2 DEF RowInit, MirrorGood
<1>5. GhostsGood
  BY DEF RowInit, GhostsGood
<1> QED BY <1>3, <1>4, <1>5 DEF GoodContent

\* What the hub does keeps its rows and its frames good.
LEMMA HubStep ==
  ASSUME GoodContent, HubPublish \/ HubRollback \/ HubRetract \/ HubRestarts
  PROVE  GoodContent'
<1> USE RowBoundsAssumption
<1>1. CASE HubPublish
  <2>1. chainGen \in 0..MaxGen
    BY DEF GoodContent, HubGood
  <2>2. Row(chainGen, chainGen) \in GoodRows
    BY <2>1 DEF Row, GoodRows, Held
  <2>3. RowFrame(hubRow') \in GoodFrames
    BY <1>1, <2>1 DEF HubPublish, RowFrame, Row, GoodFrames, Frames
  <2>4. wire' \in Seq(GoodFrames)
    BY <1>1, <2>3 DEF HubPublish, Send, GoodContent, MirrorGood
  <2> QED BY <1>1, <2>1, <2>2, <2>4 DEF HubPublish, GoodContent, HubGood, MirrorGood, GhostsGood, ghostVars
<1>2. CASE HubRollback
  BY <1>2 DEF HubRollback, GoodContent, HubGood, MirrorGood, GhostsGood, ghostVars
<1>3. CASE HubRetract
  <2>1. PICK g \in pending, fenced \in BOOLEAN, signed \in BOOLEAN :
          /\ UNCHANGED left \/ Spend("relic")
          /\ pending' = pending \ {g}
          /\ hubRow' = IF hubRow.gen <= g THEN NoRow ELSE hubRow
          /\ wire' = Send(wire, Deletion(g, fenced, signed))
          /\ \/ retained' = Append(retained, Deletion(g, fenced, signed))
             \/ retained' = retained
          /\ owed' = (owed \/ (~connected /\ retained' = retained))
    BY <1>3 DEF HubRetract
  <2>2. Deletion(g, fenced, signed) \in GoodFrames
    BY <2>1 DEF Deletion, GoodFrames, Frames, GoodContent, HubGood
  <2> DEFINE deletion == Deletion(g, fenced, signed)
  <2> HIDE DEF deletion
  <2>a. wire \in Seq(GoodFrames) /\ retained \in Seq(GoodFrames)
    BY DEF GoodContent, HubGood, MirrorGood
  <2>b. Append(wire, deletion) \in Seq(GoodFrames) /\ Append(retained, deletion) \in Seq(GoodFrames)
    BY <2>2, <2>a DEF deletion
  <2>c. wire' \in {wire, Append(wire, deletion)} /\ retained' \in {retained, Append(retained, deletion)}
    BY <2>1 DEF Send, deletion
  <2>3. wire' \in Seq(GoodFrames) /\ retained' \in Seq(GoodFrames)
    BY <2>a, <2>b, <2>c
  <2>4. left' \in [Faults -> Nat]
    BY <2>1, SpendKeepsBudget DEF Faults, GoodContent, HubGood
  <2>5. hubRow' \in GoodRows /\ pending' \subseteq 0..MaxGen /\ owed' \in BOOLEAN
    BY <2>1 DEF GoodContent, HubGood, GoodRows
  <2> QED BY <1>3, <2>3, <2>4, <2>5 DEF HubRetract, GoodContent, HubGood, MirrorGood, GhostsGood
<1>4. CASE HubRestarts
  <2>1. left' \in [Faults -> Nat]
    BY <1>4, SpendKeepsBudget DEF HubRestarts, Faults, GoodContent, HubGood
  <2> QED BY <1>4, <2>1 DEF HubRestarts, GoodContent, HubGood, MirrorGood, GhostsGood
<1> QED BY <1>1, <1>2, <1>3, <1>4

\* A socket that opens or closes touches no row.
LEMMA SocketStep ==
  ASSUME GoodContent, Connect \/ SocketCloses \/ Restart
  PROVE  GoodContent'
<1>1. IdleDrain \in Drains
  BY DEF IdleDrain, Drains, GoodRows
<1>2. CASE Connect
  BY <1>2 DEF Connect, hubVars, ghostVars, GoodContent, HubGood, MirrorGood, GhostsGood
<1>3. ASSUME CloseSocket
      PROVE  /\ wire' \in Seq(GoodFrames) /\ drain' \in Drains
             /\ connected' \in BOOLEAN /\ drained' \in BOOLEAN
             /\ owed' \in BOOLEAN /\ upgraded' = upgraded
  <2>1. wire' \in Seq(GoodFrames) /\ drain' \in Drains
    BY <1>1, <1>3 DEF CloseSocket
  <2>2. owed' \in BOOLEAN
    BY <1>3, Zenon DEF CloseSocket
  <2> QED BY <1>3, <2>1, <2>2 DEF CloseSocket
<1>4. CASE SocketCloses
  <2>1. left' \in [Faults -> Nat]
    BY <1>4, SpendKeepsBudget DEF SocketCloses, Faults, GoodContent, HubGood
  <2> QED BY <1>3, <1>4, <2>1 DEF SocketCloses, GoodContent, HubGood, MirrorGood, GhostsGood
<1>5. CASE Restart
  <2>1. left' \in [Faults -> Nat]
    BY <1>5, SpendKeepsBudget DEF Restart, Faults, GoodContent, HubGood
  <2> QED BY <1>3, <1>5, <2>1 DEF Restart, GoodContent, HubGood, MirrorGood, GhostsGood
<1> QED BY <1>2, <1>4, <1>5

\* A frame from the wire merges a row of the hub or deletes the local one.
LEMMA FrameStep ==
  ASSUME GoodContent, HandleRow \/ HandleDeletion
  PROVE  GoodContent'
<1>1. ASSUME wire # <<>>
      PROVE  Head(wire) \in GoodFrames /\ Tail(wire) \in Seq(GoodFrames)
  BY <1>1 DEF GoodContent, MirrorGood
<1>2. CASE HandleRow
  <2> DEFINE f == Head(wire)
  <2>1. f \in GoodFrames /\ f.type = "inserted" /\ wire' \in Seq(GoodFrames)
    BY <1>1, <1>2 DEF HandleRow
  <2>2. f.gen \in 0..MaxGen /\ f.gen = f.eff
    BY <2>1 DEF GoodFrames, Frames
  <2>3. Row(f.gen, f.eff) \in GoodRows /\ Row(f.gen, f.eff) # NoRow
    BY <2>2 DEF Row, NoRow, GoodRows, Held
  <2>4. row' \in GoodRows
    BY <1>2, <2>3, UpsertKeepsContent DEF HandleRow, GoodContent, MirrorGood
  <2>5. upgraded' \in BOOLEAN
    BY <1>2 DEF HandleRow
  <2> QED BY <1>2, <2>1, <2>4, <2>5
          DEF HandleRow, hubVars, GoodContent, HubGood, MirrorGood, GhostsGood
<1>3. CASE HandleDeletion
  <2>1. wire' \in Seq(GoodFrames)
    BY <1>1, <1>3 DEF HandleDeletion
  <2>2. row' \in GoodRows
    BY <1>3 DEF HandleDeletion, GoodRows, GoodContent, MirrorGood
  <2>3. owed' \in BOOLEAN
    BY <1>3 DEF HandleDeletion
  <2> QED BY <1>3, <2>1, <2>2, <2>3
          DEF HandleDeletion, hubVars, GoodContent, HubGood, MirrorGood, GhostsGood
<1> QED BY <1>2, <1>3

\* A drain lands a row the hub served and removes or marks what is stale.
LEMMA DrainStep ==
  ASSUME GoodContent, BeginDrain \/ ServePage \/ LandPage \/ Reconcile
  PROVE  GoodContent'
<1>1. IdleDrain \in Drains /\ drain \in Drains /\ row \in GoodRows /\ owed \in BOOLEAN
  BY DEF IdleDrain, Drains, GoodRows, GoodContent, MirrorGood, GhostsGood
<1>2. CASE BeginDrain
  <2>1. left' \in [Faults -> Nat]
    BY <1>2, SpendKeepsBudget DEF BeginDrain, Faults, GoodContent, HubGood
  <2>2. row' \in GoodRows
    BY <1>1, <1>2, MarkKeepsContent DEF BeginDrain
  <2>3. drain' \in Drains
    <3>1. drain' = [pc |-> "asked", page |-> NoRow, before |-> row, covers |-> FALSE, owed |-> owed]
      BY <1>2 DEF BeginDrain, IdleDrain
    <3> QED BY <1>1, <3>1 DEF Drains, GoodRows
  <2> QED BY <1>2, <2>1, <2>2, <2>3 DEF BeginDrain, GoodContent, HubGood, MirrorGood, GhostsGood
<1>3. CASE ServePage
  <2>1. PICK covers \in BOOLEAN :
          drain' = [drain EXCEPT !.pc = "read", !.page = hubRow, !.covers = covers]
    BY <1>3 DEF ServePage
  <2>2. drain' \in Drains
    BY <1>1, <2>1 DEF Drains, GoodContent, HubGood
  <2> QED BY <1>3, <2>2 DEF ServePage, hubVars, ghostVars, GoodContent, HubGood, MirrorGood, GhostsGood
<1>4. CASE LandPage
  <2>1. drain.page \in GoodRows
    BY <1>1 DEF Drains
  <2>2. row' \in GoodRows
    BY <1>1, <1>4, <2>1, UpsertKeepsContent DEF LandPage
  <2>3. drain' \in Drains
    BY <1>1, <1>4 DEF LandPage, Drains
  <2> QED BY <1>4, <2>2, <2>3 DEF LandPage, hubVars, ghostVars, GoodContent, HubGood, MirrorGood, GhostsGood
<1>5. CASE Reconcile
  <2>1. ASSUME StaleMatch
        PROVE  [row EXCEPT !.status = "retracted"] \in GoodRows
    <3>1. row # NoRow
      BY <2>1 DEF StaleMatch, NoRow
    <3>2. row \in Held /\ row.gen = row.eff
      BY <1>1, <3>1 DEF GoodRows
    <3> QED BY <3>2 DEF GoodRows, Held
  <2>2. row' \in GoodRows
    BY <1>1, <1>5, <2>1 DEF Reconcile, GoodRows
  <2>3. certifiedHub' \in BOOLEAN /\ owed' \in BOOLEAN
    BY <1>5 DEF Reconcile
  <2> QED BY <1>1, <1>5, <2>2, <2>3
          DEF Reconcile, hubVars, GoodContent, HubGood, MirrorGood, GhostsGood
<1> QED BY <1>2, <1>3, <1>4, <1>5

\* Every step keeps the content of every row that of its generation.
LEMMA GoodStep == GoodContent /\ [RowNext]_rowVars => GoodContent'
<1> SUFFICES ASSUME GoodContent, [RowNext]_rowVars PROVE GoodContent'
  OBVIOUS
<1>1. CASE RowNext
  BY <1>1, HubStep, SocketStep, FrameStep, DrainStep DEF RowNext
<1>2. CASE UNCHANGED rowVars
  BY <1>2 DEF rowVars, hubVars, ghostVars, GoodContent, HubGood, MirrorGood, GhostsGood
<1> QED BY <1>1, <1>2

\* However pages, replayed deletions and live frames cross, the mirrored row
\* carries the content of the generation that fences it (row_upserts.js:52).
THEOREM RowKeepsItsContent == RowSpec => []ContentOfGeneration
<1>1. RowSpec => []GoodContent
  BY GoodInitially, GoodStep, PTL DEF RowSpec
<1> QED BY <1>1, GoodIsEnough, PTL

\* The variables of the mirrored row keep their types.
THEOREM RowFencesTypes == RowSpec => []RowTypeOK
<1>1. RowSpec => []GoodContent
  BY GoodInitially, GoodStep, PTL DEF RowSpec
<1> QED BY <1>1, GoodIsEnough, PTL

-----------------------------------------------------------------------------
(* No hole and no ghost.                                                   *)

\* Generations only grow: the hub's row is of the last one it was published at,
\* what it was published as before is behind it, and so is every deletion sent.
GensInOrder ==
  /\ publishedGen <= chainGen
  /\ hubRow # NoRow => hubRow = Row(publishedGen, publishedGen)
  /\ row.gen <= publishedGen /\ drain.before.gen <= publishedGen
  /\ drain.page # NoRow => drain.page.gen <= publishedGen /\ drain.page = Row(drain.page.gen, drain.page.gen)
  /\ \A g \in pending : g < chainGen
\* A deletion the hub sends is of a generation before that of a row it still has.
Ceiling == IF hubRow = NoRow THEN chainGen ELSE publishedGen
Fits(f, last, ceiling, k) ==
  IF f.type = "inserted" THEN f.gen <= last ELSE f.gen < ceiling /\ (k = "oracle" => f.fenced)
AllFit(frames, last, ceiling, k) == \A i \in DOMAIN frames : Fits(frames[i], last, ceiling, k)
AllDeleted(frames) == \A i \in DOMAIN frames : frames[i].type = "deleted"
FramesInOrder ==
  /\ AllFit(wire, publishedGen, Ceiling, kind)
  /\ AllFit(retained, publishedGen, Ceiling, kind) /\ AllDeleted(retained)
Offline == ~connected => wire = <<>> /\ ~drained /\ drain.pc = "idle"

\* A verdict, given or still to be given, is never about the hub's present row.
VerdictsBehind ==
  hubRow # NoRow =>
    /\ row.status = "retracted" => row.gen < publishedGen
    /\ Paging /\ drain.page = NoRow =>
         /\ drain.before.gen < publishedGen
         /\ kind = "oracle" /\ row.old /\ ~upgraded => row.gen < publishedGen

\* The hub's present row is held, or it is on its way.
InFlight(frames, r) == \E i \in DOMAIN frames : frames[i] = RowFrame(r)
Coming ==
  \/ drain.pc = "asked" \/ (drain.pc = "idle" /\ ~drained)
  \/ drain.pc = "read" /\ drain.page = hubRow
  \/ InFlight(wire, hubRow)
HeldOrComing ==
  connected /\ hubRow # NoRow /\ ~upgraded =>
    Coming \/ (row.status = "finalized" /\ row.gen = publishedGen)

\* The deletion that ended the last publication, ahead of nothing but deletions.
Ends(frames, i, last) ==
  /\ frames[i].type = "deleted" /\ frames[i].gen >= last
  /\ \A j \in DOMAIN frames : j > i => frames[j].type = "deleted"
EndOn(frames, last) == \E i \in DOMAIN frames : Ends(frames, i, last)
Told == EndOn(IF connected THEN wire ELSE retained, publishedGen)
\* A ghost that the drain in hand will remove, or whose debt it will restore.
Excused ==
  /\ drain.pc # "idle" /\ drain.owed
  /\ kind \in {"oracle", "match"} => drain.pc = "asked" \/ drain.page = NoRow
  /\ kind = "oracle" => row.old
  /\ kind = "match" => row.gen = drain.before.gen
GhostsTold ==
  hubRow = NoRow =>
    /\ EndOn(wire, publishedGen) \/ AllDeleted(wire)
    /\ drain.pc = "read" /\ drain.page # NoRow => EndOn(wire, publishedGen) \/ owed
    /\ row.status = "finalized" => Told \/ owed \/ Excused

\* What the types say of the generations.
LEMMA Generations ==
  ASSUME GoodContent
  PROVE  /\ chainGen \in Nat /\ publishedGen \in Int /\ publishedGen >= -1 /\ pending \subseteq Nat
         /\ row \in GoodRows /\ row.gen \in Int /\ row.gen >= -1 /\ (row = NoRow <=> row.gen = -1)
         /\ hubRow \in GoodRows /\ drain.page \in GoodRows /\ drain.before \in GoodRows
         /\ drain.page.gen \in Int /\ drain.before.gen \in Int
         /\ wire \in Seq(GoodFrames) /\ retained \in Seq(GoodFrames)
         /\ \A i \in DOMAIN wire : wire[i] \in GoodFrames
         /\ \A i \in DOMAIN retained : retained[i] \in GoodFrames
<1>1. \A r \in GoodRows : r.gen \in Int /\ r.gen >= -1 /\ (r = NoRow <=> r.gen = -1)
  BY RowBoundsAssumption DEF GoodRows, Held, NoRow
<1>2. /\ row \in GoodRows /\ hubRow \in GoodRows /\ drain.page \in GoodRows /\ drain.before \in GoodRows
      /\ wire \in Seq(GoodFrames) /\ retained \in Seq(GoodFrames)
  BY DEF GoodContent, HubGood, MirrorGood, Drains
<1>3. chainGen \in Nat /\ publishedGen \in Int /\ publishedGen >= -1 /\ pending \subseteq Nat
  BY RowBoundsAssumption DEF GoodContent, HubGood
<1>4. \A f \in Seq(GoodFrames) : \A i \in DOMAIN f : f[i] \in GoodFrames
  OBVIOUS
<1> QED
  BY <1>1, <1>2, <1>3, <1>4

\* A frame of the wire: a row frame carries the content of its generation.
LEMMA FrameFields ==
  ASSUME NEW f \in GoodFrames
  PROVE  f.gen \in Nat /\ f.type \in {"inserted", "deleted"}
         /\ (f.type = "inserted" => f.eff = f.gen /\ f.gen \in 0..MaxGen)
BY RowBoundsAssumption DEF GoodFrames, Frames

\* What is left on a socket when its first frame has been handled.
LEMMA TailOf ==
  ASSUME NEW frames \in Seq(GoodFrames), frames # <<>>
  PROVE  /\ Tail(frames) \in Seq(GoodFrames) /\ Head(frames) = frames[1] /\ 1 \in DOMAIN frames
         /\ \A i \in DOMAIN Tail(frames) : i + 1 \in DOMAIN frames /\ Tail(frames)[i] = frames[i + 1]
         /\ \A i \in DOMAIN frames : i # 1 => i - 1 \in DOMAIN Tail(frames) /\ Tail(frames)[i - 1] = frames[i]
         /\ \A i \in DOMAIN frames : i \in Nat
         /\ \A i \in DOMAIN Tail(frames) : i \in Nat
OBVIOUS

LEMMA AppendTo ==
  ASSUME NEW frames \in Seq(GoodFrames), NEW f \in GoodFrames
  PROVE  /\ Append(frames, f) \in Seq(GoodFrames)
         /\ \A i \in DOMAIN frames : i \in DOMAIN Append(frames, f) /\ Append(frames, f)[i] = frames[i]
         /\ Len(frames) + 1 \in DOMAIN Append(frames, f) /\ Append(frames, f)[Len(frames) + 1] = f
         /\ \A i \in DOMAIN Append(frames, f) :
              i \in Nat /\ i <= Len(frames) + 1 /\ (i # Len(frames) + 1 => i \in DOMAIN frames)
OBVIOUS

\* A delivered row raises the fence of the local one and makes it valid, unless
\* the local one has it beaten.
LEMMA UpsertGen ==
  ASSUME NEW g \in 0..MaxGen, row \in GoodRows
  PROVE  LET u == Upsert(Row(g, g)) IN
         /\ u # NoRow /\ u.gen = Higher(row.gen, g) /\ u.old = row.old
         /\ g > row.gen \/ row.status = "finalized" => u.status = "finalized"
         /\ u.status \in {"finalized", row.status}
<1> USE RowBoundsAssumption
<1>1. CASE row = NoRow
  BY <1>1 DEF Upsert, Row, NoRow, Higher
<1>2. CASE row # NoRow
  <2> DEFINE r == Row(g, g)
             kept == IF Wins(row, r) THEN r ELSE row
             u == [kept EXCEPT !.gen = Higher(row.gen, g), !.old = row.old]
  <2>1. row \in Held /\ row.gen = row.eff
    BY <1>2 DEF GoodRows
  <2>2. r \in Held /\ r.gen = g /\ r.eff = g /\ r.status = "finalized"
    BY DEF Row, Held
  <2>3. Upsert(r) = u
    BY <1>2, <2>2 DEF Upsert, Merged
  <2>4. kept \in Held /\ kept.status \in {"finalized", row.status}
    BY <2>1, <2>2
  <2>5. g > row.gen \/ row.status = "finalized" => kept.status = "finalized"
    BY <2>1, <2>2 DEF Wins, Held
  <2>6. Higher(row.gen, g) \in 0..MaxGen /\ row.old \in BOOLEAN
    BY <2>1 DEF Higher, Held
  <2> HIDE DEF kept
  <2>7. u.gen = Higher(row.gen, g) /\ u.old = row.old /\ u.status = kept.status
    BY <2>4, <2>6 DEF Held
  <2> HIDE DEF u
  <2>8. u # NoRow
    <3>1. NoRow.gen = -1
      BY DEF NoRow
    <3> QED
      BY <2>6, <2>7, <3>1
  <2> QED
    BY <2>3, <2>4, <2>5, <2>7, <2>8
<1> QED
  BY <1>1, <1>2

\* Frames that are in order stay so as generations grow, as frames are appended
\* and as the first is handled.
LEMMA FitLater ==
  ASSUME NEW frames \in Seq(GoodFrames), NEW last \in Int, NEW later \in Int,
         NEW ceiling \in Int, NEW higher \in Int, NEW k, last <= later, ceiling <= higher,
         AllFit(frames, last, ceiling, k)
  PROVE  AllFit(frames, later, higher, k)
<1>1. ASSUME NEW i \in DOMAIN frames PROVE Fits(frames[i], later, higher, k)
  <2>1. Fits(frames[i], last, ceiling, k) /\ frames[i] \in GoodFrames
    BY DEF AllFit
  <2>2. frames[i].gen \in Nat
    BY <2>1, FrameFields
  <2> QED
    BY <2>1, <2>2 DEF Fits
<1> QED
  BY <1>1 DEF AllFit

LEMMA FitOneMore ==
  ASSUME NEW frames \in Seq(GoodFrames), NEW f \in GoodFrames, NEW last, NEW ceiling, NEW k,
         AllFit(frames, last, ceiling, k), Fits(f, last, ceiling, k)
  PROVE  AllFit(Append(frames, f), last, ceiling, k)
<1>1. ASSUME NEW i \in DOMAIN Append(frames, f) PROVE Fits(Append(frames, f)[i], last, ceiling, k)
  BY AppendTo DEF AllFit
<1> QED
  BY <1>1 DEF AllFit

LEMMA FitTail ==
  ASSUME NEW frames \in Seq(GoodFrames), frames # <<>>, NEW last, NEW ceiling, NEW k,
         AllFit(frames, last, ceiling, k)
  PROVE  AllFit(Tail(frames), last, ceiling, k) /\ Fits(Head(frames), last, ceiling, k)
<1>1. ASSUME NEW i \in DOMAIN Tail(frames) PROVE Fits(Tail(frames)[i], last, ceiling, k)
  BY TailOf DEF AllFit
<1>2. Fits(Head(frames), last, ceiling, k)
  BY TailOf DEF AllFit
<1> QED
  BY <1>1, <1>2 DEF AllFit

\* What both proofs below rest on.
InOrder == GensInOrder /\ FramesInOrder /\ Offline

LEMMA InOrderInitially == RowInit => InOrder
BY DEF RowInit, InOrder, GensInOrder, FramesInOrder, AllFit, AllDeleted, Offline, NoRow, IdleDrain

LEMMA CeilingIsGen ==
  ASSUME GoodContent, GensInOrder
  PROVE  Ceiling \in Int /\ publishedGen <= Ceiling /\ Ceiling <= chainGen
BY Generations DEF Ceiling, GensInOrder

\* What a publication and a deletion put on the socket.
LEMMA PublishedFrame ==
  ASSUME NEW g \in 0..MaxGen
  PROVE  /\ RowFrame(Row(g, g)) \in GoodFrames /\ RowFrame(Row(g, g)).type = "inserted"
         /\ RowFrame(Row(g, g)).gen = g /\ RowFrame(Row(g, g)).eff = g
         /\ Row(g, g) # NoRow /\ Row(g, g).gen = g /\ Row(g, g).status = "finalized"
BY RowBoundsAssumption DEF RowFrame, Row, GoodFrames, Frames, NoRow

LEMMA DeletionFrame ==
  ASSUME NEW g \in 0..MaxGen, NEW fenced \in BOOLEAN, NEW signed \in BOOLEAN
  PROVE  /\ Deletion(g, fenced, signed) \in GoodFrames
         /\ Deletion(g, fenced, signed).type = "deleted" /\ Deletion(g, fenced, signed).gen = g
         /\ (fenced => Deletion(g, fenced, signed).fenced)
<1>1. -1 \in -1..MaxGen
  BY RowBoundsAssumption
<1> QED
  BY <1>1 DEF Deletion, GoodFrames, Frames

\* A retraction in the words the proofs use.
LEMMA RetractionIs ==
  ASSUME GoodContent, InOrder, HubRetract
  PROVE  \E g \in pending, d \in GoodFrames :
           /\ d.type = "deleted" /\ d.gen = g /\ (kind = "oracle" => d.fenced)
           /\ g \in Nat /\ g < chainGen
           /\ \/ hubRow' = NoRow /\ hubRow.gen <= g
              \/ hubRow' = hubRow /\ hubRow # NoRow /\ g < publishedGen
           /\ wire' = IF connected THEN Append(wire, d) ELSE wire
           /\ \/ retained' = Append(retained, d) /\ owed' = owed
              \/ retained' = retained /\ owed' = (owed \/ ~connected)
           /\ pending' \subseteq pending
           /\ UNCHANGED <<kind, chainGen, publishedGen, connected, row, certifiedHub,
                          drained, drain, upgraded>>
<1>1. PICK g \in pending, fenced \in BOOLEAN, signed \in BOOLEAN :
        /\ QuorumClass \/ fenced
        /\ pending' = pending \ {g}
        /\ hubRow' = IF hubRow.gen <= g THEN NoRow ELSE hubRow
        /\ wire' = Send(wire, Deletion(g, fenced, signed))
        /\ \/ retained' = Append(retained, Deletion(g, fenced, signed))
           \/ retained' = retained
        /\ owed' = (owed \/ (~connected /\ retained' = retained))
  BY DEF HubRetract
<1>2. PICK d : d = Deletion(g, fenced, signed)
  OBVIOUS
<1>3. g \in 0..MaxGen /\ g \in Nat /\ g < chainGen
  BY Generations DEF GoodContent, HubGood, InOrder, GensInOrder
<1>4. d \in GoodFrames /\ d.type = "deleted" /\ d.gen = g /\ (kind = "oracle" => d.fenced)
  BY <1>1, <1>2, <1>3, DeletionFrame DEF QuorumClass
<1>5. \/ hubRow' = NoRow /\ hubRow.gen <= g
      \/ hubRow' = hubRow /\ hubRow # NoRow /\ g < publishedGen
  <2>1. hubRow # NoRow => hubRow.gen = publishedGen
    BY DEF InOrder, GensInOrder, Row
  <2>2. NoRow.gen <= g
    BY <1>3 DEF NoRow
  <2> QED
    BY <1>1, <1>3, <2>1, <2>2, Generations
<1>6. /\ wire' = IF connected THEN Append(wire, d) ELSE wire
      /\ retained' = Append(retained, d) \/ retained' = retained
  BY <1>1, <1>2 DEF Send
<1>7. retained' = Append(retained, d) => retained' # retained
  <2>1. retained \in Seq(GoodFrames)
    BY Generations
  <2>2. Len(Append(retained, d)) = Len(retained) + 1 /\ Len(retained) \in Nat
    BY <2>1
  <2> QED
    BY <2>2
<1>8. UNCHANGED <<kind, chainGen, publishedGen, connected, row, certifiedHub,
                  drained, drain, upgraded>>
  BY DEF HubRetract
<1>9. owed \in BOOLEAN
  BY DEF GoodContent, GhostsGood
<1>10. \/ retained' = Append(retained, d) /\ owed' = owed
       \/ retained' = retained /\ owed' = (owed \/ ~connected)
  BY <1>1, <1>6, <1>7, <1>9
<1> QED
  BY <1>1, <1>3, <1>4, <1>5, <1>6, <1>8, <1>10

\* The hub publishes ahead of all it published and retracts behind it.
LEMMA HubInOrder ==
  ASSUME GoodContent, InOrder, HubPublish \/ HubRollback \/ HubRetract \/ HubRestarts
  PROVE  InOrder'
<1>1. /\ kind' = kind /\ connected' = connected /\ row' = row /\ drain' = drain /\ drained' = drained
  BY DEF HubPublish, HubRollback, HubRetract, HubRestarts
<1>2. /\ Ceiling \in Int /\ publishedGen <= Ceiling /\ Ceiling <= chainGen
      /\ publishedGen \in Int /\ chainGen \in Int
      /\ AllFit(wire, publishedGen, Ceiling, kind) /\ AllFit(retained, publishedGen, Ceiling, kind)
      /\ AllDeleted(retained)
  BY CeilingIsGen, Generations DEF InOrder, FramesInOrder
<1>3. CASE HubPublish
  <2>1. /\ publishedGen' = chainGen /\ chainGen' = chainGen /\ hubRow' = Row(chainGen, chainGen)
        /\ pending' = pending /\ retained' = retained /\ publishedGen < chainGen
        /\ wire' = IF connected THEN Append(wire, RowFrame(hubRow')) ELSE wire
    BY <1>3 DEF HubPublish, Send
  <2>2. GensInOrder'
    BY SMTT(60), <1>1, <2>1, Generations DEF InOrder, GensInOrder
  <2>3. chainGen \in 0..MaxGen
    BY DEF GoodContent, HubGood
  <2>4. Ceiling' = chainGen
    BY <2>1, <2>3, PublishedFrame DEF Ceiling
  <2>5. PICK f \in GoodFrames : f = RowFrame(hubRow') /\ f.type = "inserted" /\ f.gen = chainGen
    BY <2>1, <2>3, PublishedFrame
  <2>6. AllFit(wire, chainGen, chainGen, kind) /\ AllFit(retained, chainGen, chainGen, kind)
    BY <1>2, <2>1, Generations, FitLater
  <2>7. Fits(f, chainGen, chainGen, kind)
    BY <1>2, <2>5 DEF Fits
  <2>8. AllFit(wire', chainGen, chainGen, kind)
    BY <2>1, <2>5, <2>6, <2>7, Generations, FitOneMore
  <2>9. FramesInOrder'
    BY <1>1, <1>2, <2>1, <2>4, <2>6, <2>8 DEF FramesInOrder, AllFit, AllDeleted
  <2>10. Offline'
    BY <1>1, <2>1 DEF InOrder, Offline
  <2> QED
    BY <2>2, <2>9, <2>10 DEF InOrder
<1>4. CASE HubRollback
  <2>1. /\ UNCHANGED <<publishedGen, hubRow, wire, retained>>
        /\ chainGen' = chainGen + 1 /\ pending' = pending \cup {chainGen}
    BY <1>4 DEF HubRollback
  <2>2. GensInOrder'
    BY <1>1, <2>1, Generations DEF InOrder, GensInOrder
  <2>3. Ceiling' \in Int /\ Ceiling <= Ceiling'
    BY <1>2, <2>1 DEF Ceiling
  <2>4. AllFit(wire, publishedGen, Ceiling', kind) /\ AllFit(retained, publishedGen, Ceiling', kind)
    BY <1>2, <2>3, Generations, FitLater
  <2>5. FramesInOrder'
    BY <1>1, <1>2, <2>1, <2>4 DEF FramesInOrder, AllFit, AllDeleted
  <2> QED
    BY <1>1, <2>1, <2>2, <2>5 DEF InOrder, Offline
<1>5. CASE HubRetract
  <2>1. PICK g \in pending, d \in GoodFrames :
           /\ d.type = "deleted" /\ d.gen = g /\ (kind = "oracle" => d.fenced)
           /\ g \in Nat /\ g < chainGen
           /\ \/ hubRow' = NoRow /\ hubRow.gen <= g
              \/ hubRow' = hubRow /\ hubRow # NoRow /\ g < publishedGen
           /\ wire' = IF connected THEN Append(wire, d) ELSE wire
           /\ retained' = Append(retained, d) \/ retained' = retained
           /\ pending' \subseteq pending
    BY <1>5, RetractionIs
  <2>2. chainGen' = chainGen /\ publishedGen' = publishedGen
    BY <1>5 DEF HubRetract
  <2>3. GensInOrder'
    BY <1>1, <2>1, <2>2 DEF InOrder, GensInOrder
  <2>4. Ceiling' \in Int /\ Ceiling <= Ceiling' /\ g < Ceiling'
    BY <1>2, <2>1, <2>2 DEF Ceiling
  <2>5. AllFit(wire, publishedGen, Ceiling', kind) /\ AllFit(retained, publishedGen, Ceiling', kind)
    BY <1>2, <2>4, Generations, FitLater
  <2>6. Fits(d, publishedGen, Ceiling', kind)
    BY <2>1, <2>4 DEF Fits
  <2>7. AllFit(wire', publishedGen, Ceiling', kind) /\ AllFit(retained', publishedGen, Ceiling', kind)
    BY <2>1, <2>5, <2>6, Generations, FitOneMore
  <2>8. AllDeleted(retained')
    <3>1. AllDeleted(Append(retained, d))
      <4> SUFFICES ASSUME NEW i \in DOMAIN Append(retained, d) PROVE Append(retained, d)[i].type = "deleted"
        BY DEF AllDeleted
      <4> QED
        BY SMTT(60), <1>2, <2>1, Generations, AppendTo DEF AllDeleted
    <3> QED
      BY <1>2, <2>1, <3>1
  <2>9. FramesInOrder'
    BY <1>1, <2>2, <2>7, <2>8 DEF FramesInOrder, AllFit, AllDeleted
  <2>10. Offline'
    BY <1>1, <2>1 DEF InOrder, Offline
  <2> QED
    BY <2>3, <2>9, <2>10 DEF InOrder
<1>6. CASE HubRestarts
  <2>1. /\ UNCHANGED <<publishedGen, hubRow, wire, chainGen, pending>> /\ retained' = <<>>
    BY <1>6 DEF HubRestarts
  <2>2. FramesInOrder'
    BY <1>1, <2>1 DEF InOrder, FramesInOrder, AllFit, AllDeleted, Ceiling
  <2> QED
    BY <1>1, <2>1, <2>2 DEF InOrder, GensInOrder, Offline
<1> QED
  BY <1>3, <1>4, <1>5, <1>6

\* A new socket starts with the deletions the hub kept, which are in order.
LEMMA SocketInOrder ==
  ASSUME GoodContent, InOrder, Connect \/ SocketCloses \/ Restart
  PROVE  InOrder'
<1>1. UNCHANGED <<kind, hubRow, chainGen, publishedGen, pending, retained, row>>
  BY DEF Connect, SocketCloses, Restart, hubVars
<1>2. wire' = retained \/ wire' = <<>>
  BY DEF Connect, SocketCloses, Restart, CloseSocket
<1>3. FramesInOrder'
  BY <1>1, <1>2 DEF InOrder, FramesInOrder, AllFit, AllDeleted, Ceiling
<1>4. CASE Connect
  BY <1>1, <1>3, <1>4 DEF Connect, InOrder, GensInOrder, Offline
<1>5. CASE SocketCloses \/ Restart
  <2>1. /\ wire' = <<>> /\ drained' = FALSE /\ drain' = IdleDrain /\ connected' = FALSE
    BY <1>5 DEF SocketCloses, Restart, CloseSocket
  <2>2. publishedGen \in Int /\ -1 <= publishedGen
    BY Generations
  <2>3. GensInOrder'
    BY <1>1, <2>1, <2>2 DEF InOrder, GensInOrder, IdleDrain, NoRow
  <2> QED
    BY <1>3, <2>1, <2>3 DEF InOrder, Offline, IdleDrain
<1> QED
  BY <1>4, <1>5

\* A frame handled, in the words the proofs use.
LEMMA FirstFrame ==
  ASSUME GoodContent, InOrder, HandleRow \/ HandleDeletion
  PROVE  \E f \in GoodFrames :
           /\ wire # <<>> /\ f = Head(wire) /\ f = wire[1] /\ 1 \in DOMAIN wire /\ wire' = Tail(wire)
           /\ Fits(f, publishedGen, Ceiling, kind)
           /\ HandleRow => /\ f.type = "inserted" /\ f.gen = f.eff /\ f.gen \in 0..MaxGen
                           /\ f.gen <= publishedGen /\ row' = Upsert(Row(f.gen, f.gen))
                           /\ row' # NoRow /\ row'.gen = Higher(row.gen, f.gen) /\ row'.old = row.old
                           /\ f.gen > row.gen \/ row.status = "finalized" => row'.status = "finalized"
                           /\ row'.status \in {"finalized", row.status}
           /\ HandleDeletion => /\ f.type = "deleted"
                                /\ row' = IF Accepted(f) /\ Deletes(f) THEN NoRow ELSE row
                                /\ kind = "oracle" => f.fenced
           /\ UNCHANGED <<kind, hubRow, chainGen, publishedGen, pending, retained, connected,
                          drained, drain, certifiedHub>>
<1>1. wire # <<>> /\ wire' = Tail(wire) /\ wire \in Seq(GoodFrames)
  BY Generations DEF HandleRow, HandleDeletion
<1>2. PICK f : f = Head(wire)
  OBVIOUS
<1>3. f \in GoodFrames /\ f = wire[1] /\ 1 \in DOMAIN wire
  BY <1>1, <1>2, TailOf, Generations
<1>4. Fits(f, publishedGen, Ceiling, kind)
  BY <1>1, <1>2, FitTail DEF InOrder, FramesInOrder
<1>5. ASSUME HandleRow
      PROVE  /\ f.type = "inserted" /\ f.gen = f.eff /\ f.gen \in 0..MaxGen
             /\ f.gen <= publishedGen /\ row' = Upsert(Row(f.gen, f.gen))
             /\ row' # NoRow /\ row'.gen = Higher(row.gen, f.gen) /\ row'.old = row.old
             /\ f.gen > row.gen \/ row.status = "finalized" => row'.status = "finalized"
             /\ row'.status \in {"finalized", row.status}
  <2>1. f.type = "inserted" /\ row' = Upsert(Row(f.gen, f.eff))
    BY <1>2, <1>5 DEF HandleRow
  <2>2. f.gen = f.eff /\ f.gen \in 0..MaxGen /\ f.gen <= publishedGen
    BY <1>3, <1>4, <2>1, FrameFields DEF Fits
  <2> QED
    BY <2>1, <2>2, Generations, UpsertGen
<1>6. ASSUME HandleDeletion
      PROVE  /\ f.type = "deleted"
             /\ row' = IF Accepted(f) /\ Deletes(f) THEN NoRow ELSE row
             /\ kind = "oracle" => f.fenced
  <2>1. f.type = "deleted" /\ row' = IF Accepted(f) /\ Deletes(f) THEN NoRow ELSE row
    BY <1>2, <1>6 DEF HandleDeletion
  <2> QED
    BY <1>4, <2>1 DEF Fits
<1>7. UNCHANGED <<kind, hubRow, chainGen, publishedGen, pending, retained, connected,
                  drained, drain, certifiedHub>>
  BY DEF HandleRow, HandleDeletion, hubVars
<1> QED
  BY <1>1, <1>2, <1>3, <1>4, <1>5, <1>6, <1>7

\* Frames leave the wire in order; the row goes no further than the hub went.
LEMMA FrameInOrder ==
  ASSUME GoodContent, InOrder, HandleRow \/ HandleDeletion
  PROVE  InOrder'
<1>1. PICK f \in GoodFrames :
        /\ wire # <<>> /\ wire' = Tail(wire)
        /\ HandleRow => f.gen <= publishedGen /\ row'.gen = Higher(row.gen, f.gen)
        /\ HandleDeletion => row' = IF Accepted(f) /\ Deletes(f) THEN NoRow ELSE row
        /\ UNCHANGED <<kind, hubRow, chainGen, publishedGen, pending, retained, connected,
                       drained, drain>>
  BY FirstFrame
<1>2. AllFit(wire', publishedGen, Ceiling, kind)
  BY <1>1, Generations, FitTail DEF InOrder, FramesInOrder
<1>3. FramesInOrder'
  BY <1>1, <1>2 DEF InOrder, FramesInOrder, AllFit, AllDeleted, Ceiling
<1>4. row'.gen <= publishedGen
  <2>1. CASE HandleDeletion
    BY <1>1, <2>1, Generations DEF InOrder, GensInOrder, NoRow
  <2>2. CASE HandleRow
    BY <1>1, <2>2 DEF InOrder, GensInOrder, Higher
  <2> QED
    BY <2>1, <2>2
<1>5. GensInOrder'
  BY <1>1, <1>4 DEF InOrder, GensInOrder
<1>6. Offline'
  BY <1>1 DEF InOrder, Offline
<1> QED
  BY <1>3, <1>5, <1>6 DEF InOrder

\* A page is the hub's row when it was served: valid, and of its own generation.
LEMMA PageIsRow ==
  ASSUME GoodContent, InOrder, drain.page # NoRow
  PROVE  /\ drain.page = Row(drain.page.gen, drain.page.gen)
         /\ drain.page.gen \in 0..MaxGen /\ drain.page.gen <= publishedGen
<1>1. drain.page \in Held
  BY Generations DEF GoodRows
<1> QED
  BY <1>1 DEF Held, InOrder, GensInOrder

\* A page landed, and a verdict carried out.
LEMMA LandedRow ==
  ASSUME GoodContent, InOrder, LandPage, drain.page # NoRow
  PROVE  /\ row' # NoRow /\ row'.gen = Higher(row.gen, drain.page.gen) /\ row'.old = row.old
         /\ drain.page.gen > row.gen \/ row.status = "finalized" => row'.status = "finalized"
         /\ row'.status \in {"finalized", row.status}
<1>1. PICK g \in 0..MaxGen : g = drain.page.gen /\ drain.page = Row(g, g)
  BY PageIsRow
<1>2. row' = Upsert(Row(g, g))
  BY <1>1 DEF LandPage
<1> QED
  BY <1>1, <1>2, Generations, UpsertGen

LEMMA MarkedRow ==
  ASSUME NEW r \in GoodRows, r # NoRow
  PROVE  /\ [r EXCEPT !.old = TRUE].gen = r.gen /\ [r EXCEPT !.old = TRUE].status = r.status
         /\ [r EXCEPT !.old = TRUE].old = TRUE /\ [r EXCEPT !.status = "retracted"].gen = r.gen
         /\ [r EXCEPT !.status = "retracted"].status = "retracted"
         /\ [r EXCEPT !.status = "retracted"].old = r.old
BY DEF GoodRows, Held

\* What each step of a drain does to the drain and the row.
LEMMA DrainOf ==
  ASSUME GoodContent, BeginDrain \/ ServePage \/ LandPage \/ Reconcile
  PROVE  /\ BeginDrain => /\ drain'.pc = "asked" /\ drain'.page = NoRow /\ drain'.before = row
                          /\ drain'.owed = owed /\ connected /\ drain.pc = "idle"
                          /\ row'.gen = row.gen /\ row'.status = row.status
                          /\ (row # NoRow => row'.old)
         /\ ServePage => /\ drain.pc = "asked" /\ drain'.pc = "read" /\ drain'.page = hubRow
                         /\ drain'.before = drain.before /\ drain'.owed = drain.owed
                         /\ row' = row
         /\ LandPage => /\ drain.pc = "read" /\ drain'.pc = "judge" /\ drain'.page = drain.page
                        /\ drain'.before = drain.before /\ drain'.owed = drain.owed
                        /\ (drain.page = NoRow => row' = row)
         /\ Reconcile => /\ drain.pc = "judge" /\ drain' = IdleDrain /\ drained' = TRUE
                         /\ row'.gen = row.gen \/ (row' = NoRow /\ StaleOracle)
<1>1. drain \in Drains /\ drain = [pc |-> drain.pc, page |-> drain.page, before |-> drain.before,
                                   covers |-> drain.covers, owed |-> drain.owed]
  BY DEF GoodContent, MirrorGood, Drains
<1>2. ASSUME BeginDrain
      PROVE  /\ drain'.pc = "asked" /\ drain'.page = NoRow /\ drain'.before = row
             /\ drain'.owed = owed /\ connected /\ drain.pc = "idle"
             /\ row'.gen = row.gen /\ row'.status = row.status
             /\ (row # NoRow => row'.old)
  BY <1>2, Generations, MarkedRow DEF BeginDrain, IdleDrain
<1>3. ASSUME ServePage
      PROVE  /\ drain.pc = "asked" /\ drain'.pc = "read" /\ drain'.page = hubRow
             /\ drain'.before = drain.before /\ drain'.owed = drain.owed
             /\ row' = row
  BY <1>1, <1>3 DEF ServePage
<1>4. ASSUME LandPage
      PROVE  /\ drain.pc = "read" /\ drain'.pc = "judge" /\ drain'.page = drain.page
             /\ drain'.before = drain.before /\ drain'.owed = drain.owed
             /\ (drain.page = NoRow => row' = row)
  BY <1>1, <1>4 DEF LandPage
<1>5. ASSUME Reconcile
      PROVE  /\ drain.pc = "judge" /\ drain' = IdleDrain /\ drained' = TRUE
             /\ row'.gen = row.gen \/ (row' = NoRow /\ StaleOracle)
  <2>1. StaleMatch => row # NoRow
    BY DEF StaleMatch, NoRow
  <2> QED
    BY <1>5, <2>1, Generations, MarkedRow DEF Reconcile
<1> QED
  BY <1>2, <1>3, <1>4, <1>5

\* A drain lands a row the hub had.
LEMMA DrainInOrder ==
  ASSUME GoodContent, InOrder, BeginDrain \/ ServePage \/ LandPage \/ Reconcile
  PROVE  InOrder'
<1>1. UNCHANGED <<kind, hubRow, chainGen, publishedGen, pending, retained, connected, wire>>
  BY DEF BeginDrain, ServePage, LandPage, Reconcile, hubVars
<1>2. FramesInOrder'
  BY <1>1 DEF InOrder, FramesInOrder, AllFit, AllDeleted, Ceiling
<1>3. connected /\ Offline'
  <2>1. connected
    BY DrainOf DEF InOrder, Offline
  <2> QED
    BY <1>1, <2>1 DEF Offline
<1>4. publishedGen \in Int /\ -1 <= publishedGen /\ NoRow.gen = -1
  BY Generations DEF NoRow
<1>5. row'.gen <= publishedGen /\ drain'.before.gen <= publishedGen
  <2>1. CASE BeginDrain \/ ServePage
    BY <2>1, DrainOf DEF InOrder, GensInOrder
  <2>2. CASE LandPage /\ drain.page # NoRow
    BY <2>2, DrainOf, LandedRow, PageIsRow, Generations DEF InOrder, GensInOrder, Higher
  <2>3. CASE LandPage /\ drain.page = NoRow
    BY <2>3, DrainOf DEF InOrder, GensInOrder
  <2>4. CASE Reconcile
    BY <1>4, <2>4, DrainOf DEF InOrder, GensInOrder, IdleDrain
  <2> QED
    BY <2>1, <2>2, <2>3, <2>4
<1>6. drain'.page # NoRow => drain'.page.gen <= publishedGen /\ drain'.page = Row(drain'.page.gen, drain'.page.gen)
  <2>1. hubRow # NoRow => hubRow.gen <= publishedGen /\ hubRow = Row(hubRow.gen, hubRow.gen)
    <3>1. \A g \in Int : Row(g, g).gen = g
      BY DEF Row
    <3> QED
      BY <1>4, <3>1 DEF InOrder, GensInOrder
  <2>2. drain'.page \in {NoRow, hubRow, drain.page}
    <3>1. IdleDrain.page = NoRow
      BY DEF IdleDrain
    <3> QED
      BY <3>1, DrainOf, Zenon
  <2> QED
    BY <2>1, <2>2 DEF InOrder, GensInOrder
<1>7. GensInOrder'
  BY <1>1, <1>5, <1>6 DEF InOrder, GensInOrder
<1> QED
  BY <1>2, <1>3, <1>7 DEF InOrder

LEMMA StepInOrder ==
  ASSUME GoodContent, InOrder, [RowNext]_rowVars
  PROVE  InOrder'
<1>1. CASE RowNext
  BY <1>1, HubInOrder, SocketInOrder, FrameInOrder, DrainInOrder DEF RowNext
<1>2. CASE UNCHANGED rowVars
  BY <1>2 DEF rowVars, hubVars, InOrder, GensInOrder, FramesInOrder, AllFit, AllDeleted, Ceiling, Offline
<1> QED
  BY <1>1, <1>2

\* A row on the wire stays there until it is the first frame.
LEMMA InFlightMore ==
  ASSUME NEW frames \in Seq(GoodFrames), NEW f \in GoodFrames, NEW r
  PROVE  /\ InFlight(frames, r) => InFlight(Append(frames, f), r)
         /\ f = RowFrame(r) => InFlight(Append(frames, f), r)
BY AppendTo DEF InFlight

LEMMA InFlightTail ==
  ASSUME NEW frames \in Seq(GoodFrames), frames # <<>>, NEW r, InFlight(frames, r)
  PROVE  InFlight(Tail(frames), r) \/ Head(frames) = RowFrame(r)
<1>1. PICK i \in DOMAIN frames : frames[i] = RowFrame(r)
  BY DEF InFlight
<1>2. CASE i = 1
  BY <1>1, <1>2, TailOf
<1>3. CASE i # 1
  <2>1. i - 1 \in DOMAIN Tail(frames) /\ Tail(frames)[i - 1] = RowFrame(r)
    BY <1>1, <1>3, TailOf
  <2> QED
    BY <2>1 DEF InFlight
<1> QED
  BY <1>2, <1>3

\* The hub's present row, once delivered or held, comes out of a merge valid;
\* a verdict that stood still is about an earlier one.
LEMMA MergesHeld ==
  ASSUME GoodContent, InOrder, VerdictsBehind, hubRow # NoRow,
         NEW g \in 0..MaxGen, g <= publishedGen, row' = Upsert(Row(g, g))
  PROVE  /\ row'.status = "retracted" => row'.gen < publishedGen
         /\ (row.status = "finalized" /\ row.gen = publishedGen) \/ g = publishedGen =>
              row'.status = "finalized" /\ row'.gen = publishedGen
<1>1. /\ row'.gen = Higher(row.gen, g)
      /\ g > row.gen \/ row.status = "finalized" => row'.status = "finalized"
      /\ row'.status \in {"finalized", row.status}
  BY UpsertGen, Generations
<1>2. row.gen \in Int /\ row.gen <= publishedGen /\ publishedGen \in Int /\ g \in Nat
  BY Generations, RowBoundsAssumption DEF InOrder, GensInOrder
<1>3. row.status = "retracted" => row.gen < publishedGen
  BY DEF VerdictsBehind
<1>4. row.gen = -1 \/ row.status \in {"finalized", "retracted"}
  BY Generations DEF GoodRows, Held, NoRow
<1>5. row'.status = "retracted" => row'.gen < publishedGen
  BY <1>1, <1>2, <1>3 DEF Higher
<1>6. ASSUME row.status = "finalized" /\ row.gen = publishedGen
      PROVE  row'.status = "finalized" /\ row'.gen = publishedGen
  BY <1>1, <1>2, <1>6 DEF Higher
<1>7. ASSUME g = publishedGen
      PROVE  row'.status = "finalized" /\ row'.gen = publishedGen
  BY <1>1, <1>2, <1>3, <1>4, <1>7 DEF Higher
<1> QED
  BY <1>5, <1>6, <1>7

\* No row is lost: what the hub shows is held or on its way.
Holds == VerdictsBehind /\ HeldOrComing

\* A publication goes on the wire; a retraction takes the row off the hub.
LEMMA HubHolds ==
  ASSUME GoodContent, InOrder, Holds, HubPublish \/ HubRollback \/ HubRetract \/ HubRestarts
  PROVE  Holds'
<1>1. UNCHANGED <<kind, connected, row, drain, drained, upgraded>>
  BY DEF HubPublish, HubRollback, HubRetract, HubRestarts, ghostVars
<1>2. CASE HubPublish
  <2>1. /\ publishedGen' = chainGen /\ publishedGen < chainGen /\ chainGen \in 0..MaxGen
        /\ hubRow' = Row(chainGen, chainGen)
        /\ wire' = IF connected THEN Append(wire, RowFrame(hubRow')) ELSE wire
    BY <1>2 DEF HubPublish, Send, GoodContent, HubGood
  <2>2. row.gen < publishedGen' /\ drain.before.gen < publishedGen'
    BY SMTT(60), <2>1, Generations DEF InOrder, GensInOrder
  <2>3. VerdictsBehind'
    BY <1>1, <2>2 DEF VerdictsBehind
  <2>4. ASSUME connected PROVE InFlight(wire', hubRow')
    <3>1. PICK f \in GoodFrames : f = RowFrame(hubRow')
      BY <2>1, PublishedFrame
    <3> QED
      BY <2>1, <2>4, <3>1, Generations, InFlightMore
  <2> QED
    BY <1>1, <2>3, <2>4 DEF Holds, HeldOrComing, Coming
<1>3. CASE HubRollback \/ HubRestarts
  <2>1. UNCHANGED <<publishedGen, hubRow, wire>>
    BY <1>3 DEF HubRollback, HubRestarts
  <2> QED
    BY <1>1, <2>1 DEF Holds, VerdictsBehind, HeldOrComing, Coming, InFlight, Paging
<1>4. CASE HubRetract
  <2>1. PICK d \in GoodFrames :
          /\ hubRow' = NoRow \/ hubRow' = hubRow
          /\ wire' = IF connected THEN Append(wire, d) ELSE wire
          /\ publishedGen' = publishedGen
    BY <1>4, RetractionIs
  <2>2. CASE hubRow' = NoRow
    BY <2>2 DEF Holds, VerdictsBehind, HeldOrComing
  <2>3. CASE hubRow' = hubRow
    <3>1. VerdictsBehind'
      BY <1>1, <2>1, <2>3 DEF Holds, VerdictsBehind, Paging
    <3>2. InFlight(wire, hubRow) => InFlight(wire', hubRow)
      BY <2>1, Generations, InFlightMore
    <3>3. HeldOrComing'
      BY <1>1, <2>1, <2>3, <3>2 DEF Holds, HeldOrComing, Coming
    <3> QED
      BY <3>1, <3>3 DEF Holds
  <2> QED
    BY <2>1, <2>2, <2>3
<1> QED
  BY <1>2, <1>3, <1>4

\* A new socket is followed by a drain, which will bring the row.
LEMMA SocketHolds ==
  ASSUME GoodContent, InOrder, Holds, Connect \/ SocketCloses \/ Restart
  PROVE  Holds'
<1>1. UNCHANGED <<kind, hubRow, publishedGen, row, upgraded>>
  BY DEF Connect, SocketCloses, Restart, CloseSocket, hubVars, ghostVars
<1>2. CASE Connect
  <2>1. ~connected /\ UNCHANGED <<drain, drained>>
    BY <1>2 DEF Connect
  <2>2. drain.pc = "idle" /\ ~drained
    BY <2>1 DEF InOrder, Offline
  <2> QED
    BY <1>1, <2>1, <2>2 DEF Holds, VerdictsBehind, HeldOrComing, Coming, Paging
<1>3. CASE SocketCloses \/ Restart
  <2>1. drain'.pc = "idle" /\ connected' = FALSE
    BY <1>3 DEF SocketCloses, Restart, CloseSocket, IdleDrain
  <2> QED
    BY <1>1, <2>1 DEF Holds, VerdictsBehind, HeldOrComing, Paging
<1> QED
  BY <1>2, <1>3

\* Of the frames, only a deletion takes a row away: its fence is behind the hub's.
LEMMA FrameHolds ==
  ASSUME GoodContent, InOrder, Holds, HandleRow \/ HandleDeletion
  PROVE  Holds'
<1>1. PICK f \in GoodFrames :
        /\ wire # <<>> /\ f = Head(wire) /\ wire' = Tail(wire)
        /\ Fits(f, publishedGen, Ceiling, kind)
        /\ HandleRow => /\ f.type = "inserted" /\ f.gen = f.eff /\ f.gen \in 0..MaxGen
                        /\ f.gen <= publishedGen /\ row' = Upsert(Row(f.gen, f.gen))
                        /\ row'.old = row.old
        /\ HandleDeletion => /\ f.type = "deleted"
                             /\ row' = IF Accepted(f) /\ Deletes(f) THEN NoRow ELSE row
        /\ UNCHANGED <<kind, hubRow, publishedGen, connected, drained, drain>>
  BY FirstFrame
<1>2. SUFFICES ASSUME hubRow # NoRow PROVE Holds'
  BY <1>1 DEF Holds, VerdictsBehind, HeldOrComing
<1>3. InFlight(wire, hubRow) => InFlight(wire', hubRow) \/ f = RowFrame(hubRow)
  BY <1>1, Generations, InFlightTail
<1>4. /\ hubRow = Row(publishedGen, publishedGen) /\ publishedGen \in Int
      /\ RowFrame(hubRow).type = "inserted" /\ RowFrame(hubRow).gen = publishedGen
  BY <1>2, Generations DEF InOrder, GensInOrder, Row, RowFrame
<1>5. CASE HandleRow
  <2>1. /\ row'.status = "retracted" => row'.gen < publishedGen
        /\ (row.status = "finalized" /\ row.gen = publishedGen) \/ f.gen = publishedGen =>
              row'.status = "finalized" /\ row'.gen = publishedGen
    BY <1>1, <1>2, <1>5, MergesHeld DEF Holds
  <2>2. upgraded' = (upgraded \/ (kind = "oracle" /\ Paging /\ row.old /\ drain.page = NoRow))
    BY <1>5 DEF HandleRow
  <2>3. VerdictsBehind'
    <3>1. Paging' = Paging /\ row'.old = row.old /\ drain' = drain
      BY <1>1, <1>5 DEF Paging
    <3>2. ASSUME Paging, drain.page = NoRow
          PROVE  drain.before.gen < publishedGen /\ ~(kind = "oracle" /\ row.old /\ ~upgraded')
      BY <1>2, <2>2, <3>2 DEF Holds, VerdictsBehind
    <3> QED
      BY <1>1, <2>1, <3>1, <3>2 DEF VerdictsBehind
  <2>4. HeldOrComing'
    BY <1>1, <1>2, <1>3, <1>4, <2>1, <2>2 DEF Holds, HeldOrComing, Coming
  <2> QED
    BY <2>3, <2>4 DEF Holds
<1>6. CASE HandleDeletion
  <2>1. upgraded' = upgraded
    BY <1>6 DEF HandleDeletion
  <2>2. row' = NoRow \/ row' = row
    BY <1>1, <1>6
  <2>3. VerdictsBehind'
    BY <1>1, <1>2, <2>1, <2>2 DEF Holds, VerdictsBehind, Paging, NoRow
  <2>4. row.gen = publishedGen => row' = row
    <3>1. f.gen < publishedGen /\ (kind = "oracle" => f.fenced) /\ f.gen \in Nat
      BY <1>1, <1>2, <1>6, FrameFields DEF Fits, Ceiling
    <3>2. kind \in Tables
      BY KindsAssumption DEF GoodContent, HubGood
    <3>3. Accepted(f) => f.fenced
      BY <3>1, <3>2 DEF Accepted, QuorumClass, Tables
    <3> QED
      BY <1>1, <1>4, <1>6, <3>1, <3>3 DEF Deletes
  <2>5. InFlight(wire, hubRow) => InFlight(wire', hubRow)
    BY <1>1, <1>3, <1>4, <1>6
  <2>6. HeldOrComing'
    BY <1>1, <1>2, <2>1, <2>4, <2>5 DEF Holds, HeldOrComing, Coming
  <2> QED
    BY <2>3, <2>6 DEF Holds
<1> QED
  BY <1>5, <1>6

\* The verdict of a drain takes no row the hub still shows.
LEMMA NoVerdict ==
  ASSUME GoodContent, InOrder, Holds, Reconcile, hubRow # NoRow
  PROVE  /\ row'.status = "retracted" => row'.gen < publishedGen
         /\ row.status = "finalized" /\ row.gen = publishedGen /\ ~upgraded => row' = row
<1>1. publishedGen \in Int /\ row \in GoodRows /\ drain.before \in GoodRows /\ row.gen \in Int
  BY Generations
<1>2. drain.pc = "judge" /\ Paging
  BY DEF Reconcile, Paging
<1>3. StaleOracle /\ ~upgraded => row.gen < publishedGen
  BY <1>2 DEF StaleOracle, Holds, VerdictsBehind
<1>4. ASSUME StaleMatch
      PROVE  row.gen < publishedGen /\ [row EXCEPT !.status = "retracted"].gen = row.gen
  <2>1. drain.page = NoRow /\ drain.before # NoRow /\ row.eff = drain.before.eff /\ row # NoRow
    BY <1>4 DEF StaleMatch, NoRow
  <2>2. drain.before.gen < publishedGen
    BY <1>2, <2>1 DEF Holds, VerdictsBehind
  <2>3. row.eff = row.gen /\ drain.before.eff = drain.before.gen
    BY <1>1, <2>1 DEF GoodRows
  <2> QED
    BY <1>1, <2>1, <2>2, <2>3, MarkedRow
<1>5. \/ row' = NoRow /\ StaleOracle
      \/ row' = [row EXCEPT !.status = "retracted"] /\ StaleMatch
      \/ row' = row
  BY DEF Reconcile
<1>6. row.status = "retracted" => row.gen < publishedGen
  BY DEF Holds, VerdictsBehind
<1>7. NoRow.status # "retracted"
  BY DEF NoRow
<1>8. CASE row' = NoRow /\ StaleOracle
  BY <1>1, <1>3, <1>7, <1>8
<1>9. CASE row' = [row EXCEPT !.status = "retracted"] /\ StaleMatch
  <2>1. row'.gen = row.gen /\ row.gen < publishedGen
    BY <1>4, <1>9, Zenon
  <2> QED
    BY <1>1, <2>1
<1>10. CASE row' = row
  BY <1>6, <1>10
<1> QED
  BY <1>5, <1>8, <1>9, <1>10

\* A page brings the row; a page without it was read before it was published.
LEMMA DrainHolds ==
  ASSUME GoodContent, InOrder, Holds, BeginDrain \/ ServePage \/ LandPage \/ Reconcile
  PROVE  Holds'
<1>1. UNCHANGED <<kind, hubRow, publishedGen, connected, wire>>
  BY DEF BeginDrain, ServePage, LandPage, Reconcile, hubVars
<1>2. SUFFICES ASSUME hubRow # NoRow PROVE Holds'
  BY <1>1 DEF Holds, VerdictsBehind, HeldOrComing
<1>3. InFlight(wire, hubRow) => InFlight(wire', hubRow)
  BY <1>1
<1>4. CASE BeginDrain
  <2>1. drain'.pc = "asked" /\ row'.gen = row.gen /\ row'.status = row.status
    BY <1>4, DrainOf
  <2> QED
    BY <1>1, <2>1 DEF Holds, VerdictsBehind, HeldOrComing, Coming, Paging
<1>5. CASE ServePage
  <2>1. drain'.pc = "read" /\ drain'.page = hubRow /\ row' = row
    BY <1>5, DrainOf
  <2> QED
    BY <1>1, <1>2, <2>1 DEF Holds, VerdictsBehind, HeldOrComing, Coming, Paging
<1>6. CASE LandPage
  <2>1. /\ drain.pc = "read" /\ drain'.pc = "judge" /\ drain'.page = drain.page
        /\ drain'.before = drain.before /\ (drain.page = NoRow => row' = row)
    BY <1>6, DrainOf
  <2>2. upgraded' = upgraded /\ drained' = drained
    BY <1>6 DEF LandPage, ghostVars
  <2>3. CASE drain.page = NoRow
    <3>1. VerdictsBehind'
      BY <1>1, <2>1, <2>2, <2>3 DEF Holds, VerdictsBehind, Paging
    <3>2. HeldOrComing'
      BY <1>1, <1>2, <1>3, <2>1, <2>2, <2>3 DEF Holds, HeldOrComing, Coming
    <3> QED
      BY <3>1, <3>2 DEF Holds
  <2>4. CASE drain.page # NoRow
    <3>1. PICK g \in 0..MaxGen : g = drain.page.gen /\ drain.page = Row(g, g) /\ g <= publishedGen
      BY <2>4, PageIsRow
    <3>2. row' = Upsert(Row(g, g))
      BY <1>6, <2>4, <3>1 DEF LandPage
    <3>3. /\ row'.status = "retracted" => row'.gen < publishedGen
          /\ (row.status = "finalized" /\ row.gen = publishedGen) \/ g = publishedGen =>
                row'.status = "finalized" /\ row'.gen = publishedGen
      BY <1>2, <3>1, <3>2, MergesHeld DEF Holds
    <3>4. VerdictsBehind'
      BY <1>1, <2>1, <2>4, <3>3 DEF VerdictsBehind
    <3>5. drain.page = hubRow => g = publishedGen
      BY <1>2, <3>1, Generations DEF InOrder, GensInOrder, Row
    <3>6. HeldOrComing'
      BY <1>1, <1>2, <1>3, <2>1, <2>2, <3>3, <3>5 DEF Holds, HeldOrComing, Coming
    <3> QED
      BY <3>4, <3>6 DEF Holds
  <2> QED
    BY <2>3, <2>4
<1>7. CASE Reconcile
  <2>1. drain.pc = "judge" /\ drain' = IdleDrain /\ upgraded' = upgraded
    BY <1>7 DEF Reconcile
  <2>2. /\ row'.status = "retracted" => row'.gen < publishedGen
        /\ row.status = "finalized" /\ row.gen = publishedGen /\ ~upgraded => row' = row
    BY <1>2, <1>7, NoVerdict
  <2>3. VerdictsBehind'
    BY <1>1, <2>1, <2>2 DEF VerdictsBehind, Paging, IdleDrain
  <2>4. HeldOrComing'
    BY <1>1, <1>2, <1>3, <2>1, <2>2 DEF Holds, HeldOrComing, Coming
  <2> QED
    BY <2>3, <2>4 DEF Holds
<1> QED
  BY <1>4, <1>5, <1>6, <1>7

LEMMA HoldsInitially == RowInit => Holds
BY DEF RowInit, Holds, VerdictsBehind, HeldOrComing

LEMMA StepHolds ==
  ASSUME GoodContent, InOrder, Holds, [RowNext]_rowVars
  PROVE  Holds'
<1>1. CASE RowNext
  BY <1>1, HubHolds, SocketHolds, FrameHolds, DrainHolds DEF RowNext
<1>2. CASE UNCHANGED rowVars
  BY <1>2 DEF rowVars, hubVars, ghostVars, Holds, VerdictsBehind, HeldOrComing, Coming, InFlight, Paging
<1> QED
  BY <1>1, <1>2

\* Nothing on the wire and no drain: what the hub shows can only be held.
LEMMA NoHoleIfHeld == GoodContent /\ InOrder /\ Holds => NoHole
<1> SUFFICES ASSUME GoodContent, InOrder, Holds, Quiet, hubRow # NoRow, ~upgraded
             PROVE  row.eff = hubRow.eff /\ row.gen = hubRow.gen /\ row.status = "finalized"
  BY DEF NoHole
<1>1. ~Coming
  BY DEF Quiet, Coming, InFlight
<1>2. row.status = "finalized" /\ row.gen = publishedGen
  BY <1>1 DEF Quiet, Holds, HeldOrComing
<1>3. row \in GoodRows /\ row # NoRow
  BY <1>2, Generations DEF NoRow
<1>4. row.eff = row.gen
  BY <1>3 DEF GoodRows
<1>5. hubRow.gen = publishedGen /\ hubRow.eff = publishedGen
  BY DEF InOrder, GensInOrder, Row
<1> QED
  BY <1>2, <1>4, <1>5

\* Once all it was sent is handled, the mirror holds the row the hub shows,
\* finalized and of the same generation: no late deletion, page or verdict took
\* away a row published again at a recycled index (row_upserts.js:66, :104).
THEOREM NoHoleEver == RowSpec => []NoHole
<1>1. RowInit => GoodContent /\ InOrder /\ Holds
  BY GoodInitially, InOrderInitially, HoldsInitially
<1>2. GoodContent /\ InOrder /\ Holds /\ [RowNext]_rowVars => (GoodContent /\ InOrder /\ Holds)'
  BY GoodStep, StepInOrder, StepHolds
<1> QED
  BY <1>1, <1>2, NoHoleIfHeld, PTL DEF RowSpec

\* The deletion that ended the row stays the last word on the wire.
LEMMA EndOnMore ==
  ASSUME NEW frames \in Seq(GoodFrames), NEW f \in GoodFrames, NEW last \in Int, f.type = "deleted"
  PROVE  /\ EndOn(frames, last) \/ f.gen >= last => EndOn(Append(frames, f), last)
         /\ AllDeleted(frames) => AllDeleted(Append(frames, f))
<1>1. /\ \A i \in DOMAIN frames : i \in DOMAIN Append(frames, f) /\ Append(frames, f)[i] = frames[i]
      /\ Len(frames) + 1 \in DOMAIN Append(frames, f) /\ Append(frames, f)[Len(frames) + 1] = f
      /\ \A i \in DOMAIN Append(frames, f) :
           i \in Nat /\ i <= Len(frames) + 1 /\ (i # Len(frames) + 1 => i \in DOMAIN frames)
      /\ Len(frames) \in Nat
  BY AppendTo
<1>2. ASSUME EndOn(frames, last) PROVE EndOn(Append(frames, f), last)
  <2>1. PICK i \in DOMAIN frames : Ends(frames, i, last)
    BY <1>2 DEF EndOn
  <2>2. Ends(Append(frames, f), i, last)
    BY <1>1, <2>1 DEF Ends
  <2> QED
    BY <1>1, <2>2 DEF EndOn
<1>3. ASSUME f.gen >= last PROVE EndOn(Append(frames, f), last)
  <2>1. Ends(Append(frames, f), Len(frames) + 1, last)
    BY <1>1, <1>3 DEF Ends
  <2> QED
    BY <1>1, <2>1 DEF EndOn
<1>4. AllDeleted(frames) => AllDeleted(Append(frames, f))
  BY <1>1 DEF AllDeleted
<1> QED
  BY <1>2, <1>3, <1>4

LEMMA EndOnTail ==
  ASSUME NEW frames \in Seq(GoodFrames), frames # <<>>, NEW last \in Int
  PROVE  /\ EndOn(frames, last) =>
              \/ EndOn(Tail(frames), last)
              \/ Head(frames).type = "deleted" /\ Head(frames).gen >= last /\ AllDeleted(Tail(frames))
         /\ AllDeleted(frames) => Head(frames).type = "deleted" /\ AllDeleted(Tail(frames))
<1>1. /\ Head(frames) = frames[1] /\ 1 \in DOMAIN frames
      /\ \A i \in DOMAIN Tail(frames) : i + 1 \in DOMAIN frames /\ Tail(frames)[i] = frames[i + 1]
      /\ \A i \in DOMAIN frames : i # 1 => i - 1 \in DOMAIN Tail(frames) /\ Tail(frames)[i - 1] = frames[i]
      /\ \A i \in DOMAIN frames : i \in Nat
      /\ \A i \in DOMAIN Tail(frames) : i \in Nat /\ i >= 1
  BY TailOf
<1>2. ASSUME EndOn(frames, last)
      PROVE  \/ EndOn(Tail(frames), last)
             \/ Head(frames).type = "deleted" /\ Head(frames).gen >= last /\ AllDeleted(Tail(frames))
  <2>1. PICK i \in DOMAIN frames : Ends(frames, i, last)
    BY <1>2 DEF EndOn
  <2>2. CASE i = 1
    BY <1>1, <2>1, <2>2 DEF Ends, AllDeleted
  <2>3. CASE i # 1
    <3>1. Ends(Tail(frames), i - 1, last)
      BY <1>1, <2>1, <2>3 DEF Ends
    <3> QED
      BY <1>1, <2>3, <3>1 DEF EndOn
  <2> QED
    BY <2>2, <2>3
<1>3. AllDeleted(frames) => Head(frames).type = "deleted" /\ AllDeleted(Tail(frames))
  BY <1>1 DEF AllDeleted
<1> QED
  BY <1>2, <1>3

\* A row that ends is followed by its deletion, on the wire or kept, or it is owed.
LEMMA HubTells ==
  ASSUME GoodContent, InOrder, GhostsTold, HubPublish \/ HubRollback \/ HubRetract \/ HubRestarts
  PROVE  GhostsTold'
<1>1. UNCHANGED <<kind, connected, row, drain>>
  BY DEF HubPublish, HubRollback, HubRetract, HubRestarts
<1>2. CASE HubPublish
  <2>1. hubRow' = Row(chainGen, chainGen) /\ chainGen \in 0..MaxGen
    BY <1>2 DEF HubPublish, GoodContent, HubGood
  <2> QED
    BY <2>1, PublishedFrame DEF GhostsTold
<1>3. CASE HubRollback
  <2>1. UNCHANGED <<publishedGen, hubRow, wire, retained, owed>>
    BY <1>3 DEF HubRollback, ghostVars
  <2> QED
    BY <1>1, <2>1 DEF GhostsTold, Told, Excused
<1>4. CASE HubRestarts
  <2>1. /\ ~connected /\ UNCHANGED <<publishedGen, hubRow, wire>> /\ owed' = (owed \/ retained # <<>>)
    BY <1>4 DEF HubRestarts
  <2>2. Told => retained # <<>>
    BY <2>1 DEF Told, EndOn
  <2> QED
    BY <1>1, <2>1, <2>2 DEF GhostsTold, Excused
<1>5. CASE HubRetract
  <2>1. PICK g \in pending, d \in GoodFrames :
           /\ d.type = "deleted" /\ d.gen = g /\ g \in Nat
           /\ \/ hubRow' = NoRow /\ hubRow.gen <= g
              \/ hubRow' = hubRow /\ hubRow # NoRow
           /\ wire' = IF connected THEN Append(wire, d) ELSE wire
           /\ \/ retained' = Append(retained, d) /\ owed' = owed
              \/ retained' = retained /\ owed' = (owed \/ ~connected)
           /\ publishedGen' = publishedGen
    BY <1>5, RetractionIs
  <2>2. SUFFICES ASSUME hubRow' = NoRow, hubRow.gen <= g PROVE GhostsTold'
    BY <2>1 DEF GhostsTold
  <2>3. publishedGen \in Int /\ wire \in Seq(GoodFrames) /\ retained \in Seq(GoodFrames)
    BY Generations
  <2>4. /\ EndOn(wire, publishedGen) \/ g >= publishedGen => EndOn(Append(wire, d), publishedGen)
        /\ AllDeleted(wire) => AllDeleted(Append(wire, d))
        /\ EndOn(retained, publishedGen) \/ g >= publishedGen => EndOn(Append(retained, d), publishedGen)
    BY <2>1, <2>3, EndOnMore
  <2>5. CASE hubRow = NoRow
    <3>1. /\ EndOn(wire, publishedGen) => EndOn(wire', publishedGen)
          /\ AllDeleted(wire) => AllDeleted(wire')
          /\ EndOn(retained, publishedGen) => EndOn(retained', publishedGen)
      BY <2>1, <2>4
    <3>2. owed => owed'
      BY <2>1
    <3> QED
      BY <1>1, <2>1, <2>5, <3>1, <3>2 DEF GhostsTold, Told, Excused
  <2>6. CASE hubRow # NoRow
    <3>1. g >= publishedGen
      BY <2>1, <2>2, <2>3, <2>6 DEF InOrder, GensInOrder, Row
    <3>2. CASE connected
      BY <1>1, <2>1, <2>4, <3>1, <3>2 DEF GhostsTold, Told
    <3>3. CASE ~connected
      <4>1. wire' = <<>> /\ drain'.pc = "idle" /\ ~connected'
        BY <1>1, <2>1, <3>3 DEF InOrder, Offline
      <4>2. AllDeleted(wire')
        BY <4>1 DEF AllDeleted
      <4>3. EndOn(retained', publishedGen') \/ owed'
        BY <2>1, <2>4, <3>1, <3>3
      <4> QED
        BY <4>1, <4>2, <4>3 DEF GhostsTold, Told
    <3> QED
      BY <3>2, <3>3
  <2> QED
    BY <2>5, <2>6
<1> QED
  BY <1>2, <1>3, <1>4, <1>5

\* A socket that closes takes no deletion with it that is not replayed or owed.
LEMMA SocketTells ==
  ASSUME GoodContent, InOrder, GhostsTold, Connect \/ SocketCloses \/ Restart
  PROVE  GhostsTold'
<1>1. UNCHANGED <<kind, hubRow, publishedGen, retained, row>>
  BY DEF Connect, SocketCloses, Restart, hubVars
<1>2. AllDeleted(retained)
  BY DEF InOrder, FramesInOrder
<1>3. CASE Connect
  <2>1. /\ ~connected /\ connected' = TRUE /\ wire' = retained
        /\ UNCHANGED <<drain, owed>>
    BY <1>3 DEF Connect, ghostVars
  <2>2. drain.pc = "idle"
    BY <2>1 DEF InOrder, Offline
  <2> QED
    BY <1>1, <1>2, <2>1, <2>2 DEF GhostsTold, Told, Excused, AllDeleted, EndOn
<1>4. CASE SocketCloses \/ Restart
  <2>1. /\ connected /\ connected' = FALSE /\ wire' = <<>> /\ drain'.pc = "idle"
        /\ owed' = (owed \/ drain.owed \/ Dropped)
    BY <1>4 DEF SocketCloses, Restart, CloseSocket, IdleDrain
  <2>2. AllDeleted(wire')
    BY <2>1 DEF AllDeleted
  <2>3. ASSUME EndOn(wire, publishedGen), ~Dropped
        PROVE  EndOn(retained, publishedGen)
    <3>1. PICK i \in DOMAIN wire : wire[i].type = "deleted" /\ wire[i].gen >= publishedGen
      BY <2>3 DEF EndOn, Ends
    <3>2. PICK j \in DOMAIN retained : retained[j] = wire[i]
      BY <2>3, <3>1 DEF Dropped
    <3>3. Ends(retained, j, publishedGen)
      BY <1>2, <3>1, <3>2 DEF Ends, AllDeleted
    <3> QED
      BY <3>3 DEF EndOn
  <2>4. owed \in BOOLEAN
    BY DEF GoodContent, GhostsGood
  <2>5. Told \/ owed \/ Excused => EndOn(retained, publishedGen) \/ owed'
    BY <2>1, <2>3, <2>4 DEF Told, Excused
  <2> QED
    BY <1>1, <2>1, <2>2, <2>5 DEF GhostsTold, Told
<1> QED
  BY <1>3, <1>4

\* The deletion, when handled, takes the row, or is owed: refused or overtaken.
LEMMA FrameTells ==
  ASSUME GoodContent, InOrder, GhostsTold, HandleRow \/ HandleDeletion
  PROVE  GhostsTold'
<1>1. PICK f \in GoodFrames :
        /\ wire # <<>> /\ f = Head(wire) /\ f = wire[1] /\ 1 \in DOMAIN wire /\ wire' = Tail(wire)
        /\ HandleRow => f.type = "inserted"
        /\ HandleDeletion => /\ f.type = "deleted"
                             /\ row' = IF Accepted(f) /\ Deletes(f) THEN NoRow ELSE row
        /\ UNCHANGED <<kind, hubRow, publishedGen, retained, connected, drain>>
  BY FirstFrame
<1>2. SUFFICES ASSUME hubRow = NoRow PROVE GhostsTold'
  BY <1>1 DEF GhostsTold
<1>3. connected
  BY <1>1 DEF InOrder, Offline
<1>4. /\ EndOn(wire, publishedGen) =>
              \/ EndOn(wire', publishedGen)
              \/ f.type = "deleted" /\ f.gen >= publishedGen /\ AllDeleted(wire')
      /\ AllDeleted(wire) => f.type = "deleted" /\ AllDeleted(wire')
  BY <1>1, Generations, EndOnTail
<1>5. owed \in BOOLEAN
  BY DEF GoodContent, GhostsGood
<1>6. CASE HandleRow
  <2>1. EndOn(wire', publishedGen)
    BY <1>1, <1>2, <1>4, <1>6 DEF GhostsTold
  <2> QED
    BY <1>1, <1>3, <2>1 DEF GhostsTold, Told
<1>7. CASE HandleDeletion
  <2>1. owed' = \/ owed
                \/ ~Accepted(f)
                \/ drain.pc = "read" /\ drain.page # NoRow /\ drain.page.gen <= f.gen
    BY <1>1, <1>7 DEF HandleDeletion
  <2>2. EndOn(wire', publishedGen') \/ AllDeleted(wire')
    BY <1>1, <1>2, <1>4 DEF GhostsTold
  <2>3. drain'.pc = "read" /\ drain'.page # NoRow => EndOn(wire', publishedGen') \/ owed'
    <3> SUFFICES ASSUME drain.pc = "read", drain.page # NoRow
                 PROVE  EndOn(wire', publishedGen) \/ owed'
      BY <1>1
    <3>1. drain.page.gen <= publishedGen /\ drain.page.gen \in Int /\ publishedGen \in Int
          /\ f.gen \in Int
      BY PageIsRow, Generations, FrameFields
    <3>2. EndOn(wire, publishedGen) \/ owed
      BY <1>2 DEF GhostsTold
    <3> QED
      BY <1>4, <2>1, <3>1, <3>2
  <2>4. ASSUME row'.status = "finalized"
        PROVE  Told' \/ owed' \/ Excused'
    <3>1. row' = row /\ ~(Accepted(f) /\ Deletes(f))
      BY <1>1, <1>7, <2>4 DEF NoRow
    <3>2. Told => EndOn(wire', publishedGen) \/ f.gen >= publishedGen
      BY <1>3, <1>4 DEF Told
    <3>3. f.gen >= publishedGen => owed'
      <4>1. row # NoRow /\ row.gen <= publishedGen /\ row.gen \in Int /\ publishedGen \in Int
            /\ f.gen \in Int
        BY <2>4, <3>1, Generations, FrameFields DEF NoRow, InOrder, GensInOrder
      <4>2. f.gen >= publishedGen => Deletes(f)
        BY <4>1 DEF Deletes
      <4> QED
        BY <2>1, <3>1, <4>2
    <3>4. Told \/ owed \/ Excused
      BY <1>2, <2>4, <3>1 DEF GhostsTold
    <3>5. Excused => Excused'
      BY <1>1, <3>1 DEF Excused
    <3>6. EndOn(wire', publishedGen) => Told'
      BY <1>1, <1>3 DEF Told
    <3> QED
      BY <2>1, <3>2, <3>3, <3>4, <3>5, <3>6
  <2> QED
    BY <2>2, <2>3, <2>4 DEF GhostsTold
<1> QED
  BY <1>6, <1>7

\* A ghost whose debt a drain holds is removed, marked, or owed again at its end.
LEMMA ExcuseEnds ==
  ASSUME GoodContent, Reconcile, Excused, row'.status = "finalized"
  PROVE  owed'
<1>1. /\ row' = IF StaleOracle THEN NoRow
                ELSE IF StaleMatch THEN [row EXCEPT !.status = "retracted"] ELSE row
      /\ owed' = (owed \/ (drain.owed /\ kind # "oracle" /\ ~JudgesMatch))
      /\ drain.pc = "judge"
  BY DEF Reconcile
<1>2. ~StaleOracle
  BY <1>1 DEF NoRow
<1>3. ~StaleMatch
  <2> SUFFICES ASSUME StaleMatch PROVE FALSE
    OBVIOUS
  <2>1. row # NoRow
    BY DEF StaleMatch, NoRow
  <2>2. [row EXCEPT !.status = "retracted"].status = "retracted"
    BY <2>1, Generations, MarkedRow
  <2> QED
    BY <1>1, <1>2, <2>2
<1>4. row' = row /\ row.status = "finalized" /\ row # NoRow
  BY <1>1, <1>2, <1>3 DEF NoRow
<1>5. kind # "oracle"
  BY <1>1, <1>2 DEF Excused, StaleOracle
<1>6. ~JudgesMatch
  <2> SUFFICES ASSUME JudgesMatch PROVE FALSE
    OBVIOUS
  <2>1. kind = "match" /\ drain.page = NoRow /\ row.gen = drain.before.gen
    BY <1>1 DEF JudgesMatch, Excused
  <2>2. row \in Held /\ row.gen = row.eff /\ drain.before \in GoodRows
    BY <1>4, Generations DEF GoodRows
  <2>3. drain.before # NoRow
    <3>1. row.gen # -1 /\ NoRow.gen = -1
      BY <1>4, Generations DEF NoRow
    <3> QED
      BY <2>1, <3>1
  <2>4. row.eff = drain.before.eff
    BY <2>1, <2>2, <2>3 DEF GoodRows
  <2> QED
    BY <1>3, <1>4, <2>1, <2>3, <2>4 DEF StaleMatch
<1> QED
  BY <1>1, <1>5, <1>6 DEF Excused

\* A drain takes the debt over and settles it or gives it back.
LEMMA DrainTells ==
  ASSUME GoodContent, InOrder, GhostsTold, BeginDrain \/ ServePage \/ LandPage \/ Reconcile
  PROVE  GhostsTold'
<1>1. UNCHANGED <<kind, hubRow, publishedGen, connected, wire, retained>>
  BY DEF BeginDrain, ServePage, LandPage, Reconcile, hubVars
<1>2. SUFFICES ASSUME hubRow = NoRow PROVE GhostsTold'
  BY <1>1 DEF GhostsTold
<1>3. (EndOn(wire, publishedGen) \/ AllDeleted(wire))'
  BY <1>1, <1>2 DEF GhostsTold
<1>4. Told' = Told
  BY <1>1 DEF Told
<1>5. row.status = "finalized" => Told \/ owed \/ Excused
  BY <1>2 DEF GhostsTold
<1>6. connected
  BY DrainOf DEF InOrder, Offline
<1>7. CASE BeginDrain
  <2>1. /\ drain'.pc = "asked" /\ drain'.before = row /\ drain'.owed = owed /\ drain.pc = "idle"
        /\ row'.gen = row.gen /\ row'.status = row.status /\ (row # NoRow => row'.old)
    BY <1>7, DrainOf
  <2>2. row.status = "finalized" => row # NoRow
    BY DEF NoRow
  <2>3. ~Excused
    BY <2>1 DEF Excused
  <2>4. row'.status = "finalized" /\ owed => Excused'
    BY <2>1, <2>2 DEF Excused
  <2> QED
    BY <1>3, <1>4, <1>5, <2>1, <2>3, <2>4 DEF GhostsTold
<1>8. CASE ServePage
  <2>1. /\ drain.pc = "asked" /\ drain'.pc = "read" /\ drain'.page = NoRow
        /\ drain'.before = drain.before /\ drain'.owed = drain.owed /\ row' = row
    BY <1>2, <1>8, DrainOf
  <2>2. owed' = owed
    BY <1>8 DEF ServePage, ghostVars
  <2>3. Excused => Excused'
    BY <1>1, <2>1 DEF Excused
  <2> QED
    BY <1>3, <1>4, <1>5, <2>1, <2>2, <2>3 DEF GhostsTold
<1>9. CASE LandPage
  <2>1. /\ drain.pc = "read" /\ drain'.pc = "judge" /\ drain'.page = drain.page
        /\ drain'.before = drain.before /\ drain'.owed = drain.owed
        /\ (drain.page = NoRow => row' = row)
    BY <1>9, DrainOf
  <2>2. owed' = owed
    BY <1>9 DEF LandPage, ghostVars
  <2>3. CASE drain.page = NoRow
    <3>1. Excused => Excused'
      BY <1>1, <2>1, <2>3 DEF Excused
    <3> QED
      BY <1>3, <1>4, <1>5, <2>1, <2>2, <2>3, <3>1 DEF GhostsTold
  <2>4. CASE drain.page # NoRow
    <3>1. EndOn(wire, publishedGen) \/ owed
      BY <1>2, <2>1, <2>4 DEF GhostsTold
    <3>2. EndOn(wire, publishedGen) => Told
      BY <1>6 DEF Told
    <3> QED
      BY <1>3, <1>4, <2>1, <2>2, <3>1, <3>2 DEF GhostsTold
  <2> QED
    BY <2>3, <2>4
<1>10. CASE Reconcile
  <2>1. drain'.pc = "idle"
    BY <1>10, DrainOf DEF IdleDrain
  <2>2. owed => owed'
    BY <1>10 DEF Reconcile
  <2>3. ASSUME row'.status = "finalized" PROVE row.status = "finalized"
    <3>1. StaleMatch => row.status = "finalized"
      BY DEF StaleMatch
    <3> QED
      BY <1>10, <2>3, <3>1 DEF Reconcile, NoRow
  <2>4. Excused /\ row'.status = "finalized" => owed'
    BY <1>10, ExcuseEnds
  <2> QED
    BY <1>3, <1>4, <1>5, <2>1, <2>2, <2>3, <2>4 DEF GhostsTold
<1> QED
  BY <1>7, <1>8, <1>9, <1>10

LEMMA TellsInitially == RowInit => GhostsTold
BY DEF RowInit, GhostsTold, AllDeleted, NoRow, IdleDrain

LEMMA StepTells ==
  ASSUME GoodContent, InOrder, GhostsTold, [RowNext]_rowVars
  PROVE  GhostsTold'
<1>1. CASE RowNext
  BY <1>1, HubTells, SocketTells, FrameTells, DrainTells DEF RowNext
<1>2. CASE UNCHANGED rowVars
  BY <1>2 DEF rowVars, hubVars, ghostVars, GhostsTold, Told, Excused, EndOn, Ends, AllDeleted
<1> QED
  BY <1>1, <1>2

\* Nothing on the wire, no drain and no debt: nothing tells of a ghost.
LEMMA NoGhostIfTold == GhostsTold => NoGhost
<1> SUFFICES ASSUME GhostsTold, Quiet, ~owed, row.status = "finalized", hubRow = NoRow PROVE FALSE
  BY DEF NoGhost
<1>1. ~Told
  BY DEF Quiet, Told, EndOn
<1>2. ~Excused
  BY DEF Quiet, Excused
<1> QED
  BY <1>1, <1>2 DEF GhostsTold

\* Once all it was sent is handled, the mirror shows no row the hub has
\* retracted, unless a deletion was missed, refused or overtaken by a page and no
\* reconciling drain has run since (retractions.js:89).
THEOREM NoGhostEver == RowSpec => []NoGhost
<1>1. RowInit => GoodContent /\ InOrder /\ GhostsTold
  BY GoodInitially, InOrderInitially, TellsInitially
<1>2. GoodContent /\ InOrder /\ GhostsTold /\ [RowNext]_rowVars => (GoodContent /\ InOrder /\ GhostsTold)'
  BY GoodStep, StepInOrder, StepTells
<1> QED
  BY <1>1, <1>2, NoGhostIfTold, PTL DEF RowSpec
=============================================================================
