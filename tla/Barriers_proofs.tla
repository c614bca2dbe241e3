---------------------------- MODULE Barriers_proofs ----------------------------
(***************************************************************************)
(* No block passes a barrier before the mirror has every row of its chain  *)
(* effective by then, for every table, every margin and every bound,       *)
(* however frames, pages, refreshes, closes and timeouts interleave; and   *)
(* no wait hangs whose snapshots are missing, whatever queries fail.       *)
(***************************************************************************)
EXTENDS Barriers, SnapshotBarrier, WellFoundedInduction, SequenceTheorems, TLAPS

-----------------------------------------------------------------------------
(* What the hub has finalized, and what is on its way.                     *)

BarrierRows == [fin : Nat, eff : Nat, margin : Nat, mine : BOOLEAN]
BarrierFrames == [type : {"row", "beat"}, value : Nat]

\* No row of this chain is effective sooner after it was finalized.
LeastMargin == IF barrierTable = "policy" THEN MinFuture ELSE OwnFloor

\* Rows are finalized one after the other, each effective a margin later.
RowsInOrder ==
  /\ barrierTable \in BarrierTables /\ second \in Nat /\ finalized \in Seq(BarrierRows)
  /\ \A i \in DOMAIN finalized :
       /\ finalized[i].fin <= second /\ finalized[i].eff = finalized[i].fin + finalized[i].margin
       /\ finalized[i].mine => finalized[i].margin >= LeastMargin
       /\ barrierTable = "policy" => finalized[i].margin <= MaxFuture
       /\ barrierTable \in {"call", "attest"} /\ finalized[i].mine => finalized[i].margin = OwnFloor
       /\ barrierTable = "attest" => finalized[i].mine
  /\ \A i, j \in DOMAIN finalized : i < j => finalized[i].fin < finalized[j].fin

IsRow(k) == sending[k].type = "row"

\* Frames arrive in the order they were sent: a beat after the rows finalized
\* before its second.
FramesInOrder ==
  /\ subscribed \in BOOLEAN /\ sending \in Seq(BarrierFrames)
  /\ ~subscribed => sending = <<>>
  /\ \A k \in DOMAIN sending :
       IF IsRow(k) THEN sending[k].value \in DOMAIN finalized ELSE sending[k].value <= second
  /\ \A k, j \in DOMAIN sending : k < j /\ IsRow(j) =>
       IF IsRow(k) THEN sending[k].value < sending[j].value
       ELSE sending[k].value <= finalized[sending[j].value].fin

Coming(i) == \E k \in DOMAIN sending : IsRow(k) /\ sending[k].value = i
Reached(p) == \A i \in DOMAIN finalized : i <= p \/ i \in mirrored \/ Coming(i)
HeldBefore(mark) == \A i \in DOMAIN finalized : finalized[i].fin < mark => i \in mirrored

\* The mirror has no gap that is filled by anything but the page to come.
MirrorInOrder ==
  /\ mirrored \subseteq DOMAIN finalized
  /\ \A i \in DOMAIN finalized : \A last \in mirrored : Coming(i) /\ i < last => i \in mirrored

\* A page brings what the hub had before the subscription, a certificate says
\* that it has.
Drained ==
  /\ boot \in [pc : {"idle", "refreshing", "asking", "landing", "arming"}, page : Nat, mark : Nat]
  /\ boot.pc # "idle" => subscribed
  /\ boot.pc = "landing" =>
       /\ boot.page <= Len(finalized) /\ boot.mark <= second /\ Reached(boot.page)
       /\ \A i \in DOMAIN finalized : finalized[i].fin < boot.mark => i <= boot.page
  /\ boot.pc = "arming" =>
       /\ 1..boot.page \subseteq mirrored /\ boot.page <= Len(finalized) /\ boot.mark <= second
       /\ Reached(0) /\ HeldBefore(boot.mark)
  /\ certified \in BOOLEAN /\ seen \in Nat /\ seen <= Len(finalized)
  /\ certified => subscribed /\ Reached(0) /\ 1..seen \subseteq mirrored

\* Whatever was finalized before a watermark is held, connected or not.
MarksHold ==
  /\ {tableMark, streamMark} \subseteq Nat
  /\ tableMark <= second /\ streamMark <= second
  /\ HeldBefore(tableMark) /\ HeldBefore(streamMark)

\* A time a scalar covers is one that no row finalized after some row the mirror
\* holds can be effective at.
Proven(time) ==
  /\ time \in Int
  /\ time # Unread => \E last \in mirrored : time <= finalized[last].fin + LeastMargin

ScalarsProven ==
  /\ Proven(covered)
  /\ \A who \in {"live", "boot", "timer"} : Proven(refresh[who].covered)

RefreshTypes == refresh = [who \in {"live", "boot", "timer"} |-> refresh[who]]

BarrierState ==
  /\ RowsInOrder /\ FramesInOrder /\ MirrorInOrder /\ Drained /\ MarksHold
  /\ RefreshTypes /\ ScalarsProven

\* What a block was let through with: every row of its chain effective by then,
\* and no later row can be, unless the mirror was empty.
Complete(p) ==
  \A i \in DOMAIN finalized :
    finalized[i].mine /\ finalized[i].eff <= p.time => i \in p.held \/ (p.free /\ i > p.seen)
Closed(p) ==
  \/ p.free /\ p.seen \in 0..Len(finalized)
  \/ p.time <= second
  \/ \E last \in DOMAIN finalized : p.time <= finalized[last].fin + LeastMargin
Passable(p) == p.time \in Nat /\ Complete(p) /\ Closed(p)

BarrierInv == BarrierState /\ block \in Nat /\ Passable(passed)

-----------------------------------------------------------------------------
(* The greatest of a bounded set of naturals.                              *)

\* A non-empty set of naturals has a least element.
LEMMA LeastOf ==
  ASSUME NEW S \in SUBSET Nat, S # {}
  PROVE  \E m \in S : \A t \in S : m <= t
<1> DEFINE R == {ss \in Nat \X Nat : ss[1] < ss[2]}
<1>1. IsWellFoundedOn(R, Nat)
  BY NatLessThanWellFounded DEF OpToRel
<1>2. PICK m \in S : \A t \in S : ~ (<<t, m>> \in R)
  <2> HIDE DEF R
  <2> QED BY <1>1, WFMin
<1>3. \A t \in S : t < m => <<t, m>> \in R
  OBVIOUS
<1>4. \A t \in S : ~ (t < m)
  BY <1>2, <1>3
<1>5. m \in Nat /\ \A t \in S : t \in Nat
  OBVIOUS
<1>6. \A t \in S : m <= t
  BY <1>4, <1>5
<1> QED BY <1>6

\* A non-empty set of naturals that has a bound has a greatest element.
LEMMA GreatestOf ==
  ASSUME NEW n \in Nat, NEW S \in SUBSET (0..n), S # {}
  PROVE  Max(S) \in S /\ \A x \in S : x <= Max(S)
<1> DEFINE Below == {n - x : x \in S}
<1>0. \A x \in S : x \in Nat /\ x <= n /\ n - x \in Nat
  OBVIOUS
<1>1. Below \in SUBSET Nat /\ Below # {}
  BY <1>0
<1>2. PICK m \in Below : \A t \in Below : m <= t
  BY <1>1, LeastOf
<1>3. PICK top \in S : m = n - top
  BY <1>2
<1>4. \A x \in S : top >= x
  <2> SUFFICES ASSUME NEW x \in S PROVE top >= x
    OBVIOUS
  <2>1. n - x \in Below
    OBVIOUS
  <2>2. m <= n - x
    BY <1>2, <2>1
  <2> QED
    BY <1>0, <1>3, <2>2
<1>5. Max(S) \in S /\ \A x \in S : Max(S) >= x
  BY <1>4 DEF Max
<1> QED
  BY <1>5

-----------------------------------------------------------------------------
(* What a refresh reads, and what a barrier may conclude.                  *)

\* What the assumption on the margins says of each.
LEMMA MarginTypes ==
  /\ OwnFloor \in Nat \ {0} /\ MinFuture \in Nat \ {0} /\ MaxFuture \in Nat /\ MinFuture <= MaxFuture
  /\ \A f \in OtherFloors : f \in Nat \ {0}
  /\ Grace \in Nat /\ LeastMargin \in Nat \ {0}
  BY MarginsAssumption DEF LeastMargin

\* The rows the hub has finalized, one by one.
LEMMA RowTypes ==
  ASSUME RowsInOrder
  PROVE  /\ second \in Nat /\ Len(finalized) \in Nat /\ DOMAIN finalized = 1..Len(finalized)
         /\ \A i \in DOMAIN finalized :
              /\ finalized[i] \in BarrierRows /\ finalized[i].fin \in Nat /\ finalized[i].eff \in Nat
              /\ finalized[i].margin \in Nat
              /\ finalized[i].fin <= second /\ finalized[i].eff = finalized[i].fin + finalized[i].margin
<1>1. /\ second \in Nat /\ Len(finalized) \in Nat /\ DOMAIN finalized = 1..Len(finalized)
      /\ \A i \in DOMAIN finalized : finalized[i] \in BarrierRows
  BY DEF RowsInOrder
<1>2. \A i \in DOMAIN finalized :
         finalized[i].fin \in Nat /\ finalized[i].eff \in Nat /\ finalized[i].margin \in Nat
  BY <1>1 DEF BarrierRows
<1> QED
  BY <1>1, <1>2 DEF RowsInOrder

\* The time a refresh finds covered is one that no later row is effective at:
\* the rows it is read from share a margin, or a window.
LEMMA CoverageIsProven ==
  RowsInOrder /\ mirrored \subseteq DOMAIN finalized => Proven(ContentCoverage)
<1> SUFFICES ASSUME RowsInOrder, mirrored \subseteq DOMAIN finalized
             PROVE  Proven(ContentCoverage)
  OBVIOUS
<1> USE MarginTypes, BarrierTablesAssumption
<1>1. /\ second \in Nat
      /\ \A i \in mirrored :
           /\ finalized[i].fin \in Nat /\ finalized[i].eff \in Nat /\ finalized[i].margin \in Nat
           /\ finalized[i].fin <= second /\ finalized[i].eff = finalized[i].fin + finalized[i].margin
  BY RowTypes
<1>2. Proven(Unread)
  BY DEF Proven, Unread
<1>3. CASE barrierTable = "match" /\ NewestHeld # Unread
  <2> DEFINE S == {finalized[i].eff - finalized[i].margin : i \in mirrored}
  <2>0. \A i \in mirrored : finalized[i].eff - finalized[i].margin = finalized[i].fin
    BY <1>1
  <2>1. S \subseteq 0..second /\ mirrored # {}
    BY <1>1, <1>3, <2>0 DEF NewestHeld, Latest
  <2>2. S # {}
    BY <2>1
  <2>3. Max(S) \in S
    BY <1>1, <2>1, <2>2, GreatestOf
  <2>4. PICK last \in mirrored : Max(S) = finalized[last].eff - finalized[last].margin
    BY <2>3
  <2>5. ContentCoverage = OwnFloor + Max(S)
    BY <1>3, <2>2 DEF ContentCoverage, Latest
  <2>6. ContentCoverage = finalized[last].fin + LeastMargin /\ ContentCoverage \in Int
    BY <1>1, <1>3, <2>4, <2>5 DEF LeastMargin
  <2> QED
    BY <1>1, <2>6 DEF Proven
<1>4. CASE barrierTable = "call" /\ NewestHeld # Unread
  <2> DEFINE own == {j \in mirrored : finalized[j].mine}
             S == {finalized[i].eff : i \in own}
  <2>1. ContentCoverage = Latest(S)
    BY <1>4 DEF ContentCoverage
  <2>2. CASE S = {}
    BY <1>2, <2>1, <2>2 DEF Latest
  <2>3. CASE S # {}
    <3>1. \A i \in own : finalized[i].eff = finalized[i].fin + OwnFloor
      BY <1>1, <1>4 DEF RowsInOrder
    <3>2. S \subseteq 0..(second + OwnFloor)
      BY <1>1, <3>1
    <3>3. Max(S) \in S
      <4>1. second + OwnFloor \in Nat
        BY <1>1
      <4> QED
        BY <2>3, <3>2, <4>1, GreatestOf
    <3>4. PICK last \in own : Max(S) = finalized[last].eff
      BY <3>3
    <3>5. ContentCoverage = finalized[last].fin + LeastMargin /\ ContentCoverage \in Int
      <4>1. ContentCoverage = Max(S) /\ LeastMargin = OwnFloor
        BY <1>4, <2>1, <2>3 DEF LeastMargin, Latest
      <4> QED
        BY <1>1, <3>1, <3>4, <4>1
    <3> QED
      BY <1>1, <3>4, <3>5 DEF Proven
  <2> QED
    BY <2>2, <2>3
<1>5. CASE barrierTable \in {"policy", "attest"} /\ NewestHeld # Unread
  <2> DEFINE S == {finalized[i].eff : i \in mirrored}
  <2>1. mirrored # {} /\ S # {} /\ NewestHeld = Max(S)
    BY <1>5 DEF NewestHeld, Latest
  <2>2. \E most \in Nat : /\ \A i \in mirrored : finalized[i].margin <= most
                         /\ most - (MaxFuture - MinFuture) <= LeastMargin
    <3>1. CASE barrierTable = "policy"
      <4>1. \A i \in mirrored : finalized[i].margin <= MaxFuture
        BY <3>1 DEF RowsInOrder
      <4> QED
        BY <3>1, <4>1 DEF LeastMargin
    <3>2. CASE barrierTable = "attest"
      <4>1. \A i \in mirrored : finalized[i].margin = OwnFloor
        BY <3>2 DEF RowsInOrder
      <4> QED
        BY <3>2, <4>1 DEF LeastMargin
    <3> QED
      BY <1>5, <3>1, <3>2
  <2>3. PICK most \in Nat : /\ \A i \in mirrored : finalized[i].margin <= most
                           /\ most - (MaxFuture - MinFuture) <= LeastMargin
    BY <2>2
  <2>4. Max(S) \in S
    <3>1. S \subseteq 0..(second + most) /\ second + most \in Nat
      BY <1>1, <2>3
    <3> QED
      BY <2>1, <3>1, GreatestOf
  <2>5. PICK last \in mirrored : Max(S) = finalized[last].eff
    BY <2>4
  <2>6. ContentCoverage = Max(S) - (MaxFuture - MinFuture)
    BY <1>5, <2>1 DEF ContentCoverage
  <2>7. LeastMargin \in Int
    BY <1>1 DEF LeastMargin
  <2>8. ContentCoverage <= finalized[last].fin + LeastMargin /\ ContentCoverage \in Int
    <3>1. /\ finalized[last].fin \in Nat /\ finalized[last].margin \in Nat /\ finalized[last].margin <= most
          /\ finalized[last].eff = finalized[last].fin + finalized[last].margin
      BY <1>1, <2>3, <2>5
    <3> QED
      BY <2>3, <2>5, <2>6, <2>7, <3>1
  <2> QED
    BY <2>8 DEF Proven
<1>6. CASE NewestHeld = Unread
  BY <1>2, <1>6 DEF ContentCoverage
<1> QED
  BY <1>3, <1>4, <1>5, <1>6 DEF RowsInOrder

\* Nothing on its way is from before a row that is held, once a certificate
\* stands.
LEMMA HeldUpTo ==
  ASSUME RowsInOrder, MirrorInOrder, Drained, certified, NEW last \in mirrored,
         NEW i \in DOMAIN finalized, i <= last
  PROVE  i \in mirrored
<1>1. DOMAIN finalized \subseteq Nat
  BY DEF RowsInOrder
<1>2. i \in mirrored \/ Coming(i)
  BY <1>1 DEF Drained, Reached
<1>3. last \in Nat /\ i \in Nat
  BY <1>1 DEF MirrorInOrder
<1> QED
  BY <1>2, <1>3 DEF MirrorInOrder

\* A block that may run may run with what the mirror holds.
SatisfiedPasses == \A time \in Nat : Satisfied(time) => Passable(Passing(time))

LEMMA SatisfiedIsPassable == BarrierState => SatisfiedPasses
<1> SUFFICES ASSUME BarrierState, NEW time \in Nat, Satisfied(time)
             PROVE  Passable(Passing(time))
  BY DEF SatisfiedPasses
<1> USE MarginTypes
<1>1. /\ second \in Nat
      /\ \A i \in DOMAIN finalized :
           /\ finalized[i].fin \in Nat /\ finalized[i].eff \in Nat /\ finalized[i].margin \in Nat
           /\ finalized[i].eff = finalized[i].fin + finalized[i].margin
           /\ finalized[i].mine => finalized[i].margin >= LeastMargin
      /\ \A i, j \in DOMAIN finalized : i < j => finalized[i].fin < finalized[j].fin
      /\ DOMAIN finalized = 1..Len(finalized) /\ mirrored \subseteq DOMAIN finalized
  BY RowTypes DEF BarrierState, RowsInOrder, MirrorInOrder
<1>2. Passing(time).time = time /\ Passing(time).held = mirrored /\ Passing(time).seen = seen
      /\ Passing(time).free = (Free /\ certified)
  BY DEF Passing
<1>3. CASE Free
  <2>1. certified /\ seen \in Nat /\ seen <= Len(finalized) /\ 1..seen \subseteq mirrored
    BY <1>3 DEF Free, EmptyMirror, BarrierState, Drained
  <2>2. \A i \in DOMAIN finalized : i \in mirrored \/ i > seen
    BY <1>1, <2>1
  <2>3. seen \in 0..Len(finalized)
    BY <2>1, RowTypes DEF BarrierState
  <2> QED
    BY <1>2, <1>3, <2>1, <2>2, <2>3 DEF Passable, Complete, Closed
<1>4. CASE StreamCovers(time)
  <2>1. PICK mark \in Nat : mark >= time + Grace /\ HeldBefore(mark) /\ mark <= second
    <3>1. tableMark \in Nat /\ streamMark \in Nat /\ HeldBefore(tableMark) /\ HeldBefore(streamMark)
          /\ tableMark <= second /\ streamMark <= second /\ HeldBefore(0)
      BY <1>1 DEF BarrierState, MarksHold, HeldBefore
    <3> QED
      BY <1>1, <1>4, <3>1 DEF StreamCovers, Later
  <2>2. Grace \in Nat
    OBVIOUS
  <2>3. time <= second
    BY <1>1, <2>1, <2>2
  <2>4. ASSUME NEW i \in DOMAIN finalized, finalized[i].mine, finalized[i].eff <= time
        PROVE  i \in mirrored
    <3>1. finalized[i].fin < mark
      BY SMTT(60), <1>1, <2>1, <2>2, <2>4
    <3> QED
      BY <2>1, <3>1 DEF HeldBefore
  <2> QED
    BY <1>2, <2>3, <2>4 DEF Passable, Complete, Closed
<1>5. CASE ContentCovers(time)
  <2>1. certified /\ covered # Unread /\ covered >= time /\ Proven(covered)
    BY <1>5 DEF ContentCovers, BarrierState, ScalarsProven
  <2>2. PICK last \in mirrored : covered <= finalized[last].fin + LeastMargin
    BY <2>1 DEF Proven
  <2>3. covered \in Int /\ last \in DOMAIN finalized
    BY <1>1, <2>1 DEF Proven
  <2>4. time <= finalized[last].fin + LeastMargin
    BY <1>1, <2>1, <2>2, <2>3
  <2>5. ASSUME NEW i \in DOMAIN finalized, finalized[i].mine, finalized[i].eff <= time
        PROVE  i \in mirrored
    <3>1. ~ (last < i)
      <4> SUFFICES ASSUME last < i PROVE FALSE
        OBVIOUS
      <4>1. finalized[last].fin < finalized[i].fin /\ finalized[i].margin >= LeastMargin
        BY <1>1, <2>3, <2>5
      <4>2. finalized[i].eff > finalized[last].fin + LeastMargin
        BY SMTT(60), <1>1, <2>3, <4>1
      <4> QED
        BY <1>1, <2>3, <2>4, <2>5, <4>2
    <3>2. i <= last
      BY <1>1, <2>3, <3>1
    <3> QED
      BY <2>1, <3>2, HeldUpTo DEF BarrierState
  <2> QED
    BY <1>2, <2>3, <2>4, <2>5 DEF Passable, Complete, Closed
<1> QED
  BY <1>3, <1>4, <1>5 DEF Satisfied

\* The same of the state a step ends in.
LEMMA SatisfiedNext == BarrierState' => SatisfiedPasses'
  BY SatisfiedIsPassable, PTL

\* And of what a refresh reads in it.
LEMMA CoverageNext ==
  (RowsInOrder /\ mirrored \subseteq DOMAIN finalized)' => Proven(ContentCoverage)'
  BY CoverageIsProven, PTL

-----------------------------------------------------------------------------
(* The hub: a row more, a beat more, a second more.                        *)

\* A time that is proven stays so while the mirror and the hub only add rows.
LEMMA ProvenStays ==
  ASSUME MirrorInOrder, barrierTable' = barrierTable, mirrored \subseteq mirrored',
         \A i \in DOMAIN finalized : finalized'[i] = finalized[i],
         NEW time, Proven(time)
  PROVE  Proven(time)'
<1>1. LeastMargin' = LeastMargin
  BY DEF LeastMargin
<1> QED
  BY <1>1 DEF Proven, MirrorInOrder

\* So do the scalars, and what refreshes have read for them.
LEMMA ScalarsStay ==
  ASSUME MirrorInOrder, RefreshTypes, ScalarsProven,
         barrierTable' = barrierTable, mirrored \subseteq mirrored',
         \A i \in DOMAIN finalized : finalized'[i] = finalized[i],
         UNCHANGED <<covered, refresh>>
  PROVE  RefreshTypes' /\ ScalarsProven'
<1>1. \A time : Proven(time) => Proven(time)'
  BY ProvenStays
<1>2. \E time : time = covered /\ Proven(time)'
  BY <1>1 DEF ScalarsProven
<1>3. \A who \in {"live", "boot", "timer"} :
         \E time : time = refresh[who].covered /\ Proven(time)'
  BY <1>1 DEF ScalarsProven
<1>4. covered' = covered /\ refresh' = refresh
  OBVIOUS
<1> QED
  BY <1>2, <1>3, <1>4 DEF ScalarsProven, RefreshTypes, Proven

\* A row is finalized in a second of its own, with a margin of its table.
LEMMA FinalizesRow ==
  ASSUME RowsInOrder, HubFinalizes
  PROVE  /\ RowsInOrder'
         /\ Len(finalized') = Len(finalized) + 1 /\ DOMAIN finalized' = 1..(Len(finalized) + 1)
         /\ \A i \in DOMAIN finalized : finalized'[i] = finalized[i]
         /\ finalized'[Len(finalized) + 1].fin = second
         /\ \A i \in DOMAIN finalized : finalized[i].fin < second
         /\ LET new == finalized'[Len(finalized) + 1]
            IN  new.mine => new.eff >= second + LeastMargin
<1> USE MarginTypes
<1>1. PICK m \in Margins :
         finalized' = Append(finalized, [fin |-> second, eff |-> second + m[1],
                                         margin |-> m[1], mine |-> m[2]])
  BY DEF HubFinalizes
<1>2. /\ m[1] \in Nat /\ m[2] \in BOOLEAN /\ (m[2] => m[1] >= LeastMargin)
      /\ barrierTable = "policy" => m[1] <= MaxFuture
      /\ barrierTable \in {"call", "attest"} /\ m[2] => m[1] = OwnFloor
      /\ barrierTable = "attest" => m[2]
  <2>1. barrierTable \in {"match", "call", "policy", "attest"}
    BY BarrierTablesAssumption DEF RowsInOrder
  <2>2. CASE barrierTable = "match"
    <3>1. PICK f \in OtherFloors : m = <<IF f > OwnFloor THEN f ELSE OwnFloor, TRUE>>
      BY <2>2 DEF Margins
    <3> QED
      BY <2>2, <3>1 DEF LeastMargin
  <2>3. CASE barrierTable = "call"
    <3>1. m = <<OwnFloor, TRUE>> \/ \E f \in OtherFloors : m = <<f, FALSE>>
      BY <2>3 DEF Margins
    <3>2. CASE m = <<OwnFloor, TRUE>>
      BY <2>3, <3>2 DEF LeastMargin
    <3>3. CASE \E f \in OtherFloors : m = <<f, FALSE>>
      <4>1. m[1] \in Nat /\ m[2] = FALSE
        BY <3>3
      <4> QED
        BY <2>3, <4>1
    <3> QED
      BY <3>1, <3>2, <3>3
  <2>4. CASE barrierTable = "policy"
    <3>1. m[1] \in MinFuture..MaxFuture /\ m[2] = TRUE
      BY <2>4 DEF Margins
    <3>2. m[1] \in Nat /\ MinFuture <= m[1] /\ m[1] <= MaxFuture
      BY <3>1
    <3>3. LeastMargin = MinFuture
      BY <2>4 DEF LeastMargin
    <3> QED
      BY <2>4, <3>1, <3>2, <3>3
  <2>5. CASE barrierTable = "attest"
    <3>1. m = <<OwnFloor, TRUE>>
      BY <2>5 DEF Margins
    <3> QED
      BY <2>5, <3>1 DEF LeastMargin
  <2> QED
    BY <2>1, <2>2, <2>3, <2>4, <2>5
<1> DEFINE n == Len(finalized) + 1
           new == [fin |-> second, eff |-> second + m[1], margin |-> m[1], mine |-> m[2]]
<1>3. /\ second \in Nat /\ Len(finalized) \in Nat /\ DOMAIN finalized = 1..Len(finalized)
      /\ finalized \in Seq(BarrierRows) /\ UNCHANGED <<barrierTable, second>>
  BY RowTypes DEF RowsInOrder, HubFinalizes
<1>4. new \in BarrierRows
  BY <1>2, <1>3 DEF BarrierRows
<1>5. /\ finalized' \in Seq(BarrierRows) /\ Len(finalized') = n /\ DOMAIN finalized' = 1..n
      /\ finalized'[n] = new /\ \A i \in DOMAIN finalized : finalized'[i] = finalized[i]
  BY <1>1, <1>3, <1>4
<1>6. \A i \in DOMAIN finalized : finalized[i].fin < second
  <2>1. CASE finalized = <<>>
    BY <2>1
  <2>2. CASE finalized # <<>>
    <3>1. Len(finalized) \in DOMAIN finalized /\ finalized[Len(finalized)].fin < second
      BY <1>3, <2>2 DEF HubFinalizes
    <3>2. \A i \in DOMAIN finalized : finalized[i].fin \in Nat
      BY RowTypes
    <3>3. ASSUME NEW i \in DOMAIN finalized PROVE finalized[i].fin < second
      <4>1. CASE i = Len(finalized)
        BY <3>1, <4>1
      <4>2. CASE i < Len(finalized)
        BY <1>3, <3>1, <3>2, <4>2 DEF RowsInOrder
      <4> QED
        BY <1>3, <4>1, <4>2
    <3> QED
      BY <3>3
  <2> QED
    BY <2>1, <2>2
<1>7. \A i \in DOMAIN finalized' : i \in DOMAIN finalized \/ i = n
  BY <1>3, <1>5
<1>8. LeastMargin' = LeastMargin
  BY <1>3 DEF LeastMargin
<1>9. RowsInOrder'
  <2>1. ASSUME NEW i \in DOMAIN finalized'
        PROVE  /\ finalized'[i].fin <= second /\ finalized'[i].eff = finalized'[i].fin + finalized'[i].margin
               /\ finalized'[i].mine => finalized'[i].margin >= LeastMargin
               /\ barrierTable = "policy" => finalized'[i].margin <= MaxFuture
               /\ barrierTable \in {"call", "attest"} /\ finalized'[i].mine => finalized'[i].margin = OwnFloor
               /\ barrierTable = "attest" => finalized'[i].mine
    <3>1. CASE i \in DOMAIN finalized
      BY <1>5, <3>1 DEF RowsInOrder
    <3>2. CASE i = n
      BY <1>2, <1>3, <1>5, <3>2
    <3> QED
      BY <1>7, <3>1, <3>2
  <2>2. ASSUME NEW i \in DOMAIN finalized', NEW j \in DOMAIN finalized', i < j
        PROVE  finalized'[i].fin < finalized'[j].fin
    <3>1. i \in DOMAIN finalized
      BY <1>3, <1>5, <2>2
    <3>2. CASE j \in DOMAIN finalized
      BY <1>5, <2>2, <3>1, <3>2 DEF RowsInOrder
    <3>3. CASE j = n
      BY <1>5, <1>6, <3>1, <3>3
    <3> QED
      BY <1>7, <3>2, <3>3
  <2> QED
    BY <1>3, <1>5, <1>8, <2>1, <2>2 DEF RowsInOrder
<1>10. finalized'[n].mine => finalized'[n].eff >= second + LeastMargin
  BY <1>2, <1>3, <1>5
<1> QED
  BY <1>5, <1>6, <1>9, <1>10

\* The frames of a connection, and one more at their end.
LEMMA FrameAppended ==
  ASSUME FramesInOrder, NEW frame \in BarrierFrames, sending' = Append(sending, frame)
  PROVE  /\ sending' \in Seq(BarrierFrames) /\ Len(sending) \in Nat /\ DOMAIN sending = 1..Len(sending)
         /\ DOMAIN sending' = 1..(Len(sending) + 1)
         /\ sending'[Len(sending) + 1] = frame /\ \A k \in DOMAIN sending : sending'[k] = sending[k]
         /\ \A k \in DOMAIN sending' : k \in DOMAIN sending \/ k = Len(sending) + 1
         /\ \A k \in DOMAIN sending : k < Len(sending) + 1
         /\ \A k, j \in DOMAIN sending' : k < j => k \in DOMAIN sending
  BY DEF FramesInOrder

\* A row more is behind everything the mirror holds, or not on its way at all.
LEMMA FinalizesKeeps ==
  ASSUME BarrierState, HubFinalizes
  PROVE  BarrierState'
<1>0. PICK n \in Nat : n = Len(finalized) + 1
  BY RowTypes DEF BarrierState
<1>1. /\ RowsInOrder' /\ Len(finalized') = n /\ DOMAIN finalized' = 1..n
      /\ \A i \in DOMAIN finalized : finalized'[i] = finalized[i]
      /\ finalized'[n].fin = second
  BY <1>0, FinalizesRow DEF BarrierState
<1>2. /\ UNCHANGED <<barrierTable, second, subscribed, mirrored, boot, certified, seen, tableMark,
                     streamMark, armed, newest, covered, refresh>>
      /\ sending' = IF subscribed THEN Append(sending, Frame("row", n)) ELSE sending
  BY <1>1 DEF HubFinalizes, Sent, scalarVars
<1>3. /\ second \in Nat /\ Len(finalized) \in Nat /\ n \in Nat /\ DOMAIN finalized = 1..Len(finalized)
      /\ \A i \in DOMAIN finalized' : i \in DOMAIN finalized \/ i = n
      /\ DOMAIN finalized \subseteq DOMAIN finalized' /\ n \notin DOMAIN finalized
  BY <1>0, <1>1, RowTypes DEF BarrierState
<1>4. Frame("row", n) \in BarrierFrames /\ Frame("row", n).type = "row" /\ Frame("row", n).value = n
  BY <1>3 DEF Frame, BarrierFrames
<1>5. FramesInOrder'
  <2>1. CASE ~ subscribed
    <3>1. sending' = <<>> /\ subscribed' = FALSE
      BY <1>2, <2>1 DEF BarrierState, FramesInOrder
    <3>2. sending' \in Seq(BarrierFrames) /\ DOMAIN sending' = {}
      BY <3>1
    <3> QED
      BY <3>1, <3>2 DEF FramesInOrder
  <2>2. CASE subscribed
    <3> DEFINE end == Len(sending) + 1
    <3>1. /\ sending' \in Seq(BarrierFrames)
          /\ sending'[end] = Frame("row", n) /\ \A k \in DOMAIN sending : sending'[k] = sending[k]
          /\ \A k \in DOMAIN sending' : k \in DOMAIN sending \/ k = end
          /\ \A k, j \in DOMAIN sending' : k < j => k \in DOMAIN sending
      BY <1>2, <1>4, <2>2, FrameAppended DEF BarrierState
    <3>2. ASSUME NEW k \in DOMAIN sending
          PROVE  IF IsRow(k) THEN sending[k].value \in DOMAIN finalized ELSE sending[k].value <= second
      BY DEF BarrierState, FramesInOrder
    <3>3. ASSUME NEW k \in DOMAIN sending'
          PROVE  IF IsRow(k)' THEN sending'[k].value \in DOMAIN finalized' ELSE sending'[k].value <= second
      <4>1. CASE k = end
        <5>1. sending'[k].type = "row" /\ sending'[k].value = n
          BY <1>4, <3>1, <4>1
        <5>2. n \in DOMAIN finalized'
          BY <1>0, <1>1, <1>3
        <5> QED
          BY <5>1, <5>2 DEF IsRow
      <4>2. CASE k \in DOMAIN sending
        BY <1>3, <3>1, <3>2, <4>2 DEF IsRow
      <4> QED
        BY <3>1, <4>1, <4>2
    <3>4. ASSUME NEW k \in DOMAIN sending', NEW j \in DOMAIN sending', k < j, IsRow(j)'
          PROVE  IF IsRow(k)' THEN sending'[k].value < sending'[j].value
                 ELSE sending'[k].value <= finalized'[sending'[j].value].fin
      <4>1. k \in DOMAIN sending /\ sending'[k] = sending[k]
        BY <3>1, <3>4
      <4>2. CASE j = end
        <5>1. sending'[j].value = n
          BY <1>4, <3>1, <4>2
        <5>2. IsRow(k) => sending[k].value \in 1..Len(finalized)
          BY <1>3, <3>2, <4>1
        <5>3. ~ IsRow(k) => sending[k].value <= second
          BY <3>2, <4>1
        <5> QED
          BY <1>1, <1>3, <4>1, <5>1, <5>2, <5>3 DEF IsRow
      <4>3. CASE j \in DOMAIN sending
        <5>1. sending'[j] = sending[j] /\ IsRow(j)
          BY <3>1, <3>4, <4>3 DEF IsRow
        <5>2. IF IsRow(k) THEN sending[k].value < sending[j].value
              ELSE sending[k].value <= finalized[sending[j].value].fin
          BY <3>4, <4>1, <4>3, <5>1 DEF BarrierState, FramesInOrder
        <5>3. sending[j].value \in DOMAIN finalized
          BY <3>2, <4>3, <5>1
        <5> QED
          BY <1>1, <4>1, <5>1, <5>2, <5>3 DEF IsRow
      <4> QED
        BY <3>1, <4>2, <4>3
    <3> QED
      BY <1>2, <2>2, <3>1, <3>3, <3>4 DEF FramesInOrder, BarrierState
  <2> QED
    BY <2>1, <2>2
<1>6. /\ \A i \in DOMAIN finalized : Coming(i)' <=> Coming(i)
      /\ subscribed => Coming(n)'
  <2>1. CASE ~ subscribed
    BY <1>2, <2>1 DEF Coming, IsRow
  <2>2. CASE subscribed
    <3> DEFINE end == Len(sending) + 1
    <3>1. /\ DOMAIN sending \subseteq DOMAIN sending' /\ end \in DOMAIN sending'
          /\ sending'[end] = Frame("row", n) /\ \A k \in DOMAIN sending : sending'[k] = sending[k]
          /\ \A k \in DOMAIN sending' : k \in DOMAIN sending \/ k = end
      BY <1>2, <1>4, <2>2, FrameAppended DEF BarrierState
    <3>2. Coming(n)'
      BY <1>4, <3>1 DEF Coming, IsRow
    <3>3. ASSUME NEW i \in DOMAIN finalized PROVE Coming(i)' <=> Coming(i)
      <4>1. i # n
        BY <1>3
      <4>2. Coming(i) => Coming(i)'
        BY <3>1 DEF Coming, IsRow
      <4>3. Coming(i)' => Coming(i)
        BY <1>4, <3>1, <4>1 DEF Coming, IsRow
      <4> QED
        BY <4>2, <4>3
    <3> QED
      BY <3>2, <3>3
  <2> QED
    BY <2>1, <2>2
<1>7. MirrorInOrder'
  <2>1. mirrored \subseteq DOMAIN finalized
    BY DEF BarrierState, MirrorInOrder
  <2>2. ASSUME NEW i \in DOMAIN finalized', NEW last \in mirrored, Coming(i)', i < last
        PROVE  i \in mirrored
    <3>1. i \in DOMAIN finalized
      BY <1>3, <2>1, <2>2
    <3> QED
      BY <1>6, <2>2, <3>1 DEF BarrierState, MirrorInOrder
  <2> QED
    BY <1>2, <1>3, <2>1, <2>2 DEF MirrorInOrder
<1>8. ASSUME NEW p \in Nat, Reached(p), subscribed PROVE Reached(p)'
  BY <1>2, <1>3, <1>6, <1>8 DEF Reached
<1>9. ASSUME NEW mark \in Nat, HeldBefore(mark), mark <= second PROVE HeldBefore(mark)'
  BY <1>1, <1>2, <1>3, <1>9 DEF HeldBefore
<1>10. Drained'
  <2>1. Drained
    BY DEF BarrierState
  <2>2. boot.page \in Nat /\ boot.mark \in Nat
    BY <2>1 DEF Drained
  <2>3. boot.pc = "landing" =>
          /\ boot.page <= Len(finalized') /\ boot.mark <= second /\ Reached(boot.page)'
          /\ \A i \in DOMAIN finalized' : finalized'[i].fin < boot.mark => i <= boot.page
    <3> SUFFICES ASSUME boot.pc = "landing"
                 PROVE  /\ boot.page <= Len(finalized') /\ boot.mark <= second /\ Reached(boot.page)'
                        /\ \A i \in DOMAIN finalized' : finalized'[i].fin < boot.mark => i <= boot.page
      OBVIOUS
    <3>1. /\ subscribed /\ boot.page <= Len(finalized) /\ boot.mark <= second /\ Reached(boot.page)
          /\ \A i \in DOMAIN finalized : finalized[i].fin < boot.mark => i <= boot.page
      BY <2>1 DEF Drained
    <3>2. PICK p \in Nat : p = boot.page
      BY <2>2
    <3>3. Reached(p)'
      BY <1>8, <3>1, <3>2
    <3>4. Reached(boot.page)'
      BY <1>2, <3>2, <3>3
    <3>5. \A i \in DOMAIN finalized' : finalized'[i].fin < boot.mark => i <= boot.page
      BY <1>1, <1>3, <2>2, <3>1
    <3> QED
      BY <1>1, <1>3, <2>2, <3>1, <3>4, <3>5
  <2>4. boot.pc = "arming" =>
          /\ 1..boot.page \subseteq mirrored /\ boot.page <= Len(finalized') /\ boot.mark <= second
          /\ Reached(0)' /\ HeldBefore(boot.mark)'
    <3> SUFFICES ASSUME boot.pc = "arming"
                 PROVE  /\ 1..boot.page \subseteq mirrored /\ boot.page <= Len(finalized')
                        /\ boot.mark <= second /\ Reached(0)' /\ HeldBefore(boot.mark)'
      OBVIOUS
    <3>1. /\ subscribed /\ 1..boot.page \subseteq mirrored /\ boot.page <= Len(finalized)
          /\ boot.mark <= second /\ Reached(0) /\ HeldBefore(boot.mark)
      BY <2>1 DEF Drained
    <3>2. PICK mark \in Nat : mark = boot.mark
      BY <2>2
    <3>3. HeldBefore(mark)'
      BY <1>9, <3>1, <3>2
    <3>4. HeldBefore(boot.mark)'
      BY <1>2, <3>2, <3>3
    <3> QED
      BY <1>1, <1>3, <1>8, <2>2, <3>1, <3>4
  <2>5. certified => Reached(0)'
    BY <1>8, <2>1 DEF Drained
  <2>6. seen \in Nat /\ seen <= Len(finalized')
    BY <1>1, <1>3, <2>1 DEF Drained
  <2>7. boot' = boot /\ certified' = certified /\ seen' = seen /\ subscribed' = subscribed
        /\ mirrored' = mirrored /\ second' = second
    BY <1>2
  <2> QED
    BY <2>1, <2>3, <2>4, <2>5, <2>6, <2>7 DEF Drained
<1>11. MarksHold'
  <2>1. PICK t \in Nat : t = tableMark /\ t <= second /\ HeldBefore(t)
    BY DEF BarrierState, MarksHold
  <2>2. PICK s \in Nat : s = streamMark /\ s <= second /\ HeldBefore(s)
    BY DEF BarrierState, MarksHold
  <2>3. HeldBefore(t)' /\ HeldBefore(s)'
    BY <1>9, <2>1, <2>2
  <2>4. t = tableMark' /\ s = streamMark' /\ second' = second
    BY <1>2, <2>1, <2>2
  <2> QED
    BY <2>1, <2>2, <2>3, <2>4 DEF MarksHold
<1>12. RefreshTypes' /\ ScalarsProven'
  BY <1>1, <1>2, ScalarsStay DEF BarrierState
<1> QED
  BY <1>1, <1>5, <1>7, <1>10, <1>11, <1>12 DEF BarrierState

\* A beat goes out behind the rows finalized before its second.
LEMMA BeatKeeps ==
  ASSUME BarrierState, HubSendsBeat
  PROVE  BarrierState'
<1>1. /\ subscribed /\ sending' = Append(sending, Frame("beat", second))
      /\ UNCHANGED <<barrierTable, second, finalized, subscribed, mirrored, boot, certified, seen,
                     tableMark, streamMark, armed, newest, covered, refresh>>
  BY DEF HubSendsBeat, Sent, scalarVars, barrierHubVars
<1>2. second \in Nat /\ \A i \in DOMAIN finalized : finalized[i].fin \in Nat
  BY RowTypes DEF BarrierState
<1>3. Frame("beat", second) \in BarrierFrames /\ Frame("beat", second).type = "beat"
      /\ Frame("beat", second).value = second
  BY <1>2 DEF Frame, BarrierFrames
<1> DEFINE end == Len(sending) + 1
<1>4. /\ sending' \in Seq(BarrierFrames) /\ DOMAIN sending \subseteq DOMAIN sending'
      /\ sending'[end] = Frame("beat", second) /\ \A k \in DOMAIN sending : sending'[k] = sending[k]
      /\ \A k \in DOMAIN sending' : k \in DOMAIN sending \/ k = end
      /\ \A k, j \in DOMAIN sending' : k < j => k \in DOMAIN sending
  BY <1>1, <1>3, FrameAppended DEF BarrierState
<1>5. \A k \in DOMAIN sending' : IsRow(k)' => k \in DOMAIN sending /\ IsRow(k)
  BY <1>3, <1>4 DEF IsRow
<1>6. FramesInOrder'
  <2>1. ASSUME NEW k \in DOMAIN sending'
        PROVE  IF IsRow(k)' THEN sending'[k].value \in DOMAIN finalized ELSE sending'[k].value <= second
    <3>1. CASE k \in DOMAIN sending
      BY <1>4, <3>1 DEF BarrierState, FramesInOrder, IsRow
    <3>2. CASE k = end
      BY <1>2, <1>3, <1>4, <3>2 DEF IsRow
    <3> QED
      BY <1>4, <3>1, <3>2
  <2>2. ASSUME NEW k \in DOMAIN sending', NEW j \in DOMAIN sending', k < j, IsRow(j)'
        PROVE  IF IsRow(k)' THEN sending'[k].value < sending'[j].value
               ELSE sending'[k].value <= finalized[sending'[j].value].fin
    <3>1. k \in DOMAIN sending /\ j \in DOMAIN sending /\ IsRow(j)
      BY <1>4, <1>5, <2>2
    <3> QED
      BY <1>4, <2>2, <3>1 DEF BarrierState, FramesInOrder, IsRow
  <2> QED
    BY <1>1, <1>4, <2>1, <2>2 DEF FramesInOrder, BarrierState
<1>7. \A i : Coming(i)' <=> Coming(i)
  BY <1>4, <1>5 DEF Coming, IsRow
<1>8. MirrorInOrder' /\ Drained' /\ MarksHold'
  BY <1>1, <1>7 DEF BarrierState, MirrorInOrder, Drained, MarksHold, Reached, HeldBefore
<1>9. RefreshTypes' /\ ScalarsProven'
  BY <1>1, ScalarsStay DEF BarrierState
<1>10. RowsInOrder'
  BY <1>1 DEF BarrierState, RowsInOrder, LeastMargin
<1> QED
  BY <1>6, <1>8, <1>9, <1>10 DEF BarrierState

\* Nothing changes with the clock but what may come.
LEMMA SecondKeeps ==
  ASSUME BarrierState, SecondPasses
  PROVE  BarrierState'
<1>1. /\ second' = second + 1
      /\ UNCHANGED <<barrierTable, finalized, subscribed, sending, mirrored, boot, certified, seen,
                     tableMark, streamMark, armed, newest, covered, refresh>>
  BY DEF SecondPasses, scalarVars, mirrorVars
<1>2. second \in Nat /\ \A i \in DOMAIN finalized : finalized[i].fin \in Nat
  BY RowTypes DEF BarrierState
<1>3. \A t \in Nat : t <= second => t <= second'
  BY <1>1, <1>2
<1>4. RowsInOrder'
  BY <1>1, <1>2, <1>3 DEF BarrierState, RowsInOrder, LeastMargin
<1>5. FramesInOrder'
  <2>1. \A k \in DOMAIN sending : sending[k].value \in Nat
    <3>1. \A k \in DOMAIN sending : sending[k] \in BarrierFrames
      BY DEF BarrierState, FramesInOrder
    <3> QED
      BY <3>1 DEF BarrierFrames
  <2> QED
    BY <1>1, <1>3, <2>1 DEF BarrierState, FramesInOrder, IsRow
<1>6. MirrorInOrder'
  BY <1>1 DEF BarrierState, MirrorInOrder, Coming, IsRow
<1>7. Drained'
  <2>1. boot.mark \in Nat
    BY DEF BarrierState, Drained
  <2> QED
    BY <1>1, <1>3, <2>1 DEF BarrierState, Drained, Reached, HeldBefore, Coming, IsRow
<1>8. MarksHold'
  <2>1. tableMark \in Nat /\ streamMark \in Nat
    BY DEF BarrierState, MarksHold
  <2> QED
    BY <1>1, <1>3, <2>1 DEF BarrierState, MarksHold, HeldBefore
<1>9. RefreshTypes' /\ ScalarsProven'
  BY <1>1, ScalarsStay DEF BarrierState
<1> QED
  BY <1>4, <1>5, <1>6, <1>7, <1>8, <1>9 DEF BarrierState

-----------------------------------------------------------------------------
(* Refreshes and the connection.                                           *)

\* A refresh that starts has read times that are proven.
LEMMA StartsProven ==
  ASSUME MirrorInOrder, RefreshTypes, ScalarsProven, NEW who \in {"live", "boot", "timer"}, NEW arm,
         (RowsInOrder /\ mirrored \subseteq DOMAIN finalized)',
         UNCHANGED <<barrierTable, finalized, covered>>, mirrored \subseteq mirrored',
         StartsRefresh(who, arm)
  PROVE  RefreshTypes' /\ ScalarsProven'
<1>1. Proven(ContentCoverage)'
  BY CoverageNext
<1>2. PICK read : read = ContentCoverage'
  OBVIOUS
<1>3. Proven(read)'
  BY <1>1, <1>2 DEF Proven
<1>4. \A time : Proven(time) => Proven(time)'
  BY ProvenStays
<1>5. PICK old : old = covered /\ Proven(old)
  BY DEF ScalarsProven
<1>6. old = covered' /\ Proven(old)'
  BY <1>4, <1>5
<1>7. PICK new : new.covered = read /\ refresh' = [refresh EXCEPT ![who] = new]
  BY <1>2 DEF StartsRefresh
<1>8. RefreshTypes' /\ refresh'[who] = new
      /\ \A w \in {"live", "boot", "timer"} \ {who} : refresh'[w] = refresh[w]
  BY <1>7 DEF RefreshTypes
<1>9. ASSUME NEW w \in {"live", "boot", "timer"}
      PROVE  \E time : time = refresh'[w].covered /\ Proven(time)'
  <2>1. CASE w = who
    BY <1>3, <1>7, <1>8, <2>1
  <2>2. CASE w # who
    <3>1. PICK time : time = refresh[w].covered /\ Proven(time)
      BY DEF ScalarsProven
    <3> QED
      BY <1>4, <1>8, <2>2, <3>1
  <2> QED
    BY <2>1, <2>2
<1> QED
  BY <1>6, <1>8, <1>9 DEF ScalarsProven, Proven

\* Subscribing, a page served and a timer change nothing that is held.
LEMMA AsksKeeps ==
  ASSUME BarrierState, Subscribe \/ PageIsServed \/ TimerFires
  PROVE  BarrierState'
<1>1. UNCHANGED <<barrierTable, second, finalized, sending, mirrored, certified, seen,
                  tableMark, streamMark, armed, newest, covered>>
  BY DEF Subscribe, PageIsServed, TimerFires, barrierHubVars, mirrorVars, scalarVars
<1>2. RowsInOrder' /\ MirrorInOrder' /\ MarksHold'
  BY <1>1 DEF BarrierState, RowsInOrder, LeastMargin, MirrorInOrder, Coming, IsRow, MarksHold, HeldBefore
<1>3. (RowsInOrder /\ mirrored \subseteq DOMAIN finalized)'
  BY <1>2 DEF MirrorInOrder
<1>4. RefreshTypes' /\ ScalarsProven'
  <2>1. CASE PageIsServed
    BY <1>1, <2>1, ScalarsStay DEF BarrierState, PageIsServed, scalarVars
  <2>2. CASE Subscribe
    BY <1>1, <1>3, <2>2, StartsProven DEF BarrierState, Subscribe
  <2>3. CASE TimerFires
    <3>1. StartsRefresh("timer", ArmBootstrap)
      BY <2>3 DEF TimerFires
    <3> HIDE DEF ArmBootstrap
    <3>2. PICK arm : arm = ArmBootstrap
      OBVIOUS
    <3>3. StartsRefresh("timer", arm)
      BY <3>1, <3>2 DEF StartsRefresh
    <3> QED
      BY <1>1, <1>3, <3>3, StartsProven DEF BarrierState
  <2> QED
    BY <2>1, <2>2, <2>3
<1>5. FramesInOrder'
  <2>1. CASE Subscribe
    <3>1. subscribed' \in BOOLEAN /\ subscribed' /\ sending = <<>>
      BY <2>1 DEF Subscribe, BarrierState, FramesInOrder
    <3> QED
      BY <1>1, <3>1 DEF BarrierState, FramesInOrder, IsRow
  <2>2. CASE PageIsServed \/ TimerFires
    BY <1>1, <2>2 DEF BarrierState, FramesInOrder, IsRow, PageIsServed, TimerFires, mirrorVars
  <2> QED
    BY <2>1, <2>2
<1>6. Drained'
  <2>1. Drained /\ DOMAIN finalized = 1..Len(finalized) /\ Len(finalized) \in Nat /\ second \in Nat
        /\ \A i \in DOMAIN finalized : finalized[i].fin \in Nat
    BY RowTypes DEF BarrierState
  <2>2. CASE Subscribe
    <3>1. boot' = [NoBoot EXCEPT !.pc = "refreshing"] /\ subscribed' = TRUE
      BY <2>2 DEF Subscribe
    <3>2. boot' = [pc |-> "refreshing", page |-> 0, mark |-> 0]
      BY <3>1 DEF NoBoot
    <3>3. certified' = FALSE
      BY <1>1, <2>1, <2>2 DEF Drained, Subscribe
    <3>4. boot' \in [pc : {"idle", "refreshing", "asking", "landing", "arming"}, page : Nat, mark : Nat]
          /\ boot'.pc = "refreshing"
      BY <3>2
    <3> QED
      BY <1>1, <2>1, <3>1, <3>3, <3>4 DEF Drained
  <2>3. CASE PageIsServed
    <3>1. /\ boot.pc = "asking" /\ UNCHANGED subscribed
          /\ boot' = [pc |-> "landing", page |-> Len(finalized), mark |-> second]
      BY <2>3 DEF PageIsServed
    <3>2. \A i \in DOMAIN finalized : i <= Len(finalized)
      BY <2>1
    <3> QED
      BY <1>1, <2>1, <3>1, <3>2 DEF Drained, Reached, Coming, IsRow
  <2>4. CASE TimerFires
    BY <1>1, <2>1, <2>4 DEF Drained, Reached, HeldBefore, Coming, IsRow, TimerFires, mirrorVars
  <2> QED
    BY <2>2, <2>3, <2>4
<1> QED
  BY <1>2, <1>4, <1>5, <1>6 DEF BarrierState

\* A socket that closes takes its frames, its drain and its certificate along.
LEMMA ClosesKeeps ==
  ASSUME BarrierState, LinkCloses
  PROVE  BarrierState'
<1>1. /\ UNCHANGED <<barrierTable, second, finalized, mirrored, seen, tableMark, streamMark,
                     armed, newest, covered, refresh>>
      /\ subscribed' = FALSE /\ sending' = <<>> /\ certified' = FALSE
      /\ boot' = [pc |-> "idle", page |-> 0, mark |-> 0]
  BY DEF LinkCloses, LostCertificate, NoBoot, scalarVars
<1>2. sending' \in Seq(BarrierFrames) /\ DOMAIN sending' = {}
  BY <1>1
<1>3. RowsInOrder' /\ MarksHold'
  BY <1>1 DEF BarrierState, RowsInOrder, LeastMargin, MarksHold, HeldBefore
<1>4. FramesInOrder' /\ MirrorInOrder'
  BY <1>1, <1>2 DEF BarrierState, FramesInOrder, MirrorInOrder, Coming
<1>5. Drained'
  BY <1>1 DEF BarrierState, Drained
<1>6. RefreshTypes' /\ ScalarsProven'
  BY <1>1, ScalarsStay DEF BarrierState
<1> QED
  BY <1>3, <1>4, <1>5, <1>6 DEF BarrierState

\* A frame handled is the first, and leaves the others in order.
LEMMA FirstHandled ==
  ASSUME FramesInOrder, sending # <<>>, sending' = Tail(sending),
         UNCHANGED <<subscribed, finalized, second>>
  PROVE  /\ FramesInOrder' /\ subscribed
         /\ 1 \in DOMAIN sending /\ sending[1] \in BarrierFrames
         /\ \A i : Coming(i) => Coming(i)' \/ (IsRow(1) /\ sending[1].value = i)
         /\ \A i : Coming(i)' => /\ Coming(i)
                                 /\ \E k \in DOMAIN sending : 1 < k /\ IsRow(k) /\ sending[k].value = i
<1>1. /\ sending \in Seq(BarrierFrames) /\ Len(sending) \in Nat /\ DOMAIN sending = 1..Len(sending)
      /\ Len(sending) # 0
  BY DEF FramesInOrder
<1>2. /\ sending' \in Seq(BarrierFrames) /\ DOMAIN sending' = 1..(Len(sending) - 1)
      /\ \A k \in DOMAIN sending' : sending'[k] = sending[k + 1]
  BY <1>1
<1>3. \A k \in DOMAIN sending' : k + 1 \in DOMAIN sending /\ 1 < k + 1
  BY <1>1, <1>2
<1>4. \A k \in DOMAIN sending : k = 1 \/ k - 1 \in DOMAIN sending'
  BY <1>1, <1>2
<1>5. \A k \in DOMAIN sending' : IsRow(k)' <=> IsRow(k + 1)
  BY <1>2 DEF IsRow
<1>6. FramesInOrder'
  <2>1. ~ subscribed' => sending' = <<>>
    BY DEF FramesInOrder
  <2>2. ASSUME NEW k \in DOMAIN sending'
        PROVE  IF IsRow(k)' THEN sending'[k].value \in DOMAIN finalized' ELSE sending'[k].value <= second'
    <3>1. PICK h \in DOMAIN sending : h = k + 1
      BY <1>3
    <3>2. IF IsRow(h) THEN sending[h].value \in DOMAIN finalized ELSE sending[h].value <= second
      BY DEF FramesInOrder
    <3> QED
      BY <1>2, <1>5, <3>1, <3>2
  <2>3. ASSUME NEW k \in DOMAIN sending', NEW j \in DOMAIN sending', k < j, IsRow(j)'
        PROVE  IF IsRow(k)' THEN sending'[k].value < sending'[j].value
               ELSE sending'[k].value <= finalized'[sending'[j].value].fin
    <3>1. PICK h \in DOMAIN sending : h = k + 1
      BY <1>3
    <3>2. PICK l \in DOMAIN sending : l = j + 1
      BY <1>3
    <3>3. h < l /\ IsRow(l)
      BY <1>1, <1>2, <1>5, <2>3, <3>1, <3>2
    <3>4. IF IsRow(h) THEN sending[h].value < sending[l].value
          ELSE sending[h].value <= finalized[sending[l].value].fin
      BY <3>3 DEF FramesInOrder
    <3> QED
      BY <1>2, <1>5, <3>1, <3>2, <3>4
  <2> QED
    BY <1>2, <2>1, <2>2, <2>3 DEF FramesInOrder
<1>7. ASSUME NEW i, Coming(i)
      PROVE  Coming(i)' \/ (IsRow(1) /\ sending[1].value = i)
  <2>1. PICK k \in DOMAIN sending : IsRow(k) /\ sending[k].value = i
    BY <1>7 DEF Coming
  <2>2. CASE k = 1
    BY <2>1, <2>2
  <2>3. CASE k # 1
    <3>1. PICK h \in DOMAIN sending' : h = k - 1
      BY <1>4, <2>3
    <3>2. sending'[h] = sending[k]
      BY <1>1, <1>2, <3>1
    <3> QED
      BY <2>1, <3>2 DEF Coming, IsRow
  <2> QED
    BY <2>2, <2>3
<1>8. ASSUME NEW i, Coming(i)'
      PROVE  \E k \in DOMAIN sending : 1 < k /\ IsRow(k) /\ sending[k].value = i
  <2>1. PICK k \in DOMAIN sending' : IsRow(k)' /\ sending'[k].value = i
    BY <1>8 DEF Coming
  <2>2. k + 1 \in DOMAIN sending /\ 1 < k + 1 /\ IsRow(k + 1) /\ sending[k + 1].value = i
    BY <1>2, <1>3, <1>5, <2>1
  <2> QED
    BY <2>2
<1>9. \A i : Coming(i)' => Coming(i)
  BY <1>8 DEF Coming
<1>10. subscribed /\ 1 \in DOMAIN sending /\ sending[1] \in BarrierFrames
  BY <1>1 DEF FramesInOrder
<1> QED
  BY <1>6, <1>7, <1>8, <1>9, <1>10

\* A row on the wire is handled before any row after it.
LEMMA RowFrameKeeps ==
  ASSUME BarrierState, HandleRowFrame
  PROVE  BarrierState'
<1>1. /\ UNCHANGED <<barrierTable, second, finalized, subscribed, boot, certified, seen,
                     tableMark, streamMark, armed, newest, covered>>
      /\ sending # <<>> /\ IsRow(1) /\ sending' = Tail(sending)
      /\ mirrored' = mirrored \cup {sending[1].value}
  BY DEF HandleRowFrame, barrierHubVars, IsRow
<1>2. PICK v \in DOMAIN finalized : v = sending[1].value
  BY <1>1, FirstHandled DEF BarrierState, FramesInOrder
<1>3. /\ FramesInOrder' /\ 1 \in DOMAIN sending
      /\ \A i : Coming(i) => Coming(i)' \/ i = v
      /\ \A i : Coming(i)' => Coming(i)
      /\ \A i : Coming(i)' => \E k \in DOMAIN sending : 1 < k /\ IsRow(k) /\ sending[k].value = i
  BY <1>1, <1>2, FirstHandled DEF BarrierState
<1>4. mirrored' = mirrored \cup {v} /\ v \in Nat /\ DOMAIN finalized = 1..Len(finalized)
  BY <1>1, <1>2, RowTypes DEF BarrierState
<1>5. RowsInOrder'
  BY <1>1 DEF BarrierState, RowsInOrder, LeastMargin
<1>6. ASSUME NEW i \in DOMAIN finalized, Coming(i)'
      PROVE  v < i
  <2>1. PICK k \in DOMAIN sending : 1 < k /\ IsRow(k) /\ sending[k].value = i
    BY <1>3, <1>6
  <2> QED
    BY <1>1, <1>2, <1>3, <2>1 DEF BarrierState, FramesInOrder
<1>7. MirrorInOrder'
  <2>1. ASSUME NEW i \in DOMAIN finalized, NEW last \in mirrored', Coming(i)', i < last
        PROVE  i \in mirrored'
    <3>1. last \in mirrored
      <4>1. i \in Nat /\ v < i
        BY <1>4, <1>6, <2>1
      <4> QED
        BY <1>4, <2>1, <4>1
    <3>2. Coming(i)
      BY <1>3, <2>1
    <3> QED
      BY <1>4, <2>1, <3>1, <3>2 DEF BarrierState, MirrorInOrder
  <2> QED
    BY <1>1, <1>4, <2>1 DEF BarrierState, MirrorInOrder
<1>8. \A p : Reached(p) => Reached(p)'
  BY <1>1, <1>3, <1>4 DEF Reached
<1>9. \A mark : HeldBefore(mark) => HeldBefore(mark)'
  BY <1>1, <1>4 DEF HeldBefore
<1>10. Drained'
  <2>1. PICK p, m : p = boot.page /\ m = boot.mark
    OBVIOUS
  <2>2. (Reached(boot.page) => Reached(boot.page)') /\ (HeldBefore(boot.mark) => HeldBefore(boot.mark)')
        /\ (Reached(0) => Reached(0)')
    <3>1. boot.page' = p /\ boot.mark' = m
      BY <1>1, <2>1
    <3>2. (Reached(p) => Reached(p)') /\ (HeldBefore(m) => HeldBefore(m)')
      BY <1>8, <1>9
    <3> QED
      BY <1>8, <2>1, <3>1, <3>2 DEF Reached, HeldBefore
  <2> QED
    BY <1>1, <1>4, <2>2 DEF BarrierState, Drained
<1>11. MarksHold'
  <2>1. PICK t, s : t = tableMark /\ s = streamMark
    OBVIOUS
  <2>2. t = tableMark' /\ s = streamMark' /\ (HeldBefore(t) => HeldBefore(t)') /\ (HeldBefore(s) => HeldBefore(s)')
    BY <1>1, <1>9, <2>1
  <2> QED
    BY <1>1, <2>1, <2>2 DEF BarrierState, MarksHold, HeldBefore
<1>12. RefreshTypes' /\ ScalarsProven'
  <2>1. PICK arm : arm = ArmBootstrap
    OBVIOUS
  <2>2. StartsRefresh("live", arm)
    BY <2>1 DEF HandleRowFrame, StartsRefresh
  <2>3. (RowsInOrder /\ mirrored \subseteq DOMAIN finalized)'
    BY <1>5, <1>7 DEF MirrorInOrder
  <2>4. mirrored \subseteq mirrored'
    BY <1>4
  <2> QED
    BY <1>1, <2>2, <2>3, <2>4, StartsProven DEF BarrierState
<1> QED
  BY <1>3, <1>5, <1>7, <1>10, <1>11, <1>12 DEF BarrierState

\* A page brings every row up to its own last.
LEMMA PageKeeps ==
  ASSUME BarrierState, PageIsApplied
  PROVE  BarrierState'
<1>1. /\ UNCHANGED <<barrierTable, second, finalized, subscribed, sending, certified, seen,
                     tableMark, streamMark, armed, newest, covered>>
      /\ boot.pc = "landing" /\ mirrored' = mirrored \cup 1..boot.page
      /\ boot' = [boot EXCEPT !.pc = "arming"]
  BY DEF PageIsApplied, barrierHubVars
<1>2. /\ boot \in [pc : {"idle", "refreshing", "asking", "landing", "arming"}, page : Nat, mark : Nat]
      /\ subscribed /\ boot.page \in Nat /\ boot.page <= Len(finalized) /\ boot.mark <= second
      /\ Reached(boot.page)
      /\ \A i \in DOMAIN finalized : finalized[i].fin < boot.mark => i <= boot.page
  BY <1>1 DEF BarrierState, Drained
<1>3. DOMAIN finalized = 1..Len(finalized) /\ Len(finalized) \in Nat
      /\ mirrored \subseteq DOMAIN finalized
  BY RowTypes DEF BarrierState, MirrorInOrder
<1>4. /\ boot' \in [pc : {"idle", "refreshing", "asking", "landing", "arming"}, page : Nat, mark : Nat]
      /\ boot'.pc = "arming" /\ boot'.page = boot.page /\ boot'.mark = boot.mark
  BY <1>1, <1>2
<1>5. RowsInOrder' /\ FramesInOrder'
  BY <1>1 DEF BarrierState, RowsInOrder, LeastMargin, FramesInOrder, IsRow
<1>6. \A i : Coming(i)' <=> Coming(i)
  BY <1>1 DEF Coming, IsRow
<1>7. mirrored' \subseteq DOMAIN finalized /\ mirrored \subseteq mirrored'
  BY <1>1, <1>2, <1>3
<1>8. MirrorInOrder'
  <2>1. ASSUME NEW i \in DOMAIN finalized, NEW last \in mirrored', Coming(i), i < last
        PROVE  i \in mirrored'
    <3>1. CASE last \in mirrored
      BY <1>1, <2>1, <3>1 DEF BarrierState, MirrorInOrder
    <3>2. CASE last \in 1..boot.page
      BY <1>1, <1>2, <1>3, <2>1, <3>2
    <3> QED
      BY <1>1, <2>1, <3>1, <3>2
  <2> QED
    BY <1>1, <1>6, <1>7, <2>1 DEF MirrorInOrder
<1>9. \A mark : HeldBefore(mark) => HeldBefore(mark)'
  BY <1>1, <1>7 DEF HeldBefore
<1>10. Reached(0)'
  BY <1>1, <1>2, <1>3, <1>6 DEF Reached
<1>11. PICK m : m = boot.mark
  OBVIOUS
<1>12. HeldBefore(m)'
  BY <1>1, <1>2, <1>3, <1>11 DEF HeldBefore
<1>13. Drained'
  <2>1. HeldBefore(boot.mark)'
    BY <1>4, <1>11, <1>12 DEF HeldBefore
  <2>2. 1..boot.page \subseteq mirrored'
    BY <1>1
  <2> QED
    BY <1>1, <1>2, <1>4, <1>7, <1>10, <2>1, <2>2 DEF BarrierState, Drained
<1>14. MarksHold'
  <2>1. PICK t, s : t = tableMark /\ s = streamMark
    OBVIOUS
  <2>2. t = tableMark' /\ s = streamMark' /\ (HeldBefore(t) => HeldBefore(t)') /\ (HeldBefore(s) => HeldBefore(s)')
    BY <1>1, <1>9, <2>1
  <2> QED
    BY <1>1, <2>1, <2>2 DEF BarrierState, MarksHold, HeldBefore
<1>15. RefreshTypes' /\ ScalarsProven'
  <2>1. StartsRefresh("boot", TRUE)
    BY DEF PageIsApplied
  <2>2. (RowsInOrder /\ mirrored \subseteq DOMAIN finalized)'
    BY <1>5, <1>8 DEF MirrorInOrder
  <2> QED
    BY <1>1, <1>7, <2>1, <2>2, StartsProven DEF BarrierState
<1> QED
  BY <1>5, <1>8, <1>13, <1>14, <1>15 DEF BarrierState

\* Behind a beat come only rows finalized at its second or later.
LEMMA BeatFrameKeeps ==
  ASSUME BarrierState, HandleBeatFrame
  PROVE  BarrierState'
<1>1. /\ UNCHANGED <<barrierTable, second, finalized, subscribed, mirrored, boot, certified, seen,
                     armed, newest, covered, refresh>>
      /\ sending # <<>> /\ ~ IsRow(1) /\ sending' = Tail(sending)
  BY DEF HandleBeatFrame, barrierHubVars, scalarVars, IsRow
<1>2. /\ FramesInOrder' /\ 1 \in DOMAIN sending /\ sending[1] \in BarrierFrames
      /\ \A i : Coming(i) <=> Coming(i)'
      /\ \A i : Coming(i)' => \E k \in DOMAIN sending : 1 < k /\ IsRow(k) /\ sending[k].value = i
  BY <1>1, FirstHandled DEF BarrierState
<1>3. PICK v \in Nat : v = sending[1].value
  BY <1>2 DEF BarrierFrames
<1>4. v <= second
  BY <1>1, <1>2, <1>3 DEF BarrierState, FramesInOrder
<1>5. RowsInOrder' /\ MirrorInOrder' /\ Drained'
  BY <1>1, <1>2 DEF BarrierState, RowsInOrder, LeastMargin, MirrorInOrder, Drained, Reached, HeldBefore
<1>6. certified => HeldBefore(v)
  <2> SUFFICES ASSUME certified, NEW i \in DOMAIN finalized, finalized[i].fin < v
               PROVE  i \in mirrored
    BY DEF HeldBefore
  <2>1. i \in Nat /\ i > 0 /\ finalized[i].fin \in Nat
    BY RowTypes DEF BarrierState
  <2>2. i \in mirrored \/ Coming(i)
    BY <2>1 DEF BarrierState, Drained, Reached
  <2>3. ASSUME Coming(i) PROVE FALSE
    <3>1. PICK k \in DOMAIN sending : 1 < k /\ IsRow(k) /\ sending[k].value = i
      BY <1>2, <2>3
    <3>2. v <= finalized[i].fin
      BY <1>1, <1>2, <1>3, <3>1 DEF BarrierState, FramesInOrder
    <3> QED
      BY <2>1, <3>2
  <2> QED
    BY <2>2, <2>3
<1>7. MarksHold'
  <2>1. PICK t \in Nat : t = tableMark /\ t <= second /\ HeldBefore(t)
    BY DEF BarrierState, MarksHold
  <2>2. PICK s \in Nat : s = streamMark /\ s <= second /\ HeldBefore(s)
    BY DEF BarrierState, MarksHold
  <2>3. IF certified THEN tableMark' = Later(t, v) /\ streamMark' = Later(s, v)
        ELSE tableMark' = t /\ streamMark' = s
    BY <1>3, <2>1, <2>2 DEF HandleBeatFrame
  <2>4. \E m \in {t, v} : m = tableMark' /\ m <= second /\ HeldBefore(m)
    BY <1>4, <1>6, <2>1, <2>3 DEF Later
  <2>5. \E m \in {s, v} : m = streamMark' /\ m <= second /\ HeldBefore(m)
    BY <1>4, <1>6, <2>2, <2>3 DEF Later
  <2>6. \A m : HeldBefore(m) => HeldBefore(m)'
    BY <1>1 DEF HeldBefore
  <2> QED
    BY <1>1, <2>4, <2>5, <2>6 DEF MarksHold, HeldBefore
<1>8. RefreshTypes' /\ ScalarsProven'
  BY <1>1, ScalarsStay DEF BarrierState
<1> QED
  BY <1>2, <1>5, <1>7, <1>8 DEF BarrierState

\* What a refresh had read is proven, read or failed; the bootstrap that waited
\* for it asks, or certifies what its page has brought.
LEMMA RefreshesKeep ==
  ASSUME BarrierState, NEW who \in DOMAIN refresh, RefreshLands(who) \/ RefreshFails(who)
  PROVE  BarrierState'
<1>1. who \in {"live", "boot", "timer"}
  BY DEF BarrierState, RefreshTypes
<1>2. /\ UNCHANGED <<barrierTable, second, finalized, subscribed, sending, mirrored>>
      /\ refresh' = [refresh EXCEPT ![who] = IdleRefresh] /\ BootGoesOn(who)
      /\ covered' = covered \/ covered' = refresh[who].covered
  BY DEF RefreshLands, RefreshFails, barrierHubVars
<1>3. RowsInOrder' /\ FramesInOrder' /\ MirrorInOrder'
  BY <1>2 DEF BarrierState, RowsInOrder, LeastMargin, FramesInOrder, MirrorInOrder, Coming, IsRow
<1>4. \A time : Proven(time) => Proven(time)'
  BY <1>2, ProvenStays DEF BarrierState
<1>5. RefreshTypes' /\ ScalarsProven'
  <2>1. PICK time : time = covered' /\ Proven(time)
    BY <1>1, <1>2 DEF BarrierState, ScalarsProven
  <2>2. Proven(Unread)'
    BY DEF Proven, Unread
  <2>3. RefreshTypes' /\ refresh'[who] = IdleRefresh
        /\ \A w \in {"live", "boot", "timer"} \ {who} : refresh'[w] = refresh[w]
    BY <1>1, <1>2 DEF BarrierState, RefreshTypes
  <2>4. ASSUME NEW w \in {"live", "boot", "timer"}
        PROVE  \E old : old = refresh'[w].covered /\ Proven(old)'
    <3>1. CASE w = who
      BY <2>2, <2>3, <3>1 DEF IdleRefresh
    <3>2. CASE w # who
      <4>1. PICK old : old = refresh[w].covered /\ Proven(old)
        BY DEF BarrierState, ScalarsProven
      <4> QED
        BY <1>4, <2>3, <3>2, <4>1
    <3> QED
      BY <3>1, <3>2
  <2> QED
    BY <1>4, <2>1, <2>3, <2>4 DEF ScalarsProven, Proven
<1>6. /\ boot \in [pc : {"idle", "refreshing", "asking", "landing", "arming"}, page : Nat, mark : Nat]
      /\ boot.page \in Nat /\ boot.mark \in Nat
  BY DEF BarrierState, Drained
<1>7. \A i : Coming(i)' <=> Coming(i)
  BY <1>2 DEF Coming, IsRow
<1>8. (\A p : Reached(p)' <=> Reached(p)) /\ (\A mark : HeldBefore(mark)' <=> HeldBefore(mark))
  BY <1>2, <1>7 DEF Reached, HeldBefore
<1>9. CASE who = "boot" /\ boot.pc = "refreshing"
  <2>1. boot' = [boot EXCEPT !.pc = "asking"] /\ UNCHANGED <<certified, seen, tableMark, streamMark>>
    BY <1>2, <1>9 DEF BootGoesOn
  <2>2. /\ boot' \in [pc : {"idle", "refreshing", "asking", "landing", "arming"}, page : Nat, mark : Nat]
        /\ boot'.pc = "asking" /\ subscribed
    BY <1>6, <1>9, <2>1 DEF BarrierState, Drained
  <2>3. Drained' /\ MarksHold'
    BY <1>2, <1>7, <2>1, <2>2 DEF BarrierState, Drained, MarksHold, Reached, HeldBefore
  <2> QED
    BY <1>3, <1>5, <2>3 DEF BarrierState
<1>10. CASE who = "boot" /\ boot.pc = "arming"
  <2>1. /\ boot' = [boot EXCEPT !.pc = "idle"]
        /\ certified' = TRUE /\ seen' = boot.page /\ tableMark' = boot.mark
        /\ streamMark' = Later(streamMark, boot.mark)
    BY <1>2, <1>10 DEF BootGoesOn
  <2>2. /\ boot' \in [pc : {"idle", "refreshing", "asking", "landing", "arming"}, page : Nat, mark : Nat]
        /\ boot'.pc = "idle"
    BY <1>6, <2>1
  <2>3. /\ subscribed /\ 1..boot.page \subseteq mirrored /\ boot.page <= Len(finalized)
        /\ boot.mark <= second /\ Reached(0) /\ HeldBefore(boot.mark)
    BY <1>10 DEF BarrierState, Drained
  <2>4. Drained'
    BY <1>2, <1>6, <1>8, <2>1, <2>2, <2>3 DEF Drained
  <2>5. PICK m \in Nat : m = boot.mark /\ m <= second /\ HeldBefore(m)
    BY <1>6, <2>3
  <2>6. PICK s \in Nat : s = streamMark /\ s <= second /\ HeldBefore(s)
    BY DEF BarrierState, MarksHold
  <2>7. \E l \in {s, m} : l = streamMark' /\ l <= second /\ HeldBefore(l)
    BY <2>1, <2>5, <2>6 DEF Later
  <2>8. MarksHold'
    BY <1>2, <1>8, <2>1, <2>5, <2>6, <2>7 DEF MarksHold, HeldBefore
  <2> QED
    BY <1>3, <1>5, <2>4, <2>8 DEF BarrierState
<1>11. CASE ~ (who = "boot" /\ boot.pc \in {"refreshing", "arming"})
  <2>1. UNCHANGED <<boot, certified, seen, tableMark, streamMark>>
    BY <1>2, <1>11 DEF BootGoesOn
  <2>2. Drained' /\ MarksHold'
    BY <1>2, <1>7, <2>1 DEF BarrierState, Drained, MarksHold, Reached, HeldBefore
  <2> QED
    BY <1>3, <1>5, <2>2 DEF BarrierState
<1> QED
  BY <1>9, <1>10, <1>11

\* A block that arrives changes nothing but the waiter.
LEMMA ArrivesKeeps ==
  ASSUME BarrierState, UNCHANGED <<barrierHubVars, mirrorVars, scalarVars>>
  PROVE  BarrierState'
  BY DEF BarrierState, barrierHubVars, mirrorVars, scalarVars, RowsInOrder, LeastMargin, FramesInOrder,
         MirrorInOrder, Drained, MarksHold, RefreshTypes, ScalarsProven, Proven, Coming, IsRow,
         Reached, HeldBefore
-----------------------------------------------------------------------------
(* The block that waits, and the block let through.                        *)

\* A block let through stays complete while the hub adds no row.
LEMMA PassableStays ==
  ASSUME RowsInOrder, barrierTable' = barrierTable, finalized' = finalized,
         second' = second \/ second' = second + 1, NEW p, Passable(p)
  PROVE  Passable(p)'
<1>1. second \in Nat /\ second' \in Nat /\ second <= second' /\ LeastMargin' = LeastMargin
  BY RowTypes DEF LeastMargin
<1>2. p.time \in Nat
  BY DEF Passable
<1>3. Complete(p)'
  BY DEF Passable, Complete
<1>4. Closed(p)'
  BY <1>1, <1>2 DEF Passable, Closed
<1> QED
  BY <1>2, <1>3, <1>4 DEF Passable

\* A row finalized after a block was let through is effective after it, or
\* the mirror was empty.
LEMMA PassableGrows ==
  ASSUME RowsInOrder, HubFinalizes, NEW p, Passable(p)
  PROVE  Passable(p)'
<1> USE MarginTypes
<1>1. PICK n \in Nat : n = Len(finalized) + 1
  BY RowTypes
<1>2. /\ DOMAIN finalized' = 1..n /\ Len(finalized') = n
      /\ \A i \in DOMAIN finalized : finalized'[i] = finalized[i]
      /\ \A i \in DOMAIN finalized : finalized[i].fin < second
      /\ finalized'[n].mine => finalized'[n].eff >= second + LeastMargin
      /\ n \in DOMAIN finalized' /\ RowsInOrder'
  BY <1>1, FinalizesRow
<1>3. /\ second \in Nat /\ UNCHANGED <<second, barrierTable>> /\ DOMAIN finalized = 1..Len(finalized)
      /\ Len(finalized) \in Nat
      /\ \A i \in DOMAIN finalized : finalized[i].fin \in Nat
      /\ finalized'[n].eff \in Nat
  <2>1. \A i \in DOMAIN finalized' : finalized'[i] \in BarrierRows
    BY <1>2 DEF RowsInOrder
  <2> QED
    BY <1>2, <2>1, RowTypes DEF HubFinalizes, BarrierRows
<1>4. p.time \in Nat /\ Complete(p) /\ Closed(p) /\ LeastMargin' = LeastMargin
  BY <1>3 DEF Passable, LeastMargin
<1>5. Closed(p)'
  <2>1. CASE p.free /\ p.seen \in 0..Len(finalized)
    <3>1. p.seen \in 0..n
      BY <1>1, <1>3, <2>1
    <3> QED
      BY <1>2, <2>1, <3>1 DEF Closed
  <2>2. CASE p.time <= second
    BY <1>3, <2>2 DEF Closed
  <2>3. CASE \E last \in DOMAIN finalized : p.time <= finalized[last].fin + LeastMargin
    BY <1>1, <1>2, <1>3, <1>4, <2>3 DEF Closed
  <2> QED
    BY <1>4, <2>1, <2>2, <2>3 DEF Closed
<1>6. finalized'[n].mine /\ finalized'[n].eff <= p.time => p.free /\ n > p.seen
  <2> SUFFICES ASSUME finalized'[n].mine, finalized'[n].eff <= p.time
               PROVE  p.free /\ n > p.seen
    OBVIOUS
  <2>1. finalized'[n].eff >= second + LeastMargin /\ p.time >= second + LeastMargin
    BY <1>2, <1>3, <1>4
  <2>2. ~ (p.time <= second)
    BY <1>3, <1>4, <2>1
  <2>3. ASSUME NEW last \in DOMAIN finalized PROVE ~ (p.time <= finalized[last].fin + LeastMargin)
    BY <1>2, <1>3, <1>4, <2>1
  <2>4. p.free /\ p.seen \in 0..Len(finalized)
    BY <1>4, <2>2, <2>3 DEF Closed
  <2> QED
    BY <1>1, <1>3, <2>4
<1>7. Complete(p)'
  <2>1. \A i \in DOMAIN finalized' : i \in DOMAIN finalized \/ i = n
    BY <1>1, <1>2, <1>3
  <2> QED
    BY <1>2, <1>4, <1>6, <2>1 DEF Complete
<1> QED
  BY <1>4, <1>5, <1>7 DEF Passable

\* A waiter released by a step is let through with the state it ends in.
LEMMA ReleasesPassable ==
  ASSUME BarrierState, BarrierState', block \in Nat, Passable(passed),
         UNCHANGED <<barrierTable, second, finalized>>, Release
  PROVE  block' \in Nat /\ Passable(passed)'
<1>1. PICK t \in Nat : IF t # 0 /\ Satisfied(t)' THEN block' = 0 /\ passed' = Passing(t)'
                       ELSE UNCHANGED blockVars
  BY DEF Release
<1>2. CASE t # 0 /\ Satisfied(t)'
  <2>1. Passable(Passing(t))'
    BY <1>2, SatisfiedNext DEF SatisfiedPasses
  <2>2. block' = 0 /\ passed' = Passing(t)'
    BY <1>1, <1>2
  <2> QED
    BY <2>1, <2>2 DEF Passable, Complete, Closed
<1>3. CASE UNCHANGED blockVars
  <2>1. PICK p : p = passed /\ Passable(p)
    OBVIOUS
  <2>2. Passable(p)' /\ passed' = p /\ block' = block
    BY <1>3, <2>1, PassableStays DEF BarrierState, blockVars
  <2> QED
    BY <2>2 DEF Passable, Complete, Closed
<1> QED
  BY <1>1, <1>2, <1>3

-----------------------------------------------------------------------------
(* The invariant.                                                          *)

LEMMA BarriersStart == BarrierInit => BarrierInv
<1> SUFFICES ASSUME BarrierInit PROVE BarrierInv
  OBVIOUS
<1>1. /\ finalized = <<>> /\ sending = <<>> /\ mirrored = {} /\ subscribed = FALSE /\ certified = FALSE
      /\ boot = [pc |-> "idle", page |-> 0, mark |-> 0] /\ seen = 0 /\ tableMark = 0 /\ streamMark = 0
      /\ covered = Unread /\ block = 0 /\ second = 1 /\ barrierTable \in BarrierTables
      /\ refresh = [who \in {"live", "boot", "timer"} |-> IdleRefresh] /\ passed = NoBlock
  BY DEF BarrierInit, NothingYet, NoBoot
<1>2. /\ finalized \in Seq(BarrierRows) /\ sending \in Seq(BarrierFrames)
      /\ DOMAIN finalized = {} /\ DOMAIN sending = {} /\ Len(finalized) = 0
  BY <1>1
<1>3. RowsInOrder
  BY <1>1, <1>2 DEF RowsInOrder
<1>4. FramesInOrder /\ MirrorInOrder
  BY <1>1, <1>2 DEF FramesInOrder, MirrorInOrder
<1>5. boot \in [pc : {"idle", "refreshing", "asking", "landing", "arming"}, page : Nat, mark : Nat]
      /\ boot.pc = "idle"
  BY <1>1
<1>6. Drained /\ MarksHold
  <2>1. Drained
    <3>1. certified = FALSE /\ seen = 0 /\ Len(finalized) = 0
      BY <1>1, <1>2
    <3>2. seen \in Nat /\ seen <= Len(finalized)
      BY <3>1
    <3> QED
      BY <1>5, <3>1, <3>2 DEF Drained
  <2>2. HeldBefore(0) /\ 0 <= second
    BY <1>1, <1>2 DEF HeldBefore
  <2>3. MarksHold
    BY <1>1, <2>2 DEF MarksHold
  <2> QED
    BY <2>1, <2>3
<1>7. RefreshTypes /\ ScalarsProven
  BY <1>1 DEF RefreshTypes, ScalarsProven, Proven, IdleRefresh, Unread
<1>8. Passable(passed)
  BY <1>1, <1>2 DEF Passable, Complete, Closed, NoBlock
<1> QED
  BY <1>1, <1>3, <1>4, <1>6, <1>7, <1>8 DEF BarrierInv, BarrierState

LEMMA BarriersStep == BarrierInv /\ [BarrierNext]_barrierVars => BarrierInv'
<1> SUFFICES ASSUME BarrierInv, [BarrierNext]_barrierVars PROVE BarrierInv'
  OBVIOUS
<1>1. BarrierState /\ block \in Nat /\ Passable(passed) /\ RowsInOrder
  BY DEF BarrierInv, BarrierState
<1>2. PICK p : p = passed /\ Passable(p)
  BY <1>1
<1>3. ASSUME BarrierState', UNCHANGED blockVars, Passable(p)' PROVE BarrierInv'
  BY <1>1, <1>2, <1>3 DEF BarrierInv, blockVars, Passable, Complete, Closed
<1>4. CASE HubFinalizes
  BY <1>1, <1>2, <1>3, <1>4, FinalizesKeeps, PassableGrows DEF HubFinalizes
<1>5. CASE SecondPasses
  BY <1>1, <1>2, <1>3, <1>5, SecondKeeps, PassableStays DEF SecondPasses
<1>6. CASE HubSendsBeat
  BY <1>1, <1>2, <1>3, <1>6, BeatKeeps, PassableStays DEF HubSendsBeat, barrierHubVars
<1>7. CASE Subscribe \/ PageIsServed \/ TimerFires
  BY <1>1, <1>2, <1>3, <1>7, AsksKeeps, PassableStays
     DEF Subscribe, PageIsServed, TimerFires, barrierHubVars
<1>8. CASE LinkCloses
  BY <1>1, <1>2, <1>3, <1>8, ClosesKeeps, PassableStays DEF LinkCloses
<1>9. CASE PageIsApplied
  BY <1>1, <1>2, <1>3, <1>9, PageKeeps, PassableStays DEF PageIsApplied, barrierHubVars
<1>10. CASE HandleRowFrame
  BY <1>1, <1>2, <1>3, <1>10, RowFrameKeeps, PassableStays DEF HandleRowFrame, barrierHubVars
<1>11. CASE HandleBeatFrame
  <2>1. BarrierState'
    BY <1>1, <1>11, BeatFrameKeeps
  <2>2. UNCHANGED <<barrierTable, second, finalized>> /\ Release
    BY <1>11 DEF HandleBeatFrame, barrierHubVars
  <2> QED
    BY <1>1, <2>1, <2>2, ReleasesPassable DEF BarrierInv
<1>12. CASE Refreshes
  <2>1. PICK who \in DOMAIN refresh : RefreshLands(who) \/ RefreshFails(who)
    BY <1>12 DEF Refreshes
  <2>2. BarrierState'
    BY <1>1, <2>1, RefreshesKeep
  <2>3. UNCHANGED <<barrierTable, second, finalized>> /\ Release
    BY <2>1 DEF RefreshLands, RefreshFails, barrierHubVars
  <2> QED
    BY <1>1, <2>2, <2>3, ReleasesPassable DEF BarrierInv
<1>13. CASE BlockArrives
  <2>1. UNCHANGED <<barrierHubVars, mirrorVars, scalarVars>>
    BY <1>13 DEF BlockArrives
  <2>2. BarrierState'
    BY <1>1, <2>1, ArrivesKeeps
  <2>3. PICK t \in 2..(Min({second + Ahead, MaxSecond}) - Grace) :
           IF Satisfied(t) THEN passed' = Passing(t) /\ UNCHANGED block
                           ELSE block' = t /\ UNCHANGED passed
    BY <1>13 DEF BlockArrives
  <2>4. t \in Nat
    BY <2>3
  <2>5. PICK next : next = passed' /\ Passable(next)
    BY <1>1, <2>3, <2>4, SatisfiedIsPassable DEF SatisfiedPasses
  <2>6. Passable(next)'
    BY <1>1, <2>1, <2>5, PassableStays DEF barrierHubVars
  <2>7. Passable(passed)' /\ block' \in Nat
    BY <1>1, <2>3, <2>4, <2>5, <2>6 DEF Passable, Complete, Closed
  <2> QED
    BY <2>2, <2>7 DEF BarrierInv
<1>14. CASE UNCHANGED barrierVars
  <2>1. UNCHANGED <<barrierHubVars, mirrorVars, scalarVars>> /\ UNCHANGED blockVars
        /\ UNCHANGED <<barrierTable, second, finalized>>
    BY <1>14 DEF barrierVars, barrierHubVars
  <2> QED
    BY <1>1, <1>2, <1>3, <2>1, ArrivesKeeps, PassableStays
<1> QED
  BY <1>4, <1>5, <1>6, <1>7, <1>8, <1>9, <1>10, <1>11, <1>12, <1>13, <1>14
  DEF BarrierNext, MirrorStep

\* Every block a barrier let through had every row of its chain that is
\* effective at or before it, those finalized later included, unless its mirror
\* was empty: waitForMatchSync, waitForCallSync, waitForPolicySync and
\* waitForAttestationResponseSync never let a block run on fewer rows than
\* another operator has for it.
THEOREM BlocksPassComplete == BarrierSpec => []ReleasedComplete
<1>1. BarrierInv => ReleasedComplete
  BY DEF BarrierInv, Passable, Complete, ReleasedComplete
<1> QED
  BY <1>1, BarriersStart, BarriersStep, PTL DEF BarrierSpec
-----------------------------------------------------------------------------
(* The barrier that asks the database.                                     *)

Waits == [id : Nat, block : Nat, pc : {"passed", "rejected", "asked", "pending"},
          verdict : BOOLEAN, armed : BOOLEAN]
Timers == [pc : {"idle", "fired", "releasing", "asking"}, verdict : BOOLEAN,
           waiter : [id : Nat, block : Nat]]

\* A wait without a timer is one whose timer's callback is under way and was
\* told yes only if it is, or one whose snapshots are complete.
CallbackLooks ==
  wait.pc = "pending" /\ ~wait.armed =>
    \/ timer.waiter = Waiter /\ timer.pc \in {"fired", "releasing"}
    \/ timer.waiter = Waiter /\ timer.pc = "asking" /\ (timer.verdict => wait.block \in complete)
    \/ wait.block \in complete

SnapInv == wait \in Waits /\ timer \in Timers /\ CallbackLooks

LEMMA SnapStarts == SnapInit => SnapInv
  BY DEF SnapInit, SnapInv, Waits, Timers, NoTimer, CallbackLooks

\* No query says yes of a block whose snapshots are not complete.
LEMMA YesIsTrue ==
  ASSUME NEW who, NEW b, NEW v \in BOOLEAN, Answers(who, b, v), v
  PROVE  b \in complete
  BY DEF Answers

\* A release that ends hands over to the timer's own query, if the timer began it.
LEMMA ReturnKeepsWaits ==
  ASSUME SnapInv, NEW who \in Walkers, Returns(who), UNCHANGED <<complete, wait>>
  PROVE  SnapInv'
<1>1. CASE who # "timer"
  BY <1>1 DEF Returns, SnapInv, CallbackLooks, Waiter
<1>2. CASE who = "timer"
  <2>1. PICK v \in BOOLEAN :
          /\ Answers("timer", timer.waiter.block, v)
          /\ timer' = [timer EXCEPT !.pc = "asking", !.verdict = v]
    BY <1>2 DEF Returns
  <2>2. v => timer.waiter.block \in complete
    BY <2>1, YesIsTrue
  <2>3. /\ timer' \in Timers /\ timer'.pc = "asking" /\ timer'.verdict = v
        /\ timer'.waiter = timer.waiter
    BY <2>1 DEF SnapInv, Timers
  <2>4. timer.waiter = Waiter => timer.waiter.block = wait.block
    BY DEF Waiter
  <2>5. CallbackLooks'
    BY <2>2, <2>3, <2>4 DEF SnapInv, CallbackLooks, Waiter
  <2> QED BY <2>3, <2>5 DEF SnapInv
<1> QED BY <1>1, <1>2

\* A release begins: nobody waits, and it returns, or it looks at the first.
LEMMA BeginKeepsWaits ==
  ASSUME SnapInv, NEW who \in Walkers, ReleaseBegins(who)
  PROVE  SnapInv'
<1>1. UNCHANGED <<complete, wait>>
  BY DEF ReleaseBegins
<1>2. CASE Returns(who)
  BY <1>1, <1>2, ReturnKeepsWaits
<1>3. CASE timer' = IF who = "timer" THEN [timer EXCEPT !.pc = "releasing"] ELSE timer
  <2>1. CASE who # "timer"
    BY <1>1, <1>3, <2>1 DEF SnapInv, CallbackLooks, Waiter
  <2>2. CASE who = "timer"
    <3>1. timer' \in Timers /\ timer'.pc = "releasing" /\ timer'.waiter = timer.waiter
      BY <1>3, <2>2 DEF SnapInv, Timers
    <3> QED BY <1>1, <3>1 DEF SnapInv, CallbackLooks, Waiter
  <2> QED BY <2>1, <2>2
<1> QED BY <1>2, <1>3 DEF ReleaseBegins

\* A look at a waiter settles the wait or leaves it as it is.
LEMMA JudgeKeepsWaits ==
  ASSUME SnapInv, NEW who \in Walkers, Judges(who)
  PROVE  SnapInv'
<1> DEFINE w == Walked(who)[walk[who].pos]
<1>1. /\ UNCHANGED complete
      /\ wait' = wait \/ Resolve(w)
      /\ UNCHANGED timer \/ Returns(who)
  BY DEF Judges
<1>2. /\ wait' \in Waits
      /\ wait' = wait \/ wait'.pc = "passed"
  BY <1>1 DEF Resolve, SnapInv, Waits
<1>3. timer' \in Timers
  <2>1. Returns(who) => timer' = timer \/ \E v \in BOOLEAN : timer' = [timer EXCEPT !.pc = "asking", !.verdict = v]
    BY DEF Returns
  <2> QED BY <1>1, <2>1 DEF SnapInv, Timers
<1>4. CASE wait' = wait
  BY <1>1, <1>4, ReturnKeepsWaits DEF SnapInv, CallbackLooks, Waiter
<1>5. CASE wait'.pc = "passed"
  BY <1>2, <1>3, <1>5 DEF SnapInv, CallbackLooks
<1> QED BY <1>2, <1>4, <1>5

\* The callback rejects the wait unless it was told yes, and it was told the
\* truth.
LEMMA TimerKeepsWaits ==
  ASSUME SnapInv, TimerEnds
  PROVE  SnapInv'
<1>1. /\ timer.pc = "asking" /\ timer' = NoTimer /\ UNCHANGED complete
      /\ wait' = IF ~timer.verdict /\ wait.id = timer.waiter.id /\ wait.pc = "pending"
                 THEN [wait EXCEPT !.pc = "rejected"] ELSE wait
  BY DEF TimerEnds
<1>2. NoTimer \in Timers
  BY DEF NoTimer, Timers
<1>3. /\ wait' \in Waits
      /\ wait'.pc = "pending" => wait' = wait /\ (timer.verdict \/ wait.id # timer.waiter.id)
  BY <1>1 DEF SnapInv, Waits
<1>4. timer.waiter = Waiter => timer.waiter.id = wait.id
  BY DEF Waiter
<1>5. CallbackLooks'
  <2> SUFFICES ASSUME wait'.pc = "pending", ~wait'.armed PROVE wait'.block \in complete'
    BY DEF CallbackLooks
  <2> QED BY <1>1, <1>3, <1>4 DEF SnapInv, CallbackLooks
<1> QED BY <1>1, <1>2, <1>3, <1>5 DEF SnapInv

\* A wait begins, is told, or loses its timer to a callback of its own.
LEMMA WaitKeepsWaits ==
  ASSUME SnapInv, WaitBegins \/ WaitAnswered \/ WaitTimesOut
  PROVE  SnapInv'
<1>1. CASE WaitBegins
  <2>1. PICK v \in BOOLEAN :
          wait' = [id |-> wait.id + 1, block |-> NextBlock, pc |-> "asked",
                   verdict |-> v, armed |-> FALSE]
    BY <1>1 DEF WaitBegins
  <2>2. wait' \in Waits /\ wait'.pc = "asked" /\ timer' = timer
    BY <1>1, <2>1 DEF WaitBegins, NextBlock, SnapInv, Waits
  <2> QED BY <2>2 DEF SnapInv, CallbackLooks
<1>2. CASE WaitAnswered
  <2>1. /\ wait' = [wait EXCEPT !.pc = "passed"] \/ wait' = [wait EXCEPT !.pc = "pending", !.armed = TRUE]
        /\ timer' = timer
    BY <1>2 DEF WaitAnswered
  <2>2. wait' \in Waits /\ (wait'.pc = "pending" => wait'.armed)
    BY <2>1 DEF SnapInv, Waits
  <2> QED BY <2>1, <2>2 DEF SnapInv, CallbackLooks
<1>3. CASE WaitTimesOut
  <2>1. /\ wait' = [wait EXCEPT !.armed = FALSE]
        /\ timer' = [NoTimer EXCEPT !.pc = "fired", !.waiter = Waiter]
    BY <1>3 DEF WaitTimesOut
  <2>2. wait' \in Waits /\ wait'.id = wait.id /\ wait'.block = wait.block
    BY <2>1 DEF SnapInv, Waits
  <2>3. Waiter \in [id : Nat, block : Nat] /\ Waiter' = Waiter
    BY <2>2 DEF SnapInv, Waits, Waiter
  <2>4. timer' \in Timers /\ timer'.pc = "fired" /\ timer'.waiter = Waiter
    BY <2>1, <2>3 DEF NoTimer, Timers
  <2> QED BY <2>2, <2>3, <2>4 DEF SnapInv, CallbackLooks
<1> QED BY <1>1, <1>2, <1>3

\* A wait that nobody will settle is one whose snapshots are there: as long as
\* they are missing its timer is armed or its callback is under way and will
\* reject it, so the block loop asks again, however releases overlap and
\* whatever queries fail.
THEOREM MissingSnapshotsReject == SnapSpec => []HangsOnlyComplete
<1>1. SnapInv => HangsOnlyComplete
  BY DEF SnapInv, CallbackLooks, HangsOnlyComplete
<1>2. SnapInv /\ [SnapNext]_snapVars => SnapInv'
  <2> SUFFICES ASSUME SnapInv, [SnapNext]_snapVars PROVE SnapInv'
    OBVIOUS
  <2>1. CASE \E who \in Paths : RowCompletes(who)
    BY <2>1 DEF RowCompletes, SnapInv, CallbackLooks, Waiter
  <2>2. CASE \E who \in Walkers : ReleaseBegins(who) \/ Judges(who)
    BY <2>2, BeginKeepsWaits, JudgeKeepsWaits
  <2>3. CASE WaitBegins \/ WaitAnswered \/ WaitTimesOut
    BY <2>3, WaitKeepsWaits
  <2>4. CASE TimerEnds
    BY <2>4, TimerKeepsWaits
  <2>5. CASE UNCHANGED snapVars
    BY <2>5 DEF snapVars, SnapInv, CallbackLooks, Waiter
  <2> QED BY <2>1, <2>2, <2>3, <2>4, <2>5 DEF SnapNext
<1> QED BY <1>1, <1>2, SnapStarts, PTL DEF SnapSpec
================================================================================
