---------------------------- MODULE HubMoves_proofs ----------------------------
(***************************************************************************)
(* Proofs about HubMoves, for every set of hubs, every order of tables and *)
(* every budget of faults.                                                 *)
(***************************************************************************)
EXTENDS HubMoves, FiniteSetTheorems, TLAPS

USE HubsAssumption, TablesAssumption, BoundsAssumption

-----------------------------------------------------------------------------
(* Types.                                                                  *)

DrainOK ==
  /\ drain.pc = "asking" => drain.asks \in Hubs
  /\ drain \in [pc : {"idle", "opening", "asking", "landing", "done"}, table : 1..Len(Tables),
                page : Nat, current : BOOLEAN, from : SUBSET Pages, asks : Hubs \cup {None},
                settles : BOOLEAN, failed : BOOLEAN]

LEMMA TableOfDrain ==
  ASSUME DrainOK
  PROVE  Table \in AllTables
BY DEF DrainOK, Table, AllTables, Range

LEMMA SomeTable == Len(Tables) \in Nat /\ 1 \in 1..Len(Tables)
OBVIOUS

LEMMA CardinalityOfInitial ==
  ASSUME NEW n \in Nat
  PROVE  Cardinality(1..n) = n
<1>1. 1 \in Int /\ n \in Int
  OBVIOUS
<1>2. Cardinality(1..n) = IF 1 > n THEN 0 ELSE n - 1 + 1
  BY ONLY <1>1, FS_Interval, SMT
<1> QED
  BY ONLY <1>2, n \in Nat, SMT

\* An order of a finite set names each of its members once.
LEMMA OrdersOfSet ==
  ASSUME NEW S, IsFiniteSet(S), NEW order \in SetToSeqs(S)
  PROVE  order \in Seq(S) /\ IsInjective(order) /\ Range(order) = S
<1>1. Cardinality(S) \in Nat /\ order \in [1..Cardinality(S) -> S]
  BY FS_CardinalityType DEF SetToSeqs
<1>2. IsInjective(order)
  BY <1>1 DEF SetToSeqs, IsInjective
<1>3. order \in Injection(1..Cardinality(S), S)
  BY <1>1, <1>2 DEF Injection
<1>4. Cardinality(1..Cardinality(S)) = Cardinality(S)
  BY <1>1, CardinalityOfInitial
<1>5. order \in Surjection(1..Cardinality(S), S)
  BY <1>3, <1>4, FS_Injection
<1>6. Range(order) = S
  BY <1>1, <1>5 DEF Surjection, Range
<1> QED
  BY <1>1, <1>2, <1>6

Ring(order) == order \in Seq(Hubs) /\ IsInjective(order) /\ Seeds \subseteq Range(order)

LEMMA InitTypes == Init => TypeOK /\ DrainOK
<1> SUFFICES ASSUME Init PROVE TypeOK /\ DrainOK
  OBVIOUS
<1>1. IsFiniteSet(Seeds)
  BY FS_Subset
<1>2. candidates \in Seq(Seeds) /\ IsInjective(candidates) /\ Range(candidates) = Seeds
  BY <1>1, OrdersOfSet DEF Init
<1>3. candidates \in Seq(Hubs)
  BY <1>2
<1>4. 1 \in 1..Len(candidates)
  BY <1>2 DEF Range
<1>5. url \in Range(candidates)
  BY <1>2, <1>4 DEF Init, Selected, Range
<1>6. DrainOK
  BY SomeTable DEF Init, DrainOK, IdleDrain
<1>7. positions \in [AllTables -> SUBSET Pages] /\ DOMAIN built \subseteq AllTables
  BY DEF Init, NoPosition
<1>8. drain.pc = "idle" /\ drain.asks \in Hubs \cup {None} /\ drain.from \subseteq Pages
  BY <1>6 DEF Init, IdleDrain, DrainOK
<1>9. /\ candidates \in Seq(Hubs) /\ IsInjective(candidates) /\ Seeds \subseteq Range(candidates)
      /\ followed \in 1..Len(candidates) /\ answers \subseteq Range(candidates)
  BY <1>2, <1>3, <1>4 DEF Init
<1>10. /\ hub \in [Hubs -> {"down", "behind", "ready"}] /\ instance \in [Hubs -> Nat]
       /\ streak \in 0..ReconnectAttempts
  BY DEF Init
<1> QED
  BY <1>5, <1>6, <1>7, <1>8, <1>9, <1>10 DEF Init, TypeOK

\* The hub followed stays in front of the merged ring.
LEMMA MergedRing ==
  ASSUME TypeOK, NEW more \in SUBSET (Hubs \ Range(candidates)),
         NEW rest \in SetToSeqs((Range(candidates) \cup more) \ {Selected})
  PROVE  /\ Ring(<<Selected>> \o rest)
         /\ Range(<<Selected>> \o rest) = Range(candidates) \cup more
         /\ 1 \in 1..Len(<<Selected>> \o rest)
<1> DEFINE others == (Range(candidates) \cup more) \ {Selected}
           merged == <<Selected>> \o rest
<1>1. Range(candidates) \subseteq Hubs /\ Selected \in Range(candidates)
  BY SMTT(60) DEF TypeOK, Selected, Range
<1>2. IsFiniteSet(others)
  BY <1>1, FS_Subset
<1>3. rest \in Seq(others) /\ IsInjective(rest) /\ Range(rest) = others
  BY <1>2, OrdersOfSet
<1>4. /\ Len(merged) = Len(rest) + 1 /\ Len(rest) \in Nat /\ merged[1] = Selected
      /\ \A i \in 2..Len(merged) : merged[i] = rest[i - 1] /\ i - 1 \in 1..Len(rest)
      /\ DOMAIN merged = 1..Len(merged) /\ DOMAIN rest = 1..Len(rest)
  BY <1>3
<1>5. merged \in Seq(Hubs)
  BY <1>1, <1>3
<1>6. \A i \in 2..Len(merged) : merged[i] \in others
  BY <1>3, <1>4 DEF Range
<1>7. IsInjective(merged)
  <2> SUFFICES ASSUME NEW a \in 1..Len(merged), NEW b \in 1..Len(merged), merged[a] = merged[b]
               PROVE  a = b
    BY <1>4 DEF IsInjective
  <2>1. CASE a = 1 \/ b = 1
    BY <1>4, <1>6, <2>1
  <2>2. CASE a # 1 /\ b # 1
    <3>1. a - 1 \in DOMAIN rest /\ b - 1 \in DOMAIN rest /\ rest[a - 1] = rest[b - 1]
      BY <1>4, <2>2
    <3>2. a - 1 = b - 1
      BY <3>1, <1>3 DEF IsInjective
    <3> QED
      BY <3>2
  <2> QED
    BY <2>1, <2>2
<1>8. Range(merged) = Range(candidates) \cup more
  <2>1. ASSUME NEW x \in Range(merged) PROVE x \in Range(candidates) \cup more
    <3>1. PICK i \in 1..Len(merged) : x = merged[i]
      BY <1>4 DEF Range
    <3> QED
      BY <3>1, <1>4, <1>6, <1>1
  <2>2. ASSUME NEW x \in others PROVE x \in Range(merged)
    <3>1. PICK j \in DOMAIN rest : x = rest[j]
      BY <1>3 DEF Range
    <3>2. j + 1 \in 2..Len(merged) /\ merged[j + 1] = x
      BY <3>1, <1>4
    <3> QED
      BY <3>2, <1>4 DEF Range
  <2>3. Selected \in Range(merged)
    BY <1>4 DEF Range
  <2> QED
    BY <2>1, <2>2, <2>3
<1>9. Seeds \subseteq Range(merged)
  BY <1>8 DEF TypeOK
<1> QED
  BY <1>4, <1>5, <1>7, <1>8, <1>9 DEF Ring

\* The parts of the types, by what they are about.
HubsOK == hub \in [Hubs -> {"down", "behind", "ready"}] /\ instance \in [Hubs -> Nat]

RingOK ==
  /\ Ring(candidates) /\ followed \in 1..Len(candidates)
  /\ answers \subseteq Range(candidates) /\ url \in Range(candidates)
  /\ grace \in {"off", "running", "passed"} /\ dwell \in BOOLEAN /\ streak \in 0..ReconnectAttempts

LinkOK ==
  /\ sock \in {"none", "starting", "connecting", "ready", "ending", "failing"}
  /\ caughtUp \in {"unknown", "no", "yes"} /\ (caughtUp = "unknown" <=> sock \notin {"ready", "ending"})
  /\ handled \in BOOLEAN /\ reconnect \in BOOLEAN /\ bootCall \in BOOLEAN

WorkOK ==
  /\ DrainOK
  /\ lastInstance \in Sources \cup {None}
  /\ positions \in [AllTables -> SUBSET Pages]
  /\ owed \subseteq AllTables /\ DOMAIN built \subseteq AllTables
  /\ gate \in BOOLEAN /\ retry \in BOOLEAN /\ listDue \in BOOLEAN
  /\ stall \in {"cold", "armed", "resynced"}

Typed == HubsOK /\ RingOK /\ LinkOK /\ WorkOK

LEMMA PartsOfTypes == Typed <=> TypeOK /\ DrainOK
<1>1. ASSUME DrainOK
      PROVE  /\ drain.pc \in {"idle", "opening", "asking", "landing", "done"}
             /\ drain.asks \in Hubs \cup {None} /\ drain.from \subseteq Pages
  BY <1>1 DEF DrainOK
<1> QED
  BY <1>1 DEF Typed, HubsOK, RingOK, LinkOK, WorkOK, TypeOK, Ring

LEMMA RingMembers ==
  ASSUME Typed
  PROVE  /\ Range(candidates) \subseteq Hubs /\ Selected \in Range(candidates)
         /\ url \in Hubs /\ NextIndex \in 1..Len(candidates)
<1>1. candidates \in Seq(Hubs) /\ Len(candidates) \in Nat /\ followed \in 1..Len(candidates)
  BY DEF Typed, RingOK, Ring
<1>2. Range(candidates) \subseteq Hubs /\ Selected \in Range(candidates)
  BY <1>1 DEF Range, Selected
<1>3. NextIndex \in 1..Len(candidates)
  BY <1>1 DEF NextIndex
<1> QED
  BY <1>2, <1>3 DEF Typed, RingOK

LEMMA NoPositionOK == NoPosition \in [AllTables -> SUBSET Pages]
BY DEF NoPosition

\* What a move leaves typed.
LEMMA MoveTyped ==
  ASSUME Typed, NEW heard \in SUBSET Range(candidates), Move(heard)
  PROVE  /\ candidates' = candidates /\ followed' \in 1..Len(candidates)
         /\ answers' \subseteq Range(candidates)
         /\ grace' = "off" /\ dwell' = FALSE /\ streak' = 0
         /\ DrainOK' /\ positions' \in [AllTables -> SUBSET Pages]
         /\ lastInstance' = None /\ gate' = FALSE /\ built' = [t \in {} |-> {}]
         /\ drain' = [drain EXCEPT !.current = FALSE]
<1>1. DrainOK'
  BY DEF Move, Stale, DrainOK, Typed, WorkOK
<1> QED
  BY <1>1, RingMembers, NoPositionOK DEF Move, Stale, AnswersAfter


\* Each part depends on its own variables.
LEMMA PartsStay ==
  ASSUME Typed
  PROVE  /\ UNCHANGED <<hub, instance>> => HubsOK'
         /\ UNCHANGED <<moveVars, url>> => RingOK'
         /\ UNCHANGED <<sock, caughtUp, handled, reconnect, bootCall>> => LinkOK'
         /\ UNCHANGED <<drainVars, lastInstance>> => WorkOK'
BY SMTT(60) DEF Typed, HubsOK, RingOK, LinkOK, WorkOK, DrainOK, moveVars, drainVars

LEMMA RingStays ==
  ASSUME Typed, candidates' = candidates, url' = url, followed' \in 1..Len(candidates),
         answers' \subseteq Range(candidates), grace' \in {"off", "running", "passed"},
         dwell' \in BOOLEAN, streak' \in 0..ReconnectAttempts
  PROVE  RingOK'
<1>1. Ring(candidates)' /\ url' \in Range(candidates)'
  BY DEF Typed, RingOK, Ring
<1> QED
  BY <1>1 DEF RingOK

LEMMA RingAfterMove ==
  ASSUME Typed, candidates' = candidates, url' = url, followed' \in 1..Len(candidates),
         answers' \subseteq Range(candidates), grace' = "off", dwell' = FALSE, streak' = 0
  PROVE  RingOK'
<1>1. dwell' \in BOOLEAN
  OBVIOUS
<1>2. streak' \in 0..ReconnectAttempts
  BY ReconnectAttempts \in Nat
<1> QED
  BY <1>1, <1>2, RingStays

LEMMA HubsTyped ==
  ASSUME Typed, HubChanges \/ HubReplaced \/ GraceElapses \/ DwellElapses
  PROVE  Typed'
<1>1. CASE HubChanges
  <2>1. HubsOK'
    BY <1>1 DEF HubChanges, Typed, HubsOK
  <2>2. LinkOK'
    BY <1>1 DEF HubChanges, Lost, Typed, LinkOK
  <2> QED
    BY <1>1, <2>1, <2>2, PartsStay DEF HubChanges, Typed
<1>2. CASE HubReplaced
  <2>1. PICK h \in Hubs : instance' = [instance EXCEPT ![h] = @ + 1] /\ sock' = Lost(h)
    BY <1>2 DEF HubReplaced
  <2>2. HubsOK'
    BY <1>2, <2>1 DEF HubReplaced, Typed, HubsOK
  <2>3. LinkOK'
    BY <1>2, <2>1 DEF HubReplaced, Lost, Typed, LinkOK
  <2> QED
    BY <1>2, <2>2, <2>3, PartsStay DEF HubReplaced, Typed
<1>3. CASE GraceElapses \/ DwellElapses
  <2>1. RingOK'
    BY <1>3 DEF GraceElapses, DwellElapses, linkVars, Typed, RingOK
  <2> QED
    BY <1>3, <2>1, PartsStay
    DEF GraceElapses, DwellElapses, hubVars, linkVars, Typed
<1> QED
  BY <1>1, <1>2, <1>3

\* What asking whether the hub is behind, and a bootstrapAll, leave typed.
LEMMA AskedTyped ==
  ASSUME Typed, Asked
  PROVE  answers' \subseteq Range(candidates) /\ grace' \in {"off", "running", "passed"}
BY DEF Asked, GraceAsked, Typed, RingOK

LEMMA BootTyped ==
  ASSUME Typed, BootstrapAll, UNCHANGED <<caughtUp, url, reconnect, owed, stall, listDue>>,
         retry' \in BOOLEAN, bootCall' \in BOOLEAN
  PROVE  RingOK' /\ LinkOK' /\ WorkOK'
<1>1. CASE UNCHANGED <<moveVars, sock, handled, lastInstance, positions, built, gate, drain>>
  BY <1>1 DEF moveVars, Typed, RingOK, LinkOK, WorkOK, DrainOK
<1>2. CASE BeginDrain
  <2>1. DrainOK'
    BY <1>2, SomeTable DEF BeginDrain, IdleDrain, DrainOK
  <2> QED
    BY <1>2, <2>1, AskedTyped DEF BeginDrain, Typed, RingOK, LinkOK, WorkOK
<1>3. CASE RejectedAlready
  BY <1>3, AskedTyped DEF RejectedAlready, Typed, RingOK, LinkOK, WorkOK, DrainOK
<1>4. CASE RejectHub
  <2> DEFINE heard == IF Len(candidates) > 1 THEN answers \cup {Selected} ELSE answers
  <2>1. heard \in SUBSET Range(candidates)
    BY RingMembers DEF Typed, RingOK
  <2>2. LinkOK'
    BY <1>4 DEF RejectHub, Blocked, Typed, LinkOK
  <2>3. CASE Move(heard)
    <3>1. /\ candidates' = candidates /\ followed' \in 1..Len(candidates)
          /\ answers' \subseteq Range(candidates)
          /\ grace' = "off" /\ dwell' = FALSE /\ streak' = 0
          /\ DrainOK' /\ positions' \in [AllTables -> SUBSET Pages]
          /\ lastInstance' = None /\ gate' = FALSE /\ built' = [t \in {} |-> {}]
      BY <2>1, <2>3, MoveTyped
    <3>2. RingOK'
      BY <3>1, RingAfterMove
    <3>3. WorkOK'
      BY <3>1 DEF Typed, WorkOK
    <3> QED
      BY <2>2, <3>2, <3>3
  <2>4. CASE ~Move(heard)
    <3>1. /\ answers' = heard /\ grace' = GraceAsked
          /\ UNCHANGED <<candidates, followed, dwell, streak, positions, lastInstance, gate, built, drain>>
      BY <1>4, <2>4 DEF RejectHub
    <3> QED
      BY <2>1, <2>2, <3>1 DEF GraceAsked, Typed, RingOK, WorkOK, DrainOK
  <2> QED
    BY <2>3, <2>4
<1> QED
  BY <1>1, <1>2, <1>3, <1>4 DEF BootstrapAll

LEMMA BootsTyped ==
  ASSUME Typed, ConnectionBoots \/ RetryFires
  PROVE  Typed'
<1>1. HubsOK'
  BY PartsStay DEF ConnectionBoots, RetryFires, hubVars
<1>2. CASE ConnectionBoots
  <2>1. retry' \in BOOLEAN /\ bootCall' \in BOOLEAN
    BY <1>2 DEF ConnectionBoots, Typed, WorkOK
  <2> QED
    BY <1>1, <1>2, <2>1, BootTyped DEF ConnectionBoots, Typed
<1>3. CASE RetryFires
  <2>1. retry' \in BOOLEAN /\ bootCall' \in BOOLEAN
    BY <1>3 DEF RetryFires, Typed, LinkOK
  <2>2. CASE gate
    BY <1>1, <1>3, <2>1, <2>2 DEF RetryFires, moveVars, Typed, RingOK, LinkOK, WorkOK, DrainOK
  <2>3. CASE ~gate
    BY <1>1, <1>3, <2>1, <2>3, BootTyped DEF RetryFires, Typed
  <2> QED
    BY <2>2, <2>3
<1> QED
  BY <1>2, <1>3

\* The socket goes; a certificate and the gate with it.
LEMMA SocketsTyped ==
  ASSUME Typed, Connect \/ ReadyArrives \/ SocketCloses \/ ConnectFails
  PROVE  Typed'
<1>0. HubsOK'
  BY PartsStay DEF Connect, ReadyArrives, SocketCloses, ConnectFails, hubVars
<1>1. CASE Connect
  <2>1. RingOK'
    BY <1>1, RingMembers DEF Connect, moveVars, Typed, RingOK
  <2>2. LinkOK'
    BY <1>1 DEF Connect, Typed, LinkOK
  <2> QED
    BY <1>0, <1>1, <2>1, <2>2, PartsStay DEF Connect, Typed
<1>2. CASE ReadyArrives
  <2>1. RingOK'
    BY <1>2 DEF ReadyArrives, Typed, RingOK
  <2>2. LinkOK'
    BY <1>2 DEF ReadyArrives, Typed, LinkOK
  <2>3. Source(url) \in Sources
    BY RingMembers DEF Typed, HubsOK, Source, Sources
  <2>4. DrainOK'
    <3>1. PICK from \in {drain.from, Adopt(drain.from)} :
            drain' = [drain EXCEPT !.current = drain'.current, !.from = from, !.settles = drain'.settles]
      BY <1>2 DEF ReadyArrives, Typed, WorkOK, DrainOK
    <3>2. drain'.current \in BOOLEAN /\ drain'.settles \in BOOLEAN
      BY <1>2 DEF ReadyArrives, Typed, WorkOK, DrainOK
    <3>3. from \subseteq Pages
      BY DEF Adopt, Pages, Typed, WorkOK, DrainOK
    <3> QED
      BY <3>1, <3>2, <3>3 DEF Typed, WorkOK, DrainOK
  <2>5. positions' \in [AllTables -> SUBSET Pages]
    BY <1>2, NoPositionOK DEF ReadyArrives, PositionsFor, Typed, WorkOK
  <2>6. DOMAIN built' \subseteq AllTables /\ gate' \in BOOLEAN
    BY <1>2 DEF ReadyArrives, Typed, WorkOK
  <2>7. owed' \subseteq AllTables
    BY <1>2 DEF ReadyArrives, Typed, WorkOK, AllTables
  <2> QED
    BY <1>0, <1>2, <2>1, <2>2, <2>3, <2>4, <2>5, <2>6, <2>7 DEF ReadyArrives, Typed, WorkOK
<1>3. CASE SocketCloses
  <2>1. LinkOK'
    BY <1>3 DEF SocketCloses, Closed, Typed, LinkOK
  <2>2. WorkOK'
    <3>1. DrainOK'
      BY <1>3 DEF SocketCloses, Stale, Typed, WorkOK, DrainOK
    <3> QED
      BY <1>3, <3>1 DEF SocketCloses, Typed, WorkOK
  <2> QED
    BY <1>0, <1>3, <2>1, <2>2, PartsStay DEF SocketCloses, Typed
<1>4. CASE ConnectFails
  <2>1. LinkOK'
    BY <1>4 DEF ConnectFails, Closed, Typed, LinkOK
  <2>2. UNCHANGED <<url, owed, retry, stall, listDue>>
    BY <1>4 DEF ConnectFails
  <2>3. CASE Move(answers)
    <3>1. /\ candidates' = candidates /\ followed' \in 1..Len(candidates)
          /\ answers' \subseteq Range(candidates)
          /\ grace' = "off" /\ dwell' = FALSE /\ streak' = 0
          /\ DrainOK' /\ positions' \in [AllTables -> SUBSET Pages]
          /\ lastInstance' = None /\ gate' = FALSE /\ built' = [t \in {} |-> {}]
      BY <2>3, MoveTyped DEF Typed, RingOK
    <3>2. RingOK'
      BY <2>2, <3>1, RingAfterMove
    <3>3. WorkOK'
      BY <2>2, <3>1 DEF Typed, WorkOK
    <3> QED
      BY <1>0, <2>1, <3>2, <3>3 DEF Typed
  <2>4. CASE ~Move(answers)
    <3>1. /\ streak' = IF sock = "starting" \/ streak = ReconnectAttempts THEN streak ELSE streak + 1
          /\ gate' = FALSE /\ built' = [t \in {} |-> {}] /\ Stale
          /\ UNCHANGED <<candidates, followed, answers, grace, dwell, positions, lastInstance>>
      BY <1>4, <2>4 DEF ConnectFails
    <3>2. RingOK'
      BY <2>2, <3>1 DEF Typed, RingOK
    <3>3. DrainOK'
      BY <3>1 DEF Stale, Typed, WorkOK, DrainOK
    <3>4. WorkOK'
      BY <2>2, <3>1, <3>3 DEF Typed, WorkOK
    <3> QED
      BY <1>0, <2>1, <3>2, <3>4 DEF Typed
  <2> QED
    BY <2>3, <2>4
<1> QED
  BY <1>1, <1>2, <1>3, <1>4

\* A drain that stops, or goes on to the next table.
LEMMA StopsTyped ==
  ASSUME Typed, DrainStops
  PROVE  DrainOK' /\ retry' \in BOOLEAN
BY SomeTable DEF DrainStops, IdleDrain, DrainOK

LEMMA NextTableTyped ==
  ASSUME Typed, NEW failed \in BOOLEAN, NextTable(failed)
  PROVE  DrainOK' /\ retry' \in BOOLEAN
<1>1. DrainOK /\ drain.table \in 1..Len(Tables)
  BY DEF Typed, WorkOK, DrainOK
<1>2. CASE drain.table = Len(Tables)
  BY <1>1, <1>2 DEF NextTable, DrainOK, Typed, WorkOK
<1>3. CASE drain.table # Len(Tables)
  <2>1. drain.table + 1 \in 1..Len(Tables)
    BY <1>1, <1>3
  <2> QED
    BY ZenonT(60), <1>1, <1>3, <2>1 DEF NextTable, IdleDrain, DrainOK, Typed, WorkOK
<1> QED
  BY <1>2, <1>3

LEMMA PagesTyped ==
  ASSUME Typed, OpenTable \/ PageServed \/ PageFails \/ PageLands
  PROVE  Typed'
<1>1. HubsOK' /\ RingOK' /\ LinkOK'
  BY PartsStay DEF OpenTable, PageServed, PageFails, PageLands, hubVars, moveVars, linkVars
<1>2. Table \in AllTables
  BY TableOfDrain DEF Typed, WorkOK
<1>3. UNCHANGED <<lastInstance, gate, stall, listDue>>
  BY DEF OpenTable, PageServed, PageFails, PageLands, linkVars
<1>4. CASE OpenTable
  <2> DEFINE from == IF Table \in owed THEN {} ELSE positions[Table]
  <2>1. from \subseteq Pages
    BY <1>2 DEF Typed, WorkOK
  <2>2. positions' \in [AllTables -> SUBSET Pages]
    BY <1>4, <2>1 DEF OpenTable, Typed, WorkOK
  <2>3. DrainOK' /\ retry' \in BOOLEAN
    <3>1. CASE Current
      <4>1. /\ drain' = [drain EXCEPT !.pc = "asking", !.page = 1, !.from = from, !.asks = url,
                                      !.settles = Table \in owed]
            /\ retry' = retry
        BY <1>4, <3>1 DEF OpenTable
      <4>2. (Table \in owed) \in BOOLEAN /\ url \in Hubs /\ 1 \in Nat
        BY RingMembers
      <4> QED
        BY <2>1, <4>1, <4>2 DEF Typed, WorkOK, DrainOK
    <3>2. CASE ~Current
      BY <1>4, <3>2, StopsTyped DEF OpenTable
    <3> QED
      BY <3>1, <3>2
  <2> QED
    BY <1>1, <1>3, <1>4, <2>2, <2>3 DEF OpenTable, Typed, WorkOK
<1>5. CASE PageServed
  <2>1. DrainOK' /\ retry' \in BOOLEAN
    <3>1. CASE Current
      <4>1. drain.asks \in Hubs => Source(drain.asks) \in Pages
        BY DEF Typed, HubsOK, Source, Sources, Pages
      <4>2. drain' = [drain EXCEPT !.pc = "landing", !.from = @ \cup {Source(drain.asks)}] /\ retry' = retry
        BY <1>5, <3>1 DEF PageServed
      <4>3. drain.asks \in Hubs
        BY <1>5 DEF PageServed, Typed, WorkOK, DrainOK
      <4> QED
        BY <4>1, <4>2, <4>3 DEF Typed, WorkOK, DrainOK
    <3>2. CASE ~Current
      BY <1>5, <3>2, StopsTyped DEF PageServed
    <3> QED
      BY <3>1, <3>2
  <2> QED
    BY <1>1, <1>3, <1>5, <2>1 DEF PageServed, Typed, WorkOK
<1>6. CASE PageFails
  <2>1. DrainOK' /\ retry' \in BOOLEAN
    BY <1>6, StopsTyped, NextTableTyped DEF PageFails
  <2> QED
    BY <1>1, <1>3, <1>6, <2>1 DEF PageFails, Typed, WorkOK
<1>7. CASE PageLands
  <2>1. positions' \in [AllTables -> SUBSET Pages]
    BY <1>7 DEF PageLands, Pages, Typed, WorkOK, DrainOK
  <2>2. drain.failed \in BOOLEAN /\ drain.page + 1 \in Nat /\ DrainOK
    BY DEF Typed, WorkOK, DrainOK
  <2>3. DrainOK' /\ retry' \in BOOLEAN
    <3>1. CASE DrainStops
      BY <3>1, StopsTyped
    <3>2. CASE NextTable(drain.failed)
      BY <3>2, <2>2, NextTableTyped
    <3>3. CASE /\ drain' = [drain EXCEPT !.pc = "asking", !.page = @ + 1, !.asks = url]
               /\ UNCHANGED retry
      BY <3>3, <2>2, RingMembers DEF Typed, WorkOK, DrainOK
    <3> QED
      BY <1>7, <3>1, <3>2, <3>3 DEF PageLands
  <2>4. owed' \subseteq AllTables /\ DOMAIN built' \subseteq AllTables
    BY <1>7, <1>2 DEF PageLands, Typed, WorkOK
  <2> QED
    BY <1>1, <1>3, <1>7, <2>1, <2>3, <2>4 DEF PageLands, Typed, WorkOK
<1> QED
  BY <1>4, <1>5, <1>6, <1>7

LEMMA EndsTyped ==
  ASSUME Typed, DrainEnds \/ HubListArrives
  PROVE  Typed'
<1>1. HubsOK'
  BY PartsStay DEF DrainEnds, HubListArrives, hubVars
<1>2. LinkOK'
  BY PartsStay DEF DrainEnds, HubListArrives, linkVars
<1>3. CASE DrainEnds
  <2>1. answers' \subseteq Range(candidates) /\ grace' \in {"off", "running", "passed"}
    BY <1>3, AskedTyped DEF DrainEnds, Typed, RingOK
  <2>2. RingOK'
    <3>1. UNCHANGED <<candidates, followed, dwell, streak, url>>
      BY <1>3 DEF DrainEnds, linkVars
    <3> QED
      BY <2>1, <3>1, RingStays DEF Typed, RingOK
  <2>3. DrainOK' /\ retry' \in BOOLEAN
    <3>1. CASE DrainStops
      BY <3>1, StopsTyped
    <3>2. CASE drain' = IdleDrain /\ retry' = retry
      BY <3>2, SomeTable DEF IdleDrain, DrainOK, Typed, WorkOK
    <3> QED
      BY <1>3, <3>1, <3>2 DEF DrainEnds
  <2>4. /\ gate' \in BOOLEAN /\ listDue' \in BOOLEAN
        /\ stall' \in {"cold", "armed", "resynced"}
    BY <1>3 DEF DrainEnds, Advanced, Typed, WorkOK
  <2>5. UNCHANGED <<lastInstance, positions, owed, built>>
    BY <1>3 DEF DrainEnds, linkVars
  <2> QED
    BY <1>1, <1>2, <2>2, <2>3, <2>4, <2>5 DEF Typed, WorkOK
<1>4. CASE HubListArrives
  <2>1. WorkOK'
    BY ZenonT(60), <1>4 DEF HubListArrives, linkVars, Typed, WorkOK, DrainOK
  <2>2. UNCHANGED <<answers, grace, dwell, streak, url>>
    BY <1>4 DEF HubListArrives, linkVars
  <2>3. PICK more \in SUBSET (Hubs \ Range(candidates)) :
          IF more = {} THEN UNCHANGED <<candidates, followed>>
          ELSE /\ \E rest \in SetToSeqs((Range(candidates) \cup more) \ {Selected}) :
                    candidates' = <<Selected>> \o rest
               /\ followed' = 1
    BY <1>4 DEF HubListArrives
  <2>4. ASSUME more = {} PROVE RingOK'
    BY <2>2, <2>3, <2>4, RingStays DEF Typed, RingOK
  <2>5. ASSUME more # {} PROVE RingOK'
    <3>1. PICK rest \in SetToSeqs((Range(candidates) \cup more) \ {Selected}) :
            candidates' = <<Selected>> \o rest
      BY <2>3, <2>5
    <3>2. TypeOK
      BY PartsOfTypes
    <3>3. /\ Ring(candidates') /\ Range(candidates') = Range(candidates) \cup more
          /\ followed' \in 1..Len(candidates')
      BY <2>3, <2>5, <3>1, <3>2, MergedRing
    <3>4. url' \in Range(candidates') /\ answers' \subseteq Range(candidates')
      BY <2>2, <3>3 DEF Typed, RingOK
    <3>5. grace' \in {"off", "running", "passed"} /\ dwell' \in BOOLEAN /\ streak' \in 0..ReconnectAttempts
      BY <2>2 DEF Typed, RingOK
    <3> QED
      BY <3>3, <3>4, <3>5 DEF RingOK
  <2>6. RingOK'
    BY <2>4, <2>5
  <2> QED
    BY <1>1, <1>2, <2>1, <2>6 DEF Typed
<1> QED
  BY <1>3, <1>4

LEMMA StallsTyped ==
  ASSUME Typed, Stalls
  PROVE  Typed'
<1>1. HubsOK'
  BY PartsStay DEF Stalls, StallResync, StallMoves, HeartbeatAdvances, hubVars
<1>2. CASE HeartbeatAdvances
  <2>1. RingOK' /\ LinkOK'
    BY <1>2, PartsStay DEF HeartbeatAdvances, linkVars
  <2> QED
    BY <1>1, <1>2, <2>1 DEF HeartbeatAdvances, linkVars, Typed, WorkOK, DrainOK
<1>3. ASSUME DriveResync, UNCHANGED <<caughtUp, handled, reconnect, bootCall>>, StallResync \/ StallMoves
      PROVE  LinkOK' /\ owed' \subseteq AllTables
  BY <1>3 DEF DriveResync, Pending, Typed, LinkOK
<1>4. CASE StallResync
  <2>1. LinkOK' /\ owed' \subseteq AllTables
    BY <1>3, <1>4 DEF StallResync
  <2>2. RingOK'
    BY <1>4, PartsStay DEF StallResync
  <2>3. positions' \in [AllTables -> SUBSET Pages] /\ lastInstance' = None
    BY <1>4, NoPositionOK DEF StallResync, Forgotten
  <2>4. DrainOK'
    BY <1>4 DEF StallResync, Typed, WorkOK, DrainOK
  <2> QED
    BY <1>1, <1>4, <2>1, <2>2, <2>3, <2>4 DEF StallResync, Typed, WorkOK
<1>5. CASE StallMoves
  <2>1. LinkOK' /\ owed' \subseteq AllTables
    BY <1>3, <1>5 DEF StallMoves
  <2>2. UNCHANGED <<stall, url, retry, listDue>>
    BY <1>5 DEF StallMoves
  <2>3. CASE Move(answers)
    <3>1. /\ candidates' = candidates /\ followed' \in 1..Len(candidates)
          /\ answers' \subseteq Range(candidates)
          /\ grace' = "off" /\ dwell' = FALSE /\ streak' = 0
          /\ DrainOK' /\ positions' \in [AllTables -> SUBSET Pages]
          /\ lastInstance' = None /\ gate' = FALSE /\ built' = [t \in {} |-> {}]
      BY <2>3, MoveTyped DEF Typed, RingOK
    <3>2. RingOK'
      BY <2>2, <3>1, RingAfterMove
    <3>3. WorkOK'
      BY <2>1, <2>2, <3>1 DEF Typed, WorkOK
    <3> QED
      BY <1>1, <2>1, <3>2, <3>3 DEF Typed
  <2>4. CASE ~Move(answers)
    <3>1. /\ Forgotten /\ drain' = [drain EXCEPT !.settles = FALSE]
          /\ UNCHANGED <<moveVars, built, gate>>
      BY <1>5, <2>4 DEF StallMoves
    <3>2. RingOK'
      BY <2>2, <3>1, PartsStay
    <3>3. DrainOK'
      BY <3>1 DEF Typed, WorkOK, DrainOK
    <3>4. WorkOK'
      BY <2>1, <2>2, <3>1, <3>3, NoPositionOK DEF Forgotten, Typed, WorkOK
    <3> QED
      BY <1>1, <2>1, <3>2, <3>4 DEF Typed
  <2> QED
    BY <2>3, <2>4
<1> QED
  BY <1>2, <1>4, <1>5 DEF Stalls

LEMMA UntouchedTyped ==
  ASSUME Typed, UNCHANGED vars
  PROVE  Typed'
BY PartsStay DEF vars, hubVars, linkVars, Typed

LEMMA NextTyped == Typed /\ [Next]_vars => Typed'
BY HubsTyped, BootsTyped, SocketsTyped, PagesTyped, EndsTyped, StallsTyped, UntouchedTyped
DEF Next, Timers, Sockets, Drains

\* The ring never names a hub twice, no merge loses a seed, and the index, the
\* hub connected to and the answers heard stay on it (hub_selector.js advance,
\* merge); every other variable has its type.
THEOREM RingHolds == Spec => []TypeOK
<1>1. Init => Typed
  BY InitTypes, PartsOfTypes
<1>2. Typed => TypeOK
  BY PartsOfTypes
<1> QED
  BY <1>1, <1>2, NextTyped, PTL DEF Spec

-----------------------------------------------------------------------------
(* What a certificate stands on.                                           *)

\* A live socket is to the database the last ready frame named, and whoever
\* has been named is the hub that is followed.
Subscribed ==
  /\ sock = "ready" => lastInstance = Source(url)
  /\ sock \in {"starting", "connecting", "ready"} => url = Selected
  /\ lastInstance # None => lastInstance[1] = Selected /\ url = Selected

\* The instance named is the hub's, or an older one of it.
Named == lastInstance # None => lastInstance[2] <= instance[lastInstance[1]]

\* Pages of the hub that has been named, and none older than its instance then.
Fresh(page) == page[1] = lastInstance[1] /\ page[2] \in lastInstance[2]..instance[page[1]]
Only(pages) == lastInstance # None => \A page \in pages \cap Sources : Fresh(page)

\* A current drain's pages of table t; a kept position may be marked.
Sound(t, pages) == Adopted \in pages \/ Only(pages) \/ (Late \in pages /\ t \notin Repaged)

PositionsOfHub ==
  \A t \in AllTables : Sound(t, positions[t]) \/ (Late \in positions[t] /\ t \in owed)

PagesOfHub ==
  /\ drain.current /\ drain.pc = "asking" =>
       /\ Sound(Table, drain.from)
       /\ lastInstance = None \/ drain.asks = url \/ Adopted \in drain.from
  /\ drain.current /\ drain.pc = "landing" =>
       Sound(Table, drain.from) /\ drain.from \cap Sources # {}
  /\ ~drain.current /\ drain.pc = "landing" => Sound(Table, drain.from) \/ Table \in owed \/ Table \notin Repaged

BuiltOfHub ==
  \A t \in DOMAIN built :
    Sound(t, built[t]) /\ built[t] \subseteq Pages /\ built[t] \cap Sources # {}

\* A pass without a failure has certified what it has left behind.
PassBuilt ==
  /\ gate => AllTables \subseteq DOMAIN built
  /\ drain.current /\ ~drain.failed =>
       /\ drain.pc = "done" => AllTables \subseteq DOMAIN built
       /\ drain.pc # "idle" => \A n \in 1..(drain.table - 1) : Tables[n] \in DOMAIN built

MovesInv == Subscribed /\ Named /\ PositionsOfHub /\ PagesOfHub /\ BuiltOfHub /\ PassBuilt

LEMMA InitMoves == Init => MovesInv
<1> SUFFICES ASSUME Init PROVE MovesInv
  OBVIOUS
<1>1. drain.pc = "idle" /\ drain.current = FALSE
  BY DEF Init, IdleDrain
<1>2. lastInstance = None /\ url = Selected /\ sock = "starting" /\ gate = FALSE
  BY DEF Init, Selected
<1>3. DOMAIN built = {}
  BY DEF Init
<1> QED
  BY <1>1, <1>2, <1>3 DEF MovesInv, Subscribed, Named, PositionsOfHub, PagesOfHub, BuiltOfHub, PassBuilt, Sound, Only

\* Time goes one way: a named hub stays named or is forgotten, and databases
\* are replaced by newer ones.
Onward ==
  /\ lastInstance' = lastInstance \/ lastInstance' = None
  /\ \A h \in Hubs : instance'[h] \in Nat /\ instance[h] <= instance'[h]

LEMMA SameInstances ==
  ASSUME Typed, instance' = instance
  PROVE  \A h \in Hubs : instance'[h] \in Nat /\ instance[h] <= instance'[h]
BY DEF Typed, HubsOK

LEMMA NamedStays ==
  ASSUME Typed, Named, Onward
  PROVE  Named'
<1> SUFFICES ASSUME lastInstance' # None PROVE lastInstance[2] <= instance'[lastInstance[1]] /\ lastInstance' = lastInstance
  BY DEF Named
<1>1. lastInstance' = lastInstance /\ lastInstance[1] \in Hubs /\ lastInstance[2] \in Nat
  BY DEF Onward, Sources, Typed, WorkOK
<1>2. instance[lastInstance[1]] \in Nat /\ instance'[lastInstance[1]] \in Nat
      /\ instance[lastInstance[1]] <= instance'[lastInstance[1]]
  BY <1>1 DEF Onward, Typed, HubsOK
<1> QED
  BY <1>1, <1>2 DEF Named

LEMMA FreshStays ==
  ASSUME Typed, Onward, lastInstance' # None, NEW page \in Sources, Fresh(page)
  PROVE  Fresh(page)'
<1>1. lastInstance' = lastInstance /\ page[1] \in Hubs /\ page[2] \in Nat /\ lastInstance[2] \in Nat
  BY DEF Onward, Sources, Typed, WorkOK
<1>2. instance[page[1]] \in Nat /\ instance'[page[1]] \in Nat /\ instance[page[1]] <= instance'[page[1]]
  BY <1>1 DEF Onward, Typed, HubsOK
<1> QED
  BY <1>1, <1>2 DEF Fresh

LEMMA SoundStays ==
  ASSUME Typed, Onward, NEW t, NEW pages, Sound(t, pages)
  PROVE  Sound(t, pages)'
<1>1. ASSUME lastInstance' # None, Only(pages), NEW page \in pages \cap Sources
      PROVE  Fresh(page)'
  BY <1>1, FreshStays DEF Onward, Only
<1> QED
  BY <1>1 DEF Sound, Only

LEMMA PositionsStay ==
  ASSUME Typed, Onward, PositionsOfHub, positions' = positions \/ positions' = NoPosition,
         owed \subseteq owed'
  PROVE  PositionsOfHub'
<1> SUFFICES ASSUME NEW t \in AllTables
             PROVE  Sound(t, positions[t])' \/ (Late \in positions'[t] /\ t \in owed')
  BY DEF PositionsOfHub
<1>1. CASE positions' = NoPosition
  BY <1>1 DEF NoPosition, Sound, Only
<1>2. CASE positions' = positions
  <2>1. PICK pages : pages = positions[t] /\ pages = positions'[t]
    BY <1>2
  <2>2. Sound(t, pages) \/ (Late \in pages /\ t \in owed')
    BY <2>1 DEF PositionsOfHub
  <2>3. Sound(t, pages)' \/ (Late \in pages /\ t \in owed')
    BY <2>2, SoundStays
  <2> QED
    BY <2>1, <2>3 DEF Sound, Only
<1> QED
  BY <1>1, <1>2

\* The certificates stand.
SameTables == DOMAIN built' = DOMAIN built /\ \A t \in DOMAIN built : built'[t] = built[t]

LEMMA BuiltStays ==
  ASSUME Typed, Onward, BuiltOfHub, SameTables \/ built' = [t \in {} |-> {}]
  PROVE  BuiltOfHub'
<1>1. CASE built' = [t \in {} |-> {}]
  BY <1>1 DEF BuiltOfHub
<1>2. CASE SameTables
  <2> SUFFICES ASSUME NEW t \in DOMAIN built'
               PROVE  Sound(t, built[t])' /\ built'[t] \subseteq Pages /\ built'[t] \cap Sources # {}
    BY DEF BuiltOfHub
  <2>1. PICK pages : pages = built[t] /\ pages = built'[t]
    BY <1>2 DEF SameTables
  <2>2. Sound(t, pages) /\ pages \subseteq Pages /\ pages \cap Sources # {}
    BY <1>2, <2>1 DEF BuiltOfHub, SameTables
  <2>3. Sound(t, pages)'
    BY <2>2, SoundStays
  <2> QED
    BY <2>1, <2>2, <2>3 DEF Sound, Only
<1> QED
  BY <1>1, <1>2

\* A drain that goes on, or that is stale from now on.
LEMMA PagesStay ==
  ASSUME Typed, Onward, PagesOfHub, owed \subseteq owed', url' = url \/ lastInstance' = None,
         drain'.pc = drain.pc, drain'.table = drain.table, drain'.from = drain.from,
         drain'.asks = drain.asks, drain'.current => drain.current, drain'.current \in BOOLEAN
  PROVE  PagesOfHub'
<1>1. PICK t, pages : t = Table /\ t = Table' /\ pages = drain.from /\ pages = drain'.from
  BY DEF Table
<1>2. Sound(t, pages) => Sound(t, pages)'
  BY SoundStays
<1>3. DrainOK
  BY DEF Typed, WorkOK
<1>4. drain'.current /\ drain'.pc = "asking" =>
        /\ Sound(t, pages)'
        /\ lastInstance' = None \/ drain'.asks = url' \/ Adopted \in pages
  BY <1>1, <1>2 DEF PagesOfHub, Onward
<1>5. drain'.current /\ drain'.pc = "landing" => Sound(t, pages)' /\ pages \cap Sources # {}
  BY <1>1, <1>2 DEF PagesOfHub
<1>6. drain.pc = "landing" => Sound(t, pages) \/ t \in owed \/ t \notin Repaged
  BY <1>1 DEF PagesOfHub
<1>7. drain'.pc = "landing" => Sound(t, pages)' \/ t \in owed' \/ t \notin Repaged
  BY <1>2, <1>6
<1> QED
  BY <1>1, <1>4, <1>5, <1>7 DEF PagesOfHub, Sound, Only

LEMMA PassStays ==
  ASSUME PassBuilt, UNCHANGED <<gate, built>>, drain'.pc = drain.pc, drain'.table = drain.table,
         drain'.failed = drain.failed, drain'.current => drain.current
  PROVE  PassBuilt'
BY DEF PassBuilt

\* Where the gate and every certificate fall, no current drain is under way.
LEMMA PassOver ==
  ASSUME gate' = FALSE, ~drain'.current
  PROVE  PassBuilt'
BY DEF PassBuilt

\* A step that touches neither rows nor drain nor what is named.
LEMMA RowsStay ==
  ASSUME Typed, MovesInv, Onward, UNCHANGED <<url, positions, drain, built, gate>>, owed \subseteq owed'
  PROVE  Named' /\ PositionsOfHub' /\ PagesOfHub' /\ BuiltOfHub' /\ PassBuilt'
<1>1. drain'.current => drain.current
  OBVIOUS
<1>2. drain'.current \in BOOLEAN
  BY DEF Typed, WorkOK, DrainOK
<1>3. PassBuilt'
  BY <1>1, PassStays DEF MovesInv
<1>4. PagesOfHub'
  BY <1>1, <1>2, PagesStay DEF MovesInv
<1> QED
  BY <1>3, <1>4, NamedStays, PositionsStay, BuiltStays DEF MovesInv, SameTables

\* A socket that was live is no longer, or nothing happens to it.
Closing == sock' = sock \/ sock' \in {"none", "ending", "failing"}

LEMMA SubscribedStays ==
  ASSUME Subscribed, Closing, UNCHANGED <<url, lastInstance>>, Selected' = Selected,
         sock' = "ready" => instance'[url] = instance[url]
  PROVE  Subscribed'
BY DEF Subscribed, Closing, Source

\* Nothing is named any more and no socket is on its way or live.
LEMMA NothingNamed ==
  ASSUME lastInstance' = None, sock' \notin {"starting", "connecting", "ready"}
  PROVE  Subscribed'
BY DEF Subscribed

LEMMA HubsKeepMoves ==
  ASSUME Typed, MovesInv, HubChanges \/ HubReplaced \/ GraceElapses \/ DwellElapses
  PROVE  MovesInv'
<1>1. UNCHANGED <<url, lastInstance, candidates, followed, positions, drain, built, gate, owed>>
  BY DEF HubChanges, HubReplaced, GraceElapses, DwellElapses, linkVars, drainVars, moveVars
<1>2. /\ Closing /\ (sock' = "ready" => instance'[url] = instance[url])
      /\ \A h \in Hubs : instance'[h] \in Nat /\ instance[h] <= instance'[h]
  <2>1. CASE HubChanges
    BY <2>1, SameInstances DEF HubChanges, Closing, Lost
  <2>2. CASE HubReplaced
    <3>1. PICK h \in Hubs : instance' = [instance EXCEPT ![h] = @ + 1] /\ sock' = Lost(h)
      BY <2>2 DEF HubReplaced
    <3>2. instance \in [Hubs -> Nat] /\ url \in Hubs
      BY RingMembers DEF Typed, HubsOK
    <3> QED
      BY <3>1, <3>2 DEF Closing, Lost
  <2>3. CASE GraceElapses \/ DwellElapses
    BY <2>3, SameInstances DEF GraceElapses, DwellElapses, hubVars, linkVars, Closing
  <2> QED
    BY <2>1, <2>2, <2>3
<1>3. Onward
  BY <1>1, <1>2 DEF Onward
<1>4. Subscribed'
  BY <1>1, <1>2, SubscribedStays DEF MovesInv, Selected
<1> QED
  BY <1>1, <1>3, <1>4, RowsStay DEF MovesInv

\* What a move leaves of the invariant.
LEMMA MoveKeeps ==
  ASSUME Typed, MovesInv, NEW heard \in SUBSET Range(candidates), Move(heard), instance' = instance,
         owed \subseteq owed', sock' \notin {"starting", "connecting", "ready"}
  PROVE  MovesInv'
<1>1. /\ lastInstance' = None /\ gate' = FALSE /\ built' = [t \in {} |-> {}]
      /\ positions' = NoPosition /\ drain' = [drain EXCEPT !.current = FALSE]
  BY MoveTyped DEF Move
<1>2. Onward
  BY <1>1, SameInstances DEF Onward
<1>3. /\ drain'.pc = drain.pc /\ drain'.table = drain.table /\ drain'.from = drain.from
      /\ drain'.asks = drain.asks /\ drain'.current = FALSE
  BY <1>1 DEF Typed, WorkOK, DrainOK
<1>4. PagesOfHub'
  BY <1>1, <1>2, <1>3, PagesStay DEF MovesInv
<1>5. Subscribed'
  BY <1>1, NothingNamed
<1>6. Named' /\ PositionsOfHub' /\ BuiltOfHub'
  BY <1>1, <1>2, NamedStays, PositionsStay, BuiltStays DEF MovesInv, SameTables
<1>7. PassBuilt'
  BY <1>1, <1>3, PassOver
<1> QED
  BY <1>4, <1>5, <1>6, <1>7 DEF MovesInv

\* A bootstrapAll begins a pass, leaves the hub it is on, or does nothing.
LEMMA BootKeepsMoves ==
  ASSUME Typed, MovesInv, BootstrapAll, UNCHANGED <<url, hubVars, owed>>
  PROVE  MovesInv'
<1>0. instance' = instance /\ \A h \in Hubs : instance'[h] \in Nat /\ instance[h] <= instance'[h]
  BY SameInstances DEF hubVars
<1>1. ASSUME UNCHANGED <<candidates, followed, lastInstance, positions, built, gate, drain>>,
             Closing
      PROVE  MovesInv'
  <2>1. Onward
    BY <1>0, <1>1 DEF Onward
  <2>2. Subscribed'
    BY <1>0, <1>1, SubscribedStays DEF MovesInv, Selected
  <2> QED
    BY <1>1, <2>1, <2>2, RowsStay DEF MovesInv
<1>2. CASE UNCHANGED <<moveVars, sock, handled, lastInstance, positions, built, gate, drain>>
  BY <1>1, <1>2 DEF moveVars, Closing
<1>3. CASE RejectedAlready
  BY <1>1, <1>3 DEF RejectedAlready, Closing
<1>4. CASE BeginDrain /\ ~Running
  <2>1. /\ UNCHANGED <<sock, candidates, followed, lastInstance, positions, built, gate>>
        /\ drain'.pc = "opening" /\ drain'.table = 1
    BY <1>4 DEF BeginDrain, IdleDrain
  <2>2. Onward
    BY <1>0, <2>1 DEF Onward
  <2>3. Subscribed'
    BY <1>0, <2>1, SubscribedStays DEF MovesInv, Selected, Closing
  <2>4. Named' /\ PositionsOfHub' /\ BuiltOfHub'
    BY <2>1, <2>2, NamedStays, PositionsStay, BuiltStays DEF MovesInv, SameTables
  <2>5. PagesOfHub' /\ PassBuilt'
    BY <2>1 DEF MovesInv, PagesOfHub, PassBuilt
  <2> QED
    BY <2>3, <2>4, <2>5 DEF MovesInv
<1>5. CASE RejectHub
  <2> DEFINE heard == IF Len(candidates) > 1 THEN answers \cup {Selected} ELSE answers
  <2>1. sock' = "ending"
    BY <1>5 DEF RejectHub
  <2>2. CASE Move(heard)
    <3>1. heard \in SUBSET Range(candidates)
      BY RingMembers DEF Typed, RingOK
    <3> QED
      BY <1>0, <2>1, <2>2, <3>1, MoveKeeps
  <2>3. CASE ~Move(heard)
    <3>1. UNCHANGED <<candidates, followed, positions, lastInstance, gate, built, drain>>
      BY <1>5, <2>3 DEF RejectHub
    <3> QED
      BY <1>1, <2>1, <3>1 DEF Closing
  <2> QED
    BY <2>2, <2>3
<1> QED
  BY <1>2, <1>3, <1>4, <1>5 DEF BootstrapAll

LEMMA BootsKeepMoves ==
  ASSUME Typed, MovesInv, ConnectionBoots \/ RetryFires
  PROVE  MovesInv'
<1>1. UNCHANGED <<url, hubVars, owed>>
  BY DEF ConnectionBoots, RetryFires
<1>2. CASE BootstrapAll
  BY <1>1, <1>2, BootKeepsMoves
<1>3. CASE UNCHANGED <<moveVars, sock, handled, lastInstance, positions, built, gate, drain>>
  <2>1. Onward
    BY <1>1, <1>3, SameInstances DEF Onward, hubVars
  <2>2. Subscribed'
    BY <1>1, <1>3, SubscribedStays DEF MovesInv, Selected, Closing, hubVars, moveVars
  <2> QED
    BY <1>1, <1>3, <2>1, <2>2, RowsStay DEF MovesInv
<1> QED
  BY <1>2, <1>3 DEF ConnectionBoots, RetryFires

\* The ready frame names the hub: what is kept was paged off the same
\* instance, is dropped, or is adopted with a mark.
LEMMA ReadyKeepsMoves ==
  ASSUME Typed, MovesInv, ReadyArrives
  PROVE  MovesInv'
<1>1. PICK source, replaced : source = Source(url) /\ replaced = (lastInstance \notin {None, source})
  OBVIOUS
<1>2. /\ sock \in {"starting", "connecting"} /\ sock' = "ready"
      /\ UNCHANGED <<url, instance, candidates, followed>>
      /\ lastInstance' = source /\ owed' = owed \cup Repaged
  BY <1>1 DEF ReadyArrives, Pending, hubVars
<1>3. /\ positions' = (IF source = lastInstance THEN positions ELSE NoPosition)
      /\ gate' = (gate /\ ~replaced)
      /\ built' = IF replaced THEN [t \in {} |-> {}] ELSE [t \in DOMAIN built |-> Adopt(built[t])]
  BY <1>1 DEF ReadyArrives, PositionsFor
<1>4. /\ drain'.pc = drain.pc /\ drain'.table = drain.table /\ drain'.asks = drain.asks
      /\ drain'.failed = drain.failed /\ drain'.current = (drain.current /\ ~replaced)
      /\ drain'.from = IF drain.current /\ drain.pc \in {"asking", "landing"} THEN Adopt(drain.from) ELSE drain.from
  BY <1>1 DEF ReadyArrives, Typed, WorkOK, DrainOK
<1>5. source \in Sources /\ source # None /\ source[1] = url
  BY <1>1, RingMembers DEF Typed, HubsOK, Source, Sources
<1>6. url = Selected
  BY <1>2 DEF MovesInv, Subscribed
<1>7. Subscribed' /\ Named'
  <2>1. instance[url] \in Nat
    BY RingMembers DEF Typed, HubsOK
  <2> QED
    BY <1>1, <1>2, <1>5, <1>6, <2>1 DEF Subscribed, Named, Source, Selected
<1>8. /\ PositionsOfHub' /\ BuiltOfHub' /\ PagesOfHub'
  <2>1. CASE lastInstance = source
    <3>1. Onward
      BY <1>2, <2>1, SameInstances DEF Onward
    <3>2. SameTables /\ positions' = positions /\ drain'.from = drain.from /\ ~replaced
      <4>1. ~replaced /\ lastInstance # None
        BY <1>1, <1>5, <2>1
      <4>2. Adopt(drain.from) = drain.from /\ \A t \in DOMAIN built : Adopt(built[t]) = built[t]
        BY <4>1 DEF Adopt
      <4>3. SameTables
        BY <1>3, <4>1, <4>2 DEF SameTables
      <4> QED
        BY <1>3, <1>4, <2>1, <4>1, <4>2, <4>3
    <3>3. drain'.current \in BOOLEAN /\ (drain'.current => drain.current)
      BY <1>4 DEF Typed, WorkOK, DrainOK
    <3> QED
      BY <1>2, <1>4, <3>1, <3>2, <3>3, PositionsStay, BuiltStays, PagesStay DEF MovesInv
  <2>2. CASE lastInstance # source
    <3>1. PositionsOfHub'
      <4>1. positions' = NoPosition
        BY <1>3, <2>2
      <4> QED
        BY <4>1 DEF PositionsOfHub, NoPosition, Sound, Only
    <3>2. replaced <=> lastInstance # None
      BY <1>1, <2>2
    <3>3. CASE replaced
      <4>1. BuiltOfHub'
        BY <1>3, <3>3 DEF BuiltOfHub
      <4>2. PagesOfHub'
        BY <1>2, <1>4, <3>3 DEF PagesOfHub, Table
      <4> QED
        BY <3>1, <4>1, <4>2
    <3>4. CASE ~replaced
      <4>1. \A pages : Adopt(pages) = pages \cup {Adopted}
        BY <3>2, <3>4 DEF Adopt
      <4>2. BuiltOfHub'
        <5>1. built' = [t \in DOMAIN built |-> built[t] \cup {Adopted}]
          BY <1>3, <3>4, <4>1
        <5>2. \A t \in DOMAIN built : built[t] \subseteq Pages /\ built[t] \cap Sources # {}
          BY DEF MovesInv, BuiltOfHub
        <5>3. \A t \in DOMAIN built' : Adopted \in built'[t] /\ built'[t] \subseteq Pages /\ built'[t] \cap Sources # {}
          BY <5>1, <5>2 DEF Pages
        <5> QED
          BY <5>3 DEF BuiltOfHub, Sound
      <4>3. PagesOfHub'
        <5>1. ASSUME drain'.current, drain'.pc \in {"asking", "landing"}
              PROVE  Adopted \in drain'.from
          BY <1>4, <4>1, <5>1
        <5>2. ASSUME drain'.current, drain'.pc = "landing"
              PROVE  drain'.from \cap Sources # {}
          BY <1>4, <4>1, <5>2 DEF MovesInv, PagesOfHub
        <5>3. ~drain'.current /\ drain'.pc = "landing" => Table' \in owed' \/ Table' \notin Repaged
          BY <1>2
        <5> QED
          BY <5>1, <5>2, <5>3 DEF PagesOfHub, Sound
      <4> QED
        BY <3>1, <4>2, <4>3
    <3> QED
      BY <3>3, <3>4
  <2> QED
    BY <2>1, <2>2
<1>9. PassBuilt'
  <2>1. CASE replaced
    BY <1>3, <1>4, <2>1, PassOver
  <2>2. CASE ~replaced
    BY <1>3, <1>4, <2>2 DEF MovesInv, PassBuilt
  <2> QED
    BY <1>1, <2>1, <2>2
<1> QED
  BY <1>7, <1>8, <1>9 DEF MovesInv

LEMMA SocketsKeepMoves ==
  ASSUME Typed, MovesInv, Connect \/ SocketCloses \/ ConnectFails
  PROVE  MovesInv'
<1>0. instance' = instance /\ owed \subseteq owed'
  BY DEF Connect, SocketCloses, ConnectFails, hubVars, drainVars
<1>1. CASE Connect
  <2>1. /\ sock = "none" /\ sock' = "connecting" /\ url' = Selected
        /\ UNCHANGED <<lastInstance, positions, drain, built, gate, candidates, followed>>
    BY <1>1 DEF Connect, drainVars, moveVars
  <2>2. Onward
    BY <1>0, <2>1, SameInstances DEF Onward
  <2>3. Subscribed'
    BY <2>1 DEF MovesInv, Subscribed, Selected
  <2>4. url' = url \/ lastInstance' = None
    BY <2>1 DEF MovesInv, Subscribed
  <2>5. drain'.current \in BOOLEAN
    BY <2>1 DEF Typed, WorkOK, DrainOK
  <2>6. PagesOfHub'
    BY <1>0, <2>1, <2>2, <2>4, <2>5, PagesStay DEF MovesInv
  <2> QED
    BY <1>0, <2>1, <2>2, <2>3, <2>6, NamedStays, PositionsStay, BuiltStays, PassStays DEF MovesInv, SameTables
<1>2. ASSUME sock' = "none", UNCHANGED <<url, candidates, followed, positions>>,
             lastInstance' \in {lastInstance, None},
             gate' = FALSE, built' = [t \in {} |-> {}], drain' = [drain EXCEPT !.current = FALSE]
      PROVE  MovesInv'
  <2>1. Onward
    BY <1>0, <1>2, SameInstances DEF Onward
  <2>2. /\ drain'.pc = drain.pc /\ drain'.table = drain.table /\ drain'.from = drain.from
        /\ drain'.asks = drain.asks /\ drain'.current = FALSE
    BY <1>2 DEF Typed, WorkOK, DrainOK
  <2>3. PagesOfHub'
    BY <1>0, <1>2, <2>1, <2>2, PagesStay DEF MovesInv
  <2>4. Subscribed'
    BY <1>2 DEF MovesInv, Subscribed, Selected
  <2>5. Named' /\ PositionsOfHub' /\ BuiltOfHub'
    BY <1>0, <1>2, <2>1, NamedStays, PositionsStay, BuiltStays DEF MovesInv, SameTables
  <2>6. PassBuilt'
    BY <1>2, <2>2, PassOver
  <2> QED
    BY <2>3, <2>4, <2>5, <2>6 DEF MovesInv
<1>3. CASE SocketCloses
  BY <1>2, <1>3 DEF SocketCloses, Closed, Stale, moveVars
<1>4. CASE ConnectFails
  <2>1. sock' = "none" /\ url' = url
    BY <1>4 DEF ConnectFails, Closed
  <2>2. CASE Move(answers)
    BY <1>0, <2>1, <2>2, MoveKeeps DEF Typed, RingOK
  <2>3. CASE ~Move(answers)
    BY <1>2, <1>4, <2>1, <2>3 DEF ConnectFails, Stale
  <2> QED
    BY <2>2, <2>3
<1> QED
  BY <1>1, <1>3, <1>4

\* A drain that stops says nothing of its tables any more.
LEMMA StoppedPass ==
  ASSUME MovesInv, DrainStops, gate' = gate, built' = built
  PROVE  PagesOfHub' /\ PassBuilt'
BY DEF DrainStops, IdleDrain, MovesInv, PagesOfHub, PassBuilt

LEMMA NextTableKeeps ==
  ASSUME Typed, MovesInv, NEW failed \in BOOLEAN, NextTable(failed), gate' = gate,
         drain.pc # "idle", DOMAIN built \subseteq DOMAIN built',
         drain.current /\ ~failed => ~drain.failed /\ Table \in DOMAIN built'
  PROVE  PagesOfHub' /\ PassBuilt'
<1>1. /\ drain'.pc \in {"opening", "done"} /\ drain'.failed = failed /\ drain'.current = drain.current
      /\ drain'.pc = "opening" => drain.table # Len(Tables) /\ drain'.table = drain.table + 1
      /\ drain'.pc = "done" => drain.table = Len(Tables) /\ drain'.table = drain.table
  BY DEF NextTable, IdleDrain, Typed, WorkOK, DrainOK
<1>2. PagesOfHub'
  BY <1>1 DEF PagesOfHub
<1>3. ASSUME drain'.current, ~failed, NEW n \in 1..drain.table
      PROVE  Tables[n] \in DOMAIN built'
  <2>1. drain.current /\ ~drain.failed /\ Table \in DOMAIN built'
    BY <1>1, <1>3
  <2>2. CASE n = drain.table
    BY <2>1, <2>2 DEF Table
  <2>3. CASE n # drain.table
    <3>1. n \in 1..(drain.table - 1)
      BY <1>3, <2>3 DEF Typed, WorkOK, DrainOK
    <3> QED
      BY <2>1, <3>1 DEF MovesInv, PassBuilt
  <2> QED
    BY <2>2, <2>3
<1>4. drain'.current /\ ~failed /\ drain'.pc = "done" => AllTables \subseteq DOMAIN built'
  BY <1>1, <1>3 DEF AllTables, Range
<1>5. drain'.current /\ ~failed => \A n \in 1..(drain'.table - 1) : Tables[n] \in DOMAIN built'
  BY <1>1, <1>3 DEF Typed, WorkOK, DrainOK
<1>6. gate' => AllTables \subseteq DOMAIN built'
  BY DEF MovesInv, PassBuilt
<1> QED
  BY <1>1, <1>2, <1>4, <1>5, <1>6 DEF PassBuilt

\* Whether pages are sound is a matter of what is named.
LEMMA SameSound ==
  ASSUME UNCHANGED <<lastInstance, instance>>
  PROVE  \A t, pages : Sound(t, pages)' <=> Sound(t, pages)
BY DEF Sound, Only, Fresh

\* A position written for the table in hand.
LEMMA PositionWritten ==
  ASSUME Typed, MovesInv, UNCHANGED <<lastInstance, instance>>, NEW pages,
         positions' = [positions EXCEPT ![Table] = pages],
         Sound(Table, pages) \/ (Late \in pages /\ Table \in owed'),
         \A t \in owed \ owed' : t = Table
  PROVE  PositionsOfHub'
<1>1. Table \in AllTables
  BY TableOfDrain DEF Typed, WorkOK
<1> SUFFICES ASSUME NEW t \in AllTables
             PROVE  Sound(t, positions[t])' \/ (Late \in positions'[t] /\ t \in owed')
  BY DEF PositionsOfHub
<1>2. PICK held : held = positions'[t]
  OBVIOUS
<1>3. Sound(t, held) \/ (Late \in held /\ t \in owed')
  <2>1. CASE t = Table
    BY <1>1, <1>2, <2>1 DEF Typed, WorkOK
  <2>2. CASE t # Table
    BY <1>2, <2>2 DEF MovesInv, PositionsOfHub, Typed, WorkOK
  <2> QED
    BY <2>1, <2>2
<1>4. Sound(t, held)' \/ (Late \in held /\ t \in owed')
  BY <1>3, SameSound
<1> QED
  BY <1>2, <1>4 DEF Sound, Only

LEMMA PagesKeepMoves ==
  ASSUME Typed, MovesInv, OpenTable \/ PageServed \/ PageFails \/ PageLands
  PROVE  MovesInv'
<1>1. UNCHANGED <<sock, url, lastInstance, instance, gate, candidates, followed>>
  BY DEF OpenTable, PageServed, PageFails, PageLands, hubVars, linkVars, moveVars
<1>2. Subscribed' /\ Named'
  BY <1>1, SubscribedStays DEF MovesInv, Named, Selected, Closing
<1>3. DrainOK /\ Table \in AllTables
  BY TableOfDrain DEF Typed, WorkOK
<1>4. Onward
  BY <1>1, SameInstances DEF Onward
<1>5. PICK table : table = Table
  OBVIOUS
<1>6. CASE OpenTable
  <2>1. PICK from : from = IF Table \in owed THEN {} ELSE positions[Table]
    OBVIOUS
  <2>2. positions' = [positions EXCEPT ![Table] = from] /\ built' = built /\ owed' = owed
    BY <1>6, <2>1 DEF OpenTable
  <2>3. Sound(Table, from)
    BY <1>3, <2>1 DEF MovesInv, PositionsOfHub, Sound, Only
  <2>4. PositionsOfHub' /\ BuiltOfHub'
    BY <1>1, <1>4, <2>2, <2>3, PositionWritten, BuiltStays DEF MovesInv, SameTables
  <2>5. CASE DrainStops
    BY <1>1, <1>2, <2>2, <2>4, <2>5, StoppedPass DEF MovesInv
  <2>6. CASE ~DrainStops
    <3>1. drain' = [drain EXCEPT !.pc = "asking", !.page = 1, !.from = from, !.asks = url,
                                 !.settles = Table \in owed]
      BY <1>6, <2>1, <2>6 DEF OpenTable
    <3>2. /\ drain'.pc = "asking" /\ drain'.from = from /\ drain'.asks = url /\ drain'.table = drain.table
          /\ drain'.current = drain.current /\ drain'.failed = drain.failed
      BY <1>3, <3>1 DEF DrainOK
    <3>3. Sound(table, from)'
      BY <1>1, <1>5, <2>3, SameSound
    <3>4. PagesOfHub'
      BY <1>1, <1>5, <3>2, <3>3 DEF PagesOfHub, Table, Sound, Only
    <3>5. PassBuilt'
      BY <1>1, <1>6, <2>2, <3>2 DEF OpenTable, MovesInv, PassBuilt
    <3> QED
      BY <1>2, <2>4, <3>4, <3>5 DEF MovesInv
  <2> QED
    BY <2>5, <2>6
<1>7. CASE PageServed
  <2>1. UNCHANGED <<positions, built, owed>> /\ drain.pc = "asking"
    BY <1>7 DEF PageServed
  <2>2. PositionsOfHub' /\ BuiltOfHub'
    BY <1>4, <2>1, PositionsStay, BuiltStays DEF MovesInv, SameTables
  <2>3. CASE DrainStops
    BY <1>1, <1>2, <2>1, <2>2, <2>3, StoppedPass DEF MovesInv
  <2>4. CASE ~DrainStops
    <3>1. PICK from, source : from = drain.from \cup {source} /\ source = Source(drain.asks)
      OBVIOUS
    <3>2. /\ drain.current
          /\ drain' = [drain EXCEPT !.pc = "landing", !.from = drain.from \cup {Source(drain.asks)}]
      BY <1>7, <2>4 DEF PageServed, Current
    <3>3. /\ drain'.pc = "landing" /\ drain'.from = from
          /\ drain'.table = drain.table /\ drain'.current = drain.current /\ drain'.failed = drain.failed
      BY <1>3, <3>1, <3>2 DEF DrainOK
    <3>4. drain.asks \in Hubs
      BY <2>1 DEF Typed, WorkOK, DrainOK
    <3>5. source \in Sources /\ from \cap Sources # {}
      BY <3>1, <3>4 DEF Source, Sources, Typed, HubsOK
    <3>6. Sound(table, from)
      <4>1. CASE Adopted \in from \/ lastInstance = None
        BY <4>1 DEF Sound, Only
      <4>2. CASE Adopted \notin from /\ lastInstance # None
        <5>1. drain.asks = url /\ url = lastInstance[1]
          BY <2>1, <3>1, <3>2, <4>2 DEF MovesInv, PagesOfHub, Subscribed
        <5>2. source[1] = lastInstance[1] /\ source[2] = instance[source[1]]
          BY <3>1, <5>1 DEF Source
        <5>3. Sound(table, drain.from)
          BY <1>5, <2>1, <3>2 DEF MovesInv, PagesOfHub
        <5>4. instance[source[1]] \in Nat /\ lastInstance[2] \in Nat
          BY <3>5, <4>2 DEF Sources, Typed, HubsOK, WorkOK
        <5>5. lastInstance[2] <= instance[lastInstance[1]]
          BY <4>2 DEF MovesInv, Named
        <5>6. Fresh(source)
          BY <5>2, <5>4, <5>5 DEF Fresh
        <5> QED
          BY <3>1, <5>3, <5>6 DEF Sound, Only
      <4> QED
        BY <4>1, <4>2
    <3>7. Sound(table, from)'
      BY <1>1, <3>6, SameSound
    <3>8. PagesOfHub'
      BY <1>5, <3>2, <3>3, <3>5, <3>7 DEF PagesOfHub, Table, Sound, Only
    <3>9. PassBuilt'
      BY <1>1, <2>1, <3>3 DEF MovesInv, PassBuilt
    <3> QED
      BY <1>2, <2>2, <3>8, <3>9 DEF MovesInv
  <2> QED
    BY <2>3, <2>4
<1>8. CASE PageFails
  <2>1. UNCHANGED <<positions, built, owed>> /\ drain.pc = "asking"
    BY <1>8 DEF PageFails
  <2>2. PositionsOfHub' /\ BuiltOfHub'
    BY <1>4, <2>1, PositionsStay, BuiltStays DEF MovesInv, SameTables
  <2>3. PagesOfHub' /\ PassBuilt'
    BY <1>1, <1>8, <2>1, StoppedPass, NextTableKeeps DEF PageFails
  <2> QED
    BY <1>2, <2>2, <2>3 DEF MovesInv
<1>9. CASE PageLands
  <2>1. PICK pages : pages = IF drain.current THEN drain.from ELSE drain.from \cup {Late}
    OBVIOUS
  <2>2. drain.pc = "landing" /\ positions' = [positions EXCEPT ![Table] = pages]
    BY <1>9, <2>1 DEF PageLands
  <2>3. /\ drain.current => Sound(Table, drain.from) /\ drain.from \cap Sources # {}
        /\ ~drain.current => Sound(Table, drain.from) \/ Table \in owed \/ Table \notin Repaged
    BY <2>2 DEF MovesInv, PagesOfHub
  <2>4. Sound(Table, pages) \/ (Late \in pages /\ Table \in owed /\ ~drain.current)
    <3>1. CASE drain.current
      BY <2>1, <2>3, <3>1
    <3>2. CASE ~drain.current
      <4>1. Late \in pages /\ Late \notin Sources /\ pages = drain.from \cup {Late}
        BY <2>1, <3>2 DEF Sources
      <4>2. Sound(Table, drain.from) => Sound(Table, pages)
        BY <4>1 DEF Sound, Only
      <4> QED
        BY <2>3, <3>2, <4>1, <4>2 DEF Sound
    <3> QED
      BY <3>1, <3>2
  <2>5. /\ drain.current => owed' = owed \/ owed' = owed \ {Table}
        /\ ~drain.current => owed' = owed
    BY <1>9 DEF PageLands, Current
  <2>6. PositionsOfHub'
    BY <1>1, <2>2, <2>4, <2>5, PositionWritten
  <2>7. CASE DrainStops /\ built' = built
    <3>1. BuiltOfHub'
      BY <1>4, <2>7, BuiltStays DEF MovesInv, SameTables
    <3> QED
      BY <1>1, <1>2, <2>6, <2>7, <3>1, StoppedPass DEF MovesInv
  <2>8. CASE /\ drain' = [drain EXCEPT !.pc = "asking", !.page = @ + 1, !.asks = url]
             /\ built' = built /\ drain.current
    <3>1. /\ drain'.pc = "asking" /\ drain'.from = drain.from /\ drain'.asks = url
          /\ drain'.table = drain.table /\ drain'.current = drain.current /\ drain'.failed = drain.failed
      BY <1>3, <2>8 DEF DrainOK
    <3>2. PICK from : from = drain.from
      OBVIOUS
    <3>3. Sound(table, from)'
      BY <1>1, <1>5, <2>3, <2>8, <3>2, SameSound
    <3>4. PagesOfHub'
      BY <1>1, <1>5, <3>1, <3>2, <3>3 DEF PagesOfHub, Table, Sound, Only
    <3>5. PassBuilt'
      BY <1>1, <2>2, <2>8, <3>1 DEF MovesInv, PassBuilt
    <3>6. BuiltOfHub'
      BY <1>4, <2>8, BuiltStays DEF MovesInv, SameTables
    <3> QED
      BY <1>2, <2>6, <3>4, <3>5, <3>6 DEF MovesInv
  <2>9. CASE /\ drain.current /\ NextTable(drain.failed)
             /\ built' = [t \in DOMAIN built \cup {Table} |-> IF t = Table THEN drain.from ELSE built[t]]
    <3>1. DOMAIN built' = DOMAIN built \cup {Table}
      BY <2>9
    <3>2. BuiltOfHub'
      <4> SUFFICES ASSUME NEW t \in DOMAIN built'
                   PROVE  Sound(t, built[t])' /\ built'[t] \subseteq Pages /\ built'[t] \cap Sources # {}
        BY DEF BuiltOfHub
      <4>1. PICK held : held = built'[t]
        OBVIOUS
      <4>2. Sound(t, held) /\ held \subseteq Pages /\ held \cap Sources # {}
        <5>1. CASE t = Table
          BY <1>3, <2>3, <2>9, <4>1, <5>1 DEF DrainOK
        <5>2. CASE t # Table
          BY <2>9, <3>1, <4>1, <5>2 DEF MovesInv, BuiltOfHub
        <5> QED
          BY <5>1, <5>2
      <4>3. Sound(t, held)'
        BY <1>1, <4>2, SameSound
      <4> QED
        BY <4>1, <4>2, <4>3 DEF Sound, Only
    <3>3. drain.failed \in BOOLEAN
      BY <1>3 DEF DrainOK
    <3>4. PagesOfHub' /\ PassBuilt'
      BY <1>1, <2>2, <2>9, <3>1, <3>3, NextTableKeeps
    <3> QED
      BY <1>2, <2>6, <3>2, <3>4 DEF MovesInv
  <2> QED
    BY <1>9, <2>7, <2>8, <2>9 DEF PageLands, Current
<1> QED
  BY <1>6, <1>7, <1>8, <1>9

LEMMA EndsKeepMoves ==
  ASSUME Typed, MovesInv, DrainEnds \/ HubListArrives
  PROVE  MovesInv'
<1>1. UNCHANGED <<sock, url, lastInstance, instance, positions, built, owed>>
  BY DEF DrainEnds, HubListArrives, hubVars, linkVars
<1>2. Onward
  BY <1>1, SameInstances DEF Onward
<1>3. Selected' = Selected
  <2>1. CASE DrainEnds
    BY <2>1 DEF DrainEnds, Selected
  <2>2. CASE HubListArrives
    <3>1. \/ UNCHANGED <<candidates, followed>>
          \/ \E more \in SUBSET (Hubs \ Range(candidates)) :
               /\ \E rest \in SetToSeqs((Range(candidates) \cup more) \ {Selected}) :
                    candidates' = <<Selected>> \o rest
               /\ followed' = 1
      BY <2>2 DEF HubListArrives
    <3>2. ASSUME NEW more \in SUBSET (Hubs \ Range(candidates)),
                 NEW rest \in SetToSeqs((Range(candidates) \cup more) \ {Selected}),
                 candidates' = <<Selected>> \o rest, followed' = 1
          PROVE  Selected' = Selected
      <4>1. IsFiniteSet((Range(candidates) \cup more) \ {Selected})
        BY RingMembers, FS_Subset
      <4>2. rest \in Seq((Range(candidates) \cup more) \ {Selected})
        BY <4>1, OrdersOfSet
      <4>3. (<<Selected>> \o rest)[1] = Selected
        BY <4>2
      <4> QED
        BY <3>2, <4>3 DEF Selected
    <3> QED
      BY <3>1, <3>2 DEF Selected
  <2> QED
    BY <2>1, <2>2
<1>4. Subscribed' /\ Named'
  BY <1>1, <1>3, SubscribedStays DEF MovesInv, Named, Closing
<1>5. PositionsOfHub' /\ BuiltOfHub'
  BY <1>1, <1>2, PositionsStay, BuiltStays DEF MovesInv, SameTables
<1>6. CASE HubListArrives
  BY <1>1, <1>2, <1>4, <1>6, RowsStay DEF HubListArrives, MovesInv
<1>7. CASE DrainEnds
  <2>1. CASE DrainStops /\ gate' = gate
    BY <1>1, <1>4, <1>5, <2>1, StoppedPass DEF MovesInv
  <2>2. CASE drain.current /\ ~drain.failed /\ drain' = IdleDrain
    <3>1. PagesOfHub'
      BY <2>2 DEF IdleDrain, PagesOfHub
    <3>2. AllTables \subseteq DOMAIN built'
      BY <1>1, <1>7, <2>2 DEF DrainEnds, MovesInv, PassBuilt
    <3>3. PassBuilt'
      BY <2>2, <3>2 DEF IdleDrain, PassBuilt
    <3> QED
      BY <1>4, <1>5, <3>1, <3>3 DEF MovesInv
  <2> QED
    BY <1>7, <2>1, <2>2 DEF DrainEnds, Current
<1> QED
  BY <1>6, <1>7

LEMMA StallsKeepMoves ==
  ASSUME Typed, MovesInv, Stalls
  PROVE  MovesInv'
<1>0. DrainOK
  BY DEF Typed, WorkOK
<1>1. CASE HeartbeatAdvances
  <2>1. UNCHANGED <<url, sock, lastInstance, instance, candidates, followed, positions, drain, built, gate, owed>>
    BY <1>1 DEF HeartbeatAdvances, hubVars, linkVars, moveVars
  <2>2. Onward
    BY <2>1, SameInstances DEF Onward
  <2>3. Subscribed'
    BY <2>1, SubscribedStays DEF MovesInv, Closing, Selected
  <2> QED
    BY <2>1, <2>2, <2>3, RowsStay DEF MovesInv
<1>2. CASE StallResync \/ StallMoves
  <2>1. DriveResync /\ instance' = instance /\ url' = url
    BY <1>2 DEF StallResync, StallMoves
  <2>2. sock' \notin {"starting", "connecting", "ready"} /\ owed \subseteq owed'
    BY <2>1 DEF DriveResync, Pending, Typed, LinkOK, WorkOK
  <2>3. \/ Move(answers)
        \/ /\ Forgotten /\ drain' = [drain EXCEPT !.settles = FALSE]
           /\ UNCHANGED <<built, gate>>
    BY <1>2 DEF StallResync, StallMoves
  <2>4. CASE Move(answers)
    BY <2>1, <2>2, <2>4, MoveKeeps DEF Typed, RingOK
  <2>5. CASE /\ Forgotten /\ drain' = [drain EXCEPT !.settles = FALSE]
             /\ UNCHANGED <<built, gate>>
    <3>1. lastInstance' = None /\ positions' = NoPosition
      BY <2>5 DEF Forgotten
    <3>2. Onward
      BY <2>1, <3>1, SameInstances DEF Onward
    <3>3. /\ drain'.pc = drain.pc /\ drain'.table = drain.table /\ drain'.from = drain.from
          /\ drain'.asks = drain.asks /\ drain'.current = drain.current /\ drain'.failed = drain.failed
      BY <1>0, <2>5 DEF DrainOK
    <3>4. drain'.current \in BOOLEAN
      BY <1>0, <3>3 DEF DrainOK
    <3>5. PagesOfHub'
      BY <2>1, <2>2, <3>2, <3>3, <3>4, PagesStay DEF MovesInv
    <3>6. Subscribed'
      BY <2>2, <3>1, NothingNamed
    <3> QED
      BY <2>2, <2>5, <3>1, <3>2, <3>3, <3>5, <3>6, NamedStays, PositionsStay, BuiltStays, PassStays DEF MovesInv, SameTables
  <2> QED
    BY <2>3, <2>4, <2>5
<1> QED
  BY <1>1, <1>2 DEF Stalls

LEMMA UntouchedMoves ==
  ASSUME Typed, MovesInv, UNCHANGED vars
  PROVE  MovesInv'
<1>1. UNCHANGED <<url, sock, lastInstance, instance, candidates, followed, positions, drain, built, gate, owed>>
  BY DEF vars, hubVars, linkVars, moveVars, drainVars
<1>2. Onward
  BY <1>1, SameInstances DEF Onward
<1>3. Subscribed'
  BY <1>1, SubscribedStays DEF MovesInv, Closing, Selected
<1> QED
  BY <1>1, <1>2, <1>3, RowsStay DEF MovesInv

LEMMA NextMoves == Typed /\ MovesInv /\ [Next]_vars => MovesInv'
BY HubsKeepMoves, BootsKeepMoves, ReadyKeepsMoves, SocketsKeepMoves, PagesKeepMoves,
   EndsKeepMoves, StallsKeepMoves, UntouchedMoves
DEF Next, Timers, Sockets, Drains

\* What a live subscription certifies was paged from zero off the database it is
\* to, however moves, resyncs, replaced databases, refused connections, late
\* pages and drains without a subscription come together: whatever else a
\* certificate stands on was adopted with a ready frame that had no instance to
\* be compared with, or was written late into the position of a table that is
\* not paged anew on each connection (resetForMove, adoptReadyFrame, and the
\* epoch and revision checks of bootstrapAll and drain.js).
THEOREM OneHubCertifies == Spec => []CertifiedByHub
<1>1. Init => Typed /\ MovesInv
  BY InitTypes, PartsOfTypes, InitMoves
<1>2. Typed /\ MovesInv /\ [Next]_vars => (Typed /\ MovesInv)'
  BY NextTyped, NextMoves
<1>3. Typed /\ MovesInv => CertifiedByHub
  <2> SUFFICES ASSUME Typed, MovesInv, sock = "ready"
               PROVE  /\ \A t \in DOMAIN built :
                           \/ Adopted \in built[t]
                           \/ Late \in built[t] /\ t \notin Repaged
                           \/ built[t] \ {Late} = {lastInstance}
                      /\ gate => DOMAIN built = AllTables
    BY DEF CertifiedByHub
  <2>1. /\ lastInstance = Source(url) /\ lastInstance \in Sources /\ lastInstance # None
        /\ lastInstance[1] = url /\ lastInstance[2] = instance[url] /\ instance[url] \in Nat
    BY RingMembers DEF MovesInv, Subscribed, Source, Sources, Typed, HubsOK
  <2>2. ASSUME NEW page \in Sources, Fresh(page)
        PROVE  page = lastInstance
    BY <2>1, <2>2 DEF Fresh, Sources
  <2>3. ASSUME NEW t \in DOMAIN built, Adopted \notin built[t], Late \notin built[t] \/ t \in Repaged
        PROVE  built[t] \ {Late} = {lastInstance}
    <3>1. /\ Only(built[t]) /\ built[t] \subseteq Pages /\ built[t] \cap Sources # {}
      BY <2>3 DEF MovesInv, BuiltOfHub, Sound
    <3>2. \A page \in built[t] \cap Sources : page = lastInstance
      BY <2>1, <2>2, <3>1 DEF Only
    <3>3. lastInstance # Late
      BY <2>1 DEF Sources
    <3> QED
      BY <2>1, <2>3, <3>1, <3>2, <3>3 DEF Pages
  <2>4. gate => DOMAIN built = AllTables
    BY DEF MovesInv, PassBuilt, Typed, WorkOK
  <2> QED
    BY <2>3, <2>4
<1> QED
  BY <1>1, <1>2, <1>3, PTL DEF Spec
================================================================================
