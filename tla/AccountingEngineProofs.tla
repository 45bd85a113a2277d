------------------------- MODULE AccountingEngineProofs -------------------------
(***************************************************************************)
(* Proofs about AccountingEngine: whatever snapshots a caller applies, in  *)
(* whatever order and however often, the engine meters no growth twice and *)
(* emits its milestones in increasing order.                               *)
(***************************************************************************)
EXTENDS AccountingEngine, SequenceTheorems, WellFoundedInduction, TLAPS

\* The window is one of the engine's, over snapshots that were applied.
WindowTyped ==
  window # None =>
    /\ window = [start  |-> window.start,  end    |-> window.end,
                 latest |-> window.latest, points |-> window.points,
                 milestone |-> window.milestone]
    /\ window.start \in Int
    /\ window.latest.id \in seen

\* The milestone of the window is the one emitted last.
LastEmitted ==
  /\ emitted \in Seq(Int)
  /\ window # None =>
       window.milestone = IF emitted = <<>> THEN None ELSE emitted[Len(emitted)]

IInv ==
  /\ TypeOK
  /\ caller \in Callers
  /\ WindowTyped
  /\ LastEmitted
  /\ MeteredOnce
  /\ MilestonesIncrease

LEMMA CallerFacts ==
  ASSUME caller \in Callers
  PROVE  /\ caller.snapshots \subseteq Snapshots
         /\ caller.batches \subseteq SUBSET caller.snapshots
         /\ caller.calls \in Nat
BY EngineAssumption DEF Has

LEMMA SnapshotFacts ==
  ASSUME NEW x \in Snapshots
  PROVE  /\ x.time \in Int
         /\ x.weekly.used \in Nat
         /\ x.weekly.reset \in Int \cup {None}
BY DEF Snapshots, Observations, QuotaWindows

\* What newest_unemitted_milestone returns lies above what was emitted last.
LEMMA NewestFacts ==
  ASSUME NEW points \in Nat, NEW last \in Int \cup {None},
         NEW crossed, crossed = NewestUnemitted(points, last), crossed # None
  PROVE  /\ crossed \in Int
         /\ last # None => crossed > last
<1> DEFINE percent == (100 * points) \div Calibration
           step    == 100 + ((percent - 100) \div SuperStep) * SuperStep
           reached == {t \in Thresholds : t * Calibration <= 100 * points}
                        \cup (IF step > 100 THEN {step} ELSE {})
           fresh   == {m \in reached : last = None \/ m > last}
           highest == {m \in fresh : \A n \in fresh : n <= m}
<1>1. crossed = IF highest = {} THEN None ELSE CHOOSE m \in highest : TRUE
  BY DEF NewestUnemitted
<1>2. crossed \in fresh
  <2> HIDE DEF fresh
  <2> QED BY <1>1
<1>3. step \in Int
  <2>1. percent \in Int
    BY EngineAssumption
  <2>2. (percent - 100) \div SuperStep \in Int
    <3> HIDE DEF percent
    <3> QED BY <2>1, ReplayAssumption
  <2> HIDE DEF percent
  <2> QED BY <2>2, ReplayAssumption
<1>4. reached \subseteq Int
  <2>1. {t \in Thresholds : t * Calibration <= 100 * points} \subseteq Int
    <3>1. \A t \in Thresholds : t \in Int
      BY ReplayAssumption
    <3> QED BY <3>1, Zenon
  <2>2. (IF step > 100 THEN {step} ELSE {}) \subseteq Int
    <3> HIDE DEF step
    <3> QED BY <1>3
  <2> HIDE DEF step
  <2> QED BY <2>1, <2>2
<1> HIDE DEF reached
<1> QED BY <1>2, <1>4

LEMMA DeltaFacts ==
  ASSUME IInv, window # None, NEW x \in caller.snapshots, Delta(x) # None
  PROVE  /\ Delta(x) \in Nat
         /\ /\ window.latest.weekly.reset # None /\ x.weekly.reset # None
            /\ SameEpoch(window.latest.weekly.reset, x.weekly.reset)
            => Delta(x) = x.weekly.used - window.latest.weekly.used
<1>1. x \in Snapshots /\ window.latest \in Snapshots
  BY CallerFacts DEF IInv, TypeOK
<1>2. /\ x.weekly.used \in Nat /\ window.latest.weekly.used \in Nat
      /\ x.weekly.reset \in Int \cup {None}
      /\ window.latest.weekly.reset \in Int \cup {None}
  BY <1>1, SnapshotFacts
<1> QED BY <1>2, ClassifierAssumption DEF Delta, WeeklyDelta, SameEpoch, WithinJitter

LEMMA IInvInit == Init => IInv
BY CallerFacts DEF Init, IInv, TypeOK, WindowTyped, LastEmitted, MeteredOnce,
                   MilestonesIncrease

LEMMA CallSafe ==
  ASSUME IInv, Call
  PROVE  IInv'
<1>1. /\ queue' \subseteq caller.snapshots
      /\ calls' \in 0 .. caller.calls
      /\ UNCHANGED <<caller, window, seen, emitted, replay>>
  BY CallerFacts DEF Call, IInv, TypeOK
<1> QED BY <1>1 DEF IInv, TypeOK, WindowTyped, LastEmitted, MeteredOnce, OneWeeklyEpoch,
                    MilestonesIncrease

\* A first snapshot, or one at or after the end, opens a window.
LEMMA OpenSafe ==
  ASSUME IInv, NEW x \in caller.snapshots, seen' = seen \cup {x.id}, Open(x),
         queue' \subseteq queue, UNCHANGED <<caller, calls>>
  PROVE  IInv'
<1>1. x.time \in Int /\ x.weekly.used \in Nat /\ x.time + LocalWindow \in Int
  BY CallerFacts, SnapshotFacts, ReplayAssumption DEF IInv
<1>2. window' = [start |-> x.time, end |-> x.time + LocalWindow, latest |-> x,
                 points |-> 0, milestone |-> None]
      /\ emitted' = <<>>
  BY DEF Open, NewLocalWindow
<1>3. TypeOK' /\ caller' \in Callers
  BY <1>1, <1>2 DEF IInv, TypeOK
<1>4. WindowTyped' /\ LastEmitted' /\ MilestonesIncrease'
  BY <1>1, <1>2 DEF WindowTyped, LastEmitted, MilestonesIncrease
<1>5. MeteredOnce'
  BY <1>1, <1>2 DEF MeteredOnce
<1> QED BY <1>3, <1>4, <1>5 DEF IInv

LEMMA MeterSafe ==
  ASSUME IInv, window # None, NEW x \in caller.snapshots, seen' = seen \cup {x.id},
         Delta(x) # None, Meter(x), queue' \subseteq queue, UNCHANGED <<caller, calls>>
  PROVE  IInv'
<1> DEFINE points  == window.points + Delta(x)
           crossed == NewestUnemitted(points, window.milestone)
<1>1. /\ Delta(x) \in Nat /\ window.points \in Nat /\ points \in Nat
      /\ x.weekly.used \in Nat /\ window.start \in Int
      /\ window.latest \in caller.snapshots /\ window.latest.weekly.used \in Nat
  <2>1. Delta(x) \in Nat /\ window.points \in Nat
    BY DeltaFacts DEF IInv, TypeOK
  <2> QED BY <2>1, CallerFacts, SnapshotFacts DEF IInv, TypeOK, WindowTyped
<1>2. window' = [start |-> window.start, end |-> window.end, latest |-> x,
                 points |-> points,
                 milestone |-> IF crossed = None THEN window.milestone ELSE crossed]
  BY DEF Meter, IInv, WindowTyped
<1>3. emitted' = IF crossed = None THEN emitted ELSE Append(emitted, crossed)
  BY DEF Meter
<1>4. /\ emitted \in Seq(Int)
      /\ window.milestone = IF emitted = <<>> THEN None ELSE emitted[Len(emitted)]
  BY DEF IInv, LastEmitted
<1>5. window.milestone \in Int \cup {None}
  <2>1. emitted # <<>> => emitted[Len(emitted)] \in Int
    BY <1>4, EmptySeq, ElementOfSeq, LenProperties
  <2> QED BY <1>4, <2>1
<1>6. crossed # None => /\ crossed \in Int
                        /\ window.milestone # None => crossed > window.milestone
  <2> HIDE DEF points
  <2> QED BY <1>1, <1>5, NewestFacts
<1>7. TypeOK' /\ caller' \in Callers /\ WindowTyped'
  <2> HIDE DEF points, crossed
  <2> QED BY <1>1, <1>2 DEF IInv, TypeOK, WindowTyped
<1>8. LastEmitted' /\ MilestonesIncrease'
  <2> HIDE DEF points, crossed
  <2>1. CASE crossed = None
    BY <1>2, <1>3, <1>4, <2>1 DEF IInv, LastEmitted, MilestonesIncrease
  <2>2. CASE crossed # None
    <3>1. /\ emitted' = Append(emitted, crossed) /\ emitted' \in Seq(Int)
          /\ Len(emitted) \in Nat /\ Len(emitted') = Len(emitted) + 1
          /\ emitted'[Len(emitted) + 1] = crossed
          /\ \A i \in 1 .. Len(emitted) : emitted'[i] = emitted[i]
      BY <1>3, <1>4, <1>6, <2>2, AppendProperties, LenProperties
    <3>2. emitted' # <<>>
      BY <3>1, EmptySeq
    <3>3. LastEmitted'
      BY <1>2, <2>2, <3>1, <3>2 DEF LastEmitted
    <3>4. ASSUME NEW i \in 1 .. Len(emitted) PROVE emitted[i] < crossed
      <4>1. /\ emitted # <<>> /\ window.milestone = emitted[Len(emitted)]
            /\ emitted[i] \in Int /\ Len(emitted) \in 1 .. Len(emitted)
            /\ emitted[Len(emitted)] \in Int
        BY <1>4, <3>1, EmptySeq, ElementOfSeq
      <4>2. crossed > emitted[Len(emitted)]
        BY <1>6, <2>2, <4>1, ClassifierAssumption
      <4>3. i < Len(emitted) => emitted[i] < emitted[Len(emitted)]
        BY <1>4, <4>1, LenProperties DEF IInv, MilestonesIncrease
      <4> QED BY <1>6, <2>2, <3>1, <4>1, <4>2, <4>3
    <3>5. ASSUME NEW i \in 1 .. Len(emitted'), NEW j \in 1 .. Len(emitted'), i < j
          PROVE  emitted'[i] < emitted'[j]
      <4>1. i \in 1 .. Len(emitted)
        BY <3>1, <3>5
      <4>2. CASE j = Len(emitted) + 1
        BY <3>1, <3>4, <4>1, <4>2
      <4>3. CASE j # Len(emitted) + 1
        <5>1. j \in 1 .. Len(emitted)
          BY <3>1, <4>3
        <5> QED BY <1>4, <3>1, <3>5, <4>1, <5>1, LenProperties DEF IInv, MilestonesIncrease
      <4> QED BY <4>2, <4>3
    <3>6. MilestonesIncrease'
      BY <3>1, <3>5, LenProperties DEF MilestonesIncrease
    <3> QED BY <3>3, <3>6
  <2> QED BY <2>1, <2>2
<1>9. MeteredOnce'
  <2> SUFFICES ASSUME OneWeeklyEpoch'
               PROVE  \E y \in caller.snapshots :
                        /\ y.time = window.start
                        /\ points <= x.weekly.used - y.weekly.used
    <3> HIDE DEF points, crossed
    <3> QED BY <1>2 DEF MeteredOnce
  <2>1. OneWeeklyEpoch
    BY DEF OneWeeklyEpoch
  <2>2. PICK y \in caller.snapshots :
          /\ y.time = window.start
          /\ window.points <= window.latest.weekly.used - y.weekly.used
    BY <2>1 DEF IInv, MeteredOnce
  <2>3. /\ window.latest.weekly.reset # None /\ x.weekly.reset # None
        /\ SameEpoch(window.latest.weekly.reset, x.weekly.reset)
    BY <1>1 DEF OneWeeklyEpoch, IInv, WindowTyped
  <2>4. Delta(x) = x.weekly.used - window.latest.weekly.used
    BY <2>3, DeltaFacts
  <2>5. y.weekly.used \in Nat
    BY CallerFacts, SnapshotFacts DEF IInv
  <2>6. points <= x.weekly.used - y.weekly.used
    BY <1>1, <2>2, <2>4, <2>5
  <2> QED BY <2>2, <2>6
<1> QED BY <1>7, <1>8, <1>9 DEF IInv

LEMMA ApplySafe ==
  ASSUME IInv, Apply
  PROVE  IInv'
<1>1. PICK x \in queue :
        /\ queue' = queue \ {x}
        /\ UNCHANGED <<caller, calls>>
        /\ IF x.id \in seen
           THEN UNCHANGED <<window, seen, emitted, replay>>
           ELSE /\ seen' = seen \cup {x.id}
                /\ IF Opens(x) THEN Open(x)
                   ELSE IF Ignored(x) THEN UNCHANGED <<window, emitted>>
                   ELSE Meter(x)
  BY DEF Apply
<1>2. x \in caller.snapshots /\ queue' \subseteq queue
  BY <1>1 DEF IInv, TypeOK
<1>3. CASE UNCHANGED <<window, emitted>>
  <2>1. seen \subseteq seen' /\ seen' \subseteq {y.id : y \in caller.snapshots}
    BY <1>1, <1>2 DEF IInv, TypeOK, Open, Meter
  <2>2. OneWeeklyEpoch' => OneWeeklyEpoch
    BY <1>1, <2>1 DEF OneWeeklyEpoch
  <2>3. MeteredOnce'
    BY <1>1, <1>3, <2>2 DEF IInv, MeteredOnce
  <2>4. TypeOK' /\ WindowTyped' /\ LastEmitted' /\ MilestonesIncrease'
    BY <1>1, <1>2, <1>3, <2>1 DEF IInv, TypeOK, WindowTyped, LastEmitted, MilestonesIncrease
  <2> QED BY <1>1, <2>3, <2>4 DEF IInv
<1>4. CASE x.id \notin seen /\ Opens(x)
  BY <1>1, <1>2, <1>4, OpenSafe
<1>5. CASE x.id \notin seen /\ ~Opens(x) /\ ~Ignored(x)
  BY <1>1, <1>2, <1>5, MeterSafe DEF Opens, Ignored
<1> QED BY <1>1, <1>3, <1>4, <1>5

LEMMA IInvAlways == Spec => []IInv
<1>1. IInv /\ [Next]_vars => IInv'
  <2> SUFFICES ASSUME IInv, [Next]_vars PROVE IInv'
    OBVIOUS
  <2>1. CASE UNCHANGED vars
    BY <2>1 DEF vars, IInv, TypeOK, WindowTyped, LastEmitted, MeteredOnce, OneWeeklyEpoch,
                MilestonesIncrease
  <2> QED BY <2>1, CallSafe, ApplySafe DEF Next
<1> QED BY <1>1, IInvInit, PTL DEF Spec

\* The meter keeps its types whatever a caller does: the points never go below
\* zero, and the window always spans the configured duration.
THEOREM EngineTypes == Spec => []TypeOK
<1>1. IInv => TypeOK
  BY DEF IInv
<1> QED BY <1>1, IInvAlways, PTL

\* No growth is metered twice, in whatever order the snapshots of one weekly
\* epoch come and however often each of them is applied.
THEOREM NeverMeteredTwice == Spec => []MeteredOnce
<1>1. IInv => MeteredOnce
  BY DEF IInv
<1> QED BY <1>1, IInvAlways, PTL

\* Every milestone of a window is emitted above the ones before it.
THEOREM EmissionsIncrease == Spec => []MilestonesIncrease
<1>1. IInv => MilestonesIncrease
  BY DEF IInv
<1> QED BY <1>1, IInvAlways, PTL
-----------------------------------------------------------------------------
(* The milestones: what the engine emits step by step is what the replay   *)
(* works out from the points alone.                                        *)

LEMMA LeastNatural ==
  ASSUME NEW T \in SUBSET Nat, T # {}
  PROVE  \E x \in T : \A y \in T : x <= y
<1>1. PICK x \in T : \A y \in T : <<y, x>> \notin OpToRel(<, Nat)
  BY NatLessThanWellFounded, WFMin
<1>2. \A y \in T : x \in Nat /\ y \in Nat /\ ~ (y < x)
  BY <1>1 DEF OpToRel
<1>3. \A y \in T : x <= y
  BY <1>2
<1> QED BY <1>3

LEMMA GreatestNatural ==
  ASSUME NEW T \in SUBSET Nat, T # {}, NEW bound \in Nat, \A t \in T : t <= bound
  PROVE  \E x \in T : \A y \in T : y <= x
<1> DEFINE above == {u \in Nat : \A t \in T : t <= u}
<1>1. above \in SUBSET Nat /\ above # {}
  OBVIOUS
<1>2. PICK u \in above : \A v \in above : u <= v
  BY <1>1, LeastNatural
<1>3. ASSUME u \notin T PROVE FALSE
  <2>1. PICK t : t \in T
    OBVIOUS
  <2>2. \A y \in T : y < u
    BY <1>2, <1>3
  <2>3. u - 1 \in above
    BY <1>2, <2>1, <2>2
  <2> QED BY <1>2, <2>3
<1> QED BY <1>2, <1>3

LEMMA DivMonotone ==
  ASSUME NEW a \in Int, NEW b \in Int, a <= b, NEW d \in Nat \ {0}
  PROVE  a \div d <= b \div d
OBVIOUS

Percent(points) == (100 * points) \div Calibration

LastStep(points) == 100 + ((Percent(points) - 100) \div SuperStep) * SuperStep

Levels(points) == {t \in Thresholds : t * Calibration <= 100 * points}

Steps(points) ==
  {100 + k * SuperStep : k \in 1 .. ((Percent(points) - 100) \div SuperStep)}

IsHighest(m, S) == m \in S /\ \A n \in S : n <= m

Highest(S) ==
  LET highest == {m \in S : \A n \in S : n <= m}
  IN  IF highest = {} THEN None ELSE CHOOSE m \in highest : TRUE

LEMMA HighestIs ==
  ASSUME NEW S \in SUBSET Int
  PROVE  /\ \A m : IsHighest(m, S) => Highest(S) = m
         /\ S = {} => Highest(S) = None
<1>1. ASSUME NEW m, IsHighest(m, S) PROVE Highest(S) = m
  <2>1. \A n \in S : (\A k \in S : k <= n) <=> n = m
    BY <1>1 DEF IsHighest
  <2>2. {n \in S : \A k \in S : k <= n} = {m}
    BY <1>1, <2>1 DEF IsHighest
  <2> QED BY <2>2 DEF Highest
<1> QED BY <1>1 DEF Highest

LEMMA StepFacts ==
  ASSUME NEW points \in Nat
  PROVE  /\ Percent(points) \in Nat
         /\ (Percent(points) - 100) \div SuperStep \in Int
         /\ LastStep(points) \in Int
         /\ Levels(points) \subseteq Nat
         /\ \A t \in Levels(points) : t <= 100 * points
<1>1. Percent(points) \in Nat
  BY EngineAssumption DEF Percent
<1>2. (Percent(points) - 100) \div SuperStep \in Int
  BY <1>1, ReplayAssumption
<1>3. LastStep(points) \in Int
  BY <1>2, ReplayAssumption DEF LastStep
<1>4. Levels(points) \subseteq Nat
  BY ReplayAssumption DEF Levels
<1>5. ASSUME NEW t \in Levels(points) PROVE t <= 100 * points
  <2>1. t \in Nat /\ t * Calibration <= 100 * points
    BY <1>4, <1>5 DEF Levels
  <2>2. t <= t * Calibration
    BY <2>1, EngineAssumption
  <2>3. t * Calibration \in Nat
    BY <2>1, EngineAssumption
  <2> QED BY <2>1, <2>2, <2>3
<1> QED BY <1>1, <1>2, <1>3, <1>4, <1>5

\* The steps of the replay end with the one step the engine looks at.
LEMMA StepsEnd ==
  ASSUME NEW points \in Nat
  PROVE  /\ Steps(points) \subseteq Nat
         /\ LastStep(points) > 100 => IsHighest(LastStep(points), Steps(points))
         /\ ~(LastStep(points) > 100) => Steps(points) = {}
<1> DEFINE n == (Percent(points) - 100) \div SuperStep
<1>1. n \in Int /\ SuperStep \in Nat \ {0}
  BY StepFacts, ReplayAssumption
<1>2. LastStep(points) = 100 + n * SuperStep
  BY DEF LastStep
<1>3. Steps(points) = {100 + k * SuperStep : k \in 1 .. n}
  BY DEF Steps
<1> HIDE DEF n
<1>4. \A k \in 1 .. n : 100 + k * SuperStep \in Nat /\ k * SuperStep <= n * SuperStep
  BY <1>1
<1>5. n >= 1 <=> LastStep(points) > 100
  <2>1. n >= 1 => n * SuperStep >= 1
    BY <1>1
  <2>2. n <= 0 => n * SuperStep <= 0
    BY <1>1
  <2>3. n * SuperStep \in Int
    BY <1>1
  <2> QED BY <1>1, <1>2, <2>1, <2>2, <2>3
<1>6. Steps(points) \subseteq Nat
  BY <1>3, <1>4
<1>7. LastStep(points) > 100 => IsHighest(LastStep(points), Steps(points))
  <2> SUFFICES ASSUME n >= 1 PROVE IsHighest(LastStep(points), Steps(points))
    BY <1>5
  <2>1. n \in 1 .. n
    BY <1>1
  <2>2. \A k \in 1 .. n : 100 + k * SuperStep <= 100 + n * SuperStep
    BY <1>1, <1>4
  <2> QED BY <1>2, <1>3, <2>1, <2>2 DEF IsHighest
<1>8. ~(LastStep(points) > 100) => Steps(points) = {}
  BY <1>1, <1>3, <1>5
<1> QED BY <1>6, <1>7, <1>8

\* newest_milestone is the highest of the levels and steps reached.
LEMMA MilestoneIs ==
  ASSUME NEW points \in Nat
  PROVE  /\ Milestone(points, Calibration) = Highest(Levels(points) \cup Steps(points))
         /\ \/ Levels(points) \cup Steps(points) = {} /\ Milestone(points, Calibration) = None
            \/ IsHighest(Milestone(points, Calibration), Levels(points) \cup Steps(points))
<1> DEFINE all == Levels(points) \cup Steps(points)
<1>1. Milestone(points, Calibration) = Highest(all)
  BY DEF Milestone, Highest, Levels, Steps, Percent
<1>2. all \subseteq Nat
  BY StepFacts, StepsEnd
<1>3. ASSUME all # {} PROVE \E m \in all : IsHighest(m, all)
  <2> DEFINE bound == Greatest(100 * points, LastStep(points))
  <2>1. bound \in Nat /\ 100 * points <= bound /\ LastStep(points) <= bound
    BY StepFacts DEF Greatest
  <2>2. \A m \in Levels(points) : m <= bound
    <3> HIDE DEF bound
    <3>1. 100 * points \in Nat
      OBVIOUS
    <3> QED BY <2>1, <3>1, StepFacts
  <2>3. \A m \in Steps(points) : m <= bound
    <3> HIDE DEF bound
    <3> QED BY <2>1, StepFacts, StepsEnd DEF IsHighest
  <2>4. \A m \in all : m <= bound
    BY <2>2, <2>3
  <2> HIDE DEF all, bound
  <2> QED BY <1>2, <1>3, <2>1, <2>4, GreatestNatural DEF IsHighest
<1>4. all \subseteq Int
  BY <1>2
<1> HIDE DEF all
<1>5. CASE all = {}
  BY <1>1, <1>4, <1>5, HighestIs DEF all
<1>6. CASE all # {}
  BY <1>1, <1>3, <1>4, <1>6, HighestIs DEF all
<1> QED BY <1>1, <1>5, <1>6 DEF all

\* newest_unemitted_milestone is the highest of what lies above the last one.
LEMMA NewestUnemittedIs ==
  ASSUME NEW points \in Nat, NEW last
  PROVE  LET fresh == {m \in Levels(points) \cup (IF LastStep(points) > 100
                                                  THEN {LastStep(points)} ELSE {}) :
                         last = None \/ m > last}
         IN  NewestUnemitted(points, last) = Highest(fresh)
BY DEF NewestUnemitted, Highest, Levels, LastStep, Percent

\* The two searches of calculate.rs and window_replay.rs agree: what is emitted
\* when the points grow is the new milestone, and nothing is when it stays.
LEMMA SearchesAgree ==
  ASSUME NEW old \in Nat, NEW points \in Nat, old <= points
  PROVE  LET last    == Milestone(old, Calibration)
             crossed == NewestUnemitted(points, last)
         IN  Milestone(points, Calibration) = IF crossed = None THEN last ELSE crossed
<1> DEFINE last    == Milestone(old, Calibration)
           new     == Milestone(points, Calibration)
           all(n)  == Levels(n) \cup Steps(n)
           tried   == Levels(points) \cup (IF LastStep(points) > 100
                                            THEN {LastStep(points)} ELSE {})
           fresh   == {m \in tried : last = None \/ m > last}
<1>1. NewestUnemitted(points, last) = Highest(fresh)
  BY NewestUnemittedIs
<1>2. all(old) \subseteq Nat /\ all(points) \subseteq Nat
  BY StepFacts, StepsEnd
<1>3. tried \subseteq all(points)
  BY StepsEnd DEF IsHighest
<1>4. \A m \in all(points) : m \in tried \/ \E n \in tried : m <= n
  BY StepsEnd DEF IsHighest
<1>5. all(old) \subseteq all(points)
  <2>1. Levels(old) \subseteq Levels(points)
    <3> SUFFICES ASSUME NEW t \in Levels(old) PROVE t \in Levels(points)
      OBVIOUS
    <3>1. t \in Thresholds /\ t * Calibration <= 100 * old
      BY DEF Levels
    <3>2. t * Calibration \in Nat
      BY <3>1, ReplayAssumption, EngineAssumption
    <3>3. t * Calibration <= 100 * points
      BY <3>1, <3>2
    <3> QED BY <3>1, <3>3 DEF Levels
  <2>2. Percent(old) <= Percent(points)
    <3>1. Calibration \in Nat \ {0}
      BY EngineAssumption
    <3>2. (100 * old) \div Calibration <= (100 * points) \div Calibration
      BY <3>1, DivMonotone
    <3> QED BY <3>2 DEF Percent
  <2>3. (Percent(old) - 100) \div SuperStep <= (Percent(points) - 100) \div SuperStep
    <3>1. Percent(old) - 100 \in Int /\ Percent(points) - 100 \in Int
      BY StepFacts
    <3>2. Percent(old) - 100 <= Percent(points) - 100
      BY <2>2, StepFacts
    <3> QED BY <3>1, <3>2, ReplayAssumption, DivMonotone
  <2>4. 1 .. ((Percent(old) - 100) \div SuperStep)
          \subseteq 1 .. ((Percent(points) - 100) \div SuperStep)
    BY <2>3, StepFacts
  <2>5. Steps(old) \subseteq Steps(points)
    BY <2>4 DEF Steps
  <2> QED BY <2>1, <2>5
<1>6. \/ all(old) = {} /\ last = None
      \/ IsHighest(last, all(old))
  BY MilestoneIs
<1>7. \/ all(points) = {} /\ new = None
      \/ IsHighest(new, all(points))
  BY MilestoneIs
<1>8. fresh \subseteq Int
  BY <1>2, <1>3
<1> SUFFICES new = IF Highest(fresh) = None THEN last ELSE Highest(fresh)
  BY <1>1
<1> HIDE DEF all, tried, last, new
<1>9. CASE all(points) = {}
  <2>1. new = None /\ last = None /\ fresh = {}
    BY <1>3, <1>5, <1>6, <1>7, <1>9, <1>2, ClassifierAssumption DEF IsHighest
  <2> QED BY <2>1, <1>8, HighestIs
<1>10. CASE all(points) # {} /\ fresh = {}
  <2>1. IsHighest(new, all(points)) /\ Highest(fresh) = None
    BY <1>7, <1>8, <1>10, HighestIs
  <2>2. last # None
    BY <1>4, <1>10
  <2>3. IsHighest(last, all(old)) /\ last \in all(points) /\ last \in Nat
    BY <1>2, <1>5, <1>6, <2>2 DEF IsHighest
  <2>4. \A m \in tried : m <= last
    BY <1>2, <1>3, <1>10, <2>2, <2>3
  <2>5. \A m \in all(points) : m <= last
    BY <1>2, <1>3, <1>4, <2>3, <2>4
  <2>6. new = last
    BY <1>2, <2>1, <2>3, <2>5 DEF IsHighest
  <2> QED BY <2>1, <2>6
<1>11. CASE all(points) # {} /\ fresh # {}
  <2>1. IsHighest(new, all(points)) /\ new \in Nat
    BY <1>2, <1>7, <1>11 DEF IsHighest
  <2>2. new \in tried
    BY <1>2, <1>3, <1>4, <2>1 DEF IsHighest
  <2>3. new \in fresh
    <3>1. CASE last = None
      BY <2>2, <3>1
    <3>2. CASE last # None
      <4>1. PICK m \in tried : m > last
        BY <1>11, <3>2
      <4>2. m <= new /\ m \in Nat /\ last \in Nat
        BY <1>2, <1>3, <1>6, <2>1, <3>2 DEF IsHighest
      <4> QED BY <2>1, <2>2, <4>1, <4>2
    <3> QED BY <3>1, <3>2
  <2>4. IsHighest(new, fresh)
    BY <1>3, <2>1, <2>3 DEF IsHighest
  <2>5. Highest(fresh) = new
    BY <1>8, <2>4, HighestIs
  <2> QED BY <2>1, <2>5, ClassifierAssumption
<1> QED BY <1>9, <1>10, <1>11
-----------------------------------------------------------------------------
(* One batch in order: the engine beside the replay. *)

\* The replay fills the window the engine fills, from the same last snapshot,
\* and what is still in the queue comes after it.
SameWindow ==
  /\ window \in LocalWindows
  /\ replay.current \in WindowRows
  /\ replay.current.start = window.start
  /\ replay.current.end = window.end
  /\ replay.current.points = window.points
  /\ replay.current.milestone = window.milestone
  /\ replay.current.used = window.latest.weekly.used
  /\ replay.current.weeklyReset = window.latest.weekly.reset
  /\ replay.current.calibration = Calibration
  /\ replay.previous = window.latest
  /\ window.milestone = Milestone(window.points, Calibration)
  /\ \A y \in queue : Before(window.latest, y)

Together ==
  calls <= 1 /\ NeverMovesBack =>
    /\ calls = 0 => window = None /\ queue = {}
    /\ replay = [closed |-> replay.closed, current |-> replay.current,
                 previous |-> replay.previous, events |-> replay.events,
                 metered |-> replay.metered, clash |-> replay.clash]
    /\ window = None => replay.current = None /\ replay.previous = None
    /\ window # None => replay.current # None /\ SameWindow

\* A snapshot of the batch is never of an older epoch than the one before it,
\* and has no five-hour window that could split the local one.
LEMMA NothingSplits ==
  ASSUME IInv, NEW x \in caller.snapshots, NeverMovesBack,
         \/ replay.previous = None
         \/ replay.previous \in caller.snapshots /\ Before(replay.previous, x)
  PROVE  /\ Decision(replay, x).class # "old_epoch"
         /\ ~ServerSplit(replay, x)
         /\ ServerEpochBounds(x) = None
<1>1. x \in Snapshots /\ x.five = None /\ \A y \in caller.snapshots : y \in Snapshots /\ y.five = None
  BY EngineAssumption DEF Has, IInv
<1>2. ~ServerSplit(replay, x) /\ ServerEpochBounds(x) = None
  BY <1>1 DEF ServerSplit, FiveChanged, ServerEpochBounds
<1>3. CASE replay.previous = None
  BY <1>2, <1>3 DEF Decision
<1>4. CASE replay.previous # None
  <2> DEFINE previous == replay.previous
  <2>1. previous \in caller.snapshots /\ Before(previous, x) /\ previous.five = None
    BY <1>1, <1>4
  <2>2. CompareWindow(previous.five, x.five, FiveHours) = "missing"
    BY <1>1, <2>1 DEF CompareWindow
  <2>3. /\ previous.weekly # None /\ x.weekly # None
        /\ previous.weekly.reset \in Int \cup {None} /\ x.weekly.reset \in Int \cup {None}
    BY <1>1, <2>1, SnapshotFacts DEF Snapshots
  <2>4. previous.weekly.reset # None /\ x.weekly.reset # None =>
          ~(x.weekly.reset - previous.weekly.reset < -Jitter)
    BY <2>1, <2>3, ClassifierAssumption DEF NeverMovesBack
  <2>5. CompareWindow(previous.weekly, x.weekly, Week) # "old"
    BY <2>3, <2>4 DEF CompareWindow
  <2>6. ClassifyReset(previous, x).class # "old_epoch"
    BY <2>2, <2>5 DEF ClassifyReset, ClassOf
  <2> QED BY <1>2, <1>4, <2>6 DEF Decision
<1> QED BY <1>3, <1>4

\* Both open the window that the snapshot starts.
LEMMA OpenTogether ==
  ASSUME IInv, Together, calls <= 1, NeverMovesBack, calls # 0,
         NEW x \in queue, FirstOfQueue(x), queue' = queue \ {x},
         Opens(x), Open(x), replay' = ReplayItem(replay, x, {}, Calibration),
         UNCHANGED <<caller, calls>>
  PROVE  Together'
<1>1. x \in caller.snapshots /\ x.five = None /\ x.time \in Int /\ caller.snapshots \subseteq Snapshots
  BY EngineAssumption, SnapshotFacts DEF Has, IInv, TypeOK
<1>2. \/ replay.previous = None
      \/ replay.previous \in caller.snapshots /\ Before(replay.previous, x)
  BY DEF Together, SameWindow, IInv, TypeOK
<1>3. /\ Decision(replay, x).class # "old_epoch"
      /\ ~ServerSplit(replay, x)
      /\ ServerEpochBounds(x) = None
  BY <1>1, <1>2, NothingSplits
<1>4. replay.current = None \/ LocalExpiry(replay, x)
  BY <1>3 DEF Opens, LocalExpiry, Together, SameWindow
<1>5. replay' = OpenWindow(replay, x, {}, Calibration)
  BY <1>3, <1>4, Zenon DEF ReplayItem
<1> DEFINE kind == IF LocalExpiry(replay, x) THEN "local_expiry" ELSE "initial_observation"
<1>6. replay' = [closed |-> replay'.closed, current |-> NewWindow(x, kind, x.time, 0, {}, Calibration),
                 previous |-> x, events |-> replay'.events,
                 metered |-> replay'.metered, clash |-> replay'.clash]
  BY <1>1, <1>3, <1>5 DEF OpenWindow
<1>7. kind \in Kinds
  BY DEF Kinds
<1>8. Milestone(0, Calibration) = None
  <2>1. Levels(0) = {}
    <3>1. \A t \in Thresholds : ~(t * Calibration <= 100 * 0)
      <4> TAKE t \in Thresholds
      <4>1. t \in Nat \ {0} /\ Calibration \in Nat \ {0}
        BY ReplayAssumption, EngineAssumption
      <4>2. t * Calibration > 0
        BY <4>1
      <4> QED BY <4>1, <4>2
    <3> QED BY <3>1, StepFacts DEF Levels
  <2>2. Percent(0) = 0
    BY EngineAssumption DEF Percent
  <2>3. (Percent(0) - 100) \div SuperStep <= 0
    BY <2>2, ReplayAssumption
  <2>4. Steps(0) = {}
    BY <2>3, StepFacts DEF Steps
  <2> QED BY <2>1, <2>4, MilestoneIs DEF IsHighest
<1> HIDE DEF kind
<1>9. NewWindow(x, kind, x.time, 0, {}, Calibration)
        = [start |-> x.time, end |-> x.time + LocalWindow, latest |-> x.time,
           used |-> x.weekly.used, weeklyReset |-> x.weekly.reset, server |-> None,
           points |-> 0, milestone |-> None, calibration |-> Calibration,
           kind |-> kind, boundary |-> x.time, lifecycle |-> "archived"]
  BY <1>1, <1>3, <1>8 DEF NewWindow, Bounds
<1>10. /\ x.weekly.used \in Nat /\ x.weekly.reset \in Int \cup {None}
       /\ x.time + LocalWindow \in Int /\ Calibration \in Nat \ {0}
  BY <1>1, SnapshotFacts, ReplayAssumption, EngineAssumption
<1>11. NewWindow(x, kind, x.time, 0, {}, Calibration) \in WindowRows
  BY <1>1, <1>7, <1>9, <1>10 DEF WindowRows
<1>12. window' = [start |-> x.time, end |-> x.time + LocalWindow, latest |-> x,
                  points |-> 0, milestone |-> None]
  BY DEF Open, NewLocalWindow
<1>13. window' \in LocalWindows
  BY <1>1, <1>10, <1>12 DEF LocalWindows
<1>14. \A y \in queue' : Before(x, y)
  BY DEF FirstOfQueue
<1>15. replay'.current # None /\ window' # None
  BY <1>6, <1>11, <1>13, EngineAssumption
<1>16. SameWindow'
  BY <1>6, <1>8, <1>9, <1>11, <1>12, <1>13, <1>14 DEF SameWindow
<1> QED BY <1>6, <1>15, <1>16 DEF Together, NeverMovesBack

\* What accumulate changes of a window.
MeteredRow(w, latest, used, reset, points, milestone) ==
  [w EXCEPT !.latest      = latest,
            !.used        = used,
            !.weeklyReset = reset,
            !.server      = w.server,
            !.points      = points,
            !.milestone   = milestone]

IsMetered(v, w, used, reset, points, milestone) ==
  /\ v \in WindowRows
  /\ v.start = w.start /\ v.end = w.end /\ v.points = points
  /\ v.milestone = milestone /\ v.used = used /\ v.weeklyReset = reset
  /\ v.calibration = w.calibration

LEMMA MeteredRowFields ==
  ASSUME NEW w \in WindowRows, NEW latest \in Int, NEW used \in Nat,
         NEW reset \in Int \cup {None}, NEW points \in Nat,
         NEW milestone \in Nat \cup {None}
  PROVE  IsMetered(MeteredRow(w, latest, used, reset, points, milestone),
                   w, used, reset, points, milestone)
<1> DEFINE a == [w EXCEPT !.latest = latest, !.used = used, !.weeklyReset = reset]
           b == [a EXCEPT !.server = w.server]
           c == [b EXCEPT !.points = points, !.milestone = milestone]
<1>1. /\ a \in WindowRows
      /\ a.start = w.start /\ a.end = w.end /\ a.used = used /\ a.weeklyReset = reset
      /\ a.calibration = w.calibration
  BY DEF WindowRows
<1>2. /\ b \in WindowRows
      /\ b.start = w.start /\ b.end = w.end /\ b.used = used /\ b.weeklyReset = reset
      /\ b.calibration = w.calibration
  <2> HIDE DEF a
  <2>1. w.server \in Int \cup {None}
    BY DEF WindowRows
  <2> QED BY <1>1, <2>1 DEF WindowRows
<1>3. /\ c \in WindowRows
      /\ c.start = w.start /\ c.end = w.end /\ c.used = used /\ c.weeklyReset = reset
      /\ c.calibration = w.calibration /\ c.points = points /\ c.milestone = milestone
  <2> HIDE DEF b
  <2> QED BY <1>2 DEF WindowRows
<1> QED BY <1>3 DEF MeteredRow, IsMetered

\* Both add the same growth, or ignore the snapshot.
LEMMA MeterTogether ==
  ASSUME IInv, Together, calls <= 1, NeverMovesBack, calls # 0,
         NEW x \in queue, FirstOfQueue(x), queue' = queue \ {x},
         ~Opens(x),
         IF Ignored(x) THEN UNCHANGED <<window, emitted>> ELSE Meter(x),
         replay' = ReplayItem(replay, x, {}, Calibration),
         UNCHANGED <<caller, calls>>
  PROVE  Together'
<1>1. /\ x \in caller.snapshots /\ x.five = None /\ x.time \in Int
      /\ x.weekly.used \in Nat /\ x.weekly.reset \in Int \cup {None}
      /\ caller.snapshots \subseteq Snapshots
  BY EngineAssumption, SnapshotFacts DEF Has, IInv, TypeOK
<1>2. /\ window # None /\ replay.current # None /\ SameWindow
      /\ window.latest \in caller.snapshots
  BY DEF Together, Opens, IInv, TypeOK
<1>3. /\ Decision(replay, x).class # "old_epoch"
      /\ ~ServerSplit(replay, x)
      /\ ServerEpochBounds(x) = None
  BY <1>1, <1>2, NothingSplits DEF SameWindow
<1>4. ~LocalExpiry(replay, x)
  BY <1>2 DEF Opens, LocalExpiry, SameWindow
<1>5. Delta(x) = WeeklyDelta(replay.current.used, replay.current.weeklyReset,
                             x.weekly.used, x.weekly.reset)
  BY <1>2 DEF Delta, SameWindow
<1>6. replay' = IF Delta(x) = None THEN Ignore(replay, x) ELSE Accumulate(replay, x, Delta(x))
  BY <1>2, <1>3, <1>4, <1>5, Zenon DEF ReplayItem
<1>7. ~Before(x, window.latest)
  <2>1. Before(window.latest, x) /\ window.latest.time \in Int /\ window.latest.id \in Int
        /\ x.id \in Int
    BY <1>1, <1>2, SnapshotFacts DEF SameWindow, Snapshots, Observations
  <2> QED BY <1>1, <2>1 DEF Before
<1>8. CASE Delta(x) = None
  <2>1. window' = window
    BY <1>8 DEF Ignored
  <2>2. /\ replay'.current = replay.current /\ replay'.previous = replay.previous
        /\ replay' = [closed |-> replay'.closed, current |-> replay'.current,
                      previous |-> replay'.previous, events |-> replay'.events,
                      metered |-> replay'.metered, clash |-> replay'.clash]
    BY <1>6, <1>8 DEF Ignore, Together
  <2>3. SameWindow'
    BY <1>2, <2>1, <2>2 DEF SameWindow
  <2> QED BY <1>2, <2>1, <2>2, <2>3 DEF Together, NeverMovesBack
<1>9. CASE Delta(x) # None
  <2> DEFINE points  == window.points + Delta(x)
             crossed == NewestUnemitted(points, window.milestone)
             milestone == Milestone(points, Calibration)
  <2>1. Meter(x)
    BY <1>7, <1>9 DEF Ignored
  <2>2. Delta(x) \in Nat /\ window.points \in Nat /\ points \in Nat
    BY <1>1, <1>2, <1>9, DeltaFacts DEF IInv, TypeOK
  <2>3. milestone = IF crossed = None THEN window.milestone ELSE crossed
    <3>1. window.milestone = Milestone(window.points, Calibration)
      BY <1>2 DEF SameWindow
    <3>2. window.points <= points
      BY <2>2
    <3> HIDE DEF points
    <3> QED BY <2>2, <3>1, <3>2, SearchesAgree
  <2>4. window' = [start |-> window.start, end |-> window.end, latest |-> x,
                   points |-> points, milestone |-> milestone]
    <3>1. window = [start |-> window.start, end |-> window.end, latest |-> window.latest,
                    points |-> window.points, milestone |-> window.milestone]
      BY <1>2 DEF IInv, WindowTyped
    <3>2. window' = [window EXCEPT !.points = points, !.latest = x,
                                   !.milestone = IF crossed = None THEN @ ELSE crossed]
      BY <2>1 DEF Meter
    <3> HIDE DEF points, crossed, milestone
    <3> QED BY <2>3, <3>1, <3>2
  <2>5. milestone \in Nat \cup {None}
    <3> HIDE DEF points
    <3>1. Levels(points) \cup Steps(points) \subseteq Nat
      BY <2>2, StepFacts, StepsEnd
    <3> QED BY <2>2, <3>1, MilestoneIs DEF IsHighest
  <2>6. replay' = [closed |-> replay.closed,
                   current |-> [replay.current EXCEPT
                      !.latest      = x.time,
                      !.used        = x.weekly.used,
                      !.weeklyReset = x.weekly.reset,
                      !.server      = replay.current.server,
                      !.points      = points,
                      !.milestone   = milestone],
                   previous |-> x, events |-> replay'.events,
                   metered |-> replay'.metered, clash |-> replay.clash]
    <3>1. replay' = Accumulate(replay, x, Delta(x))
      BY <1>6, <1>9
    <3>2. replay.current.points = window.points /\ replay.current.calibration = Calibration
      BY <1>2 DEF SameWindow
    <3>3. replay = [closed |-> replay.closed, current |-> replay.current,
                    previous |-> replay.previous, events |-> replay.events,
                    metered |-> replay.metered, clash |-> replay.clash]
      BY DEF Together
    <3> HIDE DEF points, milestone
    <3> QED BY <1>1, <3>1, <3>2, <3>3 DEF Accumulate, points, milestone
  <2> HIDE DEF points, crossed, milestone
  <2> DEFINE row == [replay.current EXCEPT
                      !.latest      = x.time,
                      !.used        = x.weekly.used,
                      !.weeklyReset = x.weekly.reset,
                      !.server      = replay.current.server,
                      !.points      = points,
                      !.milestone   = milestone]
  <2>7. replay'.current = row
    BY <2>6
  <2>8. /\ row \in WindowRows
        /\ row.start = replay.current.start
        /\ row.end = replay.current.end
        /\ row.points = points
        /\ row.milestone = milestone
        /\ row.used = x.weekly.used
        /\ row.weeklyReset = x.weekly.reset
        /\ row.calibration = replay.current.calibration
    <3>1. replay.current \in WindowRows
      BY <1>2 DEF SameWindow
    <3>2. /\ x.time \in Int /\ x.weekly.used \in Nat
          /\ x.weekly.reset \in Int \cup {None}
          /\ points \in Nat /\ milestone \in Nat \cup {None}
      BY <1>1, <2>2, <2>5
    <3>3. row = MeteredRow(replay.current, x.time, x.weekly.used, x.weekly.reset,
                           points, milestone)
      BY DEF MeteredRow
    <3> HIDE DEF row
    <3>4. IsMetered(row, replay.current, x.weekly.used, x.weekly.reset, points, milestone)
      BY <3>1, <3>2, <3>3, MeteredRowFields
    <3> QED BY <3>4 DEF IsMetered
  <2> HIDE DEF row
  <2>9. window' \in LocalWindows
    <3>1. window \in LocalWindows
      BY <1>2 DEF SameWindow
    <3> QED BY <1>1, <2>2, <2>4, <2>5, <3>1 DEF LocalWindows
  <2>10. \A y \in queue' : Before(x, y)
    BY DEF FirstOfQueue
  <2>11. replay'.current # None /\ window' # None
    BY <2>7, <2>8, <2>9, EngineAssumption
  <2>12. SameWindow'
    BY <1>2, <2>4, <2>6, <2>7, <2>8, <2>9, <2>10 DEF SameWindow, milestone
  <2> QED BY <2>6, <2>11, <2>12 DEF Together, NeverMovesBack
<1> QED BY <1>8, <1>9

LEMMA TogetherStep == IInv /\ Together /\ [Next]_vars => Together'
<1> SUFFICES ASSUME IInv, Together, [Next]_vars, (calls <= 1 /\ NeverMovesBack)'
             PROVE  Together'
  BY DEF Together
<1>1. caller' = caller /\ NeverMovesBack
  BY DEF Next, Call, Apply, vars, NeverMovesBack
<1>2. CASE UNCHANGED vars
  BY <1>2 DEF vars, Together, SameWindow, NeverMovesBack
<1>3. CASE Call
  <2>1. calls = 0 /\ calls' = 1
    BY <1>3, CallerFacts DEF Call, IInv, TypeOK
  <2>2. window = None /\ UNCHANGED <<window, replay>>
    BY <1>1, <1>3, <2>1 DEF Call, Together
  <2> QED BY <1>1, <2>1, <2>2 DEF Together, NeverMovesBack
<1>4. CASE Apply
  <2>1. PICK x \in queue :
          /\ FirstOfQueue(x)
          /\ queue' = queue \ {x}
          /\ UNCHANGED <<caller, calls>>
          /\ IF x.id \in seen
             THEN UNCHANGED <<window, seen, emitted, replay>>
             ELSE /\ replay' = ReplayItem(replay, x, {}, Calibration)
                  /\ IF Opens(x) THEN Open(x)
                     ELSE IF Ignored(x) THEN UNCHANGED <<window, emitted>>
                     ELSE Meter(x)
    BY <1>4 DEF Apply
  <2>2. calls <= 1 /\ calls # 0
    BY <1>1, <2>1 DEF Together
  <2>3. CASE x.id \in seen
    BY <1>1, <2>1, <2>2, <2>3 DEF Together, SameWindow, NeverMovesBack
  <2>4. CASE x.id \notin seen /\ Opens(x)
    BY <1>1, <2>1, <2>2, <2>4, OpenTogether
  <2>5. CASE x.id \notin seen /\ ~Opens(x)
    BY <1>1, <2>1, <2>2, <2>5, MeterTogether
  <2> QED BY <2>3, <2>4, <2>5
<1> QED BY <1>2, <1>3, <1>4 DEF Next

\* Applying a batch in order, the engine keeps the window that the store's
\* replay computes: the same bounds, points and newest milestone, for every
\* calibration, threshold and step, as long as no deadline moves back.
THEOREM EngineFollowsReplay == Spec => []AgreesWithReplay
<1>1. Init => Together
  BY DEF Init, Together, EmptyReplay
<1>2. Together => AgreesWithReplay
  BY DEF Together, AgreesWithReplay, SameWindow
<1> QED BY <1>1, <1>2, TogetherStep, IInvAlways, PTL DEF Spec
=============================================================================
