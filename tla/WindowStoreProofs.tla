-------------------------- MODULE WindowStoreProofs --------------------------
(***************************************************************************)
(* Machine-checked proofs of the safety properties of WindowStore for      *)
(* every universe of observations, every calibration and every length of   *)
(* the quota windows.  The lemmas say what one step of the replay returns; *)
(* the inductive invariant IInv of WindowStore carries them to the tables. *)
(***************************************************************************)
EXTENDS WindowStore, TLAPS

Times == Int \cup {None}

-----------------------------------------------------------------------------
(* The classifier and the weekly transition. *)

LEMMA ClampType ==
  ASSUME NEW b \in Times, NEW e \in Int, NEW l \in Int
  PROVE  ClampBoundary(b, e, l) \in Times
BY DEF ClampBoundary, Least, Greatest, Times

LEMMA EpochStartType ==
  ASSUME NEW w \in QuotaWindows \cup {None}
  PROVE  EpochStart(w) \in Times
BY DEF EpochStart, QuotaWindows, Times

LEMMA ClassOfType ==
  ASSUME NEW five, NEW weekly, NEW fs \in Times, NEW ws \in Times,
         NEW fn, NEW wn
  PROVE  /\ ClassOf(five, weekly, fs, ws, fn, wn)[1] \in Classes
         /\ ClassOf(five, weekly, fs, ws, fn, wn)[2] \in Times
BY DEF ClassOf, Classes, Times

\* Whatever two observations it is given, classify_reset answers with a class
\* and a boundary that is missing or an instant.
LEMMA ClassifyType ==
  ASSUME NEW p \in Observations, NEW c \in Observations
  PROVE  /\ ClassifyReset(p, c).class \in Classes
         /\ ClassifyReset(p, c).boundary \in Times
<1> DEFINE five   == CompareWindow(p.five, c.five, FiveHours)
           weekly == CompareWindow(p.weekly, c.weekly, Week)
           fs     == IF five = "changed" THEN EpochStart(c.five) ELSE None
           ws     == IF weekly = "changed" THEN EpochStart(c.weekly) ELSE None
           fn     == ChangeIsNatural(p.five, fs, c.time)
           wn     == ChangeIsNatural(p.weekly, ws, c.time)
           class  == ClassOf(five, weekly, fs, ws, fn, wn)
<1>1. fs \in Times /\ ws \in Times
  BY EpochStartType DEF Observations, Times
<1>2. class[1] \in Classes /\ class[2] \in Times
  <2> HIDE DEF five, weekly, fs, ws, fn, wn
  <2> QED BY <1>1, ClassOfType
<1>3. ClampBoundary(class[2], p.time, c.time) \in Times
  <2> HIDE DEF class
  <2> QED BY <1>2, ClampType DEF Observations
<1>4. ClassifyReset(p, c) = [class |-> class[1],
                            boundary |-> ClampBoundary(class[2], p.time, c.time)]
  BY DEF ClassifyReset
<1> HIDE DEF class
<1> QED BY <1>2, <1>3, <1>4

\* A weekly step never takes points away: it adds some, or is ignored.
LEMMA WeeklyDeltaType ==
  ASSUME NEW pu \in Nat, NEW pr \in Times, NEW nu \in Nat, NEW nr \in Times
  PROVE  WeeklyDelta(pu, pr, nu, nr) \in Nat \cup {None}
BY DEF WeeklyDelta, Times

LEMMA MilestoneType ==
  ASSUME NEW points \in Nat, NEW calibration \in Nat \ {0}
  PROVE  Milestone(points, calibration) \in Nat \cup {None}
<1> DEFINE last    == (((100 * points) \div calibration) - 100) \div SuperStep
           reached == {m \in Thresholds : m * calibration <= 100 * points}
                        \cup {100 + k * SuperStep : k \in 1 .. last}
           highest == {m \in reached : \A n \in reached : n <= m}
<1>1. SuperStep \in Nat /\ Thresholds \subseteq Nat
  BY ReplayAssumption
<1>2. \A k \in 1 .. last : 100 + k * SuperStep \in Nat
  <2> SUFFICES ASSUME NEW k \in Nat PROVE 100 + k * SuperStep \in Nat
    OBVIOUS
  <2> QED BY <1>1
<1>3. reached \subseteq Nat
  <2> HIDE DEF last
  <2> QED BY <1>1, <1>2
<1>4. Milestone(points, calibration) =
        IF highest = {} THEN None ELSE CHOOSE m \in highest : TRUE
  BY DEF Milestone
<1>5. highest \subseteq Nat
  <2> HIDE DEF reached
  <2> QED BY <1>3
<1> HIDE DEF highest
<1> QED BY <1>4, <1>5
-----------------------------------------------------------------------------
(* One step of the replay. *)

LEMMA DecisionType ==
  ASSUME NEW replay \in Replays, NEW item \in Snapshots
  PROVE  /\ Decision(replay, item).class \in Classes
         /\ Decision(replay, item).boundary \in Times
<1>1. CASE replay.previous = None
  BY <1>1 DEF Decision, Classes, Times
<1>2. CASE replay.previous # None
  <2>1. replay.previous \in Observations /\ item \in Observations
    BY <1>2 DEF Replays, Snapshots
  <2> QED BY <1>2, <2>1, ClassifyType DEF Decision
<1> QED BY <1>1, <1>2

LEMMA EventsType ==
  ASSUME NEW replay \in Replays, NEW item \in Snapshots
  PROVE  EventsWith(replay, item) \subseteq ResetEvents
BY DecisionType DEF EventsWith, Replays, ResetEvents, Snapshots, Observations,
   Times

\* The interval a new window is given never ends before it starts.
LEMMA BoundsType ==
  ASSUME NEW item \in Snapshots, NEW kind
  PROVE  /\ Bounds(item, kind).start \in Int
         /\ Bounds(item, kind).end \in Int
         /\ Bounds(item, kind).start <= Bounds(item, kind).end
         /\ ServerEpochBounds(item) # None => ServerEpochBounds(item).start \in Int
<1>1. item.time \in Int /\ item.five \in QuotaWindows \cup {None}
  BY DEF Snapshots, Observations
<1>2. LocalWindow \in Nat /\ FiveHours \in Nat
  BY ReplayAssumption, ClassifierAssumption
<1>3. CASE ServerEpochBounds(item) = None
  BY <1>1, <1>2, <1>3 DEF Bounds
<1>4. CASE ServerEpochBounds(item) # None
  <2>1. /\ item.five \in QuotaWindows
        /\ item.five.length = FiveHours
        /\ item.five.reset \in Int
        /\ ServerEpochBounds(item) = [start |-> EpochStart(item.five),
                                      end   |-> item.five.reset]
    BY <1>1, <1>4 DEF ServerEpochBounds, FitsEpoch, QuotaWindows
  <2>2. EpochStart(item.five) = item.five.reset - FiveHours
    BY <1>4, <2>1, ClassifierAssumption DEF EpochStart, ServerEpochBounds
  <2> QED BY <1>1, <1>2, <1>4, <2>1, <2>2 DEF Bounds
<1> QED BY <1>3, <1>4

LEMMA SeedType ==
  ASSUME NEW p \in Snapshots, NEW item \in Snapshots
  PROVE  /\ SeedAfterBoundary(p, item) \in Nat
         /\ SeedAfterBoundary(p, item) <= item.weekly.used
BY DEF SeedAfterBoundary, Greatest, Snapshots, Observations, QuotaWindows

\* What a rebuild finds in the windows table.
SoundTable(rows) ==
  /\ rows \subseteq WindowRows
  /\ \A w, v \in rows : w.start = v.start => w = v
  /\ \A w \in rows : w.start <= w.end

\* What a new window takes from the table and what it takes from the item.
LEMMA NewWindowFacts ==
  ASSUME NEW item \in Snapshots, NEW kind \in Kinds, NEW boundary \in Int,
         NEW points \in Nat, NEW prof \in Nat \ {0},
         NEW preserved, SoundTable(preserved),
         NEW window, window = NewWindow(item, kind, boundary, points, preserved, prof)
  PROVE  /\ window \in WindowRows
         /\ window.lifecycle = "archived"
         /\ window.start <= window.end
         /\ window.latest = item.time
         /\ window.used = item.weekly.used
         /\ window.weeklyReset = item.weekly.reset
         /\ window.points = points
         /\ \A v \in preserved : v.start = window.start =>
                                   v.calibration = window.calibration
<1> DEFINE bounds == Bounds(item, kind)
           kept   == {w \in preserved : w.start = bounds.start}
           old    == CHOOSE w \in kept : TRUE
           calibration == IF kept = {} THEN prof ELSE old.calibration
           end    == IF kept = {} THEN bounds.end ELSE old.end
<1>1. bounds.start \in Int /\ bounds.end \in Int /\ bounds.start <= bounds.end
  BY BoundsType
<1>2. kept # {} => old \in kept
  OBVIOUS
<1>3. /\ calibration \in Nat \ {0}
      /\ end \in Int
      /\ bounds.start <= end
  <2> HIDE DEF bounds
  <2> QED BY <1>1, <1>2 DEF WindowRows, SoundTable
<1>4. \A v \in preserved : v.start = bounds.start => v.calibration = calibration
  <2> HIDE DEF bounds
  <2> QED BY <1>2 DEF SoundTable
<1>5. /\ item.time \in Int
      /\ item.weekly.used \in Nat
      /\ item.weekly.reset \in Int \cup {None}
  BY DEF Snapshots, Observations, QuotaWindows
<1>6. Milestone(points, calibration) \in Nat \cup {None}
  <2> HIDE DEF calibration
  <2> QED BY <1>3, MilestoneType
<1>7. window = [start |-> bounds.start, end |-> end, latest |-> item.time,
                used |-> item.weekly.used, weeklyReset |-> item.weekly.reset,
                server |-> IF item.five = None THEN None ELSE item.time,
                points |-> points, milestone |-> Milestone(points, calibration),
                calibration |-> calibration, kind |-> kind,
                boundary |-> boundary, lifecycle |-> "archived"]
  BY DEF NewWindow
<1> HIDE DEF bounds, kept, old, calibration, end
<1> QED BY <1>1, <1>3, <1>4, <1>5, <1>6, <1>7 DEF WindowRows

\* Closing a window at a server boundary moves its end and nothing else, and
\* never before its start.
LEMMA ShortenedFacts ==
  ASSUME NEW w \in WindowRows, NEW b \in Times, w.start <= w.end
  PROVE  /\ Shortened(w, b) \in WindowRows
         /\ Shortened(w, b).start = w.start
         /\ Shortened(w, b).start <= Shortened(w, b).end
         /\ Shortened(w, b).end <= w.end
         /\ Shortened(w, b).calibration = w.calibration
         /\ Shortened(w, b).lifecycle = w.lifecycle
         /\ Shortened(w, b).points = w.points
         /\ Shortened(w, b).used = w.used
<1>1. CASE b = None
  <2>1. Shortened(w, b) = w
    BY <1>1, Zenon DEF Shortened
  <2> QED BY <2>1 DEF WindowRows
<1>2. CASE b # None
  <2> DEFINE e == Least(Greatest(b, w.start), w.end)
  <2>1. e \in Int /\ w.start <= e /\ e <= w.end
    BY <1>2 DEF Least, Greatest, WindowRows, Times
  <2>2. Shortened(w, b) = [w EXCEPT !.end = e]
    BY <1>2 DEF Shortened
  <2> HIDE DEF e
  <2> QED BY <2>1, <2>2 DEF WindowRows
<1> QED BY <1>1, <1>2
\* How the replay is after a window was opened for item.
Opened(replay, next, item, preserved) ==
  /\ next \in Replays
  /\ next.current \in WindowRows
  /\ SoundRow(next.current, preserved)
  /\ next.current.weeklyReset = item.weekly.reset
  /\ next.current.points <= next.current.used
  /\ next.current.latest = item.time
  /\ next.current.used = item.weekly.used
  /\ next.metered = replay.metered \cup {item.id}
  /\ replay.current = None => next.closed = replay.closed
  /\ replay.current # None =>
       \E b \in Times :
         next.closed = replay.closed \cup {Shortened(replay.current, b)}
  /\ ~next.clash => /\ ~replay.clash
                    /\ \A w \in next.closed : w.start # next.current.start

\* Opening a window finishes the current one and adds one whose points are no
\* more than the usage it was opened on.
LEMMA OpenWindowFacts ==
  ASSUME NEW replay \in Replays, NEW item \in Snapshots,
         NEW preserved, SoundTable(preserved), NEW prof \in Nat \ {0},
         replay.current # None => replay.current.start <= replay.current.end,
         NEW next, next = OpenWindow(replay, item, preserved, prof)
  PROVE  Opened(replay, next, item, preserved)
<1> DEFINE decision == Decision(replay, item)
           split    == ServerSplit(replay, item)
           kind     == IF split THEN decision.class
                       ELSE IF LocalExpiry(replay, item) THEN "local_expiry"
                       ELSE IF item.five # None THEN "server_epoch"
                       ELSE "initial_observation"
           boundary == IF split /\ decision.boundary # None THEN decision.boundary
                       ELSE IF ServerEpochBounds(item) # None
                            THEN ServerEpochBounds(item).start
                       ELSE item.time
           points   == IF split THEN SeedAfterBoundary(replay.previous, item) ELSE 0
           closed   == IF replay.current = None THEN replay.closed
                       ELSE replay.closed \cup
                              {IF split
                               THEN Shortened(replay.current, decision.boundary)
                               ELSE replay.current}
           window   == NewWindow(item, kind, boundary, points, preserved, prof)
           clash    == replay.clash \/ \E w \in closed : w.start = window.start
<1>1. decision.class \in Classes /\ decision.boundary \in Times
  BY DecisionType
<1>2. kind \in Kinds
  <2>1. split => decision.class \in {"natural_five_hour", "inferred_full", "ambiguous"}
    BY Zenon DEF ServerSplit
  <2> HIDE DEF split, decision
  <2> QED BY <2>1 DEF Kinds, Classes
<1>3. boundary \in Int
  <2>1. item.time \in Int
    BY DEF Snapshots, Observations
  <2>2. ServerEpochBounds(item) # None => ServerEpochBounds(item).start \in Int
    BY BoundsType
  <2> HIDE DEF decision
  <2> QED BY <1>1, <2>1, <2>2 DEF Times
<1>4. points \in Nat /\ points <= item.weekly.used
  <2>1. split => replay.previous \in Snapshots
    BY DEF ServerSplit, FiveChanged, Replays
  <2>2. 0 <= item.weekly.used
    BY DEF Snapshots, Observations, QuotaWindows
  <2> QED BY <2>1, <2>2, SeedType
<1>5. /\ window \in WindowRows
      /\ window.lifecycle = "archived"
      /\ window.start <= window.end
      /\ window.latest = item.time
      /\ window.used = item.weekly.used
      /\ window.weeklyReset = item.weekly.reset
      /\ window.points = points
      /\ \A v \in preserved : v.start = window.start =>
                                v.calibration = window.calibration
  <2> HIDE DEF kind, boundary, points
  <2> QED BY <1>2, <1>3, <1>4, NewWindowFacts
<1>6. /\ replay.current = None => closed = replay.closed
      /\ replay.current # None =>
           \E b \in Times :
             closed = replay.closed \cup {Shortened(replay.current, b)}
  <2>1. Shortened(replay.current, None) = replay.current
    BY Zenon DEF Shortened
  <2>2. None \in Times
    BY DEF Times
  <2> HIDE DEF decision, split
  <2> QED BY <1>1, <2>1, <2>2
<1>7. closed \subseteq WindowRows
  <2>1. replay.closed \subseteq WindowRows
    BY DEF Replays
  <2>2. CASE replay.current = None
    <3> HIDE DEF closed
    <3> QED BY <1>6, <2>1, <2>2
  <2>3. CASE replay.current # None
    <3>1. PICK b \in Times :
            closed = replay.closed \cup {Shortened(replay.current, b)}
      BY <1>6, <2>3
    <3>2. replay.current \in WindowRows
      BY <2>3 DEF Replays
    <3>3. Shortened(replay.current, b) \in WindowRows
      BY <2>3, <3>2, ShortenedFacts
    <3> HIDE DEF closed
    <3> QED BY <2>1, <3>1, <3>3
  <2> QED BY <2>2, <2>3
<1>8. next = [closed |-> closed, current |-> window, previous |-> item,
              events |-> EventsWith(replay, item),
              metered |-> replay.metered \cup {item.id}, clash |-> clash]
  BY DEF OpenWindow
<1>9. clash \in BOOLEAN
  BY DEF Replays
<1>10. next \in Replays
  <2>1. item.id \in Int
    BY DEF Snapshots, Observations
  <2>2. EventsWith(replay, item) \subseteq ResetEvents
    BY EventsType
  <2> HIDE DEF closed, window, clash
  <2> QED BY <1>5, <1>7, <1>8, <1>9, <2>1, <2>2 DEF Replays
<1>11. ~clash => ~replay.clash /\ \A w \in closed : w.start # window.start
  OBVIOUS
<1>12. SoundRow(window, preserved)
  BY <1>5 DEF SoundRow
<1> HIDE DEF closed, window, clash, points
<1> QED BY <1>4, <1>5, <1>6, <1>8, <1>10, <1>11, <1>12 DEF Opened

LEMMA IgnoreFacts ==
  ASSUME NEW replay \in Replays, NEW item \in Snapshots
  PROVE  /\ Ignore(replay, item) \in Replays
         /\ Ignore(replay, item).current = replay.current
         /\ Ignore(replay, item).closed = replay.closed
         /\ Ignore(replay, item).clash = replay.clash
         /\ Ignore(replay, item).metered = replay.metered
<1>1. EventsWith(replay, item) \subseteq ResetEvents
  BY EventsType
<1> QED BY <1>1 DEF Ignore, Replays

\* How the replay is after delta points were added to the current window.
Accumulated(replay, next, item, delta) ==
  /\ next \in Replays
  /\ next.closed = replay.closed
  /\ next.clash = replay.clash
  /\ next.current \in WindowRows
  /\ next.current.lifecycle = replay.current.lifecycle
  /\ next.current.start = replay.current.start
  /\ next.current.end = replay.current.end
  /\ next.current.calibration = replay.current.calibration
  /\ next.current.weeklyReset = item.weekly.reset
  /\ next.current.used = item.weekly.used
  /\ next.current.points = replay.current.points + delta
  /\ next.current.latest = item.time
  /\ next.metered = replay.metered \cup {item.id}

\* A step inside a window changes what it has metered, not its place.
LEMMA AccumulateFacts ==
  ASSUME NEW replay \in Replays, NEW item \in Snapshots, NEW delta \in Nat,
         replay.current \in WindowRows,
         NEW next, next = Accumulate(replay, item, delta)
  PROVE  Accumulated(replay, next, item, delta)
<1> DEFINE points    == replay.current.points + delta
           server    == IF item.five = None THEN replay.current.server
                        ELSE item.time
           milestone == Milestone(points, replay.current.calibration)
           window    == [replay.current EXCEPT !.latest      = item.time,
                                               !.used        = item.weekly.used,
                                               !.weeklyReset = item.weekly.reset,
                                               !.server      = server,
                                               !.points      = points,
                                               !.milestone   = milestone]
<1>1. points \in Nat
  BY DEF WindowRows
<1>2. milestone \in Nat \cup {None}
  <2>1. replay.current.calibration \in Nat \ {0}
    BY DEF WindowRows
  <2> HIDE DEF points
  <2> QED BY <1>1, <2>1, MilestoneType
<1>3. /\ item.time \in Int
      /\ item.id \in Int
      /\ item.weekly.used \in Nat
      /\ item.weekly.reset \in Int \cup {None}
      /\ server \in Int \cup {None}
  BY DEF Snapshots, Observations, QuotaWindows, WindowRows
<1>4. /\ window \in WindowRows
      /\ window.lifecycle = replay.current.lifecycle
      /\ window.start = replay.current.start
      /\ window.end = replay.current.end
      /\ window.calibration = replay.current.calibration
      /\ window.weeklyReset = item.weekly.reset
      /\ window.used = item.weekly.used
      /\ window.points = points
      /\ window.latest = item.time
  <2> HIDE DEF points, milestone, server
  <2> QED BY <1>1, <1>2, <1>3 DEF WindowRows
<1>5. EventsWith(replay, item) \subseteq ResetEvents
  BY EventsType
<1>6. next = [replay EXCEPT !.current  = window,
                            !.previous = item,
                            !.events   = EventsWith(replay, item),
                            !.metered  = @ \cup {item.id}]
  BY Zenon DEF Accumulate
<1> HIDE DEF window
<1>7. next = [closed |-> replay.closed, current |-> window, previous |-> item,
              events |-> EventsWith(replay, item),
              metered |-> replay.metered \cup {item.id}, clash |-> replay.clash]
  BY <1>6 DEF Replays
<1> HIDE DEF window
<1>8. next \in Replays
  BY <1>3, <1>4, <1>5, <1>7 DEF Replays
<1> QED BY <1>4, <1>7, <1>8 DEF Accumulated
-----------------------------------------------------------------------------
(* Every step of the replay preserves what IInv says of the transaction. *)

\* What a rebuild replays: stored observations, oldest first, each once.
InTurn(item, items, replay) ==
  /\ \A o, p \in items : o.id = p.id => o = p
  /\ \E o \in items : ReadingOf(item, o)
  /\ replay.metered # {} => replay.current.latest <= item.time

\* An item that is metered in its turn is the newest that is.
LEMMA MeteredInTurn ==
  ASSUME NEW items \in SUBSET Snapshots, NEW item \in Snapshots,
         NEW replay \in Replays, EndsInNewest(replay, items),
         InTurn(item, items, replay),
         NEW next, next.current.latest = item.time,
         next.current.used = item.weekly.used,
         next.metered = replay.metered \cup {item.id}
  PROVE  EndsInNewest(next, items)
<1>1. PICK o \in items : ReadingOf(item, o)
  BY DEF InTurn
<1>2. o.id \in next.metered /\ o.time = item.time /\ o.weekly.used = item.weekly.used
  BY <1>1 DEF ReadingOf
<1>3. ASSUME NEW p \in items, p.id \in next.metered PROVE p.time <= item.time
  <2>0. p.time \in Int /\ item.time \in Int
    BY DEF Snapshots, Observations
  <2>1. CASE p.id = item.id
    <3>1. p = o
      BY <1>1, <2>1 DEF InTurn, ReadingOf
    <3> QED BY <1>2, <2>0, <3>1
  <2>2. CASE p.id \in replay.metered
    <3>1. p.time <= replay.current.latest
      BY <2>2 DEF EndsInNewest
    <3>2. replay.current.latest \in Int /\ replay.current.latest <= item.time
      BY <2>2 DEF InTurn, EndsInNewest, Snapshots, Observations
    <3> QED BY <2>0, <3>1, <3>2
  <2> QED BY <1>3, <2>1, <2>2
<1> QED BY <1>2, <1>3 DEF EndsInNewest

LEMMA OpenWindowSound ==
  ASSUME NEW items \in SUBSET Snapshots, NEW item \in Snapshots,
         NEW preserved, SoundTable(preserved), NEW prof \in Nat \ {0},
         NEW replay, SoundReplay(replay, preserved, items),
         InTurn(item, items, replay)
  PROVE  SoundReplay(OpenWindow(replay, item, preserved, prof), preserved, items)
<1> DEFINE next == OpenWindow(replay, item, preserved, prof)
<1>1. replay \in Replays
  BY DEF SoundReplay
<1>2. replay.current # None => /\ replay.current \in WindowRows
                               /\ replay.current \in RowsOf(replay)
                               /\ replay.current.start <= replay.current.end
  BY <1>1 DEF SoundReplay, SoundRow, RowsOf, Replays
<1>0. next = OpenWindow(replay, item, preserved, prof)
  OBVIOUS
<1> HIDE DEF next
<1>3. Opened(replay, next, item, preserved)
  BY <1>0, <1>1, <1>2, OpenWindowFacts
<1> USE DEF Opened, SoundRow
<1>4. ASSUME NEW w \in next.closed
      PROVE  \E v \in RowsOf(replay) : /\ w.start = v.start
                                       /\ w.start <= w.end
                                       /\ w.calibration = v.calibration
                                       /\ w.lifecycle = v.lifecycle
                                       /\ w.points = v.points
                                       /\ w.used = v.used
  <2>1. CASE w \in replay.closed
    <3>1. w \in RowsOf(replay)
      BY <2>1 DEF RowsOf
    <3> QED BY <3>1 DEF SoundReplay, SoundRow
  <2>2. CASE w \notin replay.closed
    <3>1. replay.current # None
      BY <1>3, <2>2
    <3>2. PICK b \in Times : w = Shortened(replay.current, b)
      BY <1>3, <2>2, <3>1
    <3> QED BY <1>2, <3>1, <3>2, ShortenedFacts
  <2> QED BY <2>1, <2>2
<1>5. ASSUME NEW w \in RowsOf(next) PROVE SoundRow(w, preserved)
  <2>1. CASE w = next.current
    BY <1>3, <2>1 DEF SoundRow
  <2>2. CASE w \in next.closed
    BY <1>4, <2>2 DEF SoundReplay, SoundRow
  <2> QED BY <2>1, <2>2 DEF RowsOf
<1>6. ASSUME ~next.clash PROVE DistinctStarts(next)
  <2>1. ~replay.clash /\ DistinctStarts(replay)
    BY <1>3, <1>6 DEF SoundReplay
  <2>2. \A w, v \in next.closed : w.start = v.start => w = v
    <3>1. CASE replay.current = None
      BY <1>3, <2>1, <3>1 DEF DistinctStarts
    <3>2. CASE replay.current # None
      <4>1. PICK b \in Times :
              next.closed = replay.closed \cup {Shortened(replay.current, b)}
        BY <1>3, <3>2
      <4>2. Shortened(replay.current, b).start = replay.current.start
        BY <1>2, <3>2, ShortenedFacts
      <4> QED BY <2>1, <3>2, <4>1, <4>2 DEF DistinctStarts
    <3> QED BY <3>1, <3>2
  <2> QED BY <1>3, <1>6, <2>2 DEF DistinctStarts
<1>7. \E o \in items : next.current.weeklyReset = o.weekly.reset
  BY <1>3 DEF InTurn, ReadingOf
<1>10. EndsInNewest(next, items)
  <2>1. EndsInNewest(replay, items)
    BY DEF SoundReplay
  <2> QED BY <1>1, <1>3, <2>1, MeteredInTurn
<1>8. ASSUME OneDeadline(items), NEW w \in RowsOf(next) PROVE w.points <= w.used
  <2>1. CASE w = next.current
    BY <1>3, <2>1
  <2>2. CASE w \in next.closed
    BY <1>4, <1>8, <2>2 DEF SoundReplay
  <2> QED BY <2>1, <2>2 DEF RowsOf
<1>9. SoundReplay(next, preserved, items)
  BY <1>3, <1>5, <1>6, <1>7, <1>8, <1>10 DEF SoundReplay
<1> QED BY <1>9 DEF next

\* Why the points of a window stay below its weekly usage: while the deadline
\* stands still, what is added is exactly what the usage grew by.
LEMMA AccumulateSound ==
  ASSUME NEW items \in SUBSET Snapshots, NEW item \in Snapshots,
         NEW preserved, NEW replay, SoundReplay(replay, preserved, items),
         InTurn(item, items, replay), replay.current # None,
         NEW delta, delta # None,
         delta = WeeklyDelta(replay.current.used, replay.current.weeklyReset,
                             item.weekly.used, item.weekly.reset)
  PROVE  SoundReplay(Accumulate(replay, item, delta), preserved, items)
<1> DEFINE next == Accumulate(replay, item, delta)
<1>1. replay \in Replays /\ replay.current \in WindowRows
  BY DEF SoundReplay, Replays
<1>2. /\ replay.current.used \in Nat
      /\ replay.current.points \in Nat
      /\ replay.current.weeklyReset \in Times
      /\ item.weekly.used \in Nat
      /\ item.weekly.reset \in Times
  BY <1>1 DEF WindowRows, Times, Snapshots, Observations, QuotaWindows
<1>3. delta \in Nat
  BY <1>2, WeeklyDeltaType
<1>0. next = Accumulate(replay, item, delta)
  OBVIOUS
<1> HIDE DEF next
<1>4. Accumulated(replay, next, item, delta)
  BY <1>0, <1>1, <1>3, AccumulateFacts
<1> USE DEF Accumulated
<1>5. replay.current \in RowsOf(replay) /\ replay.closed \subseteq RowsOf(replay)
  BY DEF RowsOf
<1>6. RowsOf(next) \subseteq replay.closed \cup {next.current}
  BY <1>4 DEF RowsOf
<1>7. \A w \in RowsOf(next) : SoundRow(w, preserved)
  BY <1>4, <1>5, <1>6 DEF SoundReplay, SoundRow
<1>8. ~next.clash => DistinctStarts(next)
  BY <1>4 DEF SoundReplay, DistinctStarts
<1>9. \E o \in items : next.current.weeklyReset = o.weekly.reset
  BY <1>4 DEF InTurn, ReadingOf
<1>13. EndsInNewest(next, items)
  <2>1. EndsInNewest(replay, items)
    BY DEF SoundReplay
  <2> QED BY <1>1, <1>4, <2>1, MeteredInTurn
<1>10. ASSUME OneDeadline(items) PROVE next.current.points <= next.current.used
  <2>1. replay.current.points <= replay.current.used
    BY <1>5, <1>10 DEF SoundReplay
  <2>2. /\ replay.current.weeklyReset # None
        /\ item.weekly.reset # None
        /\ WithinJitter(item.weekly.reset, replay.current.weeklyReset)
    <3>1. PICK o \in items : item.weekly = o.weekly
      BY DEF InTurn, ReadingOf
    <3>2. PICK p \in items : replay.current.weeklyReset = p.weekly.reset
      BY DEF SoundReplay
    <3> QED BY <1>10, <3>1, <3>2 DEF OneDeadline
  <2>3. delta = item.weekly.used - replay.current.used
    BY <1>2, <2>2, ClassifierAssumption DEF WeeklyDelta, WithinJitter, Times
  <2> QED BY <1>2, <1>4, <2>1, <2>3
<1>11. OneDeadline(items) => \A w \in RowsOf(next) : w.points <= w.used
  BY <1>5, <1>6, <1>10 DEF SoundReplay
<1>12. SoundReplay(next, preserved, items)
  BY <1>4, <1>7, <1>8, <1>9, <1>11, <1>13 DEF SoundReplay
<1> QED BY <1>12 DEF next

LEMMA ReplaySound ==
  ASSUME NEW items \in SUBSET Snapshots, NEW item \in Snapshots,
         NEW preserved, SoundTable(preserved), NEW prof \in Nat \ {0},
         NEW replay, SoundReplay(replay, preserved, items),
         InTurn(item, items, replay)
  PROVE  SoundReplay(ReplayItem(replay, item, preserved, prof), preserved, items)
<1> DEFINE delta == WeeklyDelta(replay.current.used, replay.current.weeklyReset,
                                item.weekly.used, item.weekly.reset)
<1>1. SoundReplay(Ignore(replay, item), preserved, items)
  <2>1. replay \in Replays
    BY DEF SoundReplay
  <2>2. /\ Ignore(replay, item) \in Replays
        /\ Ignore(replay, item).current = replay.current
        /\ Ignore(replay, item).closed = replay.closed
        /\ Ignore(replay, item).clash = replay.clash
        /\ Ignore(replay, item).metered = replay.metered
    BY <2>1, IgnoreFacts
  <2> QED BY <2>2 DEF SoundReplay, RowsOf, DistinctStarts, EndsInNewest
<1>2. SoundReplay(OpenWindow(replay, item, preserved, prof), preserved, items)
  BY OpenWindowSound
<1>3. replay.current # None /\ delta # None =>
        SoundReplay(Accumulate(replay, item, delta), preserved, items)
  BY AccumulateSound
<1>4. \/ ReplayItem(replay, item, preserved, prof) = Ignore(replay, item)
      \/ ReplayItem(replay, item, preserved, prof)
           = OpenWindow(replay, item, preserved, prof)
      \/ /\ replay.current # None /\ delta # None
         /\ ReplayItem(replay, item, preserved, prof)
              = Accumulate(replay, item, delta)
  BY Zenon DEF ReplayItem
<1> QED BY <1>1, <1>2, <1>3, <1>4

\* The window being filled ends in the item just replayed, or nothing of it
\* changed.
LEMMA ReplayLatest ==
  ASSUME NEW item \in Snapshots,
         NEW preserved, SoundTable(preserved), NEW prof \in Nat \ {0},
         NEW replay \in Replays,
         replay.current # None => replay.current.start <= replay.current.end
  PROVE  \/ /\ ReplayItem(replay, item, preserved, prof).current = replay.current
            /\ ReplayItem(replay, item, preserved, prof).metered = replay.metered
         \/ ReplayItem(replay, item, preserved, prof).current.latest = item.time
<1> DEFINE delta == WeeklyDelta(replay.current.used, replay.current.weeklyReset,
                                item.weekly.used, item.weekly.reset)
<1>1. /\ Ignore(replay, item).current = replay.current
      /\ Ignore(replay, item).metered = replay.metered
  BY IgnoreFacts
<1>2. OpenWindow(replay, item, preserved, prof).current.latest = item.time
  BY OpenWindowFacts DEF Opened
<1>3. ASSUME replay.current # None, delta # None
      PROVE  Accumulate(replay, item, delta).current.latest = item.time
  <2>1. replay.current \in WindowRows
    BY <1>3 DEF Replays
  <2>2. delta \in Nat
    <3>1. /\ replay.current.used \in Nat
          /\ replay.current.weeklyReset \in Times
          /\ item.weekly.used \in Nat
          /\ item.weekly.reset \in Times
      BY <2>1 DEF WindowRows, Times, Snapshots, Observations, QuotaWindows
    <3> QED BY <1>3, <3>1, WeeklyDeltaType
  <2> HIDE DEF delta
  <2> QED BY <2>1, <2>2, AccumulateFacts DEF Accumulated
<1>4. \/ ReplayItem(replay, item, preserved, prof) = Ignore(replay, item)
      \/ ReplayItem(replay, item, preserved, prof)
           = OpenWindow(replay, item, preserved, prof)
      \/ /\ replay.current # None /\ delta # None
         /\ ReplayItem(replay, item, preserved, prof)
              = Accumulate(replay, item, delta)
  BY Zenon DEF ReplayItem
<1> HIDE DEF delta
<1> QED BY <1>1, <1>2, <1>3, <1>4
-----------------------------------------------------------------------------
(* The inductive invariant. *)

\* Filling in the five-hour window leaves a snapshot a snapshot and changes
\* nothing else of it.
LEMMA BackfilledFacts ==
  ASSUME NEW items \in SUBSET Snapshots, NEW item \in items
  PROVE  /\ Backfilled(item, items) \in Snapshots
         /\ ReadingOf(Backfilled(item, items), item)
<1> DEFINE known == {y \in NextKnown(item, items) : FitsEpoch(item.time, y.five)}
           y     == CHOOSE z \in known : TRUE
<1>1. CASE item.five # None \/ known = {}
  <2>1. Backfilled(item, items) = item
    BY <1>1, Zenon DEF Backfilled
  <2> QED BY <2>1 DEF ReadingOf
<1>2. CASE ~(item.five # None \/ known = {})
  <2>1. y \in known
    BY <1>2
  <2>2. y \in Observations /\ y.five # None
    BY <2>1 DEF NextKnown, Snapshots
  <2>3. Backfilled(item, items) = [item EXCEPT !.five = y.five]
    BY <1>2, Zenon DEF Backfilled
  <2> HIDE DEF y, known
  <2> QED BY <2>2, <2>3 DEF Snapshots, Observations, ReadingOf
<1> QED BY <1>1, <1>2

LEMMA EmptyReplaySound ==
  ASSUME NEW preserved, NEW items
  PROVE  SoundReplay(EmptyReplay, preserved, items)
BY DEF SoundReplay, EmptyReplay, Replays, RowsOf, DistinctStarts, EndsInNewest

\* The rows a commit writes: those of the replay, the last one made current
\* unless a manual reset came after everything it saw.
LEMMA FinalRowsFacts ==
  ASSUME NEW items, SoundReplay(tx.replay, windows, items), ~tx.replay.clash
  PROVE  /\ SoundTable(FinalRows(tx.replay))
         /\ \A w, v \in CurrentRows(FinalRows(tx.replay)) : w = v
         /\ \A w \in CurrentRows(FinalRows(tx.replay)) :
              \E o \in items :
                /\ o.id \in tx.replay.metered
                /\ o.time = w.latest
                /\ o.weekly.used = w.used
                /\ \A p \in items : p.id \in tx.replay.metered => p.time <= o.time
                /\ \A r \in resets : r < o.time
         /\ \A w \in FinalRows(tx.replay) :
              /\ \A v \in windows : v.start = w.start => v.calibration = w.calibration
              /\ OneDeadline(items) => w.points <= w.used
<1> DEFINE replay == tx.replay
           row    == replay.current
           last   == IF \A r \in resets : row.latest > r
                     THEN [row EXCEPT !.lifecycle = "current"] ELSE row
           rows   == FinalRows(replay)
<1>1. replay \in Replays /\ DistinctStarts(replay)
  BY DEF SoundReplay
<1>2. CASE row = None
  <2>1. rows = {}
    BY <1>2 DEF FinalRows
  <2> QED BY <2>1 DEF SoundTable, CurrentRows
<1>3. CASE row # None
  <2>1. rows = replay.closed \cup {last}
    BY <1>3, Zenon DEF FinalRows
  <2>2. row \in WindowRows /\ replay.closed \subseteq WindowRows
    BY <1>1, <1>3 DEF Replays
  <2>3. RowsOf(replay) = replay.closed \cup {row}
    BY <1>3 DEF RowsOf
  <2>4. /\ last \in WindowRows
        /\ last.start = row.start
        /\ last.end = row.end
        /\ last.calibration = row.calibration
        /\ last.points = row.points
        /\ last.used = row.used
        /\ last.latest = row.latest
        /\ last.lifecycle = "current" =>
             last = row \/ \A r \in resets : last.latest > r
    BY <2>2 DEF WindowRows
  <2>5. /\ \A w \in replay.closed : SoundRow(w, windows)
        /\ SoundRow(row, windows)
    BY <2>3 DEF SoundReplay
  <2> HIDE DEF rows, last, row, replay
  <2>6. CurrentRows(rows) \subseteq {last}
    BY <2>1, <2>5 DEF CurrentRows, SoundRow
  <2>7. last.lifecycle = "current" => \A r \in resets : last.latest > r
    BY <2>4, <2>5 DEF SoundRow
  <2>8. SoundTable(rows)
    <3>1. rows \subseteq WindowRows
      BY <2>1, <2>2, <2>4
    <3>2. \A w \in rows : w.start <= w.end
      BY <2>1, <2>4, <2>5 DEF SoundRow
    <3>3. \A w, v \in rows : w.start = v.start => w = v
      BY <1>1, <1>3, <2>1, <2>4 DEF DistinctStarts, row
    <3> QED BY <3>1, <3>2, <3>3 DEF SoundTable
  <2>9. \A w \in rows, v \in windows : v.start = w.start => v.calibration = w.calibration
    BY <2>1, <2>4, <2>5 DEF SoundRow
  <2>10. OneDeadline(items) => \A w \in rows : w.points <= w.used
    BY <2>1, <2>3, <2>4 DEF SoundReplay, replay
  <2>11. ASSUME NEW w \in CurrentRows(rows)
         PROVE  \E o \in items :
                  /\ o.id \in replay.metered
                  /\ o.time = w.latest
                  /\ o.weekly.used = w.used
                  /\ \A p \in items : p.id \in replay.metered => p.time <= o.time
                  /\ \A r \in resets : r < o.time
    <3>1. w = last /\ \A r \in resets : r < w.latest
      BY <2>6, <2>7 DEF CurrentRows
    <3>2. w.latest = replay.current.latest /\ w.used = replay.current.used
      BY <2>4, <3>1 DEF row
    <3>3. /\ \E o \in items : /\ o.id \in replay.metered
                             /\ o.time = replay.current.latest
                             /\ o.weekly.used = replay.current.used
          /\ \A p \in items : p.id \in replay.metered =>
                                p.time <= replay.current.latest
      BY <1>3 DEF SoundReplay, EndsInNewest, row, replay
    <3> QED BY <3>1, <3>2, <3>3
  <2> QED BY <2>6, <2>8, <2>9, <2>10, <2>11 DEF rows, replay
<1> QED BY <1>2, <1>3

LEMMA InitInvariant == Init => IInv
BY StoreAssumption DEF Init, IInv, TypeOK, OneCurrentWindow, CurrentRows,
   ResetsHold, WindowsNotInverted, MeteredWithinWeeklyUse

\* Steps that leave every table alone preserve what IInv says of the tables.
LEMMA TablesUnchanged ==
  ASSUME IInv, UNCHANGED tables, clock' \in Int,
         tx' = None \/ tx' \in [stored : SUBSET Universe, todo : SUBSET Snapshots,
                                replay : Replays],
         tx' # None => SoundTransaction'
  PROVE  IInv'
<1>1. TypeOK'
  BY DEF IInv, TypeOK, tables
<1>2. /\ OneCurrentWindow' /\ ResetsHold' /\ WindowsNotInverted'
      /\ MeteredWithinWeeklyUse'
  BY DEF IInv, tables, OneCurrentWindow, CurrentRows, ResetsHold, EndsIn,
     WindowsNotInverted, MeteredWithinWeeklyUse
<1> QED BY <1>1, <1>2 DEF IInv

LEMMA BeginIngestInvariant ==
  ASSUME IInv, NEW batch \in Batches, BeginIngest(batch)
  PROVE  IInv'
<1> DEFINE all  == stored \cup batch
           todo == {Backfilled(o, all) : o \in all}
<1>1. tx' = [stored |-> all, todo |-> todo, replay |-> EmptyReplay]
  BY DEF BeginIngest
<1>2. all \in SUBSET Universe /\ all \in SUBSET Snapshots
  BY StoreAssumption DEF IInv, TypeOK, Batches
<1>3. todo \subseteq Snapshots /\ \A t \in todo : \E o \in all : ReadingOf(t, o)
  <2> HIDE DEF all
  <2> QED BY <1>2, BackfilledFacts
<1>4. SoundReplay(EmptyReplay, windows, all) /\ EmptyReplay \in Replays
  <2>1. SoundReplay(EmptyReplay, windows, all)
    BY EmptyReplaySound
  <2> QED BY <2>1 DEF SoundReplay
<1> HIDE DEF all, todo
<1>5. UNCHANGED tables /\ clock' \in Int
  BY DEF BeginIngest, IInv, TypeOK
<1>6. SoundTransaction'
  BY <1>1, <1>3, <1>4, <1>5 DEF SoundTransaction, tables, EmptyReplay
<1>7. tx' \in [stored : SUBSET Universe, todo : SUBSET Snapshots, replay : Replays]
  BY <1>1, <1>2, <1>3, <1>4
<1> QED BY <1>5, <1>6, <1>7, TablesUnchanged

LEMMA ReplayNextInvariant ==
  ASSUME IInv, ReplayNext
  PROVE  IInv'
<1>1. PICK item \in tx.todo :
        /\ \A other \in tx.todo : item = other \/ Before(item, other)
        /\ tx' = [tx EXCEPT !.todo   = @ \ {item},
                            !.replay = ReplayItem(@, item, windows, profile)]
  BY DEF ReplayNext
<1>2. /\ tx \in [stored : SUBSET Universe, todo : SUBSET Snapshots, replay : Replays]
      /\ SoundTransaction
      /\ profile \in Nat \ {0}
  BY DEF ReplayNext, IInv, TypeOK
<1>3. SoundTable(windows)
  BY DEF IInv, TypeOK, OneCurrentWindow, WindowsNotInverted, SoundTable
<1>4. tx.stored \in SUBSET Snapshots
  BY <1>2, StoreAssumption
<1> DEFINE replay == ReplayItem(tx.replay, item, windows, profile)
<1>5. SoundReplay(replay, windows, tx.stored)
  <2>1. item \in Snapshots /\ InTurn(item, tx.stored, tx.replay)
    BY <1>2, StoreAssumption DEF SoundTransaction, InTurn
  <2>2. SoundReplay(tx.replay, windows, tx.stored)
    BY <1>2 DEF SoundTransaction
  <2> QED BY <1>2, <1>3, <1>4, <2>1, <2>2, ReplaySound
<1>10. \/ /\ replay.current = tx.replay.current
          /\ replay.metered = tx.replay.metered
       \/ replay.current.latest = item.time
  <2>1. tx.replay.current # None =>
          tx.replay.current.start <= tx.replay.current.end
    BY <1>2 DEF SoundTransaction, SoundReplay, SoundRow, RowsOf
  <2> QED BY <1>2, <1>3, <2>1, ReplayLatest
<1> HIDE DEF replay
<1>6. tx' = [stored |-> tx.stored, todo |-> tx.todo \ {item}, replay |-> replay]
  BY <1>1, <1>2 DEF replay
<1>11. ASSUME NEW i \in tx.todo \ {item}, replay.metered # {}
       PROVE  replay.current.latest <= i.time
  <2>1. item.time <= i.time
    BY <1>1, <1>2 DEF Before, Snapshots, Observations
  <2> QED BY <1>2, <1>10, <1>11, <2>1 DEF SoundTransaction
<1>7. UNCHANGED tables /\ clock' \in Int
  BY DEF ReplayNext, IInv, TypeOK
<1>8. SoundTransaction'
  BY <1>2, <1>5, <1>6, <1>7, <1>11 DEF SoundTransaction, tables
<1>9. tx' \in [stored : SUBSET Universe, todo : SUBSET Snapshots, replay : Replays]
  BY <1>2, <1>5, <1>6 DEF SoundReplay
<1> QED BY <1>7, <1>8, <1>9, TablesUnchanged

LEMMA CommitIngestInvariant ==
  ASSUME IInv, CommitIngest
  PROVE  IInv'
<1> DEFINE rows == FinalRows(tx.replay)
<1>1. /\ tx \in [stored : SUBSET Universe, todo : SUBSET Snapshots, replay : Replays]
      /\ SoundReplay(tx.replay, windows, tx.stored)
      /\ ~tx.replay.clash
  BY DEF CommitIngest, Replayed, IInv, TypeOK, SoundTransaction
<1>2. /\ SoundTable(rows)
      /\ \A w, v \in CurrentRows(rows) : w = v
      /\ \A w \in CurrentRows(rows) :
           \E o \in tx.stored :
             /\ o.id \in tx.replay.metered
             /\ o.time = w.latest
             /\ o.weekly.used = w.used
             /\ \A p \in tx.stored : p.id \in tx.replay.metered => p.time <= o.time
             /\ \A r \in resets : r < o.time
      /\ \A w \in rows : OneDeadline(tx.stored) => w.points <= w.used
  BY <1>1, FinalRowsFacts
<1>3. /\ windows' = rows
      /\ warned' = warned \cup WarningsOf(rows)
      /\ stored' = tx.stored
      /\ events' = tx.replay.events
      /\ metered' = tx.replay.metered
      /\ tx' = None
      /\ UNCHANGED <<clock, resets, profile>>
  BY DEF CommitIngest
<1> HIDE DEF rows
<1>4. TypeOK'
  <2>1. WarningsOf(rows) \subseteq Int \X Nat
    BY <1>2 DEF WarningsOf, SoundTable, WindowRows
  <2>2. windows' \subseteq WindowRows
    BY <1>2, <1>3 DEF SoundTable
  <2>3. stored' \subseteq Universe /\ events' \subseteq ResetEvents /\ metered' \subseteq Int
    BY <1>1, <1>3 DEF Replays
  <2> QED BY <1>3, <2>1, <2>2, <2>3 DEF IInv, TypeOK
<1>5. OneCurrentWindow' /\ WindowsNotInverted'
  BY <1>2, <1>3 DEF OneCurrentWindow, WindowsNotInverted, SoundTable, CurrentRows
<1>6. ResetsHold'
  BY <1>2, <1>3 DEF ResetsHold, EndsIn, CurrentRows
<1>8. MeteredWithinWeeklyUse'
  BY <1>2, <1>3 DEF MeteredWithinWeeklyUse
<1> QED BY <1>3, <1>4, <1>5, <1>6, <1>8 DEF IInv

\* Archiving the only current row leaves no current row, and moves its end to
\* an instant no earlier than its start.
LEMMA ManualResetInvariant ==
  ASSUME IInv, NEW now \in Int, ManualReset(now)
  PROVE  IInv'
<1>1. PICK w \in CurrentRows(windows) :
        windows' = (windows \ {w}) \cup
                     {[w EXCEPT !.end = Greatest(now, w.start),
                                !.lifecycle = "archived"]}
  BY DEF ManualReset
<1> DEFINE v == [w EXCEPT !.end = Greatest(now, w.start), !.lifecycle = "archived"]
<1>2. w \in windows /\ w \in WindowRows
  BY DEF IInv, TypeOK, CurrentRows
<1>3. /\ v \in WindowRows
      /\ v.lifecycle = "archived"
      /\ v.start = w.start
      /\ v.start <= v.end
      /\ v.calibration = w.calibration
      /\ v.points = w.points
      /\ v.used = w.used
  <2> DEFINE end == Greatest(now, w.start)
  <2>1. end \in Int /\ w.start <= end
    BY <1>2 DEF WindowRows, Greatest
  <2>2. v = [w EXCEPT !.end = end, !.lifecycle = "archived"]
    OBVIOUS
  <2> HIDE DEF end, v
  <2> QED BY <1>2, <2>1, <2>2 DEF WindowRows
<1>4. windows' = (windows \ {w}) \cup {v}
  BY <1>1
<1> HIDE DEF v
<1>5. /\ tx = None /\ tx' = None
      /\ resets' = resets \cup {now}
      /\ UNCHANGED <<clock, stored, events, metered, warned, profile>>
  BY DEF ManualReset
<1>6. CurrentRows(windows') = {}
  BY <1>2, <1>3, <1>4 DEF IInv, OneCurrentWindow, CurrentRows
<1>7. TypeOK'
  BY <1>2, <1>3, <1>4, <1>5 DEF IInv, TypeOK
<1>8. OneCurrentWindow'
  <2>1. \A x, y \in windows' : x.start = y.start => x = y
    BY <1>2, <1>3, <1>4 DEF IInv, OneCurrentWindow
  <2> QED BY <1>6, <2>1 DEF OneCurrentWindow, CurrentRows
<1>9. ResetsHold'
  BY <1>6 DEF ResetsHold, CurrentRows
<1>10. WindowsNotInverted'
  BY <1>3, <1>4 DEF IInv, WindowsNotInverted
<1>11. MeteredWithinWeeklyUse'
  BY <1>2, <1>3, <1>4, <1>5 DEF IInv, MeteredWithinWeeklyUse
<1> QED BY <1>5, <1>7, <1>8, <1>9, <1>10, <1>11 DEF IInv

LEMMA ApplyCalibrationInvariant ==
  ASSUME IInv, NEW value \in Calibrations, ApplyCalibration(value)
  PROVE  IInv'
<1>1. TypeOK'
  BY StoreAssumption DEF IInv, TypeOK, ApplyCalibration
<1>2. /\ OneCurrentWindow' /\ ResetsHold' /\ WindowsNotInverted'
      /\ MeteredWithinWeeklyUse' /\ tx' = None
  BY DEF IInv, ApplyCalibration, OneCurrentWindow, CurrentRows, ResetsHold,
     EndsIn, WindowsNotInverted, MeteredWithinWeeklyUse
<1> QED BY <1>1, <1>2 DEF IInv

LEMMA NextInvariant == IInv /\ [Next]_vars => IInv'
<1> SUFFICES ASSUME IInv, [Next]_vars PROVE IInv'
  OBVIOUS
<1>1. CASE Tick
  <2>1. UNCHANGED <<tables, tx>> /\ clock' \in Int
    BY <1>1 DEF Tick, IInv, TypeOK
  <2> QED BY <2>1, TablesUnchanged DEF IInv, TypeOK, SoundTransaction, tables
<1>2. CASE \E batch \in Batches : BeginIngest(batch)
  BY <1>2, BeginIngestInvariant
<1>3. CASE ReplayNext
  BY <1>3, ReplayNextInvariant
<1>4. CASE CommitIngest
  BY <1>4, CommitIngestInvariant
<1>5. CASE AbortIngest \/ CrashInTransaction
  <2>1. UNCHANGED tables /\ clock' \in Int /\ tx' = None
    BY <1>5 DEF AbortIngest, CrashInTransaction, IInv, TypeOK
  <2> QED BY <2>1, TablesUnchanged
<1>6. CASE \E now \in clock - LockWait .. clock : ManualReset(now)
  <2>1. \A now \in clock - LockWait .. clock : now \in Int
    BY StoreAssumption DEF IInv, TypeOK
  <2> QED BY <1>6, <2>1, ManualResetInvariant
<1>7. CASE \E value \in Calibrations : ApplyCalibration(value)
  BY <1>7, ApplyCalibrationInvariant
<1>8. CASE UNCHANGED vars
  <2>1. UNCHANGED <<tables, tx>> /\ clock' \in Int
    BY <1>8 DEF vars, tables, IInv, TypeOK
  <2> QED BY <2>1, TablesUnchanged DEF IInv, TypeOK, SoundTransaction, tables
<1> QED BY <1>1, <1>2, <1>3, <1>4, <1>5, <1>6, <1>7, <1>8 DEF Next
-----------------------------------------------------------------------------
(* The theorems. *)

\* Every reachable state satisfies the inductive invariant.
THEOREM Invariant == Spec => []IInv
BY InitInvariant, NextInvariant, PTL DEF Spec

\* Every table always has the type of its columns.
THEOREM TypeCorrect == Spec => []TypeOK
<1>1. IInv => TypeOK
  BY DEF IInv
<1> QED BY <1>1, Invariant, PTL

\* The windows table never holds two current rows nor two rows of one start,
\* for any transcripts, resets, crashes and calibrations (persistence.rs,
\* window_replay.rs).
THEOREM OneCurrentWindowAlways == Spec => []OneCurrentWindow
<1>1. IInv => OneCurrentWindow
  BY DEF IInv
<1> QED BY <1>1, Invariant, PTL

\* For any transcripts, rebuilds and crashes: what is current ends in the
\* newest metered observation, which is stored and later than every manual
\* reset (rebuild_windows and reset_current_window).
THEOREM ResetsAlwaysHold == Spec => []ResetsHold
<1>1. IInv => ResetsHold
  BY DEF IInv
<1> QED BY <1>1, Invariant, PTL

\* No window ever ends before it starts, whatever moved its end.
THEOREM WindowsNeverInverted == Spec => []WindowsNotInverted
<1>1. IInv => WindowsNotInverted
  BY DEF IInv
<1> QED BY <1>1, Invariant, PTL

\* Under one weekly deadline no window ever meters more than the weekly usage.
THEOREM NeverOvermetered == Spec => []MeteredWithinWeeklyUse
<1>1. IInv => MeteredWithinWeeklyUse
  BY DEF IInv
<1> QED BY <1>1, Invariant, PTL

\* An approved calibration never changes a window that is already there.
THEOREM CalibrationForwardOnly == Spec => CalibrationAppliesForward
<1>1. IInv /\ [Next]_vars => [CalibrationKept]_vars
  <2> SUFFICES ASSUME IInv, Next PROVE CalibrationKept
    BY DEF CalibrationKept
  <2>1. CASE windows' = windows
    BY <2>1 DEF CalibrationKept, IInv, OneCurrentWindow
  <2>2. CASE CommitIngest
    <3>1. SoundReplay(tx.replay, windows, tx.stored) /\ ~tx.replay.clash
      BY <2>2 DEF CommitIngest, Replayed, IInv, SoundTransaction
    <3>2. windows' = FinalRows(tx.replay)
      BY <2>2 DEF CommitIngest
    <3> QED BY <3>1, <3>2, FinalRowsFacts DEF CalibrationKept
  <2>3. CASE \E now \in clock - LockWait .. clock : ManualReset(now)
    <3>0. PICK now \in clock - LockWait .. clock : ManualReset(now)
      BY <2>3
    <3>1. PICK w \in CurrentRows(windows) :
            windows' = (windows \ {w}) \cup
                         {[w EXCEPT !.end = Greatest(now, w.start),
                                    !.lifecycle = "archived"]}
      BY <3>0 DEF ManualReset
    <3>2. w \in windows /\ w \in WindowRows
      BY DEF IInv, TypeOK, CurrentRows
    <3> DEFINE v == [w EXCEPT !.end = Greatest(now, w.start),
                              !.lifecycle = "archived"]
    <3>3. v.start = w.start /\ v.calibration = w.calibration
      BY <3>2 DEF WindowRows
    <3>4. windows' = (windows \ {w}) \cup {v}
      BY <3>1
    <3> HIDE DEF v
    <3> QED BY <3>2, <3>3, <3>4 DEF CalibrationKept, IInv, OneCurrentWindow
  <2>4. \/ CommitIngest \/ windows' = windows
        \/ \E now \in clock - LockWait .. clock : ManualReset(now)
    BY DEF Next, Tick, BeginIngest, ReplayNext, AbortIngest, CrashInTransaction,
       ApplyCalibration, tables
  <2> QED BY <2>1, <2>2, <2>3, <2>4
<1> QED BY <1>1, Invariant, PTL DEF Spec, CalibrationAppliesForward
=============================================================================
