--------------------------- MODULE AccountingEngine ---------------------------
(***************************************************************************)
(* AccountingEngine of src/src/calculate.rs, the crate's in-memory meter:  *)
(* it is given snapshots one at a time, or a batch that it sorts, and      *)
(* keeps one local window.  The tracker's store meters by replaying all    *)
(* observations (WindowReplay); the two are separate code for one rule,    *)
(* and `replay` runs the store's rule beside the engine to compare them.   *)
(*                                                                         *)
(* A snapshot is an observation without a five-hour window.                *)
(***************************************************************************)
EXTENDS WindowReplay, Sequences

CONSTANTS
  Calibration,  \* config.calibration_weekly_points
  Callers       \* what a caller may do: the snapshots it has, the batches of
                \* them it may apply, and, a bound, how many it does

Has(caller) ==
  /\ caller.snapshots \subseteq Snapshots
  /\ \A x \in caller.snapshots : x.five = None
  /\ caller.batches \subseteq SUBSET caller.snapshots
  /\ caller.calls \in Nat

\* LocalWindow
LocalWindows == [start : Int, end : Int, latest : Snapshots, points : Nat,
                 milestone : Nat \cup {None}]

ASSUME EngineAssumption ==
  /\ None \notin LocalWindows \cup WindowRows
  /\ Calibration \in Nat \ {0}
  /\ \A caller \in Callers : Has(caller)

VARIABLES
  caller,
  window,   \* Option<LocalWindow>
  seen,     \* ids of the snapshots applied so far
  queue,    \* the rest of the sorted batch being applied
  emitted,  \* history: the milestones crossed in the current window, in order
  replay,   \* history: the store's replay of the snapshots, in the order applied
  calls

vars == <<caller, window, seen, queue, emitted, replay, calls>>

Init ==
  /\ caller \in Callers
  /\ window = None
  /\ seen = {}
  /\ queue = {}
  /\ emitted = <<>>
  /\ replay = EmptyReplay
  /\ calls = 0

\* apply_ordered; apply is a batch of one.
Call ==
  /\ queue = {}
  /\ calls < caller.calls
  /\ queue' \in caller.batches
  /\ calls' = calls + 1
  /\ UNCHANGED <<caller, window, seen, emitted, replay>>

\* Faulty variant: the window ends where it starts.
NewLocalWindowEmpty(x) ==
  [start |-> x.time, end |-> x.time, latest |-> x, points |-> 0, milestone |-> None]

NewLocalWindow(x) ==
  [start |-> x.time, end |-> x.time + LocalWindow, latest |-> x, points |-> 0, milestone |-> None]

\* Faulty variant: a milestone is emitted as long as the estimate lies above it.
NewestUnemittedRepeats(points, last) == Milestone(points, Calibration)

\* newest_unemitted_milestone
NewestUnemitted(points, last) ==
  LET percent == (100 * points) \div Calibration
      step == 100 + ((percent - 100) \div SuperStep) * SuperStep
      fresh == {m \in {t \in Thresholds : t * Calibration <= 100 * points}
                        \cup (IF step > 100 THEN {step} ELSE {}) :
                  last = None \/ m > last}
      highest == {m \in fresh : \A n \in fresh : n <= m}
  IN  IF highest = {} THEN None ELSE CHOOSE m \in highest : TRUE

Delta(x) == WeeklyDelta(window.latest.weekly.used, window.latest.weekly.reset,
                        x.weekly.used, x.weekly.reset)

\* Faulty variant: the window still lives at its end.
OpensLate(x) == window = None \/ x.time > window.end

Opens(x) == window = None \/ x.time >= window.end

Ignored(x) == Before(x, window.latest) \/ Delta(x) = None

Open(x) ==
  /\ window' = NewLocalWindow(x)
  /\ emitted' = <<>>

\* Faulty variant: the growth is measured from the start of the window every time.
MeterKeepsLatest(x) ==
  /\ window' = [window EXCEPT !.points = @ + Delta(x)]
  /\ UNCHANGED emitted

Meter(x) ==
  LET points == window.points + Delta(x)
      crossed == NewestUnemitted(points, window.milestone)
  IN  /\ window' = [window EXCEPT !.points = points, !.latest = x,
                                  !.milestone = IF crossed = None THEN @ ELSE crossed]
      /\ emitted' = IF crossed = None THEN emitted ELSE Append(emitted, crossed)

FirstOfQueue(x) == \A y \in queue \ {x} : Before(x, y)

\* apply, for the first snapshot of the sorted rest.
Apply ==
  \E x \in queue :
    /\ FirstOfQueue(x)
    /\ queue' = queue \ {x}
    /\ IF x.id \in seen
       THEN UNCHANGED <<window, seen, emitted, replay>>
       ELSE /\ seen' = seen \cup {x.id}
            /\ replay' = ReplayItem(replay, x, {}, Calibration)
            /\ IF Opens(x) THEN Open(x)
               ELSE IF Ignored(x) THEN UNCHANGED <<window, emitted>>
               ELSE Meter(x)
    /\ UNCHANGED <<caller, calls>>

Next == Call \/ Apply

Spec == Init /\ [][Next]_vars

-----------------------------------------------------------------------------

\* What is stored is of its type, and what was applied was the caller's.
TypeOK ==
  /\ window = None \/ /\ window.points \in Nat
                      /\ window.latest \in caller.snapshots
                      /\ window.end = window.start + LocalWindow
  /\ seen \subseteq {x.id : x \in caller.snapshots}
  /\ queue \subseteq caller.snapshots
  /\ calls \in 0..caller.calls

NeverMovesBack ==
  \A x, y \in caller.snapshots :
    Before(x, y) /\ x.weekly.reset # None /\ y.weekly.reset # None
      => y.weekly.reset >= x.weekly.reset - Jitter

(* One batch, applied in order, of snapshots whose deadlines never move    *)
(* back leaves the engine and the store's replay with the same window,     *)
(* points and newest milestone: two implementations of one rule agree.     *)
AgreesWithReplay ==
  calls <= 1 /\ NeverMovesBack =>
    /\ window = None <=> replay.current = None
    /\ window # None => /\ window.start = replay.current.start
                        /\ window.end = replay.current.end
                        /\ window.points = replay.current.points
                        /\ window.milestone = replay.current.milestone

OneWeeklyEpoch ==
  \A x, y \in caller.snapshots :
    x.id \in seen /\ y.id \in seen => /\ x.weekly.reset # None
                                      /\ y.weekly.reset # None
                                      /\ SameEpoch(x.weekly.reset, y.weekly.reset)

(* In whatever order and however often snapshots of one weekly epoch are   *)
(* applied, the window meters no more than the growth of the weekly        *)
(* percentage between its first and its last snapshot.                     *)
MeteredOnce ==
  window # None /\ OneWeeklyEpoch =>
    \E x \in caller.snapshots :
      /\ x.time = window.start
      /\ window.points <= window.latest.weekly.used - x.weekly.used

(* A milestone is emitted when it is crossed and never again in that       *)
(* window: every emission is above the ones before it.                     *)
MilestonesIncrease ==
  \A i, j \in DOMAIN emitted : i < j => emitted[i] < emitted[j]

(* A snapshot of a weekly epoch older than one that was metered does not   *)
(* become the base of the meter.                                           *)
OldEpochIgnored ==
  /\ window # None
  /\ window.latest.weekly.reset # None
  /\ replay.previous.weekly.reset # None
  => window.latest.weekly.reset >= replay.previous.weekly.reset - Jitter
=============================================================================
