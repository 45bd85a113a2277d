--------------------------- MODULE ResetClassifier ---------------------------
(***************************************************************************)
(* The pure decisions of src/src/reset.rs, and weekly_transition of        *)
(* src/src/calculate.rs: given two usage observations in order, did a      *)
(* quota epoch change between them, was the change the natural one, where  *)
(* does the local window boundary lie, and how many weekly points does the *)
(* step add.                                                               *)
(*                                                                         *)
(* An observation is [id, time, five, weekly]; five and weekly are the     *)
(* server's two quota windows, [used, length, reset], or None when the     *)
(* record did not carry one.  A reset timestamp may be None too.  Instants *)
(* and durations are integers in one unit.                                 *)
(***************************************************************************)
EXTENDS Integers

CONSTANTS
  Jitter,     \* RESET_TIMESTAMP_JITTER: 60 seconds in the program
  FiveHours,  \* length of the short quota window, 300 minutes
  Week,       \* length of the long quota window, 10080 minutes
  None        \* Option::None

ASSUME ClassifierAssumption ==
  /\ Jitter \in Nat
  /\ FiveHours \in Nat \ {0}
  /\ Week \in Nat \ {0}
  /\ None \notin Int

QuotaWindows == [used : Nat, length : Nat, reset : Int \cup {None}]

Observations == [id     : Int,
                 time   : Int,
                 five   : QuotaWindows \cup {None},
                 weekly : QuotaWindows \cup {None}]

Least(a, b)    == IF a <= b THEN a ELSE b
Greatest(a, b) == IF a >= b THEN a ELSE b

\* The order in which observations are replayed: time, then source position.
Before(x, y) == x.time < y.time \/ (x.time = y.time /\ x.id < y.id)

WithinJitter(a, b) == a - b <= Jitter /\ b - a <= Jitter

SameEpoch(left, right) ==
  \/ left = None /\ right = None
  \/ left # None /\ right # None /\ WithinJitter(left, right)

\* inferred_epoch_start: the server advertises only the end of an epoch.
EpochStart(window) ==
  IF window = None \/ window.reset = None THEN None
  ELSE window.reset - window.length

CompareWindow(previous, current, length) ==
  IF previous = None \/ current = None THEN "missing"
  ELSE IF \/ previous.length # length
          \/ current.length # length
          \/ previous.reset = None
          \/ current.reset = None
       THEN "invalid"
  ELSE IF current.reset - previous.reset < -Jitter THEN "old"
  ELSE IF WithinJitter(current.reset, previous.reset) THEN "same"
  ELSE "changed"

\* change_is_natural: the new epoch began no earlier than the old deadline.
ChangeIsNatural(previous, start, observedAt) ==
  /\ previous # None
  /\ previous.reset # None
  /\ (IF start = None THEN observedAt ELSE start) + Jitter >= previous.reset

ClampBoundary(boundary, earliest, latest) ==
  IF boundary = None THEN None ELSE Least(Greatest(boundary, earliest), latest)

Classes == {"no_reset", "natural_five_hour", "natural_weekly",
            "inferred_full", "ambiguous", "old_epoch"}

\* The class of the step and the raw boundary the class is entitled to.
ClassOf(five, weekly, fiveStart, weeklyStart, fiveNatural, weeklyNatural) ==
  IF five = "old" \/ weekly = "old" THEN <<"old_epoch", None>>
  ELSE IF five = "invalid" \/ weekly = "invalid" THEN <<"ambiguous", None>>
  ELSE IF five # "changed" /\ weekly # "changed" THEN <<"no_reset", None>>
  ELSE IF five = "changed" /\ weekly = "changed" THEN
         IF /\ ~fiveNatural /\ ~weeklyNatural
            /\ WithinJitter(fiveStart, weeklyStart)
         THEN <<"inferred_full", fiveStart>>
         ELSE <<IF fiveNatural THEN "natural_five_hour" ELSE "ambiguous",
                fiveStart>>
  ELSE IF five = "changed" THEN
         <<IF fiveNatural THEN "natural_five_hour" ELSE "ambiguous", fiveStart>>
  ELSE <<IF weeklyNatural THEN "natural_weekly" ELSE "ambiguous", weeklyStart>>

ClassifyReset(previous, current) ==
  LET five   == CompareWindow(previous.five, current.five, FiveHours)
      weekly == CompareWindow(previous.weekly, current.weekly, Week)
      fiveStart   == IF five = "changed" THEN EpochStart(current.five) ELSE None
      weeklyStart == IF weekly = "changed" THEN EpochStart(current.weekly)
                     ELSE None
      class == ClassOf(five, weekly, fiveStart, weeklyStart,
                 ChangeIsNatural(previous.five, fiveStart, current.time),
                 ChangeIsNatural(previous.weekly, weeklyStart, current.time))
  IN  [class    |-> class[1],
       boundary |-> ClampBoundary(class[2], previous.time, current.time)]

\* Faulty variants of the next definition, which the properties must catch:
\* a lower reading of the same epoch taken for a reset, or subtracted.
WeeklyDeltaCountsRegression(previousUsed, previousReset, nextUsed, nextReset) ==
  IF nextUsed < previousUsed THEN nextUsed ELSE nextUsed - previousUsed

WeeklyDeltaSubtracts(previousUsed, previousReset, nextUsed, nextReset) ==
  nextUsed - previousUsed

(***************************************************************************)
(* weekly_transition: the weekly points a step adds, None when the reading *)
(* is an older or lower one of the same epoch and must be ignored.  Its    *)
(* Advance and Reset outcomes are the same to every caller.                *)
(***************************************************************************)
WeeklyDelta(previousUsed, previousReset, nextUsed, nextReset) ==
  IF previousReset # None /\ nextReset # None
  THEN IF nextReset - previousReset > Jitter THEN nextUsed
       ELSE IF \/ nextReset - previousReset < -Jitter
               \/ nextUsed < previousUsed
            THEN None
       ELSE nextUsed - previousUsed
  ELSE IF nextUsed < previousUsed THEN nextUsed
  ELSE nextUsed - previousUsed
=============================================================================
