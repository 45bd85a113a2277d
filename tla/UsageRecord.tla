----------------------------- MODULE UsageRecord -----------------------------
(***************************************************************************)
(* What parse_record and parse_window of src/src/ingest.rs make of one     *)
(* token_count record: an observation, perhaps a weekly snapshot, and      *)
(* diagnostics.                                                            *)
(*                                                                         *)
(* A record is [id, time, limits, primary, secondary].  time is None when  *)
(* the timestamp (or the line) cannot be parsed.  limits says whether      *)
(* rate_limits is an object, something else, or absent.  A slot is a quota *)
(* window, or None when it is absent or null; the length None stands for   *)
(* any field of it that parse_window refuses.                              *)
(***************************************************************************)
EXTENDS ResetClassifier

CONSTANT FutureTolerance  \* IngestOptions.future_tolerance

ASSUME RecordAssumption == FutureTolerance \in Nat

Slots == [used : Nat, length : Nat \cup {None}, reset : Int \cup {None}]
           \cup {None}

UsageRecords == [id        : Int,
                 time      : Int \cup {None},
                 limits    : {"object", "other", "absent"},
                 primary   : Slots,
                 secondary : Slots]

Timely(record, now) ==
  record.time # None /\ record.time <= now + FutureTolerance

HasLength(slot, length) == slot # None /\ slot.length = length

\* Option::replace in the loop over the slots: the last window of a length.
WindowOf(record, length) ==
  IF HasLength(record.secondary, length) THEN record.secondary
  ELSE IF HasLength(record.primary, length) THEN record.primary
  ELSE None

Reading(record) == [id     |-> record.id,
                    time   |-> record.time,
                    five   |-> WindowOf(record, FiveHours),
                    weekly |-> WindowOf(record, Week)]

\* The records that give a snapshot, which the windows are replayed from.
Readings(records) ==
  {Reading(r) : r \in {s \in records : /\ s.time # None
                                       /\ s.limits = "object"
                                       /\ WindowOf(s, Week) # None}}

SlotFault(slot) ==
  IF slot = None \/ HasLength(slot, FiveHours) \/ HasLength(slot, Week) THEN {}
  ELSE {IF slot.length = None THEN "unsupported_window_shape"
        ELSE "unsupported_window_duration"}

Missing(record, length, code) ==
  IF WindowOf(record, length) = None THEN {code} ELSE {}

Twice(record, length, code) ==
  IF HasLength(record.primary, length) /\ HasLength(record.secondary, length)
  THEN {code} ELSE {}

\* The codes of the diagnostics stored for a record that is read at now.
Diagnostics(record, now) ==
  IF record.time = None THEN {"invalid_timestamp"}
  ELSE IF ~Timely(record, now) THEN {"future_timestamp"}
  ELSE IF record.limits = "absent" THEN {"missing_rate_limits"}
  ELSE IF record.limits = "other" THEN {"unsupported_rate_limits_type"}
  ELSE UNION {SlotFault(record.primary),
              SlotFault(record.secondary),
              Twice(record, FiveHours, "duplicate_five_hour_window"),
              Twice(record, Week, "duplicate_weekly_window"),
              Missing(record, FiveHours, "missing_five_hour_window"),
              Missing(record, Week, "missing_weekly_window")}
=============================================================================
