--------------------------- MODULE MCWindowHistory ---------------------------
(***************************************************************************)
(* The universes in which the histories of WindowHistory are looked for.   *)
(* One unit of time stands for half an hour or so, as in MCWindowStore.    *)
(***************************************************************************)
EXTENDS WindowHistory

VARIABLE meteredAtReset  \* history: the ids metered when some reset was made

Resets == \E now \in clock - LockWait .. clock : ManualReset(now)

HistoryInit == Init /\ meteredAtReset = {}

HistoryNext ==
  /\ Next
  /\ meteredAtReset' = IF Resets THEN meteredAtReset \cup metered
                       ELSE meteredAtReset

HistorySpec == HistoryInit /\ [][HistoryNext]_<<vars, meteredAtReset>>

\* src/main.rs:180: after `codex-watch reset` the next observation starts a
\* new window, so a current window that reaches back to two observations that
\* were metered when the reset was made does not meter their growth again.
ResetForgetsEarlierUsage ==
  OneDeadline(stored) =>
    \A w \in CurrentRows(windows), p, o \in stored :
      /\ {p.id, o.id} \subseteq meteredAtReset
      /\ Before(p, o)
      /\ w.start <= p.time
      => w.points <= w.used - o.weekly.used

Short(used, reset) == [used |-> used, length |-> FiveHours, reset |-> reset]
Long(used)         == [used |-> used, length |-> Week, reset |-> 30]

Record(id, time, five, weekly) ==
  [id |-> id, time |-> time, five |-> five, weekly |-> weekly]

\* The deadline of the short window goes missing for one record.
DeadlineGoesMissing ==
  {Record(1, 1, Short(3, 6), Long(2)),
   Record(2, 2, Short(3, None), Long(3)),
   Record(3, 4, Short(5, 6), Long(4))}

\* A session still on the old epoch writes after the new epoch began.
EarlyChangeSeenLate ==
  {Record(1, 1, Short(2, 6), Long(2)),
   Record(2, 5, Short(3, 6), Long(3)),
   Record(3, 6, Short(1, 10), Long(4))}

\* Weekly-only records, then the pair that realigns them.
PairedLater ==
  {Record(1, 2, None, Long(2)),
   Record(2, 3, None, Long(3)),
   Record(3, 5, Short(4, 7), Long(4))}

\* The epoch is known, then unknown, then a superseded one is reported.
GapThenOldEpoch ==
  {Record(1, 3, Short(1, 9), Long(2)),
   Record(2, 5, None, Long(3)),
   Record(3, 6, Short(4, 3), Long(4))}

\* Usage was seen once, then not for longer than a local window.
IdleSession ==
  {Record(1, 1, None, Long(2)),
   Record(2, 2, None, Long(3))}

SomeThresholds == {50, 100}
=============================================================================
