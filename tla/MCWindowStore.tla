---------------------------- MODULE MCWindowStore ----------------------------
(***************************************************************************)
(* Small instances of WindowStore.  One unit of time stands for half an    *)
(* hour or so: a five-hour epoch is 6 units, a week 20, the jitter 1.      *)
(***************************************************************************)
EXTENDS WindowStore

Short(used, reset) == [used |-> used, length |-> FiveHours, reset |-> reset]
Long(used, reset)  == [used |-> used, length |-> Week, reset |-> reset]

Record(id, time, five, weekly) ==
  [id |-> id, time |-> time, five |-> five, weekly |-> weekly]

\* Both epochs restart early, a five-hour deadline goes missing and comes back,
\* a weekly reading is lower than the last, the weekly epoch rolls over.
TwoWeeks ==
  {Record(1, 1, Short(3, 6),    Long(4, 20)),
   Record(2, 3, Short(1, 10),   Long(1, 23)),
   Record(3, 4, Short(2, None), Long(1, 23)),
   Record(4, 5, Short(2, 10),   Long(2, 23)),
   Record(5, 6, Short(3, 10),   Long(1, 23)),
   Record(6, 7, Short(1, 13),   Long(0, 43))}

SomeThresholds == {50, 100}
=============================================================================
