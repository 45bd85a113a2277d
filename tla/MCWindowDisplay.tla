--------------------------- MODULE MCWindowDisplay ---------------------------
(***************************************************************************)
(* Epochs that end at their deadlines, in records that hold the two        *)
(* windows in either slot or make no sense.                                *)
(***************************************************************************)
EXTENDS WindowDisplay

Short(used, reset) == [used |-> used, length |-> FiveHours, reset |-> reset]
Long(used)         == [used |-> used, length |-> Week, reset |-> 30]
Malformed          == [used |-> 0, length |-> None, reset |-> None]

Record(id, time, primary, secondary) ==
  [id |-> id, time |-> time, limits |-> "object",
   primary |-> primary, secondary |-> secondary]

\* Two epochs, the second over at 12; a weekly window beside a slot that makes
\* no sense, and two weekly windows in one record, of which the second counts
\* and may be lower than what was metered.
SomeRecords ==
  {Record(1, 4,  Short(2, 5), Long(3)),
   Record(2, 8,  Short(1, 12), Long(6)),
   Record(3, 10, Long(7), Malformed),
   Record(4, 11, Long(8), Long(5))}

\* The server's percentage once, then the weekly window alone.
ServerOnce ==
  {Record(1, 8,  Short(1, 13), Long(2)),
   Record(2, 10, Long(3), None)}

SomeThresholds == {50, 100}

\* What the proof about incremental ingestion supposes is so of these records.
ASSUME RecordsRegular == Regular
=============================================================================
