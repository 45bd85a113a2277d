-------------------------- MODULE MCAccountingEngine --------------------------
(***************************************************************************)
(* Instances of AccountingEngine: a local window of 5 units, calibration   *)
(* of 4 weekly points, thresholds at half and all of it.                   *)
(***************************************************************************)
EXTENDS AccountingEngine

Snapshot(id, time, used, reset) ==
  [id |-> id, time |-> time, five |-> None,
   weekly |-> [used |-> used, length |-> Week, reset |-> reset]]

\* Growth, a lower reading, two sessions at one instant, a window end met
\* exactly, a deadline that jitters or is missing, an early weekly reset.
InOrder == {Snapshot(1, 0, 1, 20), Snapshot(2, 1, 3, 21), Snapshot(3, 1, 2, 20),
            Snapshot(4, 3, 5, 20), Snapshot(5, 5, 6, 20), Snapshot(6, 6, 2, 30),
            Snapshot(7, 6, 4, 31), Snapshot(8, 9, 8, None), Snapshot(9, 10, 11, 30),
            Snapshot(10, 12, 3, 30)}

\* One weekly epoch, with readings that cross every threshold.
OneEpoch == {Snapshot(1, 0, 1, 20), Snapshot(2, 1, 3, 21), Snapshot(3, 1, 2, 20),
             Snapshot(4, 3, 7, 20), Snapshot(5, 4, 9, 20), Snapshot(6, 5, 10, 20)}

\* A record of the first epoch is written after the second one's window ended.
Superseded == {Snapshot(1, 0, 9, 10), Snapshot(2, 1, 1, 20), Snapshot(3, 7, 9, 10),
               Snapshot(4, 8, 3, 20)}

Caller(snapshots, batches, most) ==
  [snapshots |-> snapshots, batches |-> batches, calls |-> most]

\* Any part of the snapshots in one batch; single snapshots, over and over, and
\* all of them, in any order.
AtOnce(snapshots)   == Caller(snapshots, SUBSET snapshots, 1)
OneByOne(snapshots) == Caller(snapshots, {{x} : x \in snapshots} \cup {snapshots}, 5)

TwoCallers   == {AtOnce(InOrder), OneByOne(OneEpoch)}
LateReporter == {AtOnce(Superseded)}

SomeThresholds == {50, 100}
=============================================================================
