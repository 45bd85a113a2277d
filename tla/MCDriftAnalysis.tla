--------------------------- MODULE MCDriftAnalysis ---------------------------
(***************************************************************************)
(* Instances of DriftAnalysis: two five-hour windows and an observation of *)
(* a second identity, or three windows, the last of which grows.           *)
(***************************************************************************)
EXTENDS DriftAnalysis, TLC

CONSTANTS p1, p2, own, other

One == {p1}
Two == {p1, p2}
Own == {own, other}
Interchangeable == Permutations(Processes)
TwoHooks == [p \in Two |-> {"hook"}]
User        == [p \in One |-> {"analysis"}]

Openings == {x \in Universe : x.id \in {1, 3}}
Nothing  == {}

Item(i, at, five, deadline, weekly) ==
  [id |-> i, time |-> at, identity |-> own,
   five |-> [used |-> five, length |-> 5, reset |-> deadline],
   weekly |-> [used |-> weekly, length |-> 168, reset |-> 168]]

Stranger(i, at) ==
  [id |-> i, time |-> at, identity |-> other, five |-> None,
   weekly |-> [used |-> 1, length |-> 168, reset |-> 168]]

\* 20 weekly points, 25, and 20 that grow to 25.
Growing == { Item(1, 0, 0, 50, 0), Item(2, 10, 50, 50, 10),
             Item(3, 60, 0, 110, 10), Item(4, 70, 52, 110, 23),
             Item(6, 120, 0, 170, 30), Item(7, 130, 50, 170, 40),
             Item(8, 140, 80, 170, 50) }

\* Windows of 20 and 25 points whose deadlines jitter.
Jittery == { Item(1, 0, 0, 50, 0), Item(2, 10, 50, 51, 10),
             Item(3, 60, 0, 110, 10), Stranger(5, 75), Item(6, 80, 80, 111, 30) }
=============================================================================
