------------------------- MODULE MCCalibrationProfiles -------------------------
(***************************************************************************)
(* Small instances of CalibrationProfiles: an old and a new model, each    *)
(* with a session each, told apart by their records or by their heads.     *)
(***************************************************************************)
EXTENDS CalibrationProfiles, TLC

Says(version, model) == [version |-> version, model |-> model]
Silent == Says(Unknown, Unknown)

\* Whose records name the model; whose head does; whose records and head do.
Tagged(name, version, model) ==
  [name |-> name, plan |-> "plus", model |-> model, head |-> Silent,
   hook |-> Says(version, model)]
Headed(name, version, model) ==
  [Tagged(name, version, model) EXCEPT !.model = Unknown, !.head = Says(version, model)]
Versioned(name, version, model) ==
  [Tagged(name, version, model) EXCEPT !.head = Says(version, Unknown)]

TwoModels      == {Tagged("a", "1", "old"), Tagged("b", "2", "new")}
OneHeaded      == {Headed("a", "1", "old")}
NewIsVersioned == {Tagged("a", "1", "old"), Versioned("b", "2", "new")}

One  == [s \in Sessions |-> 1]
Two  == [s \in Sessions |-> 2]
OnlyB == [s \in Sessions |-> IF s.name = "b" THEN 2 ELSE 0]

Known    == [s \in Sessions |-> {TRUE}]
BMayVary == [s \in Sessions |-> IF s.name = "b" THEN BOOLEAN ELSE {TRUE}]

Interchangeable == Permutations(Processes)
=============================================================================
