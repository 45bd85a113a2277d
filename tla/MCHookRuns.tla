----------------------------- MODULE MCHookRuns -----------------------------
(***************************************************************************)
(* Small instances of HookRuns.  Two sessions write a record each: what    *)
(* the first one reports crosses a milestone; what the second one reports  *)
(* crosses a higher one, and one of a next window that is not there any    *)
(* more when both are replayed.                                            *)
(***************************************************************************)
EXTENDS HookRuns

CONSTANTS p1, p2

Warning(window, milestone) == [window |-> window, milestone |-> milestone]

TwoSessions == [n \in Records |-> n]

Crossings ==
  [all \in SUBSET Records |->
     CASE all = {1} -> {Warning(1, 50)}
       [] all = {2} -> {Warning(1, 75), Warning(2, 50)}
       [] 2 \in all -> {Warning(1, 75)}
       [] OTHER     -> {}]

\* p1 was built from the previous release, p2 from this one.
OldAndNew == [p \in Processes |-> IF p = p1 THEN 11 ELSE 12]
SameBuild == [p \in Processes |-> 12]

EveryRun  == [p \in Processes |-> AllRuns]
HooksOnly == [p \in Processes |-> Hooks]
=============================================================================
