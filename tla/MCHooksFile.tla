----------------------------- MODULE MCHooksFile -----------------------------
(***************************************************************************)
(* Instances of HooksFile: two processes, codex-watch at two places, the   *)
(* file in every state of its life cycle.                                  *)
(***************************************************************************)
EXTENDS HooksFile, TLC

CONSTANTS p1, p2, here, there, lint, log, e1, e2

Two    == {p1, p2}
Places == {here, there}
Tools  == {lint, log}
Phases == {e1, e2}

Of(groups) == [hooks |-> [e \in Events |-> IF e = e1 THEN groups ELSE Absent]]
G(handlers) == [hooks |-> handlers]

\* No file, a broken one, no hooks, hooks of other tools, hooks of codex-watch
\* from two places in shared, own and opaque groups, entries of another shape.
Lives ==
  { Missing, Malformed, [hooks |-> Absent], [hooks |-> Odd],
    Of(<<G(<<lint, log>>)>>),
    Of(<<G(<<lint, here>>), G(Absent), G(<<there>>), G(<<log>>)>>),
    Of(<<G(<<>>), G(<<here>>), G(<<here>>)>>),
    Of(Odd) }

Saves == {Of(<<G(<<log>>)>>), Of(<<G(<<lint, log>>), G(<<here>>)>>), Malformed}

Symmetric == Permutations(Processes)
=============================================================================
