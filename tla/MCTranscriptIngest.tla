-------------------------- MODULE MCTranscriptIngest --------------------------
(***************************************************************************)
(* The scenarios in which transcripts are written and read.                *)
(***************************************************************************)
EXTENDS TranscriptIngest

CONSTANTS r1, r2

Hook(f) == [kind |-> "hook", file |-> f]
Refresh == [kind |-> "refresh", file |-> 1]
Import  == [kind |-> "import", file |-> 1]

Scenario(manner, files, count, broken, first, second) ==
  [manner |-> manner, files |-> files, lines |-> count, broken |-> broken,
   role |-> [r \in Readers |-> IF r = r1 THEN first ELSE second]]

\* Two hooks of one session; a hook beside an import that meets a broken file,
\* and beside a refresh.
Shared ==
  {Scenario("steady", 1, 3, {}, Hook(1), Hook(1)),
   Scenario("quiet",  1, 3, {}, Hook(1), Hook(1)),
   Scenario("steady", 2, 2, {1}, Hook(2), Import),
   Scenario("steady", 2, 2, {}, Hook(1), Refresh)}

Torn      == {Scenario("torn", 1, 2, {}, Hook(1), Hook(1))}
Rewritten == {Scenario("rewritten", 1, 2, {}, Hook(1), Hook(1))}
Slow      == {Scenario("steady", 1, 2, {}, Import, Import)}
Starved   == {Scenario("steady", 2, 2, {2}, Refresh, Refresh)}
=============================================================================
