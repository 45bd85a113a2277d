--------------------------- MODULE TranscriptIngest ---------------------------
(***************************************************************************)
(* How transcripts get into the database (src/src/persistence/transcripts, *)
(* src/src/ingest.rs): Codex appends lines, and may truncate or rewrite a  *)
(* file; readers each take the saved cursor of a file, check that what is  *)
(* before it is still what they knew, read what follows, and store it with *)
(* the new cursor.  Only that last step is a transaction.  A hook reads    *)
(* the transcript of its session; `refresh` (src/src/main.rs) the newest   *)
(* transcripts, newest first, until one fails; the history import          *)
(* (src/src/setup.rs) all of them in the order of their paths, passing     *)
(* over those that fail.                                                   *)
(*                                                                         *)
(* A line is a number that no other line has, which is also its timestamp. *)
(* Lengths and offsets count half lines: 2n lies after n whole lines,      *)
(* 2n + 1 inside the next one.  Every line is a record that parse_record   *)
(* accepts, unless it comes from beyond the tolerance.                     *)
(***************************************************************************)
EXTENDS Integers, Sequences

CONSTANTS
  Readers,     \* processes that run ingest_transcript
  None,
  Scenarios,   \* who reads what, and how Codex writes
  MaxFiles,    \* DiscoveryOptions.max_files of `refresh`
  Tolerance,   \* IngestOptions.future_tolerance, in lines
  MaxLines,    \* bound: lines ever written, in any scenario
  MaxAborts    \* bound: readers that die or fail

\* The transcripts are 1 .. files, in the order of their paths.
ASSUME TranscriptAssumption ==
  /\ \A s \in Scenarios :
       /\ s.manner \in {"steady", "quiet", "torn", "rewritten"}
       /\ s.files \in Nat
       /\ s.lines \in 0 .. MaxLines
       /\ s.broken \subseteq 1 .. s.files
       /\ s.role \in [Readers -> [kind : {"hook", "refresh", "import"},
                                   file : 1 .. s.files]]
  /\ MaxFiles \in Nat \ {0}
  /\ Tolerance \in Nat
  /\ MaxLines \in Nat
  /\ MaxAborts \in Nat
  /\ None \notin Int \X Int \X Int

VARIABLES
  scenario, \* [manner, files, lines, broken, role]: at most that many lines
            \* are written; the broken files cannot be opened
  file,     \* the lines of each transcript, the last one perhaps unfinished
  partial,  \* is the last line unfinished?
  lines,    \* lines written so far, the name of the newest, and Utc::now()
  stored,   \* rate_limit_observations: [file, generation, offset, line]
  cursor,   \* the transcript_cursors rows: [offset, marker, generation]
  pc,       \* where each reader is
  run,      \* its run: [now, todo], the files still to read, this one first
  local,    \* what it holds: [offset, generation, length, marker, batch]
  aborts

vars == <<scenario, file, partial, lines, stored, cursor, pc, run, local, aborts>>
transcripts == <<scenario, file, partial, lines>>

Files == 1 .. scenario.files
Length(f) == 2 * Len(file[f]) - (IF partial[f] THEN 1 ELSE 0)
Whole(f)  == Len(file[f]) - (IF partial[f] THEN 1 ELSE 0)

NoRun == [now |-> 0, todo |-> <<>>]
Blank == [offset |-> 0, generation |-> 0, length |-> 0, marker |-> None,
          batch |-> {}]

Init ==
  /\ scenario \in Scenarios
  /\ file = [f \in Files |-> <<>>]
  /\ partial = [f \in Files |-> FALSE]
  /\ lines = 0
  /\ stored = {}
  /\ cursor = [f \in Files |-> [offset |-> 0, marker |-> None, generation |-> 0]]
  /\ pc = [r \in Readers |-> "idle"]
  /\ run = [r \in Readers |-> NoRun]
  /\ local = [r \in Readers |-> Blank]
  /\ aborts = 0
-----------------------------------------------------------------------------
(* Codex.  A steady one only ever appends whole lines, at any moment.  A   *)
(* quiet one also writes lines in two pieces, truncates the file and       *)
(* starts it anew, but never while a reader is at work; a torn or a        *)
(* rewritten file sees one of these at any moment.                         *)

MayWrite == scenario.manner = "quiet" => \A r \in Readers : pc[r] = "idle"
MayTear  == scenario.manner \in {"quiet", "torn"}

\* A line, or its first piece, is appended.
CodexAppends(f) ==
  /\ MayWrite
  /\ ~partial[f]
  /\ lines < scenario.lines
  /\ lines' = lines + 1
  /\ file' = [file EXCEPT ![f] = Append(@, lines + 1)]
  /\ \E torn \in {FALSE, MayTear} : partial' = [partial EXCEPT ![f] = torn]
  /\ UNCHANGED <<scenario, stored, cursor, pc, run, local, aborts>>

FinishLine(f) ==
  /\ MayWrite
  /\ partial[f]
  /\ partial' = [partial EXCEPT ![f] = FALSE]
  /\ UNCHANGED <<scenario, file, lines, stored, cursor, pc, run, local, aborts>>

Truncate(f) ==
  /\ MayWrite
  /\ scenario.manner \in {"quiet", "rewritten"}
  /\ \E n \in 0 .. Len(file[f]) - 1 :
       file' = [file EXCEPT ![f] = SubSeq(@, 1, n)]
  /\ partial' = [partial EXCEPT ![f] = FALSE]
  /\ UNCHANGED <<scenario, lines, stored, cursor, pc, run, local, aborts>>
-----------------------------------------------------------------------------
(* The runs. *)

\* discover_recent_transcripts: newest modified first, ties by path.
Modified(f) == IF file[f] = <<>> THEN 0 ELSE file[f][Len(file[f])]

Newer(f, g) ==
  \/ Modified(f) > Modified(g)
  \/ Modified(f) = Modified(g) /\ f < g

Discovered ==
  LET found == 1 .. IF scenario.files < MaxFiles THEN scenario.files ELSE MaxFiles
  IN  {list \in [found -> Files] :
         /\ \A i, j \in found : i < j => Newer(list[i], list[j])
         /\ \A f \in Files, i \in found :
              Newer(f, list[i]) => \E j \in found : list[j] = f}

\* preview_history: every transcript, in the order of their paths.
Candidates == [f \in Files |-> f]

ToRead(role) ==
  CASE role.kind = "hook"    -> {<<role.file>>}
    [] role.kind = "refresh" -> Discovered
    [] role.kind = "import"  -> {Candidates}

\* now is read once, and what is to be read listed, before the first file.
StartRun(r) ==
  /\ pc[r] = "idle"
  /\ \E todo \in ToRead(scenario.role[r]) :
       run' = [run EXCEPT ![r] = [now |-> lines, todo |-> todo]]
  /\ pc' = [pc EXCEPT ![r] = "cursor"]
  /\ UNCHANGED <<transcripts, stored, cursor, local, aborts>>

File(r) == Head(run[r].todo)
Moves(r, from, to) == pc[r] = from /\ pc' = [pc EXCEPT ![r] = to]

\* The loop over the files of a run goes on with the next one.
NextFile(r) ==
  /\ local' = [local EXCEPT ![r] = Blank]
  /\ IF Len(run[r].todo) = 1
     THEN run' = [run EXCEPT ![r] = NoRun] /\ pc' = [pc EXCEPT ![r] = "idle"]
     ELSE /\ run' = [run EXCEPT ![r].todo = Tail(@)]
          /\ pc' = [pc EXCEPT ![r] = "cursor"]

EndRun(r) ==
  /\ local' = [local EXCEPT ![r] = Blank]
  /\ run' = [run EXCEPT ![r] = NoRun]
  /\ pc' = [pc EXCEPT ![r] = "idle"]

\* Faulty variant: the import stops at the first file that fails.
FileFailsEnds(r) == EndRun(r)

\* ingest_transcript returned an error.
FileFails(r) ==
  IF scenario.role[r].kind = "import" THEN NextFile(r) ELSE EndRun(r)
-----------------------------------------------------------------------------
(* Reading one file of a run. *)

\* transcript_continuity_marker samples the first and the last bytes before
\* the offset, shorter than a line; there is none for an offset beyond the end.
Marker(f, offset) ==
  IF offset > Length(f) THEN None
  ELSE IF offset = 0 THEN <<0, 0, 0>>
  ELSE <<offset, file[f][1], file[f][(offset + 1) \div 2]>>

\* transcript_cursor_state, outside any transaction.
TakeCursor(r) ==
  LET saved == cursor[File(r)]
  IN  /\ Moves(r, "cursor", "check")
      /\ local' = [local EXCEPT ![r].offset     = saved.offset,
                                ![r].marker     = saved.marker,
                                ![r].generation = saved.generation]
      /\ UNCHANGED <<transcripts, stored, cursor, run, aborts>>

SameFile(r) ==
  \/ local[r].offset = 0
  \/ local[r].marker = None
  \/ local[r].marker = Marker(File(r), local[r].offset)

\* Faulty variant: a rewritten file is read again in the same generation.
CheckMarkerKeepsGeneration(r) ==
  /\ Moves(r, "check", "open")
  /\ local' = IF SameFile(r) THEN local ELSE [local EXCEPT ![r].offset = 0]
  /\ UNCHANGED <<transcripts, stored, cursor, run, aborts>>

\* A saved marker that no longer matches starts a new generation at offset 0.
CheckMarker(r) ==
  /\ Moves(r, "check", "open")
  /\ local' = IF SameFile(r) THEN local
              ELSE [local EXCEPT ![r].offset = 0,
                                 ![r].generation = @ + 1]
  /\ UNCHANGED <<transcripts, stored, cursor, run, aborts>>

\* The length of the file is noted when it is opened; a cursor beyond it
\* restarts at zero, in the same generation.
OpenFile(r) ==
  /\ Moves(r, "open", "read")
  /\ File(r) \notin scenario.broken
  /\ local' = [local EXCEPT ![r].length = Length(File(r)),
                            ![r].offset = IF @ > Length(File(r)) THEN 0 ELSE @]
  /\ UNCHANGED <<transcripts, stored, cursor, run, aborts>>

OpenFails(r) ==
  /\ pc[r] = "open"
  /\ File(r) \in scenario.broken
  /\ FileFails(r)
  /\ UNCHANGED <<transcripts, stored, cursor, aborts>>

\* Where a read from start ends, and the lines it yields.  An unparseable last
\* piece is deferred when it ends where the file ended at opening time, and
\* skipped otherwise; so is the rest of a line that start lies inside of.
Deferred(f, start, length) ==
  start % 2 = 1 /\ start + 1 <= 2 * Whole(f) /\ start + 1 = length

\* Faulty variants: the end of a line taken for its offset; no deferring.
ReadLinesByEnd(f, start, length) ==
  {[offset |-> 2 * j, line |-> file[f][j]] :
     j \in {i \in 1 .. Whole(f) : 2 * (i - 1) >= start /\ ~Deferred(f, start, length)}}

ReadEndSkips(f, start, length) ==
  IF start >= Length(f) \/ Deferred(f, start, length) THEN start ELSE Length(f)

ReadLines(f, start, length) ==
  {[offset |-> 2 * (j - 1), line |-> file[f][j]] :
     j \in {i \in 1 .. Whole(f) : 2 * (i - 1) >= start /\ ~Deferred(f, start, length)}}

ReadEnd(f, start, length) ==
  IF start >= Length(f) \/ Deferred(f, start, length) THEN start
  ELSE IF partial[f] /\ Length(f) = length THEN 2 * Whole(f)
  ELSE Length(f)

\* A line from beyond the tolerance gives a diagnostic and no observation.
ReadSuffix(r) ==
  LET mine == local[r]
      read == ReadLines(File(r), mine.offset, mine.length)
  IN  /\ Moves(r, "read", "mark")
      /\ local' = [local EXCEPT
                    ![r].batch  = {b \in read : b.line <= run[r].now + Tolerance},
                    ![r].offset = ReadEnd(File(r), mine.offset, mine.length)]
      /\ UNCHANGED <<transcripts, stored, cursor, run, aborts>>

\* The marker of the new cursor is sampled by opening the path once more.
TakeMarker(r) ==
  /\ Moves(r, "mark", "commit")
  /\ local' = [local EXCEPT ![r].marker = Marker(File(r), local[r].offset)]
  /\ UNCHANGED <<transcripts, stored, cursor, run, aborts>>

\* INSERT OR IGNORE by (source_file with its generation, byte_offset).
New(f, mine) ==
  {row \in {[file |-> f, generation |-> mine.generation,
             offset |-> b.offset, line |-> b.line] : b \in mine.batch} :
     ~\E old \in stored : /\ old.file = f
                          /\ old.generation = row.generation
                          /\ old.offset = row.offset}

\* Faulty variant: the cursor is set to the end of the file as it is by now.
CommitSavesLength(r) ==
  LET f == File(r)
  IN  /\ pc[r] = "commit"
      /\ stored' = stored \cup New(f, local[r])
      /\ cursor' = [cursor EXCEPT ![f] = [offset     |-> Length(f),
                                          marker     |-> Marker(f, Length(f)),
                                          generation |-> local[r].generation]]
      /\ NextFile(r)
      /\ UNCHANGED <<transcripts, aborts>>

\* The one transaction: observations, and the cursor whatever it is by now.
Commit(r) ==
  LET f == File(r)
  IN  /\ pc[r] = "commit"
      /\ stored' = stored \cup New(f, local[r])
      /\ cursor' = [cursor EXCEPT ![f] = [offset     |-> local[r].offset,
                                          marker     |-> local[r].marker,
                                          generation |-> local[r].generation]]
      /\ NextFile(r)
      /\ UNCHANGED <<transcripts, aborts>>

\* The reader dies, or cannot finish this file, before it commits.
Abort(r) ==
  /\ aborts < MaxAborts
  /\ pc[r] # "idle"
  /\ EndRun(r) \/ FileFails(r)
  /\ aborts' = aborts + 1
  /\ UNCHANGED <<transcripts, stored, cursor>>

GoesOn(r) ==
  \/ TakeCursor(r)
  \/ CheckMarker(r)
  \/ OpenFile(r)
  \/ OpenFails(r)
  \/ ReadSuffix(r)
  \/ TakeMarker(r)
  \/ Commit(r)

Next ==
  \/ \E f \in Files : CodexAppends(f) \/ FinishLine(f) \/ Truncate(f)
  \/ \E r \in Readers : StartRun(r) \/ GoesOn(r) \/ Abort(r)

\* A process that runs is scheduled, and the hooks of a session keep firing;
\* nobody has to refresh or import.
IsHook(r) == scenario.role[r].kind = "hook"

Fairness ==
  \A r \in Readers : WF_vars(GoesOn(r)) /\ WF_vars(IsHook(r) /\ StartRun(r))

Spec == Init /\ [][Next]_vars /\ Fairness
-----------------------------------------------------------------------------
Offsets == 0 .. 2 * MaxLines
Starts  == {2 * n : n \in 0 .. MaxLines - 1}
Names   == 1 .. MaxLines
Markers == Offsets \X (0 .. MaxLines) \X (0 .. MaxLines)
Steps   == {"idle", "cursor", "check", "open", "read", "mark", "commit"}
Rows    == [file : Files, generation : Nat, offset : Starts, line : Names]
Cursors == [offset : Offsets, marker : Markers \cup {None}, generation : Nat]
Works   == [now : 0 .. lines, todo : Seq(Files)]
Locals  == [offset : Offsets, generation : Nat, length : Offsets,
            marker : Markers \cup {None},
            batch : SUBSET [offset : Starts, line : Names]]

\* Every variable has its type; the keys of the stored rows are line starts.
TypeOK ==
  /\ scenario \in Scenarios
  /\ file \in [Files -> Seq(Names)]
  /\ \A f \in Files : Len(file[f]) <= lines
  /\ partial \in [Files -> BOOLEAN]
  /\ lines \in 0 .. MaxLines
  /\ stored \subseteq Rows
  /\ cursor \in [Files -> Cursors]
  /\ pc \in [Readers -> Steps]
  /\ run \in [Readers -> Works]
  /\ local \in [Readers -> Locals]
  /\ aborts \in 0 .. MaxAborts

IsStored(line) == \E row \in stored : row.line = line

\* Would the next reader go on where the cursor is?
Resumes(f) ==
  /\ cursor[f].offset \in 1 .. Length(f)
  /\ cursor[f].marker \in {None, Marker(f, cursor[f].offset)}

\* What lies behind a cursor that will be resumed from has been stored: no
\* interleaving of readers and of the writer makes a line fall between two
\* reads.  tests/ingestion.rs:153: an unfinished final line is deferred and
\* nothing is lost.
BehindCursorStored ==
  \A f \in Files : Resumes(f) =>
    \A j \in 1 .. Whole(f) : 2 * j <= cursor[f].offset => IsStored(file[f][j])

\* src/ingest.rs:100: starting again at zero is safe, for the keys of what is
\* stored make it idempotent: a line that is read and committed is stored, and
\* not taken for the one that used to be at its offset.
BatchStored ==
  [][\A r \in Readers :
       pc[r] = "commit" /\ pc'[r] # "commit" /\ aborts' = aborts =>
         \A b \in local[r].batch : \E row \in stored' : row.line = b.line]_vars

\* When an import ends that nothing killed, every line that was complete when
\* it began is stored: a file that cannot be opened costs no other file
\* anything, nor does a hook that reads at the same time and puts an older
\* cursor back.
Ends(r, kind) == scenario.role[r].kind = kind /\ pc[r] # "idle" /\ pc'[r] = "idle"

AllRead(r) ==
  \A f \in Files \ scenario.broken : \A j \in 1 .. Whole(f) :
    file[f][j] <= run[r].now => \E row \in stored' : row.line = file[f][j]

ImportComplete ==
  [][\A r \in Readers : Ends(r, "import") /\ aborts' = 0 => AllRead(r)]_vars

\* README.md:60: `refresh` looks for newer usage data; a transcript it cannot
\* open would hide none of the others.
RefreshComplete ==
  [][\A r \in Readers : Ends(r, "refresh") /\ aborts' = 0 => AllRead(r)]_vars

\* However readers overtake each other and fail, every line that stays in a
\* file whose session goes on gets stored.
InFile(n) ==
  \E r \in Readers :
    /\ IsHook(r)
    /\ LET f == scenario.role[r].file
       IN  f \notin scenario.broken /\ \E j \in 1 .. Whole(f) : file[f][j] = n

EverythingStored ==
  \A n \in Names : InFile(n) ~> (IsStored(n) \/ ~InFile(n))
=============================================================================
