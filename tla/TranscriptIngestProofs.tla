------------------------ MODULE TranscriptIngestProofs ------------------------
(***************************************************************************)
(* Proofs about TranscriptIngest: its types however Codex writes, and,     *)
(* where it only appends whole lines, that overlapping readers lose        *)
(* nothing, for any number of readers, files and lines.                    *)
(***************************************************************************)
EXTENDS TranscriptIngest, SequenceTheorems, TLAPS

AtWork(r) == pc[r] # "idle"

\* A reader at work has a file to read; an unfinished line is a line.
Typed ==
  /\ TypeOK
  /\ \A r \in Readers : AtWork(r) => run[r].todo # <<>>
  /\ \A f \in Files : partial[f] => file[f] # <<>>

LEMMA ScenarioFacts ==
  ASSUME scenario \in Scenarios
  PROVE  /\ MaxLines \in Nat /\ Tolerance \in Nat /\ MaxAborts \in Nat
         /\ scenario.files \in Nat
         /\ scenario.lines \in 0 .. MaxLines
         /\ \A r \in Readers :
              /\ scenario.role[r].kind \in {"hook", "refresh", "import"}
              /\ scenario.role[r].file \in Files
BY TranscriptAssumption DEF Files

LEMMA LengthFacts ==
  ASSUME Typed, NEW f \in Files
  PROVE  /\ file[f] \in Seq(Names)
         /\ Len(file[f]) \in 0 .. MaxLines
         /\ Whole(f) \in 0 .. Len(file[f])
         /\ Length(f) \in 2 * Whole(f) .. 2 * Len(file[f])
         /\ Length(f) \in Offsets
         /\ 2 * Whole(f) \in Offsets
<1>1. /\ file[f] \in Seq(Names)
      /\ partial[f] \in BOOLEAN
      /\ Len(file[f]) <= lines /\ lines <= MaxLines
      /\ MaxLines \in Nat /\ lines \in Nat
  BY ScenarioFacts DEF Typed, TypeOK
<1>2. Len(file[f]) \in 0 .. MaxLines
  BY <1>1
<1>3. partial[f] => Len(file[f]) >= 1
  BY <1>1, EmptySeq DEF Typed
<1>4. CASE partial[f]
  <2>1. Whole(f) = Len(file[f]) - 1 /\ Length(f) = 2 * Len(file[f]) - 1
    BY <1>4 DEF Whole, Length
  <2> QED BY <1>1, <1>2, <1>3, <1>4, <2>1 DEF Offsets
<1>5. CASE ~partial[f]
  <2>1. Whole(f) = Len(file[f]) /\ Length(f) = 2 * Len(file[f])
    BY <1>1, <1>2, <1>5 DEF Whole, Length
  <2> QED BY <1>1, <1>2, <2>1 DEF Offsets
<1> QED BY <1>4, <1>5

LEMMA MarkerType ==
  ASSUME Typed, NEW f \in Files, NEW offset \in Offsets
  PROVE  Marker(f, offset) \in Markers \cup {None}
<1>1. MaxLines \in Nat
  BY ScenarioFacts DEF Typed, TypeOK
<1>2. CASE offset = 0
  BY <1>1, <1>2, LengthFacts DEF Marker, Markers, Offsets
<1>3. CASE offset # 0 /\ offset <= Length(f)
  <2>1. 1 \in 1 .. Len(file[f]) /\ (offset + 1) \div 2 \in 1 .. Len(file[f])
    BY <1>1, <1>3, LengthFacts DEF Offsets
  <2>2. \A i \in 1 .. Len(file[f]) : file[f][i] \in 0 .. MaxLines
    BY <1>1, LengthFacts, ElementOfSeq DEF Names
  <2> QED BY <1>3, <2>1, <2>2 DEF Marker, Markers
<1>4. CASE offset > Length(f)
  BY <1>4 DEF Marker
<1> QED BY <1>1, <1>2, <1>3, <1>4, LengthFacts DEF Offsets

LEMMA FileOf ==
  ASSUME Typed, NEW r \in Readers, AtWork(r)
  PROVE  /\ run[r].todo \in Seq(Files) /\ run[r].todo # <<>>
         /\ Len(run[r].todo) >= 1
         /\ File(r) \in Files
         /\ Tail(run[r].todo) \in Seq(Files)
<1>1. run[r].todo \in Seq(Files) /\ run[r].todo # <<>>
  BY DEF Typed, TypeOK, Works
<1> QED BY <1>1, HeadTailProperties, EmptySeq DEF File

LEMMA BlankType ==
  ASSUME scenario \in Scenarios, lines \in Nat
  PROVE  Blank \in Locals /\ NoRun \in Works
BY ScenarioFacts DEF Blank, Locals, NoRun, Works, Offsets

\* The part of the types that the end of a file, or of a run, touches.
RunsTyped ==
  /\ pc \in [Readers -> Steps]
  /\ run \in [Readers -> Works]
  /\ local \in [Readers -> Locals]
  /\ \A r \in Readers : AtWork(r) => run[r].todo # <<>>

LEMMA EndRunType ==
  ASSUME Typed, NEW r \in Readers, EndRun(r), UNCHANGED transcripts
  PROVE  RunsTyped'
<1>1. Blank \in Locals /\ NoRun \in Works
  BY BlankType, ScenarioFacts DEF Typed, TypeOK
<1>2. Works' = Works
  BY DEF transcripts, Works, Files
<1> QED BY <1>1, <1>2 DEF EndRun, RunsTyped, Typed, TypeOK, Steps, AtWork, Locals

LEMMA NextFileType ==
  ASSUME Typed, NEW r \in Readers, AtWork(r), NextFile(r), UNCHANGED transcripts
  PROVE  RunsTyped'
<1>1. Blank \in Locals /\ NoRun \in Works
  BY BlankType, ScenarioFacts DEF Typed, TypeOK
<1>2. Works' = Works
  BY DEF transcripts, Works, Files
<1>3. CASE Len(run[r].todo) = 1
  BY <1>1, <1>2, <1>3 DEF NextFile, RunsTyped, Typed, TypeOK, Steps, AtWork, Locals
<1>4. CASE Len(run[r].todo) # 1
  <2>1. /\ run[r].todo \in Seq(Files) /\ run[r].todo # <<>>
        /\ Tail(run[r].todo) \in Seq(Files)
        /\ Len(Tail(run[r].todo)) = Len(run[r].todo) - 1
        /\ Len(run[r].todo) >= 1
    BY FileOf, HeadTailProperties
  <2>2. Tail(run[r].todo) # <<>>
    <3>1. Len(Tail(run[r].todo)) # 0
      BY <1>4, <2>1, LenProperties
    <3> QED BY <3>1, EmptySeq
  <2>3. [run[r] EXCEPT !.todo = Tail(@)] \in Works
    BY <2>1 DEF Typed, TypeOK, Works
  <2>4. run' = [run EXCEPT ![r] = [run[r] EXCEPT !.todo = Tail(@)]]
    BY <1>4 DEF NextFile
  <2>5. run' \in [Readers -> Works] /\ run'[r].todo = Tail(run[r].todo)
    BY <2>3, <2>4 DEF Typed, TypeOK, Works
  <2>6. /\ pc' = [pc EXCEPT ![r] = "cursor"]
        /\ local' = [local EXCEPT ![r] = Blank]
    BY <1>4 DEF NextFile
  <2> QED BY <1>1, <1>2, <2>2, <2>4, <2>5, <2>6 DEF RunsTyped, Typed, TypeOK, Steps, AtWork, Locals
<1> QED BY <1>3, <1>4

LEMMA FileFailsType ==
  ASSUME Typed, NEW r \in Readers, AtWork(r), FileFails(r), UNCHANGED transcripts
  PROVE  RunsTyped'
BY EndRunType, NextFileType DEF FileFails

LEMMA ReadTypes ==
  ASSUME Typed, NEW f \in Files, NEW start \in Offsets, NEW length \in Offsets
  PROVE  /\ ReadEnd(f, start, length) \in Offsets
         /\ ReadLines(f, start, length) \subseteq [offset : Starts, line : Names]
<1>1. ReadEnd(f, start, length) \in Offsets
  BY LengthFacts DEF ReadEnd
<1>2. ASSUME NEW j \in 1 .. Whole(f)
      PROVE  [offset |-> 2 * (j - 1), line |-> file[f][j]] \in [offset : Starts, line : Names]
  <2>1. j \in 1 .. Len(file[f]) /\ j \in 1 .. MaxLines
    BY LengthFacts, ScenarioFacts DEF Typed, TypeOK
  <2>2. file[f][j] \in Names
    BY <2>1, LengthFacts, ElementOfSeq
  <2>3. MaxLines \in Nat /\ j - 1 \in 0 .. MaxLines - 1
    BY <2>1, ScenarioFacts DEF Typed, TypeOK
  <2>4. 2 * (j - 1) \in Starts
    BY <2>3 DEF Starts
  <2> QED BY <2>2, <2>4
<1>3. ASSUME NEW b \in ReadLines(f, start, length)
      PROVE  b \in [offset : Starts, line : Names]
  <2>1. PICK j \in 1 .. Whole(f) : b = [offset |-> 2 * (j - 1), line |-> file[f][j]]
    BY <1>3 DEF ReadLines
  <2> QED BY <1>2, <2>1
<1> QED BY <1>1, <1>3

LEMMA DiscoveredType ==
  ASSUME scenario \in Scenarios, scenario.files # 0, NEW list \in Discovered
  PROVE  list \in Seq(Files) /\ list # <<>>
<1> DEFINE n == IF scenario.files < MaxFiles THEN scenario.files ELSE MaxFiles
<1>1. n \in Nat \ {0}
  BY ScenarioFacts, TranscriptAssumption
<1>2. list \in [1 .. n -> Files]
  BY DEF Discovered
<1>3. list \in Seq(Files) /\ Len(list) = n
  BY <1>1, <1>2, LenProperties
<1> QED BY <1>1, <1>3, EmptySeq

LEMMA ToReadType ==
  ASSUME scenario \in Scenarios, NEW r \in Readers, NEW list \in ToRead(scenario.role[r])
  PROVE  list \in Seq(Files) /\ list # <<>>
<1>1. /\ scenario.files \in Nat \ {0}
      /\ scenario.role[r].file \in Files
      /\ scenario.role[r].kind \in {"hook", "refresh", "import"}
  BY ScenarioFacts DEF Files
<1>2. CASE scenario.role[r].kind = "hook"
  <2>1. list = <<scenario.role[r].file>>
    BY <1>2 DEF ToRead
  <2> QED BY <1>1, <2>1
<1>3. CASE scenario.role[r].kind = "refresh"
  <2>1. list \in Discovered
    BY <1>3 DEF ToRead
  <2> QED BY <1>1, <2>1, DiscoveredType
<1>4. CASE scenario.role[r].kind = "import"
  <2>1. list = Candidates
    BY <1>4 DEF ToRead
  <2>2. list \in [1 .. scenario.files -> Files]
    BY <2>1 DEF Candidates, Files
  <2>3. list \in Seq(Files) /\ Len(list) = scenario.files
    BY <1>1, <2>2, LenProperties
  <2> QED BY <1>1, <2>3, EmptySeq
<1> QED BY <1>1, <1>2, <1>3, <1>4

LEMMA TypedInit == Init => Typed
<1> SUFFICES ASSUME Init PROVE Typed
  OBVIOUS
<1>1. scenario \in Scenarios /\ lines = 0 /\ aborts = 0
  BY DEF Init
<1>2. Blank \in Locals /\ NoRun \in Works
  BY <1>1, BlankType
<1>3. \A f \in Files : file[f] = <<>> /\ Len(file[f]) = 0 /\ ~partial[f]
  BY EmptySeq DEF Init
<1>4. /\ file \in [Files -> Seq(Names)]
      /\ partial \in [Files -> BOOLEAN]
      /\ stored \subseteq Rows
  BY DEF Init
<1>5. cursor \in [Files -> Cursors]
  BY <1>1, ScenarioFacts DEF Init, Cursors, Offsets
<1>6. /\ pc \in [Readers -> Steps] /\ run \in [Readers -> Works]
      /\ local \in [Readers -> Locals]
  BY <1>2 DEF Init, Steps
<1>7. \A r \in Readers : ~AtWork(r)
  BY DEF Init, AtWork
<1> QED BY <1>1, <1>3, <1>4, <1>5, <1>6, <1>7, ScenarioFacts DEF Typed, TypeOK

\* Codex writes.
LEMMA WriterTyped ==
  ASSUME Typed, NEW f \in Files, CodexAppends(f) \/ FinishLine(f) \/ Truncate(f)
  PROVE  Typed'
<1>0. /\ file[f] \in Seq(Names) /\ Len(file[f]) \in Nat
      /\ Len(file[f]) <= lines /\ lines \in 0 .. MaxLines /\ MaxLines \in Nat
      /\ scenario.lines \in 0 .. MaxLines
  BY LengthFacts, ScenarioFacts DEF Typed, TypeOK
<1>1. /\ scenario' = scenario /\ Files' = Files /\ Rows' = Rows
      /\ UNCHANGED <<stored, cursor, pc, run, local, aborts>>
      /\ lines \in 0 .. lines' /\ lines' \in 0 .. MaxLines
  <2>1. /\ scenario' = scenario
        /\ UNCHANGED <<stored, cursor, pc, run, local, aborts>>
    BY DEF CodexAppends, FinishLine, Truncate
  <2>2. lines' = lines \/ (lines < scenario.lines /\ lines' = lines + 1)
    BY DEF CodexAppends, FinishLine, Truncate
  <2> QED BY <1>0, <2>1, <2>2 DEF Files, Rows
<1>2. /\ file' \in [Files -> Seq(Names)]
      /\ partial' \in [Files -> BOOLEAN]
      /\ \A g \in Files : Len(file'[g]) <= lines'
      /\ \A g \in Files : partial'[g] => file'[g] # <<>>
  <2>1. CASE CodexAppends(f)
    <3>1. lines + 1 \in Names /\ lines' = lines + 1
      BY <1>0, <2>1 DEF CodexAppends, Names
    <3>2. /\ Append(file[f], lines + 1) \in Seq(Names)
          /\ Len(Append(file[f], lines + 1)) = Len(file[f]) + 1
      BY <1>0, <3>1, AppendProperties
    <3>3. Append(file[f], lines + 1) # <<>>
      BY <1>0, <3>2, EmptySeq
    <3>4. /\ file' = [file EXCEPT ![f] = Append(@, lines + 1)]
          /\ \E torn \in BOOLEAN : partial' = [partial EXCEPT ![f] = torn]
      <4>1. MayTear \in BOOLEAN
        BY DEF MayTear
      <4>2. PICK torn \in {FALSE, MayTear} : partial' = [partial EXCEPT ![f] = torn]
        BY <2>1 DEF CodexAppends
      <4>3. torn \in BOOLEAN
        BY <4>1
      <4>4. file' = [file EXCEPT ![f] = Append(@, lines + 1)]
        BY <2>1 DEF CodexAppends
      <4> QED BY <4>2, <4>3, <4>4
    <3>5. \A g \in Files : Len(file[g]) \in Nat /\ Len(file[g]) <= lines
      BY LengthFacts DEF Typed, TypeOK
    <3> QED BY <1>0, <3>1, <3>2, <3>3, <3>4, <3>5 DEF Typed, TypeOK
  <2>2. CASE FinishLine(f)
    BY <2>2 DEF FinishLine, Typed, TypeOK
  <2>3. CASE Truncate(f)
    <3>1. PICK n \in 0 .. Len(file[f]) - 1 : file' = [file EXCEPT ![f] = SubSeq(@, 1, n)]
      BY <2>3 DEF Truncate
    <3>2. SubSeq(file[f], 1, n) \in Seq(Names) /\ Len(SubSeq(file[f], 1, n)) = n
      BY <1>0, SubSeqProperties
    <3>3. partial' = [partial EXCEPT ![f] = FALSE] /\ lines' = lines
      BY <2>3 DEF Truncate
    <3> QED BY <1>0, <3>1, <3>2, <3>3 DEF Typed, TypeOK
  <2> QED BY <2>1, <2>2, <2>3
<1>3. \A w \in Works : w \in Works'
  BY <1>0, <1>1 DEF Works
<1>4. run' \in [Readers -> Works']
  BY <1>1, <1>3 DEF Typed, TypeOK
<1> QED BY <1>1, <1>2, <1>4 DEF Typed, TypeOK, AtWork

\* A reader goes one step on in a file.
LEMMA ReaderTyped ==
  ASSUME Typed, NEW r \in Readers,
         \/ TakeCursor(r) \/ CheckMarker(r) \/ OpenFile(r) \/ ReadSuffix(r)
         \/ TakeMarker(r)
  PROVE  Typed'
<1>0. AtWork(r) /\ UNCHANGED <<transcripts, stored, cursor, run, aborts>>
  BY DEF TakeCursor, CheckMarker, OpenFile, ReadSuffix, TakeMarker, Moves, AtWork
<1>1. File(r) \in Files /\ local[r] \in Locals /\ cursor[File(r)] \in Cursors
  BY <1>0, FileOf DEF Typed, TypeOK
<1>2. pc' \in [Readers -> Steps] /\ \A q \in Readers : AtWork(q)' => AtWork(q)
  BY <1>0 DEF TakeCursor, CheckMarker, OpenFile, ReadSuffix, TakeMarker, Moves, AtWork,
              Steps, Typed, TypeOK
<1>3. 0 \in Offsets
  BY ScenarioFacts DEF Offsets, Typed, TypeOK
<1>4. local' \in [Readers -> Locals]
  <2>1. CASE TakeCursor(r)
    BY <1>1, <2>1 DEF TakeCursor, Locals, Cursors, Typed, TypeOK
  <2>2. CASE CheckMarker(r)
    <3> DEFINE next == local[r].generation + 1
    <3>1. next \in Nat
      BY <1>1 DEF Locals
    <3>2. [local[r] EXCEPT !.offset = 0, !.generation = next] \in Locals
      <4> HIDE DEF next
      <4> QED BY <1>1, <1>3, <3>1 DEF Locals
    <3> QED BY <2>2, <3>2 DEF CheckMarker, Typed, TypeOK
  <2>3. CASE OpenFile(r)
    <3>1. Length(File(r)) \in Offsets
      BY <1>1, LengthFacts
    <3> DEFINE start == IF local[r].offset > Length(File(r)) THEN 0 ELSE local[r].offset
    <3>2. start \in Offsets
      BY <1>1, <1>3 DEF Locals
    <3>3. [local[r] EXCEPT !.length = Length(File(r)), !.offset = start] \in Locals
      <4> HIDE DEF start
      <4> QED BY <1>1, <3>1, <3>2 DEF Locals
    <3>4. local' = [local EXCEPT
                     ![r] = [local[r] EXCEPT !.length = Length(File(r)), !.offset = start]]
      BY <1>1, <2>3 DEF OpenFile, Typed, TypeOK, Locals
    <3> QED BY <3>3, <3>4 DEF Typed, TypeOK
  <2>4. CASE ReadSuffix(r)
    <3> DEFINE read == ReadLines(File(r), local[r].offset, local[r].length)
               batch == {b \in read : b.line <= run[r].now + Tolerance}
    <3>1. local[r].offset \in Offsets /\ local[r].length \in Offsets
      BY <1>1 DEF Locals
    <3>2. /\ ReadEnd(File(r), local[r].offset, local[r].length) \in Offsets
          /\ batch \subseteq [offset : Starts, line : Names]
      BY <1>1, <3>1, ReadTypes
    <3>3. local' = [local EXCEPT
                     ![r] = [local[r] EXCEPT !.batch = batch,
                               !.offset = ReadEnd(File(r), local[r].offset, local[r].length)]]
      BY <2>4 DEF ReadSuffix
    <3>4. [local[r] EXCEPT !.batch = batch,
             !.offset = ReadEnd(File(r), local[r].offset, local[r].length)] \in Locals
      BY <1>1, <3>2 DEF Locals
    <3> QED BY <3>3, <3>4 DEF Typed, TypeOK
  <2>5. CASE TakeMarker(r)
    <3>1. Marker(File(r), local[r].offset) \in Markers \cup {None}
      BY <1>1, MarkerType DEF Locals
    <3>2. [local[r] EXCEPT !.marker = Marker(File(r), local[r].offset)] \in Locals
      BY <1>1, <3>1 DEF Locals
    <3> QED BY <2>5, <3>2 DEF TakeMarker, Typed, TypeOK
  <2> QED BY <2>1, <2>2, <2>3, <2>4, <2>5
<1>5. Files' = Files /\ Rows' = Rows /\ Works' = Works
  BY <1>0 DEF transcripts, Files, Rows, Works
<1> QED BY <1>0, <1>2, <1>4, <1>5 DEF Typed, TypeOK, transcripts

LEMMA CommitTyped ==
  ASSUME Typed, NEW r \in Readers, Commit(r)
  PROVE  Typed'
<1>0. AtWork(r) /\ NextFile(r) /\ UNCHANGED <<transcripts, aborts>>
  BY DEF Commit, AtWork
<1>1. File(r) \in Files /\ local[r] \in Locals
  BY <1>0, FileOf DEF Typed, TypeOK
<1>2. RunsTyped'
  BY <1>0, NextFileType
<1>3. stored' \subseteq Rows
  <2>1. New(File(r), local[r]) \subseteq Rows
    BY <1>1 DEF New, Rows, Locals
  <2> QED BY <2>1 DEF Commit, Typed, TypeOK
<1>4. cursor' \in [Files -> Cursors]
  <2>1. [offset |-> local[r].offset, marker |-> local[r].marker,
         generation |-> local[r].generation] \in Cursors
    BY <1>1 DEF Locals, Cursors
  <2> QED BY <1>1, <2>1 DEF Commit, Typed, TypeOK
<1>5. Files' = Files /\ Rows' = Rows
  BY <1>0 DEF transcripts, Files, Rows
<1> QED BY <1>0, <1>2, <1>3, <1>4, <1>5 DEF RunsTyped, Typed, TypeOK, transcripts

LEMMA StartTyped ==
  ASSUME Typed, NEW r \in Readers, StartRun(r)
  PROVE  Typed'
<1>1. PICK todo \in ToRead(scenario.role[r]) :
        run' = [run EXCEPT ![r] = [now |-> lines, todo |-> todo]]
  BY DEF StartRun
<1>2. todo \in Seq(Files) /\ todo # <<>>
  BY ToReadType DEF Typed, TypeOK
<1>3. [now |-> lines, todo |-> todo] \in Works
  BY <1>2 DEF Works, Typed, TypeOK
<1>4. /\ UNCHANGED <<transcripts, stored, cursor, local, aborts>>
      /\ pc' = [pc EXCEPT ![r] = "cursor"]
  BY DEF StartRun
<1>5. Files' = Files /\ Rows' = Rows /\ Works' = Works
  BY <1>4 DEF transcripts, Files, Rows, Works
<1> QED BY <1>1, <1>2, <1>3, <1>4, <1>5 DEF Typed, TypeOK, transcripts, AtWork, Steps

LEMMA FailureTyped ==
  ASSUME Typed, NEW r \in Readers, OpenFails(r) \/ Abort(r)
  PROVE  Typed'
<1>1. /\ AtWork(r)
      /\ EndRun(r) \/ FileFails(r)
      /\ UNCHANGED <<transcripts, stored, cursor>>
      /\ aborts' \in 0 .. MaxAborts
  BY ScenarioFacts DEF OpenFails, Abort, AtWork, Typed, TypeOK
<1>2. RunsTyped'
  BY <1>1, EndRunType, FileFailsType
<1>3. Files' = Files /\ Rows' = Rows
  BY <1>1 DEF transcripts, Files, Rows
<1> QED BY <1>1, <1>2, <1>3 DEF RunsTyped, Typed, TypeOK, transcripts

LEMMA TypedStep == Typed /\ [Next]_vars => Typed'
<1> SUFFICES ASSUME Typed, [Next]_vars PROVE Typed'
  OBVIOUS
<1>1. CASE UNCHANGED vars
  BY <1>1 DEF vars, Typed, TypeOK, AtWork, Files, Rows, Works
<1>2. CASE \E f \in Files : CodexAppends(f) \/ FinishLine(f) \/ Truncate(f)
  BY <1>2, WriterTyped
<1>3. ASSUME NEW r \in Readers, StartRun(r) \/ GoesOn(r) \/ Abort(r) PROVE Typed'
  BY <1>3, StartTyped, ReaderTyped, CommitTyped, FailureTyped DEF GoesOn
<1> QED BY <1>1, <1>2, <1>3 DEF Next

\* Whatever Codex does to the files, every variable keeps its type: among other
\* things, the key of a stored row is where a line starts.
THEOREM IngestTypes == Spec => []TypeOK
<1>1. Typed => TypeOK
  BY DEF Typed
<1> QED BY <1>1, TypedInit, TypedStep, PTL DEF Spec

-----------------------------------------------------------------------------
(* Files that grow by whole lines at any moment.  A run compares the times *)
(* of what it reads with the moment it began, so nothing it reads may be   *)
(* newer than that by more than the tolerance: a run that reads a file     *)
(* later than that skips lines (ImportSlow.cfg).                           *)

Steady == scenario.manner = "steady"

\* A file is read before more lines than the tolerance were written since the
\* run began.
ReadsOnTime ==
  \A r \in Readers : pc[r] = "read" => lines <= run[r].now + Tolerance

\* Every row holds the line that is at its offset.
RowsAgree ==
  \A row \in stored :
    \E j \in 1 .. Len(file[row.file]) :
      row.offset = 2 * (j - 1) /\ row.line = file[row.file][j]

\* An offset between two lines, and everything before it stored.
Sound(f, offset) ==
  \E n \in 0 .. Len(file[f]) :
    /\ offset = 2 * n
    /\ \A j \in 1 .. n : IsStored(file[f][j])

\* A batch holds what is not stored yet before the offset to be saved; what
\* lies behind that offset was written after the run began.
Agrees(f, batch) ==
  \A b \in batch :
    \E j \in 1 .. Len(file[f]) : b.offset = 2 * (j - 1) /\ b.line = file[f][j]

Covers(f, mine, now) ==
  \E n \in 0 .. Len(file[f]) :
    /\ mine.offset = 2 * n
    /\ \A j \in 1 .. n : \/ IsStored(file[f][j])
                         \/ \E b \in mine.batch : b.line = file[f][j]
    /\ \A j \in n + 1 .. Len(file[f]) : file[f][j] > now

\* What a reader holds between its transactions stays right, whatever the
\* other readers store and Codex appends in the meantime.
Held(r) ==
  /\ pc[r] \in {"check", "open", "read"} => Sound(File(r), local[r].offset)
  /\ pc[r] \in {"mark", "commit"} =>
       /\ Agrees(File(r), local[r].batch)
       /\ Covers(File(r), local[r], run[r].now)

LinesNamed == \A f \in Files : \A j \in 1 .. Len(file[f]) : file[f][j] <= lines

IInv ==
  /\ Typed
  /\ LinesNamed
  /\ \A f \in Files : ~partial[f]
  /\ RowsAgree
  /\ \A f \in Files : Sound(f, cursor[f].offset)
  /\ \A r \in Readers : Held(r)

\* What a step does to the files and the table: both only grow, and what is
\* new in a file is newer than every run.
Grown ==
  /\ scenario' = scenario
  /\ stored \subseteq stored'
  /\ \A f \in Files :
       /\ Len(file[f]) <= Len(file[f])'
       /\ \A j \in 1 .. Len(file[f]) : file'[f][j] = file[f][j]
       /\ \A j \in Len(file[f]) + 1 .. Len(file[f])' : file'[f][j] > lines

LEMMA SoundKept ==
  ASSUME Typed, Typed', Grown, NEW f \in Files, NEW offset, Sound(f, offset)
  PROVE  Sound(f, offset)'
<1>1. PICK n \in 0 .. Len(file[f]) :
        offset = 2 * n /\ \A j \in 1 .. n : IsStored(file[f][j])
  BY DEF Sound
<1>2. Len(file[f]) \in Nat /\ Len(file[f])' \in Nat /\ Len(file[f]) <= Len(file[f])'
  <2>1. f \in Files'
    BY DEF Grown, Files
  <2> QED BY <2>1, LenProperties DEF Typed, TypeOK, Grown
<1>3. n \in 0 .. Len(file[f])'
  BY <1>2
<1>4. ASSUME NEW j \in 1 .. n PROVE IsStored(file[f][j])'
  <2>1. j \in 1 .. Len(file[f]) /\ IsStored(file[f][j])
    BY <1>1, <1>2
  <2>2. file'[f][j] = file[f][j]
    BY <2>1 DEF Grown
  <2> QED BY <2>1, <2>2 DEF Grown, IsStored
<1> QED BY <1>1, <1>3, <1>4 DEF Sound

LEMMA AgreesKept ==
  ASSUME Typed, Typed', Grown, NEW f \in Files, NEW batch, Agrees(f, batch)
  PROVE  Agrees(f, batch)'
<1>1. Len(file[f]) \in Nat /\ Len(file[f])' \in Nat /\ Len(file[f]) <= Len(file[f])'
  <2>1. f \in Files'
    BY DEF Grown, Files
  <2> QED BY <2>1, LenProperties DEF Typed, TypeOK, Grown
<1>2. ASSUME NEW b \in batch
      PROVE  \E j \in 1 .. Len(file[f])' : b.offset = 2 * (j - 1) /\ b.line = file'[f][j]
  <2>1. PICK j \in 1 .. Len(file[f]) : b.offset = 2 * (j - 1) /\ b.line = file[f][j]
    BY DEF Agrees
  <2>2. j \in 1 .. Len(file[f])' /\ file'[f][j] = file[f][j]
    BY <1>1 DEF Grown
  <2> QED BY <2>1, <2>2
<1> QED BY <1>2 DEF Agrees

LEMMA CoversKept ==
  ASSUME Typed, Typed', Grown, NEW f \in Files, NEW mine, NEW now \in 0 .. lines,
         Covers(f, mine, now)
  PROVE  Covers(f, mine, now)'
<1>1. PICK n \in 0 .. Len(file[f]) :
        /\ mine.offset = 2 * n
        /\ \A j \in 1 .. n : \/ IsStored(file[f][j])
                             \/ \E b \in mine.batch : b.line = file[f][j]
        /\ \A j \in n + 1 .. Len(file[f]) : file[f][j] > now
  BY DEF Covers
<1>2. /\ Len(file[f]) \in Nat /\ Len(file[f])' \in Nat /\ Len(file[f]) <= Len(file[f])'
      /\ file'[f] \in Seq(Names) /\ lines \in Nat
  <2>1. f \in Files'
    BY DEF Grown, Files
  <2> QED BY <2>1, LenProperties DEF Typed, TypeOK, Grown
<1>3. n \in 0 .. Len(file[f])'
  BY <1>2
<1>4. ASSUME NEW j \in 1 .. n
      PROVE  \/ IsStored(file[f][j])'
             \/ \E b \in mine.batch : b.line = file'[f][j]
  <2>1. j \in 1 .. Len(file[f])
    BY <1>2
  <2>2. file'[f][j] = file[f][j]
    BY <2>1 DEF Grown
  <2> QED BY <1>1, <2>2 DEF Grown, IsStored
<1>5. ASSUME NEW j \in n + 1 .. Len(file[f])' PROVE file'[f][j] > now
  <2>1. CASE j <= Len(file[f])
    <3>1. j \in n + 1 .. Len(file[f]) /\ j \in 1 .. Len(file[f])
      BY <1>2, <2>1
    <3>2. file'[f][j] = file[f][j]
      BY <3>1 DEF Grown
    <3> QED BY <1>1, <3>1, <3>2
  <2>2. CASE j > Len(file[f])
    <3>1. j \in Len(file[f]) + 1 .. Len(file[f])' /\ j \in 1 .. Len(file[f])'
      BY <1>2, <2>2
    <3>2. file'[f][j] > lines
      BY <3>1 DEF Grown
    <3>3. file'[f][j] \in Int
      <4>1. file'[f][j] \in Names
        BY <1>2, <3>1, ElementOfSeq
      <4> QED BY <4>1, ScenarioFacts DEF Names, Typed, TypeOK
    <3> QED BY <1>2, <3>2, <3>3
  <2> QED BY <1>2, <2>1, <2>2
<1> QED BY <1>1, <1>3, <1>4, <1>5 DEF Covers

\* Whoever did not move holds what it held.
LEMMA HeldKept ==
  ASSUME Typed, Typed', Grown, NEW r \in Readers, Held(r),
         pc'[r] = pc[r], run'[r] = run[r], local'[r] = local[r]
  PROVE  Held(r)'
<1>1. PICK f : f = File(r)
  OBVIOUS
<1>2. PICK mine : mine = local[r]
  OBVIOUS
<1>3. PICK now : now = run[r].now
  OBVIOUS
<1>4. File(r)' = f /\ local'[r] = mine /\ run'[r].now = now
  BY <1>1, <1>2, <1>3 DEF File
<1>5. CASE pc[r] \in {"check", "open", "read"}
  <2>1. f \in Files /\ Sound(f, mine.offset)
    BY <1>1, <1>2, <1>5, FileOf DEF AtWork, Held
  <2>2. Sound(f, mine.offset)'
    BY <2>1, SoundKept
  <2>3. Sound(File(r), local[r].offset)'
    BY <1>4, <2>2 DEF Sound, IsStored
  <2> QED BY <1>5, <2>3 DEF Held
<1>6. CASE pc[r] \in {"mark", "commit"}
  <2>1. f \in Files /\ now \in 0 .. lines
    BY <1>1, <1>3, <1>6, FileOf DEF AtWork, Typed, TypeOK, Works
  <2>2. Agrees(f, mine.batch) /\ Covers(f, mine, now)
    BY <1>1, <1>2, <1>3, <1>6 DEF Held
  <2>3. Agrees(f, mine.batch)' /\ Covers(f, mine, now)'
    BY <2>1, <2>2, AgreesKept, CoversKept
  <2>4. Agrees(File(r), local[r].batch)'
    BY <1>4, <2>3 DEF Agrees
  <2>5. Covers(File(r), local[r], run[r].now)'
    BY <1>4, <2>3 DEF Covers, IsStored
  <2> QED BY <1>6, <2>4, <2>5 DEF Held
<1> QED BY <1>5, <1>6 DEF Held

LEMMA WholeFile ==
  ASSUME IInv, NEW f \in Files
  PROVE  /\ Whole(f) = Len(file[f]) /\ Length(f) = 2 * Len(file[f])
         /\ Len(file[f]) \in 0 .. MaxLines /\ MaxLines \in Nat
         /\ file[f] \in Seq(Names)
<1>1. Typed /\ ~partial[f]
  BY DEF IInv
<1>2. Len(file[f]) \in 0 .. MaxLines /\ MaxLines \in Nat /\ file[f] \in Seq(Names)
  BY <1>1, LengthFacts, ScenarioFacts DEF Typed, TypeOK
<1> QED BY <1>1, <1>2 DEF Whole, Length

\* Only Codex changes a file, and what it does then is to append a line.
LEMMA GrownStep ==
  ASSUME Steady, IInv, Typed', Next
  PROVE  Grown /\ \A f \in Files' : ~partial'[f]
<1>1. CASE \E f \in Files : CodexAppends(f) \/ FinishLine(f) \/ Truncate(f)
  <2>1. PICK f \in Files : CodexAppends(f) \/ FinishLine(f) \/ Truncate(f)
    BY <1>1
  <2>2. scenario.manner = "steady" /\ ~partial[f]
    BY DEF Steady, IInv, Typed, TypeOK
  <2>3. CodexAppends(f)
    BY <2>1, <2>2 DEF FinishLine, Truncate
  <2>4. /\ file' = [file EXCEPT ![f] = Append(file[f], lines + 1)]
        /\ partial' = [partial EXCEPT ![f] = FALSE]
        /\ scenario' = scenario /\ stored' = stored
    <3>1. MayTear = FALSE
      BY <2>2 DEF MayTear
    <3>2. PICK torn \in {FALSE, MayTear} : partial' = [partial EXCEPT ![f] = torn]
      BY <2>3 DEF CodexAppends
    <3>3. torn = FALSE
      BY <3>1
    <3> QED BY <2>3, <3>2, <3>3 DEF CodexAppends
  <2>5. /\ file[f] \in Seq(Names) /\ Len(file[f]) \in Nat
        /\ lines \in Nat /\ lines + 1 \in Names
    <3>1. lines + 1 \in Names
      BY <2>3, ScenarioFacts DEF CodexAppends, Names, IInv, Typed, TypeOK
    <3> QED BY <3>1, WholeFile, ScenarioFacts DEF IInv, Typed, TypeOK
  <2>6. /\ Len(file'[f]) = Len(file[f]) + 1
        /\ \A j \in 1 .. Len(file[f]) : file'[f][j] = file[f][j]
        /\ file'[f][Len(file[f]) + 1] = lines + 1
    <3>1. file'[f] = Append(file[f], lines + 1)
      BY <2>4 DEF IInv, Typed, TypeOK
    <3> QED BY <2>5, <3>1, AppendProperties
  <2>7. \A g \in Files : g # f => file'[g] = file[g]
    BY <2>4 DEF IInv, Typed, TypeOK
  <2>8. ASSUME NEW g \in Files
        PROVE  /\ Len(file[g]) <= Len(file[g])'
               /\ \A j \in 1 .. Len(file[g]) : file'[g][j] = file[g][j]
               /\ \A j \in Len(file[g]) + 1 .. Len(file[g])' : file'[g][j] > lines
    <3>1. Len(file[g]) \in Nat
      BY WholeFile
    <3> QED BY <2>5, <2>6, <2>7, <3>1
  <2>9. \A g \in Files' : ~partial'[g]
    BY <2>4 DEF IInv, Typed, TypeOK, Files
  <2> QED BY <2>4, <2>8, <2>9 DEF Grown
<1>2. CASE \E r \in Readers : StartRun(r) \/ GoesOn(r) \/ Abort(r)
  <2>1. UNCHANGED transcripts /\ stored \subseteq stored'
    BY <1>2 DEF StartRun, GoesOn, Abort, TakeCursor, CheckMarker, OpenFile, OpenFails,
                ReadSuffix, TakeMarker, Commit
  <2>2. \A f \in Files : Len(file[f]) \in Nat
    BY WholeFile
  <2> QED BY <2>1, <2>2 DEF transcripts, Grown, Files, IInv
<1> QED BY <1>1, <1>2 DEF Next

\* No line is newer than the newest.
LEMMA NamesKept ==
  ASSUME IInv, Next, Typed', Steady
  PROVE  LinesNamed'
<1>1. /\ Grown /\ lines \in Nat /\ MaxLines \in Nat
      /\ Files' = Files
  BY GrownStep, ScenarioFacts DEF Grown, Files, IInv, Typed, TypeOK
<1>2. ASSUME NEW f \in Files, NEW j \in 1 .. Len(file'[f])
      PROVE  file'[f][j] <= lines'
  <2>1. Len(file[f]) \in Nat /\ file'[f] \in Seq(Names) /\ Len(file'[f]) \in Nat
    BY <1>1, WholeFile, LenProperties DEF Typed, TypeOK
  <2>2. file'[f][j] \in Names /\ lines' \in Nat
    BY <1>1, <2>1, ElementOfSeq DEF Typed, TypeOK
  <2>3. CASE \E g \in Files : CodexAppends(g) \/ FinishLine(g) \/ Truncate(g)
    <3>1. PICK g \in Files : CodexAppends(g)
      <4>1. scenario.manner = "steady" /\ \A g \in Files : ~partial[g]
        BY DEF Steady, IInv, Typed, TypeOK
      <4> QED BY <2>3, <4>1 DEF FinishLine, Truncate
    <3>2. lines' = lines + 1 /\ file' = [file EXCEPT ![g] = Append(file[g], lines + 1)]
      BY <3>1 DEF CodexAppends
    <3>3. CASE j <= Len(file[f])
      BY <1>1, <2>1, <2>2, <3>2, <3>3 DEF Grown, IInv, LinesNamed, Names
    <3>4. CASE j > Len(file[f])
      <4>1. f = g /\ file'[f] = Append(file[f], lines + 1)
        BY <2>1, <3>2, <3>4 DEF IInv, Typed, TypeOK
      <4>2. file[f] \in Seq(Names) /\ lines + 1 \in Int
        BY <1>1, WholeFile
      <4>3. file'[f][j] = lines + 1
        <5>1. /\ Len(Append(file[f], lines + 1)) = Len(file[f]) + 1
              /\ Append(file[f], lines + 1)[Len(file[f]) + 1] = lines + 1
          BY <4>2
        <5> QED BY <2>1, <3>4, <4>1, <5>1
      <4> QED BY <1>1, <3>2, <4>3
    <3> QED BY <2>1, <3>3, <3>4
  <2>4. CASE \E r \in Readers : StartRun(r) \/ GoesOn(r) \/ Abort(r)
    <3>1. UNCHANGED transcripts
      BY <2>4 DEF StartRun, GoesOn, Abort, TakeCursor, CheckMarker, OpenFile, OpenFails,
                  ReadSuffix, TakeMarker, Commit
    <3> QED BY <3>1 DEF transcripts, IInv, LinesNamed
  <2> QED BY <2>3, <2>4 DEF Next
<1> QED BY <1>1, <1>2 DEF LinesNamed

\* Where neither the table nor the cursors change, both stay right.
LEMMA TableKept ==
  ASSUME IInv, Typed', Grown, stored' = stored, cursor' = cursor
  PROVE  /\ RowsAgree'
         /\ \A f \in Files' : Sound(f, cursor[f].offset)'
<1>1. ASSUME NEW row \in stored
      PROVE  \E j \in 1 .. Len(file[row.file])' :
               row.offset = 2 * (j - 1) /\ row.line = file'[row.file][j]
  <2>1. PICK j \in 1 .. Len(file[row.file]) :
          row.offset = 2 * (j - 1) /\ row.line = file[row.file][j]
    BY DEF IInv, RowsAgree
  <2>2. row.file \in Files
    BY DEF IInv, Typed, TypeOK, Rows
  <2>3. /\ Len(file[row.file]) \in Nat /\ Len(file[row.file])' \in Nat
        /\ Len(file[row.file]) <= Len(file[row.file])'
        /\ file'[row.file][j] = file[row.file][j]
        /\ j \in 1 .. Len(file[row.file])'
    <3>1. row.file \in Files'
      BY <2>2 DEF Grown, Files
    <3> QED BY <2>2, <3>1, LenProperties DEF Typed, TypeOK, Grown, IInv
  <2> QED BY <2>1, <2>3
<1>2. ASSUME NEW f \in Files' PROVE Sound(f, cursor[f].offset)'
  <2>1. PICK offset : offset = cursor[f].offset
    OBVIOUS
  <2>2. f \in Files /\ Sound(f, offset)
    BY <2>1 DEF Grown, Files, IInv
  <2>3. Sound(f, offset)'
    BY <2>2, SoundKept DEF IInv
  <2> QED BY <2>1, <2>3 DEF Sound, IsStored
<1> QED BY <1>1, <1>2 DEF RowsAgree

LEMMA WriterSafe ==
  ASSUME IInv, Typed', LinesNamed', Grown, UNCHANGED <<stored, cursor, pc, run, local>>,
         \A f \in Files' : ~partial'[f]
  PROVE  IInv'
<1>1. \A r \in Readers : Held(r)'
  BY HeldKept DEF IInv
<1> QED BY <1>1, TableKept DEF IInv

\* A step of one reader that changes no file, row or cursor.
LEMMA ReaderSafe ==
  ASSUME IInv, Typed', LinesNamed', Grown, NEW r \in Readers,
         UNCHANGED <<file, partial, stored, cursor>>,
         \A q \in Readers \ {r} : pc'[q] = pc[q] /\ run'[q] = run[q] /\ local'[q] = local[q],
         Held(r)'
  PROVE  IInv'
<1>1. ASSUME NEW q \in Readers PROVE Held(q)'
  <2>1. CASE q = r
    BY <2>1
  <2>2. CASE q # r
    BY <2>2, HeldKept DEF IInv
  <2> QED BY <2>1, <2>2
<1>2. \A f \in Files' : ~partial'[f]
  BY DEF IInv, Grown, Files
<1> QED BY <1>1, <1>2, TableKept DEF IInv

\* A reader between two files, or at none, holds nothing.
LEMMA Leaves ==
  ASSUME IInv, NEW r \in Readers, AtWork(r), EndRun(r) \/ FileFails(r) \/ NextFile(r)
  PROVE  /\ \A q \in Readers \ {r} :
              pc'[q] = pc[q] /\ run'[q] = run[q] /\ local'[q] = local[q]
         /\ pc'[r] \in {"idle", "cursor"}
BY DEF EndRun, FileFails, NextFile, IInv, Typed, TypeOK

LEMMA LeaveSafe ==
  ASSUME IInv, Typed', LinesNamed', Grown, NEW r \in Readers, StartRun(r) \/ OpenFails(r) \/ Abort(r)
  PROVE  IInv'
<1>1. UNCHANGED <<file, partial, stored, cursor>>
  BY DEF StartRun, OpenFails, Abort, transcripts
<1>2. /\ \A q \in Readers \ {r} :
           pc'[q] = pc[q] /\ run'[q] = run[q] /\ local'[q] = local[q]
      /\ pc'[r] \in {"idle", "cursor"}
  <2>1. CASE StartRun(r)
    BY <2>1 DEF StartRun, IInv, Typed, TypeOK
  <2>2. CASE OpenFails(r) \/ Abort(r)
    BY <2>2, Leaves DEF OpenFails, Abort, AtWork
  <2> QED BY <2>1, <2>2
<1>3. Held(r)'
  BY <1>2 DEF Held
<1> QED BY <1>1, <1>2, <1>3, ReaderSafe

LEMMA NothingStored ==
  ASSUME IInv, NEW f \in Files
  PROVE  Sound(f, 0)
<1>1. Len(file[f]) \in Nat
  BY WholeFile
<1> QED BY <1>1 DEF Sound

\* What a read from a sound position yields, with the position it ends at.
LEMMA ReadCovers ==
  ASSUME IInv, NEW f \in Files, NEW start, NEW length, Sound(f, start),
         NEW now \in Nat, NEW mine,
         mine.batch = ReadLines(f, start, length),
         mine.offset = ReadEnd(f, start, length)
  PROVE  Agrees(f, mine.batch) /\ Covers(f, mine, now)
<1>1. PICK n \in 0 .. Len(file[f]) :
        start = 2 * n /\ \A j \in 1 .. n : IsStored(file[f][j])
  BY DEF Sound
<1>2. /\ Whole(f) = Len(file[f]) /\ Length(f) = 2 * Len(file[f])
      /\ Len(file[f]) \in Nat /\ ~partial[f]
  BY WholeFile DEF IInv
<1>3. ~Deferred(f, start, length)
  <2>1. (2 * n) % 2 = 0
    BY <1>2
  <2> QED BY <1>1, <2>1 DEF Deferred
<1>4. mine.offset = 2 * Len(file[f])
  BY <1>1, <1>2, <1>3 DEF ReadEnd
<1>5. mine.batch = {[offset |-> 2 * (j - 1), line |-> file[f][j]] :
                      j \in {i \in 1 .. Len(file[f]) : 2 * (i - 1) >= start}}
  BY <1>2, <1>3 DEF ReadLines
<1>6. Agrees(f, mine.batch)
  BY <1>5 DEF Agrees
<1>7. ASSUME NEW j \in 1 .. Len(file[f])
      PROVE  \/ IsStored(file[f][j])
             \/ \E b \in mine.batch : b.line = file[f][j]
  <2>1. CASE j <= n
    BY <1>1, <1>2, <2>1
  <2>2. CASE j > n
    <3>1. 2 * (j - 1) >= start
      BY <1>1, <1>2, <2>2
    <3>2. [offset |-> 2 * (j - 1), line |-> file[f][j]] \in mine.batch
      BY <1>5, <3>1
    <3> QED BY <3>2
  <2> QED BY <1>1, <1>2, <2>1, <2>2
<1>8. /\ Len(file[f]) \in 0 .. Len(file[f])
      /\ \A j \in Len(file[f]) + 1 .. Len(file[f]) : file[f][j] > now
  BY <1>2
<1> QED BY <1>4, <1>6, <1>7, <1>8 DEF Covers

\* No line of the batch is taken for one from the future.
LEMMA NoneDropped ==
  ASSUME IInv, NEW f \in Files, NEW start, NEW length, NEW now \in Nat,
         lines <= now + Tolerance
  PROVE  {b \in ReadLines(f, start, length) : b.line <= now + Tolerance}
           = ReadLines(f, start, length)
<1>1. ASSUME NEW b \in ReadLines(f, start, length)
      PROVE  b.line <= now + Tolerance
  <2>1. PICK j \in 1 .. Whole(f) : b = [offset |-> 2 * (j - 1), line |-> file[f][j]]
    BY DEF ReadLines
  <2>2. file[f][j] \in Names /\ file[f][j] <= lines
    <3>1. j \in 1 .. Len(file[f]) /\ file[f] \in Seq(Names)
      BY WholeFile
    <3>2. file[f][j] \in Names
      BY <3>1, ElementOfSeq
    <3> QED BY <3>1, <3>2 DEF IInv, LinesNamed
  <2>3. MaxLines \in Nat /\ Tolerance \in Nat /\ lines \in Nat
    BY ScenarioFacts DEF IInv, Typed, TypeOK
  <2> QED BY <2>1, <2>2, <2>3 DEF Names
<1> QED BY <1>1

LEMMA ReadSafe ==
  ASSUME ReadsOnTime, IInv, Typed', LinesNamed', Grown, NEW r \in Readers,
         \/ TakeCursor(r) \/ CheckMarker(r) \/ OpenFile(r) \/ ReadSuffix(r)
         \/ TakeMarker(r)
  PROVE  IInv'
<1>1. /\ AtWork(r)
      /\ UNCHANGED <<transcripts, stored, cursor, run, aborts>>
      /\ pc' = [pc EXCEPT ![r] = pc'[r]]
  BY DEF TakeCursor, CheckMarker, OpenFile, ReadSuffix, TakeMarker, Moves, AtWork,
         IInv, Typed, TypeOK
<1>2. UNCHANGED <<file, partial, stored, cursor>> /\ run' = run
  BY <1>1 DEF transcripts
<1>3. \A q \in Readers \ {r} : pc'[q] = pc[q] /\ run'[q] = run[q] /\ local'[q] = local[q]
  BY <1>1 DEF TakeCursor, CheckMarker, OpenFile, ReadSuffix, TakeMarker, IInv, Typed, TypeOK
<1>4. PICK f \in Files : f = File(r) /\ f = File(r)'
  BY <1>1, <1>2, FileOf DEF File, IInv
<1>5. /\ local[r] \in Locals /\ run[r].now \in Nat
      /\ r \in DOMAIN local /\ r \in DOMAIN pc
  BY ScenarioFacts DEF IInv, Typed, TypeOK, Works
<1>6. ASSUME NEW o, Sound(f, o), local'[r].offset = o, pc'[r] \in {"check", "open", "read"}
      PROVE  Held(r)'
  BY <1>2, <1>4, <1>6 DEF Held, Sound, IsStored
<1>7. ASSUME NEW mine, Agrees(f, mine.batch), Covers(f, mine, run[r].now),
             local'[r].batch = mine.batch, local'[r].offset = mine.offset,
             pc'[r] \in {"mark", "commit"}
      PROVE  Held(r)'
  <2>1. Agrees(File(r), local[r].batch)'
    BY <1>2, <1>4, <1>7 DEF Agrees
  <2>2. Covers(File(r), local[r], run[r].now)'
    <3>1. PICK now : now = run[r].now /\ now = run'[r].now
      BY <1>2
    <3>2. Covers(f, mine, now)
      BY <1>7, <3>1
    <3>3. PICK n \in 0 .. Len(file[f]) :
            /\ mine.offset = 2 * n
            /\ \A j \in 1 .. n : \/ IsStored(file[f][j])
                                 \/ \E b \in mine.batch : b.line = file[f][j]
            /\ \A j \in n + 1 .. Len(file[f]) : file[f][j] > now
      BY <3>2 DEF Covers
    <3>4. /\ n \in 0 .. Len(file'[File(r)'])
          /\ local'[r].offset = 2 * n
          /\ \A j \in 1 .. n : \/ IsStored(file[f][j])'
                               \/ \E b \in local'[r].batch : b.line = file'[f][j]
          /\ \A j \in n + 1 .. Len(file'[f]) : file'[f][j] > now
      BY <1>2, <1>4, <1>7, <3>3 DEF IsStored
    <3> QED BY <1>4, <3>1, <3>4 DEF Covers, IsStored
  <2> QED BY <1>7, <2>1, <2>2 DEF Held
<1>8. Held(r)'
  <2>1. CASE TakeCursor(r)
    <3>1. Sound(f, cursor[f].offset)
      BY DEF IInv
    <3>2. local'[r].offset = cursor[f].offset /\ pc'[r] = "check"
      BY <1>4, <1>5, <2>1 DEF TakeCursor, Moves, Locals
    <3> QED BY <1>6, <3>1, <3>2
  <2>2. CASE CheckMarker(r)
    <3>1. Sound(f, local[r].offset) /\ Sound(f, 0)
      BY <1>4, <2>2, NothingStored DEF CheckMarker, Moves, Held, IInv
    <3>2. local'[r].offset \in {local[r].offset, 0} /\ pc'[r] = "open"
      BY <1>5, <2>2 DEF CheckMarker, Moves, Locals
    <3> QED BY <1>6, <3>1, <3>2
  <2>3. CASE OpenFile(r)
    <3>1. Sound(f, local[r].offset) /\ Sound(f, 0)
      BY <1>4, <2>3, NothingStored DEF OpenFile, Moves, Held, IInv
    <3>2. local'[r].offset \in {local[r].offset, 0} /\ pc'[r] = "read"
      BY <1>5, <2>3 DEF OpenFile, Moves, Locals
    <3> QED BY <1>6, <3>1, <3>2
  <2>4. CASE ReadSuffix(r)
    <3> DEFINE start == local[r].offset
               length == local[r].length
    <3>1. Sound(f, start)
      BY <1>4, <2>4 DEF ReadSuffix, Moves, Held, IInv
    <3>2. /\ local'[r].batch = {b \in ReadLines(f, start, length) :
                                  b.line <= run[r].now + Tolerance}
          /\ local'[r].offset = ReadEnd(f, start, length)
          /\ pc'[r] = "mark"
      BY <1>4, <1>5, <2>4 DEF ReadSuffix, Moves, Locals
    <3>3. local'[r].batch = ReadLines(f, start, length)
      <4>1. lines <= run[r].now + Tolerance
        BY <2>4 DEF ReadSuffix, Moves, ReadsOnTime
      <4> QED BY <1>5, <3>2, <4>1, NoneDropped
    <3>4. PICK mine : mine = local'[r]
      OBVIOUS
    <3>5. Agrees(f, mine.batch) /\ Covers(f, mine, run[r].now)
      <4> HIDE DEF start, length
      <4> QED BY <1>5, <3>1, <3>2, <3>3, <3>4, ReadCovers
    <3> QED BY <1>7, <3>2, <3>4, <3>5
  <2>5. CASE TakeMarker(r)
    <3>1. Agrees(f, local[r].batch) /\ Covers(f, local[r], run[r].now)
      BY <1>4, <2>5 DEF TakeMarker, Moves, Held, IInv
    <3>2. /\ local'[r].batch = local[r].batch /\ local'[r].offset = local[r].offset
          /\ pc'[r] = "commit"
      BY <1>5, <2>5 DEF TakeMarker, Moves, Locals
    <3> QED BY <1>7, <3>1, <3>2
  <2> QED BY <2>1, <2>2, <2>3, <2>4, <2>5
<1> QED BY <1>2, <1>3, <1>8, ReaderSafe

LEMMA AtCommit ==
  ASSUME IInv, NEW r \in Readers, Commit(r)
  PROVE  /\ File(r) \in Files /\ AtWork(r)
         /\ Agrees(File(r), local[r].batch)
         /\ Covers(File(r), local[r], run[r].now)
         /\ UNCHANGED transcripts
         /\ stored' = stored \cup New(File(r), local[r])
BY FileOf DEF Commit, AtWork, IInv, Held

\* A row that is in the way of another holds the same line.
LEMMA CommitStores ==
  ASSUME IInv, NEW r \in Readers, Commit(r), NEW b \in local[r].batch
  PROVE  \E row \in stored' : row.line = b.line
<1> DEFINE f == File(r)
           new == [file |-> f, generation |-> local[r].generation,
                   offset |-> b.offset, line |-> b.line]
<1>1. stored' = stored \cup New(f, local[r])
  BY AtCommit
<1>2. CASE new \in New(f, local[r])
  BY <1>1, <1>2
<1>3. CASE new \notin New(f, local[r])
  <2>1. PICK old \in stored :
          old.file = f /\ old.generation = new.generation /\ old.offset = new.offset
    BY <1>3 DEF New
  <2>2. PICK i \in 1 .. Len(file[f]) :
          old.offset = 2 * (i - 1) /\ old.line = file[f][i]
    BY <2>1 DEF IInv, RowsAgree
  <2>3. PICK j \in 1 .. Len(file[f]) :
          b.offset = 2 * (j - 1) /\ b.line = file[f][j]
    BY AtCommit DEF Agrees
  <2>4. i = j
    <3>1. Len(file[f]) \in Nat
      BY AtCommit, WholeFile
    <3> QED BY <2>1, <2>2, <2>3, <3>1
  <2> QED BY <1>1, <2>2, <2>3, <2>4
<1> QED BY <1>2, <1>3

LEMMA CommitSafe ==
  ASSUME IInv, Typed', LinesNamed', Grown, NEW r \in Readers, Commit(r)
  PROVE  IInv'
<1>1. PICK f \in Files : f = File(r)
  BY AtCommit
<1>2. /\ UNCHANGED <<file, partial>> /\ Files' = Files
      /\ stored' = stored \cup New(f, local[r])
      /\ cursor'[f].offset = local[r].offset
      /\ \A g \in Files \ {f} : cursor'[g] = cursor[g]
  BY <1>1, AtCommit DEF Commit, transcripts, Files, IInv, Typed, TypeOK
<1>3. RowsAgree'
  <2>1. ASSUME NEW row \in New(f, local[r])
        PROVE  \E j \in 1 .. Len(file[row.file]) :
                 row.offset = 2 * (j - 1) /\ row.line = file[row.file][j]
    <3>1. PICK b \in local[r].batch :
            row.file = f /\ row.offset = b.offset /\ row.line = b.line
      BY DEF New
    <3>2. PICK j \in 1 .. Len(file[f]) :
            b.offset = 2 * (j - 1) /\ b.line = file[f][j]
      BY <1>1, AtCommit DEF Agrees
    <3> QED BY <3>1, <3>2
  <2> QED BY <1>2, <2>1 DEF IInv, RowsAgree
<1>4. ASSUME NEW g \in Files PROVE Sound(g, cursor[g].offset)'
  <2>1. CASE g = f
    <3>1. PICK n \in 0 .. Len(file[f]) :
            /\ local[r].offset = 2 * n
            /\ \A j \in 1 .. n : \/ IsStored(file[f][j])
                                 \/ \E b \in local[r].batch : b.line = file[f][j]
      BY <1>1, AtCommit DEF Covers
    <3>2. ASSUME NEW j \in 1 .. n PROVE \E row \in stored' : row.line = file[f][j]
      <4>1. CASE IsStored(file[f][j])
        BY <1>2, <4>1 DEF IsStored
      <4>2. CASE \E b \in local[r].batch : b.line = file[f][j]
        BY <4>2, CommitStores
      <4> QED BY <3>1, <4>1, <4>2
    <3> QED BY <1>2, <2>1, <3>1, <3>2 DEF Sound, IsStored
  <2>2. CASE g # f
    <3>1. PICK offset : offset = cursor[g].offset
      OBVIOUS
    <3>2. Sound(g, offset)'
      BY <3>1, SoundKept DEF IInv
    <3> QED BY <1>2, <2>2, <3>1, <3>2 DEF Sound, IsStored
  <2> QED BY <2>1, <2>2
<1>5. /\ \A q \in Readers \ {r} :
           pc'[q] = pc[q] /\ run'[q] = run[q] /\ local'[q] = local[q]
      /\ pc'[r] \in {"idle", "cursor"}
  BY AtCommit, Leaves DEF Commit
<1>6. ASSUME NEW q \in Readers PROVE Held(q)'
  <2>1. CASE q = r
    BY <1>5, <2>1 DEF Held
  <2>2. CASE q # r
    BY <1>5, <2>2, HeldKept DEF IInv
  <2> QED BY <2>1, <2>2
<1> QED BY <1>2, <1>3, <1>4, <1>6 DEF IInv

LEMMA IInvInit == Init => IInv
<1> SUFFICES ASSUME Init PROVE IInv
  OBVIOUS
<1>1. Typed
  BY TypedInit
<1>2. stored = {} /\ \A f \in Files : ~partial[f] /\ Len(file[f]) = 0
  BY EmptySeq DEF Init
<1>3. \A f \in Files : Sound(f, cursor[f].offset)
  BY <1>2 DEF Init, Sound
<1>4. \A r \in Readers : Held(r)
  BY DEF Init, Held
<1> QED BY <1>1, <1>2, <1>3, <1>4 DEF IInv, RowsAgree, LinesNamed

LEMMA IInvStep ==
  ASSUME Steady
  PROVE  IInv /\ ReadsOnTime /\ [Next]_vars => IInv'
<1> SUFFICES ASSUME IInv, ReadsOnTime, [Next]_vars PROVE IInv'
  OBVIOUS
<1>1. Typed'
  BY TypedStep DEF IInv
<1>2. CASE UNCHANGED vars
  <2>1. \A f \in Files : Len(file[f]) \in Nat
    BY WholeFile
  <2>2. Grown /\ \A f \in Files' : ~partial'[f]
    BY <1>2, <2>1 DEF vars, Grown, IInv, Files
  <2>3. UNCHANGED <<stored, cursor, pc, run, local>>
    BY <1>2 DEF vars
  <2>4. LinesNamed'
    BY <1>2 DEF vars, Files, IInv, LinesNamed
  <2> QED BY <1>1, <2>2, <2>3, <2>4, WriterSafe
<1>3. CASE Next
  <2>1. Grown /\ LinesNamed' /\ \A f \in Files' : ~partial'[f]
    BY <1>1, <1>3, GrownStep, NamesKept
  <2>2. CASE \E f \in Files : CodexAppends(f) \/ FinishLine(f) \/ Truncate(f)
    <3>1. UNCHANGED <<stored, cursor, pc, run, local>>
      BY <2>2 DEF CodexAppends, FinishLine, Truncate
    <3> QED BY <1>1, <2>1, <3>1, WriterSafe
  <2>3. ASSUME NEW r \in Readers, StartRun(r) \/ GoesOn(r) \/ Abort(r) PROVE IInv'
    BY <1>1, <2>1, <2>3, LeaveSafe, ReadSafe, CommitSafe DEF GoesOn
  <2> QED BY <1>3, <2>2, <2>3 DEF Next
<1> QED BY <1>2, <1>3

-----------------------------------------------------------------------------
(* Files that are torn, truncated and started anew, but not while a reader *)
(* is at work.  The marker of a saved cursor tells the file it was taken   *)
(* of from what replaced it, because no line comes back under its name; a  *)
(* new generation keeps the keys of the new lines apart from the old ones. *)

Quiet == scenario.manner = "quiet"

\* Is the file the one that the offset and the marker were taken of?
SameAs(f, c) == c.offset = 0 \/ c.marker = None \/ c.marker = Marker(f, c.offset)

\* The generation in which a reader of the file stores.
Target(f) ==
  IF SameAs(f, cursor[f]) THEN cursor[f].generation ELSE cursor[f].generation + 1

Even(offset) == \E n \in Nat : offset = 2 * n

StoredBefore(f, offset) ==
  \A j \in 1 .. Whole(f) : 2 * j <= offset => IsStored(file[f][j])

\* The row holds the line that is at its offset, before the cursor.
Lies(row) ==
  \E j \in 1 .. Whole(row.file) :
    /\ 2 * j <= cursor[row.file].offset
    /\ row.offset = 2 * (j - 1)
    /\ row.line = file[row.file][j]

RowsPlaced ==
  \A row \in stored : /\ row.generation <= cursor[row.file].generation
                      /\ row.generation = Target(row.file) => Lies(row)

\* The marker names a line that was written, and not the one in the making.
CursorPlaced(f) ==
  /\ Even(cursor[f].offset)
  /\ cursor[f].offset # 0 =>
       /\ cursor[f].marker # None
       /\ cursor[f].marker[3] <= lines
       /\ partial[f] => file[f][Len(file[f])] # cursor[f].marker[3]
  /\ SameAs(f, cursor[f]) => StoredBefore(f, cursor[f].offset)

TornApart(f) ==
  partial[f] => \A j \in 1 .. Whole(f) : file[f][j] # file[f][Len(file[f])]

\* What a reader of the file holds at each of its steps.
Holds(f, at, mine) ==
  /\ at = "check" =>
       /\ Even(mine.offset)
       /\ Target(f) = IF SameAs(f, mine) THEN mine.generation ELSE mine.generation + 1
       /\ SameAs(f, mine) => StoredBefore(f, mine.offset)
  /\ at \in {"open", "read"} =>
       /\ Even(mine.offset) /\ mine.generation = Target(f) /\ StoredBefore(f, mine.offset)
  /\ at = "read" => mine.length = Length(f) /\ mine.offset <= Length(f)
  /\ at \in {"mark", "commit"} =>
       /\ mine.generation = Target(f) /\ mine.offset = 2 * Whole(f)
       /\ \A b \in mine.batch :
            \E j \in 1 .. Whole(f) : b.offset = 2 * (j - 1) /\ b.line = file[f][j]
       /\ \A j \in 1 .. Whole(f) : \/ IsStored(file[f][j])
                                   \/ \E b \in mine.batch : b.line = file[f][j]
  /\ at = "commit" => mine.marker = Marker(f, mine.offset)

QuietHeld(r) ==
  AtWork(r) => run[r].now = lines /\ Holds(File(r), pc[r], local[r])

QInv ==
  /\ Typed
  /\ LinesNamed
  /\ \A f \in Files : TornApart(f) /\ CursorPlaced(f)
  /\ RowsPlaced
  /\ \A r \in Readers : QuietHeld(r)

\* A cursor still fits a file after a write only where it did before, and the
\* lines before it are the same.
LEMMA FitsAsBefore ==
  ASSUME Typed, Typed', LinesNamed, NEW f \in Files, CursorPlaced(f),
         CodexAppends(f) \/ FinishLine(f) \/ Truncate(f),
         cursor[f].offset # 0, SameAs(f, cursor[f])'
  PROVE  /\ SameAs(f, cursor[f])
         /\ \A j \in Nat \ {0} : 2 * j <= cursor[f].offset =>
              j \in 1 .. Whole(f) /\ j \in 1 .. Whole(f)' /\ file'[f][j] = file[f][j]
<1> DEFINE l == Len(file[f])
<1>1. /\ cursor' = cursor /\ lines \in Nat
      /\ file[f] \in Seq(Names) /\ l \in Nat
      /\ \A i \in 1 .. l : file[f][i] <= lines /\ file[f][i] \in Nat
  <2>1. cursor' = cursor
    BY DEF CodexAppends, FinishLine, Truncate
  <2>2. file[f] \in Seq(Names) /\ l \in Nat /\ MaxLines \in Nat /\ lines \in Nat
    BY LengthFacts, ScenarioFacts DEF Typed, TypeOK
  <2>3. \A i \in 1 .. l : file[f][i] \in Nat
    BY <2>2, ElementOfSeq DEF Names
  <2> QED BY <2>1, <2>2, <2>3 DEF LinesNamed
<1>2. PICK n \in Nat : cursor[f].offset = 2 * n /\ n > 0
  BY DEF CursorPlaced, Even
<1>3. /\ cursor[f].marker # None /\ cursor[f].marker = Marker(f, 2 * n)'
      /\ cursor[f].marker[3] <= lines
      /\ partial[f] => file[f][l] # cursor[f].marker[3]
  BY <1>1, <1>2 DEF CursorPlaced, SameAs, Marker
<1>4. /\ 2 * n <= Length(f)'
      /\ cursor[f].marker = <<2 * n, file'[f][1], file'[f][n]>>
  <2>1. (2 * n + 1) \div 2 = n
    BY <1>2
  <2>2. Length(f)' \in Int
    <3>1. f \in Files'
      BY DEF CodexAppends, FinishLine, Truncate, Files
    <3>2. Len(file'[f]) \in Nat /\ partial'[f] \in BOOLEAN
      BY <3>1, LenProperties DEF Typed, TypeOK
    <3> QED BY <3>2 DEF Length
  <2>3. ~ (2 * n > Length(f)')
    BY <1>3 DEF Marker
  <2> QED BY <1>2, <1>3, <2>1, <2>2, <2>3 DEF Marker
<1>5. cursor[f].marker[3] = file'[f][n]
  BY <1>4
<1>6. partial[f] => l >= 1
  BY <1>1, EmptySeq DEF Typed
<1>7. /\ partial[f] \in BOOLEAN
      /\ Whole(f) = (IF partial[f] THEN l - 1 ELSE l)
      /\ Length(f) = (IF partial[f] THEN 2 * l - 1 ELSE 2 * l)
  BY <1>1 DEF Whole, Length, Typed, TypeOK
<1> HIDE DEF l
<1>8. /\ n <= Whole(f) /\ n <= Whole(f)' /\ Whole(f)' \in Int
      /\ \A j \in 1 .. n : file'[f][j] = file[f][j]
  <2>1. CASE CodexAppends(f)
    <3>1. /\ file'[f] = Append(file[f], lines + 1) /\ ~partial[f]
          /\ partial'[f] \in BOOLEAN
      <4>1. f \in Files'
        BY <2>1 DEF CodexAppends, Files
      <4> QED BY <2>1, <4>1 DEF CodexAppends, Typed, TypeOK
    <3>2. /\ Len(file'[f]) = l + 1
          /\ \A i \in 1 .. l : file'[f][i] = file[f][i]
          /\ file'[f][l + 1] = lines + 1
      BY <1>1, <3>1 DEF l
    <3>3. /\ Whole(f)' = (IF partial'[f] THEN l ELSE l + 1)
          /\ Length(f)' = (IF partial'[f] THEN 2 * l + 1 ELSE 2 * (l + 1))
      <4>1. /\ Whole(f)' = (l + 1) - (IF partial'[f] THEN 1 ELSE 0)
            /\ Length(f)' = 2 * (l + 1) - (IF partial'[f] THEN 1 ELSE 0)
        BY <3>2 DEF Whole, Length
      <4> QED BY <1>1, <4>1
    <3>4. n # l + 1
      BY <1>1, <1>3, <1>5, <3>2
    <3>5. n <= l
      BY <1>1, <1>2, <1>4, <3>1, <3>3, <3>4
    <3> QED BY <1>1, <1>2, <1>7, <3>1, <3>2, <3>3, <3>5
  <2>2. CASE FinishLine(f)
    <3>1. file' = file /\ partial[f] /\ ~partial'[f]
      BY <2>2 DEF FinishLine, Typed, TypeOK
    <3>2. Whole(f)' = l /\ Length(f)' = 2 * l
      <4>1. Whole(f)' = l - 0 /\ Length(f)' = 2 * l - 0
        BY <3>1 DEF Whole, Length, l
      <4> QED BY <1>1, <4>1
    <3>3. n # l
      BY <1>3, <1>5, <3>1
    <3> QED BY <1>1, <1>2, <1>4, <1>7, <3>1, <3>2, <3>3
  <2>3. CASE Truncate(f)
    <3>1. PICK m \in 0 .. l - 1 :
            file'[f] = SubSeq(file[f], 1, m) /\ partial'[f] = FALSE
      BY <2>3 DEF Truncate, Typed, TypeOK, l
    <3>2. /\ Len(file'[f]) = m
          /\ \A i \in 1 .. m : file'[f][i] = file[f][i]
      BY <1>1, <3>1, SubSeqProperties DEF l
    <3>3. Whole(f)' = m /\ Length(f)' = 2 * m
      BY <1>1, <3>1, <3>2 DEF Whole, Length
    <3> QED BY <1>1, <1>2, <1>4, <1>7, <3>1, <3>2, <3>3
  <2> QED BY <2>1, <2>2, <2>3
<1>9. Whole(f) \in Int /\ 2 * n <= Length(f)
  BY <1>1, <1>2, <1>6, <1>7, <1>8
<1>10. Marker(f, 2 * n) = <<2 * n, file[f][1], file[f][n]>>
  <2>1. (2 * n + 1) \div 2 = n /\ Length(f) \in Int
    BY <1>1, <1>2, <1>7
  <2> QED BY <1>2, <1>9, <2>1 DEF Marker
<1>11. SameAs(f, cursor[f])
  BY <1>2, <1>4, <1>8, <1>10 DEF SameAs
<1> QED BY <1>2, <1>8, <1>9, <1>11

\* What a write does to the file and to no other.
LEMMA WriteFacts ==
  ASSUME Typed, LinesNamed, NEW f \in Files,
         CodexAppends(f) \/ FinishLine(f) \/ Truncate(f), Typed'
  PROVE  /\ UNCHANGED <<scenario, stored, cursor, pc, run, local>> /\ Files' = Files
         /\ lines' \in Nat /\ lines <= lines'
         /\ \A g \in Files \ {f} : file'[g] = file[g] /\ partial'[g] = partial[g]
         /\ \A i \in 1 .. Len(file'[f]) : file'[f][i] <= lines'
         /\ partial'[f] => /\ file'[f][Len(file'[f])] > lines
                           /\ \A i \in 1 .. Whole(f)' : file'[f][i] <= lines
<1>1. /\ UNCHANGED <<scenario, stored, cursor, pc, run, local>> /\ Files' = Files
      /\ \A g \in Files \ {f} : file'[g] = file[g] /\ partial'[g] = partial[g]
  BY DEF CodexAppends, FinishLine, Truncate, Files, Typed, TypeOK
<1>2. /\ file[f] \in Seq(Names) /\ Len(file[f]) \in Nat /\ lines \in Nat
      /\ \A i \in 1 .. Len(file[f]) : file[f][i] <= lines /\ file[f][i] \in Nat
  <2>1. file[f] \in Seq(Names) /\ Len(file[f]) \in Nat /\ MaxLines \in Nat /\ lines \in Nat
    BY LengthFacts, ScenarioFacts DEF Typed, TypeOK
  <2>2. \A i \in 1 .. Len(file[f]) : file[f][i] \in Nat
    BY <2>1, ElementOfSeq DEF Names
  <2> QED BY <2>1, <2>2 DEF LinesNamed
<1>3. CASE CodexAppends(f)
  <2>1. file'[f] = Append(file[f], lines + 1) /\ lines' = lines + 1
    BY <1>3 DEF CodexAppends, Typed, TypeOK
  <2>2. /\ Len(file'[f]) = Len(file[f]) + 1
        /\ \A i \in 1 .. Len(file[f]) : file'[f][i] = file[f][i]
        /\ file'[f][Len(file[f]) + 1] = lines + 1
    BY <1>2, <2>1
  <2>3. partial'[f] => Whole(f)' = Len(file[f])
    BY <1>2, <2>2 DEF Whole
  <2> QED BY <1>1, <1>2, <2>1, <2>2, <2>3
<1>4. CASE FinishLine(f)
  <2>1. file' = file /\ ~partial'[f] /\ lines' = lines
    BY <1>4 DEF FinishLine, Typed, TypeOK
  <2> QED BY <1>1, <1>2, <2>1
<1>5. CASE Truncate(f)
  <2>1. PICK m \in 0 .. Len(file[f]) - 1 :
          file'[f] = SubSeq(file[f], 1, m) /\ ~partial'[f] /\ lines' = lines
    BY <1>5 DEF Truncate, Typed, TypeOK
  <2>2. /\ Len(file'[f]) = m
        /\ \A i \in 1 .. m : file'[f][i] = file[f][i]
    BY <1>2, <2>1, SubSeqProperties
  <2>3. m \in Nat /\ \A i \in 1 .. m : i \in 1 .. Len(file[f])
    BY <1>2, <2>1
  <2>4. \A i \in 1 .. Len(file'[f]) : file'[f][i] <= lines
    BY <1>2, <2>2, <2>3
  <2> QED BY <1>1, <1>2, <2>1, <2>4
<1> QED BY <1>3, <1>4, <1>5

LEMMA QuietWrites ==
  ASSUME QInv, Quiet, Typed', NEW f \in Files,
         CodexAppends(f) \/ FinishLine(f) \/ Truncate(f)
  PROVE  QInv'
<1>1. /\ UNCHANGED <<scenario, stored, cursor, pc, run, local>> /\ Files' = Files
      /\ lines' \in Nat /\ lines <= lines' /\ lines \in Nat
      /\ \A g \in Files \ {f} : file'[g] = file[g] /\ partial'[g] = partial[g]
      /\ \A i \in 1 .. Len(file'[f]) : file'[f][i] <= lines'
      /\ partial'[f] => /\ file'[f][Len(file'[f])] > lines
                        /\ \A i \in 1 .. Whole(f)' : file'[f][i] <= lines
  <2>1. lines \in Nat
    BY ScenarioFacts DEF QInv, Typed, TypeOK
  <2> QED BY <2>1, WriteFacts DEF QInv
<1>2. \A r \in Readers : pc[r] = "idle"
  BY DEF CodexAppends, FinishLine, Truncate, MayWrite, Quiet
<1>3. \A r \in Readers : QuietHeld(r)'
  BY <1>1, <1>2 DEF QuietHeld, AtWork
<1>4. \A g \in Files \ {f} :
        /\ Whole(g)' = Whole(g) /\ Length(g)' = Length(g)
        /\ \A o : Marker(g, o)' = Marker(g, o)
  BY <1>1 DEF Whole, Length, Marker
<1>5. \A g \in Files \ {f} :
        /\ SameAs(g, cursor[g])' <=> SameAs(g, cursor[g])
        /\ Target(g)' = Target(g)
  BY <1>1, <1>4 DEF SameAs, Target
<1>6. ASSUME cursor[f].offset # 0, SameAs(f, cursor[f])'
      PROVE  /\ SameAs(f, cursor[f])
             /\ \A j \in Nat \ {0} : 2 * j <= cursor[f].offset =>
                  j \in 1 .. Whole(f) /\ j \in 1 .. Whole(f)' /\ file'[f][j] = file[f][j]
  BY <1>6, FitsAsBefore DEF QInv
<1>7. /\ Whole(f) \in Nat /\ Whole(f)' \in Nat
      /\ \A g \in Files : Len(file[g]) \in Nat /\ Whole(g) \in 0 .. Len(file[g])
      /\ \A i \in 1 .. Len(file'[f]) : file'[f][i] \in Int
      /\ Whole(f)' \in 0 .. Len(file'[f])
  <2>1. Whole(f)' \in 0 .. Len(file'[f]) /\ file'[f] \in Seq(Names) /\ Len(file'[f]) \in Nat
    <3>1. Typed' /\ f \in Files'
      BY <1>1
    <3>2. file'[f] \in Seq(Names) /\ Len(file'[f]) \in Nat /\ partial'[f] \in BOOLEAN
      BY <3>1, LenProperties DEF Typed, TypeOK
    <3>3. partial'[f] => Len(file'[f]) >= 1
      BY <3>1, <3>2, EmptySeq DEF Typed
    <3>4. Whole(f)' = Len(file'[f]) - (IF partial'[f] THEN 1 ELSE 0)
      BY DEF Whole
    <3>5. CASE partial'[f]
      <4>1. Whole(f)' = Len(file'[f]) - 1
        BY <3>4, <3>5
      <4> QED BY <3>2, <3>3, <3>5, <4>1
    <3>6. CASE ~partial'[f]
      <4>1. Whole(f)' = Len(file'[f]) - 0
        BY <3>4, <3>6
      <4> QED BY <3>2, <4>1
    <3> QED BY <3>2, <3>5, <3>6
  <2>2. \A i \in 1 .. Len(file'[f]) : file'[f][i] \in Int
    <3>1. \A i \in 1 .. Len(file'[f]) : file'[f][i] \in Names
      BY <2>1, ElementOfSeq
    <3> QED BY <3>1 DEF Names
  <2>3. \A g \in Files : Len(file[g]) \in Nat /\ Whole(g) \in 0 .. Len(file[g])
    BY LengthFacts DEF QInv
  <2> QED BY <2>1, <2>2, <2>3
<1>8. LinesNamed'
  <2> SUFFICES ASSUME NEW g \in Files, NEW j \in 1 .. Len(file'[g]) PROVE file'[g][j] <= lines'
    BY <1>1 DEF LinesNamed
  <2>1. CASE g = f
    BY <1>1, <2>1
  <2>2. CASE g # f
    <3>1. file'[g] = file[g] /\ j \in 1 .. Len(file[g])
      BY <1>1, <2>2
    <3>2. file[g] \in Seq(Names)
      BY LengthFacts DEF QInv
    <3>3. file[g][j] \in Names
      BY <3>1, <3>2, ElementOfSeq
    <3>4. file[g][j] <= lines /\ file[g][j] \in Int
      BY <3>1, <3>3 DEF QInv, LinesNamed, Names
    <3> QED BY <1>1, <3>1, <3>4
  <2> QED BY <2>1, <2>2
<1>9. ASSUME NEW g \in Files PROVE TornApart(g)' /\ CursorPlaced(g)'
  <2>1. CASE g # f
    <3>1. TornApart(g)'
      BY <1>1, <1>4, <2>1 DEF QInv, TornApart
    <3>2. /\ Even(cursor'[g].offset)
          /\ cursor'[g].offset # 0 =>
               /\ cursor'[g].marker # None
               /\ cursor'[g].marker[3] <= lines
               /\ partial'[g] => file'[g][Len(file'[g])] # cursor'[g].marker[3]
          /\ SameAs(g, cursor[g])' => StoredBefore(g, cursor[g].offset)'
      BY <1>1, <1>4, <1>5, <2>1 DEF QInv, CursorPlaced, StoredBefore, IsStored
    <3>3. cursor[g].offset # 0 => cursor[g].marker[3] \in Int
      BY <3>2, <1>1 DEF QInv, Typed, TypeOK, Cursors, Markers
    <3> QED BY <1>1, <3>1, <3>2, <3>3 DEF CursorPlaced
  <2>2. CASE g = f
    <3>1. TornApart(f)'
      BY <1>1, <1>7 DEF TornApart
    <3>2. /\ Even(cursor[f].offset)
          /\ cursor[f].offset # 0 => cursor[f].marker # None /\ cursor[f].marker[3] <= lines
      BY DEF QInv, CursorPlaced
    <3>3. cursor[f].offset # 0 => cursor[f].marker[3] \in Int
      BY <3>2 DEF QInv, Typed, TypeOK, Cursors, Markers
    <3>4. partial'[f] => file'[f][Len(file'[f])] \in Int
      <4>1. partial'[f] => Len(file'[f]) \in 1 .. Len(file'[f])
        BY <1>1, <1>7, EmptySeq DEF Typed, TypeOK
      <4> QED BY <1>7, <4>1
    <3>5. ASSUME SameAs(f, cursor[f])' PROVE StoredBefore(f, cursor[f].offset)'
      <4> SUFFICES ASSUME NEW j \in 1 .. Whole(f)', 2 * j <= cursor'[f].offset
                   PROVE  \E row \in stored' : row.line = file'[f][j]
        BY <1>1 DEF StoredBefore, IsStored
      <4>1. cursor[f].offset # 0 /\ 2 * j <= cursor[f].offset
        BY <1>1, <1>7
      <4>2. j \in 1 .. Whole(f) /\ file'[f][j] = file[f][j] /\ SameAs(f, cursor[f])
        BY <1>6, <1>7, <3>5, <4>1
      <4>3. IsStored(file[f][j])
        BY <4>1, <4>2 DEF QInv, CursorPlaced, StoredBefore
      <4> QED BY <1>1, <4>2, <4>3 DEF IsStored
    <3> QED BY <1>1, <2>2, <3>1, <3>2, <3>3, <3>4, <3>5 DEF CursorPlaced
  <2> QED BY <2>1, <2>2
<1>10. RowsPlaced'
  <2> SUFFICES ASSUME NEW row \in stored
               PROVE  /\ row.generation <= cursor[row.file].generation
                      /\ row.generation = Target(row.file)' => Lies(row)'
    BY <1>1 DEF RowsPlaced
  <2>1. /\ row.file \in Files /\ row.generation \in Nat
        /\ cursor[row.file].generation \in Nat /\ cursor[row.file].offset \in Int
    BY DEF QInv, Typed, TypeOK, Rows, Cursors, Offsets
  <2>2. /\ row.generation <= cursor[row.file].generation
        /\ row.generation = Target(row.file) => Lies(row)
    BY DEF QInv, RowsPlaced
  <2>3. CASE row.file # f
    <3>1. Lies(row) => Lies(row)'
      BY <1>1, <1>4, <2>1, <2>3 DEF Lies
    <3> QED BY <1>5, <2>1, <2>2, <2>3, <3>1
  <2>4. CASE row.file = f /\ row.generation = Target(f)'
    <3>1. SameAs(f, cursor[f])'
      BY <1>1, <2>1, <2>2, <2>4 DEF Target
    <3>2. SameAs(f, cursor[f])
      <4>1. CASE cursor[f].offset = 0
        BY <4>1 DEF SameAs
      <4> QED BY <1>6, <3>1, <4>1
    <3>3. Lies(row)
      BY <1>1, <2>2, <2>4, <3>1, <3>2 DEF Target
    <3>4. PICK j \in 1 .. Whole(f) :
            2 * j <= cursor[f].offset /\ row.offset = 2 * (j - 1) /\ row.line = file[f][j]
      BY <2>4, <3>3 DEF Lies
    <3>5. cursor[f].offset # 0 /\ j \in Nat \ {0}
      BY <1>7, <3>4
    <3>6. j \in 1 .. Whole(f)' /\ file'[f][j] = file[f][j]
      BY <1>6, <3>1, <3>4, <3>5
    <3>7. Lies(row)'
      BY <1>1, <2>4, <3>4, <3>6 DEF Lies
    <3> QED BY <2>2, <3>7
  <2> QED BY <2>2, <2>3, <2>4
<1> QED BY <1>1, <1>3, <1>8, <1>9, <1>10 DEF QInv

LEMMA QuietFacts ==
  ASSUME QInv, NEW f \in Files
  PROVE  /\ file[f] \in Seq(Names) /\ Len(file[f]) \in Nat
         /\ Whole(f) \in Nat /\ Length(f) \in Nat /\ Whole(f) <= Len(file[f])
         /\ 2 * Whole(f) <= Length(f)
         /\ partial[f] => Length(f) = 2 * Whole(f) + 1 /\ Len(file[f]) = Whole(f) + 1
         /\ ~partial[f] => Length(f) = 2 * Whole(f) /\ Len(file[f]) = Whole(f)
         /\ \A j \in 1 .. Len(file[f]) : file[f][j] \in Int /\ file[f][j] <= lines
<1>1. /\ file[f] \in Seq(Names) /\ Len(file[f]) \in Nat
      /\ Whole(f) \in 0 .. Len(file[f]) /\ Length(f) \in 2 * Whole(f) .. 2 * Len(file[f])
      /\ partial[f] \in BOOLEAN
  <2>1. file[f] \in Seq(Names) /\ partial[f] \in BOOLEAN
    BY DEF QInv, Typed, TypeOK
  <2> QED BY <2>1, LenProperties, LengthFacts DEF QInv
<1>2. ASSUME partial[f]
      PROVE  Length(f) = 2 * Whole(f) + 1 /\ Len(file[f]) = Whole(f) + 1
  <2>1. Whole(f) = Len(file[f]) - 1 /\ Length(f) = 2 * Len(file[f]) - 1
    BY <1>2 DEF Whole, Length
  <2> QED BY <1>1, <2>1
<1>3. ASSUME ~partial[f]
      PROVE  Length(f) = 2 * Whole(f) /\ Len(file[f]) = Whole(f)
  <2>1. Whole(f) = Len(file[f]) - 0 /\ Length(f) = 2 * Len(file[f]) - 0
    BY <1>3 DEF Whole, Length
  <2> QED BY <1>1, <2>1
<1>4. \A j \in 1 .. Len(file[f]) : file[f][j] \in Int /\ file[f][j] <= lines
  <2>1. \A j \in 1 .. Len(file[f]) : file[f][j] \in Names
    BY <1>1, ElementOfSeq
  <2> QED BY <2>1 DEF QInv, LinesNamed, Names
<1> QED BY <1>1, <1>2, <1>3, <1>4

\* Whoever works at a file holds what it held, when the files are the same and
\* the table has only grown.
LEMMA HoldsKept ==
  ASSUME NEW f, NEW at, NEW mine, Holds(f, at, mine),
         UNCHANGED transcripts, stored \subseteq stored', Target(f)' = Target(f)
  PROVE  Holds(f, at, mine)'
<1>1. /\ Whole(f)' = Whole(f) /\ Length(f)' = Length(f)
      /\ \A o : Marker(f, o)' = Marker(f, o)
      /\ file' = file
  BY DEF transcripts, Whole, Length, Marker
<1>2. SameAs(f, mine)' <=> SameAs(f, mine)
  BY <1>1 DEF SameAs
<1>3. \A line : IsStored(line) => IsStored(line)'
  BY DEF IsStored
<1>4. ASSUME NEW o, StoredBefore(f, o) PROVE StoredBefore(f, o)'
  BY <1>1, <1>4 DEF StoredBefore, IsStored
<1> QED BY <1>1, <1>2, <1>3, <1>4 DEF Holds, IsStored

LEMMA HoldsNext ==
  ASSUME NEW r \in Readers, NEW f, NEW at, NEW mine,
         File(r)' = f, pc'[r] = at, local'[r] = mine, Holds(f, at, mine)'
  PROVE  Holds(File(r), pc[r], local[r])'
BY DEF Holds, StoredBefore, SameAs, Target, Marker, Whole, Length, IsStored

LEMMA QuietHeldKept ==
  ASSUME UNCHANGED transcripts, stored \subseteq stored', NEW r \in Readers, QuietHeld(r),
         pc'[r] = pc[r], run'[r] = run[r], local'[r] = local[r],
         AtWork(r) => Target(File(r))' = Target(File(r))
  PROVE  QuietHeld(r)'
<1> SUFFICES ASSUME AtWork(r) PROVE run'[r].now = lines' /\ Holds(File(r), pc[r], local[r])'
  BY DEF QuietHeld, AtWork
<1>1. PICK f : f = File(r)
  OBVIOUS
<1>2. PICK at : at = pc[r]
  OBVIOUS
<1>3. PICK mine : mine = local[r]
  OBVIOUS
<1>4. File(r)' = f /\ pc'[r] = at /\ local'[r] = mine
  BY <1>1, <1>2, <1>3 DEF File
<1>5. Holds(f, at, mine) /\ run[r].now = lines
  BY <1>1, <1>2, <1>3 DEF QuietHeld
<1>6. Target(f)' = Target(f)
  BY <1>1, <1>4 DEF Target, SameAs, Marker, Length
<1>7. Holds(f, at, mine)'
  BY <1>5, <1>6, HoldsKept
<1>8. Holds(File(r), pc[r], local[r])'
  BY <1>4, <1>7, HoldsNext
<1> QED BY <1>5, <1>8 DEF transcripts

\* A step of one reader that changes no file, row or cursor.
LEMMA QuietReader ==
  ASSUME QInv, Typed', UNCHANGED transcripts, UNCHANGED <<stored, cursor>>,
         NEW r \in Readers,
         \A q \in Readers \ {r} : pc'[q] = pc[q] /\ run'[q] = run[q] /\ local'[q] = local[q],
         QuietHeld(r)'
  PROVE  QInv'
<1>1. \A f \in Files : Target(f)' = Target(f)
  BY DEF transcripts, Target, SameAs, Marker, Length
<1>2. ASSUME NEW q \in Readers PROVE QuietHeld(q)'
  <2>1. AtWork(q) => Target(File(q))' = Target(File(q)) \/ q = r
    <3>1. CASE q # r /\ AtWork(q)
      <4>1. File(q) \in Files /\ run'[q] = run[q]
        BY <3>1, FileOf DEF QInv
      <4>2. File(q)' = File(q)
        BY <4>1 DEF File
      <4> QED BY <4>2 DEF transcripts, Target, SameAs, Marker, Length
    <3> QED BY <3>1
  <2>2. CASE q = r
    BY <2>2
  <2>3. CASE q # r
    BY <2>1, <2>3, QuietHeldKept DEF QInv
  <2> QED BY <2>2, <2>3
<1>3. LinesNamed' /\ RowsPlaced' /\ \A f \in Files' : TornApart(f)' /\ CursorPlaced(f)'
  <2>1. LinesNamed'
    BY DEF QInv, transcripts, LinesNamed, Files
  <2>2. RowsPlaced'
    BY DEF QInv, transcripts, RowsPlaced, Lies, Target, SameAs, Marker, Length, Whole
  <2>3. \A f \in Files' : TornApart(f)' /\ CursorPlaced(f)'
    BY DEF QInv, transcripts, TornApart, CursorPlaced, Files, SameAs, Marker, Length, Whole,
           StoredBefore, IsStored
  <2> QED BY <2>1, <2>2, <2>3
<1> QED BY <1>2, <1>3 DEF QInv

LEMMA QuietLeaves ==
  ASSUME QInv, Typed', NEW r \in Readers, StartRun(r) \/ OpenFails(r) \/ Abort(r)
  PROVE  QInv'
<1>1. UNCHANGED transcripts /\ UNCHANGED <<stored, cursor>>
  BY DEF StartRun, OpenFails, Abort
<1>2. /\ \A q \in Readers \ {r} :
           pc'[q] = pc[q] /\ run'[q] = run[q] /\ local'[q] = local[q]
      /\ pc'[r] = "idle" \/ (pc'[r] = "cursor" /\ run'[r].now = lines)
  <2>1. CASE StartRun(r)
    BY <2>1 DEF StartRun, QInv, Typed, TypeOK
  <2>2. CASE OpenFails(r) \/ Abort(r)
    <3>1. AtWork(r) /\ run[r].now = lines
      BY <2>2 DEF OpenFails, Abort, AtWork, QInv, QuietHeld
    <3>2. /\ pc \in [Readers -> Steps] /\ run \in [Readers -> Works]
          /\ local \in [Readers -> Locals]
      BY DEF QInv, Typed, TypeOK
    <3>3. EndRun(r) \/ NextFile(r)
      BY <2>2 DEF OpenFails, Abort, FileFails
    <3>4. CASE EndRun(r)
      BY <3>2, <3>4 DEF EndRun
    <3>5. CASE NextFile(r)
      <4>1. \A q \in Readers \ {r} :
              pc'[q] = pc[q] /\ run'[q] = run[q] /\ local'[q] = local[q]
        BY <3>2, <3>5 DEF NextFile
      <4>2. pc'[r] = "idle" \/ (pc'[r] = "cursor" /\ run'[r].now = run[r].now)
        BY <3>2, <3>5 DEF NextFile, Works
      <4> QED BY <3>1, <4>1, <4>2
    <3> QED BY <3>3, <3>4, <3>5
  <2> QED BY <2>1, <2>2
<1>3. QuietHeld(r)'
  BY <1>1, <1>2 DEF QuietHeld, AtWork, Holds, transcripts
<1> QED BY <1>1, <1>2, <1>3, QuietReader

\* A read from a position between two lines takes in the rest of the file but
\* for a line in the making.
LEMMA QuietRead ==
  ASSUME QInv, NEW f \in Files, NEW start, Even(start), start <= Length(f),
         StoredBefore(f, start), NEW length, length = Length(f)
  PROVE  /\ ReadEnd(f, start, length) = 2 * Whole(f)
         /\ \A b \in ReadLines(f, start, length) :
              \E j \in 1 .. Whole(f) : b.offset = 2 * (j - 1) /\ b.line = file[f][j]
         /\ \A j \in 1 .. Whole(f) :
              \/ IsStored(file[f][j])
              \/ \E b \in ReadLines(f, start, length) : b.line = file[f][j]
<1>1. PICK n \in Nat : start = 2 * n
  BY DEF Even
<1>2. /\ Whole(f) \in Nat /\ Length(f) \in Nat /\ Len(file[f]) \in Nat
      /\ partial[f] => Length(f) = 2 * Whole(f) + 1
      /\ ~partial[f] => Length(f) = 2 * Whole(f)
  BY QuietFacts
<1>3. ~Deferred(f, start, length)
  <2>1. (2 * n) % 2 = 0
    BY <1>1
  <2> QED BY <1>1, <2>1 DEF Deferred
<1>4. ReadEnd(f, start, length) = 2 * Whole(f)
  <2>1. CASE start >= Length(f)
    BY <1>1, <1>2, <2>1 DEF ReadEnd
  <2>2. CASE ~ (start >= Length(f)) /\ partial[f]
    BY <1>3, <2>2 DEF ReadEnd
  <2>3. CASE ~ (start >= Length(f)) /\ ~partial[f]
    BY <1>2, <1>3, <2>3 DEF ReadEnd
  <2> QED BY <2>1, <2>2, <2>3
<1>5. ReadLines(f, start, length) =
        {[offset |-> 2 * (j - 1), line |-> file[f][j]] :
           j \in {i \in 1 .. Whole(f) : 2 * (i - 1) >= start}}
  BY <1>3 DEF ReadLines
<1>6. ASSUME NEW j \in 1 .. Whole(f)
      PROVE  \/ IsStored(file[f][j])
             \/ \E b \in ReadLines(f, start, length) : b.line = file[f][j]
  <2>1. CASE 2 * (j - 1) >= start
    <3>1. [offset |-> 2 * (j - 1), line |-> file[f][j]] \in ReadLines(f, start, length)
      BY <1>5, <2>1
    <3> QED BY <3>1
  <2>2. CASE ~ (2 * (j - 1) >= start)
    <3>1. 2 * j <= start
      BY <1>1, <1>2, <2>2
    <3> QED BY <3>1 DEF StoredBefore
  <2> QED BY <2>1, <2>2
<1> QED BY <1>4, <1>5, <1>6

LEMMA QuietReads ==
  ASSUME QInv, Typed', NEW r \in Readers,
         \/ TakeCursor(r) \/ CheckMarker(r) \/ OpenFile(r) \/ ReadSuffix(r)
         \/ TakeMarker(r)
  PROVE  QInv'
<1>1. /\ AtWork(r) /\ UNCHANGED transcripts /\ UNCHANGED <<stored, cursor, run>>
      /\ \A q \in Readers \ {r} : pc'[q] = pc[q] /\ local'[q] = local[q]
  BY DEF TakeCursor, CheckMarker, OpenFile, ReadSuffix, TakeMarker, Moves, AtWork,
         QInv, Typed, TypeOK
<1>2. PICK f \in Files : f = File(r) /\ f = File(r)'
  BY <1>1, FileOf DEF File, QInv
<1>3. /\ local[r] \in Locals /\ r \in DOMAIN local /\ r \in DOMAIN pc
      /\ run[r].now = lines /\ Holds(f, pc[r], local[r])
  BY <1>1, <1>2 DEF QInv, Typed, TypeOK, QuietHeld
<1>4. PICK at : at = pc'[r]
  OBVIOUS
<1>5. PICK mine : mine = local'[r]
  OBVIOUS
<1>6. ASSUME Holds(f, at, mine)
      PROVE  QuietHeld(r)'
  <2>1. Target(f)' = Target(f)
    BY <1>1 DEF transcripts, Target, SameAs, Marker, Length
  <2>2. Holds(f, at, mine)'
    BY <1>1, <1>6, <2>1, HoldsKept
  <2>3. Holds(File(r), pc[r], local[r])'
    BY <1>2, <1>4, <1>5, <2>2, HoldsNext
  <2> QED BY <1>1, <1>3, <2>3 DEF QuietHeld, transcripts
<1>7. Whole(f) \in Nat /\ Length(f) \in Nat
  BY QuietFacts
<1>8. Holds(f, at, mine)
  <2>1. CASE TakeCursor(r)
    <3>1. /\ mine.offset = cursor[f].offset /\ mine.marker = cursor[f].marker
          /\ mine.generation = cursor[f].generation /\ at = "check"
      BY <1>2, <1>3, <1>4, <1>5, <2>1 DEF TakeCursor, Moves, Locals
    <3>2. Even(cursor[f].offset) /\ (SameAs(f, cursor[f]) => StoredBefore(f, cursor[f].offset))
      BY DEF QInv, CursorPlaced
    <3>3. SameAs(f, mine) <=> SameAs(f, cursor[f])
      BY <3>1 DEF SameAs
    <3> QED BY <3>1, <3>2, <3>3 DEF Holds, Target
  <2>2. CASE CheckMarker(r)
    <3>1. pc[r] = "check" /\ at = "open"
      BY <1>3, <1>4, <2>2 DEF CheckMarker, Moves
    <3>2. /\ Even(local[r].offset)
          /\ Target(f) = IF SameAs(f, local[r]) THEN local[r].generation
                         ELSE local[r].generation + 1
          /\ SameAs(f, local[r]) => StoredBefore(f, local[r].offset)
      BY <1>3, <3>1 DEF Holds
    <3>3. CASE SameAs(f, local[r])
      <4>1. mine = local[r]
        BY <1>2, <1>5, <2>2, <3>3 DEF CheckMarker, SameFile, SameAs
      <4> QED BY <3>1, <3>2, <3>3, <4>1 DEF Holds
    <3>4. CASE ~SameAs(f, local[r])
      <4>1. mine.offset = 0 /\ mine.generation = local[r].generation + 1
        BY <1>2, <1>3, <1>5, <2>2, <3>4 DEF CheckMarker, SameFile, SameAs, Locals
      <4>2. Even(0)
        BY DEF Even
      <4>3. StoredBefore(f, 0)
        BY <1>7 DEF StoredBefore
      <4> QED BY <3>1, <3>2, <3>4, <4>1, <4>2, <4>3 DEF Holds
    <3> QED BY <3>3, <3>4
  <2>3. CASE OpenFile(r)
    <3>1. pc[r] = "open" /\ at = "read"
      BY <1>3, <1>4, <2>3 DEF OpenFile, Moves
    <3>2. /\ Even(local[r].offset) /\ local[r].generation = Target(f)
          /\ StoredBefore(f, local[r].offset)
      BY <1>3, <3>1 DEF Holds
    <3>3. /\ mine.length = Length(f) /\ mine.generation = local[r].generation
          /\ mine.offset = IF local[r].offset > Length(f) THEN 0 ELSE local[r].offset
      BY <1>2, <1>3, <1>5, <2>3 DEF OpenFile, Locals
    <3>4. Even(0) /\ StoredBefore(f, 0)
      BY <1>7 DEF Even, StoredBefore
    <3>5. mine.offset <= Length(f) /\ Even(mine.offset) /\ StoredBefore(f, mine.offset)
      <4>1. local[r].offset \in Int
        BY <3>2 DEF Even
      <4> QED BY <1>7, <3>2, <3>3, <3>4, <4>1
    <3> QED BY <3>1, <3>2, <3>3, <3>5 DEF Holds
  <2>4. CASE ReadSuffix(r)
    <3> DEFINE start == local[r].offset
               length == local[r].length
    <3>1. pc[r] = "read" /\ at = "mark"
      BY <1>3, <1>4, <2>4 DEF ReadSuffix, Moves
    <3>2. /\ Even(start) /\ local[r].generation = Target(f) /\ StoredBefore(f, start)
          /\ length = Length(f) /\ start <= Length(f)
      BY <1>3, <3>1 DEF Holds
    <3>3. /\ mine.generation = local[r].generation
          /\ mine.offset = ReadEnd(f, start, length)
          /\ mine.batch = {b \in ReadLines(f, start, length) : b.line <= lines + Tolerance}
      BY <1>2, <1>3, <1>5, <2>4 DEF ReadSuffix, Locals
    <3> HIDE DEF start, length
    <3>4. /\ ReadEnd(f, start, length) = 2 * Whole(f)
          /\ \A b \in ReadLines(f, start, length) :
               \E j \in 1 .. Whole(f) : b.offset = 2 * (j - 1) /\ b.line = file[f][j]
          /\ \A j \in 1 .. Whole(f) :
               \/ IsStored(file[f][j])
               \/ \E b \in ReadLines(f, start, length) : b.line = file[f][j]
      BY <3>2, QuietRead
    <3>5. ASSUME NEW b \in ReadLines(f, start, length) PROVE b.line <= lines + Tolerance
      <4>1. PICK j \in 1 .. Whole(f) : b.line = file[f][j]
        BY <3>4
      <4>2. file[f][j] \in Int /\ file[f][j] <= lines
        BY <1>7, <4>1, QuietFacts
      <4>3. lines \in Nat /\ Tolerance \in Nat
        BY ScenarioFacts DEF QInv, Typed, TypeOK
      <4> QED BY <4>1, <4>2, <4>3
    <3>6. mine.batch = ReadLines(f, start, length)
      BY <3>3, <3>5
    <3> QED BY <3>1, <3>2, <3>3, <3>4, <3>6 DEF Holds
  <2>5. CASE TakeMarker(r)
    <3>1. pc[r] = "mark" /\ at = "commit"
      BY <1>3, <1>4, <2>5 DEF TakeMarker, Moves
    <3>2. /\ mine.generation = local[r].generation /\ mine.offset = local[r].offset
          /\ mine.batch = local[r].batch /\ mine.marker = Marker(f, local[r].offset)
      BY <1>2, <1>3, <1>5, <2>5 DEF TakeMarker, Locals
    <3> QED BY <1>3, <3>1, <3>2 DEF Holds
  <2> QED BY <2>1, <2>2, <2>3, <2>4, <2>5
<1> QED BY <1>1, <1>6, <1>8, QuietReader

\* What the transaction of a reader works with.
LEMMA AtQuietCommit ==
  ASSUME QInv, NEW r \in Readers, Commit(r)
  PROVE  /\ File(r) \in Files /\ AtWork(r) /\ UNCHANGED transcripts
         /\ stored' = stored \cup New(File(r), local[r])
         /\ run[r].now = lines /\ Holds(File(r), "commit", local[r])
BY FileOf DEF Commit, AtWork, QInv, QuietHeld

\* A row that is in the way of another is of the same generation, and holds
\* the same line.
LEMMA QuietCommitStores ==
  ASSUME QInv, NEW r \in Readers, Commit(r), NEW b \in local[r].batch
  PROVE  \E row \in stored' : row.line = b.line
<1> DEFINE f == File(r)
           new == [file |-> f, generation |-> local[r].generation,
                   offset |-> b.offset, line |-> b.line]
<1>1. /\ stored' = stored \cup New(f, local[r]) /\ f \in Files
      /\ local[r].generation = Target(f)
      /\ \E j \in 1 .. Whole(f) : b.offset = 2 * (j - 1) /\ b.line = file[f][j]
  BY AtQuietCommit DEF Holds
<1>2. CASE new \in New(f, local[r])
  BY <1>1, <1>2
<1>3. CASE new \notin New(f, local[r])
  <2>1. PICK old \in stored :
          old.file = f /\ old.generation = new.generation /\ old.offset = new.offset
    BY <1>3 DEF New
  <2>2. Lies(old)
    BY <1>1, <2>1 DEF QInv, RowsPlaced
  <2>3. PICK i \in 1 .. Whole(f) : old.offset = 2 * (i - 1) /\ old.line = file[f][i]
    BY <2>1, <2>2 DEF Lies
  <2>4. PICK j \in 1 .. Whole(f) : b.offset = 2 * (j - 1) /\ b.line = file[f][j]
    BY <1>1
  <2>5. i = j
    <3>1. Whole(f) \in Nat
      BY <1>1, QuietFacts
    <3> QED BY <2>1, <2>3, <2>4, <3>1
  <2> QED BY <1>1, <2>3, <2>4, <2>5
<1> QED BY <1>2, <1>3

\* What is stored after the transaction, and where the cursor is.
LEMMA AfterCommit ==
  ASSUME QInv, NEW r \in Readers, Commit(r), NEW f \in Files, f = File(r)
  PROVE  /\ stored \subseteq stored'
         /\ \A j \in 1 .. Whole(f) : IsStored(file[f][j])'
         /\ \A g \in Files \ {f} : cursor'[g] = cursor[g]
         /\ cursor'[f].offset = 2 * Whole(f) /\ cursor'[f].generation = Target(f)
         /\ cursor'[f].marker = Marker(f, 2 * Whole(f))
         /\ Target(f)' = Target(f)
<1>1. /\ UNCHANGED transcripts
      /\ stored' = stored \cup New(f, local[r])
      /\ Holds(f, "commit", local[r])
  BY AtQuietCommit
<1>2. ASSUME NEW j \in 1 .. Whole(f) PROVE \E row \in stored' : row.line = file[f][j]
  <2>1. CASE IsStored(file[f][j])
    BY <1>1, <2>1 DEF IsStored
  <2>2. CASE \E b \in local[r].batch : b.line = file[f][j]
    BY <2>2, QuietCommitStores
  <2> QED BY <1>1, <2>1, <2>2 DEF Holds
<1>3. /\ \A g \in Files \ {f} : cursor'[g] = cursor[g]
      /\ cursor'[f].offset = local[r].offset
      /\ cursor'[f].generation = local[r].generation
      /\ cursor'[f].marker = local[r].marker
  BY DEF Commit, QInv, Typed, TypeOK
<1>4. /\ local[r].offset = 2 * Whole(f) /\ local[r].generation = Target(f)
      /\ local[r].marker = Marker(f, 2 * Whole(f))
  BY <1>1 DEF Holds
<1>5. Target(f)' = Target(f)
  <2>1. cursor'[f].marker = Marker(f, cursor[f].offset)'
    BY <1>1, <1>3, <1>4 DEF transcripts, Marker, Length
  <2>2. SameAs(f, cursor[f])'
    BY <2>1 DEF SameAs
  <2> QED BY <1>3, <1>4, <2>2 DEF Target
<1>6. \A j \in 1 .. Whole(f) : IsStored(file[f][j])'
  BY <1>1, <1>2 DEF transcripts, IsStored
<1> QED BY <1>1, <1>3, <1>4, <1>5, <1>6

LEMMA QuietCommit ==
  ASSUME QInv, Typed', NEW r \in Readers, Commit(r)
  PROVE  QInv'
<1>1. PICK f \in Files : f = File(r)
  BY AtQuietCommit
<1>2. /\ UNCHANGED transcripts /\ stored' = stored \cup New(f, local[r])
      /\ Holds(f, "commit", local[r]) /\ run[r].now = lines
  BY <1>1, AtQuietCommit
<1>3. /\ stored \subseteq stored'
      /\ \A j \in 1 .. Whole(f) : IsStored(file[f][j])'
      /\ \A g \in Files \ {f} : cursor'[g] = cursor[g]
      /\ cursor'[f].offset = 2 * Whole(f) /\ cursor'[f].generation = Target(f)
      /\ cursor'[f].marker = Marker(f, 2 * Whole(f))
      /\ Target(f)' = Target(f)
  BY <1>1, AfterCommit
<1>4. /\ Files' = Files /\ file' = file /\ partial' = partial /\ lines' = lines
      /\ \A g \in Files : Whole(g)' = Whole(g)
      /\ \A g, o : Marker(g, o)' = Marker(g, o)
  BY <1>2 DEF transcripts, Files, Whole, Length, Marker
<1>5. \A g \in Files : Target(g)' = Target(g)
  <2>1. ASSUME NEW g \in Files, g # f PROVE Target(g)' = Target(g)
    BY <1>3, <1>4, <2>1 DEF Target, SameAs
  <2> QED BY <1>3, <2>1
<1>6. ASSUME NEW q \in Readers PROVE QuietHeld(q)'
  <2>1. CASE q = r
    <3>1. /\ pc \in [Readers -> Steps] /\ run \in [Readers -> Works]
          /\ NextFile(r)
      BY DEF QInv, Typed, TypeOK, Commit
    <3>2. pc'[r] = "idle" \/ (pc'[r] = "cursor" /\ run'[r].now = run[r].now)
      BY <3>1 DEF NextFile, Works
    <3> QED BY <1>2, <1>4, <2>1, <3>2 DEF QuietHeld, AtWork, Holds
  <2>2. CASE q # r
    <3>1. pc'[q] = pc[q] /\ run'[q] = run[q] /\ local'[q] = local[q]
      BY <2>2 DEF Commit, NextFile, QInv, Typed, TypeOK
    <3>2. ASSUME AtWork(q) PROVE Target(File(q))' = Target(File(q))
      <4>1. PICK g \in Files : g = File(q)
        BY <3>2, FileOf DEF QInv
      <4>2. File(q)' = g
        BY <3>1, <4>1 DEF File
      <4>3. Target(g)' = Target(g)
        BY <1>5
      <4> QED BY <4>1, <4>2, <4>3 DEF Target, SameAs, Marker, Length
    <3> QED BY <1>2, <1>3, <3>1, <3>2, QuietHeldKept DEF QInv
  <2> QED BY <2>1, <2>2
<1>7. LinesNamed'
  BY <1>4 DEF QInv, LinesNamed
<1>8. /\ Whole(f) \in Nat /\ Length(f) \in Nat /\ 2 * Whole(f) <= Length(f)
      /\ Whole(f) <= Len(file[f]) /\ Len(file[f]) \in Nat
      /\ \A j \in 1 .. Len(file[f]) : file[f][j] \in Int /\ file[f][j] <= lines
  BY QuietFacts
<1>9. ASSUME NEW g \in Files PROVE TornApart(g)' /\ CursorPlaced(g)'
  <2>1. TornApart(g)'
    BY <1>4 DEF QInv, TornApart
  <2>2. CASE g = f
    <3>1. Even(2 * Whole(f))
      BY <1>8 DEF Even
    <3>2. ASSUME Whole(f) # 0
          PROVE  /\ Marker(f, 2 * Whole(f)) = <<2 * Whole(f), file[f][1], file[f][Whole(f)]>>
                 /\ Marker(f, 2 * Whole(f)) # None
                 /\ file[f][Whole(f)] <= lines
                 /\ partial[f] => file[f][Len(file[f])] # file[f][Whole(f)]
      <4>1. (2 * Whole(f) + 1) \div 2 = Whole(f)
        BY <1>8
      <4>2. Marker(f, 2 * Whole(f)) = <<2 * Whole(f), file[f][1], file[f][Whole(f)]>>
        <5>1. 2 * Whole(f) # 0 /\ ~ (2 * Whole(f) > Length(f))
          BY <1>8, <3>2
        <5> QED BY <4>1, <5>1 DEF Marker
      <4>3. 1 \in 1 .. Len(file[f]) /\ Whole(f) \in 1 .. Len(file[f])
        BY <1>8, <3>2
      <4>4. Marker(f, 2 * Whole(f)) \in Int \X Int \X Int
        BY <1>8, <4>2, <4>3
      <4>5. partial[f] => file[f][Len(file[f])] # file[f][Whole(f)]
        BY <1>8, <3>2 DEF QInv, TornApart
      <4> QED BY <1>8, <4>2, <4>3, <4>4, <4>5, TranscriptAssumption
    <3>3. StoredBefore(f, cursor[f].offset)'
      BY <1>3, <1>4 DEF StoredBefore, IsStored
    <3>4. cursor'[f].offset # 0 =>
            /\ cursor'[f].marker # None
            /\ cursor'[f].marker[3] <= lines'
            /\ partial'[f] => file'[f][Len(file'[f])] # cursor'[f].marker[3]
      BY <1>3, <1>4, <1>8, <3>2
    <3> QED BY <1>3, <2>1, <2>2, <3>1, <3>3, <3>4 DEF CursorPlaced
  <2>3. CASE g # f
    <3>1. CursorPlaced(g)
      BY DEF QInv
    <3>2. cursor'[g] = cursor[g] /\ Whole(g)' = Whole(g)
      BY <1>3, <1>4, <2>3
    <3>3. SameAs(g, cursor[g])' <=> SameAs(g, cursor[g])
      BY <1>4, <3>2 DEF SameAs
    <3>4. StoredBefore(g, cursor[g].offset) => StoredBefore(g, cursor[g].offset)'
      BY <1>3, <1>4, <3>2 DEF StoredBefore, IsStored
    <3> QED BY <1>4, <2>1, <3>1, <3>2, <3>3, <3>4 DEF CursorPlaced
  <2> QED BY <2>2, <2>3
<1>10. RowsPlaced'
  <2> SUFFICES ASSUME NEW row \in stored'
               PROVE  /\ row.generation <= cursor'[row.file].generation
                      /\ row.generation = Target(row.file)' => Lies(row)'
    BY DEF RowsPlaced
  <2>1. CASE row \in stored
    <3>1. /\ row.file \in Files /\ row.generation \in Nat
          /\ cursor[row.file].generation \in Nat
      BY <2>1 DEF QInv, Typed, TypeOK, Rows, Cursors
    <3>2. /\ row.generation <= cursor[row.file].generation
          /\ row.generation = Target(row.file) => Lies(row)
      BY <2>1 DEF QInv, RowsPlaced
    <3>3. CASE row.file # f
      <4>1. cursor'[row.file] = cursor[row.file] /\ Target(row.file)' = Target(row.file)
        BY <1>3, <1>5, <3>1, <3>3
      <4>2. Lies(row) => Lies(row)'
        BY <1>4, <3>1, <4>1 DEF Lies
      <4> QED BY <3>2, <4>1, <4>2
    <3>4. CASE row.file = f
      <4>1. row.generation <= cursor'[f].generation
        BY <1>3, <3>1, <3>2, <3>4 DEF Target
      <4>2. Lies(row) => Lies(row)'
        BY <1>3, <1>4, <1>8, <3>4 DEF Lies
      <4> QED BY <1>3, <3>2, <3>4, <4>1, <4>2
    <3> QED BY <3>3, <3>4
  <2>2. CASE row \in New(f, local[r])
    <3>1. PICK b \in local[r].batch :
            /\ row.file = f /\ row.generation = local[r].generation
            /\ row.offset = b.offset /\ row.line = b.line
      BY <2>2 DEF New
    <3>2. PICK j \in 1 .. Whole(f) : b.offset = 2 * (j - 1) /\ b.line = file[f][j]
      BY <1>2 DEF Holds
    <3>3. Target(f) \in Int /\ local[r].generation = Target(f)
      BY <1>2 DEF Holds, Target, QInv, Typed, TypeOK, Cursors
    <3>4. Lies(row)'
      <4>1. 2 * j <= cursor'[f].offset
        BY <1>3, <1>8
      <4> QED BY <1>4, <3>1, <3>2, <4>1 DEF Lies
    <3> QED BY <1>3, <3>1, <3>3, <3>4
  <2> QED BY <1>2, <2>1, <2>2
<1> QED BY <1>4, <1>6, <1>7, <1>9, <1>10 DEF QInv

LEMMA QInvInit == Init => QInv
<1> SUFFICES ASSUME Init PROVE QInv
  OBVIOUS
<1>1. Typed
  BY TypedInit
<1>2. stored = {} /\ \A f \in Files : ~partial[f] /\ Len(file[f]) = 0
  BY EmptySeq DEF Init
<1>3. \A f \in Files : TornApart(f) /\ CursorPlaced(f)
  BY <1>2 DEF Init, TornApart, CursorPlaced, Even, StoredBefore, Whole
<1>4. \A r \in Readers : QuietHeld(r)
  BY DEF Init, QuietHeld, AtWork
<1> QED BY <1>1, <1>2, <1>3, <1>4 DEF QInv, RowsPlaced, LinesNamed

LEMMA QInvStep == Quiet /\ QInv /\ [Next]_vars => QInv'
<1> SUFFICES ASSUME Quiet, QInv, [Next]_vars PROVE QInv'
  OBVIOUS
<1>1. Typed'
  BY TypedStep DEF QInv
<1>2. CASE UNCHANGED vars
  <2>1. UNCHANGED transcripts /\ UNCHANGED <<stored, cursor, pc, run, local>>
    BY <1>2 DEF vars, transcripts
  <2>2. LinesNamed'
    BY <2>1 DEF QInv, transcripts, LinesNamed, Files
  <2>3. RowsPlaced'
    BY <2>1 DEF QInv, transcripts, RowsPlaced, Lies, Target, SameAs, Marker, Length, Whole
  <2>4. \A f \in Files' : TornApart(f)' /\ CursorPlaced(f)'
    BY <2>1 DEF QInv, transcripts, TornApart, CursorPlaced, Files, SameAs, Marker, Length,
                Whole, StoredBefore, IsStored
  <2>5. ASSUME NEW r \in Readers PROVE QuietHeld(r)'
    <3>1. Target(File(r))' = Target(File(r))
      BY <2>1 DEF transcripts, File, Target, SameAs, Marker, Length
    <3> QED BY <2>1, <3>1, QuietHeldKept DEF QInv
  <2> QED BY <1>1, <2>2, <2>3, <2>4, <2>5 DEF QInv
<1>3. CASE Next
  BY <1>1, <1>3, QuietWrites, QuietLeaves, QuietReads, QuietCommit DEF Next, GoesOn
<1> QED BY <1>2, <1>3

-----------------------------------------------------------------------------
(* What both have in common.                                               *)

\* Every transcript is written in one of the two ways.
Orderly == \A s \in Scenarios : s.manner \in {"steady", "quiet"}

OInv == (Steady \/ Quiet) /\ (Steady => IInv) /\ (Quiet => QInv)

LEMMA OInvTyped == OInv => Typed
BY DEF OInv, IInv, QInv

LEMMA TableGrows ==
  ASSUME Typed, [Next]_vars
  PROVE  scenario' = scenario /\ Files' = Files /\ stored \subseteq stored'
<1>1. scenario' = scenario /\ stored \subseteq stored'
  <2>1. CASE UNCHANGED vars
    BY <2>1 DEF vars
  <2>2. CASE \E f \in Files : CodexAppends(f) \/ FinishLine(f) \/ Truncate(f)
    BY <2>2 DEF CodexAppends, FinishLine, Truncate
  <2>3. CASE \E r \in Readers : StartRun(r) \/ GoesOn(r) \/ Abort(r)
    BY <2>3 DEF StartRun, GoesOn, Abort, TakeCursor, CheckMarker, OpenFile, OpenFails,
                ReadSuffix, TakeMarker, Commit, transcripts
  <2> QED BY <2>1, <2>2, <2>3 DEF Next
<1> QED BY <1>1 DEF Files

LEMMA OInvInit ==
  ASSUME Orderly
  PROVE  Init => OInv
BY IInvInit, QInvInit DEF Init, Orderly, OInv, Steady, Quiet

LEMMA OInvStep == OInv /\ ReadsOnTime /\ [Next]_vars => OInv'
<1> SUFFICES ASSUME OInv, ReadsOnTime, [Next]_vars PROVE OInv'
  OBVIOUS
<1>1. (Steady' <=> Steady) /\ (Quiet' <=> Quiet)
  BY OInvTyped, TableGrows DEF Steady, Quiet
<1> QED BY <1>1, IInvStep, QInvStep DEF OInv

\* Whoever leaves a commit without failing has committed.
LEMMA OnlyCommit ==
  ASSUME Typed, Next, NEW r \in Readers,
         pc[r] = "commit", pc'[r] # "commit", aborts' = aborts
  PROVE  Commit(r)
<1>1. CASE \E f \in Files : CodexAppends(f) \/ FinishLine(f) \/ Truncate(f)
  BY <1>1 DEF CodexAppends, FinishLine, Truncate
<1>2. ASSUME NEW q \in Readers, StartRun(q) \/ GoesOn(q) \/ Abort(q)
      PROVE  Commit(r)
  <2>1. ~Abort(q)
    BY DEF Abort, Typed, TypeOK
  <2>2. q = r
    <3>1. CASE StartRun(q)
      BY <3>1 DEF StartRun, Typed, TypeOK
    <3>2. CASE GoesOn(q)
      BY <3>2 DEF GoesOn, TakeCursor, CheckMarker, OpenFile, OpenFails, ReadSuffix,
                  TakeMarker, Commit, Moves, FileFails, EndRun, NextFile, Typed, TypeOK
    <3> QED BY <1>2, <2>1, <3>1, <3>2
  <2> QED BY <1>2, <2>1, <2>2 DEF StartRun, GoesOn, TakeCursor, CheckMarker, OpenFile,
                                  OpenFails, ReadSuffix, TakeMarker, Moves
<1> QED BY <1>1, <1>2 DEF Next

\* Readers that overlap in any way, and put older cursors back, never move a
\* cursor past a line that is not stored, as long as each reads its files on
\* time: neither while whole lines are appended, nor where files are torn,
\* truncated and started anew between two runs.
THEOREM NothingSkipped ==
  ASSUME Orderly
  PROVE  Spec /\ []ReadsOnTime => []BehindCursorStored
<1>1. OInv => BehindCursorStored
  <2> SUFFICES ASSUME OInv, NEW f \in Files, Resumes(f), NEW j \in 1 .. Whole(f),
                      2 * j <= cursor[f].offset
               PROVE  IsStored(file[f][j])
    BY DEF BehindCursorStored
  <2>1. CASE Steady
    <3>1. IInv
      BY <2>1 DEF OInv
    <3>2. PICK n \in 0 .. Len(file[f]) :
            cursor[f].offset = 2 * n /\ \A i \in 1 .. n : IsStored(file[f][i])
      BY <3>1 DEF IInv, Sound
    <3>3. j \in 1 .. n
      BY <3>1, <3>2, WholeFile
    <3> QED BY <3>2, <3>3
  <2>2. CASE Quiet
    <3>1. QInv
      BY <2>2 DEF OInv
    <3>2. SameAs(f, cursor[f])
      BY DEF Resumes, SameAs
    <3> QED BY <3>1, <3>2 DEF QInv, CursorPlaced, StoredBefore
  <2> QED BY <2>1, <2>2 DEF OInv
<1>2. Init => OInv
  BY OInvInit
<1>3. OInv /\ ReadsOnTime /\ [Next]_vars => OInv'
  BY OInvStep
<1> QED BY <1>1, <1>2, <1>3, PTL DEF Spec

\* What is read and committed is stored under its own name: the key of a line
\* is taken by another row only if that row holds the same line, and never by
\* a line that was at its offset before the file was replaced.
THEOREM BatchesStored ==
  ASSUME Orderly
  PROVE  Spec /\ []ReadsOnTime => BatchStored
<1>1. ASSUME OInv, [Next]_vars
      PROVE  [\A r \in Readers :
                pc[r] = "commit" /\ pc'[r] # "commit" /\ aborts' = aborts =>
                  \A b \in local[r].batch : \E row \in stored' : row.line = b.line]_vars
  <2>1. ASSUME Next, NEW r \in Readers, pc[r] = "commit", pc'[r] # "commit",
               aborts' = aborts, NEW b \in local[r].batch
        PROVE  \E row \in stored' : row.line = b.line
    <3>1. Commit(r)
      BY <1>1, <2>1, OInvTyped, OnlyCommit
    <3> QED BY <1>1, <2>1, <3>1, CommitStores, QuietCommitStores DEF OInv
  <2> QED BY <1>1, <2>1
<1>2. Init => OInv
  BY OInvInit
<1>3. OInv /\ ReadsOnTime /\ [Next]_vars => OInv'
  BY OInvStep
<1> QED BY <1>1, <1>2, <1>3, PTL DEF Spec, BatchStored

-----------------------------------------------------------------------------
(* The history import.                                                     *)

Imports(r) == AtWork(r) /\ scenario.role[r].kind = "import"
Done(r, f) == \A i \in 1 .. Len(run[r].todo) : run[r].todo[i] # f

\* What an import has passed by is stored up to the import's beginning.
PassedStored ==
  aborts = 0 =>
    \A r \in Readers : Imports(r) =>
      \A f \in Files \ scenario.broken : Done(r, f) =>
        \A j \in 1 .. Whole(f) : file[f][j] <= run[r].now => IsStored(file[f][j])

LEMMA NoAbort ==
  ASSUME Typed, Next, aborts' = 0
  PROVE  aborts = 0 /\ \A r \in Readers : ~Abort(r)
<1>1. aborts \in Nat
  BY ScenarioFacts DEF Typed, TypeOK
<1>2. aborts' \in {aborts, aborts + 1}
  BY DEF Next, CodexAppends, FinishLine, Truncate, StartRun, GoesOn, TakeCursor,
         CheckMarker, OpenFile, OpenFails, ReadSuffix, TakeMarker, Commit, Abort
<1> QED BY <1>1, <1>2 DEF Abort

\* The file that an import is done with now, or was before.
LEMMA FileDone ==
  ASSUME OInv, PassedStored, aborts = 0, stored \subseteq stored',
         NEW r \in Readers, Imports(r), Commit(r) \/ OpenFails(r),
         NEW f \in Files \ scenario.broken, Done(r, f) \/ f = File(r),
         NEW j \in 1 .. Whole(f), file[f][j] <= run[r].now
  PROVE  \E row \in stored' : row.line = file[f][j]
<1>1. CASE Done(r, f)
  <2>1. IsStored(file[f][j])
    BY <1>1 DEF PassedStored
  <2> QED BY <2>1 DEF IsStored
<1>2. CASE f = File(r) /\ Steady
  <2>1. Commit(r) /\ IInv
    BY <1>2 DEF OpenFails, OInv
  <2>2. PICK n \in 0 .. Len(file[f]) :
          /\ \A i \in 1 .. n : \/ IsStored(file[f][i])
                               \/ \E b \in local[r].batch : b.line = file[f][i]
          /\ \A i \in n + 1 .. Len(file[f]) : file[f][i] > run[r].now
    BY <1>2, <2>1, AtCommit DEF Covers
  <2>3. j \in 1 .. n
    <3>1. /\ Len(file[f]) \in Nat /\ Whole(f) = Len(file[f])
          /\ file[f][j] \in Int /\ run[r].now \in Int
      <4>1. file[f] \in Seq(Names) /\ Len(file[f]) \in Nat /\ Whole(f) = Len(file[f])
        BY <2>1, WholeFile
      <4>2. file[f][j] \in Names
        BY <4>1, ElementOfSeq
      <4>3. run[r].now \in 0 .. lines
        BY <2>1 DEF IInv, Typed, TypeOK, Works
      <4> QED BY <4>1, <4>2, <4>3 DEF Names
    <3>2. ~(j \in n + 1 .. Len(file[f]))
      BY <2>2, <3>1
    <3> QED BY <3>1, <3>2
  <2>4. CASE IsStored(file[f][j])
    BY <2>4 DEF IsStored
  <2>5. CASE \E b \in local[r].batch : b.line = file[f][j]
    BY <2>1, <2>5, CommitStores
  <2> QED BY <2>2, <2>3, <2>4, <2>5
<1>3. CASE f = File(r) /\ Quiet
  <2>1. Commit(r) /\ QInv
    BY <1>3 DEF OpenFails, OInv
  <2>2. IsStored(file[f][j])'
    BY <1>3, <2>1, AfterCommit
  <2>3. file' = file
    BY <2>1 DEF Commit, transcripts
  <2> QED BY <2>2, <2>3 DEF IsStored
<1> QED BY <1>1, <1>2, <1>3 DEF OInv

\* An import that nothing kills goes from file to file.
LEMMA ImportMoves ==
  ASSUME Typed, Next, aborts' = 0, NEW r \in Readers, Imports(r)
  PROVE  \/ run'[r] = run[r] /\ pc'[r] # "idle"
         \/ /\ Commit(r) \/ OpenFails(r)
            /\ NextFile(r)
<1>1. CASE \E f \in Files : CodexAppends(f) \/ FinishLine(f) \/ Truncate(f)
  BY <1>1 DEF CodexAppends, FinishLine, Truncate, Imports, AtWork
<1>2. ASSUME NEW q \in Readers, StartRun(q) \/ GoesOn(q)
      PROVE  \/ run'[r] = run[r] /\ pc'[r] # "idle"
             \/ /\ Commit(r) \/ OpenFails(r)
                /\ NextFile(r)
  <2>1. CASE q # r
    <3>1. run'[r] = run[r] /\ pc'[r] = pc[r]
      BY <1>2, <2>1 DEF StartRun, GoesOn, TakeCursor, CheckMarker, OpenFile, OpenFails,
                        ReadSuffix, TakeMarker, Commit, Moves, FileFails, EndRun, NextFile,
                        Typed, TypeOK
    <3> QED BY <3>1 DEF Imports, AtWork
  <2>2. CASE q = r /\ (TakeCursor(q) \/ CheckMarker(q) \/ OpenFile(q) \/ ReadSuffix(q)
                        \/ TakeMarker(q))
    BY <2>2 DEF TakeCursor, CheckMarker, OpenFile, ReadSuffix, TakeMarker, Moves, Typed,
                TypeOK
  <2>3. CASE q = r /\ (Commit(q) \/ OpenFails(q))
    BY <2>3 DEF Commit, OpenFails, FileFails, Imports
  <2>4. CASE q = r /\ StartRun(q)
    BY <2>4 DEF StartRun, Imports, AtWork
  <2> QED BY <1>2, <2>1, <2>2, <2>3, <2>4 DEF GoesOn
<1> QED BY <1>1, <1>2, NoAbort DEF Next

\* An import that begins has every file before it.
LEMMA ImportStarts ==
  ASSUME Typed, Next, aborts' = 0, NEW r \in Readers, ~AtWork(r), Imports(r)',
         NEW f \in Files
  PROVE  ~Done(r, f)'
<1>1. scenario' = scenario /\ ~Abort(r)
  BY TableGrows, NoAbort
<1>2. StartRun(r)
  BY <1>1
     DEF Imports, AtWork, Next, CodexAppends, FinishLine, Truncate, StartRun, GoesOn,
         TakeCursor, CheckMarker, OpenFile, OpenFails, ReadSuffix, TakeMarker, Commit,
         Abort, Moves, FileFails, EndRun, NextFile, Typed, TypeOK
<1>3. run'[r].todo = Candidates
  BY <1>1, <1>2 DEF StartRun, ToRead, Imports, Typed, TypeOK
<1>4. f \in 1 .. Len(Candidates) /\ Candidates[f] = f
  <2>1. scenario.files \in Nat
    BY ScenarioFacts DEF Typed, TypeOK
  <2> QED BY <2>1 DEF Candidates, Files
<1> QED BY <1>3, <1>4 DEF Done

\* A file that an import has passed by it passes by now, or has before.
LEMMA DoneAfter ==
  ASSUME Typed, NEW r \in Readers, Imports(r), Imports(r)', NextFile(r),
         NEW f, Done(r, f)'
  PROVE  run'[r].now = run[r].now /\ (Done(r, f) \/ f = File(r))
<1>1. /\ run' = [run EXCEPT ![r].todo = Tail(run[r].todo)]
      /\ Len(run[r].todo) # 1
  BY DEF NextFile, Imports, AtWork, Typed, TypeOK
<1>2. run'[r].todo = Tail(run[r].todo) /\ run'[r].now = run[r].now
  BY <1>1 DEF Typed, TypeOK, Works
<1>3. /\ run[r].todo \in Seq(Files) /\ run[r].todo # <<>> /\ Len(run[r].todo) \in Nat
      /\ Len(Tail(run[r].todo)) = Len(run[r].todo) - 1
      /\ \A i \in 1 .. Len(Tail(run[r].todo)) : Tail(run[r].todo)[i] = run[r].todo[i + 1]
  BY FileOf, HeadTailProperties DEF Imports
<1>4. ASSUME NEW i \in 1 .. Len(run[r].todo), i # 1 PROVE run[r].todo[i] # f
  <2>1. i - 1 \in 1 .. Len(Tail(run[r].todo)) /\ (i - 1) + 1 = i
    BY <1>3, <1>4
  <2>2. Tail(run[r].todo)[i - 1] = run[r].todo[i]
    BY <1>3, <2>1
  <2> QED BY <1>2, <2>1, <2>2 DEF Done
<1>5. File(r) = run[r].todo[1]
  BY <1>3 DEF File
<1> QED BY <1>2, <1>4, <1>5 DEF Done

\* A line that is no newer than a run at work was there when it began, or its
\* file has not changed since.
LEMMA OldLines ==
  ASSUME OInv, Next, NEW r \in Readers, AtWork(r), NEW f \in Files,
         NEW j \in 1 .. Whole(f)', file'[f][j] <= run[r].now
  PROVE  j \in 1 .. Whole(f) /\ file'[f][j] = file[f][j]
<1>1. CASE Steady
  <2>1. IInv /\ Typed' /\ Grown /\ (\A g \in Files' : ~partial'[g]) /\ f \in Files'
    BY <1>1, TypedStep, GrownStep, TableGrows, OInvTyped DEF OInv
  <2>2. /\ Len(file[f]) \in Nat /\ Whole(f) = Len(file[f])
        /\ file'[f] \in Seq(Names) /\ Len(file'[f]) \in Nat
        /\ Whole(f)' = Len(file'[f])
    <3>1. file'[f] \in Seq(Names) /\ Len(file'[f]) \in Nat
      BY <2>1, LenProperties DEF Typed, TypeOK
    <3>2. Whole(f)' = Len(file'[f]) - 0
      BY <2>1 DEF Whole
    <3> QED BY <2>1, <3>1, <3>2, WholeFile
  <2>3. file'[f][j] \in Int /\ lines \in Nat /\ run[r].now \in 0 .. lines
    <3>1. file'[f][j] \in Names
      BY <2>2, ElementOfSeq
    <3>2. lines \in Nat /\ run[r].now \in 0 .. lines
      BY <2>1, ScenarioFacts DEF IInv, Typed, TypeOK, Works
    <3> QED BY <3>1, <3>2 DEF Names
  <2>4. ASSUME j > Len(file[f]) PROVE FALSE
    <3>1. j \in Len(file[f]) + 1 .. Len(file[f])'
      BY <2>2, <2>4
    <3>2. file'[f][j] > lines
      BY <2>1, <3>1 DEF Grown
    <3> QED BY <2>3, <3>2
  <2>5. j \in 1 .. Len(file[f])
    BY <2>2, <2>4
  <2> QED BY <2>1, <2>2, <2>5 DEF Grown
<1>2. CASE Quiet
  <2>1. UNCHANGED transcripts
    <3>1. CASE \E g \in Files : CodexAppends(g) \/ FinishLine(g) \/ Truncate(g)
      BY <1>2, <3>1 DEF CodexAppends, FinishLine, Truncate, MayWrite, Quiet, AtWork
    <3>2. CASE \E q \in Readers : StartRun(q) \/ GoesOn(q) \/ Abort(q)
      BY <3>2 DEF StartRun, GoesOn, Abort, TakeCursor, CheckMarker, OpenFile, OpenFails,
                  ReadSuffix, TakeMarker, Commit
    <3> QED BY <3>1, <3>2 DEF Next
  <2> QED BY <2>1 DEF transcripts, Whole
<1> QED BY <1>1, <1>2 DEF OInv

LEMMA PassedStep ==
  ASSUME OInv, PassedStored, Next
  PROVE  PassedStored'
<1> SUFFICES ASSUME aborts' = 0, NEW r \in Readers, Imports(r)',
                    NEW f \in Files' \ scenario'.broken, Done(r, f)',
                    NEW j \in 1 .. Whole(f)', file'[f][j] <= run'[r].now
             PROVE  \E row \in stored' : row.line = file'[f][j]
  BY DEF PassedStored, IsStored
<1>1. /\ Typed /\ aborts = 0 /\ scenario' = scenario /\ stored \subseteq stored'
      /\ f \in Files \ scenario.broken
  BY TableGrows, NoAbort, OInvTyped
<1>2. AtWork(r) /\ Imports(r)
  BY <1>1, ImportStarts DEF Imports
<1>3. CASE run'[r] = run[r]
  <2>1. Done(r, f)
    BY <1>3 DEF Done
  <2>2. j \in 1 .. Whole(f) /\ file'[f][j] = file[f][j]
    BY <1>1, <1>2, <1>3, OldLines
  <2>3. IsStored(file[f][j])
    BY <1>1, <1>2, <1>3, <2>1, <2>2 DEF PassedStored
  <2> QED BY <1>1, <2>2, <2>3 DEF IsStored
<1>4. CASE run'[r] # run[r]
  <2>1. (Commit(r) \/ OpenFails(r)) /\ NextFile(r)
    BY <1>1, <1>2, <1>4, ImportMoves
  <2>2. run'[r].now = run[r].now /\ (Done(r, f) \/ f = File(r))
    BY <1>1, <1>2, <2>1, DoneAfter
  <2>3. j \in 1 .. Whole(f) /\ file'[f][j] = file[f][j]
    BY <1>1, <1>2, <2>2, OldLines
  <2>4. \E row \in stored' : row.line = file[f][j]
    BY <1>1, <1>2, <2>1, <2>2, <2>3, FileDone
  <2> QED BY <2>3, <2>4
<1> QED BY <1>3, <1>4

\* However hooks and other runs overlap with it, an import that nothing kills
\* and that reads each file on time leaves every line stored that was there
\* when it began.
THEOREM ImportsComplete ==
  ASSUME Orderly
  PROVE  Spec /\ []ReadsOnTime => ImportComplete
<1>1. ASSUME OInv, PassedStored, [Next]_vars
      PROVE  [\A r \in Readers : Ends(r, "import") /\ aborts' = 0 => AllRead(r)]_vars
  <2>1. ASSUME Next, NEW r \in Readers, Ends(r, "import"), aborts' = 0,
               NEW f \in Files \ scenario.broken, NEW j \in 1 .. Whole(f),
               file[f][j] <= run[r].now
        PROVE  \E row \in stored' : row.line = file[f][j]
    <3>1. Imports(r) /\ pc'[r] = "idle" /\ Typed
      BY <1>1, <2>1, OInvTyped DEF Ends, Imports, AtWork
    <3>2. (Commit(r) \/ OpenFails(r)) /\ NextFile(r)
      BY <2>1, <3>1, ImportMoves
    <3>3. Len(run[r].todo) = 1
      BY <3>1, <3>2 DEF NextFile, Typed, TypeOK
    <3>4. Done(r, f) \/ f = File(r)
      BY <3>3 DEF Done, File
    <3>5. aborts = 0 /\ stored \subseteq stored'
      BY <2>1, <3>1, NoAbort, TableGrows
    <3> QED BY <1>1, <2>1, <3>1, <3>2, <3>4, <3>5, FileDone
  <2>2. CASE Next
    BY <2>1, <2>2 DEF AllRead
  <2> QED BY <1>1, <2>2
<1>2. Init => OInv /\ PassedStored
  <2>1. Init => PassedStored
    BY DEF Init, PassedStored, Imports, AtWork
  <2> QED BY <2>1, OInvInit
<1>3. OInv /\ ReadsOnTime /\ PassedStored /\ [Next]_vars => OInv' /\ PassedStored'
  <2>1. ASSUME PassedStored, UNCHANGED vars PROVE PassedStored'
    BY <2>1 DEF vars, PassedStored, Imports, AtWork, Done, Files, IsStored, Whole
  <2> QED BY <2>1, OInvStep, PassedStep
<1> QED BY <1>1, <1>2, <1>3, PTL DEF Spec, ImportComplete
=============================================================================
