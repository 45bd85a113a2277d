------------------------------- MODULE HookRuns -------------------------------
(***************************************************************************)
(* The processes that share one state directory: the lifecycle hooks of    *)
(* src/src/hooks.rs and the commands of src/src/main.rs.  Each opens the   *)
(* store, which migrates an older database, and then commits its work in   *)
(* write transactions: one that ingests a transcript, and a second one     *)
(* that projects the display file; SessionStart opens the store again for  *)
(* the compatibility check and the calibration report.  SQLite admits one  *)
(* write transaction at a time; a process that waits too long for it       *)
(* fails, a hook by printing the fail-open answer.  The history import of  *)
(* `setup` passes over a file that fails, and `doctor` over a check.       *)
(*                                                                         *)
(* The windows themselves are the business of WindowStore.  Here the       *)
(* database is a version number, the transcript records it holds, its      *)
(* schema, and the warnings it has emitted.                                *)
(***************************************************************************)
EXTENDS Naturals, FiniteSets

CONSTANTS
  Processes,   \* the processes; each runs once
  Outsider,    \* any other program that locks the database
  Runs,        \* Runs[p]: the kinds of run process p may be
  Binary,      \* Binary[p]: the SCHEMA_VERSION its executable was built with
  Transcripts,
  MaxRecords,  \* bound: records Codex writes
  Source,      \* Source[n]: the transcript of the n-th record
  Due,         \* Due[R]: the warnings of the windows that the records R rebuild
  None,
  Faults       \* may locks time out, statements fail and processes die?

Hooks == {"SessionStart", "UserPromptSubmit", "Stop"}

\* `calibrate` is `analyze` or `calibration apply`; `inspect` is `history` or
\* `backup`, which only open the store.
AllRuns == Hooks \cup {"refresh", "setup", "reset", "doctor", "calibrate", "inspect"}
Records  == 1 .. MaxRecords
Warnings == [window : Nat, milestone : Nat]

\* No window warns twice, and without records there is no window.
OneOfEachWindow(warnings) ==
  \A v, w \in warnings : v.window = w.window => v = w

ASSUME HookAssumption ==
  /\ Outsider \notin Processes
  /\ None \notin Processes \cup {Outsider}
  /\ None \notin Warnings
  /\ Runs \in [Processes -> SUBSET AllRuns]
  /\ Binary \in [Processes -> Nat \ {0}]
  /\ MaxRecords \in Nat
  /\ Source \in [Records -> Transcripts]
  /\ Due \in [SUBSET Records -> SUBSET Warnings]
  /\ Due[{}] = {}
  /\ \A all \in SUBSET Records : IsFiniteSet(Due[all]) /\ OneOfEachWindow(Due[all])
  /\ Faults \in BOOLEAN

VARIABLES
  written,  \* records in the transcripts
  records,  \* the records in the database
  version,  \* commits that changed what the display shows
  schema,   \* PRAGMA user_version; 0 when there is no database
  emitted,  \* emitted_warnings
  display,  \* the version display.json describes; 0 when there is none
  lock,     \* who holds the write lock, or None
  run,      \* the kind of run of each process
  phase,    \* where each process is
  todo,     \* the transcripts it is still to read
  seen,     \* the records its read of a transcript returned
  mine,     \* the version its transaction committed last, 0 before
  took,     \* the warnings whose rows it inserted: newly_emitted_warnings
  shown,    \* the warning it showed the user
  late      \* the processes that owe the projection of a commit of theirs

vars == <<written, records, version, schema, emitted, display, lock, run, phase,
          todo, seen, mine, took, shown, late>>
database == <<records, version, emitted>>
private  == <<run, todo, seen, mine, took, shown, late>>

\* Phases in which the process needs the write lock.
Transactions == {"migrate", "configure", "ingest", "reset", "project", "check",
                 "analyze", "report"}
Ended  == {"done", "failed"}
Phases == Transactions \cup Ended \cup {"idle", "read", "recover", "published", "reply"}

Waits(p) == phase[p] \in Transactions /\ lock # p
Holds(p, at) == phase[p] = at /\ lock = p
Goes(p, to) == phase' = [phase EXCEPT ![p] = to]

Init ==
  /\ written = 0
  /\ records = {}
  /\ version = 0
  /\ schema = 0
  /\ emitted = {}
  /\ display = 0
  /\ lock = None
  /\ run   = [p \in Processes |-> None]
  /\ phase = [p \in Processes |-> "idle"]
  /\ todo  = [p \in Processes |-> {}]
  /\ seen  = [p \in Processes |-> {}]
  /\ mine  = [p \in Processes |-> 0]
  /\ took  = [p \in Processes |-> {}]
  /\ shown = [p \in Processes |-> None]
  /\ late  = {}

\* Codex appends a token_count record.
WriteRecord ==
  /\ written < MaxRecords
  /\ written' = written + 1
  /\ UNCHANGED <<database, schema, display, lock, phase, private>>

InTranscript(t) == {n \in 1 .. written : Source[n] = t}

\* What a run will read: a hook the transcript of its session, if Codex names
\* one, `refresh` one or the recent ones, the import all that exist.
ToRead(kind) ==
  LET existing == {t \in Transcripts : InTranscript(t) # {}}
      one == {{t} : t \in Transcripts}
  IN  CASE kind \in Hooks   -> one \cup {{}}
        [] kind = "refresh" -> one \cup {existing}
        [] kind = "setup"   -> {existing}
        [] OTHER            -> {{}}

Start(p) ==
  /\ phase[p] = "idle"
  /\ \E kind \in Runs[p] : \E files \in ToRead(kind) :
       /\ run'  = [run  EXCEPT ![p] = kind]
       /\ todo' = [todo EXCEPT ![p] = files]
  /\ Goes(p, "migrate")
  /\ UNCHANGED <<written, database, schema, display, lock, seen, mine, took, shown, late>>
-----------------------------------------------------------------------------
(* The lock, and opening the store. *)

\* BEGIN IMMEDIATE is granted.
Begin(p) ==
  /\ Waits(p)
  /\ lock = None
  /\ lock' = p
  /\ UNCHANGED <<written, database, schema, display, phase, private>>

AfterFiles(kind) ==
  CASE kind = "SessionStart"     -> "migrate"
    [] kind = "setup"            -> "check"
    [] kind = "doctor"           -> "check"
    [] kind \in {"UserPromptSubmit", "Stop"} -> "reply"
    [] OTHER                     -> "done"

\* SessionStart opens the store a second time after its ingest.
AfterOpen(p) ==
  CASE run[p] = "SessionStart" /\ mine[p] # 0 -> "check"
    [] run[p] \in Hooks                       -> "read"
    [] run[p] = "setup"   -> IF todo[p] = {} THEN AfterFiles("setup") ELSE "read"
    [] run[p] = "refresh" -> IF todo[p] = {} THEN "recover" ELSE "read"
    [] run[p] = "reset"     -> "reset"
    [] run[p] = "doctor"    -> "recover"
    [] run[p] = "calibrate" -> "analyze"
    [] OTHER                -> "done"

\* Faulty variant: the version is compared before the lock is taken, and what
\* another process has migrated by then is not noticed.
MigrateUnchecked(p) ==
  /\ Holds(p, "migrate")
  /\ schema' = Binary[p]
  /\ Goes(p, "configure")
  /\ lock' = None
  /\ UNCHANGED <<written, database, display, private>>

\* All the migrations that are missing are one transaction; a database that is
\* newer than the executable is refused.
Migrate(p) ==
  /\ Holds(p, "migrate")
  /\ IF schema > Binary[p]
     THEN UNCHANGED schema /\ Goes(p, "failed")
     ELSE schema' = Binary[p] /\ Goes(p, "configure")
  /\ lock' = None
  /\ UNCHANGED <<written, database, display, private>>

\* write_config_metadata.
Configure(p) ==
  /\ Holds(p, "configure")
  /\ Goes(p, AfterOpen(p))
  /\ lock' = None
  /\ UNCHANGED <<written, database, schema, display, private>>
-----------------------------------------------------------------------------
(* Reading and ingesting. *)

\* Faulty variant: the record that is being written counts as read.
ReadTranscriptAhead(p) ==
  /\ phase[p] = "read"
  /\ \/ todo[p] = {} /\ UNCHANGED <<todo, seen>>
     \/ \E t \in todo[p] :
          /\ todo' = [todo EXCEPT ![p] = @ \ {t}]
          /\ seen' = [seen EXCEPT ![p] = InTranscript(t) \cup {written + 1}]
  /\ Goes(p, "ingest")
  /\ UNCHANGED <<written, database, schema, display, lock, run, mine, took, shown, late>>

\* Without a transcript path the empty batch is ingested; a transcript may
\* exist and have no record yet.
ReadTranscript(p) ==
  /\ phase[p] = "read"
  /\ \/ todo[p] = {} /\ UNCHANGED <<todo, seen>>
     \/ \E t \in todo[p] :
          /\ todo' = [todo EXCEPT ![p] = @ \ {t}]
          /\ seen' = [seen EXCEPT ![p] = InTranscript(t)]
  /\ Goes(p, "ingest")
  /\ UNCHANGED <<written, database, schema, display, lock, run, mine, took, shown, late>>

\* A path that names no file cannot be made canonical.
MissingTranscript(p) ==
  /\ phase[p] = "read"
  /\ \E t \in todo[p] : InTranscript(t) = {}
  /\ Goes(p, "failed")
  /\ UNCHANGED <<written, database, schema, display, lock, private>>

Fresh(all) == Due[all] \ emitted

\* Rows that are there already are ignored.
All(p) == records \cup seen[p]

Committed(p, warnings, next) ==
  /\ Holds(p, "ingest")
  /\ records' = All(p)
  /\ version' = version + 1
  /\ emitted' = emitted \cup Due[All(p)]
  /\ seen' = [seen EXCEPT ![p] = {}]
  /\ mine' = [mine EXCEPT ![p] = version + 1]
  /\ took' = [took EXCEPT ![p] = @ \cup warnings]
  /\ late' = late \cup {p}
  /\ lock' = None
  /\ Goes(p, next)
  /\ UNCHANGED <<written, schema, display, run, todo, shown>>

\* Faulty variants: a warning is reported whether or not its row was inserted;
\* nothing is projected when the batch brought nothing.
CommitIngestRepeats(p) == Committed(p, Due[All(p)], "project")

CommitIngestSkipsProjection(p) ==
  Committed(p, Fresh(All(p)), IF All(p) = records THEN "reply" ELSE "project")

CommitIngest(p) == Committed(p, Fresh(All(p)), "project")

\* reset_current_window; without a current window it returns at once.
CommitReset(p) ==
  /\ Holds(p, "reset")
  /\ \/ /\ Goes(p, "done")
        /\ UNCHANGED <<version, mine, late>>
     \/ /\ records # {}
        /\ version' = version + 1
        /\ mine' = [mine EXCEPT ![p] = version + 1]
        /\ late' = late \cup {p}
        /\ Goes(p, "project")
  /\ lock' = None
  /\ UNCHANGED <<written, records, schema, emitted, display, run, todo, seen, took, shown>>
-----------------------------------------------------------------------------
(* The display file, and what follows it. *)

\* load_or_recover_display: a file that is there is not compared with the
\* database.
RecoverDisplay(p) ==
  /\ phase[p] = "recover"
  /\ Goes(p, IF display = 0 THEN "project" ELSE AfterFiles(run[p]))
  /\ UNCHANGED <<written, database, schema, display, lock, private>>

\* Faulty variant: what is projected was read before the lock was taken.
WriteDisplayOwn(p) ==
  /\ Holds(p, "project")
  /\ display' = mine[p]
  /\ late' = late \ {p}
  /\ Goes(p, "published")
  /\ UNCHANGED <<written, database, schema, lock, run, todo, seen, mine, took, shown>>

\* regenerate_display: the rename happens while the transaction is open.
WriteDisplay(p) ==
  /\ Holds(p, "project")
  /\ display' = version
  /\ late' = late \ {p}
  /\ Goes(p, "published")
  /\ UNCHANGED <<written, database, schema, lock, run, todo, seen, mine, took, shown>>

\* `refresh` then reads the file back, which is there.
EndProject(p) ==
  /\ Holds(p, "published")
  /\ lock' = None
  /\ Goes(p, IF todo[p] # {} THEN "read" ELSE AfterFiles(run[p]))
  /\ UNCHANGED <<written, database, schema, display, private>>

\* check_compatibility, analyze_calibration (or apply_calibration) and, when
\* one is due, the report of SessionStart.
CalibrationStep(p) ==
  /\ lock' = None
  /\ \/ Holds(p, "check")   /\ Goes(p, IF run[p] = "doctor" THEN "done" ELSE "analyze")
     \/ Holds(p, "analyze") /\ run[p] # "SessionStart" /\ Goes(p, "done")
     \/ /\ Holds(p, "analyze") /\ run[p] = "SessionStart"
        /\ \E to \in {"report", "reply"} : Goes(p, to)
     \/ Holds(p, "report")  /\ Goes(p, "reply")
  /\ UNCHANGED <<written, database, schema, display, private>>

\* Faulty variant: the first warning is reported.
NewestIsFirst(warnings) ==
  LET first == {w \in warnings : \A v \in warnings : w.window <= v.window}
  IN  IF first = {} THEN None ELSE CHOOSE w \in first : TRUE

\* The warnings are collected in the order of the windows; the last is reported.
Newest(warnings) ==
  LET last == {w \in warnings : \A v \in warnings : v.window <= w.window}
  IN  IF last = {} THEN None ELSE CHOOSE w \in last : TRUE

\* Only UserPromptSubmit turns a new warning into a message.
Reply(p) ==
  /\ phase[p] = "reply"
  /\ shown' = [shown EXCEPT ![p] =
                 IF run[p] = "UserPromptSubmit" THEN Newest(took[p]) ELSE None]
  /\ Goes(p, "done")
  /\ UNCHANGED <<written, database, schema, display, lock, run, todo, seen, mine,
                 took, late>>
-----------------------------------------------------------------------------
(* Failures. *)

Drop(p) == lock' = IF lock = p THEN None ELSE lock

\* The error ends the run, but for the import, which counts the file and goes
\* on, and `doctor`, which notes an issue and goes on.
Fails(p) ==
  /\ Drop(p)
  /\ seen' = [seen EXCEPT ![p] = {}]
  /\ Goes(p, CASE run[p] = "setup" /\ phase[p] \in {"read", "ingest", "project", "published"} ->
                    IF todo[p] = {} THEN "check" ELSE "read"
               [] run[p] = "doctor" /\ phase[p] \in {"recover", "project", "published"} ->
                    "check"
               [] run[p] = "doctor" /\ phase[p] = "check" -> "done"
               [] OTHER -> "failed")
  /\ UNCHANGED <<written, database, schema, display, run, todo, mine, took, shown, late>>

\* Faulty variant: a busy database is retried for ever.
BusyRetries(p) ==
  /\ Waits(p)
  /\ lock # None
  /\ UNCHANGED vars

\* The busy timeout expires before the lock is free.
Busy(p) ==
  /\ Faults
  /\ Waits(p)
  /\ lock # None
  /\ Fails(p)

\* A file cannot be read or replaced, or a statement fails; the transaction
\* rolls back.
Fail(p) ==
  /\ Faults
  /\ phase[p] \notin Ended \cup {"idle", "reply"}
  /\ Fails(p)

\* The process is killed: its transaction rolls back, SQLite drops its lock.
Crash(p) ==
  /\ Faults
  /\ phase[p] \notin Ended \cup {"idle"}
  /\ Drop(p)
  /\ Goes(p, "failed")
  /\ UNCHANGED <<written, database, schema, display, private>>

\* Another program holds the database, for as long as it likes.
Interfere ==
  /\ Faults
  /\ \/ lock = None     /\ lock' = Outsider
     \/ lock = Outsider /\ lock' = None
  /\ UNCHANGED <<written, database, schema, display, phase, private>>

Step(p) ==
  \/ Begin(p)
  \/ Busy(p)
  \/ Migrate(p)
  \/ Configure(p)
  \/ ReadTranscript(p)
  \/ MissingTranscript(p)
  \/ CommitIngest(p)
  \/ CommitReset(p)
  \/ RecoverDisplay(p)
  \/ WriteDisplay(p)
  \/ EndProject(p)
  \/ CalibrationStep(p)
  \/ Reply(p)

Next ==
  \/ WriteRecord
  \/ Interfere
  \/ \E p \in Processes : Start(p) \/ Step(p) \/ Fail(p) \/ Crash(p)

\* A process that was started keeps being scheduled, and its busy handler
\* either gets the lock or gives up; nobody else owes anybody anything.
Fairness == \A p \in Processes : WF_vars(Step(p))

Spec == Init /\ [][Next]_vars /\ Fairness
-----------------------------------------------------------------------------
\* Every variable has its type.
TypeOK ==
  /\ written \in 0 .. MaxRecords
  /\ records \subseteq Records
  /\ version \in Nat
  /\ schema \in Nat
  /\ emitted \subseteq Warnings
  /\ display \in Nat
  /\ lock \in Processes \cup {Outsider, None}
  /\ run   \in [Processes -> AllRuns \cup {None}]
  /\ phase \in [Processes -> Phases]
  /\ todo  \in [Processes -> SUBSET Transcripts]
  /\ seen  \in [Processes -> SUBSET Records]
  /\ mine  \in [Processes -> Nat]
  /\ took  \in [Processes -> SUBSET Warnings]
  /\ shown \in [Processes -> Warnings \cup {None}]
  /\ late \subseteq Processes

\* The state directory implements the abstract feed: each time the display file
\* is replaced it describes the newest committed version, and the schema only
\* moves forward, however the transactions of processes built from different
\* releases interleave, fail or die.
Feed == INSTANCE DisplayFeed WITH version <- version, display <- display,
                                  schema <- schema
FeedImplemented == Feed!Spec

\* The display only lags behind the database while the process that committed
\* last still owes the projection, and it owes it only between its two
\* transactions, when it failed or died there, or when it is an import, which
\* goes on to the next file.
LagExplained ==
  display < version =>
    \E p \in late :
      /\ mine[p] = version
      /\ phase[p] \in {"project", "failed"} \/ run[p] = "setup"

\* Two sessions that see the same crossing never both report it: the warning
\* belongs to the transaction that inserted its row.
ReportedOnce ==
  \A p, q \in Processes : p # q /\ shown[p] # None => shown[p] # shown[q]

\* A run that has started ends, even if another program never gives the
\* database back.
RunsEnd ==
  \A p \in Processes : (phase[p] # "idle") ~> (phase[p] \in Ended)

\* The display catches up with the database again and again, unless a run did
\* not get to write the file for a commit of its own.
DisplayCatchesUp ==
  []<>(display = version \/ \E p \in late : phase[p] \in Ended)

\* The newest warning that the records in the database are due belongs to some
\* run, whichever transcripts were ingested first.  If that was a prompt hook
\* that finished, it has shown the warning, or one of a window that was newer
\* still and that later records have rebuilt.
NewestDue(all) == {w \in Due[all] : \A v \in Due[all] : v.window <= w.window}

CrossingTaken ==
  \A w \in NewestDue(records) :
    \E p \in Processes :
      /\ w \in took[p]
      /\ phase[p] = "done" /\ run[p] = "UserPromptSubmit" =>
           /\ shown[p] # None
           /\ shown[p] = w \/ shown[p].window > w.window

\* README.md:90: the hooks show a short message when a warning level is
\* crossed: once a prompt hook has finished, whatever the hooks that finished
\* recorded as emitted has been shown.
CrossingReported ==
  \A p, q \in Processes :
    /\ phase[p] = "done" /\ run[p] = "UserPromptSubmit"
    /\ phase[q] = "done" /\ took[q] # {}
    => shown[q] = Newest(took[q])

\* src/hooks.rs:196-203: a transcript that is not there yet is passed over, and
\* the hook answers from what the database holds.
MissingIsPassedOver ==
  \A p \in Processes : run[p] \in Hooks => phase[p] # "failed"

\* README.md:234-237: an older executable does not work on a newer schema.
OlderKeptOut ==
  \A p \in Processes :
    phase[p] \in Transactions \ {"migrate"} /\ lock = p => schema <= Binary[p]
=============================================================================
