---------------------------- MODULE HookRunsProofs ----------------------------
(***************************************************************************)
(* Proofs about HookRuns for any number of processes of any releases,      *)
(* records and warnings, with every fault enabled.                         *)
(***************************************************************************)
EXTENDS HookRuns, FiniteSetTheorems, TLAPS

\* A step of process p.
Acts(p) == Start(p) \/ Step(p) \/ Fail(p) \/ Crash(p)

LEMMA NewestFacts ==
  ASSUME NEW warnings
  PROVE  Newest(warnings) = None \/ Newest(warnings) \in warnings
BY Zenon DEF Newest

\* What a commit takes was not on record before, and is afterwards.
LEMMA CommitTakes ==
  ASSUME TypeOK, NEW p \in Processes, CommitIngest(p)
  PROVE  /\ All(p) \in SUBSET Records
         /\ Fresh(All(p)) \subseteq Warnings
         /\ Fresh(All(p)) \cap emitted = {}
         /\ took' = [took EXCEPT ![p] = @ \cup Fresh(All(p))]
         /\ emitted' = emitted \cup Fresh(All(p))
<1>1. All(p) \in SUBSET Records
  BY DEF TypeOK, All
<1>2. Due[All(p)] \subseteq Warnings
  BY <1>1, HookAssumption
<1>3. /\ took' = [took EXCEPT ![p] = @ \cup Fresh(All(p))]
      /\ emitted' = emitted \cup Due[All(p)]
  BY DEF CommitIngest, Committed
<1> QED BY <1>1, <1>2, <1>3 DEF Fresh

LEMMA ToReadType ==
  ASSUME NEW kind \in AllRuns, NEW files \in ToRead(kind)
  PROVE  files \subseteq Transcripts
BY DEF ToRead, AllRuns, Hooks

LEMMA AfterTypes ==
  /\ \A kind : AfterFiles(kind) \in Phases
  /\ \A p \in Processes : AfterOpen(p) \in Phases
BY DEF AfterFiles, AfterOpen, Phases, Transactions, Ended

\* Where an error leads to.
LEMMA FailsFacts ==
  ASSUME TypeOK, NEW p \in Processes, Fails(p)
  PROVE  /\ TypeOK'
         /\ UNCHANGED <<written, database, schema, display, run, todo, mine, took,
                        shown, late>>
         /\ \A q \in Processes \ {p} : phase'[q] = phase[q]
         /\ phase'[p] \in {"read", "check", "done", "failed"}
         /\ phase'[p] = "read" => run[p] = "setup"
         /\ phase'[p] # "failed" => run[p] \in {"setup", "doctor"}
<1>1. phase'[p] \in Phases
  BY DEF Fails, Goes, TypeOK, Phases, Transactions, Ended
<1>2. phase' = [phase EXCEPT ![p] = phase'[p]]
  BY DEF Fails, Goes, TypeOK
<1>3. phase' \in [Processes -> Phases]
  BY <1>1, <1>2 DEF TypeOK
<1>4. lock' \in Processes \cup {Outsider, None} /\ seen' \in [Processes -> SUBSET Records]
  BY DEF Fails, Drop, TypeOK
<1>5. UNCHANGED <<written, database, schema, display, run, todo, mine, took, shown, late>>
  BY DEF Fails
<1>6. TypeOK'
  BY <1>3, <1>4, <1>5 DEF TypeOK, database
<1>7. /\ phase'[p] \in {"read", "check", "done", "failed"}
      /\ phase'[p] = "read" => run[p] = "setup"
      /\ phase'[p] # "failed" => run[p] \in {"setup", "doctor"}
  BY DEF Fails, Goes, TypeOK
<1> QED BY <1>2, <1>5, <1>6, <1>7 DEF TypeOK

LEMMA StepType ==
  ASSUME TypeOK, NEW p \in Processes, Acts(p)
  PROVE  TypeOK'
<1> USE DEF TypeOK, Goes, Holds, Waits, database, private, Phases, Transactions, Ended
<1>1. CASE Start(p)
  <2>8. PICK kind \in Runs[p] : \E files \in ToRead(kind) :
             /\ run'  = [run  EXCEPT ![p] = kind]
             /\ todo' = [todo EXCEPT ![p] = files]
    BY <1>1 DEF Start
  <2>9. PICK files \in ToRead(kind) :
             /\ run'  = [run  EXCEPT ![p] = kind]
             /\ todo' = [todo EXCEPT ![p] = files]
    BY <2>8
  <2>1. kind \in AllRuns
    BY HookAssumption
  <2>2. files \subseteq Transcripts
    BY <2>1, ToReadType
  <2> QED BY <1>1, <2>1, <2>2, <2>9 DEF Start
<1>2. CASE Begin(p)
  BY <1>2 DEF Begin
<1>3. CASE Migrate(p)
  BY <1>3, HookAssumption DEF Migrate
<1>4. CASE Configure(p)
  BY <1>4, AfterTypes DEF Configure
<1>5. CASE ReadTranscript(p)
  <2>1. \A t \in Transcripts : InTranscript(t) \subseteq Records
    BY HookAssumption DEF InTranscript, Records
  <2> QED BY <1>5, <2>1 DEF ReadTranscript
<1>6. CASE MissingTranscript(p)
  BY <1>6 DEF MissingTranscript
<1>7. CASE CommitIngest(p)
  <2>1. /\ All(p) \subseteq Records
        /\ took' \in [Processes -> SUBSET Warnings]
        /\ emitted' \subseteq Warnings
    BY <1>7, CommitTakes
  <2>2. /\ records' = All(p)
        /\ version' = version + 1
        /\ seen' = [seen EXCEPT ![p] = {}]
        /\ mine' = [mine EXCEPT ![p] = version + 1]
        /\ late' = late \cup {p}
        /\ lock' = None
        /\ phase' = [phase EXCEPT ![p] = "project"]
        /\ UNCHANGED <<written, schema, display, run, todo, shown>>
    BY <1>7 DEF CommitIngest, Committed
  <2> QED BY <2>1, <2>2
<1>8. CASE CommitReset(p)
  BY <1>8 DEF CommitReset
<1>9. CASE RecoverDisplay(p)
  BY <1>9, AfterTypes DEF RecoverDisplay
<1>10. CASE WriteDisplay(p)
  BY <1>10 DEF WriteDisplay
<1>11. CASE EndProject(p)
  BY <1>11, AfterTypes DEF EndProject
<1>12. CASE CalibrationStep(p)
  BY <1>12 DEF CalibrationStep
<1>13. CASE Reply(p)
  BY <1>13, NewestFacts DEF Reply
<1>14. CASE Busy(p) \/ Fail(p)
  BY <1>14, FailsFacts DEF Busy, Fail
<1>15. CASE Crash(p)
  BY <1>15 DEF Crash, Drop
<1> QED BY <1>1, <1>2, <1>3, <1>4, <1>5, <1>6, <1>7, <1>8, <1>9, <1>10, <1>11,
           <1>12, <1>13, <1>14, <1>15 DEF Step, Acts

LEMMA NextType == TypeOK /\ [Next]_vars => TypeOK'
<1> SUFFICES ASSUME TypeOK, [Next]_vars PROVE TypeOK'
  OBVIOUS
<1>1. CASE WriteRecord
  BY <1>1, HookAssumption DEF WriteRecord, TypeOK, database, private
<1>2. CASE Interfere
  BY <1>2 DEF Interfere, TypeOK, database, private
<1>3. CASE \E p \in Processes : Acts(p)
  BY <1>3, StepType
<1>4. CASE UNCHANGED vars
  BY <1>4 DEF vars, TypeOK
<1> QED BY <1>1, <1>2, <1>3, <1>4 DEF Next, Acts

LEMMA InitType == Init => TypeOK
BY HookAssumption DEF Init, TypeOK, Phases

\* Every variable always has its type.
THEOREM HookTypes == Spec => []TypeOK
BY InitType, NextType, PTL DEF Spec
-----------------------------------------------------------------------------
(* The display feed. *)

\* A process is past its first open only when there is a database.
Opened ==
  \A p \in Processes :
    phase[p] \notin Ended \cup {"idle", "migrate"} => schema # 0

LEMMA OpenedStep == TypeOK /\ Opened /\ [Next]_vars => Opened'
<1> SUFFICES ASSUME TypeOK, Opened, [Next]_vars PROVE Opened'
  OBVIOUS
<1> USE DEF Opened, TypeOK, Goes, Holds, Waits, database, private, Ended
<1>1. ASSUME NEW p \in Processes, Migrate(p) PROVE Opened'
  BY <1>1, HookAssumption DEF Migrate
<1>2. ASSUME NEW p \in Processes, Fails(p), phase[p] \notin Ended \cup {"idle"}
      PROVE  Opened'
  <2>1. /\ UNCHANGED schema
        /\ \A q \in Processes \ {p} : phase'[q] = phase[q]
    BY <1>2, FailsFacts
  <2>2. phase'[p] = "failed" \/ phase[p] # "migrate"
    BY <1>2 DEF Fails
  <2> QED BY <1>2, <2>1, <2>2
<1>3. ASSUME NEW p \in Processes, Start(p) \/ Crash(p) PROVE Opened'
  BY <1>3 DEF Start, Crash
<1>4. ASSUME NEW p \in Processes,
             \/ Begin(p) \/ Configure(p) \/ ReadTranscript(p) \/ MissingTranscript(p)
             \/ CommitReset(p) \/ RecoverDisplay(p) \/ WriteDisplay(p)
             \/ EndProject(p) \/ CalibrationStep(p) \/ Reply(p) \/ CommitIngest(p)
      PROVE  Opened'
  <2>1. /\ UNCHANGED schema
        /\ \A q \in Processes \ {p} : phase'[q] = phase[q]
    BY <1>4 DEF Begin, Configure, ReadTranscript, MissingTranscript, CommitReset,
                RecoverDisplay, WriteDisplay, EndProject, CalibrationStep, Reply,
                CommitIngest, Committed
  <2>2. phase[p] \notin Ended \cup {"idle", "migrate"} \/ phase'[p] = phase[p]
    BY <1>4 DEF Begin, Configure, ReadTranscript, MissingTranscript, CommitReset,
                RecoverDisplay, WriteDisplay, EndProject, CalibrationStep, Reply,
                CommitIngest, Committed
  <2> QED BY <2>1, <2>2
<1>5. WriteRecord \/ Interfere \/ UNCHANGED vars => Opened'
  BY DEF WriteRecord, Interfere, vars
<1>6. ASSUME NEW p \in Processes, Busy(p) \/ Fail(p) PROVE Opened'
  BY <1>6, <1>2 DEF Busy, Fail, Transactions
<1> QED BY <1>1, <1>3, <1>4, <1>5, <1>6 DEF Next, Step

\* A step of the processes is a commit, a publication of the newest version, an
\* upgrade, or none of the feed's business.
LEMMA FeedStep == TypeOK /\ Opened /\ [Next]_vars => [Feed!Next]_(Feed!feed)
<1> USE DEF Feed!Next, Feed!Commit, Feed!Publish, Feed!Upgrade, Feed!feed, database, private
<1> SUFFICES ASSUME TypeOK, Opened, [Next]_vars PROVE [Feed!Next]_(Feed!feed)
  OBVIOUS
<1>1. ASSUME NEW p \in Processes, CommitIngest(p) \/ CommitReset(p)
      PROVE  [Feed!Next]_(Feed!feed)
  <2>1. schema # 0
    BY <1>1 DEF CommitIngest, Committed, CommitReset, Holds, Opened, Ended
  <2> QED BY <1>1, <2>1 DEF CommitIngest, Committed, CommitReset
<1>2. ASSUME NEW p \in Processes, WriteDisplay(p)
      PROVE  [Feed!Next]_(Feed!feed)
  BY <1>2 DEF WriteDisplay
<1>3. ASSUME NEW p \in Processes, Migrate(p)
      PROVE  [Feed!Next]_(Feed!feed)
  BY <1>3, HookAssumption DEF Migrate, TypeOK
<1>4. ASSUME NEW p \in Processes,
             \/ Start(p) \/ Begin(p) \/ Busy(p) \/ Configure(p) \/ ReadTranscript(p)
             \/ MissingTranscript(p) \/ RecoverDisplay(p) \/ EndProject(p)
             \/ CalibrationStep(p) \/ Reply(p) \/ Fail(p) \/ Crash(p)
      PROVE  UNCHANGED <<version, display, schema>>
  BY <1>4 DEF Start, Begin, Busy, Configure, ReadTranscript, MissingTranscript,
              RecoverDisplay, EndProject, CalibrationStep, Reply, Fail, Fails, Crash
<1>5. WriteRecord \/ Interfere \/ UNCHANGED vars => UNCHANGED <<version, display, schema>>
  BY DEF WriteRecord, Interfere, vars
<1> QED BY <1>1, <1>2, <1>3, <1>4, <1>5 DEF Next, Step

\* Whatever the processes do, the state directory implements the abstract feed.
THEOREM FeedRefinement == Spec => FeedImplemented
<1>1. Init => Feed!Init
  BY DEF Init, Feed!Init
<1>2. Init => Opened
  BY DEF Init, Opened
<1> QED BY <1>1, <1>2, InitType, NextType, OpenedStep, FeedStep, PTL
        DEF Spec, FeedImplemented, Feed!Spec
-----------------------------------------------------------------------------
(* Why the display lags. *)

\* Who reads transcripts and who resets; who owes a projection is none but they.
Reading == Hooks \cup {"refresh", "setup"}

RunShape ==
  \A p \in Processes :
    /\ phase[p] \in {"read", "ingest"} \/ todo[p] # {} => run[p] \in Reading
    /\ phase[p] = "reset" => run[p] = "reset"
    /\ p \in late => run[p] # "doctor" /\ phase[p] # "idle"

LEMMA ToReadShape ==
  ASSUME NEW kind \in AllRuns, NEW files \in ToRead(kind), files # {}
  PROVE  kind \in Reading
BY DEF ToRead, AllRuns, Hooks, Reading

LEMMA AfterShape ==
  /\ \A kind : AfterFiles(kind) \notin {"read", "ingest", "reset", "idle"}
  /\ \A p : /\ AfterOpen(p) = "read" => run[p] \in Reading
            /\ AfterOpen(p) = "reset" => run[p] = "reset"
            /\ AfterOpen(p) \notin {"ingest", "idle"}
BY DEF AfterFiles, AfterOpen, Reading

LEMMA RunShapeStep == TypeOK /\ RunShape /\ [Next]_vars => RunShape'
<1> SUFFICES ASSUME TypeOK, RunShape, [Next]_vars PROVE RunShape'
  OBVIOUS
<1> USE DEF RunShape, TypeOK, Goes, Holds, Waits, database, private
<1>1. ASSUME NEW p \in Processes, Start(p) PROVE RunShape'
  <2>8. PICK kind \in Runs[p] : \E files \in ToRead(kind) :
             /\ run'  = [run  EXCEPT ![p] = kind]
             /\ todo' = [todo EXCEPT ![p] = files]
    BY <1>1 DEF Start
  <2>9. PICK files \in ToRead(kind) :
             /\ run'  = [run  EXCEPT ![p] = kind]
             /\ todo' = [todo EXCEPT ![p] = files]
    BY <2>8
  <2>1. files # {} => kind \in Reading
    BY ToReadShape, HookAssumption
  <2> QED BY <1>1, <2>1, <2>9 DEF Start
<1>2. ASSUME NEW p \in Processes, Fails(p), phase[p] # "idle" PROVE RunShape'
  <2>1. /\ UNCHANGED <<run, todo, late>>
        /\ \A q \in Processes \ {p} : phase'[q] = phase[q]
        /\ phase'[p] \in {"read", "check", "done", "failed"}
        /\ phase'[p] = "read" => run[p] = "setup"
    BY <1>2, FailsFacts
  <2> QED BY <1>2, <2>1 DEF Reading
<1>3. ASSUME NEW p \in Processes, Configure(p) \/ RecoverDisplay(p) \/ EndProject(p)
      PROVE  RunShape'
  BY <1>3, AfterShape DEF Configure, RecoverDisplay, EndProject
<1>4. ASSUME NEW p \in Processes, CommitIngest(p) \/ CommitReset(p) PROVE RunShape'
  <2>1. run[p] # "doctor"
    BY <1>4 DEF CommitIngest, Committed, CommitReset, Reading, Hooks
  <2>2. /\ UNCHANGED <<run, todo>>
        /\ late' \in {late, late \cup {p}}
        /\ \A q \in Processes \ {p} : phase'[q] = phase[q]
        /\ phase'[p] \in {"project", "done"}
    BY <1>4 DEF CommitIngest, Committed, CommitReset
  <2> QED BY <2>1, <2>2
<1>5. ASSUME NEW p \in Processes,
             \/ Begin(p) \/ Migrate(p) \/ ReadTranscript(p) \/ MissingTranscript(p)
             \/ WriteDisplay(p) \/ CalibrationStep(p) \/ Reply(p) \/ Crash(p)
      PROVE  RunShape'
  BY <1>5 DEF Begin, Migrate, ReadTranscript, MissingTranscript, WriteDisplay,
              CalibrationStep, Reply, Crash
<1>6. WriteRecord \/ Interfere \/ UNCHANGED vars => RunShape'
  BY DEF WriteRecord, Interfere, vars
<1>7. ASSUME NEW p \in Processes, Busy(p) \/ Fail(p) PROVE RunShape'
  BY <1>7, <1>2 DEF Busy, Fail, Transactions
<1> QED BY <1>1, <1>3, <1>4, <1>5, <1>6, <1>7 DEF Next, Step

LEMMA LagStep == TypeOK /\ RunShape /\ LagExplained /\ [Next]_vars => LagExplained'
<1> SUFFICES ASSUME TypeOK, RunShape, LagExplained, [Next]_vars PROVE LagExplained'
  OBVIOUS
<1> USE DEF LagExplained, TypeOK, Goes, Holds, Waits, database, private
<1>1. ASSUME NEW p \in Processes, CommitIngest(p) PROVE LagExplained'
  BY <1>1 DEF CommitIngest, Committed
<1>2. ASSUME NEW p \in Processes, CommitReset(p) PROVE LagExplained'
  BY <1>2 DEF CommitReset
<1>3. ASSUME NEW p \in Processes, WriteDisplay(p) PROVE LagExplained'
  BY <1>3 DEF WriteDisplay
<1>4. ASSUME NEW p \in Processes,
             \/ Begin(p) \/ Migrate(p) \/ Configure(p) \/ ReadTranscript(p)
             \/ MissingTranscript(p) \/ RecoverDisplay(p) \/ EndProject(p)
             \/ CalibrationStep(p) \/ Reply(p) \/ Crash(p)
      PROVE  LagExplained'
  <2>1. /\ UNCHANGED <<version, display, mine, late, run>>
        /\ \A q \in Processes \ {p} : phase'[q] = phase[q]
    BY <1>4 DEF Begin, Migrate, Configure, ReadTranscript, MissingTranscript,
                RecoverDisplay, EndProject, CalibrationStep, Reply, Crash
  <2>2. phase[p] \in {"project", "failed"} => phase'[p] \in {"project", "failed"}
    BY <1>4 DEF Begin, Migrate, Configure, ReadTranscript, MissingTranscript,
                RecoverDisplay, EndProject, CalibrationStep, Reply, Crash, Ended
  <2> QED BY <2>1, <2>2
<1>5. ASSUME NEW p \in Processes, Busy(p) \/ Fail(p) PROVE LagExplained'
  <2>1. /\ UNCHANGED <<version, display, mine, late, run>>
        /\ \A q \in Processes \ {p} : phase'[q] = phase[q]
        /\ phase'[p] # "failed" => run[p] \in {"setup", "doctor"}
    BY <1>5, FailsFacts DEF Busy, Fail
  <2> QED BY <2>1 DEF RunShape
<1>6. ASSUME NEW p \in Processes, Start(p) PROVE LagExplained'
  BY <1>6 DEF Start, RunShape
<1>7. WriteRecord \/ Interfere \/ UNCHANGED vars => LagExplained'
  BY DEF WriteRecord, Interfere, vars
<1> QED BY <1>1, <1>2, <1>3, <1>4, <1>5, <1>6, <1>7 DEF Next, Step

\* The display lags only behind a run that has yet to project, failed or died,
\* or behind an import.
THEOREM LagAlwaysExplained == Spec => []LagExplained
<1>1. Init => LagExplained /\ RunShape
  BY DEF Init, LagExplained, RunShape
<1> QED BY <1>1, InitType, NextType, RunShapeStep, LagStep, PTL DEF Spec
-----------------------------------------------------------------------------
(* One report for each warning. *)

\* What a process took is on record, and nobody else's; what it shows it took,
\* and it shows nothing before it is done.
NewsOwned ==
  /\ \A p \in Processes : took[p] \subseteq emitted
  /\ \A p, q \in Processes : p # q => took[p] \cap took[q] = {}
  /\ \A p \in Processes : shown[p] # None => shown[p] \in took[p] /\ phase[p] = "done"

LEMMA NewsStep == TypeOK /\ NewsOwned /\ [Next]_vars => NewsOwned'
<1> SUFFICES ASSUME TypeOK, NewsOwned, [Next]_vars PROVE NewsOwned'
  OBVIOUS
<1> USE DEF NewsOwned, TypeOK, Goes, Holds, Waits, database, private
<1>1. ASSUME NEW p \in Processes, CommitIngest(p) PROVE NewsOwned'
  <2>1. /\ UNCHANGED shown
        /\ phase[p] = "ingest"
        /\ \A q \in Processes : q # p => phase'[q] = phase[q]
    BY <1>1 DEF CommitIngest, Committed
  <2>2. /\ Fresh(All(p)) \cap emitted = {}
        /\ took' = [took EXCEPT ![p] = @ \cup Fresh(All(p))]
        /\ emitted' = emitted \cup Fresh(All(p))
    BY <1>1, CommitTakes
  <2>3. \A q \in Processes : q # p => took'[q] = took[q]
    BY <2>2
  <2>4. took'[p] = took[p] \cup Fresh(All(p))
    BY <2>2
  <2>5. \A q \in Processes : took'[q] \subseteq emitted'
    BY <2>2, <2>3, <2>4
  <2>6. \A q, r \in Processes : q # r => took'[q] \cap took'[r] = {}
    <3> SUFFICES ASSUME NEW q \in Processes, NEW r \in Processes, q # r
                 PROVE  took'[q] \cap took'[r] = {}
      OBVIOUS
    <3>1. CASE q # p /\ r # p
      BY <3>1, <2>3
    <3>2. CASE q = p
      BY <3>2, <2>2, <2>3, <2>4
    <3>3. CASE r = p
      BY <3>3, <2>2, <2>3, <2>4
    <3> QED BY <3>1, <3>2, <3>3
  <2>7. \A q \in Processes : shown'[q] # None => shown'[q] \in took'[q] /\ phase'[q] = "done"
    BY <2>1, <2>3
  <2> QED BY <2>5, <2>6, <2>7
<1>2. ASSUME NEW p \in Processes, Reply(p) PROVE NewsOwned'
  <2>1. /\ UNCHANGED <<took, emitted>>
        /\ shown'[p] = None \/ shown'[p] \in took[p]
        /\ phase'[p] = "done"
        /\ \A q \in Processes : q # p => shown'[q] = shown[q] /\ phase'[q] = phase[q]
    BY <1>2, NewestFacts DEF Reply
  <2> QED BY <2>1
<1>3. ASSUME NEW p \in Processes,
             \/ Start(p) \/ Begin(p) \/ Migrate(p) \/ Configure(p)
             \/ ReadTranscript(p) \/ MissingTranscript(p) \/ CommitReset(p)
             \/ RecoverDisplay(p) \/ WriteDisplay(p) \/ EndProject(p)
             \/ CalibrationStep(p) \/ Crash(p)
      PROVE  NewsOwned'
  <2>1. /\ UNCHANGED <<took, shown, emitted>>
        /\ \A q \in Processes : phase[q] = "done" => phase'[q] = "done"
    BY <1>3 DEF Start, Begin, Migrate, Configure, ReadTranscript, MissingTranscript,
                CommitReset, RecoverDisplay, WriteDisplay, EndProject,
                CalibrationStep, Crash, Transactions, Ended
  <2> QED BY <2>1
<1>4. ASSUME NEW p \in Processes, Busy(p) \/ Fail(p) PROVE NewsOwned'
  <2>1. /\ UNCHANGED <<took, shown, emitted>>
        /\ \A q \in Processes \ {p} : phase'[q] = phase[q]
    BY <1>4, FailsFacts DEF Busy, Fail
  <2>2. phase[p] # "done"
    BY <1>4 DEF Busy, Fail, Transactions, Ended
  <2> QED BY <2>1, <2>2
<1>5. WriteRecord \/ Interfere \/ UNCHANGED vars => NewsOwned'
  BY DEF WriteRecord, Interfere, vars
<1> QED BY <1>1, <1>2, <1>3, <1>4, <1>5 DEF Next, Step

\* No warning is ever shown by two runs.
THEOREM WarningsReportedOnce == Spec => []ReportedOnce
<1>1. Init => NewsOwned
  BY DEF Init, NewsOwned
<1>2. NewsOwned => ReportedOnce
  BY DEF NewsOwned, ReportedOnce
<1> QED BY <1>1, <1>2, InitType, NextType, NewsStep, PTL DEF Spec
-----------------------------------------------------------------------------
(* Every warning that is due has been taken. *)

\* Among the subsets of a finite set there is always one with none below it.
LEMMA LeastSubset ==
  ASSUME NEW S, IsFiniteSet(S), NEW F \in SUBSET (SUBSET S), F # {}
  PROVE  \E T \in F : \A U \in F : U \subseteq T => U = T
<1>1. IsWellFoundedOn(StrictSubsetOrdering(S), SUBSET S)
  BY FS_FiniteSubsetsOfFinite, FS_StrictSubsetOrderingWellFounded
<1>2. PICK T \in F : \A U \in F : <<U, T>> \notin StrictSubsetOrdering(S)
  BY <1>1, WFMin, Zenon
<1>3. \A U \in F : U \subseteq T => U = T
  BY <1>2 DEF StrictSubsetOrdering
<1> QED BY <1>3

\* The newest of some warnings is there whenever there is one.
LEMMA NewestExists ==
  ASSUME NEW warnings \in SUBSET Warnings, IsFiniteSet(warnings), warnings # {}
  PROVE  /\ Newest(warnings) \in warnings
         /\ \A v \in warnings : v.window <= Newest(warnings).window
<1> DEFINE From(x) == {v \in warnings : x.window <= v.window}
           last == {w \in warnings : \A v \in warnings : v.window <= w.window}
<1>1. \A w \in warnings : w.window \in Nat
  BY DEF Warnings
<1>2. PICK T \in {From(y) : y \in warnings} :
        \A U \in {From(y) : y \in warnings} : U \subseteq T => U = T
  <2> DEFINE F == {From(y) : y \in warnings}
  <2>1. \A y \in warnings : From(y) \subseteq warnings
    OBVIOUS
  <2> HIDE DEF From
  <2>2. F # {} /\ F \in SUBSET (SUBSET warnings)
    BY <2>1
  <2> HIDE DEF F
  <2>3. \E T \in F : \A U \in F : U \subseteq T => U = T
    BY <2>2, LeastSubset
  <2> QED BY <2>3, Zenon DEF F
<1>3. PICK x \in warnings :
        \A y \in warnings : From(y) \subseteq From(x) => From(y) = From(x)
  <2> HIDE DEF From
  <2> QED BY <1>2
<1>4. \A v \in warnings : v.window <= x.window
  <2> SUFFICES ASSUME NEW v \in warnings, x.window < v.window PROVE FALSE
    BY <1>1
  <2>1. From(v) \subseteq From(x) /\ x \in From(x) /\ x \notin From(v)
    BY <1>1
  <2> QED BY <1>3, <2>1
<1>5. last # {} /\ Newest(warnings) = CHOOSE w \in last : TRUE
  BY <1>4 DEF Newest
<1> HIDE DEF last
<1>6. Newest(warnings) \in last
  BY <1>5
<1> QED BY <1>6 DEF last

\* What is due has been emitted, and every emission is some run's.
EmittedTaken ==
  /\ Due[records] \subseteq emitted
  /\ \A w \in emitted : \E p \in Processes : w \in took[p]

\* A prompt hook ingests once, so what it takes is of one rebuild, and it shows
\* the newest of it.
PromptShape(p) ==
  /\ phase[p] \in {"migrate", "configure", "read", "ingest", "project", "published",
                   "reply", "done", "failed"}
  /\ \E t : todo[p] \subseteq {t}
  /\ phase[p] \in {"ingest", "project", "published"} => todo[p] = {}
  /\ phase[p] \in {"migrate", "configure", "read", "ingest"} => took[p] = {}
  /\ IsFiniteSet(took[p]) /\ OneOfEachWindow(took[p])
  /\ phase[p] = "done" => shown[p] = Newest(took[p])

PromptHooks ==
  \A p \in Processes : /\ phase[p] = "idle" => took[p] = {} /\ todo[p] = {}
                       /\ phase[p] # "idle" /\ run[p] = "UserPromptSubmit" => PromptShape(p)

LEMMA TakenStep == TypeOK /\ EmittedTaken /\ [Next]_vars => EmittedTaken'
<1> SUFFICES ASSUME TypeOK, EmittedTaken, [Next]_vars PROVE EmittedTaken'
  OBVIOUS
<1>1. ASSUME NEW p \in Processes, CommitIngest(p) PROVE EmittedTaken'
  <2>1. /\ took' = [took EXCEPT ![p] = @ \cup Fresh(All(p))]
        /\ emitted' = emitted \cup Fresh(All(p))
    BY <1>1, CommitTakes
  <2>2. Due[records'] \subseteq emitted'
    BY <1>1 DEF CommitIngest, Committed
  <2>3. \A w \in emitted' : \E q \in Processes : w \in took'[q]
    <3> SUFFICES ASSUME NEW w \in emitted' PROVE \E q \in Processes : w \in took'[q]
      OBVIOUS
    <3>1. CASE w \in emitted
      BY <2>1, <3>1 DEF EmittedTaken, TypeOK
    <3>2. CASE w \in Fresh(All(p))
      BY <2>1, <3>2 DEF TypeOK
    <3> QED BY <2>1, <3>1, <3>2
  <2> QED BY <2>2, <2>3 DEF EmittedTaken
<1>2. ASSUME NEW p \in Processes,
             \/ Start(p) \/ Begin(p) \/ Busy(p) \/ Migrate(p) \/ Configure(p)
             \/ ReadTranscript(p) \/ MissingTranscript(p) \/ CommitReset(p)
             \/ RecoverDisplay(p) \/ WriteDisplay(p) \/ EndProject(p)
             \/ CalibrationStep(p) \/ Reply(p) \/ Fail(p) \/ Crash(p)
      PROVE  UNCHANGED <<records, emitted, took>>
  BY <1>2 DEF Start, Begin, Busy, Migrate, Configure, ReadTranscript, MissingTranscript,
              CommitReset, RecoverDisplay, WriteDisplay, EndProject, CalibrationStep,
              Reply, Fail, Fails, Crash, database, private
<1>3. WriteRecord \/ Interfere \/ UNCHANGED vars => UNCHANGED <<records, emitted, took>>
  BY DEF WriteRecord, Interfere, vars, database, private
<1>4. UNCHANGED <<records, emitted, took>> => EmittedTaken'
  BY DEF EmittedTaken
<1> QED BY <1>1, <1>2, <1>3, <1>4 DEF Next, Step

LEMMA PromptReads ==
  ASSUME NEW files \in ToRead("UserPromptSubmit")
  PROVE  \E t : files \subseteq {t}
BY DEF ToRead, Hooks

\* What one commit takes is of the windows of one rebuild.
LEMMA FreshShape ==
  ASSUME TypeOK, NEW p \in Processes, CommitIngest(p)
  PROVE  IsFiniteSet(Fresh(All(p))) /\ OneOfEachWindow(Fresh(All(p)))
<1>1. All(p) \in SUBSET Records
  BY CommitTakes
<1>2. IsFiniteSet(Due[All(p)]) /\ OneOfEachWindow(Due[All(p)])
  BY <1>1, HookAssumption
<1>3. Fresh(All(p)) \subseteq Due[All(p)]
  BY DEF Fresh
<1> QED BY <1>2, <1>3, FS_Subset DEF OneOfEachWindow

\* A step of one process does not touch what the others have taken and shown.
LEMMA OthersKeep ==
  ASSUME TypeOK, NEW p \in Processes, Acts(p), NEW q \in Processes \ {p}
  PROVE  /\ run'[q] = run[q] /\ phase'[q] = phase[q] /\ todo'[q] = todo[q]
         /\ took'[q] = took[q] /\ shown'[q] = shown[q]
<1> USE DEF TypeOK, Goes, database, private
<1>1. CASE Start(p)
  BY <1>1 DEF Start
<1>2. CASE \/ Begin(p) \/ Migrate(p) \/ Configure(p) \/ MissingTranscript(p)
           \/ RecoverDisplay(p) \/ WriteDisplay(p) \/ EndProject(p)
           \/ CalibrationStep(p) \/ Reply(p) \/ Crash(p)
  BY <1>2 DEF Begin, Migrate, Configure, MissingTranscript, RecoverDisplay,
              WriteDisplay, EndProject, CalibrationStep, Reply, Crash
<1>3. CASE ReadTranscript(p) \/ CommitReset(p) \/ CommitIngest(p)
  BY <1>3 DEF ReadTranscript, CommitReset, CommitIngest, Committed
<1>4. CASE Busy(p) \/ Fail(p)
  BY <1>4 DEF Busy, Fail, Fails
<1> QED BY <1>1, <1>2, <1>3, <1>4 DEF Acts, Step

LEMMA PromptStep ==
  ASSUME TypeOK, RunShape, NEW p \in Processes, Acts(p),
         phase[p] = "idle" => took[p] = {} /\ todo[p] = {},
         phase[p] # "idle" /\ run[p] = "UserPromptSubmit" => PromptShape(p)
  PROVE  /\ phase'[p] = "idle" => took'[p] = {} /\ todo'[p] = {}
         /\ phase'[p] # "idle" /\ run'[p] = "UserPromptSubmit" => PromptShape(p)'
<1> USE DEF TypeOK, Goes, Holds, Waits, database, private, Ended
<1>1. CASE Start(p)
  <2>1. PICK kind \in Runs[p] : \E files \in ToRead(kind) :
             /\ run'  = [run  EXCEPT ![p] = kind]
             /\ todo' = [todo EXCEPT ![p] = files]
    BY <1>1 DEF Start
  <2>2. PICK files \in ToRead(kind) :
             /\ run'  = [run  EXCEPT ![p] = kind]
             /\ todo' = [todo EXCEPT ![p] = files]
    BY <2>1
  <2>3. run'[p] = kind /\ todo'[p] = files /\ phase'[p] = "migrate"
        /\ took'[p] = {} /\ IsFiniteSet(took'[p]) /\ OneOfEachWindow(took'[p])
    BY <1>1, <2>2, FS_EmptySet DEF Start, OneOfEachWindow
  <2> QED BY <2>2, <2>3, PromptReads DEF PromptShape
<1>2. CASE Begin(p)
  BY <1>2 DEF Begin, PromptShape, Transactions
<1>3. CASE Migrate(p) \/ MissingTranscript(p) \/ Crash(p)
  BY <1>3 DEF Migrate, MissingTranscript, Crash, PromptShape
<1>4. CASE Configure(p)
  <2>1. run[p] = "UserPromptSubmit" => AfterOpen(p) = "read"
    BY DEF AfterOpen, Hooks
  <2>2. /\ phase[p] = "configure" /\ phase'[p] = AfterOpen(p)
        /\ UNCHANGED <<run, todo, took, shown>>
    BY <1>4 DEF Configure
  <2>3. AfterOpen(p) # "idle"
    BY AfterShape
  <2> QED BY <2>1, <2>2, <2>3 DEF PromptShape
<1>5. CASE ReadTranscript(p)
  BY <1>5 DEF ReadTranscript, PromptShape
<1>6. CASE CommitIngest(p)
  <2>1. /\ UNCHANGED <<run, todo, shown>>
        /\ phase[p] = "ingest" /\ phase'[p] = "project"
        /\ took'[p] = took[p] \cup Fresh(All(p))
    BY <1>6, CommitTakes DEF CommitIngest, Committed
  <2> QED BY <1>6, <2>1, FreshShape DEF PromptShape
<1>7. CASE CommitReset(p) \/ RecoverDisplay(p) \/ CalibrationStep(p)
  BY <1>7, AfterShape DEF CommitReset, RecoverDisplay, CalibrationStep, PromptShape, AfterFiles, RunShape
<1>8. CASE WriteDisplay(p)
  BY <1>8 DEF WriteDisplay, PromptShape
<1>9. CASE EndProject(p)
  BY <1>9 DEF EndProject, PromptShape, AfterFiles
<1>10. CASE Reply(p)
  BY <1>10 DEF Reply, PromptShape
<1>11. CASE Busy(p) \/ Fail(p)
  <2>1. /\ UNCHANGED <<run, todo, took, shown>>
        /\ phase'[p] \in {"read", "check", "done", "failed"}
        /\ phase'[p] # "failed" => run[p] \in {"setup", "doctor"}
    BY <1>11, FailsFacts DEF Busy, Fail
  <2>2. phase[p] # "idle"
    BY <1>11 DEF Busy, Fail, Transactions
  <2> QED BY <2>1, <2>2 DEF PromptShape
<1> QED BY <1>1, <1>2, <1>3, <1>4, <1>5, <1>6, <1>7, <1>8, <1>9, <1>10, <1>11 DEF Acts, Step

LEMMA PromptHooksStep ==
  TypeOK /\ RunShape /\ PromptHooks /\ [Next]_vars => PromptHooks'
<1> SUFFICES ASSUME TypeOK, RunShape, PromptHooks, [Next]_vars PROVE PromptHooks'
  OBVIOUS
<1>1. CASE \E p \in Processes : Acts(p)
  <2>1. PICK p \in Processes : Acts(p)
    BY <1>1
  <2>2. /\ phase'[p] = "idle" => took'[p] = {} /\ todo'[p] = {}
        /\ phase'[p] # "idle" /\ run'[p] = "UserPromptSubmit" => PromptShape(p)'
    BY <2>1, PromptStep DEF PromptHooks
  <2>3. \A q \in Processes \ {p} :
          /\ phase'[q] = "idle" => took'[q] = {} /\ todo'[q] = {}
          /\ phase'[q] # "idle" /\ run'[q] = "UserPromptSubmit" => PromptShape(q)'
    BY <2>1, OthersKeep DEF PromptHooks, PromptShape
  <2> QED BY <2>2, <2>3 DEF PromptHooks
<1>2. CASE WriteRecord \/ Interfere \/ UNCHANGED vars
  BY <1>2 DEF WriteRecord, Interfere, vars, private, database, PromptHooks, PromptShape
<1> QED BY <1>1, <1>2 DEF Next, Acts

\* The newest warning that is due has been taken by a run, and shown if that was
\* a prompt hook that finished, unless it showed one of a newer window
\* (hooks.rs: handle_hook; window_replay.rs: emitted_warnings).
THEOREM CrossingsTaken == Spec => []CrossingTaken
<1>1. Init => EmittedTaken /\ PromptHooks /\ RunShape
  BY HookAssumption DEF Init, EmittedTaken, PromptHooks, RunShape
<1>2. TypeOK /\ EmittedTaken /\ PromptHooks => CrossingTaken
  <2> SUFFICES ASSUME EmittedTaken, PromptHooks, TypeOK, NEW w \in NewestDue(records)
               PROVE  \E p \in Processes :
                        /\ w \in took[p]
                        /\ phase[p] = "done" /\ run[p] = "UserPromptSubmit" =>
                             /\ shown[p] # None
                             /\ shown[p] = w \/ shown[p].window > w.window
    BY DEF CrossingTaken
  <2>1. PICK p \in Processes : w \in took[p]
    BY DEF EmittedTaken, NewestDue
  <2>2. took[p] \in SUBSET Warnings
    BY DEF TypeOK
  <2>3. CASE phase[p] = "done" /\ run[p] = "UserPromptSubmit"
    <3>1. shown[p] = Newest(took[p]) /\ IsFiniteSet(took[p]) /\ OneOfEachWindow(took[p])
      BY <2>3 DEF PromptHooks, PromptShape
    <3>2. shown[p] \in took[p] /\ w.window <= shown[p].window
      BY <2>1, <2>2, <3>1, NewestExists
    <3>3. shown[p] # None /\ shown[p].window \in Nat /\ w.window \in Nat
      BY <2>1, <2>2, <3>2, HookAssumption DEF Warnings
    <3>4. shown[p] = w \/ shown[p].window > w.window
      BY <2>1, <3>1, <3>2, <3>3 DEF OneOfEachWindow
    <3> QED BY <2>1, <3>3, <3>4
  <2> QED BY <2>1, <2>3
<1> QED BY <1>1, <1>2, InitType, NextType, RunShapeStep, TakenStep, PromptHooksStep, PTL
        DEF Spec
=============================================================================
