---------------------------- MODULE DriftAnalysis ----------------------------
(***************************************************************************)
(* Calibration analyses (persistence/calibration_state.rs, 31-192).  The   *)
(* user's `analyze` command and every SessionStart hook analyse the        *)
(* observations stored so far: they count how often a candidate value has  *)
(* been confirmed by more evidence, recommend it when it was, and the      *)
(* hooks write a report from time to time.  An analysis reads the          *)
(* observations, then the previous analysis, then writes: three steps of   *)
(* one process that the steps of another may separate.                     *)
(***************************************************************************)
EXTENDS CalibrationReport

CONSTANTS
  Processes,
  Commands,      \* Commands[p]: what the process runs, of "analysis" and "hook"
  Universe,      \* the observations that may be ingested
  Known,         \* those that were before the first analysis
  DefaultIdentity, \* identity of the profile in force without observations
  Current,       \* value of the profile in force, or None
  ReportStep,    \* new qualifying windows that make a report due, 5
  ReportDays,    \* days that make a report due, 7
  MaxAnalyses,   \* bound: analyses that commit
  MaxDay         \* bound: days that pass

ASSUME DriftAssumption ==
  /\ Universe \subseteq Evidence
  /\ \A x, y \in Universe : x.id = y.id => x = y
  /\ Known \subseteq Universe
  /\ IsFiniteSet(Known)
  /\ DefaultIdentity \in Identities
  /\ Current \in Nat \cup {None}
  /\ Commands \in [Processes -> SUBSET {"analysis", "hook"}]
  /\ {ReportStep, ReportDays, MaxAnalyses, MaxDay} \subseteq Nat

VARIABLES
  observations,  \* rate_limit_observations and observed_rate_limit_windows
  samples,       \* calibration_samples
  analysis,      \* calibration_analysis_state: the row of each identity, or None
  reports,       \* calibration_reports, in rowid order
  reportFile,    \* calibration-report.json: the report written last, or None
  today,         \* Utc::now(), in days
  trail,         \* history: the analyses, in the order they committed
  pc, local      \* where each process is, and what it holds

vars == <<observations, samples, analysis, reports, reportFile, today, trail, pc, local>>
tables == <<samples, analysis, reports, reportFile>>

\* What a process holds: of its observations and the previous analysis until it
\* commits, of its report afterwards, and of the reason once the row is written.
Held(command, now, evidence, previous, identity, count, reason) ==
  [command |-> command, now |-> now, evidence |-> evidence, previous |-> previous,
   identity |-> identity, count |-> count, reason |-> reason]

Idle == Held("analysis", 0, {}, None, DefaultIdentity, 0, "none")

Init ==
  /\ observations = Known
  /\ samples = {}
  /\ analysis = [id \in Identities |-> None]
  /\ reports = <<>>
  /\ reportFile = None
  /\ today = 0
  /\ trail = <<>>
  /\ pc = [p \in Processes |-> "idle"]
  /\ local = [p \in Processes |-> Idle]

(* Hooks of any session ingest what Codex wrote; a transcript that is read *)
(* late brings older observations.                                         *)
Ingest ==
  /\ \E x \in Universe \ observations : observations' = observations \cup {x}
  /\ UNCHANGED <<tables, today, trail, pc, local>>

NextDay ==
  /\ today < MaxDay
  /\ today' = today + 1
  /\ UNCHANGED <<observations, tables, trail, pc, local>>

\* load_calibration_observations
Load(p) ==
  /\ pc[p] = "idle"
  /\ Len(trail) < MaxAnalyses
  /\ \E c \in Commands[p] :
       local' = [local EXCEPT ![p] = Held(c, today, observations, None, DefaultIdentity, 0, "none")]
  /\ pc' = [pc EXCEPT ![p] = "previous"]
  /\ UNCHANGED <<observations, tables, today, trail>>

\* SELECT FROM calibration_analysis_state
TakePrevious(p) ==
  /\ pc[p] = "previous"
  /\ local' = [local EXCEPT ![p] =
       Held(local[p].command, local[p].now, local[p].evidence,
            analysis[TargetIdentity(local[p].evidence, DefaultIdentity)],
            DefaultIdentity, 0, "none")]
  /\ pc' = [pc EXCEPT ![p] = "commit"]
  /\ UNCHANGED <<observations, tables, today, trail>>

\* Two candidates within two per cent of the older one.
Close(candidate, old) ==
  /\ candidate # None /\ old # None
  /\ Magnitude(candidate - old) * 50 <= old

\* Faulty variant: an analysis without a candidate keeps the confirmations.
ConfirmationsOutliveCandidate(count, candidate, previous) ==
  IF previous = None THEN IF count < MinimumSamples THEN 0 ELSE 1
  ELSE IF count <= previous.count THEN previous.confirmations
  ELSE IF Close(candidate, previous.candidate) THEN previous.confirmations + 1
  ELSE 1

\* Faulty variant: the same evidence, analysed again, confirms.
ConfirmationsCountRepeats(count, candidate, previous) ==
  IF count < MinimumSamples THEN 0
  ELSE IF previous = None THEN 1
  ELSE IF count < previous.count THEN previous.confirmations
  ELSE IF Close(candidate, previous.candidate) THEN previous.confirmations + 1
  ELSE 1

Confirmations(count, candidate, previous) ==
  IF count < MinimumSamples THEN 0
  ELSE IF previous = None THEN 1
  ELSE IF count <= previous.count THEN previous.confirmations
  ELSE IF Close(candidate, previous.candidate) THEN previous.confirmations + 1
  ELSE 1

SampleKey(s) == [identity |-> s.identity, deadline |-> s.deadlines[1],
                 source |-> s.source, from |-> s.from, to |-> s.to]

\* INSERT OR IGNORE by key.  Without a value in force a sample has no prediction,
\* and the column is NOT NULL (migrations.rs:191): the row is ignored.
Stored(found) == IF Current = None THEN {} ELSE {SampleKey(s) : s \in found}

\* Faulty variant: the windows beyond the minimum are counted.
RowOfUncounted(report, confirmations) ==
  [count |-> report.count - MinimumSamples, candidate |-> report.candidate,
   confirmations |-> confirmations]

\* What the row of one identity says after an analysis.
RowOf(report, confirmations) ==
  [count |-> report.count, candidate |-> report.candidate, confirmations |-> confirmations]

Commit(p) ==
  /\ pc[p] = "commit"
  /\ Len(trail) < MaxAnalyses
  /\ \E report \in {BuildReport(local[p].evidence, DefaultIdentity, Current)} :
     LET row == RowOf(report, Confirmations(report.count, report.candidate, local[p].previous))
     IN  /\ samples' = samples \cup Stored(report.samples)
         /\ analysis' = [analysis EXCEPT ![report.identity] = row]
         /\ trail' = Append(trail, [identity |-> report.identity, row |-> row,
                                    recommend |-> RecommendChange(report, row.confirmations)])
         /\ IF local[p].command = "hook"
            THEN /\ pc' = [pc EXCEPT ![p] = "schedule"]
                 /\ local' = [local EXCEPT ![p] =
                      Held("hook", local[p].now, {}, None,
                           report.identity, report.count, "none")]
            ELSE /\ pc' = [pc EXCEPT ![p] = "idle"]
                 /\ local' = [local EXCEPT ![p] = Idle]
  /\ UNCHANGED <<observations, reports, reportFile, today>>

\* ORDER BY generated_at DESC, rowid DESC LIMIT 1
NewestReport(id) ==
  LET of == {i \in DOMAIN reports : reports[i].identity = id}
  IN  CHOOSE i \in of : \A j \in of : \/ reports[j].at < reports[i].at
                                      \/ reports[j].at = reports[i].at /\ j <= i

\* Why a report may be due.
Reasons == {"initial", "new_windows", "weekly"}

Reason(id, count, now) ==
  IF \A i \in DOMAIN reports : reports[i].identity # id THEN "initial"
  ELSE IF count >= reports[NewestReport(id)].count + ReportStep THEN "new_windows"
  ELSE IF now - reports[NewestReport(id)].at >= ReportDays THEN "weekly"
  ELSE "none"

\* SELECT FROM calibration_reports: is a report due?
Schedule(p) ==
  /\ pc[p] = "schedule"
  /\ LET reason == Reason(local[p].identity, local[p].count, local[p].now)
     IN  IF reason = "none"
         THEN pc' = [pc EXCEPT ![p] = "idle"] /\ local' = [local EXCEPT ![p] = Idle]
         ELSE pc' = [pc EXCEPT ![p] = reason] /\ UNCHANGED local
  /\ UNCHANGED <<observations, tables, today, trail>>

\* The report that the process wrote or is about to write.
ReportOf(p, reason) ==
  [identity |-> local[p].identity, reason |-> reason,
   count |-> local[p].count, at |-> local[p].now]

\* Faulty variant: the file is written before the row.
InsertReportFileFirst(p) ==
  /\ pc[p] \in Reasons
  /\ reportFile' = ReportOf(p, pc[p])
  /\ local' = [local EXCEPT ![p] =
       Held("hook", local[p].now, {}, None, local[p].identity, local[p].count, pc[p])]
  /\ pc' = [pc EXCEPT ![p] = "file"]
  /\ UNCHANGED <<observations, samples, analysis, reports, today, trail>>

\* INSERT OR IGNORE by identity, reason, count and day
InsertReport(p) ==
  /\ pc[p] \in Reasons
  /\ LET row == ReportOf(p, pc[p])
     IN  reports' = IF \E i \in DOMAIN reports : reports[i] = row THEN reports
                    ELSE Append(reports, row)
  /\ local' = [local EXCEPT ![p] =
       Held("hook", local[p].now, {}, None, local[p].identity, local[p].count, pc[p])]
  /\ pc' = [pc EXCEPT ![p] = "file"]
  /\ UNCHANGED <<observations, samples, analysis, reportFile, today, trail>>

\* write_json_atomic, whether or not the row was new.
WriteFile(p) ==
  /\ pc[p] = "file"
  /\ reportFile' = ReportOf(p, local[p].reason)
  /\ pc' = [pc EXCEPT ![p] = "idle"]
  /\ local' = [local EXCEPT ![p] = Idle]
  /\ UNCHANGED <<observations, samples, analysis, reports, today, trail>>

\* The process dies, or an error ends it, between two of its steps.
Abandon(p) ==
  /\ pc[p] # "idle"
  /\ pc' = [pc EXCEPT ![p] = "idle"]
  /\ local' = [local EXCEPT ![p] = Idle]
  /\ UNCHANGED <<observations, tables, today, trail>>

Step(p) == \/ Load(p)
           \/ TakePrevious(p)
           \/ Commit(p)
           \/ Schedule(p)
           \/ InsertReport(p)
           \/ WriteFile(p)
           \/ Abandon(p)

Next == Ingest \/ NextDay \/ \E p \in Processes : Step(p)

Spec == Init /\ [][Next]_vars

-----------------------------------------------------------------------------

Row == [count : Nat, candidate : Int \cup {None}, confirmations : Nat]

(* The tables hold rows of the stored shape, and a process holds a row     *)
(* only between reading it and finishing with it.                          *)
TypeOK ==
  /\ observations \subseteq Universe
  /\ analysis \in [Identities -> Row \cup {None}]
  /\ \A i \in DOMAIN reports : reports[i].count \in Nat /\ reports[i].at \in 0..today
  /\ trail \in Seq([identity : Identities, row : Row, recommend : BOOLEAN])
  /\ \A p \in Processes : /\ local[p].evidence \subseteq observations
                          /\ local[p].previous \in Row \cup {None}
                          /\ pc[p] \in {"idle", "previous"} => local[p].previous = None

(* A stored analysis has a confirmation exactly when it has enough windows *)
(* to name a candidate, also when analyses of two processes overlap: no    *)
(* race leaves a candidate without its first confirmation, or              *)
(* confirmations of a candidate that is gone.                              *)
CandidateConfirmed ==
  \A id \in Identities : analysis[id] # None =>
    (analysis[id].confirmations >= 1 <=> analysis[id].count >= MinimumSamples)

(* Analyses k and m confirm each other: the later one had more qualifying  *)
(* windows and found nearly the same value.                                *)
ConfirmedBy(k, m) ==
  /\ trail[m].identity = trail[k].identity
  /\ trail[m].row.count < trail[k].row.count
  /\ Close(trail[k].row.candidate, trail[m].row.candidate)

(* A second confirmation is never counted without a pair of analyses, the  *)
(* later one with more qualifying windows than the earlier one, that found *)
(* nearly the same value, however the analyses of several processes        *)
(* interleave and in whatever order observations arrive.                   *)
ConfirmationEarned ==
  \A n \in DOMAIN trail : trail[n].row.confirmations >= 2 =>
    \E k \in 1..n : \E m \in 1..(k - 1) :
      trail[k].identity = trail[n].identity /\ ConfirmedBy(k, m)

(* The value an analysis recommends is the one that was confirmed: an      *)
(* earlier analysis with fewer qualifying windows found nearly the same.   *)
RecommendedWasConfirmed ==
  \A n \in DOMAIN trail : trail[n].recommend => \E m \in 1..(n - 1) : ConfirmedBy(n, m)

(* The row of a report comes before its file: whichever hook wrote the     *)
(* file last, and wherever others died or overlapped with it, the file     *)
(* shows a report that calibration_reports holds, and every report there   *)
(* counts the windows of an analysis of its identity that was committed.   *)
FileOnRecord ==
  /\ reportFile # None => \E i \in DOMAIN reports : reports[i] = reportFile
  /\ \A i \in DOMAIN reports : \E n \in DOMAIN trail :
       /\ trail[n].identity = reports[i].identity
       /\ trail[n].row.count = reports[i].count

(* Consecutive reports of one identity are a week or ReportStep qualifying *)
(* windows apart.  One hook at a time keeps to this; two hooks that ask at *)
(* once whether a report is due both write one (see the README).           *)
ReportsSpaced ==
  \A i, j \in DOMAIN reports :
    /\ i < j
    /\ reports[i].identity = reports[j].identity
    /\ \A k \in (i + 1)..(j - 1) : reports[k].identity # reports[i].identity
    => \/ reports[j].count >= reports[i].count + ReportStep
       \/ reports[j].at - reports[i].at >= ReportDays

=============================================================================
