-------------------------- MODULE CalibrationProfiles --------------------------
(***************************************************************************)
(* Which calibration is in force (persistence/calibration_state.rs and     *)
(* persistence/compatibility_state.rs).  Every observation carries an      *)
(* identity, read from the session and from the compatibility generation   *)
(* of the moment; a profile is stored under an identity and is in force    *)
(* for the observations that carry it.  SessionStart hooks and the doctor  *)
(* check the compatibility of an identity once, which moves the generation *)
(* and may copy the profile in force to a new model; the user approves a   *)
(* value with `calibration apply`.  The processes read what they decide on *)
(* before the transaction that writes it.                                  *)
(***************************************************************************)
EXTENDS Integers, Sequences, FiniteSets

CONSTANTS
  Processes,
  Sessions,    \* one transcript each: see Session
  Values,      \* weekly points a user may approve
  Baseline,    \* CalibrationProfile::plus_baseline, 15.8 weekly points
  MaxRecords,  \* bound: MaxRecords[s] records are written to the transcript of s
  Shapes,      \* Shapes[s] = {TRUE}: its records have a known shape; BOOLEAN: or not
  MaxProfiles, \* bound: calibration_profiles rows
  MaxRuns      \* bound: checks and approvals that start

Unknown == "unknown"

(* The plan is in every record, and the model may be; the version and the  *)
(* model may also be in the session_meta at the head of the transcript and *)
(* in the input of the hook.                                               *)
About   == [version : STRING, model : STRING]
Session == [name : STRING, plan : STRING, model : STRING, head : About, hook : About]

ASSUME ProfileAssumption ==
  /\ Sessions \subseteq Session
  /\ Values \cup {Baseline} \subseteq Nat \ {0}
  /\ Shapes \in [Sessions -> SUBSET BOOLEAN]
  /\ MaxRecords \in [Sessions -> Nat]
  /\ {MaxProfiles, MaxRuns} \subseteq Nat

VARIABLES
  written,      \* [Sessions -> Seq of [at, ok]]: the records; ok: a known shape
  read,         \* [Sessions -> Nat]: the records ingested
  observations, \* rate_limit_observations: [session, at, id]
  diagnostics,  \* diagnostic_events: the times of the unsupported_... rows
  generation,   \* config_metadata.current_compatibility_generation
  results,      \* compatibility_results: [key, result]
  profiles,     \* calibration_profiles, in rowid order
  clock,        \* Utc::now(); every timestamp is taken once
  runs,         \* checks and approvals started
  pc, local     \* where each process is, and what it holds

vars == <<written, read, observations, diagnostics, generation, results,
          profiles, clock, runs, pc, local>>
transcripts == <<written, read>>
evidence    == <<observations, diagnostics>>
stored      == <<generation, results, profiles>>

\* compatibility_generation: not checked yet, the version the transcript names,
\* or the key of the compatibility identity that was checked last.
NoGeneration      == [kind |-> "unknown"]
VersionOf(v)      == [kind |-> "version", version |-> v]
Key(v, p, m, s)   == [kind |-> "checked", version |-> v, plan |-> p, model |-> m,
                      schema |-> s]
Identity(p, m, s, g) == [plan |-> p, model |-> m, schema |-> s, generation |-> g]

Idle == [info |-> [version |-> Unknown, model |-> Unknown], now |-> 0,
         key |-> Key(Unknown, Unknown, Unknown, "unavailable"), supported |-> FALSE,
         id |-> Identity(Unknown, Unknown, "unavailable", NoGeneration), prior |-> 0]

Init ==
  /\ written = [s \in Sessions |-> <<>>]
  /\ read = [s \in Sessions |-> 0]
  /\ observations = {}
  /\ diagnostics = {}
  /\ generation = NoGeneration
  /\ results = {}
  /\ profiles = <<>>
  /\ clock = 0
  /\ runs = 0
  /\ pc = [p \in Processes |-> "idle"]
  /\ local = [p \in Processes |-> Idle]

\* Codex appends a record, of a shape the reader knows or not.
WriteRecord(s) ==
  /\ Len(written[s]) < MaxRecords[s]
  /\ clock' = clock + 1
  /\ \E ok \in Shapes[s] :
       written' = [written EXCEPT ![s] = Append(@, [at |-> clock + 1, ok |-> ok])]
  /\ UNCHANGED <<read, evidence, stored, runs, pc, local>>

-----------------------------------------------------------------------------
\* latest_calibration_identity, current_compatibility_identity.
Newest   == {o \in observations : \A q \in observations : q.at <= o.at}
Latest   == IF Newest = {} THEN Idle.id ELSE (CHOOSE o \in Newest : TRUE).id
LatestAt == IF Newest = {} THEN 0 ELSE (CHOOSE o \in Newest : TRUE).at

DiagnosticNewer == \E t \in diagnostics : t >= LatestAt
Supported       == Latest.schema # "unavailable" /\ ~DiagnosticNewer

CurrentKey(info) ==
  Key(info.version, Latest.plan,
      IF info.model # Unknown THEN info.model ELSE Latest.model,
      IF DiagnosticNewer THEN "unsupported" ELSE Latest.schema)

\* select_calibration_profile: approved_at DESC, rowid DESC.
Rows(id) == {i \in DOMAIN profiles : profiles[i].id = id}
InForce(id) ==
  {i \in Rows(id) : \A j \in Rows(id) :
     profiles[j].at < profiles[i].at \/ (profiles[j].at = profiles[i].at /\ j <= i)}

Selected(id) ==
  IF InForce(id) # {}
  THEN LET row == profiles[CHOOSE i \in InForce(id) : TRUE]
       IN  [value |-> row.value, confidence |-> row.confidence]
  ELSE IF id.plan = "plus" /\ id.schema \notin {"unavailable", "unsupported"}
       THEN [value |-> Baseline, confidence |-> "baseline"]
       ELSE [value |-> 0, confidence |-> "unsupported"]

-----------------------------------------------------------------------------
(* One read of a transcript: everything after the cursor.  The context     *)
(* that session_meta sets starts empty with each read, so only the read    *)
(* that starts at the head has it.                                         *)
Context(s) == IF read[s] = 0 THEN s.head ELSE Idle.info

ModelOf(s) == IF s.model # Unknown THEN s.model ELSE Context(s).model

GenerationFor(s) ==
  IF Context(s).version # Unknown THEN VersionOf(Context(s).version) ELSE generation

Fresh(s, ok) == {written[s][i].at : i \in {j \in DOMAIN written[s] :
                                             j > read[s] /\ written[s][j].ok = ok}}

Ingest(s) ==
  /\ observations' = observations \cup
       {[session |-> s.name, at |-> t,
         id |-> Identity(s.plan, ModelOf(s), "known", GenerationFor(s))] :
          t \in Fresh(s, TRUE)}
  /\ diagnostics' = diagnostics \cup Fresh(s, FALSE)
  /\ read' = [read EXCEPT ![s] = Len(written[s])]

\* The other hooks and the refresh command only ingest, if there is anything new.
Refresh(s) ==
  /\ read[s] < Len(written[s])
  /\ Ingest(s)
  /\ UNCHANGED <<written, stored, clock, runs, pc, local>>

\* run_hook starts: `now` is taken once, then the transcript is refreshed, if the
\* input names one.
StartHook(p) ==
  /\ pc[p] = "idle" /\ runs < MaxRuns
  /\ runs' = runs + 1
  /\ clock' = clock + 1
  /\ \E s \in Sessions :
       /\ local' = [local EXCEPT ![p] = [Idle EXCEPT !.info = s.hook, !.now = clock + 1]]
       /\ Ingest(s) \/ UNCHANGED <<read, evidence>>
  /\ pc' = [pc EXCEPT ![p] = "identity"]
  /\ UNCHANGED <<written, stored>>

\* doctor: no transcript is read, and only the version is known.
StartDoctor(p) ==
  /\ pc[p] = "idle" /\ runs < MaxRuns
  /\ runs' = runs + 1
  /\ clock' = clock + 1
  /\ \E s \in Sessions :
       local' = [local EXCEPT ![p] =
                   [Idle EXCEPT !.info.version = s.hook.version, !.now = clock + 1]]
  /\ pc' = [pc EXCEPT ![p] = "identity"]
  /\ UNCHANGED <<transcripts, evidence, stored>>

TakeIdentity(p) ==
  /\ pc[p] = "identity"
  /\ local' = [local EXCEPT ![p].info = Idle.info,
                            ![p].key = CurrentKey(local[p].info),
                            ![p].supported = Supported]
  /\ pc' = [pc EXCEPT ![p] = "prior"]
  /\ UNCHANGED <<transcripts, evidence, stored, clock, runs>>

\* check_compatibility: the prior profile is selected outside the transaction.
TakePrior(p) ==
  /\ pc[p] = "prior"
  /\ local' = [local EXCEPT ![p].prior = Selected(Latest).value]
  /\ pc' = [pc EXCEPT ![p] = "check"]
  /\ UNCHANGED <<transcripts, evidence, stored, clock, runs>>

Checked(key) == \E r \in results : r.key = key

\* Faulty variant: any identity but the first is taken for a new model.
NewModelIgnoresModel(key) == results # {}

NewModel(key) == results # {} /\ \A r \in results : r.key.model # key.model

Outcome(p) == IF ~local[p].supported THEN "degraded"
              ELSE IF NewModel(local[p].key) THEN "review" ELSE "compatible"

\* Faulty variant: the copy is stored under the generation it replaces.
InheritedUnderOld(p) ==
  LET k == local[p].key
  IN  [id |-> Identity(k.plan, k.model, k.schema, generation), value |-> local[p].prior,
       confidence |-> "inherited", at |-> local[p].now]

\* The profile in force is copied to the identity of the new model.
Inherited(p) ==
  LET k == local[p].key
  IN  [id |-> Identity(k.plan, k.model, k.schema, k), value |-> local[p].prior,
       confidence |-> "inherited", at |-> local[p].now]

\* Faulty variant: a new model gets its copy whatever the outcome of the check,
\* and whether there is a value to copy or not.
FirstCheckCopiesAlways(p) ==
  /\ results' = results \cup {[key |-> local[p].key, result |-> Outcome(p)]}
  /\ generation' = local[p].key
  /\ profiles' = IF NewModel(local[p].key) THEN Append(profiles, Inherited(p)) ELSE profiles

FirstCheck(p) ==
  /\ results' = results \cup {[key |-> local[p].key, result |-> Outcome(p)]}
  /\ generation' = local[p].key
  /\ profiles' = IF Outcome(p) = "review" /\ local[p].prior # 0
                 THEN Append(profiles, Inherited(p)) ELSE profiles

\* The transaction of check_compatibility; a known identity changes nothing.
CommitCheck(p) ==
  /\ pc[p] = "check"
  /\ Len(profiles) < MaxProfiles
  /\ IF Checked(local[p].key) THEN UNCHANGED stored ELSE FirstCheck(p)
  /\ pc' = [pc EXCEPT ![p] = "idle"]
  /\ local' = [local EXCEPT ![p] = Idle]
  /\ UNCHANGED <<transcripts, evidence, clock, runs>>

\* `calibration apply`: Utc::now() is an argument of apply_calibration.
StartApply(p) ==
  /\ pc[p] = "idle" /\ runs < MaxRuns
  /\ runs' = runs + 1
  /\ clock' = clock + 1
  /\ local' = [local EXCEPT ![p] = [Idle EXCEPT !.now = clock + 1]]
  /\ pc' = [pc EXCEPT ![p] = "profile"]
  /\ UNCHANGED <<transcripts, evidence, stored>>

\* The identity is that of the latest observation; an unsupported one is refused.
TakeProfile(p) ==
  /\ pc[p] = "profile"
  /\ IF Selected(Latest).confidence = "unsupported"
     THEN /\ pc' = [pc EXCEPT ![p] = "idle"]
          /\ local' = [local EXCEPT ![p] = Idle]
     ELSE /\ pc' = [pc EXCEPT ![p] = "apply"]
          /\ local' = [local EXCEPT ![p].id = Latest]
  /\ UNCHANGED <<transcripts, evidence, stored, clock, runs>>

CommitApply(p) ==
  /\ pc[p] = "apply"
  /\ Len(profiles) < MaxProfiles
  /\ \E v \in Values :
       profiles' = Append(profiles, [id |-> local[p].id, value |-> v,
                                     confidence |-> "personal", at |-> local[p].now])
  /\ pc' = [pc EXCEPT ![p] = "idle"]
  /\ local' = [local EXCEPT ![p] = Idle]
  /\ UNCHANGED <<transcripts, evidence, generation, results, clock, runs>>

\* A busy database, an I/O error or a kill: the transaction rolls back.
Abandon(p) ==
  /\ pc[p] # "idle"
  /\ pc' = [pc EXCEPT ![p] = "idle"]
  /\ local' = [local EXCEPT ![p] = Idle]
  /\ UNCHANGED <<transcripts, evidence, stored, clock, runs>>

Step(p) == \/ StartHook(p) \/ StartDoctor(p) \/ TakeIdentity(p) \/ TakePrior(p)
           \/ CommitCheck(p) \/ StartApply(p) \/ TakeProfile(p) \/ CommitApply(p)
           \/ Abandon(p)

Next == (\E s \in Sessions : WriteRecord(s) \/ Refresh(s)) \/ (\E p \in Processes : Step(p))
Spec == Init /\ [][Next]_vars

-----------------------------------------------------------------------------
Infos       == {Idle.info} \cup {s.head : s \in Sessions} \cup {s.hook : s \in Sessions}
Plans       == {Unknown} \cup {s.plan : s \in Sessions}
Models      == {i.model : i \in Infos} \cup {s.model : s \in Sessions}
Schemas     == {"unavailable", "unsupported", "known"}
Keys        == [kind : {"checked"}, version : {i.version : i \in Infos}, plan : Plans,
                model : Models, schema : Schemas]
Generations == {NoGeneration} \cup Keys \cup {VersionOf(i.version) : i \in Infos}
Identities  == [plan : Plans, model : Models, schema : Schemas, generation : Generations]
Profile     == [id : Identities, value : Values \cup {Baseline},
                confidence : {"inherited", "personal"}, at : Nat]
Hints       == [version : {i.version : i \in Infos}, model : Models]
Priors      == Values \cup {Baseline, 0}
Local       == [info : Hints, now : Nat, key : Keys, supported : BOOLEAN, id : Identities,
                prior : Priors]

\* The tables and the processes keep their types; a profile always has a value
\* (calibration_state.rs:95-109, compatibility_state.rs:210-213).
TypeOK ==
  /\ written \in [Sessions -> Seq([at : Nat, ok : BOOLEAN])]
  /\ read \in [Sessions -> Nat]
  /\ \A o \in observations : o.at \in Nat /\ o.id \in Identities
  /\ diagnostics \subseteq Nat
  /\ generation \in {NoGeneration} \cup Keys
  /\ \A r \in results : r.key \in Keys /\ r.result \in {"degraded", "review", "compatible"}
  /\ profiles \in Seq(Profile)
  /\ clock \in Nat /\ runs \in Nat
  /\ pc \in [Processes -> {"idle", "identity", "prior", "check", "profile", "apply"}]
  /\ local \in [Processes -> Local]

\* Once a value the user approved is in force for an identity, only another
\* approval replaces it: no compatibility check puts an inherited copy over it,
\* although its instant is newer than every approval made while it worked
\* (compatibility_state.rs:210-247, calibration_state.rs:296-301).
Approved(id) == \E i \in InForce(id) : profiles[i].confidence = "personal"

ApprovalsKept ==
  \A id \in {profiles[i].id : i \in DOMAIN profiles} :
    Approved(id) => Approved(id)'

ApprovalsStay == [][ApprovalsKept]_vars

\* A model is put under review once: two checks that both find it new, from
\* sessions that started together, agree (compatibility_state.rs:149-165).
ReviewedOnce ==
  \A r, q \in results :
    (r.result = "review" /\ q.result = "review" /\ r.key.model = q.key.model) => r = q

\* A new model is reviewed and not reset: what its sessions report after the
\* check is metered with the value that was inherited for it, or one the user
\* approved since, not with the baseline (tests/compatibility.rs:22).
NewModelInherits ==
  \A o \in observations, i \in DOMAIN profiles :
    (/\ profiles[i].confidence = "inherited"
     /\ profiles[i].at < o.at
     /\ \E s \in Sessions : /\ s.name = o.session
                            /\ s.hook.version = profiles[i].id.generation.version
                            /\ s.hook.model = profiles[i].id.model
                            /\ s.plan = profiles[i].id.plan)
      => Selected(o.id).confidence # "baseline"

\* A value the user applies is in force when `calibration apply` says that it was
\* applied (main.rs:169).
ApprovalTakesEffect ==
  [][\A p \in Processes : \A id \in {local[p].id} :
       CommitApply(p) => Approved(id)']_vars

\* Once a value is approved for what a session reports, what the session reports
\* later is metered with an approved value too (main.rs:169).
ApprovalReachesSession ==
  \A o, q \in observations :
    (o.session = q.session /\ o.at < q.at /\ Selected(o.id).confidence = "personal")
      => Selected(q.id).confidence = "personal"
=============================================================================
