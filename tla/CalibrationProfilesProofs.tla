----------------------- MODULE CalibrationProfilesProofs -----------------------
(***************************************************************************)
(* Proofs about CalibrationProfiles for any sessions, values and number of *)
(* processes.                                                              *)
(***************************************************************************)
EXTENDS CalibrationProfiles, TLAPS

\* A checked generation names an identity that has a result.
Backed(g) == g.kind = "checked" => Checked(g)

\* Whatever carries a generation carries one that was checked before, and a
\* profile is inherited only under the key of a check.
GenerationsBacked ==
  /\ Backed(generation)
  /\ \A o \in observations : Backed(o.id.generation)
  /\ \A p \in Processes : Backed(local[p].id.generation)
  /\ \A i \in DOMAIN profiles :
       /\ Backed(profiles[i].id.generation)
       /\ profiles[i].confidence = "inherited" => profiles[i].id.generation.kind = "checked"

\* A profile is inherited for an identity at most once, before the user can
\* approve any value for it: the key it is stored under is new.
InheritedFirst ==
  \A i, j \in DOMAIN profiles :
    (profiles[i].confidence = "inherited" /\ profiles[j].id = profiles[i].id) => i <= j

IInv == TypeOK /\ GenerationsBacked /\ InheritedFirst /\ ReviewedOnce

-----------------------------------------------------------------------------
LEMMA Elements ==
  ASSUME NEW S, NEW q \in Seq(S)
  PROVE  \A i \in DOMAIN q : q[i] \in S
OBVIOUS

\* A sequence after an Append: the old elements, and the new one behind them.
LEMMA Appended ==
  ASSUME NEW S, NEW q \in Seq(S), NEW e
  PROVE  /\ \A i \in DOMAIN q : i \in Nat /\ i < Len(q) + 1
         /\ \A i \in DOMAIN Append(q, e) :
              \/ i \in DOMAIN q /\ Append(q, e)[i] = q[i]
              \/ i = Len(q) + 1 /\ Append(q, e)[i] = e
OBVIOUS

LEMMA IdleType == Idle \in Local /\ Idle.id \in Identities /\ Idle.info \in Infos
<1> DEFINE silent == [version |-> Unknown, model |-> Unknown]
           key == Key(Unknown, Unknown, Unknown, "unavailable")
           id == Identity(Unknown, Unknown, "unavailable", NoGeneration)
<1>1. Idle = [info |-> silent, now |-> 0, key |-> key, supported |-> FALSE, id |-> id,
              prior |-> 0]
  BY DEF Idle
<1>2. silent \in Infos /\ Idle.info = silent
  BY <1>1 DEF Infos
<1>3. Unknown \in Models /\ Unknown \in Plans /\ Unknown \in {i.version : i \in Infos}
  BY <1>2 DEF Models, Plans
<1>4. key \in Keys
  BY <1>3 DEF Key, Keys, Schemas
<1>5. id \in Identities
  BY <1>3 DEF Identity, Identities, Schemas, Generations
<1>6. silent \in Hints /\ 0 \in Priors
  BY <1>3 DEF Hints, Priors
<1> HIDE DEF silent, key, id
<1> QED BY <1>1, <1>2, <1>4, <1>5, <1>6 DEF Local

LEMMA IdleLocal ==
  ASSUME NEW info \in Hints, NEW now \in Nat
  PROVE  [Idle EXCEPT !.info = info, !.now = now] \in Local
BY IdleType DEF Local

LEMMA LatestFacts ==
  ASSUME TypeOK
  PROVE  /\ Latest \in Identities
         /\ Latest = Idle.id \/ \E o \in observations : Latest = o.id
<1>1. CASE Newest = {}
  BY <1>1, IdleType DEF Latest
<1>2. CASE Newest # {}
  <2>1. (CHOOSE o \in Newest : TRUE) \in observations
    BY <1>2 DEF Newest
  <2> QED BY <1>2, <2>1 DEF Latest, TypeOK
<1> QED BY <1>1, <1>2

LEMMA SelectedType ==
  ASSUME TypeOK, NEW id
  PROVE  /\ Selected(id).value \in Priors
         /\ Selected(id).confidence # "unsupported" => Selected(id).value # 0
<1>1. CASE InForce(id) # {}
  <2>1. (CHOOSE i \in InForce(id) : TRUE) \in DOMAIN profiles
    BY <1>1 DEF InForce, Rows
  <2>2. profiles[CHOOSE i \in InForce(id) : TRUE] \in Profile
    BY <2>1 DEF TypeOK
  <2>3. Selected(id).value = profiles[CHOOSE i \in InForce(id) : TRUE].value
    BY <1>1 DEF Selected
  <2> QED BY <2>2, <2>3, ProfileAssumption DEF Profile, Priors
<1>2. CASE InForce(id) = {}
  BY <1>2, ProfileAssumption DEF Selected, Priors
<1> QED BY <1>1, <1>2

LEMMA KeyType ==
  ASSUME TypeOK, NEW info \in Hints
  PROVE  CurrentKey(info) \in Keys
<1>1. Latest.plan \in Plans /\ Latest.model \in Models /\ Latest.schema \in Schemas
  BY LatestFacts DEF Identities
<1> QED BY <1>1 DEF CurrentKey, Key, Keys, Schemas, Hints

LEMMA IngestType ==
  ASSUME TypeOK, NEW s \in Sessions, Ingest(s)
  PROVE  /\ \A o \in observations' : o.at \in Nat /\ o.id \in Identities
         /\ \A o \in observations' : o \in observations \/ o.id.generation = GenerationFor(s)
         /\ diagnostics' \subseteq Nat
         /\ read' \in [Sessions -> Nat]
<1>1. written[s] \in Seq([at : Nat, ok : BOOLEAN])
  BY DEF TypeOK
<1>2. \A ok \in BOOLEAN : Fresh(s, ok) \subseteq Nat
  <2>1. \A i \in DOMAIN written[s] : written[s][i] \in [at : Nat, ok : BOOLEAN]
    BY <1>1, Elements
  <2> QED BY <2>1 DEF Fresh
<1>3. ModelOf(s) \in Models /\ GenerationFor(s) \in Generations /\ s.plan \in Plans
  BY ProfileAssumption DEF ModelOf, GenerationFor, Context, Session, About, Models, Infos,
     Generations, Plans, TypeOK
<1>4. Identity(s.plan, ModelOf(s), "known", GenerationFor(s)) \in Identities
  BY <1>3 DEF Identity, Identities, Schemas
<1>5. Identity(s.plan, ModelOf(s), "known", GenerationFor(s)).generation = GenerationFor(s)
  BY DEF Identity
<1>6. \A o \in observations' : o \in observations
        \/ \E t \in Fresh(s, TRUE) :
             o = [session |-> s.name, at |-> t,
                  id |-> Identity(s.plan, ModelOf(s), "known", GenerationFor(s))]
  BY DEF Ingest
<1>7. Len(written[s]) \in Nat
  BY <1>1
<1>8. diagnostics' \subseteq Nat /\ read' \in [Sessions -> Nat]
  BY <1>2, <1>7 DEF Ingest, TypeOK
<1>9. ASSUME NEW o \in observations'
      PROVE  /\ o.at \in Nat /\ o.id \in Identities
             /\ o \in observations \/ o.id.generation = GenerationFor(s)
  <2>1. CASE o \in observations
    BY <2>1 DEF TypeOK
  <2>2. ASSUME NEW t \in Fresh(s, TRUE),
               o = [session |-> s.name, at |-> t,
                    id |-> Identity(s.plan, ModelOf(s), "known", GenerationFor(s))]
        PROVE  o.at = t /\ o.id = Identity(s.plan, ModelOf(s), "known", GenerationFor(s))
    BY <2>2
  <2>3. \A t \in Fresh(s, TRUE) : t \in Nat
    BY <1>2
  <2> QED BY <1>4, <1>5, <1>6, <2>1, <2>2, <2>3
<1> QED BY <1>8, <1>9

\* The values that a process may write keep the type of its local state.
LEMMA InheritedType ==
  ASSUME TypeOK, NEW p \in Processes, local[p].prior # 0
  PROVE  Inherited(p) \in Profile
<1>1. local[p] \in Local
  BY DEF TypeOK
<1>2. local[p].key \in Keys /\ local[p].now \in Nat /\ local[p].prior \in Values \cup {Baseline}
  <2>1. local[p].key \in Keys /\ local[p].now \in Nat /\ local[p].prior \in Priors
    BY <1>1 DEF Local
  <2> QED BY <2>1 DEF Priors
<1>3. Identity(local[p].key.plan, local[p].key.model, local[p].key.schema, local[p].key)
        \in Identities
  BY <1>2 DEF Identity, Identities, Keys, Generations
<1>4. Inherited(p) = [id |-> Identity(local[p].key.plan, local[p].key.model,
                                      local[p].key.schema, local[p].key),
                      value |-> local[p].prior, confidence |-> "inherited",
                      at |-> local[p].now]
  BY DEF Inherited
<1> QED BY <1>2, <1>3, <1>4 DEF Profile

LEMMA StepType ==
  ASSUME TypeOK, [Next]_vars
  PROVE  TypeOK'
<1> USE DEF transcripts, evidence, stored
<1>a. clock + 1 \in Nat /\ \A p \in Processes : local[p] \in Local
  BY DEF TypeOK
<1>b. local \in [Processes -> Local]
  BY DEF TypeOK
<1>1. ASSUME NEW s \in Sessions, WriteRecord(s) PROVE TypeOK'
  <2>1. PICK ok \in Shapes[s] : written' = [written EXCEPT ![s] =
                                           Append(@, [at |-> clock + 1, ok |-> ok])]
    BY <1>1 DEF WriteRecord
  <2>2. [at |-> clock + 1, ok |-> ok] \in [at : Nat, ok : BOOLEAN]
    BY <1>a, ProfileAssumption
  <2>3. Append(written[s], [at |-> clock + 1, ok |-> ok]) \in Seq([at : Nat, ok : BOOLEAN])
    BY <2>2 DEF TypeOK
  <2>4. written' \in [Sessions -> Seq([at : Nat, ok : BOOLEAN])]
    BY <2>1, <2>3 DEF TypeOK
  <2> QED BY <1>1, <2>4 DEF WriteRecord, TypeOK
<1>2. ASSUME NEW s \in Sessions, Refresh(s) PROVE TypeOK'
  BY <1>2, IngestType DEF Refresh, TypeOK
<1>3. ASSUME NEW p \in Processes, StartHook(p) PROVE TypeOK'
  <2>1. PICK s \in Sessions :
          /\ local' = [local EXCEPT ![p] = [Idle EXCEPT !.info = s.hook, !.now = clock + 1]]
          /\ Ingest(s) \/ UNCHANGED <<read, evidence>>
    BY <1>3 DEF StartHook
  <2>2. s.hook \in Hints
    BY ProfileAssumption DEF Session, About, Infos, Models, Hints
  <2>3. [Idle EXCEPT !.info = s.hook, !.now = clock + 1] \in Local
    BY <1>a, <2>2, IdleLocal
  <2>4. local' \in [Processes -> Local]
    BY <1>b, <2>1, <2>3
  <2>5. CASE Ingest(s)
    <3>1. /\ \A o \in observations' : o.at \in Nat /\ o.id \in Identities
          /\ diagnostics' \subseteq Nat
          /\ read' \in [Sessions -> Nat]
      BY <2>5, IngestType
    <3>2. /\ runs' = runs + 1 /\ clock' = clock + 1
          /\ pc' = [pc EXCEPT ![p] = "identity"]
          /\ UNCHANGED <<written, stored>>
      BY <1>3 DEF StartHook
    <3> QED BY <2>4, <3>1, <3>2 DEF TypeOK
  <2>6. CASE UNCHANGED <<read, evidence>>
    BY <1>3, <2>4, <2>6 DEF StartHook, TypeOK
  <2> QED BY <2>1, <2>5, <2>6
<1>4. ASSUME NEW p \in Processes, StartDoctor(p) PROVE TypeOK'
  <2>1. PICK s \in Sessions : local' = [local EXCEPT ![p] =
                       [Idle EXCEPT !.info.version = s.hook.version, !.now = clock + 1]]
    BY <1>4 DEF StartDoctor
  <2>2. s.hook.version \in {i.version : i \in Infos}
    BY DEF Infos
  <2>3. [Idle EXCEPT !.info.version = s.hook.version] \in Local
    <3>1. Idle.info \in Hints
      BY IdleType DEF Local
    <3>2. [Idle.info EXCEPT !.version = s.hook.version] \in Hints
      BY <2>2, <3>1 DEF Hints
    <3> QED BY <3>2, IdleType DEF Local
  <2>5. [Idle EXCEPT !.info.version = s.hook.version, !.now = clock + 1] \in Local
    BY <1>a, <2>3 DEF Local
  <2>4. local' \in [Processes -> Local]
    BY <1>b, <2>1, <2>5
  <2> QED BY <1>4, <2>4 DEF StartDoctor, TypeOK
<1>5. ASSUME NEW p \in Processes, TakeIdentity(p) PROVE TypeOK'
  <2>1. local[p] \in Local /\ local[p].info \in Hints
    BY <1>a DEF Local
  <2>2. CurrentKey(local[p].info) \in Keys /\ Supported \in BOOLEAN
    BY <2>1, KeyType DEF Supported
  <2>0. Idle.info \in Hints
    BY IdleType DEF Local
  <2>3. [local[p] EXCEPT !.info = Idle.info, !.key = CurrentKey(local[p].info),
                         !.supported = Supported] \in Local
    BY <2>0, <2>1, <2>2 DEF Local
  <2>4. local' \in [Processes -> Local]
    BY <1>b, <1>5, <2>3 DEF TakeIdentity
  <2> QED BY <1>5, <2>4 DEF TakeIdentity, TypeOK
<1>6. ASSUME NEW p \in Processes, TakePrior(p) PROVE TypeOK'
  <2>1. [local[p] EXCEPT !.prior = Selected(Latest).value] \in Local
    BY <1>a, SelectedType DEF Local
  <2>2. local' \in [Processes -> Local]
    BY <1>b, <1>6, <2>1 DEF TakePrior
  <2> QED BY <1>6, <2>2 DEF TakePrior, TypeOK
<1>7. ASSUME NEW p \in Processes, CommitCheck(p) PROVE TypeOK'
  <2>1. local' \in [Processes -> Local]
    BY <1>b, <1>7, IdleType DEF CommitCheck
  <2>2. CASE FirstCheck(p)
    <3>1. local[p].key \in Keys
      BY <1>a DEF Local
    <3>2. Outcome(p) \in {"degraded", "review", "compatible"}
      BY DEF Outcome
    <3>3. profiles' \in Seq(Profile)
      BY <2>2, InheritedType DEF FirstCheck, TypeOK
    <3>4. \A r \in results' : r.key \in Keys /\ r.result \in {"degraded", "review", "compatible"}
      BY <2>2, <3>1, <3>2 DEF FirstCheck, TypeOK
    <3>5. generation' \in Keys
      BY <2>2, <3>1 DEF FirstCheck
    <3> QED BY <1>7, <2>1, <3>3, <3>4, <3>5 DEF CommitCheck, TypeOK
  <2>3. CASE UNCHANGED stored
    BY <1>7, <2>1, <2>3 DEF CommitCheck, TypeOK
  <2> QED BY <1>7, <2>2, <2>3 DEF CommitCheck, TypeOK
<1>8. ASSUME NEW p \in Processes, StartApply(p) PROVE TypeOK'
  <2>1. [Idle EXCEPT !.now = clock + 1] \in Local
    BY <1>a, IdleType DEF Local
  <2>2. local' \in [Processes -> Local]
    BY <1>b, <1>8, <2>1 DEF StartApply
  <2> QED BY <1>8, <2>2 DEF StartApply, TypeOK
<1>9. ASSUME NEW p \in Processes, TakeProfile(p) PROVE TypeOK'
  <2>1. [local[p] EXCEPT !.id = Latest] \in Local
    BY <1>a, LatestFacts DEF Local
  <2>2. local' \in [Processes -> Local]
    BY <1>b, <1>9, <2>1, IdleType DEF TakeProfile
  <2> QED BY <1>9, <2>2 DEF TakeProfile, TypeOK
<1>10. ASSUME NEW p \in Processes, CommitApply(p) PROVE TypeOK'
  <2>1. local' \in [Processes -> Local]
    BY <1>b, <1>10, IdleType DEF CommitApply
  <2>2. PICK v \in Values :
          profiles' = Append(profiles, [id |-> local[p].id, value |-> v,
                                        confidence |-> "personal", at |-> local[p].now])
    BY <1>10 DEF CommitApply
  <2>3. local[p].id \in Identities /\ local[p].now \in Nat
    BY <1>a DEF Local
  <2>4. [id |-> local[p].id, value |-> v, confidence |-> "personal", at |-> local[p].now]
          \in Profile
    BY <2>3 DEF Profile
  <2>5. profiles' \in Seq(Profile)
    BY <2>2, <2>4 DEF TypeOK
  <2> QED BY <1>10, <2>1, <2>5 DEF CommitApply, TypeOK
<1>11. ASSUME NEW p \in Processes, Abandon(p) PROVE TypeOK'
  <2>1. local' \in [Processes -> Local]
    BY <1>b, <1>11, IdleType DEF Abandon
  <2> QED BY <1>11, <2>1 DEF Abandon, TypeOK
<1>12. CASE UNCHANGED vars
  BY <1>12 DEF vars, TypeOK
<1> QED BY <1>1, <1>2, <1>3, <1>4, <1>5, <1>6, <1>7, <1>8, <1>9, <1>10, <1>11, <1>12
        DEF Next, Step

-----------------------------------------------------------------------------
\* The four parts of the invariant that a step which leaves the tables alone, or
\* only adds observations, preserves.
LEMMA QuietStep ==
  ASSUME IInv, UNCHANGED stored,
         \A o \in observations' : o \in observations \/ Backed(o.id.generation),
         \A p \in Processes : Backed(local'[p].id.generation)
  PROVE  GenerationsBacked' /\ InheritedFirst' /\ ReviewedOnce'
<1>1. \A g : Backed(g) <=> Backed(g)'
  BY DEF Backed, Checked, stored
<1>2. InheritedFirst' /\ ReviewedOnce'
  BY DEF IInv, InheritedFirst, ReviewedOnce, stored
<1>3. GenerationsBacked'
  BY <1>1 DEF IInv, GenerationsBacked, stored
<1> QED BY <1>2, <1>3

LEMMA IdleBacked == ~(Idle.id.generation.kind = "checked")
BY DEF Idle, Identity, NoGeneration

\* A read stamps its observations with the generation in force, or with the
\* version the transcript names.
LEMMA IngestBacked ==
  ASSUME IInv, NEW s \in Sessions, Ingest(s)
  PROVE  \A o \in observations' : o \in observations \/ Backed(o.id.generation)
<1>1. Backed(GenerationFor(s))
  BY DEF GenerationFor, VersionOf, Backed, IInv, GenerationsBacked
<1> QED BY <1>1, IngestType DEF IInv

LEMMA InvariantInit == Init => IInv
<1> SUFFICES ASSUME Init PROVE IInv
  OBVIOUS
<1>1. TypeOK
  BY IdleType, ProfileAssumption DEF Init, TypeOK
<1>2. GenerationsBacked
  BY IdleBacked DEF Init, GenerationsBacked, Backed, NoGeneration
<1> QED BY <1>1, <1>2 DEF Init, IInv, InheritedFirst, ReviewedOnce

\* The copy of a check is stored under a key that no profile has yet.
LEMMA KeyIsNew ==
  ASSUME IInv, NEW p \in Processes, ~Checked(local[p].key)
  PROVE  \A i \in DOMAIN profiles : profiles[i].id # Inherited(p).id
<1>1. local[p].key.kind = "checked" /\ Inherited(p).id.generation = local[p].key
  BY DEF IInv, TypeOK, Local, Keys, Inherited, Identity
<1> QED BY <1>1 DEF IInv, GenerationsBacked, Backed

\* The first check of an identity: nothing carries its key as a generation yet,
\* so the copy it may store is the first profile of that identity.
LEMMA FirstCheckInvariant ==
  ASSUME IInv, NEW p \in Processes, CommitCheck(p), ~Checked(local[p].key)
  PROVE  GenerationsBacked' /\ InheritedFirst' /\ ReviewedOnce'
<1>k. PICK k, o : k = local[p].key /\ o = Outcome(p)
  OBVIOUS
<1> DEFINE row == [key |-> k, result |-> o]
<1>1. FirstCheck(p) /\ observations' = observations /\ local' = [local EXCEPT ![p] = Idle]
  BY DEF CommitCheck, evidence
<1>2. local \in [Processes -> Local] /\ k \in Keys /\ profiles \in Seq(Profile)
  BY <1>k DEF IInv, TypeOK, Local
<1>3. k.kind = "checked" /\ Inherited(p).id.generation = k
      /\ Inherited(p).confidence = "inherited"
  BY <1>2, <1>k DEF Keys, Inherited, Identity
<1>4. results' = results \cup {row} /\ generation' = k
  BY <1>1, <1>k DEF FirstCheck
<1>5. Backed(k)' /\ \A g : Backed(g) => Backed(g)'
  <2>1. row \in results' /\ row.key = k
    BY <1>4
  <2>2. Checked(k)' /\ \A g : Checked(g) => Checked(g)'
    BY <1>4, <2>1 DEF Checked
  <2> QED BY <2>2 DEF Backed
<1>6. \A i \in DOMAIN profiles : profiles[i].id.generation # k
  BY <1>3, <1>k DEF IInv, GenerationsBacked, Backed
<1>7. \/ profiles' = profiles
      \/ profiles' = Append(profiles, Inherited(p))
  BY <1>1 DEF FirstCheck
<1>8. /\ \A i \in DOMAIN profiles' :
           \/ (i \in DOMAIN profiles /\ profiles'[i] = profiles[i])
           \/ (i = Len(profiles) + 1 /\ profiles'[i] = Inherited(p))
      /\ \A i \in DOMAIN profiles : i \in Nat /\ i < Len(profiles) + 1
  <2>1. profiles \in Seq(Profile)
    BY <1>2
  <2> DEFINE e == Inherited(p)
  <2> HIDE DEF e
  <2>2. /\ \A i \in DOMAIN profiles : i \in Nat /\ i < Len(profiles) + 1
        /\ \A i \in DOMAIN Append(profiles, e) :
             \/ (i \in DOMAIN profiles /\ Append(profiles, e)[i] = profiles[i])
             \/ (i = Len(profiles) + 1 /\ Append(profiles, e)[i] = e)
    BY <2>1, Appended
  <2>3. profiles' = profiles \/ profiles' = Append(profiles, e)
    BY <1>7 DEF e
  <2>4. \A i \in DOMAIN profiles' :
          \/ (i \in DOMAIN profiles /\ profiles'[i] = profiles[i])
          \/ (i = Len(profiles) + 1 /\ profiles'[i] = e)
    <3>1. CASE profiles' = profiles
      BY <3>1
    <3>2. CASE profiles' = Append(profiles, e)
      BY <2>2, <3>2, Zenon
    <3> QED BY <2>3, <3>1, <3>2
  <2> QED BY <2>2, <2>4 DEF e
<1>9. GenerationsBacked'
  <2>1. \A q \in Processes : Backed(local[q].id.generation)'
    BY <1>1, <1>2, <1>5, IdleBacked DEF Backed, IInv, GenerationsBacked
  <2>2. \A i \in DOMAIN profiles' :
          /\ Backed(profiles[i].id.generation)'
          /\ profiles'[i].confidence = "inherited" => profiles'[i].id.generation.kind = "checked"
    BY <1>3, <1>5, <1>8 DEF IInv, GenerationsBacked
  <2> QED BY <1>1, <1>4, <1>5, <2>1, <2>2 DEF IInv, GenerationsBacked
<1>10. InheritedFirst'
  <2> SUFFICES ASSUME NEW i \in DOMAIN profiles', NEW j \in DOMAIN profiles',
                      profiles'[i].confidence = "inherited", profiles'[j].id = profiles'[i].id
               PROVE  i <= j
    BY DEF InheritedFirst
  <2> QED BY <1>2, <1>3, <1>6, <1>8 DEF IInv, InheritedFirst
<1>11. ReviewedOnce'
  <2>1. \A r \in results : o = "review" => r.key.model # k.model
    BY <1>k DEF Outcome, NewModel
  <2> QED BY <1>4, <2>1 DEF ReviewedOnce, IInv
<1> QED BY <1>9, <1>10, <1>11

LEMMA InvariantStep == IInv /\ [Next]_vars => IInv'
<1> SUFFICES ASSUME IInv, [Next]_vars PROVE IInv'
  OBVIOUS
<1> USE DEF transcripts, evidence, stored
<1>0. TypeOK' /\ local \in [Processes -> Local]
      /\ \A p \in Processes : Backed(local[p].id.generation)
  BY StepType DEF IInv, TypeOK, GenerationsBacked
<1>a. \A g : g.kind # "checked" => Backed(g)
  BY DEF Backed
<1>1. ASSUME NEW s \in Sessions, WriteRecord(s) PROVE IInv'
  BY <1>0, <1>1, QuietStep DEF WriteRecord, IInv
<1>2. ASSUME NEW s \in Sessions, Refresh(s) PROVE IInv'
  BY <1>0, <1>2, QuietStep, IngestBacked DEF Refresh, IInv
<1>3. ASSUME NEW p \in Processes, StartHook(p) PROVE IInv'
  <2>1. PICK s \in Sessions :
          /\ local' = [local EXCEPT ![p] = [Idle EXCEPT !.info = s.hook, !.now = clock + 1]]
          /\ Ingest(s) \/ UNCHANGED <<read, evidence>>
    BY <1>3 DEF StartHook
  <2>2. [Idle EXCEPT !.info = s.hook, !.now = clock + 1].id = Idle.id
    BY DEF Idle
  <2>3. \A q \in Processes : Backed(local'[q].id.generation)
    BY <1>0, <1>a, <2>1, <2>2, IdleBacked
  <2>4. \A o \in observations' : o \in observations \/ Backed(o.id.generation)
    BY <2>1, IngestBacked
  <2> QED BY <1>0, <1>3, <2>3, <2>4, QuietStep DEF StartHook, IInv
<1>4. ASSUME NEW p \in Processes, StartDoctor(p) PROVE IInv'
  <2>1. PICK s \in Sessions : local' = [local EXCEPT ![p] =
                       [Idle EXCEPT !.info.version = s.hook.version, !.now = clock + 1]]
    BY <1>4 DEF StartDoctor
  <2>2. [Idle EXCEPT !.info.version = s.hook.version, !.now = clock + 1].id = Idle.id
    BY DEF Idle
  <2>3. \A q \in Processes : Backed(local'[q].id.generation)
    BY <1>0, <1>a, <2>1, <2>2, IdleBacked
  <2> QED BY <1>0, <1>4, <2>3, QuietStep DEF StartDoctor, IInv
<1>5. ASSUME NEW p \in Processes, TakeIdentity(p) PROVE IInv'
  <2>1. \A q \in Processes : local'[q].id = local[q].id
    BY <1>0, <1>5 DEF TakeIdentity, Local
  <2> QED BY <1>0, <1>5, <2>1, QuietStep DEF TakeIdentity, IInv
<1>6. ASSUME NEW p \in Processes, TakePrior(p) PROVE IInv'
  <2>1. \A q \in Processes : local'[q].id = local[q].id
    BY <1>0, <1>6 DEF TakePrior, Local
  <2> QED BY <1>0, <1>6, <2>1, QuietStep DEF TakePrior, IInv
<1>7. ASSUME NEW p \in Processes, CommitCheck(p) PROVE IInv'
  <2>1. CASE ~Checked(local[p].key)
    BY <1>0, <1>7, <2>1, FirstCheckInvariant DEF IInv
  <2>2. CASE Checked(local[p].key)
    <3>1. \A q \in Processes : Backed(local'[q].id.generation)
      BY <1>0, <1>a, <1>7, IdleBacked DEF CommitCheck
    <3> QED BY <1>0, <1>7, <2>2, <3>1, QuietStep DEF CommitCheck, IInv
  <2> QED BY <2>1, <2>2
<1>8. ASSUME NEW p \in Processes, StartApply(p) PROVE IInv'
  <2>1. [Idle EXCEPT !.now = clock + 1].id = Idle.id
    BY DEF Idle
  <2>2. \A q \in Processes : Backed(local'[q].id.generation)
    BY <1>0, <1>a, <1>8, <2>1, IdleBacked DEF StartApply
  <2> QED BY <1>0, <1>8, <2>2, QuietStep DEF StartApply, IInv
<1>9. ASSUME NEW p \in Processes, TakeProfile(p) PROVE IInv'
  <2>1. Backed(Latest.generation)
    BY <1>a, LatestFacts, IdleBacked DEF IInv, GenerationsBacked
  <2>2. [local[p] EXCEPT !.id = Latest].id = Latest
    BY <1>0 DEF Local
  <2>3. \A q \in Processes : Backed(local'[q].id.generation)
    BY <1>0, <1>a, <1>9, <2>1, <2>2, IdleBacked DEF TakeProfile
  <2> QED BY <1>0, <1>9, <2>3, QuietStep DEF TakeProfile, IInv
<1>10. ASSUME NEW p \in Processes, CommitApply(p) PROVE IInv'
  <2>1. PICK v \in Values :
          profiles' = Append(profiles, [id |-> local[p].id, value |-> v,
                                        confidence |-> "personal", at |-> local[p].now])
    BY <1>10 DEF CommitApply
  <2>2. /\ \A i \in DOMAIN profiles' :
             \/ i \in DOMAIN profiles /\ profiles'[i] = profiles[i]
             \/ /\ i = Len(profiles) + 1 /\ profiles'[i].id = local[p].id
                /\ profiles'[i].confidence = "personal"
        /\ \A i \in DOMAIN profiles : i \in Nat /\ i < Len(profiles) + 1
    BY <2>1 DEF IInv, TypeOK
  <2>3. \A g : Backed(g) <=> Backed(g)'
    BY <1>10 DEF Backed, Checked, CommitApply
  <2>4. \A q \in Processes : Backed(local'[q].id.generation)
    BY <1>0, <1>a, <1>10, IdleBacked DEF CommitApply
  <2>5. GenerationsBacked'
    BY <1>0, <1>10, <2>2, <2>3, <2>4 DEF IInv, GenerationsBacked, CommitApply
  <2>6. InheritedFirst'
    BY <2>2 DEF IInv, InheritedFirst
  <2>7. ReviewedOnce'
    BY <1>10 DEF IInv, ReviewedOnce, CommitApply
  <2> QED BY <1>0, <2>5, <2>6, <2>7 DEF IInv
<1>11. ASSUME NEW p \in Processes, Abandon(p) PROVE IInv'
  <2>1. \A q \in Processes : Backed(local'[q].id.generation)
    BY <1>0, <1>a, <1>11, IdleBacked DEF Abandon
  <2> QED BY <1>0, <1>11, <2>1, QuietStep DEF Abandon, IInv
<1>12. CASE UNCHANGED vars
  BY <1>0, <1>12, QuietStep DEF vars, IInv
<1> QED BY <1>1, <1>2, <1>3, <1>4, <1>5, <1>6, <1>7, <1>8, <1>9, <1>10, <1>11, <1>12
        DEF Next, Step

\* The inductive invariant holds of every behaviour of the store's processes.
THEOREM ProfileInvariant == Spec => []IInv
BY InvariantInit, InvariantStep, PTL DEF Spec

\* The tables and the processes keep their types.
THEOREM ProfileTypes == Spec => []TypeOK
BY ProfileInvariant, PTL DEF IInv

\* A row that is an approval, or the first of its identity, leaves an approval in
\* force wherever there is one: it is newer itself, or an older one stays.
LEMMA ApprovedAppended ==
  ASSUME TypeOK, NEW row \in Profile, profiles' = Append(profiles, row),
         \/ row.confidence = "personal"
         \/ \A i \in DOMAIN profiles : profiles[i].id # row.id,
         NEW id, Approved(id)
  PROVE  Approved(id)'
<1> DEFINE n == Len(profiles) + 1
<1>1. PICK i \in InForce(id) : profiles[i].confidence = "personal"
  BY DEF Approved
<1>2. /\ profiles \in Seq(Profile)
      /\ \A j \in DOMAIN profiles : profiles[j] \in Profile /\ j \in Nat /\ j < n
  BY DEF TypeOK
<1>3. /\ n \in Nat /\ n \in DOMAIN profiles' /\ profiles'[n] = row
      /\ \A j \in DOMAIN profiles : j \in DOMAIN profiles' /\ profiles'[j] = profiles[j]
      /\ \A j \in DOMAIN profiles' : j = n \/ j \in DOMAIN profiles
  BY <1>2
<1>4. row.at \in Nat /\ \A j \in DOMAIN profiles : profiles[j].at \in Nat
  BY <1>2 DEF Profile
<1>5. /\ i \in DOMAIN profiles /\ profiles[i].id = id
      /\ \A j \in DOMAIN profiles : profiles[j].id = id =>
            profiles[j].at < profiles[i].at \/ (profiles[j].at = profiles[i].at /\ j <= i)
  BY DEF InForce, Rows
<1> HIDE DEF n
<1>6. CASE row.id # id \/ row.at < profiles[i].at
  <2>1. i \in InForce(id)'
    BY <1>3, <1>5, <1>6 DEF InForce, Rows
  <2> QED BY <1>1, <1>3, <1>5, <2>1 DEF Approved
<1>7. CASE row.id = id /\ ~(row.at < profiles[i].at)
  <2>1. row.confidence = "personal"
    BY <1>5, <1>7
  <2>2. ASSUME NEW j \in DOMAIN profiles', profiles'[j].id = id
        PROVE  profiles'[j].at < row.at \/ (profiles'[j].at = row.at /\ j <= n)
    BY <1>2, <1>3, <1>4, <1>5, <1>7, <2>2
  <2>3. n \in InForce(id)'
    BY <1>3, <1>7, <2>2 DEF InForce, Rows
  <2> QED BY <1>3, <2>1, <2>3 DEF Approved
<1> QED BY <1>6, <1>7

\* Whatever checks and approvals overlap, and whatever they read before their
\* transactions, a value the user approved that is in force for an identity is
\* replaced by another approval only (check_compatibility, apply_calibration).
THEOREM ApprovalsAlwaysStay == Spec => ApprovalsStay
<1>1. ASSUME IInv, [Next]_vars, NEW id, Approved(id) PROVE Approved(id)'
  <2>0. TypeOK
    BY <1>1 DEF IInv
  <2>1. CASE profiles' = profiles
    BY <1>1, <2>1 DEF Approved, InForce, Rows
  <2>2. ASSUME NEW p \in Processes, CommitCheck(p), profiles' # profiles
        PROVE  Approved(id)'
    <3>1. ~Checked(local[p].key) /\ FirstCheck(p)
      BY <2>2 DEF CommitCheck, stored
    <3>2. local[p].prior # 0 /\ profiles' = Append(profiles, Inherited(p))
      BY <2>2, <3>1 DEF FirstCheck
    <3>3. Inherited(p) \in Profile
      BY <2>0, <3>2, InheritedType
    <3> QED BY <1>1, <2>0, <3>1, <3>2, <3>3, KeyIsNew, ApprovedAppended
  <2>3. ASSUME NEW p \in Processes, CommitApply(p) PROVE Approved(id)'
    <3>1. PICK v \in Values :
            profiles' = Append(profiles, [id |-> local[p].id, value |-> v,
                                          confidence |-> "personal", at |-> local[p].now])
      BY <2>3 DEF CommitApply
    <3> DEFINE row == [id |-> local[p].id, value |-> v, confidence |-> "personal",
                       at |-> local[p].now]
    <3>2. row \in Profile /\ row.confidence = "personal"
      BY <2>0 DEF TypeOK, Local, Profile
    <3> HIDE DEF row
    <3> QED BY <1>1, <2>0, <3>1, <3>2, ApprovedAppended DEF row
  <2> QED BY <1>1, <2>1, <2>2, <2>3 DEF Next, Step, WriteRecord, Refresh, StartHook,
             StartDoctor, TakeIdentity, TakePrior, StartApply, TakeProfile, Abandon,
             vars, stored
<1>2. IInv /\ [Next]_vars => [ApprovalsKept]_vars
  BY <1>1 DEF ApprovalsKept
<1> QED BY <1>2, ProfileInvariant, PTL DEF Spec, ApprovalsStay

\* A model is put under review once, however many sessions start together.
THEOREM ReviewsOnce == Spec => []ReviewedOnce
BY ProfileInvariant, PTL DEF IInv
=============================================================================
