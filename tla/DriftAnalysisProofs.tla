------------------------- MODULE DriftAnalysisProofs -------------------------
(***************************************************************************)
(* Proofs about DriftAnalysis for any observations, identities, thresholds *)
(* and number of processes.                                                *)
(***************************************************************************)
EXTENDS DriftAnalysis, Folds, FiniteSetTheorems, WellFoundedInduction, TLAPS

-----------------------------------------------------------------------------
(* A report counts finitely many samples. *)

LEMMA ImageFinite ==
  ASSUME NEW S, IsFiniteSet(S), NEW f
  PROVE  IsFiniteSet({f[x] : x \in S})
<1> DEFINE T == {f[x] : x \in S}
           g == [x \in S |-> f[x]]
<1>1. g \in Surjection(S, T)
  BY DEF Surjection
<1> HIDE DEF g, T
<1>2. IsFiniteSet(T)
  BY <1>1, FS_Surjection
<1> QED BY <1>2 DEF T

LEMMA GroupsFinite ==
  ASSUME NEW evidence, IsFiniteSet(evidence), NEW target
  PROVE  IsFiniteSet(Groups(evidence, target))
<1> DEFINE items == InOrder(evidence)
           five == Canonical(items, "five")
           weekly == Canonical(items, "weekly")
           f == [i \in DOMAIN items |->
                  [item |-> items[i], deadlines |-> <<five[i], weekly[i]>>]]
           both == {f[i] : i \in DOMAIN items}
           placed == {x \in both : /\ x.item.identity = target
                                   /\ x.item.five # None /\ x.item.weekly # None
                                   /\ x.deadlines[1] # None /\ x.deadlines[2] # None}
           g == [x \in placed |->
                  [deadlines |-> x.deadlines,
                   items |-> {y.item : y \in {z \in placed : z.deadlines = x.deadlines}}]]
<1>1. IsFiniteSet(DOMAIN items)
  <2>1. DOMAIN items = 1..Cardinality(evidence)
    BY DEF InOrder, Ranked
  <2>2. Cardinality(evidence) \in Int
    BY FS_CardinalityType
  <2> QED BY <2>1, <2>2, FS_Interval
<1>2. IsFiniteSet(both)
  <2> HIDE DEF f, items
  <2> QED BY <1>1, ImageFinite
<1>3. IsFiniteSet(placed)
  <2> HIDE DEF both
  <2> QED BY <1>2, FS_Subset
<1>4. IsFiniteSet({g[x] : x \in placed})
  <2> HIDE DEF g, placed
  <2> QED BY <1>3, ImageFinite
<1>5. both = {[item |-> items[i], deadlines |-> <<five[i], weekly[i]>>] : i \in DOMAIN items}
  <2> HIDE DEF items, five, weekly
  <2> QED OBVIOUS
<1>6. {g[x] : x \in placed} =
        { [deadlines |-> x.deadlines,
           items |-> {y.item : y \in {z \in placed : z.deadlines = x.deadlines}}] : x \in placed }
  <2> HIDE DEF placed
  <2> QED OBVIOUS
<1>7. Groups(evidence, target) = {g[x] : x \in placed}
  BY <1>5, <1>6 DEF Groups
<1> QED BY <1>4, <1>7

LEMMA EligibleFinite ==
  ASSUME NEW evidence, IsFiniteSet(evidence), NEW target
  PROVE  IsFiniteSet(Eligible(Samples(evidence, target)))
<1> DEFINE found == Samples(evidence, target)
<1>1. IsFiniteSet(found)
  <2> DEFINE large == {g \in Groups(evidence, target) : Cardinality(g.items) >= 2}
             First(group) == CHOOSE x \in group.items : \A y \in group.items \ {x} : Before(x, y)
             Last(group)  == CHOOSE x \in group.items : \A y \in group.items \ {x} : Before(y, x)
             h == [group \in large |->
               [identity |-> target, deadlines |-> group.deadlines, source |-> First(group).id,
                from |-> First(group).time, to |-> Last(group).time,
                five   |-> Last(group).five.used - First(group).five.used,
                weekly |-> Last(group).weekly.used - First(group).weekly.used]]
             moved == {h[group] : group \in large}
  <2>1. IsFiniteSet(large)
    BY GroupsFinite, FS_Subset
  <2>2. IsFiniteSet(moved)
    <3> HIDE DEF h, large
    <3> QED BY <2>1, ImageFinite
  <2>3. found = {s \in moved : s.five > 0 /\ s.weekly > 0}
    BY DEF Samples
  <2> HIDE DEF moved
  <2> QED BY <2>2, <2>3, FS_Subset
<1> QED BY <1>1, FS_Subset DEF Eligible

LEMMA CountType ==
  ASSUME NEW evidence, IsFiniteSet(evidence), NEW default, NEW current
  PROVE  BuildReport(evidence, default, current).count \in Nat
<1> DEFINE target == TargetIdentity(evidence, default)
<1>1. BuildReport(evidence, default, current).count =
        Cardinality(Eligible(Samples(evidence, target)))
  BY DEF BuildReport
<1> QED BY <1>1, EligibleFinite, FS_CardinalityType

-----------------------------------------------------------------------------
(* The inductive invariant: every row that is stored or held is one that   *)
(* an analysis of that identity committed.                                 *)

Sound(row) ==
  /\ row.count \in Nat /\ row.confirmations \in Nat
  /\ row.confirmations >= 1 <=> row.count >= MinimumSamples

Recorded(history, id, row) ==
  \E n \in DOMAIN history : history[n].identity = id /\ history[n].row = row

Finite ==
  /\ observations \subseteq Universe /\ IsFiniteSet(observations)
  /\ \A p \in Processes : local[p].evidence \subseteq Universe /\ IsFiniteSet(local[p].evidence)

Shape ==
  /\ \E S : trail \in Seq(S)
  /\ analysis = [id \in Identities |-> analysis[id]]
  /\ local = [p \in Processes |-> local[p]]

RowsRecorded ==
  \A id \in Identities : analysis[id] # None => Recorded(trail, id, analysis[id])

HeldRecorded ==
  \A p \in Processes : local[p].previous # None =>
    Recorded(trail, TargetIdentity(local[p].evidence, DefaultIdentity), local[p].previous)

TrailSound == \A n \in DOMAIN trail : Sound(trail[n].row)

IInv == /\ Shape
        /\ Finite
        /\ RowsRecorded
        /\ HeldRecorded
        /\ TrailSound
        /\ ConfirmationEarned

LEMMA HeldFields ==
  ASSUME NEW c, NEW now, NEW e, NEW row, NEW id, NEW n, NEW reason
  PROVE  LET h == Held(c, now, e, row, id, n, reason)
         IN  /\ h.evidence = e /\ h.previous = row /\ h.now = now
             /\ h.identity = id /\ h.count = n /\ h.reason = reason
BY DEF Held

LEMMA TargetType ==
  ASSUME NEW evidence \in SUBSET Universe
  PROVE  TargetIdentity(evidence, DefaultIdentity) \in Identities
BY DriftAssumption DEF TargetIdentity, Evidence

\* A first confirmation needs the windows, a second one a predecessor.
LEMMA ConfirmationsOf ==
  ASSUME NEW count \in Nat, NEW candidate, NEW previous,
         previous # None => Sound(previous)
  PROVE  LET c == Confirmations(count, candidate, previous)
         IN  /\ c \in Nat
             /\ c >= 1 <=> count >= MinimumSamples
             /\ c >= 2 => /\ previous # None
                          /\ \/ previous.confirmations >= 2
                             \/ /\ previous.count < count
                                /\ Close(candidate, previous.candidate)
<1> MinimumSamples \in Nat
  BY ReportAssumption
<1>1. CASE count < MinimumSamples \/ previous = None
  BY <1>1 DEF Confirmations
<1>2. CASE ~ (count < MinimumSamples \/ previous = None)
  BY <1>2 DEF Confirmations, Sound
<1> QED BY <1>1, <1>2

\* A sequence after an Append: the old elements, and the new one behind them.
LEMMA Appended ==
  ASSUME NEW S, NEW q \in Seq(S), NEW e
  PROVE  /\ Append(q, e) \in Seq(S \cup {e})
         /\ Len(q) \in Nat /\ DOMAIN q = 1..Len(q)
         /\ DOMAIN Append(q, e) = 1..(Len(q) + 1)
         /\ \A i \in DOMAIN q : Append(q, e)[i] = q[i]
         /\ Append(q, e)[Len(q) + 1] = e
<1>1. q \in Seq(S \cup {e}) /\ e \in S \cup {e}
  OBVIOUS
<1> QED BY <1>1

\* The history grows with an analysis that satisfies the invariant.
LEMMA TrailGrows ==
  ASSUME IInv, NEW e, trail' = Append(trail, e), Sound(e.row),
         e.row.confirmations >= 2 =>
           \E m \in DOMAIN trail :
             /\ trail[m].identity = e.identity
             /\ \/ trail[m].row.confirmations >= 2
                \/ /\ trail[m].row.count < e.row.count
                   /\ Close(e.row.candidate, trail[m].row.candidate)
  PROVE  /\ \E S : trail' \in Seq(S)
         /\ TrailSound'
         /\ ConfirmationEarned'
         /\ \A id, row : Recorded(trail, id, row) => Recorded(trail', id, row)
         /\ Recorded(trail', e.identity, e.row)
<1> DEFINE l == Len(trail)
<1>1. PICK S : trail \in Seq(S)
  BY DEF IInv, Shape
<1>2. /\ trail' \in Seq(S \cup {e})
      /\ l \in Nat /\ DOMAIN trail = 1..l
      /\ DOMAIN trail' = 1..(l + 1)
      /\ \A i \in DOMAIN trail : trail'[i] = trail[i]
      /\ trail'[l + 1] = e
  BY <1>1, Appended
<1> HIDE DEF l
<1>3. \A i \in DOMAIN trail' : i \in DOMAIN trail \/ i = l + 1
  BY <1>2
<1>4. TrailSound'
  BY <1>2, <1>3 DEF IInv, TrailSound, Sound
<1>5. \A id, row : Recorded(trail, id, row) => Recorded(trail', id, row)
  BY <1>2 DEF Recorded
<1>6. Recorded(trail', e.identity, e.row)
  BY <1>2 DEF Recorded
<1>7. ConfirmationEarned'
  <2> SUFFICES ASSUME NEW n \in DOMAIN trail', trail'[n].row.confirmations >= 2
               PROVE  \E k \in 1..n : \E m \in 1..(k - 1) :
                        trail'[k].identity = trail'[n].identity /\ ConfirmedBy(k, m)'
    BY DEF ConfirmationEarned
  <2>1. \A i \in DOMAIN trail : trail[i].row.confirmations >= 2 =>
          \E k \in 1..i : \E m \in 1..(k - 1) :
            trail'[k].identity = trail'[i].identity /\ ConfirmedBy(k, m)'
    <3> SUFFICES ASSUME NEW i \in DOMAIN trail, trail[i].row.confirmations >= 2
                 PROVE  \E k \in 1..i : \E m \in 1..(k - 1) :
                          trail'[k].identity = trail'[i].identity /\ ConfirmedBy(k, m)'
      OBVIOUS
    <3>1. PICK k \in 1..i :
            \E m \in 1..(k - 1) : trail[k].identity = trail[i].identity /\ ConfirmedBy(k, m)
      BY DEF IInv, ConfirmationEarned
    <3>2. PICK m \in 1..(k - 1) : trail[k].identity = trail[i].identity /\ ConfirmedBy(k, m)
      BY <3>1
    <3>3. k \in DOMAIN trail /\ m \in DOMAIN trail
      BY <1>2
    <3>4. trail'[k] = trail[k] /\ trail'[m] = trail[m] /\ trail'[i] = trail[i]
      BY <1>2, <3>3
    <3>5. trail'[k].identity = trail'[i].identity /\ ConfirmedBy(k, m)'
      BY <3>2, <3>4 DEF ConfirmedBy
    <3> QED BY <3>5
  <2>2. CASE n \in DOMAIN trail
    BY <1>2, <2>1, <2>2
  <2>3. CASE n = l + 1
    <3>1. PICK j \in DOMAIN trail :
            /\ trail[j].identity = e.identity
            /\ \/ trail[j].row.confirmations >= 2
               \/ /\ trail[j].row.count < e.row.count
                  /\ Close(e.row.candidate, trail[j].row.candidate)
      BY <1>2, <2>3
    <3>2. j \in 1..l /\ trail'[j] = trail[j] /\ trail'[n] = e
      BY <1>2, <2>3
    <3>3. CASE trail[j].row.confirmations >= 2
      <4>1. PICK k \in 1..j :
              \E m \in 1..(k - 1) : trail'[k].identity = trail'[j].identity /\ ConfirmedBy(k, m)'
        BY <2>1, <3>3
      <4>2. k \in 1..n /\ trail'[j].identity = trail'[n].identity
        BY <1>2, <2>3, <3>1, <3>2
      <4> QED BY <4>1, <4>2
    <3>4. CASE /\ trail[j].row.count < e.row.count
               /\ Close(e.row.candidate, trail[j].row.candidate)
      <4>1. ConfirmedBy(n, j)'
        BY <3>1, <3>2, <3>4 DEF ConfirmedBy
      <4>2. n \in 1..n /\ j \in 1..(n - 1)
        BY <1>2, <2>3, <3>2
      <4> QED BY <4>1, <4>2
    <3> QED BY <3>1, <3>3, <3>4
  <2> QED BY <1>3, <2>2, <2>3
<1> QED BY <1>2, <1>4, <1>5, <1>6, <1>7

-----------------------------------------------------------------------------
(* The steps. *)

LEMMA InitInvariant == Init => IInv
<1> SUFFICES ASSUME Init PROVE IInv
  OBVIOUS
<1>1. trail \in Seq({}) /\ DOMAIN trail = {}
  BY DEF Init
<1>2. Shape
  BY <1>1 DEF Init, Shape
<1>3. Finite
  BY FS_EmptySet, DriftAssumption, HeldFields DEF Init, Finite, Idle
<1>4. RowsRecorded /\ HeldRecorded
  BY HeldFields DEF Init, RowsRecorded, HeldRecorded, Idle
<1>5. TrailSound /\ ConfirmationEarned
  BY <1>1 DEF TrailSound, ConfirmationEarned
<1> QED BY <1>2, <1>3, <1>4, <1>5 DEF IInv

\* Steps that leave the analyses alone and let a process hold no row it was not
\* given by them.
LEMMA HoldInvariant ==
  ASSUME IInv, UNCHANGED <<analysis, trail>>,
         observations' \subseteq Universe, IsFiniteSet(observations'),
         local' = [p \in Processes |-> local'[p]],
         \A p \in Processes :
           /\ local'[p].evidence \subseteq Universe /\ IsFiniteSet(local'[p].evidence)
           /\ local'[p].previous # None =>
                Recorded(trail, TargetIdentity(local'[p].evidence, DefaultIdentity), local'[p].previous)
  PROVE  IInv'
<1>1. Shape' /\ Finite'
  BY DEF IInv, Shape, Finite
<1>2. \A id, row : Recorded(trail, id, row) => Recorded(trail', id, row)
  BY DEF Recorded
<1>3. RowsRecorded'
  BY <1>2 DEF IInv, RowsRecorded
<1>4. HeldRecorded'
  BY <1>2 DEF HeldRecorded
<1>5. TrailSound' /\ ConfirmationEarned'
  BY DEF IInv, TrailSound, Sound, ConfirmationEarned, ConfirmedBy
<1> QED BY <1>1, <1>3, <1>4, <1>5 DEF IInv

LEMMA CommitInvariant ==
  ASSUME IInv, NEW p \in Processes, Commit(p)
  PROVE  IInv'
<1> DEFINE report == BuildReport(local[p].evidence, DefaultIdentity, Current)
           c == Confirmations(report.count, report.candidate, local[p].previous)
           row == RowOf(report, c)
           e == [identity |-> report.identity, row |-> row,
                 recommend |-> RecommendChange(report, row.confirmations)]
<1>1. /\ trail' = Append(trail, e)
      /\ analysis' = [analysis EXCEPT ![report.identity] = row]
      /\ observations' = observations
      /\ \/ local' = [local EXCEPT ![p] = Idle]
         \/ local' = [local EXCEPT ![p] =
                        Held("hook", local[p].now, {}, None,
                             report.identity, report.count, "none")]
  BY DEF Commit
<1>2. report.count \in Nat
  BY CountType DEF IInv, Finite
<1>3. report.identity = TargetIdentity(local[p].evidence, DefaultIdentity)
  BY DEF BuildReport
<1>4. report.identity \in Identities
  BY <1>3, TargetType DEF IInv, Finite
<1>5. /\ local[p].previous # None => Recorded(trail, report.identity, local[p].previous)
      /\ \A id, r : Recorded(trail, id, r) => Sound(r)
  BY <1>3 DEF IInv, HeldRecorded, TrailSound, Recorded
<1> HIDE DEF report
<1>6. /\ c \in Nat
      /\ c >= 1 <=> report.count >= MinimumSamples
      /\ c >= 2 => /\ local[p].previous # None
                   /\ \/ local[p].previous.confirmations >= 2
                      \/ /\ local[p].previous.count < report.count
                         /\ Close(report.candidate, local[p].previous.candidate)
  BY <1>2, <1>5, ConfirmationsOf
<1> HIDE DEF c
<1>7. /\ row.count = report.count /\ row.candidate = report.candidate
      /\ row.confirmations = c
      /\ e.row = row /\ e.identity = report.identity
  BY DEF RowOf
<1> HIDE DEF row, e
<1>8. Sound(e.row)
  BY <1>2, <1>6, <1>7 DEF Sound
<1>9. e.row.confirmations >= 2 =>
        \E m \in DOMAIN trail :
          /\ trail[m].identity = e.identity
          /\ \/ trail[m].row.confirmations >= 2
             \/ /\ trail[m].row.count < e.row.count
                /\ Close(e.row.candidate, trail[m].row.candidate)
  BY <1>5, <1>6, <1>7 DEF Recorded
<1>10. /\ \E S : trail' \in Seq(S)
       /\ TrailSound'
       /\ ConfirmationEarned'
       /\ \A id, r : Recorded(trail, id, r) => Recorded(trail', id, r)
       /\ Recorded(trail', e.identity, e.row)
  <2>1. PICK x : x = e
    OBVIOUS
  <2>2. trail' = Append(trail, x) /\ Sound(x.row)
    BY <1>1, <1>8, <2>1
  <2>3. x.row.confirmations >= 2 =>
          \E m \in DOMAIN trail :
            /\ trail[m].identity = x.identity
            /\ \/ trail[m].row.confirmations >= 2
               \/ /\ trail[m].row.count < x.row.count
                  /\ Close(x.row.candidate, trail[m].row.candidate)
    BY <1>9, <2>1
  <2>4. /\ \E S : trail' \in Seq(S)
        /\ TrailSound'
        /\ ConfirmationEarned'
        /\ \A id, row1 : Recorded(trail, id, row1) => Recorded(trail', id, row1)
        /\ Recorded(trail', x.identity, x.row)
    BY <2>2, <2>3, TrailGrows
  <2> QED BY <2>1, <2>4
<1>11. Shape'
  BY <1>1, <1>10 DEF IInv, Shape
<1>12. /\ \A q \in Processes : q # p => local'[q] = local[q]
       /\ local'[p].evidence = {} /\ local'[p].previous = None
  BY <1>1, HeldFields DEF IInv, Shape, Idle
<1>13. Finite'
  BY <1>1, <1>12, FS_EmptySet DEF IInv, Finite
<1>14. RowsRecorded'
  <2>1. \A id \in Identities : analysis'[id] = IF id = report.identity THEN row ELSE analysis[id]
    BY <1>1, <1>4 DEF IInv, Shape
  <2>2. Recorded(trail', report.identity, row)
    BY <1>7, <1>10
  <2> QED BY <1>10, <2>1, <2>2 DEF IInv, RowsRecorded
<1>15. HeldRecorded'
  BY <1>10, <1>12 DEF IInv, HeldRecorded
<1> QED BY <1>10, <1>11, <1>13, <1>14, <1>15 DEF IInv

LEMMA StepInvariant == IInv /\ [Next]_vars => IInv'
<1> SUFFICES ASSUME IInv, [Next]_vars PROVE IInv'
  OBVIOUS
<1>1. /\ observations \subseteq Universe /\ IsFiniteSet(observations)
      /\ local = [q \in Processes |-> local[q]]
      /\ \A q \in Processes :
           /\ local[q].evidence \subseteq Universe /\ IsFiniteSet(local[q].evidence)
           /\ local[q].previous # None =>
                Recorded(trail, TargetIdentity(local[q].evidence, DefaultIdentity), local[q].previous)
  BY DEF IInv, Shape, Finite, HeldRecorded
<1>2. CASE Ingest
  <2>1. observations' \subseteq Universe /\ IsFiniteSet(observations')
    BY <1>1, <1>2, FS_AddElement DEF Ingest
  <2> QED BY <1>1, <1>2, <2>1, HoldInvariant DEF Ingest, tables
<1>3. CASE NextDay \/ UNCHANGED vars
  BY <1>1, <1>3, HoldInvariant DEF NextDay, tables, vars
<1>4. ASSUME NEW p \in Processes, Load(p)
      PROVE  IInv'
  <2>1. PICK c \in Commands[p] :
          local' = [local EXCEPT ![p] = Held(c, today, observations, None, DefaultIdentity, 0, "none")]
    BY <1>4 DEF Load
  <2>2. /\ \A q \in Processes : q # p => local'[q] = local[q]
        /\ local'[p].evidence = observations /\ local'[p].previous = None
        /\ local' = [q \in Processes |-> local'[q]]
    BY <1>1, <2>1, HeldFields
  <2> QED BY <1>1, <1>4, <2>2, HoldInvariant DEF Load, tables
<1>5. ASSUME NEW p \in Processes, TakePrevious(p)
      PROVE  IInv'
  <2> DEFINE id == TargetIdentity(local[p].evidence, DefaultIdentity)
  <2>1. local' = [local EXCEPT ![p] = Held(local[p].command, local[p].now, local[p].evidence,
                                           analysis[id], DefaultIdentity, 0, "none")]
    BY <1>5 DEF TakePrevious
  <2>2. /\ \A q \in Processes : q # p => local'[q] = local[q]
        /\ local'[p].evidence = local[p].evidence /\ local'[p].previous = analysis[id]
        /\ local' = [q \in Processes |-> local'[q]]
    BY <1>1, <2>1, HeldFields
  <2>3. id \in Identities
    BY <1>1, TargetType
  <2>4. analysis[id] # None => Recorded(trail, id, analysis[id])
    BY <2>3 DEF IInv, RowsRecorded
  <2> QED BY <1>1, <1>5, <2>2, <2>4, HoldInvariant DEF TakePrevious, tables
<1>6. ASSUME NEW p \in Processes, Commit(p)
      PROVE  IInv'
  BY <1>6, CommitInvariant
<1>7. ASSUME NEW p \in Processes,
             Schedule(p) \/ InsertReport(p) \/ WriteFile(p) \/ Abandon(p)
      PROVE  IInv'
  <2> DEFINE h == Held("hook", local[p].now, {}, None,
                       local[p].identity, local[p].count, pc[p])
  <2>1. UNCHANGED <<observations, analysis, trail>>
    BY <1>7 DEF Schedule, InsertReport, WriteFile, Abandon, tables
  <2>2. \/ local' = local
        \/ local' = [local EXCEPT ![p] = Idle]
        \/ local' = [local EXCEPT ![p] = h]
    BY <1>7 DEF Schedule, InsertReport, WriteFile, Abandon
  <2>3. /\ Idle.evidence = {} /\ Idle.previous = None
        /\ h.evidence = {} /\ h.previous = None
    BY HeldFields DEF Idle
  <2> HIDE DEF h
  <2>4. /\ \A q \in Processes : local'[q] = local[q] \/ local'[q] = Idle \/ local'[q] = h
        /\ local' = [q \in Processes |-> local'[q]]
    BY <1>1, <2>2
  <2> QED BY <1>1, <2>1, <2>3, <2>4, FS_EmptySet, HoldInvariant
<1> QED BY <1>2, <1>3, <1>4, <1>5, <1>6, <1>7 DEF Next, Step

THEOREM AnalysisInvariant == Spec => []IInv
<1>1. Init => IInv
  BY InitInvariant
<1>2. IInv /\ [Next]_vars => IInv'
  BY StepInvariant
<1> QED BY <1>1, <1>2, PTL DEF Spec

(* A stored analysis has a confirmation exactly when it has enough windows *)
(* for a candidate, whatever the interleaving of the analyses              *)
(* (calibration_state.rs, 49-62).                                          *)
THEOREM CandidatesConfirmed == Spec => []CandidateConfirmed
<1>1. IInv => CandidateConfirmed
  BY DEF IInv, RowsRecorded, TrailSound, Sound, Recorded, CandidateConfirmed
<1> QED BY <1>1, AnalysisInvariant, PTL

(* No interleaving of analyses counts a second confirmation that more      *)
(* evidence did not earn (calibration_state.rs, 36-57).                    *)
THEOREM ConfirmationsEarned == Spec => []ConfirmationEarned
<1>1. IInv => ConfirmationEarned
  BY DEF IInv
<1> QED BY <1>1, AnalysisInvariant, PTL

-----------------------------------------------------------------------------
(* A candidate is a number: the observations can be ranked, so that the    *)
(* groups hold observations and have a first and a last one, and the       *)
(* weights add up, so that the median is one of the implied values.        *)

LEMMA BeforeOrders ==
  ASSUME NEW x \in Universe, NEW y \in Universe
  PROVE  /\ ~Before(x, x)
         /\ Before(x, y) => ~Before(y, x)
         /\ x = y \/ Before(x, y) \/ Before(y, x)
         /\ \A z \in Universe : Before(x, y) /\ Before(y, z) => Before(x, z)
<1>1. \A z \in Universe : z.time \in Int /\ z.id \in Int
  BY DriftAssumption DEF Evidence
<1>2. x.id = y.id => x = y
  BY DriftAssumption
<1> QED BY <1>1, <1>2 DEF Before

LEMMA RankExists ==
  ASSUME NEW S \in SUBSET Universe, IsFiniteSet(S), NEW i \in 1..Cardinality(S)
  PROVE  \E x \in S : Cardinality({y \in S : Before(y, x)}) = i - 1
<1> DEFINE n == Cardinality(S)
           Below(x) == {y \in S : Before(y, x)}
           rank == [x \in S |-> Cardinality(Below(x))]
           ranks == {rank[x] : x \in S}
<1>1. n \in Nat
  BY FS_CardinalityType
<1>2. \A x \in S : IsFiniteSet(Below(x)) /\ Cardinality(Below(x)) \in Nat
  <2>1. \A x \in S : Below(x) \in SUBSET S
    OBVIOUS
  <2> HIDE DEF Below
  <2> QED BY <2>1, FS_Subset, FS_CardinalityType
<1>3. ASSUME NEW x \in S
      PROVE  Cardinality(Below(x)) \in 0..(n - 1)
  <2>1. Below(x) \in SUBSET S /\ x \in S /\ x \notin Below(x)
    BY BeforeOrders
  <2>2. Cardinality(Below(x)) <= n /\ (n = Cardinality(Below(x)) => S = Below(x))
    <3> HIDE DEF Below
    <3> QED BY <2>1, FS_Subset
  <2> HIDE DEF Below
  <2> QED BY <1>1, <1>2, <2>1, <2>2
<1>4. ASSUME NEW x \in S, NEW y \in S, Before(x, y)
      PROVE  Cardinality(Below(x)) < Cardinality(Below(y))
  <2>1. Below(x) \in SUBSET Below(y) /\ x \in Below(y) /\ x \notin Below(x)
    BY <1>4, BeforeOrders
  <2> HIDE DEF Below
  <2>2. /\ Cardinality(Below(x)) <= Cardinality(Below(y))
        /\ Cardinality(Below(y)) = Cardinality(Below(x)) => Below(y) = Below(x)
    BY <1>2, <2>1, FS_Subset
  <2> QED BY <1>2, <2>1, <2>2
<1> HIDE DEF Below
<1>5. ASSUME NEW x \in S, NEW y \in S, rank[x] = rank[y]
      PROVE  x = y
  <2>1. ~Before(x, y) /\ ~Before(y, x)
    BY <1>2, <1>4, <1>5
  <2> QED BY <2>1, BeforeOrders
<1>6. rank \in Bijection(S, ranks)
  BY <1>5 DEF Bijection, Injection, Surjection, IsInjective
<1> HIDE DEF n, rank
<1>7. Cardinality(ranks) = n /\ ranks \in SUBSET (0..(n - 1))
  <2> HIDE DEF ranks
  <2>1. Cardinality(ranks) = n
    BY <1>6, FS_Bijection DEF ExistsBijection, n
  <2> QED BY <1>3, <2>1 DEF ranks, rank
<1>8. IsFiniteSet(0..(n - 1)) /\ Cardinality(0..(n - 1)) = n
  BY <1>1, FS_Interval
<1> HIDE DEF ranks
<1>9. ranks = 0..(n - 1)
  BY <1>7, <1>8, FS_Subset
<1>10. i - 1 \in ranks
  BY <1>1, <1>9 DEF n
<1>11. PICK x \in S : i - 1 = rank[x]
  BY <1>10 DEF ranks
<1> QED BY <1>11 DEF rank, Below

LEMMA ItemsAreEvidence ==
  ASSUME NEW S \in SUBSET Universe, IsFiniteSet(S), NEW i \in DOMAIN InOrder(S)
  PROVE  InOrder(S)[i] \in S
<1>1. i \in 1..Cardinality(S)
  BY DEF InOrder, Ranked
<1>2. InOrder(S)[i] = CHOOSE x \in S : Cardinality({y \in S : Before(y, x)}) = i - 1
  BY <1>1 DEF InOrder, Ranked
<1>3. \E x \in S : Cardinality({y \in S : Before(y, x)}) = i - 1
  BY <1>1, RankExists
<1> QED BY <1>2, <1>3

LEMMA ExtremesExist ==
  ASSUME NEW S \in SUBSET Universe, IsFiniteSet(S), S # {}
  PROVE  /\ \E x \in S : \A y \in S \ {x} : Before(x, y)
         /\ \E x \in S : \A y \in S \ {x} : Before(y, x)
<1> DEFINE n == Cardinality(S)
           Below(x) == {y \in S : Before(y, x)}
<1>1. n \in Nat \ {0}
  BY FS_CardinalityType, FS_EmptySet
<1>2. \A x \in S : Below(x) \in SUBSET S /\ IsFiniteSet(Below(x)) /\ x \notin Below(x)
  <2>1. \A x \in S : Below(x) \in SUBSET S /\ x \notin Below(x)
    BY BeforeOrders
  <2> HIDE DEF Below
  <2> QED BY <2>1, FS_Subset
<1>3. \A i \in 1..n : \E x \in S : Cardinality(Below(x)) = i - 1
  BY RankExists
<1> HIDE DEF Below, n
<1>4. \E x \in S : \A y \in S \ {x} : Before(x, y)
  <2>1. PICK x \in S : Cardinality(Below(x)) = 1 - 1
    BY <1>1, <1>3
  <2>2. Below(x) = {}
    BY <1>2, <2>1, FS_EmptySet
  <2>3. \A y \in S \ {x} : ~Before(y, x)
    BY <2>2 DEF Below
  <2>4. \A y \in S \ {x} : Before(x, y)
    BY <2>3, BeforeOrders
  <2> QED BY <2>4
<1>5. \E x \in S : \A y \in S \ {x} : Before(y, x)
  <2>1. PICK x \in S : Cardinality(Below(x)) = n - 1
    BY <1>1, <1>3
  <2>2. /\ Below(x) \in SUBSET (S \ {x})
        /\ IsFiniteSet(S \ {x}) /\ Cardinality(S \ {x}) = n - 1
    BY <1>2, FS_RemoveElement DEF n
  <2>3. Below(x) = S \ {x}
    BY <2>1, <2>2, FS_Subset
  <2> QED BY <2>3 DEF Below
<1> QED BY <1>4, <1>5

LEMMA GroupMembers ==
  ASSUME NEW S \in SUBSET Universe, IsFiniteSet(S), NEW target, NEW g \in Groups(S, target)
  PROVE  g.items \in SUBSET {x \in S : x.five # None /\ x.weekly # None}
<1> DEFINE items == InOrder(S)
           five == Canonical(items, "five")
           weekly == Canonical(items, "weekly")
           both == {[item |-> items[i], deadlines |-> <<five[i], weekly[i]>>] : i \in DOMAIN items}
           placed == {x \in both : /\ x.item.identity = target
                                   /\ x.item.five # None /\ x.item.weekly # None
                                   /\ x.deadlines[1] # None /\ x.deadlines[2] # None}
<1>1. \A x \in both : x.item \in S
  <2> HIDE DEF items, five, weekly
  <2>1. \A i \in DOMAIN items : items[i] \in S
    BY ItemsAreEvidence DEF items
  <2> QED BY <2>1
<1>2. PICK x \in placed : g.items = {y.item : y \in {z \in placed : z.deadlines = x.deadlines}}
  <2>1. Groups(S, target) =
          { [deadlines |-> x.deadlines,
             items |-> {y.item : y \in {z \in placed : z.deadlines = x.deadlines}}] : x \in placed }
    BY DEF Groups
  <2> HIDE DEF placed
  <2> QED BY <2>1
<1>3. \A y \in placed : y.item \in S /\ y.item.five # None /\ y.item.weekly # None
  <2> HIDE DEF both
  <2> QED BY <1>1
<1> HIDE DEF placed
<1> QED BY <1>2, <1>3

LEMMA SampleType ==
  ASSUME NEW S \in SUBSET Universe, IsFiniteSet(S), NEW target, NEW s \in Samples(S, target)
  PROVE  s.five \in Nat \ {0} /\ s.weekly \in Nat \ {0}
<1> DEFINE large == {g \in Groups(S, target) : Cardinality(g.items) >= 2}
           First(group) == CHOOSE x \in group.items : \A y \in group.items \ {x} : Before(x, y)
           Last(group)  == CHOOSE x \in group.items : \A y \in group.items \ {x} : Before(y, x)
           Sample(group) ==
             [identity |-> target, deadlines |-> group.deadlines, source |-> First(group).id,
              from |-> First(group).time, to |-> Last(group).time,
              five   |-> Last(group).five.used - First(group).five.used,
              weekly |-> Last(group).weekly.used - First(group).weekly.used]
<1>1. s \in {Sample(group) : group \in large} /\ s.five > 0 /\ s.weekly > 0
  BY DEF Samples
<1>2. PICK g \in large : s = Sample(g)
  BY <1>1
<1>3. g.items \in SUBSET {x \in S : x.five # None /\ x.weekly # None} /\ g.items # {}
  BY GroupMembers, FS_EmptySet
<1>4. g.items \in SUBSET Universe /\ IsFiniteSet(g.items)
  BY <1>3, FS_Subset
<1>5. First(g) \in g.items /\ Last(g) \in g.items
  BY <1>3, <1>4, ExtremesExist
<1>6. \A x \in g.items : x.five.used \in Nat /\ x.weekly.used \in Nat
  <2>1. \A x \in g.items : x.five \in QuotaWindows /\ x.weekly \in QuotaWindows
    BY <1>3, DriftAssumption DEF Evidence
  <2> QED BY <2>1 DEF QuotaWindows
<1> HIDE DEF First, Last
<1>7. /\ s.five = Last(g).five.used - First(g).five.used
      /\ s.weekly = Last(g).weekly.used - First(g).weekly.used
  BY <1>2
<1> QED BY <1>1, <1>5, <1>6, <1>7

LEMMA LeastSubset ==
  ASSUME NEW S, IsFiniteSet(S), NEW F \in SUBSET (SUBSET S), F # {}
  PROVE  \E T \in F : \A U \in F : U \subseteq T => U = T
<1>1. IsWellFoundedOn(StrictSubsetOrdering(S), SUBSET S)
  BY FS_FiniteSubsetsOfFinite, FS_StrictSubsetOrderingWellFounded
<1>2. PICK T \in F : \A U \in F : <<U, T>> \notin StrictSubsetOrdering(S)
  BY <1>1, WFMin, Zenon
<1>3. \A U \in F : U \subseteq T => U = T
  BY <1>2 DEF StrictSubsetOrdering
<1> QED BY <1>3

\* The running sums that MapThenSumSet takes over the subsets of S.
Member(s) == CHOOSE x \in s : TRUE

IsSum(g, S) ==
  g = [s \in SUBSET S |-> IF s = {} THEN 0 ELSE Member(s).five + g[s \ {Member(s)}]]

LEMMA SumAt ==
  ASSUME NEW S, NEW g, IsSum(g, S), NEW s \in SUBSET S
  PROVE  g[s] = IF s = {} THEN 0 ELSE Member(s).five + g[s \ {Member(s)}]
BY DEF IsSum

LEMMA SumUnique ==
  ASSUME NEW S, IsFiniteSet(S), NEW A \in SUBSET S, NEW B \in SUBSET S,
         NEW g, IsSum(g, A), NEW h, IsSum(h, B)
  PROVE  \A s \in SUBSET A : s \in SUBSET B => g[s] = h[s]
<1> DEFINE F == {s \in SUBSET S : s \in SUBSET A /\ s \in SUBSET B /\ g[s] # h[s]}
<1> SUFFICES ASSUME F # {} PROVE FALSE
  OBVIOUS
<1>1. PICK s \in F : \A u \in F : u \subseteq s => u = s
  <2>1. F \in SUBSET (SUBSET S)
    OBVIOUS
  <2> HIDE DEF F
  <2> QED BY <2>1, LeastSubset
<1>2. /\ g[s] = IF s = {} THEN 0 ELSE Member(s).five + g[s \ {Member(s)}]
      /\ h[s] = IF s = {} THEN 0 ELSE Member(s).five + h[s \ {Member(s)}]
  BY SumAt
<1>3. s # {}
  BY <1>2
<1>4. Member(s) \in s
  BY <1>3 DEF Member
<1>5. s \ {Member(s)} \notin F
  BY <1>1, <1>4
<1>6. g[s \ {Member(s)}] = h[s \ {Member(s)}]
  BY <1>5
<1> QED BY <1>2, <1>6

LEMMA SumExists ==
  ASSUME NEW S, IsFiniteSet(S), \A x \in S : x.five \in Nat
  PROVE  \E g \in [SUBSET S -> Nat] : IsSum(g, S)
<1> DEFINE F == {T \in SUBSET S : ~ \E g \in [SUBSET T -> Nat] : IsSum(g, T)}
<1> SUFFICES ASSUME F # {} PROVE FALSE
  OBVIOUS
<1>1. PICK T \in F : \A U \in F : U \subseteq T => U = T
  <2>1. F \in SUBSET (SUBSET S)
    OBVIOUS
  <2> HIDE DEF F
  <2> QED BY <2>1, LeastSubset
<1> DEFINE G(u) == CHOOSE g \in [SUBSET u -> Nat] : IsSum(g, u)
           SumOf(u) == G(u)[u]
           h == [s \in SUBSET T |-> IF s = {} THEN 0 ELSE Member(s).five + SumOf(s \ {Member(s)})]
<1>2. ASSUME NEW u \in SUBSET T, u # T
      PROVE  G(u) \in [SUBSET u -> Nat] /\ IsSum(G(u), u)
  <2>1. u \notin F /\ u \in SUBSET S
    BY <1>1, <1>2
  <2> QED BY <2>1
<1> HIDE DEF G, F
<1>3. ASSUME NEW s \in SUBSET T, s # {}
      PROVE  /\ s \ {Member(s)} \in SUBSET T /\ s \ {Member(s)} # T
             /\ Member(s).five \in Nat
  <2>1. Member(s) \in s
    BY <1>3 DEF Member
  <2>2. s \in SUBSET S
    BY <1>1 DEF F
  <2> QED BY <2>1, <2>2
<1>4. h \in [SUBSET T -> Nat]
  <2>1. \A u \in SUBSET T : u # T => SumOf(u) \in Nat
    BY <1>2
  <2> HIDE DEF SumOf
  <2> QED BY <1>3, <2>1
<1>5. ASSUME NEW u \in SUBSET T, u # T
      PROVE  h[u] = SumOf(u)
  <2>1. CASE u = {}
    <3>1. G(u)[u] = 0
      BY <1>2, <1>5, <2>1, SumAt
    <3> QED BY <2>1, <3>1
  <2>2. CASE u # {}
    <3> DEFINE w == u \ {Member(u)}
    <3>1. w \in SUBSET u /\ w \in SUBSET T /\ w # T
      BY <1>3, <2>2
    <3> HIDE DEF w
    <3>2. IsSum(G(u), u) /\ IsSum(G(w), w) /\ u \in SUBSET S /\ w \in SUBSET S
      BY <1>1, <1>2, <1>5, <3>1 DEF F
    <3>3. G(u)[w] = G(w)[w]
      <4>1. PICK a, b : a = G(u) /\ b = G(w)
        OBVIOUS
      <4>2. IsSum(a, u) /\ IsSum(b, w)
        BY <3>2, <4>1
      <4>3. \A s \in SUBSET u : s \in SUBSET w => a[s] = b[s]
        BY <3>2, <4>2, SumUnique
      <4> QED BY <3>1, <4>1, <4>3
    <3>4. G(u)[u] = Member(u).five + G(u)[w]
      BY <2>2, <3>2, SumAt DEF w
    <3> QED BY <2>2, <3>3, <3>4 DEF w
  <2> QED BY <2>1, <2>2
<1> HIDE DEF SumOf
<1>6. IsSum(h, T)
  <2>1. \A s \in SUBSET T :
          h[s] = IF s = {} THEN 0 ELSE Member(s).five + h[s \ {Member(s)}]
    BY <1>3, <1>5
  <2>2. h = [s \in SUBSET T |-> h[s]]
    OBVIOUS
  <2> HIDE DEF h
  <2> QED BY <2>1, <2>2 DEF IsSum
<1> QED BY <1>4, <1>6 DEF F

WeightOf(S) == MapThenSumSet(LAMBDA s : s.five, S)

LEMMA WeightType ==
  ASSUME NEW S, IsFiniteSet(S), \A x \in S : x.five \in Nat
  PROVE  WeightOf(S) \in Nat
<1> DEFINE iter == CHOOSE iter : IsSum(iter, S)
<1>1. WeightOf(S) = iter[S]
  BY DEF WeightOf, MapThenSumSet, MapThenFoldSet, IsSum, Member
<1>2. PICK g \in [SUBSET S -> Nat] : IsSum(g, S)
  BY SumExists
<1>3. IsSum(iter, S)
  BY <1>2
<1>4. iter[S] = g[S]
  <2> HIDE DEF iter
  <2> QED BY <1>2, <1>3, SumUnique
<1> HIDE DEF iter
<1> QED BY <1>1, <1>2, <1>4

LEMMA MedianIs ==
  ASSUME NEW S
  PROVE  WeightedMedian(S) =
           Min({v \in {Implied(s) : s \in S} :
                  2 * WeightOf({s \in S : Implied(s) <= v}) >= WeightOf(S)})
BY DEF WeightedMedian, WeightOf

LEMMA MedianType ==
  ASSUME NEW S, IsFiniteSet(S), S # {},
         \A s \in S : s.five \in Nat \ {0} /\ s.weekly \in Nat \ {0}
  PROVE  WeightedMedian(S) \in Nat
<1> DEFINE Upto(v) == {s \in S : Implied(s) <= v}
           half == {v \in {Implied(s) : s \in S} : 2 * WeightOf(Upto(v)) >= WeightOf(S)}
<1>1. \A s \in S : Implied(s) \in Nat
  <2>1. \A a \in Nat, b \in Nat \ {0} : a \div b \in Nat
    OBVIOUS
  <2>2. \A s \in S : s.weekly * 100 \in Nat
    OBVIOUS
  <2> QED BY <2>1, <2>2 DEF Implied
<1>2. PICK m \in S : \A s \in S : Implied(s) <= Implied(m)
  <2> DEFINE From(x) == {s \in S : Implied(x) <= Implied(s)}
             F == {From(x) : x \in S}
  <2>1. F \in SUBSET (SUBSET S) /\ F # {}
    OBVIOUS
  <2>2. PICK T \in F : \A U \in F : U \subseteq T => U = T
    <3> HIDE DEF F
    <3> QED BY <2>1, LeastSubset
  <2>3. PICK x \in S : \A y \in S : From(y) \subseteq From(x) => From(y) = From(x)
    <3>1. PICK x \in S : T = From(x)
      OBVIOUS
    <3>2. ASSUME NEW y \in S, From(y) \subseteq From(x)
          PROVE  From(y) = From(x)
      <4>1. From(y) \in F
        OBVIOUS
      <4> HIDE DEF F, From
      <4> QED BY <2>2, <3>1, <3>2, <4>1
    <3> QED BY <3>2
  <2>4. ASSUME NEW s \in S, ~ (Implied(s) <= Implied(x))
        PROVE  FALSE
    <3>1. From(s) \subseteq From(x) /\ x \in From(x) /\ x \notin From(s)
      BY <1>1, <2>4
    <3> QED BY <2>3, <3>1
  <2> QED BY <2>4
<1>3. WeightOf(S) \in Nat
  BY WeightType
<1>4. Implied(m) \in half
  <2>1. Upto(Implied(m)) = S
    BY <1>2
  <2> HIDE DEF Upto
  <2>2. 2 * WeightOf(Upto(Implied(m))) >= WeightOf(S)
    BY <1>3, <2>1
  <2> QED BY <2>2
<1>5. half \in SUBSET Nat
  <2> HIDE DEF Upto
  <2> QED BY <1>1
<1>6. WeightedMedian(S) = Min(half)
  BY MedianIs
<1> HIDE DEF half
<1>7. PICK v \in half : \A w \in half : <<w, v>> \notin OpToRel(<, Nat)
  BY <1>4, <1>5, NatLessThanWellFounded, WFMin
<1>8. \A w \in half : v <= w
  <2> SUFFICES ASSUME NEW w \in half PROVE v <= w
    OBVIOUS
  <2>1. v \in Nat /\ w \in Nat
    BY <1>5
  <2>2. ~ (w < v)
    BY <1>7, <2>1 DEF OpToRel
  <2> QED BY <2>1, <2>2
<1>9. Min(half) \in half
  BY <1>8 DEF Min
<1> QED BY <1>5, <1>6, <1>9

LEMMA CandidateType ==
  ASSUME NEW S \in SUBSET Universe, IsFiniteSet(S)
  PROVE  LET report == BuildReport(S, DefaultIdentity, Current)
         IN  /\ report.candidate \in Int \cup {None}
             /\ report.replaceable \in BOOLEAN
<1> DEFINE target == TargetIdentity(S, DefaultIdentity)
           eligible == Eligible(Samples(S, target))
           report == BuildReport(S, DefaultIdentity, Current)
<1>1. /\ report.count = Cardinality(eligible)
      /\ report.candidate = IF Cardinality(eligible) >= MinimumSamples
                            THEN WeightedMedian(eligible) ELSE None
      /\ report.replaceable \in BOOLEAN
  BY DEF BuildReport
<1>2. IsFiniteSet(eligible)
  BY EligibleFinite
<1>3. \A s \in eligible : s.five \in Nat \ {0} /\ s.weekly \in Nat \ {0}
  BY SampleType DEF Eligible
<1> HIDE DEF eligible
<1>4. CASE Cardinality(eligible) >= MinimumSamples
  <2>1. eligible # {}
    BY <1>4, FS_EmptySet, ReportAssumption
  <2>2. WeightedMedian(eligible) \in Nat
    BY <1>2, <1>3, <2>1, MedianType
  <2> QED BY <1>1, <1>4, <2>2
<1>5. CASE ~ (Cardinality(eligible) >= MinimumSamples)
  BY <1>1, <1>5
<1> QED BY <1>4, <1>5

Clocked ==
  /\ today \in Nat
  /\ \E S : reports \in Seq(S)
  /\ pc = [p \in Processes |-> pc[p]]
  /\ \A p \in Processes :
       /\ pc[p] # "idle" => local[p].now \in 0..today
       /\ pc[p] \notin {"idle", "previous", "commit"} => local[p].count \in Nat

TypedInvariant == IInv /\ Clocked /\ TypeOK

LEMMA InitTyped == Init => TypedInvariant
<1> SUFFICES ASSUME Init PROVE TypedInvariant
  OBVIOUS
<1>1. /\ reports \in Seq({}) /\ DOMAIN reports = {}
      /\ trail \in Seq([identity : Identities, row : Row, recommend : BOOLEAN])
  BY DEF Init
<1>2. Clocked
  BY <1>1 DEF Init, Clocked
<1>3. Idle.evidence = {} /\ Idle.previous = None
  BY HeldFields DEF Idle
<1>4. TypeOK
  BY <1>1, <1>3, DriftAssumption DEF Init, TypeOK
<1> QED BY <1>2, <1>4, InitInvariant DEF TypedInvariant

\* One process moves on, without a report or an analysis.
LEMMA MoveTyped ==
  ASSUME TypedInvariant, IInv', NEW p \in Processes,
         UNCHANGED <<observations, analysis, reports, today, trail>>,
         NEW at, pc' = [pc EXCEPT ![p] = at],
         \A q \in Processes : q # p => local'[q] = local[q],
         /\ local'[p].evidence \subseteq observations
         /\ local'[p].previous \in Row \cup {None}
         /\ at \in {"idle", "previous"} => local'[p].previous = None
         /\ at # "idle" => local'[p].now \in 0..today
         /\ at \notin {"idle", "previous", "commit"} => local'[p].count \in Nat
  PROVE  TypedInvariant'
<1>1. /\ pc' = [q \in Processes |-> pc'[q]]
      /\ pc'[p] = at
      /\ \A q \in Processes : q # p => pc'[q] = pc[q]
  BY DEF TypedInvariant, Clocked
<1>2. Clocked'
  BY <1>1 DEF TypedInvariant, Clocked
<1>3. TypeOK'
  BY <1>1 DEF TypedInvariant, TypeOK
<1> QED BY <1>2, <1>3 DEF TypedInvariant

LEMMA CommitTyped ==
  ASSUME TypedInvariant, IInv', NEW p \in Processes, Commit(p)
  PROVE  TypedInvariant'
<1> DEFINE report == BuildReport(local[p].evidence, DefaultIdentity, Current)
           c == Confirmations(report.count, report.candidate, local[p].previous)
           row == RowOf(report, c)
           e == [identity |-> report.identity, row |-> row,
                 recommend |-> RecommendChange(report, row.confirmations)]
<1>1. /\ trail' = Append(trail, e)
      /\ analysis' = [analysis EXCEPT ![report.identity] = row]
      /\ UNCHANGED <<observations, reports, today>>
      /\ pc[p] = "commit"
      /\ \/ pc' = [pc EXCEPT ![p] = "idle"] /\ local' = [local EXCEPT ![p] = Idle]
         \/ /\ pc' = [pc EXCEPT ![p] = "schedule"]
            /\ local' = [local EXCEPT ![p] =
                           Held("hook", local[p].now, {}, None,
                             report.identity, report.count, "none")]
  BY DEF Commit
<1>2. local[p].evidence \in SUBSET Universe /\ IsFiniteSet(local[p].evidence)
  BY DEF TypedInvariant, IInv, Finite
<1>3. report.count \in Nat
  BY <1>2, CountType
<1>4. report.candidate \in Int \cup {None} /\ report.replaceable \in BOOLEAN
  BY <1>2, CandidateType
<1>5. /\ report.identity = TargetIdentity(local[p].evidence, DefaultIdentity)
      /\ report.identity \in Identities
  <2>1. report.identity = TargetIdentity(local[p].evidence, DefaultIdentity)
    BY DEF BuildReport
  <2> QED BY <1>2, <2>1, TargetType
<1>6. local[p].previous # None => Sound(local[p].previous)
  BY <1>5 DEF TypedInvariant, IInv, HeldRecorded, TrailSound, Recorded
<1> HIDE DEF report
<1>7. c \in Nat
  BY <1>3, <1>6, ConfirmationsOf
<1> HIDE DEF c
<1>8. row \in Row
  BY <1>3, <1>4, <1>7 DEF RowOf, Row
<1> HIDE DEF row
<1>9. e \in [identity : Identities, row : Row, recommend : BOOLEAN]
  <2>1. RecommendChange(report, row.confirmations) \in BOOLEAN
    BY DEF RecommendChange
  <2> QED BY <1>5, <1>8, <2>1
<1> HIDE DEF e
<1>10. trail' \in Seq([identity : Identities, row : Row, recommend : BOOLEAN])
  <2> DEFINE Entries == [identity : Identities, row : Row, recommend : BOOLEAN]
  <2>1. trail \in Seq(Entries) /\ e \in Entries
    BY <1>9 DEF TypedInvariant, TypeOK
  <2> HIDE DEF Entries
  <2>2. trail' \in Seq(Entries)
    BY <1>1, <2>1
  <2> QED BY <2>2 DEF Entries
<1>11. analysis' \in [Identities -> Row \cup {None}]
  BY <1>1, <1>5, <1>8 DEF TypedInvariant, TypeOK
<1>12. /\ pc' = [q \in Processes |-> pc'[q]]
       /\ \A q \in Processes : q # p => pc'[q] = pc[q] /\ local'[q] = local[q]
       /\ pc'[p] \in {"idle", "schedule"}
       /\ local'[p].evidence = {} /\ local'[p].previous = None
       /\ pc'[p] # "idle" => local'[p].now = local[p].now /\ local'[p].count = report.count
  BY <1>1, HeldFields DEF TypedInvariant, Clocked, IInv, Shape, Idle
<1>13. Clocked'
  BY <1>1, <1>3, <1>12 DEF TypedInvariant, Clocked
<1>14. TypeOK'
  BY <1>1, <1>10, <1>11, <1>12 DEF TypedInvariant, TypeOK
<1> QED BY <1>13, <1>14 DEF TypedInvariant

LEMMA StepTyped == TypedInvariant /\ [Next]_vars => TypedInvariant'
<1> SUFFICES ASSUME TypedInvariant, [Next]_vars PROVE TypedInvariant'
  OBVIOUS
<1>1. IInv'
  BY StepInvariant DEF TypedInvariant
<1>2. /\ today \in Nat
      /\ local = [q \in Processes |-> local[q]]
      /\ pc = [q \in Processes |-> pc[q]]
      /\ \A q \in Processes :
           /\ local[q].evidence \subseteq observations
           /\ local[q].previous \in Row \cup {None}
           /\ pc[q] # "idle" => local[q].now \in 0..today
           /\ pc[q] \notin {"idle", "previous", "commit"} => local[q].count \in Nat
  BY DEF TypedInvariant, TypeOK, Clocked, IInv, Shape
<1>3. Idle.evidence = {} /\ Idle.previous = None
  BY HeldFields DEF Idle
<1>4. CASE Ingest \/ NextDay \/ UNCHANGED vars
  <2>1. /\ UNCHANGED <<analysis, reports, trail, pc, local>>
        /\ observations \subseteq observations' /\ observations' \subseteq Universe
        /\ today' \in Nat /\ today <= today'
    BY <1>2, <1>4 DEF Ingest, NextDay, vars, tables, TypedInvariant, TypeOK
  <2>2. Clocked'
    BY <1>2, <2>1 DEF TypedInvariant, Clocked
  <2>3. \A i \in DOMAIN reports : reports[i].count \in Nat /\ reports[i].at \in 0..today'
    BY <1>2, <2>1 DEF TypedInvariant, TypeOK
  <2>4. TypeOK'
    BY <2>1, <2>3 DEF TypedInvariant, TypeOK
  <2> QED BY <1>1, <2>2, <2>4 DEF TypedInvariant
<1>5. ASSUME NEW p \in Processes, Load(p)
      PROVE  TypedInvariant'
  <2>1. PICK c \in Commands[p] :
          local' = [local EXCEPT ![p] = Held(c, today, observations, None, DefaultIdentity, 0, "none")]
    BY <1>5 DEF Load
  <2>2. /\ UNCHANGED <<observations, analysis, reports, today, trail>>
        /\ pc' = [pc EXCEPT ![p] = "previous"]
    BY <1>5 DEF Load, tables
  <2>3. /\ \A q \in Processes : q # p => local'[q] = local[q]
        /\ local'[p].evidence = observations /\ local'[p].previous = None
        /\ local'[p].now = today /\ today \in 0..today
    BY <1>2, <2>1, HeldFields
  <2> QED BY <1>1, <2>2, <2>3, MoveTyped
<1>6. ASSUME NEW p \in Processes, TakePrevious(p)
      PROVE  TypedInvariant'
  <2> DEFINE id == TargetIdentity(local[p].evidence, DefaultIdentity)
  <2>1. /\ UNCHANGED <<observations, analysis, reports, today, trail>>
        /\ pc[p] = "previous" /\ pc' = [pc EXCEPT ![p] = "commit"]
        /\ local' = [local EXCEPT ![p] = Held(local[p].command, local[p].now, local[p].evidence,
                                              analysis[id], DefaultIdentity, 0, "none")]
    BY <1>6 DEF TakePrevious, tables
  <2>2. /\ \A q \in Processes : q # p => local'[q] = local[q]
        /\ local'[p].evidence = local[p].evidence /\ local'[p].previous = analysis[id]
        /\ local'[p].now = local[p].now
    BY <1>2, <2>1, HeldFields
  <2>3. analysis[id] \in Row \cup {None}
    <3>1. id \in Identities
      BY TargetType DEF TypedInvariant, IInv, Finite
    <3> QED BY <3>1 DEF TypedInvariant, TypeOK
  <2> HIDE DEF id
  <2> QED BY <1>1, <1>2, <2>1, <2>2, <2>3, MoveTyped
<1>7. ASSUME NEW p \in Processes, Commit(p)
      PROVE  TypedInvariant'
  BY <1>1, <1>7, CommitTyped
<1>8. ASSUME NEW p \in Processes, Schedule(p)
      PROVE  TypedInvariant'
  <2> DEFINE reason == Reason(local[p].identity, local[p].count, local[p].now)
  <2>1. /\ UNCHANGED <<observations, analysis, reports, today, trail>>
        /\ pc[p] = "schedule"
        /\ \/ pc' = [pc EXCEPT ![p] = "idle"] /\ local' = [local EXCEPT ![p] = Idle]
           \/ reason # "none" /\ pc' = [pc EXCEPT ![p] = reason] /\ local' = local
    BY <1>8 DEF Schedule, tables
  <2>2. reason \notin {"idle", "previous", "commit"}
    BY DEF Reason
  <2> HIDE DEF reason
  <2>3. CASE pc' = [pc EXCEPT ![p] = "idle"] /\ local' = [local EXCEPT ![p] = Idle]
    <3>1. local'[p] = Idle /\ \A q \in Processes : q # p => local'[q] = local[q]
      BY <1>2, <2>3
    <3> QED BY <1>1, <1>3, <2>1, <2>3, <3>1, MoveTyped
  <2>4. CASE pc' = [pc EXCEPT ![p] = reason] /\ local' = local
    BY <1>1, <1>2, <2>1, <2>2, <2>4, MoveTyped
  <2> QED BY <2>1, <2>3, <2>4
<1>9. ASSUME NEW p \in Processes, InsertReport(p)
      PROVE  TypedInvariant'
  <2> DEFINE x == ReportOf(p, pc[p])
             h == Held("hook", local[p].now, {}, None,
                       local[p].identity, local[p].count, pc[p])
  <2>1. /\ UNCHANGED <<observations, analysis, today, trail>>
        /\ pc[p] \in {"initial", "new_windows", "weekly"}
        /\ pc' = [pc EXCEPT ![p] = "file"] /\ local' = [local EXCEPT ![p] = h]
        /\ reports' = reports \/ reports' = Append(reports, x)
    BY <1>9 DEF InsertReport, Reasons
  <2>2. x.count \in Nat /\ x.at \in 0..today
    BY <1>2, <2>1 DEF ReportOf
  <2>8. /\ h.evidence = {} /\ h.previous = None
        /\ h.now = local[p].now /\ h.count = local[p].count
    BY HeldFields
  <2> HIDE DEF x, h
  <2>3. PICK S : reports \in Seq(S)
    BY DEF TypedInvariant, Clocked
  <2>4. /\ reports' \in Seq(S \cup {x})
        /\ \A i \in DOMAIN reports' : reports'[i].count \in Nat /\ reports'[i].at \in 0..today
    <3>1. \A i \in DOMAIN reports : reports[i].count \in Nat /\ reports[i].at \in 0..today
      BY DEF TypedInvariant, TypeOK
    <3>2. CASE reports' = reports
      <4>1. reports \in Seq(S \cup {x})
        BY <2>3
      <4> QED BY <3>1, <3>2, <4>1
    <3>3. CASE reports' = Append(reports, x)
      <4>1. /\ Append(reports, x) \in Seq(S \cup {x})
            /\ Len(reports) \in Nat /\ DOMAIN reports = 1..Len(reports)
            /\ DOMAIN Append(reports, x) = 1..(Len(reports) + 1)
            /\ \A i \in DOMAIN reports : Append(reports, x)[i] = reports[i]
            /\ Append(reports, x)[Len(reports) + 1] = x
        BY <2>3, Appended
      <4>2. \A i \in DOMAIN reports' : i \in DOMAIN reports \/ i = Len(reports) + 1
        BY <3>3, <4>1
      <4> QED BY <2>2, <3>1, <3>3, <4>1, <4>2
    <3> QED BY <2>1, <3>2, <3>3
  <2>5. /\ pc' = [q \in Processes |-> pc'[q]]
        /\ pc'[p] = "file" /\ local'[p] = h
        /\ \A q \in Processes : q # p => pc'[q] = pc[q] /\ local'[q] = local[q]
    BY <1>2, <2>1
  <2>6. Clocked'
    BY <1>2, <2>1, <2>4, <2>5, <2>8 DEF TypedInvariant, Clocked
  <2>7. TypeOK'
    BY <2>1, <2>4, <2>5, <2>8 DEF TypedInvariant, TypeOK
  <2> QED BY <1>1, <2>6, <2>7 DEF TypedInvariant
<1>10. ASSUME NEW p \in Processes, WriteFile(p) \/ Abandon(p)
       PROVE  TypedInvariant'
  <2>1. /\ UNCHANGED <<observations, analysis, reports, today, trail>>
        /\ pc' = [pc EXCEPT ![p] = "idle"]
        /\ local'[p] = Idle /\ \A q \in Processes : q # p => local'[q] = local[q]
    BY <1>2, <1>10 DEF WriteFile, Abandon, tables
  <2> QED BY <1>1, <1>3, <2>1, MoveTyped
<1> QED BY <1>4, <1>5, <1>6, <1>7, <1>8, <1>9, <1>10 DEF Next, Step

(* The tables hold rows of the stored shape, a candidate in them is a      *)
(* number (the weighted median always is one of the implied values), no    *)
(* report is from the future, and a process holds a row only between       *)
(* reading it and finishing with it (calibration_state.rs, 31-192).        *)
THEOREM TypeCorrect == Spec => []TypeOK
<1>1. Init => TypedInvariant
  BY InitTyped
<1>2. TypedInvariant /\ [Next]_vars => TypedInvariant'
  BY StepTyped
<1>3. TypedInvariant => TypeOK
  BY DEF TypedInvariant
<1> QED BY <1>1, <1>2, <1>3, PTL DEF Spec
-----------------------------------------------------------------------------
(* The report file follows the table: a hook that holds a report behind    *)
(* its INSERT holds one that the table has, and one that counts windows    *)
(* holds the count of an analysis that was committed.                      *)

\* An analysis of the identity that counted so many windows was committed.
Counted(history, id, count) ==
  \E n \in DOMAIN history : history[n].identity = id /\ history[n].row.count = count

Written(rows, row) == \E i \in DOMAIN rows : rows[i] = row

RowsCounted ==
  \A i \in DOMAIN reports : Counted(trail, reports[i].identity, reports[i].count)

HeldOnRecord ==
  \A p \in Processes :
    /\ pc[p] \notin {"idle", "previous", "commit"} =>
         Counted(trail, local[p].identity, local[p].count)
    /\ pc[p] = "file" => Written(reports, ReportOf(p, local[p].reason))

FileWritten == reportFile # None => Written(reports, reportFile)

ReportInvariant == TypedInvariant /\ RowsCounted /\ HeldOnRecord /\ FileWritten

LEMMA InitReport == Init => ReportInvariant
<1> SUFFICES ASSUME Init PROVE ReportInvariant
  OBVIOUS
<1>1. DOMAIN reports = {} /\ reportFile = None /\ \A p \in Processes : pc[p] = "idle"
  BY DEF Init
<1>2. RowsCounted /\ HeldOnRecord /\ FileWritten
  BY <1>1 DEF RowsCounted, HeldOnRecord, FileWritten
<1> QED BY <1>2, InitTyped DEF ReportInvariant

\* Rows are added to the tables, never taken away; the process p moves on.
LEMMA ReportMove ==
  ASSUME ReportInvariant, TypedInvariant',
         \A id, count : Counted(trail, id, count) => Counted(trail', id, count),
         \A row : Written(reports, row) => Written(reports', row),
         \A i \in DOMAIN reports' :
           Counted(trail', reports'[i].identity, reports'[i].count),
         reportFile' # None => Written(reports', reportFile'),
         NEW p \in Processes,
         \A q \in Processes : q # p => pc'[q] = pc[q] /\ local'[q] = local[q],
         pc'[p] \notin {"idle", "previous", "commit"} =>
           Counted(trail', local'[p].identity, local'[p].count),
         pc'[p] = "file" => Written(reports', ReportOf(p, local[p].reason)')
  PROVE  ReportInvariant'
<1>1. ASSUME NEW q \in Processes, q # p
      PROVE  /\ pc'[q] \notin {"idle", "previous", "commit"} =>
                  Counted(trail', local'[q].identity, local'[q].count)
             /\ pc'[q] = "file" => Written(reports', ReportOf(q, local[q].reason)')
  <2>1. ReportOf(q, local[q].reason)' = ReportOf(q, local[q].reason)
    BY <1>1 DEF ReportOf
  <2> QED BY <1>1, <2>1 DEF ReportInvariant, HeldOnRecord
<1>2. HeldOnRecord'
  BY <1>1 DEF HeldOnRecord
<1>3. RowsCounted' /\ FileWritten'
  BY DEF RowsCounted, FileWritten
<1> QED BY <1>2, <1>3 DEF ReportInvariant

LEMMA StepReport == ReportInvariant /\ [Next]_vars => ReportInvariant'
<1> SUFFICES ASSUME ReportInvariant, [Next]_vars PROVE ReportInvariant'
  OBVIOUS
<1>1. TypedInvariant'
  BY StepTyped DEF ReportInvariant
<1>2. /\ local = [q \in Processes |-> local[q]]
      /\ pc = [q \in Processes |-> pc[q]]
      /\ \E S : reports \in Seq(S)
      /\ \E S : trail \in Seq(S)
  BY DEF ReportInvariant, TypedInvariant, Clocked, IInv, Shape
<1>3. CASE Ingest \/ NextDay \/ UNCHANGED vars
  <2>1. UNCHANGED <<reports, reportFile, trail, pc, local>>
    BY <1>3 DEF Ingest, NextDay, vars, tables
  <2> QED BY <1>1, <2>1
        DEF ReportInvariant, RowsCounted, HeldOnRecord, FileWritten, ReportOf
<1>4. ASSUME NEW p \in Processes,
             \/ Load(p) \/ TakePrevious(p) \/ Schedule(p) \/ WriteFile(p) \/ Abandon(p)
      PROVE  ReportInvariant'
  <2>1. UNCHANGED <<reports, trail>>
    BY <1>4 DEF Load, TakePrevious, Schedule, WriteFile, Abandon, tables
  <2>2. reportFile' # None => Written(reports, reportFile')
    BY <1>4
    DEF Load, TakePrevious, Schedule, WriteFile, Abandon, tables,
        ReportInvariant, HeldOnRecord, FileWritten
  <2>3. /\ \A q \in Processes : q # p => pc'[q] = pc[q] /\ local'[q] = local[q]
        /\ \/ pc'[p] \in {"idle", "previous", "commit"}
           \/ pc[p] = "schedule" /\ pc'[p] \in Reasons /\ local' = local
    BY <1>2, <1>4
    DEF Load, TakePrevious, Schedule, WriteFile, Abandon, Reason, Reasons
  <2>4. /\ pc'[p] \notin {"idle", "previous", "commit"} =>
             Counted(trail, local'[p].identity, local'[p].count)
        /\ pc'[p] # "file"
    BY <2>3 DEF Reasons, ReportInvariant, HeldOnRecord
  <2>5. \A i \in DOMAIN reports : Counted(trail, reports[i].identity, reports[i].count)
    BY DEF ReportInvariant, RowsCounted
  <2> QED BY <1>1, <2>1, <2>2, <2>3, <2>4, <2>5, ReportMove
<1>5. ASSUME NEW p \in Processes, Commit(p)
      PROVE  ReportInvariant'
  <2> DEFINE report == BuildReport(local[p].evidence, DefaultIdentity, Current)
             row == RowOf(report, Confirmations(report.count, report.candidate,
                                                local[p].previous))
             e == [identity |-> report.identity, row |-> row,
                   recommend |-> RecommendChange(report, row.confirmations)]
             h == Held("hook", local[p].now, {}, None, report.identity, report.count, "none")
  <2>1. /\ trail' = Append(trail, e)
        /\ UNCHANGED <<reports, reportFile>>
        /\ \/ pc' = [pc EXCEPT ![p] = "idle"] /\ local' = [local EXCEPT ![p] = Idle]
           \/ pc' = [pc EXCEPT ![p] = "schedule"] /\ local' = [local EXCEPT ![p] = h]
    BY <1>5 DEF Commit
  <2>2. e.identity = report.identity /\ e.row.count = report.count
    BY DEF RowOf
  <2>3. h.identity = report.identity /\ h.count = report.count
    BY HeldFields
  <2> HIDE DEF e, h, row, report
  <2>4. PICK S : trail \in Seq(S)
    BY <1>2
  <2>5. /\ Len(trail) \in Nat /\ DOMAIN trail = 1..Len(trail)
        /\ DOMAIN trail' = 1..(Len(trail) + 1)
        /\ \A i \in DOMAIN trail : trail'[i] = trail[i]
        /\ trail'[Len(trail) + 1] = e
    BY <2>1, <2>4, Appended
  <2>6. \A id, count : Counted(trail, id, count) => Counted(trail', id, count)
    BY <2>5 DEF Counted
  <2>7. Counted(trail', report.identity, report.count)
    BY <2>2, <2>5 DEF Counted
  <2>8. /\ \A q \in Processes : q # p => pc'[q] = pc[q] /\ local'[q] = local[q]
        /\ pc'[p] = "idle" \/ (pc'[p] = "schedule" /\ local'[p] = h)
    <3>1. CASE pc' = [pc EXCEPT ![p] = "idle"] /\ local' = [local EXCEPT ![p] = Idle]
      BY <1>2, <3>1
    <3>2. CASE pc' = [pc EXCEPT ![p] = "schedule"] /\ local' = [local EXCEPT ![p] = h]
      BY <1>2, <3>2
    <3> QED BY <2>1, <3>1, <3>2
  <2>9. \A i \in DOMAIN reports : Counted(trail', reports[i].identity, reports[i].count)
    BY <2>6 DEF ReportInvariant, RowsCounted
  <2>10. reportFile # None => Written(reports, reportFile)
    BY DEF ReportInvariant, FileWritten
  <2>11. /\ pc'[p] \notin {"idle", "previous", "commit"} =>
              Counted(trail', local'[p].identity, local'[p].count)
         /\ pc'[p] # "file"
    BY <2>3, <2>7, <2>8
  <2> QED BY <1>1, <2>1, <2>6, <2>8, <2>9, <2>10, <2>11, ReportMove
<1>6. ASSUME NEW p \in Processes, InsertReport(p)
      PROVE  ReportInvariant'
  <2> DEFINE x == ReportOf(p, pc[p])
             h == Held("hook", local[p].now, {}, None,
                       local[p].identity, local[p].count, pc[p])
  <2>1. /\ pc[p] \in Reasons
        /\ pc' = [pc EXCEPT ![p] = "file"] /\ local' = [local EXCEPT ![p] = h]
        /\ UNCHANGED <<reportFile, trail>>
        /\ \/ Written(reports, x) /\ reports' = reports
           \/ reports' = Append(reports, x)
    BY <1>6 DEF InsertReport, Written
  <2>2. x.identity = local[p].identity /\ x.count = local[p].count
    BY DEF ReportOf
  <2>3. /\ \A q \in Processes : q # p => pc'[q] = pc[q] /\ local'[q] = local[q]
        /\ pc'[p] = "file" /\ local'[p] = h
    BY <1>2, <2>1
  <2>4. ReportOf(p, local[p].reason)' = x
    BY <2>3, HeldFields DEF ReportOf
  <2>5. h.identity = local[p].identity /\ h.count = local[p].count
    BY HeldFields
  <2>6. Counted(trail, local[p].identity, local[p].count)
    BY <2>1 DEF Reasons, ReportInvariant, HeldOnRecord
  <2> HIDE DEF x, h
  <2>7. PICK S : reports \in Seq(S)
    BY <1>2
  <2>8. /\ \A row : Written(reports, row) => Written(reports', row)
        /\ Written(reports', x)
        /\ \A i \in DOMAIN reports' : (i \in DOMAIN reports /\ reports'[i] = reports[i])
                                      \/ reports'[i] = x
    <3>1. CASE Written(reports, x) /\ reports' = reports
      BY <3>1
    <3>2. CASE reports' = Append(reports, x)
      <4>1. /\ Len(reports) \in Nat /\ DOMAIN reports = 1..Len(reports)
            /\ DOMAIN reports' = 1..(Len(reports) + 1)
            /\ \A i \in DOMAIN reports : reports'[i] = reports[i]
            /\ reports'[Len(reports) + 1] = x
        BY <2>7, <3>2, Appended
      <4>2. \A i \in DOMAIN reports' : i \in DOMAIN reports \/ i = Len(reports) + 1
        BY <4>1
      <4> QED BY <4>1, <4>2 DEF Written
    <3> QED BY <2>1, <3>1, <3>2
  <2>9. \A i \in DOMAIN reports' :
          Counted(trail', reports'[i].identity, reports'[i].count)
    BY <2>1, <2>2, <2>6, <2>8 DEF ReportInvariant, RowsCounted
  <2>10. reportFile' # None => Written(reports', reportFile')
    BY <2>1, <2>8 DEF ReportInvariant, FileWritten
  <2>11. /\ Counted(trail', local'[p].identity, local'[p].count)
         /\ Written(reports', ReportOf(p, local[p].reason)')
    BY <2>1, <2>3, <2>4, <2>5, <2>6, <2>8
  <2> QED BY <1>1, <2>1, <2>3, <2>8, <2>9, <2>10, <2>11, ReportMove
<1> QED BY <1>3, <1>4, <1>5, <1>6 DEF Next, Step

(* However many hooks overlap, and wherever they die, the report file      *)
(* shows a report that the table holds, and every report counts the        *)
(* windows of an analysis that was committed (calibration_state.rs,        *)
(* 136-192).                                                               *)
THEOREM FileAlwaysOnRecord == Spec => []FileOnRecord
<1>1. Init => ReportInvariant
  BY InitReport
<1>2. ReportInvariant /\ [Next]_vars => ReportInvariant'
  BY StepReport
<1>3. ReportInvariant => FileOnRecord
  BY DEF ReportInvariant, RowsCounted, FileWritten, Written, Counted, FileOnRecord
<1> QED BY <1>1, <1>2, <1>3, PTL DEF Spec
=============================================================================
