-------------------------- MODULE CalibrationReport --------------------------
(***************************************************************************)
(* build_report of src/src/calibration.rs: what the stored observations    *)
(* say the five-hour window is worth in weekly points.  Observations that  *)
(* carry both quota windows and the newest identity are grouped by the     *)
(* pair of deadlines; the movement between the first and the last of a     *)
(* group is one sample, large movements are eligible, and the weighted     *)
(* median of the eligible samples is the candidate.                        *)
(*                                                                         *)
(* An evidence item is an observation of ResetClassifier with an identity. *)
(* Points are integers: a sample's implied points are rounded down.        *)
(***************************************************************************)
EXTENDS ResetClassifier, Sequences, FiniteSetsExt

CONSTANTS
  Identities,
  Ignored, Low, Useful,  \* IGNORED_MOVEMENT_MAX, LOW_QUALITY_MOVEMENT_MAX, USEFUL_MOVEMENT_MAX
  MinimumSamples,        \* MINIMUM_RECOMMENDATION_SAMPLES, 5
  DriftPercent           \* REPLACEMENT_DRIFT_PERCENT, 10

ASSUME ReportAssumption ==
  /\ MinimumSamples \in Nat \ {0}
  /\ {Ignored, Low, Useful, DriftPercent} \subseteq Nat

Evidence == [id : Int, time : Int, identity : Identities,
             five : QuotaWindows \cup {None}, weekly : QuotaWindows \cup {None}]

\* The members of S by a strict order Less on S.
Ranked(S, Less(_, _)) ==
  [i \in 1..Cardinality(S) |->
     CHOOSE x \in S : Cardinality({y \in S : Less(y, x)}) = i - 1]

InOrder(evidence) == Ranked(evidence, Before)

\* normalize_reset_jitter: the deadline of item i is the last one that differed
\* from its predecessors by more than the jitter, in items of every identity.
Canonical(items, kind) ==
  LET deadline[i \in 0..Len(items)] ==
        IF i = 0 THEN None
        ELSE LET last == deadline[i - 1]
             IN  IF items[i][kind] = None \/ SameEpoch(last, items[i][kind].reset) THEN last
                 ELSE items[i][kind].reset
  IN  deadline

TargetIdentity(evidence, default) ==
  LET newest == {x \in evidence : \A y \in evidence \ {x} : Before(y, x)}
  IN  IF newest = {} THEN default ELSE (CHOOSE x \in newest : TRUE).identity

\* The items of the target identity with both windows, by their two deadlines.
Groups(evidence, target) ==
  LET items == InOrder(evidence)
      five == Canonical(items, "five")
      weekly == Canonical(items, "weekly")
      both == {[item |-> items[i], deadlines |-> <<five[i], weekly[i]>>] : i \in DOMAIN items}
      placed == {x \in both : /\ x.item.identity = target
                              /\ x.item.five # None /\ x.item.weekly # None
                              /\ x.deadlines[1] # None /\ x.deadlines[2] # None}
  IN  { [deadlines |-> x.deadlines,
         items |-> {y.item : y \in {z \in placed : z.deadlines = x.deadlines}}] : x \in placed }

Quality(movement) ==
  IF movement < Ignored THEN "ignored"
  ELSE IF movement < Low THEN "low"
  ELSE IF movement < Useful THEN "useful"
  ELSE "high"

\* What the movement of one group is evidence of; a group that shrank, or that
\* cost no weekly points, is excluded.
Samples(evidence, target) ==
  LET Sample(group) ==
        LET first == CHOOSE x \in group.items : \A y \in group.items \ {x} : Before(x, y)
            last  == CHOOSE x \in group.items : \A y \in group.items \ {x} : Before(y, x)
        IN  [identity |-> target, deadlines |-> group.deadlines, source |-> first.id,
             from |-> first.time, to |-> last.time,
             five   |-> last.five.used - first.five.used,
             weekly |-> last.weekly.used - first.weekly.used]
      moved == {Sample(group) : group \in {g \in Groups(evidence, target) :
                                             Cardinality(g.items) >= 2}}
  IN  {s \in moved : s.five > 0 /\ s.weekly > 0}

Implied(sample) == (sample.weekly * 100) \div sample.five

Eligible(samples) == {s \in samples : Quality(s.five) \in {"useful", "high"}}

\* The least implied value below which half of the five-hour movement lies.
WeightedMedian(samples) ==
  LET Weight(S) == MapThenSumSet(LAMBDA s : s.five, S)
      values == {Implied(s) : s \in samples}
  IN  Min({v \in values : 2 * Weight({s \in samples : Implied(s) <= v}) >= Weight(samples)})

\* Four times the k-th quartile, interpolated as percentile() does.
QuartileTimesFour(samples, k) ==
  LET Below(s, t) == \/ Implied(s) < Implied(t)
                     \/ Implied(s) = Implied(t) /\ s.from < t.from
      sorted == Ranked(samples, Below)
      position == k * (Len(sorted) - 1)
      value(i) == Implied(sorted[i + 1])
      low == position \div 4
      rest == position % 4
  IN  (4 - rest) * value(low) + rest * value(IF rest = 0 THEN low ELSE low + 1)

\* relative_iqr <= MAX_CANDIDATE_RELATIVE_IQR, 0.25
LowSpread(samples) ==
  QuartileTimesFour(samples, 3) - QuartileTimesFour(samples, 1) <= WeightedMedian(samples)

Magnitude(x) == IF x < 0 THEN -x ELSE x

EnoughDrift(current, candidate) ==
  /\ current # None
  /\ Magnitude(candidate - current) * 100 >= DriftPercent * current

\* What build_report finds in the evidence; `current` is the value of the active
\* profile.  A replaceable calibration is far from a candidate of low spread.
BuildReport(evidence, default, current) ==
  LET target == TargetIdentity(evidence, default)
      samples == Samples(evidence, target)
      eligible == Eligible(samples)
      count == Cardinality(eligible)
      candidate == IF count >= MinimumSamples THEN WeightedMedian(eligible) ELSE None
  IN  [identity |-> target, samples |-> samples, count |-> count, candidate |-> candidate,
       replaceable |-> /\ count >= MinimumSamples
                       /\ EnoughDrift(current, candidate)
                       /\ LowSpread(eligible)]

RecommendChange(report, confirmations) == report.replaceable /\ confirmations >= 2
=============================================================================
