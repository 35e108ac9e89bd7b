-------------------------------- MODULE Drift --------------------------------
(***************************************************************************)
(* detect_drift of src/src/feature_store/drift.rs on the versions that a    *)
(* FeatureStore holds.  The numbers are integers, so that the comparison of *)
(* the score with the threshold is made without a root or a quotient; f64's *)
(* rounding is kept where it decides which formula is used.                 *)
(***************************************************************************)
EXTENDS FeatureStore, CellData

CONSTANT Thresholds  \* arguments threshold

ASSUME DriftAssumption == Thresholds \subseteq Int /\ DOMAIN as_f32 \subseteq Int

FeatureStoreError ==
  {"MaxVersionsTooLow", "RawColumnExists", "VersionNotFound", "FeatureNotFound",
   "SnapshotNotFound", "DuplicateFeatureInSnapshot", "TableBuildFailed",
   "NonNumericFeature", "AllValuesMissing"}

\* to_f64_vec: the present values of a numeric column.
to_f64_vec(col) == present_values(col)

\* iter().sum(): one number after the other.
Total(xs) ==
  LET sum[i \in 0..Len(xs)] == IF i = 0 THEN 0 ELSE sum[i - 1] + xs[i]
  IN sum[Len(xs)]
Squares(xs) == Total([i \in DOMAIN xs |-> xs[i] * xs[i]])

\* With n values of sum S: the variance times n^2.
Spread(xs) == Len(xs) * Squares(xs) - Total(xs) * Total(xs)

\* The difference of the means times both numbers of values.
Difference(bs, cs) == Total(cs) * Len(bs) - Total(bs) * Len(cs)

Abs(x) == IF x < 0 THEN -x ELSE x

\* |mean of cs - mean of bs| / deviation of bs > threshold, or without the
\* deviation when that is 0.
ScoreExceeds(bs, cs, threshold) ==
  \/ threshold < 0
  \/ IF Spread(bs) = 0
       THEN Abs(Difference(bs, cs)) > threshold * Len(bs) * Len(cs)
       ELSE Difference(bs, cs) * Difference(bs, cs)
              > threshold * threshold * Spread(bs) * Len(cs) * Len(cs)

\* The mean of three or more equal values may be rounded off that value, and
\* the deviation is then tiny instead of 0.
DeviationMayMiss(bs) == Len(bs) >= 3 /\ Spread(bs) = 0 /\ Total(bs) # 0

Answer(exceeds) == IF exceeds THEN "drifted" ELSE "stable"

\* Mutant: the sums are divided by the rows, gaps included.
compare_counting_gaps(b, c, threshold) ==
  LET Zeroed(col) == [i \in DOMAIN col.cells |->
                        IF col.cells[i] = Missing THEN 0 ELSE col.cells[i]]
  IN {Answer(ScoreExceeds(Zeroed(b), Zeroed(c), threshold))}

\* The answers there may be for two columns with a value each: the sums of
\* equal sequences are rounded alike.
compare(b, c, threshold) ==
  LET bs == to_f64_vec(b)
      cs == to_f64_vec(c)
  IN {Answer(ScoreExceeds(bs, cs, threshold))}
       \cup (IF DeviationMayMiss(bs) /\ bs # cs THEN {"drifted"} ELSE {})

\* What detect_drift may return on the columns b and c, in the order of its
\* checks: the baseline's come first.
drift_of(b, c, threshold) ==
  IF b.variant \notin Numeric THEN {"NonNumericFeature"}
  ELSE IF to_f64_vec(b) = <<>> THEN {"AllValuesMissing"}
  ELSE IF c.variant \notin Numeric THEN {"NonNumericFeature"}
  ELSE IF to_f64_vec(c) = <<>> THEN {"AllValuesMissing"}
  ELSE compare(b, c, threshold)

detect_drift(name, baseline_version, current_version, threshold) ==
  LET baseline == get_version(name, baseline_version)
      current == get_version(name, current_version)
  IN IF baseline = NotFound \/ current = NotFound THEN {"VersionNotFound"}
     ELSE drift_of(baseline.data, current.data, threshold)

-----------------------------------------------------------------------------
(* Properties.                                                               *)

\* The first version of a feature and its latest one can always be compared,
\* however many were pruned in between, and the answer is the one the columns
\* committed first and last give.
DriftFromFirst ==
  \A n \in Names, threshold \in Thresholds :
    LET h == history[n]
        latest == get_latest_version(n)
    IN h # <<>> =>
         /\ latest # NotFound
         /\ detect_drift(n, 1, latest.version_number, threshold)
              = drift_of(h[1], h[Len(h)], threshold)

\* drift.rs: "Missing values are skipped [...], not treated as 0": two versions
\* with the same present values have not drifted, wherever their gaps are.
DriftIgnoresGaps ==
  \A n \in Names, threshold \in Thresholds \cap Nat :
    \A i, j \in DOMAIN VersionsOf(n) :
      LET b == VersionsOf(n)[i]
          c == VersionsOf(n)[j]
      IN present_values(b.data) = present_values(c.data) =>
           detect_drift(n, b.version_number, c.version_number, threshold)
             \subseteq {"stable", "NonNumericFeature", "AllValuesMissing"}
=============================================================================
