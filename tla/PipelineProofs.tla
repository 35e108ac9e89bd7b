--------------------------- MODULE PipelineProofs ---------------------------
(***************************************************************************)
(* Theorems of Drift and Pipeline, for every history of commits, for columns*)
(* of any length and for every model.                                       *)
(***************************************************************************)
EXTENDS Pipeline, FeatureStoreProofs, TensorProofs

-----------------------------------------------------------------------------
(* The loops over the numbers of a column.                                   *)

\* f has the values that a sum of xs runs through.
Sums(f, xs) ==
  f = [i \in 0..Len(xs) |-> IF i = 0 THEN 0 ELSE f[i - 1] + xs[i]]

\* Total adds up its numbers one by one.
LEMMA RunningTotal ==
  ASSUME NEW xs \in Seq(Int), NEW n \in Nat, Len(xs) = n
  PROVE  \E f \in [0..n -> Int] : /\ f[0] = 0
                                  /\ \A i \in 1..n : f[i] = f[i - 1] + xs[i]
                                  /\ Total(xs) = f[n]
<1>1. \A i \in 1..n : xs[i] \in Int
  BY ElementOfSeq
<1> DEFINE step == [p \in Int \X (1..n) |-> p[1] + xs[p[2]]]
<1>2. step \in [Int \X (1..n) -> Int]
  BY <1>1
<1>3. \A x \in Int, i \in 1..n : step[<<x, i>>] = x + xs[i]
  OBVIOUS
<1> HIDE DEF step
<1>4. PICK g : IsLoop(g, n, Int, 0, step)
  BY <1>2, LoopExists, 0 \in Int
<1>5. /\ g \in [0..n -> Int] /\ g[0] = 0
      /\ \A i \in 1..n : g[i] = step[<<g[i - 1], i>>]
  BY <1>4 DEF IsLoop
<1>6. \A i \in 1..n : g[i] = g[i - 1] + xs[i]
  <2> SUFFICES ASSUME NEW i \in 1..n PROVE g[i] = g[i - 1] + xs[i]
    OBVIOUS
  <2>1. i - 1 \in 0..n
    OBVIOUS
  <2>2. g[i - 1] \in Int
    BY <2>1, <1>5
  <2> QED
    BY <2>2, <1>3, <1>5
<1>7. Sums(g, xs)
  BY <1>5, <1>6 DEF Sums
<1> DEFINE f == CHOOSE h : Sums(h, xs)
<1>8. Sums(f, xs)
  BY <1>7, Zenon
<1>9. Total(xs) = f[n]
  BY Zenon DEF Total, Sums
<1> HIDE DEF f
<1>10. f[0] = 0 /\ \A i \in 1..n : f[i] = f[i - 1] + xs[i]
  BY <1>8 DEF Sums
<1> DEFINE S == {i \in 0..n : f[i] = g[i]}
<1>11. 0 \in S
  BY <1>5, <1>10
<1>12. \A i \in 1..n : i - 1 \in S => i \in S
  BY <1>6, <1>10
<1> HIDE DEF S
<1>13. \A i \in 0..n : i \in S
  BY <1>11, <1>12, UpTo
<1>14. n \in 0..n
  OBVIOUS
<1>15. Total(xs) = g[n]
  BY <1>9, <1>13, <1>14 DEF S
<1> QED
  BY <1>5, <1>6, <1>15

\* (x - y)^2 in the terms that the sums are made of.
LEMMA SquareOfDifference ==
  ASSUME NEW x \in Int, NEW y \in Int
  PROVE  x * x - 2 * (y * x) + y * y >= 0
<1>1. (x - y) * (x - y) >= 0
  BY SMTT(30)
<1>2. (x - y) * (x - y) = x * x - 2 * (y * x) + y * y
  BY SMTT(30)
<1> QED
  BY <1>1, <1>2

\* The variance of numbers is not negative.
LEMMA SpreadNotNegative ==
  ASSUME NEW xs \in Seq(Int)
  PROVE  /\ Total(xs) \in Int /\ Spread(xs) \in Nat
<1> DEFINE n == Len(xs)
           qs == [i \in DOMAIN xs |-> xs[i] * xs[i]]
<1>1. n \in Nat /\ DOMAIN xs = 1..n /\ \A i \in 1..n : xs[i] \in Int
  BY LenProperties, ElementOfSeq
<1>2. qs \in Seq(Int) /\ Len(qs) = n /\ \A i \in 1..n : qs[i] = xs[i] * xs[i]
  <2>1. \A i \in 1..n : xs[i] * xs[i] \in Int
    BY <1>1
  <2> QED
    BY <1>1, <2>1
<1>3. Spread(xs) = n * Total(qs) - Total(xs) * Total(xs)
  BY DEF Spread, Squares
<1> HIDE DEF n, qs
<1>4. PICK T \in [0..n -> Int] : /\ T[0] = 0
                                 /\ \A i \in 1..n : T[i] = T[i - 1] + xs[i]
                                 /\ Total(xs) = T[n]
  BY <1>1, RunningTotal DEF n
<1>5. PICK Q \in [0..n -> Int] : /\ Q[0] = 0
                                 /\ \A i \in 1..n : Q[i] = Q[i - 1] + qs[i]
                                 /\ Total(qs) = Q[n]
  BY <1>1, <1>2, RunningTotal
<1>6. \A i \in 1..n : i - 1 \in 0..n /\ i \in 0..n /\ i \in Nat /\ i - 1 \in Nat
  BY <1>1
<1>7. ASSUME NEW y \in Int
      PROVE  \A i \in 0..n : Q[i] - 2 * (y * T[i]) + i * (y * y) >= 0
  <2> DEFINE S == {i \in 0..n : Q[i] - 2 * (y * T[i]) + i * (y * y) >= 0}
  <2>1. 0 \in S
    BY <1>1, <1>4, <1>5
  <2>2. ASSUME NEW i \in 1..n, i - 1 \in S PROVE i \in S
    <3>1. PICK t \in Int, q \in Int, x \in Int, yy \in Int, j \in Nat :
            /\ t = T[i - 1] /\ q = Q[i - 1] /\ x = xs[i] /\ yy = y * y /\ j = i - 1
      <4>1. T[i - 1] \in Int /\ Q[i - 1] \in Int /\ xs[i] \in Int /\ i - 1 \in Nat
        BY <1>1, <1>6
      <4>2. y * y \in Int
        OBVIOUS
      <4> QED
        BY <4>1, <4>2
    <3>2. T[i] = t + x /\ Q[i] = q + x * x /\ i = j + 1
      BY <3>1, <1>2, <1>4, <1>5
    <3>3. q - 2 * (y * t) + j * yy >= 0
      BY <2>2, <3>1
    <3>4. x * x - 2 * (y * x) + yy >= 0
      BY <3>1, SquareOfDifference
    <3>5. y * (t + x) = y * t + y * x /\ (j + 1) * yy = j * yy + yy
      BY SMTT(30)
    <3>6. (q + x * x) - 2 * (y * (t + x)) + (j + 1) * yy >= 0
      <4>1. x * x \in Int /\ y * x \in Int /\ y * t \in Int /\ j * yy \in Int
        OBVIOUS
      <4> QED
        BY <3>3, <3>4, <3>5, <4>1
    <3>7. Q[i] - 2 * (y * T[i]) + i * (y * y) >= 0
      BY <3>1, <3>2, <3>6
    <3> QED
      BY <3>7, <1>6
  <2> HIDE DEF S
  <2>3. \A i \in 0..n : i \in S
    BY <1>1, <2>1, <2>2, UpTo
  <2> QED
    BY <2>3 DEF S
<1>8. \A i \in 0..n : i * Q[i] - T[i] * T[i] >= 0
  <2> DEFINE S == {i \in 0..n : i * Q[i] - T[i] * T[i] >= 0}
  <2>1. 0 \in S
    BY <1>1, <1>4, <1>5
  <2>2. ASSUME NEW i \in 1..n, i - 1 \in S PROVE i \in S
    <3>1. PICK t \in Int, q \in Int, x \in Int, j \in Nat :
            t = T[i - 1] /\ q = Q[i - 1] /\ x = xs[i] /\ j = i - 1
      BY <1>1, <1>6
    <3>2. T[i] = t + x /\ Q[i] = q + x * x /\ i = j + 1
      BY <3>1, <1>2, <1>4, <1>5
    <3>3. j * q - t * t >= 0
      BY <2>2, <3>1
    <3>4. q - 2 * (x * t) + j * (x * x) >= 0
      BY <3>1, <1>6, <1>7
    <3>5. /\ (j + 1) * (q + x * x) = j * q + j * (x * x) + q + x * x
          /\ (t + x) * (t + x) = t * t + 2 * (x * t) + x * x
      BY SMTT(30)
    <3>6. (j + 1) * (q + x * x) - (t + x) * (t + x) >= 0
      <4>1. /\ x * x \in Int /\ x * t \in Int /\ j * q \in Int /\ t * t \in Int
            /\ j * (x * x) \in Int
        OBVIOUS
      <4> QED
        BY <3>3, <3>4, <3>5, <4>1
    <3>7. i * Q[i] - T[i] * T[i] >= 0
      BY <3>2, <3>6
    <3> QED
      BY <3>7, <1>6
  <2> HIDE DEF S
  <2>3. \A i \in 0..n : i \in S
    BY <1>1, <2>1, <2>2, UpTo
  <2> QED
    BY <2>3 DEF S
<1>9. n \in 0..n
  BY <1>1
<1>10. Total(xs) \in Int /\ Total(qs) \in Int
  BY <1>4, <1>5, <1>9
<1>11. n * Total(qs) - Total(xs) * Total(xs) >= 0
  BY <1>4, <1>5, <1>8, <1>9
<1>12. n * Total(qs) \in Int /\ Total(xs) * Total(xs) \in Int
  BY <1>1, <1>10
<1> QED
  BY <1>3, <1>10, <1>11, <1>12

\* f has the values that present_values runs through.
Collects(f, col) ==
  f = [i \in 0..len(col) |->
         IF i = 0 THEN <<>>
         ELSE IF col.cells[i] = Missing THEN f[i - 1]
         ELSE Append(f[i - 1], col.cells[i])]

\* The present values of a column of numbers and gaps are numbers.
LEMMA PresentValues ==
  ASSUME NEW V, Missing \notin V, NEW col, col.cells \in Seq(V \cup {Missing})
  PROVE  present_values(col) \in Seq(V)
<1> DEFINE n == len(col)
           c == col.cells
           step == [p \in Seq(V) \X (1..n) |->
                      IF c[p[2]] = Missing THEN p[1] ELSE Append(p[1], c[p[2]])]
<1>1. n \in Nat /\ \A i \in 1..n : c[i] \in V \/ c[i] = Missing
  BY LenProperties, ElementOfSeq DEF len
<1>2. <<>> \in Seq(V)
  BY EmptySeq
<1>3. \A x \in Seq(V), i \in 1..n :
        /\ step[<<x, i>>] = IF c[i] = Missing THEN x ELSE Append(x, c[i])
        /\ step[<<x, i>>] \in Seq(V)
  BY <1>1, AppendProperties
<1>4. step \in [Seq(V) \X (1..n) -> Seq(V)]
  BY <1>1, AppendProperties
<1> HIDE DEF step, n
<1>5. PICK g : IsLoop(g, n, Seq(V), <<>>, step)
  BY <1>1, <1>2, <1>4, LoopExists
<1>6. /\ g \in [0..n -> Seq(V)] /\ g[0] = <<>>
      /\ \A i \in 1..n : g[i] = step[<<g[i - 1], i>>]
  BY <1>5 DEF IsLoop
<1>7. \A i \in 1..n : g[i - 1] \in Seq(V)
  BY <1>1, <1>6
<1>8. \A i \in 1..n : g[i] = IF c[i] = Missing THEN g[i - 1] ELSE Append(g[i - 1], c[i])
  BY <1>3, <1>6, <1>7
<1>9. Collects(g, col)
  <2> DEFINE e(i) == IF i = 0 THEN <<>>
                     ELSE IF c[i] = Missing THEN g[i - 1]
                     ELSE Append(g[i - 1], c[i])
  <2>1. \A i \in 0..n : g[i] = e(i)
    <3>1. \A i \in 0..n : i = 0 \/ i \in 1..n
      BY <1>1
    <3>2. e(0) = <<>> /\ \A i \in 1..n : e(i) = IF c[i] = Missing THEN g[i - 1]
                                                ELSE Append(g[i - 1], c[i])
      OBVIOUS
    <3> HIDE DEF e
    <3> QED
      BY <3>1, <3>2, <1>6, <1>8
  <2> HIDE DEF e
  <2>2. g = [i \in 0..n |-> e(i)]
    BY <2>1, <1>6
  <2> QED
    BY <2>2, Zenon DEF e, Collects, n
<1> DEFINE f == CHOOSE h : Collects(h, col)
<1>10. Collects(f, col)
  BY <1>9, Zenon
<1>11. present_values(col) = f[n]
  BY Zenon DEF present_values, Collects, n
<1> HIDE DEF f
<1>12. /\ f[0] = <<>>
       /\ \A i \in 1..n : f[i] = IF c[i] = Missing THEN f[i - 1]
                                 ELSE Append(f[i - 1], c[i])
  <2> DEFINE e(i) == IF i = 0 THEN <<>>
                     ELSE IF c[i] = Missing THEN f[i - 1]
                     ELSE Append(f[i - 1], c[i])
  <2>1. f = [i \in 0..n |-> e(i)]
    BY <1>10, Zenon DEF Collects, n
  <2>2. e(0) = <<>> /\ \A i \in 1..n : e(i) = IF c[i] = Missing THEN f[i - 1]
                                              ELSE Append(f[i - 1], c[i])
    OBVIOUS
  <2> HIDE DEF e
  <2>3. \A i \in 0..n : f[i] = e(i)
    BY <2>1
  <2>4. 0 \in 0..n /\ \A i \in 1..n : i \in 0..n
    BY <1>1
  <2> QED
    BY <2>2, <2>3, <2>4, Zenon
<1> DEFINE S == {i \in 0..n : f[i] \in Seq(V)}
<1>13. 0 \in S
  <2>1. 0 \in 0..n /\ f[0] \in Seq(V)
    BY <1>1, <1>2, <1>12
  <2> QED
    BY <2>1
<1>14. ASSUME NEW i \in 1..n, i - 1 \in S PROVE i \in S
  <2>1. f[i - 1] \in Seq(V)
    BY <1>14
  <2>2. CASE c[i] = Missing
    <3>1. f[i] = f[i - 1]
      BY <2>2, <1>12
    <3> QED
      BY <3>1, <2>1, <1>1
  <2>3. CASE c[i] # Missing
    <3>1. f[i] = Append(f[i - 1], c[i]) /\ c[i] \in V
      BY <2>3, <1>12, <1>1
    <3>2. f[i] \in Seq(V)
      BY <3>1, <2>1, AppendProperties
    <3> QED
      BY <3>2, <1>1
  <2> QED
    BY <2>2, <2>3
<1> HIDE DEF S
<1>15. \A i \in 0..n : i \in S
  BY <1>1, <1>13, <1>14, UpTo
<1>16. n \in 0..n
  BY <1>1
<1> QED
  BY <1>11, <1>15, <1>16 DEF S

-----------------------------------------------------------------------------
(* The store inside the pipeline.                                            *)

\* Training and inference leave the store alone, so what is invariant of it
\* stays so.
LEMMA StoreSteps == /\ PipelineInit => Init
                    /\ [PipelineNext]_pipelineVars => [Next]_vars
BY DEF PipelineInit, PipelineNext, pipelineVars, vars, StoreStep, rebuild, add_target,
       train

LEMMA StoreInvariance == PipelineSpec => [](IInv /\ Pinned)
<1>1. IInv /\ [Next]_vars => IInv'
  BY NextPreservesInv
<1>2. IInv /\ Pinned /\ [Next]_vars => Pinned'
  BY PinnedStep
<1> QED
  BY <1>1, <1>2, InitInv, PinnedInit, StoreSteps, PTL DEF PipelineSpec

-----------------------------------------------------------------------------
(* Drift.                                                                    *)

\* However many versions were pruned in between, the first version of a feature
\* is compared with its latest one, and these are what was committed first and
\* last.
THEOREM FirstAndLatestCompare == PipelineSpec => []DriftFromFirst
<1>1. IInv => DriftFromFirst
  <2> SUFFICES ASSUME IInv, NEW n \in Names, NEW threshold \in Thresholds,
                      history[n] # <<>>
               PROVE  /\ get_latest_version(n) # NotFound
                      /\ detect_drift(n, 1, get_latest_version(n).version_number, threshold)
                           = drift_of(history[n][1], history[n][Len(history[n])], threshold)
    BY DEF DriftFromFirst
  <2> DEFINE k == Len(history[n])
  <2>1. k \in Nat /\ k >= 1
    <3>1. history[n] \in Seq(Typed)
      BY DEF IInv, TypeOK
    <3> QED
      BY <3>1, LenProperties, EmptySeq
  <2>2. Retained(k, 1) /\ Retained(k, k)
    BY <2>1, FeatureStoreAssumption DEF Retained
  <2>3. get_latest_version(n) = get_version(n, k)
    <3>1. n \in DOMAIN versions /\ Window(VersionsOf(n), history[n], n)
      BY DEF IInv, RetainedVersions
    <3>2. VersionsOf(n) \in Seq(ColumnVersion) /\ history[n] \in Seq(Typed)
      BY VersionsOfType DEF IInv, TypeOK
    <3>3. max_version(VersionsOf(n)) = k
      BY <3>1, <3>2, WindowMaximum
    <3> QED
      BY <3>1, <3>3 DEF get_latest_version, VersionsOf
  <2>4. /\ get_version(n, 1) = Found(n, 1) /\ Found(n, 1) # NotFound
        /\ get_version(n, k) = Found(n, k) /\ Found(n, k) # NotFound
    BY <2>2, FindVersion
  <2>5. /\ Found(n, 1).data = history[n][1]
        /\ Found(n, k).data = history[n][k] /\ Found(n, k).version_number = k
    BY <2>2 DEF Found
  <2> HIDE DEF k
  <2>6. detect_drift(n, 1, k, threshold) = drift_of(history[n][1], history[n][k], threshold)
    BY <2>4, <2>5 DEF detect_drift
  <2> QED
    BY <2>3, <2>4, <2>5, <2>6 DEF k
<1> QED
  BY <1>1, StoreInvariance, PTL


\* Numbers have not drifted from themselves.
LEMMA SameNumbersAreStable ==
  ASSUME NEW xs \in Seq(Int), NEW threshold \in Nat
  PROVE  ~ ScoreExceeds(xs, xs, threshold)
<1> DEFINE L == Len(xs)
           T == Total(xs)
           V == Spread(xs)
<1>1. L \in Nat /\ T \in Int /\ V \in Nat
  BY LenProperties, SpreadNotNegative
<1>2. Difference(xs, xs) = T * L - T * L
  BY DEF Difference
<1> HIDE DEF L, T, V
<1>3. T * L \in Int
  BY <1>1
<1>4. Difference(xs, xs) = 0
  BY <1>2, <1>3
<1>5. \A x, y \in Nat : x * y \in Nat
  BY SMTT(30)
<1>6. /\ threshold * L * L \in Nat /\ threshold * threshold * V * L * L \in Nat
  BY <1>1, <1>5
<1>7. ~ (0 > threshold * L * L) /\ ~ (0 * 0 > threshold * threshold * V * L * L)
  BY <1>6
<1>8. ~ (threshold < 0) /\ Abs(0) = 0
  BY DEF Abs
<1> QED
  BY <1>4, <1>7, <1>8 DEF ScoreExceeds, L, V

\* The version under a number of the Vec has what was committed under it, and
\* its present values are integers.
LEMMA VersionsFound ==
  ASSUME IInv, NEW n \in Names, NEW i \in DOMAIN VersionsOf(n)
  PROVE  LET b == VersionsOf(n)[i]
         IN  /\ get_version(n, b.version_number) # NotFound
             /\ get_version(n, b.version_number).data = b.data
             /\ present_values(b.data) \in Seq(Int)
<1> DEFINE vs == VersionsOf(n)
           h == history[n]
           v == vs[i].version_number
<1>1. /\ vs \in Seq(ColumnVersion) /\ h \in Seq(Typed)
      /\ Window(vs, h, n) /\ DOMAIN vs = 1..Len(vs)
  BY VersionsOfType, LenProperties DEF IInv, TypeOK, RetainedVersions
<1> HIDE DEF vs, h
<1>2. Retained(Len(h), v) /\ vs[i].data = h[v]
  BY <1>1, WindowNumbers DEF Window, vs
<1>3. get_version(n, v) # NotFound /\ get_version(n, v).data = vs[i].data
  BY <1>2, FindVersion DEF Found, h
<1>4. vs[i].data \in Typed
  <2>1. i \in 1..Len(vs)
    BY <1>1 DEF vs
  <2>2. vs[i] \in ColumnVersion
    BY <2>1, <1>1, ElementOfSeq
  <2> QED
    BY <2>2 DEF ColumnVersion
<1>5. vs[i].data.cells \in Seq(DOMAIN as_f32 \cup {Missing})
  BY <1>4, FeatureStoreAssumption, CellDataAssumption
     DEF Typed, ColumnData, TypedColumn, RawColumn
<1>6. present_values(vs[i].data) \in Seq(DOMAIN as_f32)
  BY <1>5, PresentValues, CellDataAssumption
<1>7. present_values(vs[i].data) \in Seq(Int)
  BY <1>6, DriftAssumption
<1> QED
  BY <1>3, <1>7 DEF vs

\* Gaps are skipped: two versions with the same present values are never said
\* to have drifted, whatever the rows that they are in.
THEOREM GapsAreNoDrift == PipelineSpec => []DriftIgnoresGaps
<1>1. IInv => DriftIgnoresGaps
  <2> SUFFICES ASSUME IInv, NEW n \in Names, NEW threshold \in Thresholds \cap Nat,
                      NEW i \in DOMAIN VersionsOf(n), NEW j \in DOMAIN VersionsOf(n),
                      present_values(VersionsOf(n)[i].data)
                        = present_values(VersionsOf(n)[j].data)
               PROVE  detect_drift(n, VersionsOf(n)[i].version_number,
                                      VersionsOf(n)[j].version_number, threshold)
                        \subseteq {"stable", "NonNumericFeature", "AllValuesMissing"}
    BY DEF DriftIgnoresGaps
  <2> DEFINE b == VersionsOf(n)[i].data
             c == VersionsOf(n)[j].data
             xs == present_values(b)
  <2>1. detect_drift(n, VersionsOf(n)[i].version_number,
                        VersionsOf(n)[j].version_number, threshold)
          = drift_of(b, c, threshold)
    BY VersionsFound DEF detect_drift
  <2>2. xs \in Seq(Int) /\ present_values(c) = xs
    BY VersionsFound
  <2> HIDE DEF b, c, xs
  <2>3. compare(b, c, threshold) = {"stable"}
    <3>1. to_f64_vec(b) = xs /\ to_f64_vec(c) = xs
      BY <2>2 DEF to_f64_vec, xs
    <3>2. ~ ScoreExceeds(xs, xs, threshold)
      BY <2>2, SameNumbersAreStable
    <3> QED
      BY <3>1, <3>2 DEF compare, Answer
  <2>4. drift_of(b, c, threshold) \subseteq {"stable", "NonNumericFeature", "AllValuesMissing"}
    BY <2>3 DEF drift_of
  <2> QED
    BY <2>1, <2>4
<1> QED
  BY <1>1, StoreInvariance, PTL


-----------------------------------------------------------------------------
(* Types of the pipeline.                                                    *)

\* The file f of a model m that was trained on a snapshot of ids.
FileOK(f, m, ids) ==
  /\ f = <<m.snapshot_id, m.label>>
  /\ m.snapshot_id \in ids
  /\ label_error(m.label) = "None"
  /\ m.features \in FeatureColumns /\ m.architecture = architecture(m.features)
  /\ \A i \in DOMAIN m.x : Len(m.x[i]) = m.architecture.in_features

\* A table that was rebuilt from a snapshot of ids.
TableOK(t, ids) ==
  /\ t = [id |-> t.id, data |-> t.data]
  /\ t.id \in ids /\ DOMAIN t.data \subseteq Names

TypeInv ==
  /\ table # NoTable => TableOK(table, DOMAIN snapshots)
  /\ \A f \in DOMAIN files : FileOK(f, files[f], DOMAIN snapshots)

\* No snapshot goes away.
LEMMA SnapshotsStay ==
  ASSUME [Next]_vars PROVE DOMAIN snapshots \subseteq DOMAIN snapshots'
<1>1. ASSUME NEW of \in FeatureLists, NEW label \in Labels, create_snapshot(of, label)
      PROVE  DOMAIN snapshots \subseteq DOMAIN snapshots'
  BY <1>1 DEF create_snapshot, insert
<1>2. ASSUME NEW d \in Offered, commit(d) PROVE snapshots' = snapshots
  BY <1>2 DEF commit, vars
<1> QED
  BY <1>1, <1>2 DEF Next, vars

\* The names of a snapshot's list, and a rebuilt table's.
LEMMA RebuiltNames ==
  ASSUME IInv, Pinned, NEW id \in DOMAIN snapshots, NEW t \in reconstruct_table(id),
         t.error = "None"
  PROVE  DOMAIN t.data \subseteq Names
<1> DEFINE of == snapshots[id].ordered_features
<1>1. Loaded(t, of, Len(of))
  BY RebuiltTables
<1>2. of \in Seq(Names \X Nat)
  BY DEF Pinned, PinsCommits
<1>3. \A j \in 1..Len(of) : of[j][1] \in Names
  BY <1>2, ElementOfSeq
<1> QED
  BY <1>1, <1>3 DEF Loaded

\* Whatever the lengths of the columns, an example has a number per feature.
LEMMA ExampleWidths ==
  ASSUME NEW d, NEW fs \in Seq(Names), NEW y, NEW t \in to_tensor(d, fs, y),
         t.result = "Ok"
  PROVE  \A i \in DOMAIN t.x : Len(t.x[i]) = Len(fs)
<1> DEFINE n == Len(fs)
<1>1. n \in Nat
  BY LenProperties
<1>2. \A e : NoTensor(e).result = e
  BY DEF NoTensor
<1>3. \A rows : check_missing_and_type(d, rows) # "Ok"
  BY DEF check_missing_and_type, ColumnError
<1>4. PICK rc : t.x = from_vec(flat(d, fs, rc), rc, n)
  BY <1>2, <1>3 DEF to_tensor, Tensor
<1> HIDE DEF n
<1>5. \A i \in DOMAIN t.x : Len(t.x[i]) = n
  <2> DEFINE v == flat(d, fs, rc)
  <2> HIDE DEF v
  <2>1. t.x = from_vec(v, rc, n)
    BY <1>4 DEF v
  <2>2. ASSUME NEW i \in DOMAIN t.x PROVE Len(t.x[i]) = n
    <3>1. t.x[i] = [c \in 1..n |-> v[(i - 1) * n + c]]
      BY <2>1 DEF from_vec
    <3> QED
      BY <3>1, <1>1
  <2> QED
    BY <2>2
<1> QED
  BY <1>5 DEF n

LEMMA TypeStep ==
  ASSUME IInv, Pinned, TypeInv, [PipelineNext]_pipelineVars
  PROVE  TypeInv'
<1>1. DOMAIN snapshots \subseteq DOMAIN snapshots'
  BY StoreSteps, SnapshotsStay
<1>2. \A t : TableOK(t, DOMAIN snapshots) => TableOK(t, DOMAIN snapshots')
  BY <1>1 DEF TableOK
<1>3. \A f, m : FileOK(f, m, DOMAIN snapshots) => FileOK(f, m, DOMAIN snapshots')
  BY <1>1 DEF FileOK
<1>4. ASSUME UNCHANGED files
      PROVE  \A f \in DOMAIN files' : FileOK(f, files'[f], DOMAIN snapshots')
  BY <1>3, <1>4 DEF TypeInv
<1>5. CASE UNCHANGED <<table, files>>
  BY <1>2, <1>4, <1>5 DEF TypeInv
<1>6. ASSUME NEW id \in DOMAIN snapshots, rebuild(id) PROVE TypeInv'
  <2>1. PICK t \in reconstruct_table(id) :
          t.error = "None" /\ table' = [id |-> id, data |-> t.data]
    BY <1>6 DEF rebuild
  <2>2. DOMAIN t.data \subseteq Names
    BY <2>1, RebuiltNames
  <2>3. TableOK(table', DOMAIN snapshots')
    BY <1>1, <2>1, <2>2 DEF TableOK
  <2> QED
    BY <1>4, <1>6, <2>3 DEF TypeInv, rebuild
<1>7. ASSUME NEW col \in Targets, add_target(col) PROVE TypeInv'
  <2>1. /\ TableOK(table, DOMAIN snapshots)
        /\ table' = [table EXCEPT !.data = insert(@, col.name, col)]
    BY <1>7 DEF add_target, TypeInv
  <2>2. table' = [id |-> table.id, data |-> insert(table.data, col.name, col)]
    BY <2>1 DEF TableOK
  <2>3. col.name \in Names
    BY PipelineAssumption, TableDataAssumption DEF TypedColumn
  <2>4. DOMAIN insert(table.data, col.name, col) \subseteq Names
    BY <2>1, <2>3 DEF TableOK, insert
  <2>5. TableOK(table', DOMAIN snapshots')
    BY <1>1, <2>1, <2>2, <2>4 DEF TableOK
  <2> QED
    BY <1>4, <1>7, <2>5 DEF TypeInv, add_target
<1>8. ASSUME NEW features \in FeatureColumns, NEW target \in Names,
             NEW label \in ArtifactLabels, train(features, target, label)
      PROVE  TypeInv'
  <2>1. PICK t \in to_tensor(table.data, features, target) :
          /\ t.result = "Ok"
          /\ files' = insert(files, file_name(table.id, label),
                             ModelArtifact(table.id, label, features, t.x))
    BY <1>8 DEF train
  <2>2. table # NoTable /\ label_error(label) = "None" /\ table' = table
    BY <1>8 DEF train
  <2> DEFINE m == ModelArtifact(table.id, label, features, t.x)
             new == file_name(table.id, label)
  <2>3. FileOK(new, m, DOMAIN snapshots)
    <3>1. \A i \in DOMAIN t.x : Len(t.x[i]) = architecture(features).in_features
      BY <2>1, PipelineAssumption, ExampleWidths DEF architecture
    <3>2. table.id \in DOMAIN snapshots
      BY <2>2 DEF TypeInv, TableOK
    <3> QED
      BY <2>2, <3>1, <3>2 DEF FileOK, ModelArtifact, file_name
  <2> HIDE DEF m, new
  <2>4. \A f \in DOMAIN files' : FileOK(f, files'[f], DOMAIN snapshots)
    BY <2>1, <2>3 DEF m, new, insert, TypeInv
  <2> QED
    BY <1>2, <1>3, <2>2, <2>4 DEF TypeInv
<1> QED
  BY <1>5, <1>6, <1>7, <1>8 DEF PipelineNext, StoreStep, pipelineVars

LEMMA TypeInvariance == PipelineSpec => []TypeInv
<1>1. PipelineInit => TypeInv
  BY DEF PipelineInit, TypeInv
<1>2. IInv /\ Pinned /\ TypeInv /\ [PipelineNext]_pipelineVars => TypeInv'
  BY TypeStep
<1> QED
  BY <1>1, <1>2, StoreInvariance, PTL DEF PipelineSpec

\* Types, of the variables and of what the calls return: an artifact is filed
\* under its own snapshot and label, and has the shape of its examples.
THEOREM PipelineTypes == PipelineSpec => []PipelineTypeOK
<1>1. IInv /\ Pinned /\ TypeInv => PipelineTypeOK
  <2> SUFFICES ASSUME IInv, Pinned, TypeInv PROVE PipelineTypeOK
    OBVIOUS
  <2>1. TypeOK
    BY DEF IInv
  <2>2. table # NoTable => table.id \in DOMAIN snapshots /\ DOMAIN table.data \subseteq Names
    BY DEF TypeInv, TableOK
  <2>3. ASSUME NEW id \in DOMAIN snapshots, NEW t \in reconstruct_table(id)
        PROVE  t.error \in FeatureStoreError \cup {"None"}
    BY RebuiltTables DEF Loaded, FeatureStoreError
  <2>4. ASSUME NEW n \in Names, NEW threshold \in Thresholds
        PROVE  detect_drift(n, 1, 2, threshold)
                 \subseteq FeatureStoreError \cup {"drifted", "stable"}
    BY DEF detect_drift, drift_of, compare, Answer, FeatureStoreError
  <2>5. ASSUME NEW f \in DOMAIN files
        PROVE  /\ f = <<files[f].snapshot_id, files[f].label>>
               /\ files[f].snapshot_id \in DOMAIN snapshots
               /\ label_error(files[f].label) = "None"
               /\ \A i \in DOMAIN files[f].x :
                    Len(files[f].x[i]) = files[f].architecture.in_features
    BY DEF TypeInv, FileOK
  <2>6. ASSUME NEW f \in DOMAIN files, NEW r \in run_inference_from_snapshot(files[f], f[1])
        PROVE  r.result \in InferenceResults
    BY DEF run_inference_from_snapshot, run, Failed, Predicted, InferenceResults
  <2> QED
    BY <2>1, <2>2, <2>3, <2>4, <2>5, <2>6 DEF PipelineTypeOK
<1> QED
  BY <1>1, StoreInvariance, TypeInvariance, PTL


-----------------------------------------------------------------------------
(* From training to serving.                                                 *)

\* No column is committed or added without a row.
NoEmptyColumns == \A d \in Offered \cup Targets : d.variant # "Raw" => d.rows # 0

\* Training is asked for at least one feature.
NoEmptyModel == <<>> \notin FeatureColumns

\* The j-th column of the list of in the histories h, and the names of the list.
Fixed(of, j, h) == h[of[j][1]][of[j][2]]
NamesOf(of) == [i \in DOMAIN of |-> of[i][1]]

\* A table with cells and rows in every column.
Filled(d) == Sound(d) /\ \A n \in DOMAIN d : d[n].rows # 0

\* The columns d hold those of the list of.
Holds(d, of, h) ==
  \A j \in 1..Len(of) : of[j][1] \in DOMAIN d /\ d[of[j][1]] = Fixed(of, j, h)

\* The examples x that the list of makes in rc rows: every feature is a column
\* of rc numbers.
FixedRows(of, h, rc) ==
  [r \in 1..rc |-> [c \in 1..Len(of) |-> as_f32[Fixed(of, c, h).cells[r]]]]
MadeOf(x, of, h, rc) ==
  /\ rc \in Nat
  /\ \A j \in 1..Len(of) :
       /\ Fixed(of, j, h).variant \in Numeric /\ missing_count(Fixed(of, j, h)) <= 0
       /\ Fixed(of, j, h).rows = rc
  /\ x = FixedRows(of, h, rc)

\* What is known of the table and of the models trained on all features of
\* their snapshot, in terms of what was committed.
TableServes(t, snaps, h) ==
  t # NoTable =>
    Filled(t.data) /\ Holds(t.data, snaps[t.id].ordered_features, h)
ModelServes(m, snaps, h) ==
  LET of == snaps[m.snapshot_id].ordered_features
  IN  m.features = NamesOf(of) => \E rc : MadeOf(m.x, of, h, rc)

ServeInv ==
  /\ Filed
  /\ TableServes(table, snapshots, history)
  /\ \A f \in DOMAIN files : ModelServes(files[f], snapshots, history)

\* What a list pins stays what it is.
LEMMA FixedKept ==
  ASSUME IInv, [Next]_vars, NEW of, PinsCommits(of, history)
  PROVE  \A j \in 1..Len(of) : Fixed(of, j, history') = Fixed(of, j, history)
<1> SUFFICES ASSUME NEW j \in 1..Len(of)
             PROVE  Fixed(of, j, history') = Fixed(of, j, history)
  OBVIOUS
<1>1. of[j] \in Names \X Nat
  BY ElementOfSeq DEF PinsCommits
<1>2. of[j][1] \in Names /\ of[j][2] \in 1..Len(history[of[j][1]])
  BY <1>1 DEF PinsCommits
<1> QED
  BY <1>2, HistoryGrows DEF Fixed

LEMMA KeptExamples ==
  ASSUME NEW of, NEW h, NEW g,
         \A j \in 1..Len(of) : Fixed(of, j, g) = Fixed(of, j, h)
  PROVE  /\ \A d : Holds(d, of, h) => Holds(d, of, g)
         /\ \A x, rc : MadeOf(x, of, h, rc) => MadeOf(x, of, g, rc)
<1>1. ASSUME NEW rc PROVE FixedRows(of, g, rc) = FixedRows(of, h, rc)
  BY DEF FixedRows
<1> QED
  BY <1>1 DEF Holds, MadeOf

\* A rebuilt table is filled and holds what its snapshot pins.
LEMMA RebuiltFilled ==
  ASSUME NoEmptyColumns, IInv, Pinned,
         NEW id \in DOMAIN snapshots, NEW t \in reconstruct_table(id), t.error = "None"
  PROVE  LET of == snapshots[id].ordered_features
         IN  /\ Filled(t.data) /\ Holds(t.data, of, history)
             /\ DOMAIN t.data = {of[j][1] : j \in 1..Len(of)}
<1> DEFINE of == snapshots[id].ordered_features
           N == Len(of)
<1>1. /\ Loaded(t, of, N) /\ N \in Nat
      /\ of \in Seq(Names \X Nat) /\ PinsCommits(of, history)
  BY RebuiltTables DEF Pinned, PinsCommits
<1> HIDE DEF of, N
<1>2. \A d \in Typed : /\ d.rows # 0 /\ d.rows = Len(d.cells)
                       /\ d.cells \in Seq(CellValues)
  BY PipelineAssumption, FeatureStoreAssumption, CellDataAssumption
     DEF NoEmptyColumns, Typed, CellValues, ColumnData, TypedColumn, RawColumn
<1>3. \A j \in 1..N : Meant(of, j) \in Typed
  <2> SUFFICES ASSUME NEW j \in 1..N PROVE Meant(of, j) \in Typed
    OBVIOUS
  <2>1. of[j] \in Names \X Nat
    BY <1>1, ElementOfSeq DEF N
  <2>2. of[j][1] \in Names /\ of[j][2] \in 1..Len(history[of[j][1]])
    BY <1>1, <2>1 DEF PinsCommits, N
  <2>3. history[of[j][1]] \in Seq(Typed)
    BY <2>2 DEF IInv, TypeOK
  <2> QED
    BY <2>2, <2>3, ElementOfSeq DEF Meant
<1>4. /\ DOMAIN t.data = {of[j][1] : j \in 1..N}
      /\ \A j \in 1..N : t.data[of[j][1]] = Meant(of, j)
      /\ \A j, k \in 1..N : Meant(of, j).rows = Meant(of, k).rows
  BY <1>1, <1>2 DEF Loaded
<1>5. ASSUME NEW n \in DOMAIN t.data
      PROVE  \E j \in 1..N : t.data[n] = Meant(of, j)
  BY <1>4
<1>6. \A n \in DOMAIN t.data :
        /\ t.data[n] \in Typed /\ len(t.data[n]) \in Nat
        /\ \E j \in 1..N : t.data[n].rows = Meant(of, j).rows
  BY <1>2, <1>3, <1>5, LenProperties DEF len
<1>7. Filled(t.data)
  BY <1>2, <1>4, <1>6 DEF Filled, Sound, Upright, len
<1>8. Holds(t.data, of, history)
  BY <1>4 DEF Holds, Fixed, Meant, N
<1> QED
  BY <1>4, <1>7, <1>8 DEF of, N

\* A target that add_column takes fills its place in the table.
LEMMA TargetFills ==
  ASSUME NoEmptyColumns, NEW d, Filled(d), NEW col \in Targets,
         NEW rc \in row_count(d), ~ LengthMismatch(rc, col)
  PROVE  Filled(insert(d, col.name, col))
<1> DEFINE e == insert(d, col.name, col)
<1>1. /\ DOMAIN e = DOMAIN d \cup {col.name} /\ e[col.name] = col
      /\ \A n \in DOMAIN d : n # col.name => e[n] = d[n]
  BY DEF insert
<1>2. /\ col.rows # 0 /\ col.rows = len(col) /\ len(col) \in Nat
      /\ col.cells \in Seq(CellValues)
  <2>1. col \in TypedColumn /\ col.variant # "Raw" /\ col.rows = Len(col.cells)
    BY PipelineAssumption, TableDataAssumption DEF TypedColumn
  <2>2. col.cells \in Seq(CellValues)
    BY <2>1, CellDataAssumption DEF TypedColumn, CellValues
  <2> QED
    BY <2>1, <2>2, LenProperties DEF NoEmptyColumns, len
<1>3. \A n \in DOMAIN d : /\ d[n].rows # 0 /\ d[n].rows = len(d[n])
                          /\ len(d[n]) \in Nat /\ len(d[n]) = rc
                          /\ d[n].cells \in Seq(CellValues)
  BY RowCountOf DEF Filled, Sound, Upright
<1>4. \A n \in DOMAIN d : d[n].rows = col.rows
  BY <1>3 DEF LengthMismatch
<1> HIDE DEF e
<1>5. \A n \in DOMAIN e : /\ e[n].rows # 0 /\ e[n].rows = len(e[n])
                          /\ len(e[n]) \in Nat /\ e[n].rows = col.rows
                          /\ e[n].cells \in Seq(CellValues)
  BY <1>1, <1>2, <1>3, <1>4
<1>6. Filled(e)
  BY <1>5 DEF Filled, Sound, Upright
<1> QED
  BY <1>6 DEF e

\* Training on all features of the list gives a model made of them.
LEMMA TrainedOnList ==
  ASSUME NEW d, Filled(d), NEW of, NEW h, of \in Seq(Names \X Nat), Holds(d, of, h),
         NEW y \in Names, NEW t \in to_tensor(d, NamesOf(of), y), t.result = "Ok"
  PROVE  \E rc : MadeOf(t.x, of, h, rc)
<1> DEFINE fs == NamesOf(of)
           N == Len(of)
<1>1. N \in Nat /\ DOMAIN of = 1..N /\ \A i \in 1..N : of[i][1] \in Names
  <2>1. \A i \in 1..N : of[i] \in Names \X Nat
    BY ElementOfSeq
  <2> QED
    BY <2>1, LenProperties
<1>2. fs \in Seq(Names) /\ Len(fs) = N /\ \A i \in 1..N : fs[i] = of[i][1]
  <2>1. fs = [i \in 1..N |-> of[i][1]]
    BY <1>1 DEF NamesOf
  <2> HIDE DEF fs, N
  <2> QED
    BY <1>1, <2>1
<1>3. PICK rc : rc \in row_count(d)
  BY DEF row_count
<1> HIDE DEF fs, N
<1>4. /\ rc \in Nat /\ \A n \in DOMAIN d : len(d[n]) = rc
      /\ t = Tensor(RowsOf(d, fs, rc), TargetsOf(d, y, rc))
      /\ \A i \in 1..Len(fs) : Usable(d, fs[i])
  <2>1. Sound(d) /\ t \in to_tensor(d, fs, y)
    BY DEF Filled, fs
  <2> QED
    BY <2>1, <1>2, <1>3, SoundTensors
<1>5. t.x = RowsOf(d, fs, rc)
  BY <1>4 DEF Tensor
<1>6. \A j \in 1..N : fs[j] \in DOMAIN d /\ d[fs[j]] = Fixed(of, j, h)
  BY <1>2 DEF Holds, N
<1>7. \A j \in 1..N : /\ Fixed(of, j, h).variant \in Numeric
                      /\ missing_count(Fixed(of, j, h)) <= 0
                      /\ Fixed(of, j, h).rows = rc
  BY <1>2, <1>4, <1>6 DEF Usable, Filled, Sound, Upright
<1>8. RowsOf(d, fs, rc) = FixedRows(of, h, rc)
  BY <1>2, <1>6 DEF RowsOf, FixedRows, N
<1>9. MadeOf(t.x, of, h, rc)
  BY <1>4, <1>5, <1>7, <1>8 DEF MadeOf, N
<1> QED
  BY <1>9

\* Later commits and snapshots leave both as they are.
LEMMA StoreKeepsServing ==
  ASSUME IInv, Pinned, TypeInv, Filed, [Next]_vars
  PROVE  /\ \A t : /\ t # NoTable => TableOK(t, DOMAIN snapshots)
                   /\ TableServes(t, snapshots, history)
                   => TableServes(t, snapshots', history')
         /\ \A m : /\ m.snapshot_id \in DOMAIN snapshots
                   /\ ModelServes(m, snapshots, history)
                   => ModelServes(m, snapshots', history')
<1>1. ASSUME NEW id \in DOMAIN snapshots
      PROVE  /\ snapshots'[id].ordered_features = snapshots[id].ordered_features
             /\ \A d : Holds(d, snapshots[id].ordered_features, history) =>
                      Holds(d, snapshots[id].ordered_features, history')
             /\ \A x, rc : MadeOf(x, snapshots[id].ordered_features, history, rc) =>
                          MadeOf(x, snapshots[id].ordered_features, history', rc)
  <2> DEFINE of == snapshots[id].ordered_features
  <2>1. snapshots'[id].ordered_features = of
    BY FiledStep
  <2>2. PinsCommits(of, history)
    BY DEF Pinned
  <2> HIDE DEF of
  <2>3. \A j \in 1..Len(of) : Fixed(of, j, history') = Fixed(of, j, history)
    BY <2>2, FixedKept
  <2>4. /\ \A d : Holds(d, of, history) => Holds(d, of, history')
        /\ \A x, rc : MadeOf(x, of, history, rc) => MadeOf(x, of, history', rc)
    BY <2>3, KeptExamples
  <2> QED
    BY <2>1, <2>4 DEF of
<1>2. ASSUME NEW t, t # NoTable => TableOK(t, DOMAIN snapshots),
             TableServes(t, snapshots, history)
      PROVE  TableServes(t, snapshots', history')
  BY <1>1, <1>2 DEF TableOK, TableServes
<1>3. ASSUME NEW m, m.snapshot_id \in DOMAIN snapshots,
             ModelServes(m, snapshots, history)
      PROVE  ModelServes(m, snapshots', history')
  BY <1>1, <1>3 DEF ModelServes
<1> QED
  BY <1>2, <1>3

LEMMA ServeStep ==
  ASSUME NoEmptyColumns, IInv, Pinned, TypeInv, ServeInv,
         [PipelineNext]_pipelineVars
  PROVE  ServeInv'
<1>1. [Next]_vars
  BY StoreSteps
<1>2. Filed'
  BY <1>1, FiledStep DEF ServeInv
<1>3. ASSUME UNCHANGED table PROVE TableServes(table', snapshots', history')
  BY <1>1, <1>3, StoreKeepsServing DEF ServeInv, TypeInv
<1>4. \A f \in DOMAIN files : ModelServes(files[f], snapshots', history')
  BY <1>1, StoreKeepsServing DEF ServeInv, TypeInv, FileOK
<1>5. CASE UNCHANGED <<table, files>>
  BY <1>2, <1>3, <1>4, <1>5 DEF ServeInv
<1>6. ASSUME NEW id \in DOMAIN snapshots, rebuild(id) PROVE ServeInv'
  <2>1. PICK t \in reconstruct_table(id) :
          t.error = "None" /\ table' = [id |-> id, data |-> t.data]
    BY <1>6 DEF rebuild
  <2>2. UNCHANGED <<snapshots, history, files>>
    BY <1>6 DEF rebuild, vars
  <2>3. Filled(t.data) /\ Holds(t.data, snapshots[id].ordered_features, history)
    BY <2>1, RebuiltFilled
  <2>4. TableServes(table', snapshots', history')
    BY <2>1, <2>2, <2>3 DEF TableServes
  <2> QED
    BY <1>2, <1>4, <2>2, <2>4 DEF ServeInv
<1>7. ASSUME NEW col \in Targets, add_target(col) PROVE ServeInv'
  <2> DEFINE d == table.data
             e == insert(d, col.name, col)
             of == snapshots[table.id].ordered_features
  <2>1. /\ table # NoTable /\ table = [id |-> table.id, data |-> table.data]
        /\ Filled(d) /\ Holds(d, of, history)
    BY <1>7 DEF add_target, TypeInv, TableOK, ServeInv, TableServes
  <2>2. /\ table' = [table EXCEPT !.data = insert(@, col.name, col)]
        /\ col.name \notin DOMAIN d
        /\ \E rc \in row_count(d) : ~ LengthMismatch(rc, col)
        /\ UNCHANGED <<snapshots, history, files>>
    BY <1>7 DEF add_target, vars
  <2>3. table' = [id |-> table.id, data |-> e]
    BY <2>1, <2>2
  <2> HIDE DEF of
  <2>4. Filled(e)
    BY <2>1, <2>2, TargetFills
  <2>5. Holds(e, of, history)
    BY <2>1, <2>2 DEF Holds, insert
  <2>6. TableServes(table', snapshots', history')
    BY <2>2, <2>3, <2>4, <2>5 DEF TableServes, of
  <2> QED
    BY <1>2, <1>4, <2>2, <2>6 DEF ServeInv
<1>8. ASSUME NEW features \in FeatureColumns, NEW target \in Names,
             NEW label \in ArtifactLabels, train(features, target, label)
      PROVE  ServeInv'
  <2>1. PICK t \in to_tensor(table.data, features, target) :
          /\ t.result = "Ok"
          /\ files' = insert(files, file_name(table.id, label),
                             ModelArtifact(table.id, label, features, t.x))
    BY <1>8 DEF train
  <2>2. table # NoTable /\ UNCHANGED <<table, snapshots, history>>
    BY <1>8 DEF train, vars
  <2> DEFINE m == ModelArtifact(table.id, label, features, t.x)
             new == file_name(table.id, label)
             of == snapshots[table.id].ordered_features
  <2>3. /\ m.snapshot_id = table.id /\ m.features = features /\ m.x = t.x
    BY DEF ModelArtifact
  <2>4. Filled(table.data) /\ Holds(table.data, of, history)
    BY <2>2 DEF ServeInv, TableServes
  <2>5. of \in Seq(Names \X Nat)
    BY <2>2 DEF TypeInv, TableOK, Pinned, PinsCommits
  <2> HIDE DEF m, of, new
  <2>6. features = NamesOf(of) => \E rc : MadeOf(t.x, of, history, rc)
    BY <2>1, <2>4, <2>5, TrainedOnList
  <2>7. ModelServes(m, snapshots', history')
    BY <2>2, <2>3, <2>6 DEF ModelServes, of
  <2>8. files' = insert(files, new, m)
    BY <2>1 DEF new, m
  <2>9. \A f \in DOMAIN files' : ModelServes(files'[f], snapshots', history')
    BY <1>4, <2>7, <2>8 DEF insert
  <2> QED
    BY <1>2, <1>3, <2>2, <2>9 DEF ServeInv
<1> QED
  BY <1>5, <1>6, <1>7, <1>8 DEF PipelineNext, StoreStep, pipelineVars

LEMMA ServeInvariance ==
  ASSUME NoEmptyColumns
  PROVE  PipelineSpec => []ServeInv
<1>1. PipelineInit => ServeInv
  BY DEF PipelineInit, Init, ServeInv, Filed, TableServes
<1>2. IInv /\ Pinned /\ TypeInv /\ ServeInv /\ [PipelineNext]_pipelineVars => ServeInv'
  BY ServeStep
<1> QED
  BY <1>1, <1>2, StoreInvariance, TypeInvariance, PTL DEF PipelineSpec

\* What is known of a model that was trained on all features of its snapshot.
ServedModel(m, id) ==
  LET of == snapshots[id].ordered_features
      names == NamesOf(of)
  IN  /\ id \in DOMAIN snapshots
      /\ PinsCommits(of, history) /\ of \in Seq(Names \X Nat)
      /\ Len(of) \in Nat /\ DOMAIN of = 1..Len(of)
      /\ names \in Seq(Names) /\ names \in FeatureColumns
      /\ Len(names) = Len(of) /\ DOMAIN names = 1..Len(of)
      /\ \A i \in 1..Len(of) : names[i] = of[i][1]
      /\ m.architecture.in_features = Len(of)
      /\ Recorded(id) = names /\ \A d : feature_columns(id, d) = names
      /\ \E rc : MadeOf(m.x, of, history, rc)

LEMMA TrainedModel ==
  ASSUME Pinned, TypeInv, ServeInv, NEW f \in TrainedAsRecorded
  PROVE  ServedModel(files[f], f[1])
<1> DEFINE m == files[f]
           id == f[1]
           of == snapshots[id].ordered_features
           N == Len(of)
           names == NamesOf(of)
<1>1. f \in DOMAIN files /\ m.features = Recorded(id)
  BY DEF TrainedAsRecorded
<1>2. FileOK(f, m, DOMAIN snapshots)
  BY <1>1 DEF TypeInv
<1>3. id = m.snapshot_id /\ id \in DOMAIN snapshots
  BY <1>2 DEF FileOK
<1>4. Recorded(id) = names /\ \A d : feature_columns(id, d) = names
  BY DEF Recorded, feature_columns, NamesOf
<1>5. ModelServes(m, snapshots, history)
  BY <1>1 DEF ServeInv
<1>6. \E rc : MadeOf(m.x, of, history, rc)
  BY <1>1, <1>3, <1>4, <1>5 DEF ModelServes
<1>7. PinsCommits(of, history) /\ of \in Seq(Names \X Nat)
  BY <1>3 DEF Pinned, PinsCommits
<1>8. N \in Nat /\ DOMAIN of = 1..N
  BY <1>7, LenProperties
<1>9. names = [i \in 1..N |-> of[i][1]]
  BY <1>8 DEF NamesOf
<1>10. names \in FeatureColumns /\ m.architecture = architecture(names)
  BY <1>1, <1>2, <1>4 DEF FileOK
<1>11. names \in Seq(Names)
  BY <1>10, PipelineAssumption
<1> HIDE DEF of, N, names, m, id
<1>12. Len(names) = N /\ DOMAIN names = 1..N /\ \A i \in 1..N : names[i] = of[i][1]
  BY <1>8, <1>9, <1>11, LenProperties
<1>13. m.architecture.in_features = N
  BY <1>10, <1>12 DEF architecture
<1> QED
  BY <1>3, <1>4, <1>6, <1>7, <1>8, <1>10, <1>11, <1>12, <1>13
     DEF ServedModel, m, id, of, N, names

\* The rebuilt table gives back the examples.
LEMMA ServedRows ==
  ASSUME NEW d, Filled(d), NEW of, NEW h, NEW x, NEW rc,
         of \in Seq(Names \X Nat), Len(of) \in Nat, Len(of) # 0,
         DOMAIN d = {of[j][1] : j \in 1..Len(of)},
         Holds(d, of, h), MadeOf(x, of, h, rc),
         NEW names \in Seq(Names), Len(names) = Len(of),
         \A i \in 1..Len(of) : names[i] = of[i][1]
  PROVE  to_feature_tensor(d, names) = {Tensor(x, <<>>)}
<1> DEFINE N == Len(of)
<1>1. \A j \in 1..N : names[j] \in DOMAIN d /\ d[names[j]] = Fixed(of, j, h)
  BY DEF Holds
<1>2. \A i \in 1..Len(names) : Usable(d, names[i])
  BY <1>1 DEF Usable, MadeOf
<1>3. Upright(d) /\ \A n \in DOMAIN d : missing_count(d[n]) \in Nat
  BY MissingCount DEF Filled, Sound
<1>4. rc \in row_count(d)
  <2>1. 1 \in 1..N
    OBVIOUS
  <2>2. names[1] \in DOMAIN d /\ d[names[1]].rows = rc
    BY <1>1, <2>1 DEF MadeOf
  <2> QED
    BY <2>2 DEF row_count
<1>5. RowsOf(d, names, rc) = x
  <2>1. RowsOf(d, names, rc) = FixedRows(of, h, rc)
    BY <1>1 DEF RowsOf, FixedRows
  <2> QED
    BY <2>1 DEF MadeOf
<1> QED
  BY <1>2, <1>3, <1>4, <1>5, FeatureTensor

\* A model trained on all features of its snapshot is run on the very numbers
\* it was trained on, every feature in its place, whatever was committed since;
\* when it is not, that is because a version of its snapshot was pruned.
THEOREM ServesAsTrained ==
  ASSUME NoEmptyColumns, NoEmptyModel
  PROVE  PipelineSpec => []ServedAsTrained
<1>1. IInv /\ Pinned /\ TypeInv /\ ServeInv => ServedAsTrained
  <2> SUFFICES ASSUME IInv, Pinned, TypeInv, ServeInv, NEW f \in TrainedAsRecorded,
                      NEW r \in run_inference_from_snapshot(files[f], f[1])
               PROVE  IF r.result = "Ok" THEN r.x = files[f].x
                      ELSE /\ r.result = "TableReconstructionFailed"
                           /\ \E p \in ToSet(snapshots[f[1]].ordered_features) :
                                get_version(p[1], p[2]) = NotFound
    BY DEF ServedAsTrained
  <2> DEFINE m == files[f]
             id == f[1]
             of == snapshots[id].ordered_features
             names == NamesOf(of)
  <2>1. ServedModel(m, id)
    BY TrainedModel
  <2>2. /\ id \in DOMAIN snapshots /\ of \in Seq(Names \X Nat)
        /\ Len(of) \in Nat /\ DOMAIN of = 1..Len(of)
        /\ names \in Seq(Names) /\ names \in FeatureColumns
        /\ Len(names) = Len(of) /\ \A i \in 1..Len(of) : names[i] = of[i][1]
        /\ m.architecture.in_features = Len(of)
        /\ \A d : feature_columns(id, d) = names
        /\ \E rc : MadeOf(m.x, of, history, rc)
    BY <2>1 DEF ServedModel
  <2>3. Len(of) # 0
    BY <2>2 DEF NoEmptyModel
  <2>4. PICK rc : MadeOf(m.x, of, history, rc)
    BY <2>2
  <2>5. PICK t \in reconstruct_table(id) :
          r \in IF t.error # "None" THEN {Failed("TableReconstructionFailed")}
                ELSE LET ns == feature_columns(id, t.data)
                     IN {IF x.result # "Ok" THEN Failed("FeatureTensorFailed")
                         ELSE run(m, Len(ns), x.x) : x \in to_feature_tensor(t.data, ns)}
    BY DEF run_inference_from_snapshot
  <2>6. Loaded(t, of, Len(of))
    BY <2>2, RebuiltTables
  <2>7. CASE t.error = "None"
    <3>1. /\ Filled(t.data) /\ Holds(t.data, of, history)
          /\ DOMAIN t.data = {of[j][1] : j \in 1..Len(of)}
      BY <2>2, <2>7, RebuiltFilled
    <3> HIDE DEF m, id, of, names
    <3>2. to_feature_tensor(t.data, names) = {Tensor(m.x, <<>>)}
      BY <2>2, <2>3, <2>4, <3>1, ServedRows
    <3>3. r = run(m, Len(names), m.x)
      BY <2>2, <2>5, <2>7, <3>2 DEF Tensor
    <3>4. r = Predicted(m.x)
      BY <2>2, <3>3 DEF run
    <3> QED
      BY <3>4 DEF Predicted, m
  <2>8. CASE t.error # "None"
    <3>1. r.result = "TableReconstructionFailed"
      BY <2>5, <2>8 DEF Failed
    <3>2. t.error # "TableBuildFailed"
      <4>1. \A j \in 1..Len(of) : Meant(of, j).rows = rc
        BY <2>4 DEF MadeOf, Fixed, Meant
      <4> HIDE DEF of
      <4> QED
        BY <2>6, <4>1 DEF Loaded
    <3>3. t.error = "VersionNotFound"
      BY <2>6, <2>8, <3>2 DEF Loaded
    <3>4. PICK j \in 1..Len(of) : get_version(of[j][1], of[j][2]) = NotFound
      BY <2>6, <3>3 DEF Loaded
    <3>5. of[j] \in ToSet(of)
      BY <2>2, <3>4 DEF ToSet
    <3> QED
      BY <3>1, <3>4, <3>5
  <2> QED
    BY <2>7, <2>8
<1> QED
  BY <1>1, StoreInvariance, TypeInvariance, ServeInvariance, PTL

\* There are as many names as places when none is listed twice.
LEMMA NamesCounted ==
  ASSUME NEW N \in Nat, NEW D, NEW e \in [1..N -> D],
         \A i, j \in 1..N : e[i] = e[j] => i = j,
         \A y \in D : \E i \in 1..N : e[i] = y
  PROVE  IsFiniteSet(D) /\ Cardinality(D) = N
<1>1. IsFiniteSet(1..N) /\ Cardinality(1..N) = N
  BY FS_Interval, 1 \in Int, N \in Int
<1>2. e \in Bijection(1..N, D)
  BY DEF Bijection, Injection, Surjection, IsInjective
<1>3. ExistsBijection(1..N, D)
  BY <1>2 DEF ExistsBijection
<1> QED
  BY <1>1, <1>3, FS_Bijection

LEMMA NamesListed ==
  ASSUME NEW N \in Nat, NEW names, names \in Seq(Names),
         Len(names) = N, DOMAIN names = 1..N,
         \A i, j \in 1..N : names[i] = names[j] => i = j
  PROVE  Cardinality(ToSet(names)) = N
<1> DEFINE D == ToSet(names)
<1>1. names \in [1..N -> D] /\ \A y \in D : \E i \in 1..N : names[i] = y
  BY DEF ToSet
<1> HIDE DEF D
<1>2. Cardinality(D) = N
  BY <1>1, NamesCounted
<1> QED
  BY <1>2 DEF D

\* A matrix of one row is that row.
LEMMA OneRow ==
  ASSUME NEW N \in Nat, NEW S, NEW v \in [1..N -> S]
  PROVE  from_vec(v, 1, N) = <<v>>
<1>1. ASSUME NEW r \in 1..1 PROVE [c \in 1..N |-> v[(r - 1) * N + c]] = v
  <2>1. r = 1
    OBVIOUS
  <2>2. \A c \in 1..N : (r - 1) * N + c = c
    BY <2>1
  <2> QED
    BY <2>2
<1> DEFINE m == from_vec(v, 1, N)
<1>2. m = [r \in 1..1 |-> v]
  BY <1>1 DEF from_vec
<1> HIDE DEF m
<1>3. m = <<v>>
  BY <1>2
<1> QED
  BY <1>3 DEF m

\* A map with other keys than the names, on which no model is run.
LEMMA OtherKeysRefused ==
  ASSUME NEW m, NEW names, NEW N \in Nat, Len(names) = N, DOMAIN names = 1..N,
         \A i, j \in 1..N : names[i] = names[j] => i = j, names \in Seq(Names),
         NEW values, IsFiniteSet(DOMAIN values), DOMAIN values # ToSet(names)
  PROVE  run_inference_from_values(m, names, values).result
           \in {"MissingFeature", "UnexpectedFeature"}
<1> DEFINE D == ToSet(names)
           V == DOMAIN values
<1>2. Cardinality(D) = N
  BY NamesListed
<1> HIDE DEF D, V
<1>3. CASE ~ (D \subseteq V)
  BY <1>3 DEF run_inference_from_values, Failed, D, V
<1>4. CASE D \subseteq V
  <2>1. Cardinality(V) # N
    <3>1. IsFiniteSet(V) /\ V # D /\ D \in SUBSET V
      BY <1>4 DEF V, D
    <3> QED
      BY <1>2, <3>1, FS_Subset
  <2> QED
    BY <1>4, <2>1 DEF run_inference_from_values, Failed, D, V
<1> QED
  BY <1>3, <1>4

\* A row of the rebuilt table, given by the names of its columns.
OnlyOf(d, of) == DOMAIN d = {of[j][1] : j \in 1..Len(of)}
RowAt(cell, d, i) == cell = [n \in DOMAIN d |-> d[n].cells[i]]

LEMMA LiveRow ==
  ASSUME NEW d, NEW of, NEW h, NEW x, NEW rc, NEW N \in Nat,
         N = Len(of), OnlyOf(d, of), Holds(d, of, h), MadeOf(x, of, h, rc),
         \A i, j \in 1..N : of[i][1] = of[j][1] => i = j,
         NEW names \in Seq(Names), Len(names) = N, DOMAIN names = 1..N,
         \A i \in 1..N : names[i] = of[i][1],
         NEW m, m.architecture.in_features = N,
         NEW i \in DOMAIN x,
         NEW cell, RowAt(cell, d, i)
  PROVE  /\ DOMAIN cell = ToSet(names)
         /\ run_inference_from_values(m, names, cell) = Predicted(<<x[i]>>)
<1>1. DOMAIN cell = ToSet(names) /\ DOMAIN cell = DOMAIN d
  <2>1. DOMAIN cell = DOMAIN d
    BY DEF RowAt
  <2>2. \A n : n \in DOMAIN d <=> \E j \in 1..N : n = of[j][1]
    BY DEF OnlyOf
  <2>3. \A n : n \in ToSet(names) <=> \E j \in 1..N : n = names[j]
    BY DEF ToSet
  <2>4. \A n : n \in DOMAIN d <=> n \in ToSet(names)
    BY <2>2, <2>3
  <2>5. DOMAIN d = ToSet(names)
    BY <2>4, Zenon
  <2> QED
    BY <2>1, <2>5
<1>2. \A c \in 1..N : names[c] \in DOMAIN d /\ cell[names[c]] = Fixed(of, c, h).cells[i]
  BY DEF Holds, RowAt
<1>3. Cardinality(DOMAIN cell) = N
  <2>1. \A j, k \in 1..N : names[j] = names[k] => j = k
    OBVIOUS
  <2>2. Cardinality(ToSet(names)) = N
    BY <2>1, NamesListed
  <2> QED
    BY <1>1, <2>2
<1> DEFINE v == row(names, cell)
<1>4. v = [c \in 1..N |-> as_f32[Fixed(of, c, h).cells[i]]]
  BY <1>2 DEF row
<1>5. x[i] = [c \in 1..N |-> as_f32[Fixed(of, c, h).cells[i]]]
  BY DEF MadeOf, FixedRows
<1>6. \E S : v \in [1..N -> S]
  <2> DEFINE e(c) == as_f32[Fixed(of, c, h).cells[i]]
             S == {e(c) : c \in 1..N}
  <2>1. v = [c \in 1..N |-> e(c)]
    BY <1>4
  <2> HIDE DEF e, v
  <2>2. v \in [1..N -> S]
    BY <2>1
  <2> QED
    BY <2>2
<1>7. v = x[i]
  BY <1>4, <1>5
<1> HIDE DEF v
<1>8. from_vec(v, 1, N) = <<v>>
  BY <1>6, OneRow
<1> QED
  BY <1>1, <1>3, <1>7, <1>8 DEF run_inference_from_values, run, v

\* Live values are read by name: those of a row of the snapshot's table are run
\* as that row of the batch is, in whatever order their map has them, and a map
\* with other names than the model's is refused.
THEOREM LiveAsBatch ==
  ASSUME NoEmptyColumns
  PROVE  PipelineSpec => []LiveMatchesBatch
<1>1. IInv /\ Pinned /\ TypeInv /\ ServeInv => LiveMatchesBatch
  <2> SUFFICES ASSUME IInv, Pinned, TypeInv, ServeInv, NEW f \in TrainedAsRecorded,
                      NEW t \in reconstruct_table(f[1]), t.error = "None",
                      NEW i \in DOMAIN files[f].x
               PROVE  LET cell == [n \in DOMAIN t.data |-> t.data[n].cells[i]]
                      IN /\ run_inference_from_values(files[f], Recorded(f[1]), cell)
                              = Predicted(<<files[f].x[i]>>)
                         /\ \A V \in {W \in SUBSET Names : IsFiniteSet(W)} \ {DOMAIN cell} :
                              run_inference_from_values(files[f], Recorded(f[1]),
                                  [n \in V |-> IF n \in DOMAIN cell THEN cell[n] ELSE 0]).result
                                \in {"MissingFeature", "UnexpectedFeature"}
    BY Zenon DEF LiveMatchesBatch
  <2> DEFINE cell == [n \in DOMAIN t.data |-> t.data[n].cells[i]]
  <2> DEFINE m == files[f]
             id == f[1]
             of == snapshots[id].ordered_features
             names == NamesOf(of)
             N == Len(of)
  <2>1. ServedModel(m, id)
    BY TrainedModel
  <2>2. /\ id \in DOMAIN snapshots /\ PinsCommits(of, history) /\ N \in Nat
        /\ names \in Seq(Names) /\ Len(names) = N /\ DOMAIN names = 1..N
        /\ \A j \in 1..N : names[j] = of[j][1]
        /\ m.architecture.in_features = N /\ Recorded(id) = names
        /\ \E rc : MadeOf(m.x, of, history, rc)
    BY <2>1 DEF ServedModel
  <2>3. PICK rc : MadeOf(m.x, of, history, rc)
    BY <2>2
  <2>4. \A j, k \in 1..N : of[j][1] = of[k][1] => j = k
    BY <2>2 DEF PinsCommits
  <2>5. Holds(t.data, of, history) /\ OnlyOf(t.data, of)
    BY <2>2, RebuiltFilled DEF OnlyOf
  <2> DEFINE d == t.data
             x == m.x
  <2>6. i \in DOMAIN x /\ RowAt(cell, d, i)
    BY DEF RowAt
  <2> HIDE DEF cell, m, of, names, N, d, x
  <2>7. /\ DOMAIN cell = ToSet(names)
        /\ run_inference_from_values(m, names, cell) = Predicted(<<x[i]>>)
    BY <2>2, <2>3, <2>4, <2>5, <2>6, LiveRow DEF N, d, x
  <2>8. ASSUME NEW V \in {W \in SUBSET Names : IsFiniteSet(W)} \ {DOMAIN cell}
        PROVE  run_inference_from_values(m, names,
                   [n \in V |-> IF n \in DOMAIN cell THEN cell[n] ELSE 0]).result
                 \in {"MissingFeature", "UnexpectedFeature"}
    <3> DEFINE values == [n \in V |-> IF n \in DOMAIN cell THEN cell[n] ELSE 0]
    <3>1. IsFiniteSet(DOMAIN values) /\ DOMAIN values # ToSet(names)
      BY <2>7
    <3>2. \A j, k \in 1..N : names[j] = names[k] => j = k
      BY <2>2, <2>4
    <3> HIDE DEF values
    <3>3. run_inference_from_values(m, names, values).result
            \in {"MissingFeature", "UnexpectedFeature"}
      BY <2>2, <3>1, <3>2, OtherKeysRefused
    <3> QED
      BY <3>3 DEF values
  <2> QED
    BY <2>2, <2>7, <2>8, Zenon DEF m, x, cell
<1> QED
  BY <1>1, StoreInvariance, TypeInvariance, ServeInvariance, PTL

==============================================================================
