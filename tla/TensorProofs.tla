----------------------------- MODULE TensorProofs -----------------------------
(***************************************************************************)
(* What the tensor functions return, for tables of any size and any list of *)
(* features: the lemmas about Tensors that Dataset and Pipeline share.      *)
(***************************************************************************)
EXTENDS Tensors, Induction, SequenceTheorems, FiniteSetTheorems, TLAPS

\* A number written in the base m has the digits it was put together from.
LEMMA RowMajor ==
  ASSUME NEW m \in Nat, NEW q \in Nat, NEW r \in 0..(m - 1)
  PROVE  (q * m + r) \div m = q /\ (q * m + r) % m = r
BY SMTT(60)

\* Row r of C columns occupies the places after those of r - 1 rows.
LEMMA PlaceInFlat ==
  ASSUME NEW C \in Nat, NEW R \in Nat, NEW r \in 1..R, NEW c \in 1..C
  PROVE  LET k == (r - 1) * C + c
         IN  k \in 1..(R * C) /\ (k - 1) \div C = r - 1 /\ ((k - 1) % C) + 1 = c
<1> DEFINE k == (r - 1) * C + c
<1>1. k \in Nat /\ k >= 1 /\ k - 1 = (r - 1) * C + (c - 1)
  OBVIOUS
<1>2. k <= R * C
  <2>1. (r - 1) * C + C = r * C
    OBVIOUS
  <2>2. r * C <= R * C
    OBVIOUS
  <2> QED
    BY <2>1, <2>2
<1>3. (k - 1) \div C = r - 1 /\ (k - 1) % C = c - 1
  <2>1. c - 1 \in 0..(C - 1) /\ r - 1 \in Nat
    OBVIOUS
  <2>2. /\ ((r - 1) * C + (c - 1)) \div C = r - 1
        /\ ((r - 1) * C + (c - 1)) % C = c - 1
    BY <2>1, RowMajor
  <2> HIDE DEF k
  <2> QED
    BY <1>1, <2>2
<1> HIDE DEF k
<1>4. k \in 1..(R * C) /\ (k - 1) \div C = r - 1 /\ ((k - 1) % C) + 1 = c
  BY <1>1, <1>2, <1>3
<1> QED
  BY <1>4 DEF k

\* The cells as the loops read them, row by row.
ReadRows(d, names, R) ==
  [r \in 1..R |-> [c \in 1..Len(names) |-> as_f32[get(d[names[c]], r - 1)]]]

\* The loops that push cell after cell and the shape that cuts the Vec again
\* put the cell of row r and column c under r and c.
LEMMA RowsOfFlat ==
  ASSUME NEW d, NEW names, Len(names) \in Nat, NEW R \in Nat
  PROVE  from_vec(flat(d, names, R), R, Len(names)) = ReadRows(d, names, R)
<1> DEFINE C == Len(names)
           v == flat(d, names, R)
<1>1. ASSUME NEW r \in 1..R, NEW c \in 1..C
      PROVE  v[(r - 1) * C + c] = as_f32[get(d[names[c]], r - 1)]
  <2> DEFINE k == (r - 1) * C + c
  <2>1. k \in 1..(R * C) /\ (k - 1) \div C = r - 1 /\ ((k - 1) % C) + 1 = c
    BY PlaceInFlat
  <2> HIDE DEF k
  <2>2. v[k] = as_f32[get(d[names[((k - 1) % C) + 1]], (k - 1) \div C)]
    BY <2>1 DEF flat
  <2>3. v[k] = as_f32[get(d[names[c]], r - 1)]
    BY <2>1, <2>2
  <2> QED
    BY <2>3 DEF k
<1> QED
  BY <1>1 DEF from_vec, ReadRows

\* The scan of the names finds no error exactly if none of them has one.
LEMMA CheckPasses ==
  ASSUME NEW d, NEW names, Len(names) \in Nat, DOMAIN names = 1..Len(names)
  PROVE  check_missing_and_type(d, names) = "None"
           <=> \A i \in 1..Len(names) : ColumnError(d, names[i]) = "None"
<1> DEFINE I == {i \in 1..Len(names) : ColumnError(d, names[i]) # "None"}
           j == IF I # {} THEN Min(I) ELSE 0
<1>1. check_missing_and_type(d, names)
        = IF j = 0 THEN "None" ELSE ColumnError(d, names[j])
  BY DEF check_missing_and_type, SelectInSeq
<1>2. I # {} => Min(I) \in I
  <2> SUFFICES ASSUME I # {} PROVE Min(I) \in I
    OBVIOUS
  <2>1. \E x \in I : \A y \in I : x <= y
    BY LeastElement, I \subseteq Nat
  <2> HIDE DEF I
  <2> QED
    BY <2>1 DEF Min
<1> HIDE DEF j
<1>3. I = {} => j = 0
  BY DEF j
<1>4. I # {} => j \in I
  BY <1>2 DEF j
<1> QED
  BY <1>1, <1>3, <1>4

\* The columns d have cells, as many as their rows say, and all as many.
Upright(d) ==
  /\ \A n \in DOMAIN d : d[n].rows = len(d[n]) /\ len(d[n]) \in Nat
  /\ \A m, n \in DOMAIN d : d[m].rows = d[n].rows

\* A column that both checks let pass: a column of numbers without a gap.
Usable(d, n) ==
  n \in DOMAIN d /\ d[n].variant \in Numeric /\ missing_count(d[n]) <= 0

LEMMA ColumnUsable ==
  ASSUME NEW d, NEW n, n \in DOMAIN d => missing_count(d[n]) \in Nat
  PROVE  ColumnError(d, n) = "None" <=> Usable(d, n)
BY DEF ColumnError, Usable

\* missing_count counts, and counts nothing exactly if no cell is missing.
LEMMA MissingCount ==
  ASSUME NEW S, NEW c, c.cells \in Seq(S)
  PROVE  /\ missing_count(c) \in Nat
         /\ missing_count(c) <= 0 <=> \A i \in 1..len(c) : c.cells[i] # Missing
<1> DEFINE gaps == {i \in 1..len(c) : c.cells[i] = Missing}
<1>1. len(c) \in Nat /\ DOMAIN c.cells = 1..len(c)
  BY LenProperties DEF len
<1>2. missing_count(c) = Cardinality(gaps)
  BY <1>1 DEF missing_count
<1>3. IsFiniteSet(gaps)
  <2>1. IsFiniteSet(1..len(c)) /\ gaps \in SUBSET (1..len(c))
    BY <1>1, FS_Interval
  <2> HIDE DEF gaps
  <2> QED
    BY <2>1, FS_Subset
<1> HIDE DEF gaps
<1>4. Cardinality(gaps) \in Nat /\ (Cardinality(gaps) = 0 <=> gaps = {})
  BY <1>3, FS_CardinalityType, FS_EmptySet
<1>5. gaps = {} <=> \A i \in 1..len(c) : c.cells[i] # Missing
  BY DEF gaps
<1> QED
  BY <1>2, <1>4, <1>5

\* The examples of the columns d in the order of the features fs: one row for
\* each row of the table, the cells in it in the order of the features.
RowsOf(d, fs, rc) ==
  [r \in 1..rc |-> [c \in 1..Len(fs) |-> as_f32[d[fs[c]].cells[r]]]]
TargetsOf(d, y, rc) == [r \in 1..rc |-> as_f32[d[y].cells[r]]]

\* When no column is short, what the loops read is what is in the columns.
LEMMA ReadCells ==
  ASSUME NEW d, NEW names, Len(names) \in Nat, DOMAIN names = 1..Len(names),
         NEW rc \in Nat, ~ Short(d, names, rc),
         \A i \in 1..Len(names) : len(d[names[i]]) \in Nat
  PROVE  from_vec(flat(d, names, rc), rc, Len(names)) = RowsOf(d, names, rc)
<1>1. ASSUME NEW r \in 1..rc, NEW c \in 1..Len(names)
      PROVE  get(d[names[c]], r - 1) = d[names[c]].cells[r]
  <2>1. ~ (len(d[names[c]]) < rc)
    BY DEF Short, ToSet
  <2> QED
    BY <2>1 DEF get
<1>2. ReadRows(d, names, rc) = RowsOf(d, names, rc)
  BY <1>1 DEF ReadRows, RowsOf
<1> QED
  BY <1>2, RowsOfFlat

\* In an upright table every row count that may be read is every column's.
LEMMA RowCountOf ==
  ASSUME NEW d, Upright(d), NEW rc \in row_count(d)
  PROVE  /\ rc \in Nat /\ row_count(d) = {rc} /\ Max(row_count(d)) = rc
         /\ \A n \in DOMAIN d : len(d[n]) = rc
<1>1. rc \in Nat /\ row_count(d) = {rc}
  BY DEF Upright, row_count
<1>2. Max({rc}) = rc
  BY <1>1 DEF Max
<1> QED
  BY <1>1, <1>2 DEF Upright, row_count

\* A list of columns that exist is never too short in an upright table.
LEMMA NeverShort ==
  ASSUME NEW d, Upright(d), NEW names, DOMAIN names = 1..Len(names),
         \A i \in 1..Len(names) : names[i] \in DOMAIN d, NEW rc \in row_count(d)
  PROVE  /\ ~ Short(d, names, rc)
         /\ \A i \in 1..Len(names) : len(d[names[i]]) = rc
<1>1. \A n \in DOMAIN d : len(d[n]) = rc /\ rc \in Nat
  BY RowCountOf
<1> QED
  BY <1>1 DEF Short, ToSet

\* to_feature_tensor on an upright table: the table's rows if every feature is
\* usable, and no table otherwise.
LEMMA FeatureTensor ==
  ASSUME NEW d, Upright(d), NEW rc \in row_count(d), NEW fs \in Seq(Names),
         \A n \in DOMAIN d : missing_count(d[n]) \in Nat
  PROVE  /\ (\A i \in 1..Len(fs) : Usable(d, fs[i])) =>
              to_feature_tensor(d, fs) = {Tensor(RowsOf(d, fs, rc), <<>>)}
         /\ ~ (\A i \in 1..Len(fs) : Usable(d, fs[i])) =>
              \A t \in to_feature_tensor(d, fs) : t.result # "Ok"
<1>1. Len(fs) \in Nat /\ DOMAIN fs = 1..Len(fs)
  BY LenProperties
<1>2. check_missing_and_type(d, fs) = "None"
        <=> \A i \in 1..Len(fs) : Usable(d, fs[i])
  BY <1>1, CheckPasses, ColumnUsable
<1>3. rc \in Nat /\ row_count(d) = {rc} /\ \A n \in DOMAIN d : len(d[n]) = rc
  BY RowCountOf
<1>4. ASSUME \A i \in 1..Len(fs) : Usable(d, fs[i])
      PROVE  to_feature_tensor(d, fs) = {Tensor(RowsOf(d, fs, rc), <<>>)}
  <2>1. \A i \in 1..Len(fs) : fs[i] \in DOMAIN d
    BY <1>4 DEF Usable
  <2>2. ~ Short(d, fs, rc) /\ \A i \in 1..Len(fs) : len(d[fs[i]]) \in Nat
    BY <1>1, <1>3, <2>1, NeverShort
  <2>3. from_vec(flat(d, fs, rc), rc, Len(fs)) = RowsOf(d, fs, rc)
    BY <1>1, <1>3, <2>2, ReadCells
  <2> QED
    BY <1>2, <1>3, <1>4, <2>2, <2>3 DEF to_feature_tensor
<1>5. ASSUME ~ (\A i \in 1..Len(fs) : Usable(d, fs[i])), NEW t \in to_feature_tensor(d, fs)
      PROVE  t.result # "Ok"
  <2>1. t = NoTensor(check_missing_and_type(d, fs))
    BY <1>2, <1>5 DEF to_feature_tensor
  <2>2. check_missing_and_type(d, fs) # "Ok"
    BY DEF check_missing_and_type, ColumnError
  <2> QED
    BY <2>1, <2>2 DEF NoTensor
<1> QED
  BY <1>4, <1>5

\* to_tensor on an upright table: the same rows, with the target's cells.
LEMMA TrainingTensor ==
  ASSUME NEW d, Upright(d), NEW rc \in row_count(d), NEW fs \in Seq(Names),
         NEW y \in Names, \A n \in DOMAIN d : missing_count(d[n]) \in Nat
  PROVE  LET Accepted == /\ y \notin ToSet(fs)
                         /\ Usable(d, y) /\ \A i \in 1..Len(fs) : Usable(d, fs[i])
         IN  /\ Accepted => to_tensor(d, fs, y)
                              = {Tensor(RowsOf(d, fs, rc), TargetsOf(d, y, rc))}
             /\ ~ Accepted => \A t \in to_tensor(d, fs, y) : t.result # "Ok"
<1> DEFINE all == Append(fs, y)
           UsableAll == Usable(d, y) /\ \A i \in 1..Len(fs) : Usable(d, fs[i])
<1>1. Len(fs) \in Nat /\ DOMAIN fs = 1..Len(fs)
  BY LenProperties
<1>2. /\ all \in Seq(Names) /\ Len(all) = Len(fs) + 1
      /\ DOMAIN all = 1..Len(all)
      /\ \A i \in 1..Len(fs) : all[i] = fs[i]
      /\ all[Len(fs) + 1] = y
  BY AppendProperties, LenProperties
<1>3. \A i \in 1..Len(all) : i \in 1..Len(fs) \/ i = Len(fs) + 1
  BY <1>1, <1>2
<1>4. check_missing_and_type(d, all) = "None" <=> UsableAll
  <2>1. check_missing_and_type(d, all) = "None"
          <=> \A i \in 1..Len(all) : Usable(d, all[i])
    <3> HIDE DEF all
    <3>1. Len(all) \in Nat
      BY <1>1, <1>2
    <3> QED
      BY <3>1, <1>2, CheckPasses, ColumnUsable
  <2> QED
    BY <2>1, <1>1, <1>2, <1>3
<1>5. rc \in Nat /\ row_count(d) = {rc} /\ \A n \in DOMAIN d : len(d[n]) = rc
  BY RowCountOf
<1>6. to_tensor(d, fs, y) =
        IF y \in ToSet(fs) THEN {NoTensor("TargetColumnInFeatures")}
        ELSE IF check_missing_and_type(d, all) # "None"
          THEN {NoTensor(check_missing_and_type(d, all))}
        ELSE {IF Short(d, all, rc) THEN NoTensor("MissingValuesPresent")
              ELSE Tensor(from_vec(flat(d, fs, rc), rc, Len(fs)),
                          flat(d, <<y>>, rc))}
  BY <1>5 DEF to_tensor
<1>7. ASSUME y \notin ToSet(fs), UsableAll
      PROVE  to_tensor(d, fs, y)
               = {Tensor(RowsOf(d, fs, rc), TargetsOf(d, y, rc))}
  <2>1. \A i \in 1..Len(all) : all[i] \in DOMAIN d
    BY <1>2, <1>3, <1>7 DEF Usable
  <2>2. ~ Short(d, all, rc)
    BY <1>2, <2>1, NeverShort
  <2>3. \A i \in 1..Len(fs) : fs[i] \in DOMAIN d
    BY <1>7 DEF Usable
  <2>4. ~ Short(d, fs, rc) /\ \A i \in 1..Len(fs) : len(d[fs[i]]) \in Nat
    BY <1>1, <1>5, <2>3, NeverShort
  <2>5. from_vec(flat(d, fs, rc), rc, Len(fs)) = RowsOf(d, fs, rc)
    BY <1>1, <1>5, <2>4, ReadCells
  <2>6. flat(d, <<y>>, rc) = TargetsOf(d, y, rc)
    <3>1. Len(<<y>>) = 1 /\ <<y>>[1] = y /\ rc * 1 = rc
      BY <1>5
    <3>2. \A k \in 1..rc : (k - 1) % 1 = 0 /\ (k - 1) \div 1 = k - 1
      BY <1>5
    <3>3. y \in DOMAIN d /\ len(d[y]) = rc
      BY <1>5, <1>7 DEF Usable
    <3>4. \A k \in 1..rc : get(d[y], k - 1) = d[y].cells[k]
      BY <1>5, <3>3 DEF get
    <3> QED
      BY <3>1, <3>2, <3>4 DEF flat, TargetsOf
  <2> QED
    BY <1>4, <1>6, <1>7, <2>2, <2>5, <2>6
<1>8. ASSUME ~ (y \notin ToSet(fs) /\ UsableAll), NEW t \in to_tensor(d, fs, y)
      PROVE  t.result # "Ok"
  <2>1. t = NoTensor("TargetColumnInFeatures")
          \/ t = NoTensor(check_missing_and_type(d, all))
    BY <1>4, <1>6, <1>8
  <2>2. check_missing_and_type(d, all) # "Ok"
    BY DEF check_missing_and_type, ColumnError
  <2> QED
    BY <2>1, <2>2 DEF NoTensor
<1> QED
  BY <1>7, <1>8

\* What a cell may be.
CellValues == DOMAIN as_f32 \cup {Missing}

\* The columns d have cells, as many as their rows say, and all as many.
Sound(d) ==
  /\ Upright(d)
  /\ \A n \in DOMAIN d : d[n].cells \in Seq(CellValues)

\* What tensors are made of in a table of this kind.
LEMMA SoundTensors ==
  ASSUME NEW d, Sound(d), NEW fs \in Seq(Names), NEW y \in Names,
         NEW rc \in row_count(d)
  PROVE  /\ rc \in Nat /\ Max(row_count(d)) = rc
         /\ fs \in Seq(Names) /\ Len(fs) \in Nat /\ DOMAIN fs = 1..Len(fs)
         /\ \A n \in DOMAIN d : len(d[n]) = rc /\ missing_count(d[n]) \in Nat
         /\ \A t \in to_tensor(d, fs, y) : t.result = "Ok" =>
              /\ t = Tensor(RowsOf(d, fs, rc), TargetsOf(d, y, rc))
              /\ y \notin ToSet(fs)
              /\ Usable(d, y) /\ \A i \in 1..Len(fs) : Usable(d, fs[i])
<1>1. fs \in Seq(Names) /\ Len(fs) \in Nat /\ DOMAIN fs = 1..Len(fs)
  BY LenProperties
<1>2. Upright(d) /\ \A n \in DOMAIN d : missing_count(d[n]) \in Nat
  BY MissingCount DEF Sound
<1>3. /\ rc \in Nat /\ Max(row_count(d)) = rc
      /\ \A n \in DOMAIN d : len(d[n]) = rc
  BY <1>2, RowCountOf
<1>4. ASSUME NEW t \in to_tensor(d, fs, y), t.result = "Ok"
      PROVE  /\ t = Tensor(RowsOf(d, fs, rc), TargetsOf(d, y, rc))
             /\ y \notin ToSet(fs)
             /\ Usable(d, y) /\ \A i \in 1..Len(fs) : Usable(d, fs[i])
  <2> DEFINE Accepted == /\ y \notin ToSet(fs)
                         /\ Usable(d, y) /\ \A i \in 1..Len(fs) : Usable(d, fs[i])
  <2>1. /\ Accepted => to_tensor(d, fs, y)
                         = {Tensor(RowsOf(d, fs, rc), TargetsOf(d, y, rc))}
        /\ ~ Accepted => \A u \in to_tensor(d, fs, y) : u.result # "Ok"
    BY <1>1, <1>2, TrainingTensor
  <2> QED
    BY <1>4, <2>1
<1> QED
  BY <1>1, <1>2, <1>3, <1>4
==============================================================================
