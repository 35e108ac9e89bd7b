----------------------------- MODULE DatasetProofs -----------------------------
(***************************************************************************)
(* Theorems of Dataset for tables of any size, every ratio and every        *)
(* shuffle.                                                                 *)
(***************************************************************************)
EXTENDS Dataset, TensorProofs, FunctionTheorems

\* The columns of a table that is split are equally long (Rectangular of Table).
RectangularTables ==
  \A t \in Tables : \A m, n \in DOMAIN t.data : t.data[m].rows = t.data[n].rows

-----------------------------------------------------------------------------
(* Permutations and the bags they keep.                                      *)

\* Sequences whose entries are matched one to one have the same entries.
LEMMA MatchedBags ==
  ASSUME NEW S, NEW s \in Seq(S), NEW t \in Seq(S), Len(s) = Len(t),
         NEW p \in Bijection(1..Len(t), 1..Len(s)),
         \A i \in 1..Len(t) : t[i] = s[p[i]]
  PROVE  SameBag(s, t)
<1>1. /\ Len(s) \in Nat /\ DOMAIN s = 1..Len(s)
      /\ Len(t) \in Nat /\ DOMAIN t = 1..Len(t)
  BY LenProperties
<1>2. ASSUME NEW w
      PROVE  Cardinality({i \in DOMAIN s : s[i] = w})
               = Cardinality({i \in DOMAIN t : t[i] = w})
  <2> DEFINE A == {i \in 1..Len(s) : s[i] = w}
             B == {i \in 1..Len(t) : t[i] = w}
             f == [i \in B |-> p[i]]
  <2>1. /\ p \in [1..Len(t) -> 1..Len(s)]
        /\ \A i, j \in 1..Len(t) : p[i] = p[j] => i = j
        /\ \A j \in 1..Len(s) : \E i \in 1..Len(t) : p[i] = j
    BY DEF Bijection, Injection, Surjection, IsInjective
  <2>2. f \in [B -> A]
    BY <2>1
  <2>3. \A i, j \in B : f[i] = f[j] => i = j
    BY <2>1
  <2>4. \A j \in A : \E i \in B : f[i] = j
    BY <2>1
  <2>5. IsFiniteSet(B)
    <3>1. IsFiniteSet(1..Len(t)) /\ B \in SUBSET (1..Len(t))
      BY <1>1, FS_Interval
    <3> HIDE DEF B
    <3> QED
      BY <3>1, FS_Subset
  <2> HIDE DEF A, B, f
  <2>6. f \in Bijection(B, A)
    BY <2>2, <2>3, <2>4, Fun_IsBij
  <2>7. Cardinality(A) = Cardinality(B)
    BY <2>5, <2>6, FS_Bijection DEF ExistsBijection
  <2> QED
    BY <2>7, <1>1 DEF A, B
<1> QED
  BY <1>2 DEF SameBag

\* A shuffle of 0..rows-1 is a bijection from places to indices.
LEMMA ShuffleIsBijection ==
  ASSUME NEW rows \in Nat, NEW is \in SetToSeqs(0..(rows - 1))
  PROVE  /\ is \in Seq(0..(rows - 1)) /\ Len(is) = rows
         /\ [i \in 1..rows |-> is[i] + 1] \in Bijection(1..rows, 1..rows)
<1>1. IsFiniteSet(0..(rows - 1)) /\ Cardinality(0..(rows - 1)) = rows
  BY FS_Interval
<1>2. /\ is \in [1..rows -> 0..(rows - 1)]
      /\ \A i, j \in 1..rows : i # j => is[i] # is[j]
  BY <1>1 DEF SetToSeqs
<1> DEFINE p == [i \in 1..rows |-> is[i] + 1]
<1>3. p \in Injection(1..rows, 1..rows)
  BY <1>2 DEF Injection, IsInjective
<1>4. IsFiniteSet(1..rows)
  BY FS_Interval
<1> HIDE DEF p
<1>5. p \in Surjection(1..rows, 1..rows)
  BY <1>3, <1>4, FS_Injection
<1>6. p \in Bijection(1..rows, 1..rows)
  BY <1>3, <1>5 DEF Bijection
<1>7. is \in Seq(0..(rows - 1)) /\ Len(is) = rows
  BY <1>2
<1> QED
  BY <1>6, <1>7 DEF p

\* If a takes the entries of s at the first k of the shuffled indices and b
\* those at the others, the two share out s.
LEMMA DealtBags ==
  ASSUME NEW S, NEW s \in Seq(S), NEW a \in Seq(S), NEW b \in Seq(S),
         NEW rows \in Nat, NEW k \in 0..rows,
         NEW is \in SetToSeqs(0..(rows - 1)),
         Len(s) = rows, Len(a) = k, Len(b) = rows - k,
         \A i \in 1..k : a[i] = s[is[i] + 1],
         \A i \in 1..(rows - k) : b[i] = s[is[k + i] + 1]
  PROVE  SameBag(s, a \o b)
<1> DEFINE p == [i \in 1..rows |-> is[i] + 1]
<1>1. p \in Bijection(1..rows, 1..rows)
  BY ShuffleIsBijection
<1>2. /\ a \o b \in Seq(S) /\ Len(a \o b) = rows
      /\ \A i \in 1..rows : (a \o b)[i] = IF i <= k THEN a[i] ELSE b[i - k]
  BY ConcatProperties
<1>3. \A i \in 1..rows : (a \o b)[i] = s[p[i]]
  <2> SUFFICES ASSUME NEW i \in 1..rows PROVE (a \o b)[i] = s[p[i]]
    OBVIOUS
  <2>1. CASE i <= k
    <3>1. i \in 1..k
      BY <2>1
    <3> QED
      BY <3>1, <2>1, <1>2
  <2>2. CASE i > k
    <3>1. i - k \in 1..(rows - k) /\ k + (i - k) = i
      BY <2>2
    <3>2. b[i - k] = s[is[i] + 1]
      BY <3>1
    <3> QED
      BY <3>2, <2>2, <1>2
  <2> QED
    BY <2>1, <2>2
<1> DEFINE t == a \o b
<1>4. /\ t \in Seq(S) /\ Len(s) = Len(t)
      /\ p \in Bijection(1..Len(t), 1..Len(s))
      /\ \A i \in 1..Len(t) : t[i] = s[p[i]]
  BY <1>1, <1>2, <1>3
<1> HIDE DEF p, t
<1>5. SameBag(s, t)
  BY <1>4, MatchedBags
<1> QED
  BY <1>5 DEF t
-----------------------------------------------------------------------------
(* The invariant: what the last call found and returned.                     *)

\* split_error, half and column_names for the columns d in the states c.
ErrorOf(d, c, n) ==
  IF n \notin DOMAIN c THEN "ColumnNotFound"
  ELSE IF c[n] = "CheckedOut" THEN "ColumnNotAvailable"
  ELSE IF n \notin DOMAIN d THEN "ColumnNotFound"
  ELSE "Ok"
ErrorIn(d, c, names) ==
  LET i == SelectInSeq(names, LAMBDA n : ErrorOf(d, c, n) # "Ok")
  IN IF i = 0 THEN "Ok" ELSE ErrorOf(d, c, names[i])
HalfIn(d, names, is) == [n \in ToSet(names) |-> select_rows(d[n], is)]
NamesIn(c, columns) ==
  IF columns # None THEN {columns} ELSE SetToSeqs(DOMAIN c)

\* What a split of these columns by these names, this order of the rows and
\* this number of rows for the first half returns.
Outcome(d, c, h, rows, names, is, k) ==
  \/ k > rows /\ h = [result |-> "panic", train |-> NoTables, test |-> NoTables]
  \/ /\ k <= rows /\ ErrorIn(d, c, names) # "Ok"
     /\ h = [result |-> ErrorIn(d, c, names), train |-> NoTables, test |-> NoTables]
  \/ /\ k <= rows /\ ErrorIn(d, c, names) = "Ok"
     /\ h = [result |-> "Ok", train |-> HalfIn(d, names, SubSeq(is, 1, k)),
             test |-> HalfIn(d, names, SubSeq(is, k + 1, rows))]

\* The halves h are what a split with the arguments s returns.
LastSplit(d, c, h, s) ==
  \E rows \in row_count(d), names \in NamesIn(c, s.columns) :
  \E is \in SetToSeqs(0 .. rows - 1), k \in split_point(rows, s.ratio) :
    Outcome(d, c, h, rows, names, is, k)

DInv ==
  /\ [data |-> data, checkouts |-> checkouts] \in Tables
  /\ split \in [ratio : Ratios \cup {<<0, 1>>}, columns : ColumnLists \cup {None}]
  /\ \/ halves = [result |-> "None", train |-> NoTables, test |-> NoTables]
     \/ LastSplit(data, checkouts, halves, split)

LEMMA SplitInit == Init => DInv
<1> SUFFICES ASSUME Init PROVE DInv
  OBVIOUS
<1>1. PICK t \in Tables : data = t.data /\ checkouts = t.checkouts
  BY DEF Init
<1>2. t = [data |-> t.data, checkouts |-> t.checkouts]
  BY DatasetAssumption
<1> QED
  BY <1>1, <1>2 DEF Init, DInv

LEMMA SplitStep == DInv /\ [Next]_vars => DInv'
<1> SUFFICES ASSUME DInv, [Next]_vars PROVE DInv'
  OBVIOUS
<1>1. ASSUME NEW ratio \in Ratios, NEW columns \in ColumnLists \cup {None},
             train_test_split(ratio, columns)
      PROVE  DInv'
  <2>1. /\ split' = [ratio |-> ratio, columns |-> columns]
        /\ data' = data /\ checkouts' = checkouts
    BY <1>1 DEF train_test_split
  <2>2. \A names : split_error(names) = ErrorIn(data, checkouts, names)
    BY Zenon DEF split_error, ErrorIn, ErrorOf
  <2>3. column_names(columns) = NamesIn(checkouts, columns)
    BY DEF column_names, NamesIn
  <2>4. \A names, is : half(names, is) = HalfIn(data, names, is)
    BY DEF half, HalfIn
  <2>5. \E rows \in row_count(data), names \in NamesIn(checkouts, columns) :
        \E is \in SetToSeqs(0 .. rows - 1), k \in split_point(rows, ratio) :
          Outcome(data, checkouts, halves', rows, names, is, k)
    BY <1>1, <2>2, <2>3, <2>4 DEF train_test_split, Returned, Outcome
  <2>6. split'.ratio = ratio /\ split'.columns = columns
    BY <2>1
  <2>7. LastSplit(data, checkouts, halves', split')
    BY <2>5, <2>6 DEF LastSplit
  <2> QED
    BY <1>1, <2>1, <2>7 DEF DInv
<1>2. CASE UNCHANGED vars
  BY <1>2 DEF vars, DInv
<1> QED
  BY <1>1, <1>2 DEF Next

LEMMA SplitAlways == Spec => []DInv
BY SplitInit, SplitStep, PTL DEF Spec
-----------------------------------------------------------------------------
(* What the parts of a split compute.                                        *)

\* The columns inside a table, and what is known of their cells.
LEMMA TableColumns ==
  ASSUME DInv
  PROVE  /\ DOMAIN data \subseteq Names /\ IsFiniteSet(DOMAIN checkouts)
         /\ DOMAIN checkouts \subseteq Names
         /\ DOMAIN data = {n \in DOMAIN checkouts : checkouts[n] = "Available"}
         /\ \A n \in DOMAIN checkouts : checkouts[n] \in ColumnState
         /\ \A n \in DOMAIN data :
              /\ data[n] \in ColumnData /\ data[n].cells \in Seq(CellValues)
              /\ len(data[n]) \in Nat /\ data[n].rows = len(data[n])
         /\ RectangularTables => Upright(data)
<1> DEFINE t == [data |-> data, checkouts |-> checkouts]
<1>1. t \in Tables /\ t.data = data /\ t.checkouts = checkouts
  BY DEF DInv
<1> HIDE DEF t
<1>2. /\ DOMAIN data \subseteq Names /\ IsFiniteSet(DOMAIN checkouts)
      /\ DOMAIN checkouts \subseteq Names
      /\ DOMAIN data = {n \in DOMAIN checkouts : checkouts[n] = "Available"}
      /\ \A n \in DOMAIN checkouts : checkouts[n] \in ColumnState
      /\ \A n \in DOMAIN data : data[n] \in ColumnData /\ data[n].rows = Len(data[n].cells)
  BY <1>1, DatasetAssumption
<1>3. ASSUME NEW n \in DOMAIN data
      PROVE  data[n].cells \in Seq(CellValues) /\ Len(data[n].cells) \in Nat
  <2>1. data[n].cells \in Cells
    BY <1>2 DEF ColumnData, TypedColumn, RawColumn
  <2>2. data[n].cells \in Seq(CellValues)
    BY <2>1, CellDataAssumption DEF CellValues
  <2> QED
    BY <2>2, LenProperties
<1>4. RectangularTables => \A m, n \in DOMAIN data : data[m].rows = data[n].rows
  BY <1>1 DEF RectangularTables
<1> QED
  BY <1>2, <1>3, <1>4 DEF Upright, len

\* The error of a list is one of its names', and none only if none has one.
LEMMA FirstError ==
  ASSUME NEW d, NEW c, NEW names, Len(names) \in Nat, DOMAIN names = 1..Len(names)
  PROVE  \/ /\ ErrorIn(d, c, names) = "Ok"
            /\ \A i \in 1..Len(names) : ErrorOf(d, c, names[i]) = "Ok"
         \/ \E i \in 1..Len(names) :
              /\ ErrorOf(d, c, names[i]) # "Ok"
              /\ ErrorIn(d, c, names) = ErrorOf(d, c, names[i])
<1> DEFINE I == {i \in 1..Len(names) : ErrorOf(d, c, names[i]) # "Ok"}
           j == IF I # {} THEN Min(I) ELSE 0
<1>1. ErrorIn(d, c, names) = IF j = 0 THEN "Ok" ELSE ErrorOf(d, c, names[j])
  BY DEF ErrorIn, SelectInSeq
<1>2. I # {} => Min(I) \in I
  <2> SUFFICES ASSUME I # {} PROVE Min(I) \in I
    OBVIOUS
  <2>1. \E x \in I : \A y \in I : x <= y
    BY LeastElement, I \subseteq Nat
  <2> HIDE DEF I
  <2> QED
    BY <2>1 DEF Min
<1> HIDE DEF j
<1>3. I = {} => j = 0
  BY DEF j
<1>4. I # {} => j \in I
  BY <1>2 DEF j
<1> QED
  BY <1>1, <1>3, <1>4

\* The rows of the first half: never more than a ratio up to 1 allows, and short
\* of the ratio by less than one row and a rounding.
LEMMA SplitPoint ==
  ASSUME NEW rows \in Nat, NEW ratio \in Nat \X (Nat \ {0}),
         NEW k \in split_point(rows, ratio)
  PROVE  /\ k \in Nat
         /\ k > rows => ratio[1] > ratio[2]
         /\ ratio[1] * rows - ratio[2] * k \in 0 .. ratio[2]
<1> DEFINE n == ratio[1]
           d == ratio[2]
           q == (rows * n) \div d
<1>1. n \in Nat /\ d \in Nat /\ d > 0
  OBVIOUS
<1>2. \/ k = q
      \/ k = q - 1 /\ q > 0 /\ q * d = rows * n
  BY DEF split_point
<1> HIDE DEF n, d
<1>3. q \in Nat /\ q * d <= rows * n /\ rows * n < (q + 1) * d
  <2>1. rows * n \in Nat
    BY <1>1
  <2>2. ASSUME NEW x \in Nat
        PROVE  x \div d \in Nat /\ (x \div d) * d <= x /\ x < (x \div d + 1) * d
    BY <1>1, SMTT(60)
  <2> QED
    BY <2>1, <2>2
<1> HIDE DEF q
<1>4. ASSUME n <= d PROVE q <= rows
  <2>1. rows * n <= rows * d
    BY <1>1, <1>4
  <2>2. q * d <= rows * d
    BY <2>1, <1>1, <1>3
  <2> QED
    BY <2>2, <1>1, <1>3
<1>5. k \in Nat /\ (k > rows => n > d)
  BY <1>1, <1>2, <1>3, <1>4
<1>6. n * rows - d * k \in 0 .. d
  <2>1. CASE k = q
    <3>1. n * rows - d * q = rows * n - q * d
      BY <1>1, <1>3
    <3>2. (q + 1) * d = q * d + d
      BY <1>1, <1>3
    <3>3. q * d \in Nat /\ rows * n \in Nat
      BY <1>1, <1>3
    <3> QED
      BY <2>1, <3>1, <3>2, <3>3, <1>1, <1>3
  <2>2. CASE k = q - 1 /\ q > 0 /\ q * d = rows * n
    <3>1. n * rows = rows * n /\ d * (q - 1) = q * d - d
      BY <1>1, <1>3
    <3> QED
      BY <2>2, <3>1, <1>1, <1>3
  <2> QED
    BY <1>2, <2>1, <2>2
<1> QED
  BY <1>5, <1>6 DEF n, d

\* select_rows with indices that exist: the cells at those rows.
LEMMA SelectedRows ==
  ASSUME NEW col \in ColumnData, col.cells \in Seq(CellValues),
         NEW rows \in Nat, len(col) = rows, NEW js \in Seq(0..(rows - 1))
  PROVE  LET h == select_rows(col, js)
         IN  /\ h.variant = col.variant
             /\ h.rows = Len(js)
             /\ h.cells \in Seq(CellValues) /\ Len(h.cells) = Len(js)
             /\ \A i \in 1..Len(js) : h.cells[i] = col.cells[js[i] + 1]
<1> DEFINE cs == [k \in DOMAIN js |-> get(col, js[k])]
<1>1. Len(js) \in Nat /\ DOMAIN js = 1..Len(js)
  BY LenProperties
<1>2. ASSUME NEW i \in 1..Len(js)
      PROVE  cs[i] = col.cells[js[i] + 1] /\ cs[i] \in CellValues
  <2>1. js[i] \in 0..(rows - 1)
    BY ElementOfSeq
  <2>2. js[i] < len(col) /\ js[i] + 1 \in 1..Len(col.cells)
    BY <2>1 DEF len
  <2>3. cs[i] = col.cells[js[i] + 1]
    BY <2>2, <1>1 DEF get
  <2> QED
    BY <2>2, <2>3, ElementOfSeq
<1>3. cs \in Seq(CellValues) /\ Len(cs) = Len(js)
  BY <1>1, <1>2
<1> HIDE DEF cs
<1>4. select_rows(col, js) = [col EXCEPT !.rows = Len(js), !.cells = cs]
  BY DEF select_rows, cs
<1> QED
  BY <1>2, <1>3, <1>4 DEF ColumnData, TypedColumn, RawColumn

\* The columns h are those of the table named in N, with k of its rows: the ones
\* that the shuffle is has from place from + 1 on.
Takes(h, N, k, is, from) ==
  /\ DOMAIN h = N
  /\ \A n \in N :
       /\ h[n].variant = data[n].variant
       /\ h[n].rows = k
       /\ h[n].cells \in Seq(CellValues) /\ Len(h[n].cells) = k
       /\ \A i \in 1..k : h[n].cells[i] = data[n].cells[is[from + i] + 1]

\* Slicing the shuffled indices: their k from place from + 1 on.
LEMMA Slice ==
  ASSUME NEW rows \in Nat, NEW is \in Seq(0..(rows - 1)), Len(is) = rows,
         NEW from \in Nat, NEW k \in Nat, from + k <= rows
  PROVE  LET js == SubSeq(is, from + 1, from + k)
         IN  /\ js \in Seq(0..(rows - 1)) /\ Len(js) = k
             /\ \A i \in 1..k : js[i] = is[from + i]
<1> DEFINE m == from + 1
           n == from + k
<1>1. m \in Int /\ n \in Int /\ n - m + 1 = k /\ (m <= n <=> k > 0)
  OBVIOUS
<1>2. \A i \in m..n : is[i] \in 0..(rows - 1)
  <2>1. \A i \in m..n : i \in 1..Len(is)
    OBVIOUS
  <2> QED
    BY <2>1, ElementOfSeq
<1>3. \A i \in 1..k : m + i - 1 = from + i
  OBVIOUS
<1> DEFINE js == SubSeq(is, m, n)
           R == 0..(rows - 1)
<1> HIDE DEF m, n, R
<1>4. /\ js \in Seq(R) /\ Len(js) = IF m <= n THEN n - m + 1 ELSE 0
      /\ \A i \in 1..(n - m + 1) : js[i] = is[m + i - 1]
  BY <1>1, <1>2, SubSeqProperties DEF R
<1> HIDE DEF js
<1>5. Len(js) = k
  BY <1>1, <1>4
<1>6. \A i \in 1..k : js[i] = is[from + i]
  <2> SUFFICES ASSUME NEW i \in 1..k PROVE js[i] = is[from + i]
    OBVIOUS
  <2>1. i \in 1..(n - m + 1)
    BY <1>1
  <2>2. js[i] = is[m + i - 1]
    BY <1>4, <2>1
  <2> QED
    BY <2>2, <1>3
<1> QED
  BY <1>4, <1>5, <1>6 DEF js, m, n, R

\* The columns of one half.
LEMMA HalfTakes ==
  ASSUME DInv, RectangularTables, NEW rows \in row_count(data),
         NEW is \in Seq(0..(rows - 1)), Len(is) = rows,
         NEW names \in Seq(Names), ToSet(names) \subseteq DOMAIN data,
         NEW from \in Nat, NEW k \in Nat, from + k <= rows
  PROVE  Takes(HalfIn(data, names, SubSeq(is, from + 1, from + k)),
               ToSet(names), k, is, from)
<1> DEFINE js == SubSeq(is, from + 1, from + k)
           h == HalfIn(data, names, js)
<1>1. /\ Upright(data)
      /\ \A n \in DOMAIN data : data[n] \in ColumnData /\ data[n].cells \in Seq(CellValues)
  BY TableColumns
<1>2. rows \in Nat /\ \A n \in DOMAIN data : len(data[n]) = rows
  BY <1>1, RowCountOf
<1>3. /\ js \in Seq(0..(rows - 1)) /\ Len(js) = k
      /\ \A i \in 1..k : js[i] = is[from + i]
  BY <1>2, Slice
<1> HIDE DEF js
<1>4. DOMAIN h = ToSet(names) /\ \A n \in ToSet(names) : h[n] = select_rows(data[n], js)
  BY DEF HalfIn
<1> HIDE DEF h
<1>5. ASSUME NEW n \in ToSet(names)
      PROVE  /\ h[n].variant = data[n].variant
             /\ h[n].rows = k
             /\ h[n].cells \in Seq(CellValues) /\ Len(h[n].cells) = k
             /\ \A i \in 1..k : h[n].cells[i] = data[n].cells[is[from + i] + 1]
  <2>1. n \in DOMAIN data /\ h[n] = select_rows(data[n], js)
    BY <1>4
  <2>2. /\ data[n] \in ColumnData /\ data[n].cells \in Seq(CellValues)
        /\ rows \in Nat /\ len(data[n]) = rows /\ js \in Seq(0..(rows - 1))
    BY <2>1, <1>1, <1>2, <1>3
  <2>3. LET s == select_rows(data[n], js)
        IN  /\ s.variant = data[n].variant
            /\ s.rows = Len(js)
            /\ s.cells \in Seq(CellValues) /\ Len(s.cells) = Len(js)
            /\ \A i \in 1..Len(js) : s.cells[i] = data[n].cells[js[i] + 1]
    BY <2>2, SelectedRows
  <2> QED
    BY <2>1, <2>3, <1>3
<1>6. Takes(h, ToSet(names), k, is, from)
  BY <1>4, <1>5 DEF Takes
<1> QED
  BY <1>6 DEF h, js

\* The names that a split walks: its argument, or all columns in some order.
LEMMA WalkedNames ==
  ASSUME DInv, NEW names \in NamesIn(checkouts, split.columns)
  PROVE  /\ names \in Seq(Names) /\ Len(names) \in Nat
         /\ DOMAIN names = 1..Len(names)
         /\ split.columns = None => ToSet(names) = DOMAIN checkouts
<1>1. CASE split.columns # None
  <2>1. names = split.columns /\ names \in ColumnLists
    BY <1>1 DEF NamesIn, DInv
  <2> QED
    BY <2>1, <1>1, DatasetAssumption, LenProperties
<1>2. CASE split.columns = None
  <2> DEFINE S == DOMAIN checkouts
             N == Cardinality(S)
  <2>1. IsFiniteSet(S) /\ S \subseteq Names /\ N \in Nat
    BY TableColumns, FS_CardinalityType
  <2>2. /\ names \in [1..N -> S]
        /\ \A i, j \in 1..N : i # j => names[i] # names[j]
    BY <1>2 DEF NamesIn, SetToSeqs
  <2>3. names \in Injection(1..N, S)
    BY <2>2 DEF Injection, IsInjective
  <2>4. IsFiniteSet(1..N) /\ Cardinality(1..N) = N
    BY <2>1, FS_Interval
  <2>5. names \in Surjection(1..N, S)
    <3> HIDE DEF S
    <3> QED
      BY <2>1, <2>3, <2>4, FS_Injection
  <2>6. ToSet(names) = S
    BY <2>2, <2>5 DEF ToSet, Surjection
  <2>7. names \in Seq(Names) /\ Len(names) = N
    BY <2>1, <2>2
  <2> QED
    BY <2>1, <2>2, <2>6, <2>7
<1> QED
  BY <1>1, <1>2

\* A split that succeeds: a shuffle of all rows and a place to cut it, with the
\* same columns on both sides.
LEMMA SuccessfulSplit ==
  ASSUME DInv, RectangularTables, halves.result = "Ok"
  PROVE  \E rows \in row_count(data), N \in SUBSET DOMAIN data :
         \E is \in SetToSeqs(0..(rows - 1)), k \in split_point(rows, split.ratio) :
           /\ rows \in Nat /\ k \in 0..rows
           /\ Takes(halves.train, N, k, is, 0)
           /\ Takes(halves.test, N, rows - k, is, k)
<1>1. LastSplit(data, checkouts, halves, split)
  BY DEF DInv
<1>2. PICK rows \in row_count(data), names \in NamesIn(checkouts, split.columns) :
      \E is \in SetToSeqs(0 .. rows - 1), k \in split_point(rows, split.ratio) :
        Outcome(data, checkouts, halves, rows, names, is, k)
  BY <1>1 DEF LastSplit
<1>3. PICK is \in SetToSeqs(0 .. rows - 1), k \in split_point(rows, split.ratio) :
        Outcome(data, checkouts, halves, rows, names, is, k)
  BY <1>2
<1>4. /\ k <= rows /\ ErrorIn(data, checkouts, names) = "Ok"
      /\ halves.train = HalfIn(data, names, SubSeq(is, 1, k))
      /\ halves.test = HalfIn(data, names, SubSeq(is, k + 1, rows))
  BY <1>3 DEF Outcome
<1>5. /\ names \in Seq(Names) /\ Len(names) \in Nat
      /\ DOMAIN names = 1..Len(names)
  BY WalkedNames
<1>6. ToSet(names) \subseteq DOMAIN data
  <2>1. \A i \in 1..Len(names) : ErrorOf(data, checkouts, names[i]) = "Ok"
    BY <1>4, <1>5, FirstError
  <2> QED
    BY <2>1, <1>5 DEF ErrorOf, ToSet
<1>7. rows \in Nat
  BY TableColumns, RowCountOf
<1>8. k \in Nat
  <2>1. split.ratio \in Nat \X (Nat \ {0})
    BY DatasetAssumption DEF DInv
  <2> QED
    BY <2>1, <1>7, SplitPoint
<1>9. is \in Seq(0..(rows - 1)) /\ Len(is) = rows
  BY <1>7, ShuffleIsBijection
<1>10. Takes(halves.train, ToSet(names), k, is, 0)
  <2>1. 0 + 1 = 1 /\ 0 + k = k /\ 0 + k <= rows
    BY <1>4, <1>7, <1>8
  <2>2. Takes(HalfIn(data, names, SubSeq(is, 0 + 1, 0 + k)), ToSet(names), k, is, 0)
    BY <2>1, <1>5, <1>6, <1>8, <1>9, HalfTakes
  <2> QED
    BY <2>1, <2>2, <1>4
<1>11. Takes(halves.test, ToSet(names), rows - k, is, k)
  <2> DEFINE m == rows - k
  <2>1. m \in Nat /\ k + m = rows
    BY <1>4, <1>7, <1>8
  <2> HIDE DEF m
  <2>2. Takes(HalfIn(data, names, SubSeq(is, k + 1, k + m)), ToSet(names), m, is, k)
    BY <2>1, <1>5, <1>6, <1>7, <1>8, <1>9, HalfTakes
  <2> QED
    BY <2>1, <2>2, <1>4 DEF m
<1> QED
  BY <1>4, <1>6, <1>7, <1>8, <1>10, <1>11
\* The half that is taken is upright, and no cell of it is new.
LEMMA HalfUpright ==
  ASSUME NEW h, NEW N, NEW k \in Nat, NEW is, NEW from, Takes(h, N, k, is, from)
  PROVE  /\ Upright(h)
         /\ \A n \in DOMAIN h : h[n].cells \in Seq(CellValues)
         /\ N # {} => row_count(h) = {k} /\ Max(row_count(h)) = k
<1>1. \A n \in DOMAIN h : h[n].rows = k /\ len(h[n]) = k
  BY DEF Takes, len
<1>2. N # {} => row_count(h) = {k}
  BY <1>1 DEF row_count, Takes
<1>3. Max({k}) = k
  BY DEF Max
<1> QED
  BY <1>1, <1>2, <1>3 DEF Upright, Takes

\* The indices that a half takes are rows of the table.
LEMMA TakenIndices ==
  ASSUME NEW rows \in Nat, NEW is \in SetToSeqs(0..(rows - 1)),
         NEW from \in Nat, NEW k \in Nat, from + k <= rows, NEW i \in 1..k
  PROVE  from + i \in 1..rows /\ is[from + i] + 1 \in 1..rows
<1>1. is \in Seq(0..(rows - 1)) /\ Len(is) = rows
  BY ShuffleIsBijection
<1>2. from + i \in 1..rows
  OBVIOUS
<1>3. is[from + i] \in 0..(rows - 1)
  BY <1>1, <1>2, ElementOfSeq
<1> QED
  BY <1>2, <1>3

LEMMA NoTablesUpright ==
  /\ Upright(NoTables) /\ DOMAIN NoTables = {} /\ row_count(NoTables) = {0}
BY DEF NoTables, Upright, row_count

-----------------------------------------------------------------------------
(* Theorems.                                                                 *)

\* Types: a half has the table's variants and only cells that were in it.
THEOREM TypeCorrectness ==
  ASSUME RectangularTables
  PROVE  Spec => []TypeOK
<1>1. DInv => TypeOK
  <2> SUFFICES ASSUME DInv PROVE TypeOK
    OBVIOUS
  <2>1. halves.result \in TableError \cup {"None", "Ok", "panic"}
    <3>1. CASE LastSplit(data, checkouts, halves, split)
      <4>1. PICK rows \in row_count(data), names \in NamesIn(checkouts, split.columns) :
            \E is \in SetToSeqs(0 .. rows - 1), k \in split_point(rows, split.ratio) :
              Outcome(data, checkouts, halves, rows, names, is, k)
        BY <3>1 DEF LastSplit
      <4>2. halves.result \in {"panic", "Ok", ErrorIn(data, checkouts, names)}
        BY <4>1 DEF Outcome
      <4>3. ErrorIn(data, checkouts, names)
              \in {"Ok", "ColumnNotFound", "ColumnNotAvailable"}
        BY WalkedNames, FirstError DEF ErrorOf
      <4> QED
        BY <4>2, <4>3 DEF TableError
    <3> QED
      BY <3>1 DEF DInv
  <2>2. HalfOK(halves.train) /\ HalfOK(halves.test)
    <3>1. CASE halves.result = "Ok"
      <4>1. PICK rows \in row_count(data), N \in SUBSET DOMAIN data :
            \E is \in SetToSeqs(0..(rows - 1)), k \in split_point(rows, split.ratio) :
              /\ rows \in Nat /\ k \in 0..rows
              /\ Takes(halves.train, N, k, is, 0)
              /\ Takes(halves.test, N, rows - k, is, k)
        BY <3>1, SuccessfulSplit
      <4>2. PICK is \in SetToSeqs(0..(rows - 1)), k \in split_point(rows, split.ratio) :
              /\ rows \in Nat /\ k \in 0..rows
              /\ Takes(halves.train, N, k, is, 0)
              /\ Takes(halves.test, N, rows - k, is, k)
        BY <4>1
      <4>3. \A n \in DOMAIN data : len(data[n]) = rows /\ data[n].cells \in Seq(CellValues)
        BY TableColumns, RowCountOf
      <4>4. ASSUME NEW h, NEW m \in Nat, NEW from \in Nat, from + m <= rows,
                   Takes(h, N, m, is, from)
            PROVE  HalfOK(h)
        <5> SUFFICES ASSUME NEW n \in N
                     PROVE  /\ h[n].variant = data[n].variant
                            /\ h[n].rows = Len(h[n].cells)
                            /\ ToSet(h[n].cells) \subseteq ToSet(data[n].cells)
          BY <4>4 DEF HalfOK, Takes
        <5>1. /\ h[n].variant = data[n].variant /\ h[n].rows = m
              /\ h[n].cells \in Seq(CellValues) /\ Len(h[n].cells) = m
              /\ \A i \in 1..m : h[n].cells[i] = data[n].cells[is[from + i] + 1]
          BY <4>4 DEF Takes
        <5>2. DOMAIN h[n].cells = 1..m
          BY <5>1, LenProperties
        <5>3. DOMAIN data[n].cells = 1..rows
          BY <4>3, LenProperties DEF len
        <5>4. \A i \in 1..m : is[from + i] + 1 \in 1..rows
          BY <4>2, <4>4, TakenIndices
        <5> QED
          BY <5>1, <5>2, <5>3, <5>4 DEF ToSet
      <4>5. k \in Nat /\ rows - k \in Nat /\ 0 + k <= rows /\ k + (rows - k) <= rows
        BY <4>2
      <4> QED
        BY <4>2, <4>4, <4>5
    <3>2. CASE halves.result # "Ok"
      <4>1. halves.train = NoTables /\ halves.test = NoTables
        BY <3>2 DEF DInv, LastSplit, Outcome
      <4> QED
        BY <4>1 DEF HalfOK, NoTables
    <3> QED
      BY <3>1, <3>2
  <2> QED
    BY <2>1, <2>2 DEF TypeOK, DInv
<1> QED
  BY <1>1, SplitAlways, PTL

\* train_test_split without a list of columns takes all of them or says that
\* one is out: none is left behind silently.
THEOREM EveryColumnSplit == Spec => []NoColumnDropped
<1>1. DInv => NoColumnDropped
  <2> SUFFICES ASSUME DInv, halves.result \notin {"None", "panic"},
                      split.columns = None
               PROVE  IF DOMAIN checkouts = DOMAIN data
                        THEN /\ halves.result = "Ok"
                             /\ DOMAIN halves.train = DOMAIN checkouts
                        ELSE halves.result = "ColumnNotAvailable"
    BY DEF NoColumnDropped
  <2>1. LastSplit(data, checkouts, halves, split)
    BY DEF DInv
  <2>2. PICK rows \in row_count(data), names \in NamesIn(checkouts, split.columns) :
        \E is \in SetToSeqs(0 .. rows - 1), k \in split_point(rows, split.ratio) :
          Outcome(data, checkouts, halves, rows, names, is, k)
    BY <2>1 DEF LastSplit
  <2>3. /\ Len(names) \in Nat /\ DOMAIN names = 1..Len(names)
        /\ ToSet(names) = DOMAIN checkouts
    BY WalkedNames
  <2>4. /\ halves.result = ErrorIn(data, checkouts, names)
        /\ halves.result = "Ok" => DOMAIN halves.train = ToSet(names)
    BY <2>2 DEF Outcome, HalfIn
  <2>5. /\ DOMAIN data = {n \in DOMAIN checkouts : checkouts[n] = "Available"}
        /\ \A n \in DOMAIN checkouts : checkouts[n] \in ColumnState
    BY TableColumns
  <2>6. \A i \in 1..Len(names) :
          /\ names[i] \in DOMAIN checkouts
          /\ ErrorOf(data, checkouts, names[i]) \in {"Ok", "ColumnNotAvailable"}
          /\ ErrorOf(data, checkouts, names[i]) = "Ok" <=> names[i] \in DOMAIN data
    BY <2>3, <2>5 DEF ErrorOf, ToSet, ColumnState
  <2>7. \A n \in DOMAIN checkouts : \E i \in 1..Len(names) : names[i] = n
    BY <2>3 DEF ToSet
  <2>8. CASE ErrorIn(data, checkouts, names) = "Ok"
    <3>1. \A i \in 1..Len(names) : ErrorOf(data, checkouts, names[i]) = "Ok"
      BY <2>3, <2>8, FirstError
    <3>2. DOMAIN checkouts = DOMAIN data
      <4>1. ASSUME NEW n \in DOMAIN checkouts PROVE n \in DOMAIN data
        <5>1. PICK i \in 1..Len(names) : names[i] = n
          BY <2>7
        <5> QED
          BY <5>1, <3>1, <2>6
      <4> QED
        BY <4>1, <2>5
    <3> QED
      BY <3>2, <2>3, <2>4, <2>8
  <2>9. CASE ErrorIn(data, checkouts, names) # "Ok"
    <3>1. PICK i \in 1..Len(names) :
            /\ ErrorOf(data, checkouts, names[i]) # "Ok"
            /\ ErrorIn(data, checkouts, names) = ErrorOf(data, checkouts, names[i])
      BY <2>3, <2>9, FirstError
    <3> QED
      BY <3>1, <2>4, <2>6
  <2> QED
    BY <2>8, <2>9
<1> QED
  BY <1>1, SplitAlways, PTL

\* Every column of the first half has the ratio's share of the rows, short of it
\* by less than one row and a rounding, and no ratio up to 1 panics.
THEOREM SharesOfRows ==
  ASSUME RectangularTables
  PROVE  Spec => []RatioRespected
<1>1. DInv => RatioRespected
  <2> SUFFICES ASSUME DInv PROVE RatioRespected
    OBVIOUS
  <2>1. split.ratio \in Nat \X (Nat \ {0})
    BY DatasetAssumption DEF DInv
  <2>2. ASSUME halves.result = "panic" PROVE split.ratio[1] > split.ratio[2]
    <3>1. LastSplit(data, checkouts, halves, split)
      BY <2>2 DEF DInv
    <3>2. PICK rows \in row_count(data), names \in NamesIn(checkouts, split.columns) :
          \E is \in SetToSeqs(0 .. rows - 1), k \in split_point(rows, split.ratio) :
            Outcome(data, checkouts, halves, rows, names, is, k)
      BY <3>1 DEF LastSplit
    <3>3. PICK k \in split_point(rows, split.ratio) :
            k > rows \/ halves.result = ErrorIn(data, checkouts, names)
      BY <3>2, <2>2 DEF Outcome
    <3>4. ErrorIn(data, checkouts, names)
            \in {"Ok", "ColumnNotFound", "ColumnNotAvailable"}
      BY WalkedNames, FirstError DEF ErrorOf
    <3>5. rows \in Nat
      BY TableColumns, RowCountOf
    <3> QED
      BY <3>3, <3>4, <3>5, <2>1, <2>2, SplitPoint
  <2>3. ASSUME NEW m \in DOMAIN halves.train
        PROVE  split.ratio[1] * data[m].rows - split.ratio[2] * halves.train[m].rows
                 \in 0 .. split.ratio[2]
    <3>1. halves.result = "Ok"
      BY <2>3 DEF DInv, LastSplit, Outcome, NoTables
    <3>2. PICK rows \in row_count(data), N \in SUBSET DOMAIN data :
          \E is \in SetToSeqs(0..(rows - 1)), k \in split_point(rows, split.ratio) :
            /\ rows \in Nat /\ k \in 0..rows
            /\ Takes(halves.train, N, k, is, 0)
            /\ Takes(halves.test, N, rows - k, is, k)
      BY <3>1, SuccessfulSplit
    <3>3. PICK k \in split_point(rows, split.ratio) :
            m \in DOMAIN data /\ halves.train[m].rows = k
      BY <3>2 DEF Takes
    <3>4. rows \in Nat /\ data[m].rows = rows
      BY <3>3, TableColumns, RowCountOf
    <3> QED
      BY <3>3, <3>4, <2>1, SplitPoint
  <2> QED
    BY <2>2, <2>3 DEF RatioRespected
<1> QED
  BY <1>1, SplitAlways, PTL

\* The columns N of h have m cells each, as h has rows.
OfLength(h, N, m) ==
  /\ m \in Nat /\ Max(row_count(h)) = m
  /\ \A n \in N : Len(h[n].cells) = m /\ h[n].cells \in Seq(CellValues)

\* The tuples that rows of the columns N are, and the m rows of the columns of h.
Tuples(N) == [N -> CellValues]
AreRows(rs, h, N, m) ==
  /\ rs \in Seq(Tuples(N)) /\ Len(rs) = m
  /\ \A i \in 1..m : /\ rs[i] \in Tuples(N)
                     /\ \A n \in N : rs[i][n] = h[n].cells[i]

LEMMA SameTuple ==
  ASSUME NEW N, NEW v \in Tuples(N), NEW w \in Tuples(N), \A n \in N : v[n] = w[n]
  PROVE  v = w
BY DEF Tuples

LEMMA RowsAre ==
  ASSUME NEW h, NEW N, NEW m, OfLength(h, N, m)
  PROVE  AreRows(Rows(h, N), h, N, m)
<1> USE DEF OfLength
<1>1. \A i \in 1..m, n \in N : get(h[n], i - 1) = h[n].cells[i]
  BY DEF get, len
<1>2. \A i \in 1..m, n \in N : h[n].cells[i] \in CellValues
  BY ElementOfSeq
<1> DEFINE Row(i) == [n \in N |-> get(h[n], i - 1)]
<1>3. \A i \in 1..m : Row(i) \in Tuples(N) /\ \A n \in N : Row(i)[n] = h[n].cells[i]
  BY <1>1, <1>2 DEF Tuples
<1>4. Rows(h, N) = [i \in 1..m |-> Row(i)]
  BY Zenon DEF Rows
<1> HIDE DEF Row
<1>5. Rows(h, N) \in Seq(Tuples(N)) /\ Len(Rows(h, N)) = m
  BY <1>3, <1>4
<1>6. \A i \in 1..m : Rows(h, N)[i] = Row(i)
  BY <1>4
<1> QED
  BY <1>3, <1>5, <1>6, Zenon DEF AreRows

\* The k rows rs are those of s at the indices is after the first from.
RowsAt(rs, s, N, k, is, from) ==
  /\ rs \in Seq(Tuples(N)) /\ Len(rs) = k
  /\ \A i \in 1..k : rs[i] = s[is[from + i] + 1]

\* A half's rows are the table's at the indices that it takes.
LEMMA HalfRows ==
  ASSUME DInv, RectangularTables, NEW rows \in row_count(data),
         NEW is \in SetToSeqs(0..(rows - 1)),
         NEW N \in SUBSET DOMAIN data, N # {},
         NEW from \in Nat, NEW k \in Nat, from + k <= rows,
         NEW h, Takes(h, N, k, is, from)
  PROVE  RowsAt(Rows(h, N), Rows(data, N), N, k, is, from)
<1>1. rows \in Nat /\ OfLength(data, N, rows)
  BY TableColumns, RowCountOf DEF OfLength, len
<1>2. Max(row_count(h)) = k
  BY HalfUpright
<1>3. \A n \in N : /\ Len(h[n].cells) = k /\ h[n].cells \in Seq(CellValues)
                   /\ \A i \in 1..k : h[n].cells[i] = data[n].cells[is[from + i] + 1]
  BY DEF Takes
<1>4. AreRows(Rows(data, N), data, N, rows)
  BY <1>1, RowsAre
<1>5. AreRows(Rows(h, N), h, N, k)
  BY <1>2, <1>3, RowsAre DEF OfLength
<1>6. ASSUME NEW i \in 1..k
      PROVE  Rows(h, N)[i] = Rows(data, N)[is[from + i] + 1]
  <2> DEFINE j == is[from + i] + 1
  <2>1. j \in 1..rows
    BY <1>1, TakenIndices
  <2>2. \A n \in N : h[n].cells[i] = data[n].cells[j]
    BY <1>3
  <2> HIDE DEF j
  <2>3. /\ Rows(h, N)[i] \in Tuples(N) /\ Rows(data, N)[j] \in Tuples(N)
        /\ \A n \in N : Rows(h, N)[i][n] = Rows(data, N)[j][n]
    BY <2>1, <2>2, <1>4, <1>5, Zenon DEF AreRows
  <2>4. Rows(h, N)[i] = Rows(data, N)[j]
    BY <2>3, SameTuple
  <2> QED
    BY <2>4 DEF j
<1>7. Rows(h, N) \in Seq(Tuples(N)) /\ Len(Rows(h, N)) = k
  BY <1>5 DEF AreRows
<1> QED
  BY <1>6, <1>7 DEF RowsAt

\* The rows of the named columns are dealt out to the halves, each to one of
\* them and all its cells to the same one.
THEOREM HalvesShareRows ==
  ASSUME RectangularTables
  PROVE  Spec => []HalvesPartition
<1>1. DInv => HalvesPartition
  <2> SUFFICES ASSUME DInv, halves.result = "Ok", DOMAIN halves.train # {}
               PROVE  LET names == DOMAIN halves.train
                      IN /\ DOMAIN halves.test = names
                         /\ SameBag(Rows(data, names),
                                    Rows(halves.train, names) \o Rows(halves.test, names))
    BY DEF HalvesPartition
  <2>1. PICK rows \in row_count(data), N \in SUBSET DOMAIN data :
        \E is \in SetToSeqs(0..(rows - 1)), k \in split_point(rows, split.ratio) :
          /\ rows \in Nat /\ k \in 0..rows
          /\ Takes(halves.train, N, k, is, 0)
          /\ Takes(halves.test, N, rows - k, is, k)
    BY SuccessfulSplit
  <2>2. PICK is \in SetToSeqs(0..(rows - 1)), k \in split_point(rows, split.ratio) :
          /\ rows \in Nat /\ k \in 0..rows
          /\ Takes(halves.train, N, k, is, 0)
          /\ Takes(halves.test, N, rows - k, is, k)
    BY <2>1
  <2>3. DOMAIN halves.train = N /\ DOMAIN halves.test = N
    BY <2>2 DEF Takes
  <2>4. N # {}
    BY <2>3
  <2> DEFINE S == Tuples(N)
             s == Rows(data, N)
             a == Rows(halves.train, N)
             b == Rows(halves.test, N)
             m == rows - k
  <2>5. s \in Seq(S) /\ Len(s) = rows
    <3>1. OfLength(data, N, rows)
      BY TableColumns, RowCountOf DEF OfLength, len
    <3> QED
      BY <3>1, RowsAre DEF AreRows
  <2>6. k \in Nat /\ m \in Nat /\ 0 + k <= rows /\ k + m <= rows
    BY <2>2
  <2>7. a \in Seq(S) /\ Len(a) = k /\ \A i \in 1..k : a[i] = s[is[0 + i] + 1]
    <3>1. 0 \in Nat /\ Takes(halves.train, N, k, is, 0)
      BY <2>2
    <3>2. RowsAt(Rows(halves.train, N), Rows(data, N), N, k, is, 0)
      BY <3>1, <2>4, <2>6, HalfRows
    <3> QED
      BY <3>2 DEF RowsAt
  <2>8. b \in Seq(S) /\ Len(b) = m /\ \A i \in 1..m : b[i] = s[is[k + i] + 1]
    <3>1. Takes(halves.test, N, m, is, k)
      BY <2>2
    <3> HIDE DEF m
    <3>2. RowsAt(Rows(halves.test, N), Rows(data, N), N, m, is, k)
      BY <3>1, <2>4, <2>6, HalfRows
    <3> QED
      BY <3>2 DEF RowsAt
  <2>9. \A i \in 1..k : a[i] = s[is[i] + 1]
    <3>1. \A i \in 1..k : 0 + i = i
      BY <2>6
    <3> QED
      BY <3>1, <2>7
  <2> HIDE DEF S, s, a, b
  <2>10. SameBag(s, a \o b)
    BY <2>2, <2>5, <2>7, <2>8, <2>9, DealtBags
  <2> QED
    BY <2>3, <2>10 DEF s, a, b
<1> QED
  BY <1>1, SplitAlways, PTL

LEMMA TablesSound ==
  ASSUME DInv, RectangularTables
  PROVE  Sound(data) /\ Sound(halves.train) /\ Sound(halves.test)
<1>1. Sound(data)
  BY TableColumns DEF Sound
<1>2. CASE halves.result = "Ok"
  <2>1. PICK rows \in row_count(data), N \in SUBSET DOMAIN data :
        \E is \in SetToSeqs(0..(rows - 1)), k \in split_point(rows, split.ratio) :
          /\ rows \in Nat /\ k \in 0..rows
          /\ Takes(halves.train, N, k, is, 0)
          /\ Takes(halves.test, N, rows - k, is, k)
    BY <1>2, SuccessfulSplit
  <2>2. PICK is \in SetToSeqs(0..(rows - 1)), k \in split_point(rows, split.ratio) :
          /\ rows \in Nat /\ k \in 0..rows
          /\ Takes(halves.train, N, k, is, 0)
          /\ Takes(halves.test, N, rows - k, is, k)
    BY <2>1
  <2>3. k \in Nat /\ rows - k \in Nat
    BY <2>2
  <2>4. Sound(halves.train)
    BY <2>2, <2>3, HalfUpright DEF Sound
  <2>5. Sound(halves.test)
    BY <2>2, <2>3, HalfUpright DEF Sound
  <2> QED
    BY <1>1, <2>4, <2>5
<1>3. CASE halves.result # "Ok"
  <2>1. halves.train = NoTables /\ halves.test = NoTables
    BY <1>3 DEF DInv, LastSplit, Outcome
  <2> QED
    BY <1>1, <2>1, NoTablesUpright DEF Sound
<1> QED
  BY <1>2, <1>3

\* What training and inference read of a table is, row by row and feature by
\* feature, what is in its columns, for the table and for its halves.
THEOREM TensorsLaidOut ==
  ASSUME RectangularTables
  PROVE  Spec => []TensorLayout
<1>1. DInv => TensorLayout
  <2> SUFFICES ASSUME DInv, NEW d \in {data, halves.train, halves.test},
                      NEW fs \in FeatureLists, NEW y \in Names,
                      NEW t \in to_tensor(d, fs, y), t.result = "Ok"
               PROVE  /\ \A i \in 1 .. Max(row_count(d)) :
                           /\ t.x[i] = [c \in DOMAIN fs |-> as_f32[d[fs[c]].cells[i]]]
                           /\ t.y[i] = as_f32[d[y].cells[i]]
                      /\ \A s \in to_feature_tensor(d, fs) : s.result = "Ok" /\ s.x = t.x
    BY DEF TensorLayout
  <2>1. Sound(d)
    BY TablesSound
  <2>2. PICK rc : rc \in row_count(d)
    BY DEF row_count
  <2>0. fs \in Seq(Names)
    BY DatasetAssumption
  <2>3. /\ rc \in Nat /\ Max(row_count(d)) = rc
        /\ fs \in Seq(Names) /\ Len(fs) \in Nat /\ DOMAIN fs = 1..Len(fs)
        /\ t = Tensor(RowsOf(d, fs, rc), TargetsOf(d, y, rc))
        /\ \A i \in 1..Len(fs) : Usable(d, fs[i])
        /\ \A n \in DOMAIN d : missing_count(d[n]) \in Nat
    BY <2>1, <2>2, <2>0, SoundTensors
  <2>4. to_feature_tensor(d, fs) = {Tensor(RowsOf(d, fs, rc), <<>>)}
    BY <2>1, <2>2, <2>3, FeatureTensor DEF Sound
  <2>5. t.x = RowsOf(d, fs, rc) /\ t.y = TargetsOf(d, y, rc)
    BY <2>3 DEF Tensor
  <2>6. \A i \in 1..rc :
          /\ t.x[i] = [c \in DOMAIN fs |-> as_f32[d[fs[c]].cells[i]]]
          /\ t.y[i] = as_f32[d[y].cells[i]]
    <3>1. \A i \in 1..rc : t.x[i] = [c \in 1..Len(fs) |-> as_f32[d[fs[c]].cells[i]]]
      BY <2>5, <2>3, Zenon DEF RowsOf
    <3>2. \A i \in 1..rc : t.y[i] = as_f32[d[y].cells[i]]
      BY <2>5, <2>3 DEF TargetsOf
    <3>3. DOMAIN fs = 1..Len(fs)
      BY <2>3
    <3> QED
      BY <3>1, <3>2, <3>3, Zenon
  <2>7. \A s \in to_feature_tensor(d, fs) : s.result = "Ok" /\ s.x = t.x
    BY <2>4, <2>5 DEF Tensor
  <2> QED
    BY <2>3, <2>6, <2>7
<1> QED
  BY <1>1, SplitAlways, PTL

-----------------------------------------------------------------------------
(* The examples of the halves.                                               *)

\* The example that row i of the columns d is, and the m first of them.
Example(d, fs, y, i) ==
  <<[c \in 1..Len(fs) |-> as_f32[d[fs[c]].cells[i]]], as_f32[d[y].cells[i]]>>
AreExamples(ps, d, fs, y, m) ==
  /\ DOMAIN ps = 1..m
  /\ ps = [i \in 1..m |-> Example(d, fs, y, i)]
  /\ \A i \in 1..m : ps[i] = Example(d, fs, y, i)

LEMMA ExamplesOf ==
  ASSUME NEW d, NEW fs, NEW y, NEW m \in Nat,
         NEW t, t = Tensor(RowsOf(d, fs, m), TargetsOf(d, y, m))
  PROVE  AreExamples(Pairs(t), d, fs, y, m)
<1>1. t.x = RowsOf(d, fs, m) /\ t.y = TargetsOf(d, y, m)
  BY DEF Tensor
<1>2. DOMAIN t.y = 1..m
  BY <1>1 DEF TargetsOf
<1>3. \A i \in 1..m : <<t.x[i], t.y[i]>> = Example(d, fs, y, i)
  BY <1>1 DEF RowsOf, TargetsOf, Example
<1>4. Pairs(t) = [i \in 1..m |-> Example(d, fs, y, i)]
  BY <1>2, <1>3 DEF Pairs
<1> QED
  BY <1>4 DEF AreExamples

\* The tensors of a half of k rows, and its examples as the table's.
HalfTensor(h, fs, y, k, is, from) ==
  /\ to_tensor(h, fs, y) = {Tensor(RowsOf(h, fs, k), TargetsOf(h, y, k))}
  /\ \A i \in 1..k : Example(h, fs, y, i) = Example(data, fs, y, is[from + i] + 1)

\* A half of a table whose columns are all usable has usable columns, and its
\* examples are the table's at the indices that it takes.
LEMMA HalfExamples ==
  ASSUME DInv, RectangularTables, NEW rows \in row_count(data),
         NEW is \in SetToSeqs(0..(rows - 1)),
         NEW N \in SUBSET DOMAIN data,
         NEW from \in Nat, NEW k \in Nat, from + k <= rows,
         NEW h, Takes(h, N, k, is, from),
         NEW fs \in Seq(Names), NEW y \in N, ToSet(fs) \subseteq N,
         y \notin ToSet(fs), Usable(data, y),
         \A i \in 1..Len(fs) : Usable(data, fs[i])
  PROVE  HalfTensor(h, fs, y, k, is, from)
<1>1. Len(fs) \in Nat /\ \A c \in 1..Len(fs) : fs[c] \in N
  BY LenProperties DEF ToSet
<1>2. DOMAIN h = N /\ \A n \in N : /\ h[n].variant = data[n].variant
                                   /\ h[n].cells \in Seq(CellValues) /\ len(h[n]) = k
                                   /\ \A i \in 1..k :
                                        h[n].cells[i] = data[n].cells[is[from + i] + 1]
  BY DEF Takes, len
<1>3. /\ rows \in Nat /\ \A n \in N : len(data[n]) = rows
      /\ \A n \in N : data[n].cells \in Seq(CellValues)
  BY TableColumns, RowCountOf
<1>4. \A i \in 1..k : is[from + i] + 1 \in 1..rows
  BY <1>3, TakenIndices
<1>5. ASSUME NEW n \in N, Usable(data, n) PROVE Usable(h, n)
  <2>1. \A i \in 1..rows : data[n].cells[i] # Missing
    BY <1>3, <1>5, MissingCount DEF Usable
  <2>2. ASSUME NEW i \in 1..k PROVE h[n].cells[i] # Missing
    <3>1. h[n].cells[i] = data[n].cells[is[from + i] + 1]
      BY <1>2
    <3>2. is[from + i] + 1 \in 1..rows
      BY <1>4
    <3> QED
      BY <3>1, <3>2, <2>1
  <2>3. missing_count(h[n]) <= 0
    BY <2>2, <1>2, MissingCount
  <2> QED
    BY <2>3, <1>2, <1>5 DEF Usable
<1>6. Upright(h) /\ \A n \in DOMAIN h : missing_count(h[n]) \in Nat
  <2>1. Upright(h)
    BY HalfUpright
  <2> QED
    BY <2>1, <1>2, MissingCount
<1>7. k \in row_count(h)
  <2>1. h[y].rows = k
    BY DEF Takes
  <2> QED
    BY <2>1, <1>2 DEF row_count
<1>8. Usable(h, y) /\ \A i \in 1..Len(fs) : Usable(h, fs[i])
  BY <1>1, <1>5
<1>9. y \in Names
  BY TableColumns
<1>10. to_tensor(h, fs, y) = {Tensor(RowsOf(h, fs, k), TargetsOf(h, y, k))}
  BY <1>6, <1>7, <1>8, <1>9, TrainingTensor
<1>11. ASSUME NEW i \in 1..k
       PROVE  Example(h, fs, y, i) = Example(data, fs, y, is[from + i] + 1)
  BY <1>1, <1>2 DEF Example
<1> QED
  BY <1>10, <1>11 DEF HalfTensor

\* Splitting and making tensors commute: the examples of the halves are those
\* of the table whatever the shuffle, and no half is refused.
THEOREM TensorsCommute ==
  ASSUME RectangularTables
  PROVE  Spec => []TensorsOfHalves
<1>1. DInv => TensorsOfHalves
  <2> SUFFICES ASSUME DInv, halves.result = "Ok",
                      NEW fs \in FeatureLists, NEW y \in DOMAIN halves.train,
                      ToSet(fs) \subseteq DOMAIN halves.train,
                      NEW t \in to_tensor(data, fs, y), t.result = "Ok",
                      NEW train \in to_tensor(halves.train, fs, y),
                      NEW test \in to_tensor(halves.test, fs, y)
               PROVE  /\ train.result = "Ok" /\ test.result = "Ok"
                      /\ SameBag(Pairs(t), Pairs(train) \o Pairs(test))
    BY DEF TensorsOfHalves
  <2>1. PICK rows \in row_count(data), N \in SUBSET DOMAIN data :
        \E is \in SetToSeqs(0..(rows - 1)), k \in split_point(rows, split.ratio) :
          /\ rows \in Nat /\ k \in 0..rows
          /\ Takes(halves.train, N, k, is, 0)
          /\ Takes(halves.test, N, rows - k, is, k)
    BY SuccessfulSplit
  <2>2. PICK is \in SetToSeqs(0..(rows - 1)), k \in split_point(rows, split.ratio) :
          /\ rows \in Nat /\ k \in 0..rows
          /\ Takes(halves.train, N, k, is, 0)
          /\ Takes(halves.test, N, rows - k, is, k)
    BY <2>1
  <2>3. y \in N /\ ToSet(fs) \subseteq N /\ y \in Names
    BY <2>2, TableColumns DEF Takes
  <2>0. fs \in Seq(Names)
    BY DatasetAssumption
  <2>4. /\ fs \in Seq(Names)
        /\ t = Tensor(RowsOf(data, fs, rows), TargetsOf(data, y, rows))
        /\ y \notin ToSet(fs) /\ Usable(data, y)
        /\ \A i \in 1..Len(fs) : Usable(data, fs[i])
    BY <2>3, <2>0, TablesSound, SoundTensors
  <2> DEFINE m == rows - k
             E(i) == Example(data, fs, y, i)
             S == {E(i) : i \in 1..rows}
             s == Pairs(t)
             a == Pairs(train)
             b == Pairs(test)
  <2>5. rows \in Nat /\ k \in Nat /\ m \in Nat /\ 0 + k <= rows /\ k + m <= rows
    BY <2>2
  <2>6. AreExamples(s, data, fs, y, rows)
    BY <2>4, <2>5, ExamplesOf
  <2>7. /\ train = Tensor(RowsOf(halves.train, fs, k), TargetsOf(halves.train, y, k))
        /\ \A i \in 1..k :
             Example(halves.train, fs, y, i) = Example(data, fs, y, is[0 + i] + 1)
    <3>1. 0 \in Nat /\ Takes(halves.train, N, k, is, 0)
      BY <2>2
    <3> HIDE DEF m
    <3>2. HalfTensor(halves.train, fs, y, k, is, 0)
      BY <3>1, <2>3, <2>4, <2>5, HalfExamples
    <3> QED
      BY <3>2 DEF HalfTensor
  <2>8. /\ test = Tensor(RowsOf(halves.test, fs, m), TargetsOf(halves.test, y, m))
        /\ \A i \in 1..m :
             Example(halves.test, fs, y, i) = Example(data, fs, y, is[k + i] + 1)
    <3>1. Takes(halves.test, N, m, is, k)
      BY <2>2
    <3> HIDE DEF m
    <3>2. HalfTensor(halves.test, fs, y, m, is, k)
      BY <3>1, <2>3, <2>4, <2>5, HalfExamples
    <3> QED
      BY <3>2 DEF HalfTensor
  <2>9. AreExamples(a, halves.train, fs, y, k) /\ AreExamples(b, halves.test, fs, y, m)
    BY <2>5, <2>7, <2>8, ExamplesOf
  <2>10. /\ \A i \in 1..k : is[0 + i] + 1 \in 1..rows
         /\ \A i \in 1..m : is[k + i] + 1 \in 1..rows
    <3> HIDE DEF m
    <3> QED
      BY <2>5, TakenIndices
  <2>11. s \in Seq(S) /\ Len(s) = rows /\ \A i \in 1..rows : s[i] = E(i) /\ E(i) \in S
    <3>1. \A i \in 1..rows : E(i) \in S
      OBVIOUS
    <3>2. s = [i \in 1..rows |-> E(i)]
      BY <2>6, Zenon DEF AreExamples
    <3> HIDE DEF s, E, S
    <3> QED
      BY <3>1, <3>2, <2>5
  <2>12. a \in Seq(S) /\ Len(a) = k /\ \A i \in 1..k : a[i] = s[is[i] + 1]
    <3>1. \A i \in 1..k : 0 + i = i
      BY <2>5
    <3>2. /\ DOMAIN a = 1..k /\ a = [i \in 1..k |-> a[i]]
          /\ \A i \in 1..k : is[i] + 1 \in 1..rows /\ a[i] = E(is[i] + 1)
      BY <2>7, <2>9, <2>10, <3>1 DEF AreExamples
    <3> HIDE DEF a, s, E, S, m
    <3>3. \A i \in 1..k : a[i] = s[is[i] + 1] /\ a[i] \in S
      BY <3>2, <2>11
    <3>4. a \in [1..k -> S] /\ k \in Nat
      BY <3>2, <3>3, <2>5
    <3>5. a \in Seq(S) /\ Len(a) = k
      BY <3>4
    <3> QED
      BY <3>3, <3>5
  <2>13. b \in Seq(S) /\ Len(b) = m /\ \A i \in 1..m : b[i] = s[is[k + i] + 1]
    <3>1. /\ DOMAIN b = 1..m /\ b = [i \in 1..m |-> b[i]]
          /\ \A i \in 1..m : is[k + i] + 1 \in 1..rows /\ b[i] = E(is[k + i] + 1)
      BY <2>8, <2>9, <2>10 DEF AreExamples
    <3> HIDE DEF b, s, E, S, m
    <3>2. \A i \in 1..m : b[i] = s[is[k + i] + 1] /\ b[i] \in S
      BY <3>1, <2>11
    <3>3. b \in [1..m -> S] /\ m \in Nat
      BY <3>1, <3>2, <2>5
    <3>4. b \in Seq(S) /\ Len(b) = m
      BY <3>3
    <3> QED
      BY <3>2, <3>4
  <2> HIDE DEF S, s, a, b
  <2>14. SameBag(s, a \o b)
    BY <2>2, <2>5, <2>11, <2>12, <2>13, DealtBags
  <2> QED
    BY <2>7, <2>8, <2>14 DEF s, a, b, Tensor
<1> QED
  BY <1>1, SplitAlways, PTL
==============================================================================
