------------------------------- MODULE Dataset -------------------------------
(***************************************************************************)
(* train_test_split of src/src/models/table/split.rs on a table whose       *)
(* columns may be out with callers, and the tensors (Tensors) that training *)
(* makes of the table and of its two halves.                                *)
(***************************************************************************)
EXTENDS Tensors

CONSTANTS Tables,       \* tables that are split: [data, checkouts]
          Ratios,       \* ratios <<n, d>>, for n / d
          None,         \* None for the argument columns
          ColumnLists,  \* the other arguments columns: lists of names
          FeatureLists  \* arguments feature_columns of to_tensor

ASSUME DatasetAssumption ==
  /\ \A t \in Tables :
       /\ t = [data |-> t.data, checkouts |-> t.checkouts]
       /\ DOMAIN t.data \subseteq Names /\ DOMAIN t.checkouts \subseteq Names
       /\ IsFiniteSet(DOMAIN t.checkouts)
       /\ \A n \in DOMAIN t.data :
            t.data[n] \in ColumnData /\ t.data[n].rows = Len(t.data[n].cells)
       /\ \A n \in DOMAIN t.checkouts : t.checkouts[n] \in ColumnState
       /\ DOMAIN t.data = {n \in DOMAIN t.checkouts : t.checkouts[n] = "Available"}
  /\ Ratios \subseteq Nat \X (Nat \ {0})
  /\ ColumnLists \subseteq Seq(Names) /\ None \notin ColumnLists
  /\ FeatureLists \subseteq Seq(Names)

VARIABLES data,       \* Table.data
          checkouts,  \* Table.checkouts
          split,      \* the arguments of the last split
          halves      \* what it returned

vars == <<data, checkouts, split, halves>>

NoTables == [n \in {} |-> Missing]
Returned(result, train, test) ==
  halves' = [result |-> result, train |-> train, test |-> test]

Init ==
  /\ \E t \in Tables : data = t.data /\ checkouts = t.checkouts
  /\ split = [ratio |-> <<0, 1>>, columns |-> None]
  /\ halves = [result |-> "None", train |-> NoTables, test |-> NoTables]

-----------------------------------------------------------------------------

\* Mutant: the quotient is rounded up.
split_point_up(rows, ratio) == {(rows * ratio[1] + ratio[2] - 1) \div ratio[2]}

\* (len as f64 * ratio) as usize: cut to an integer.  The product may be rounded
\* below an integer that it should be (100.0 * 0.29); here by any ratio that is
\* not an integer.
split_point(rows, ratio) ==
  LET k == (rows * ratio[1]) \div ratio[2]
  IN IF k > 0 /\ k * ratio[2] = rows * ratio[1] /\ ratio[1] % ratio[2] # 0
       THEN {k, k - 1} ELSE {k}

\* Mutant: the columns inside the table, which leaves out the others.
column_names_inside(columns) ==
  IF columns # None THEN {columns} ELSE SetToSeqs(DOMAIN data)

\* The names in the orders they may be walked in.
column_names(columns) ==
  IF columns # None THEN {columns} ELSE SetToSeqs(DOMAIN checkouts)

\* The first error in the order of the names.
split_error(names) ==
  LET Error(n) == IF n \notin DOMAIN checkouts THEN "ColumnNotFound"
                  ELSE IF checkouts[n] = "CheckedOut" THEN "ColumnNotAvailable"
                  ELSE IF n \notin DOMAIN data THEN "ColumnNotFound"
                  ELSE "Ok"
      i == SelectInSeq(names, LAMBDA n : Error(n) # "Ok")
  IN IF i = 0 THEN "Ok" ELSE Error(names[i])

\* Mutant: the indices are shuffled anew for every column.
half_reshuffled(names, is) ==
  [n \in ToSet(names) |->
     select_rows(data[n], IF n = names[1] THEN is ELSE Reverse(is))]

\* The rows is of the named columns; all of them are Available.
half(names, is) == [n \in ToSet(names) |-> select_rows(data[n], is)]

\* Mutant: both halves leave the row at the split point out.
train_test_split_gap(ratio, columns) ==
  \E rows \in row_count(data), names \in column_names(columns) :
  \E indices \in SetToSeqs(0 .. rows - 1), k \in split_point(rows, ratio) :
     /\ split' = [ratio |-> ratio, columns |-> columns]
     /\ k <= rows /\ split_error(names) = "Ok"
     /\ Returned("Ok", half(names, SubSeq(indices, 1, k)),
                       half(names, SubSeq(indices, k + 2, rows)))
     /\ UNCHANGED <<data, checkouts>>

\* Any seed may give any order of the rows.  Slicing past the end panics.
train_test_split(ratio, columns) ==
  \E rows \in row_count(data), names \in column_names(columns) :
  \E indices \in SetToSeqs(0 .. rows - 1), k \in split_point(rows, ratio) :
     /\ split' = [ratio |-> ratio, columns |-> columns]
     /\ \/ k > rows /\ Returned("panic", NoTables, NoTables)
        \/ /\ k <= rows /\ split_error(names) # "Ok"
           /\ Returned(split_error(names), NoTables, NoTables)
        \/ /\ k <= rows /\ split_error(names) = "Ok"
           /\ Returned("Ok", half(names, SubSeq(indices, 1, k)),
                             half(names, SubSeq(indices, k + 1, rows)))
     /\ UNCHANGED <<data, checkouts>>

Next ==
  \E ratio \in Ratios, columns \in ColumnLists \cup {None} :
    train_test_split(ratio, columns)

Spec == Init /\ [][Next]_vars

-----------------------------------------------------------------------------
(* Properties.                                                               *)

\* The columns of a half have the table's variants and no cell, missing or not,
\* that the column of the table does not have.
HalfOK(h) ==
  \A n \in DOMAIN h :
    /\ h[n].variant = data[n].variant
    /\ h[n].rows = Len(h[n].cells)
    /\ ToSet(h[n].cells) \subseteq ToSet(data[n].cells)

\* Types of the variables.
TypeOK ==
  /\ [data |-> data, checkouts |-> checkouts] \in Tables
  /\ split \in [ratio : Ratios \cup {<<0, 1>>}, columns : ColumnLists \cup {None}]
  /\ halves.result \in TableError \cup {"None", "Ok", "panic"}
  /\ HalfOK(halves.train) /\ HalfOK(halves.test)

\* The rows of the named columns, as tuples across the columns.
Rows(d, names) ==
  [i \in 1 .. Max(row_count(d)) |-> [n \in names |-> get(d[n], i - 1)]]

SameBag(s, t) ==
  /\ Len(s) = Len(t)
  /\ \A w \in ToSet(s) \cup ToSet(t) :
       Cardinality({i \in DOMAIN s : s[i] = w}) = Cardinality({i \in DOMAIN t : t[i] = w})

\* A split that succeeds deals every row of the table to exactly one half, all
\* cells of a row to the same one and in the same place.
HalvesPartition ==
  halves.result = "Ok" /\ DOMAIN halves.train # {} =>
    LET names == DOMAIN halves.train
    IN /\ DOMAIN halves.test = names
       /\ SameBag(Rows(data, names),
                  Rows(halves.train, names) \o Rows(halves.test, names))

\* split.rs: "ratio is the fraction of rows assigned to the train table", short
\* of it by less than one row and a rounding; no ratio up to 1 panics.
RatioRespected ==
  LET n == split.ratio[1]  d == split.ratio[2]
  IN /\ halves.result = "panic" => n > d
     /\ \A m \in DOMAIN halves.train :
          n * data[m].rows - d * halves.train[m].rows \in 0 .. d

\* "None includes every column the table currently has (including checked-out
\* ones, which then triggers the error below)": none is dropped silently.
NoColumnDropped ==
  halves.result \notin {"None", "panic"} /\ split.columns = None =>
    IF DOMAIN checkouts = DOMAIN data
      THEN halves.result = "Ok" /\ DOMAIN halves.train = DOMAIN checkouts
      ELSE halves.result = "ColumnNotAvailable"

Pairs(t) == [i \in DOMAIN t.y |-> <<t.x[i], t.y[i]>>]

\* Tensors commute with splitting: whatever the shuffle, the examples (x, y) of
\* the halves are those of the table; a half is never refused if the table with
\* the same columns is not.
TensorsOfHalves ==
  halves.result = "Ok" =>
    \A fs \in FeatureLists, y \in DOMAIN halves.train :
      ToSet(fs) \subseteq DOMAIN halves.train =>
        \A t \in to_tensor(data, fs, y) : t.result = "Ok" =>
          \A train \in to_tensor(halves.train, fs, y),
             test \in to_tensor(halves.test, fs, y) :
            /\ train.result = "Ok" /\ test.result = "Ok"
            /\ SameBag(Pairs(t), Pairs(train) \o Pairs(test))

\* tensor.rs: "Values are read in feature_columns' order and cast to f32": what
\* is pushed cell by cell comes out of the shape under its row and its column,
\* the same for training and for inference.
TensorLayout ==
  \A d \in {data, halves.train, halves.test}, fs \in FeatureLists, y \in Names :
    \A t \in to_tensor(d, fs, y) : t.result = "Ok" =>
      /\ \A i \in 1 .. Max(row_count(d)) :
           /\ t.x[i] = [c \in DOMAIN fs |-> as_f32[d[fs[c]].cells[i]]]
           /\ t.y[i] = as_f32[d[y].cells[i]]
      /\ \A s \in to_feature_tensor(d, fs) : s.result = "Ok" /\ s.x = t.x
=============================================================================
