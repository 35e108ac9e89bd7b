------------------------------ MODULE TableData ------------------------------
(***************************************************************************)
(* The values that src/src/models/table.rs and column.rs move around: a     *)
(* Column<T> with its variant of ColumnData, the two HashMaps of a Table,   *)
(* and the row count every length check of the table relies on.             *)
(*                                                                          *)
(* A column's cells are abstracted to a member of Cells, together with the  *)
(* element types those cells parse into: that is all get_column can tell    *)
(* apart.  The element type T of a generic method is a member of Variants.  *)
(***************************************************************************)
EXTENDS Integers, Functions

CONSTANTS Names,       \* column names, as CSV headers or as Column::name()
          ValidNames,  \* the names that validate_name accepts
          Variants,    \* the typed variants of ColumnData
          Cells,       \* contents of a column
          ParsesAs,    \* element types into which every cell parses
          RowCounts    \* lengths of the columns that callers and CSV files hold

ASSUME TableDataAssumption ==
  /\ ValidNames \subseteq Names
  /\ "Raw" \notin Variants
  /\ ParsesAs \in [Cells -> SUBSET Variants]
  /\ RowCounts \subseteq Nat

\* A Column<T> with the variant T::wrap gives it; its length may be any number
\* (a duplicated CSV header multiplies it), only callers' lengths are bounded.
TypedColumn ==
  [variant : Variants, name : ValidNames, rows : Nat, cells : Cells]

\* ColumnData::Raw has cells but no name of its own.
RawColumn == [variant : {"Raw"}, rows : Nat, cells : Cells]

ColumnData == TypedColumn \cup RawColumn

ColumnState == {"Available", "CheckedOut"}

\* HashMap::insert and HashMap::remove.
insert(map, key, value) ==
  [k \in DOMAIN map \cup {key} |-> IF k = key THEN value ELSE map[k]]
remove(map, key) == Restrict(map, DOMAIN map \ {key})

\* Every result row_count may have on the columns d: it is the length of
\* whichever column the HashMap iterates first, or 0 when there is none.
row_count(d) ==
  IF DOMAIN d = {} THEN {0} ELSE {d[n].rows : n \in DOMAIN d}

\* Mutant: only a longer column is refused.
LongerOnly(rc, col) == rc # 0 /\ rc < col.rows

\* The length check of update_column and add_column, for the row count rc.
LengthMismatch(rc, col) == rc # 0 /\ rc # col.rows

\* Mutant: new_from_raw does not validate the name.
UnwrapsAnyName(col, n, v) ==
  IF col.variant = "Raw"
    THEN col.rows = 0 \/ v \in ParsesAs[col.cells]
    ELSE col.variant = v

\* Does column col of key n come out of the table as a Column of type v?
\* A raw column is parsed cell by cell under the key as its name (no cell, no
\* parse error); a typed one must already be of that variant.
Unwraps(col, n, v) ==
  IF col.variant = "Raw"
    THEN n \in ValidNames /\ (col.rows = 0 \/ v \in ParsesAs[col.cells])
    ELSE col.variant = v

Unwrapped(col, n, v) ==
  IF col.variant = "Raw"
    THEN [variant |-> v, name |-> n, rows |-> col.rows, cells |-> col.cells]
    ELSE col
==============================================================================
