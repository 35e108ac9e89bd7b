------------------------------ MODULE CellData ------------------------------
(***************************************************************************)
(* TableData with columns whose cells are spelled out: the cells of a       *)
(* column are a sequence of numbers (a bool is 1 or 0) or Missing, and its  *)
(* rows are their length.  Row indices count from 0, as in the code.        *)
(***************************************************************************)
EXTENDS TableData, SequencesExt

CONSTANTS Missing,  \* None
          as_f32    \* what the cast to f32 makes of each number

ASSUME CellDataAssumption ==
  /\ Cells \subseteq Seq(DOMAIN as_f32 \cup {Missing})
  /\ Missing \notin DOMAIN as_f32
  /\ \A x \in DOMAIN as_f32 :
       as_f32[x] \in DOMAIN as_f32 /\ as_f32[as_f32[x]] = as_f32[x]

\* The variants whose cells can be cast; Text and Raw cannot.
Numeric == {"Int", "Float", "Bool"}

len(col) == Len(col.cells)

\* Column::get, flattened: out of bounds and missing are the same to callers.
get(col, i) == IF i < len(col) THEN col.cells[i + 1] ELSE Missing

\* The cells that are not missing, in their order.
present_values(col) ==
  LET present[i \in 0..len(col)] ==
        IF i = 0 THEN <<>>
        ELSE IF col.cells[i] = Missing THEN present[i - 1]
        ELSE Append(present[i - 1], col.cells[i])
  IN present[len(col)]

missing_count(col) == Cardinality({i \in DOMAIN col.cells : col.cells[i] = Missing})

\* Mutant: the indices are taken to count from 1.
select_rows_from_one(col, is) ==
  [col EXCEPT !.rows = Len(is), !.cells = [k \in DOMAIN is |-> get(col, is[k] + 1)]]

\* The same variant and name, with the cells at the indices, in their order.
select_rows(col, is) ==
  [col EXCEPT !.rows = Len(is), !.cells = [k \in DOMAIN is |-> get(col, is[k])]]
=============================================================================
