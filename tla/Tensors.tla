------------------------------- MODULE Tensors -------------------------------
(***************************************************************************)
(* src/src/models/table/tensor.rs: which cell of which column lands where   *)
(* in the tensors, and which inputs are refused.  d is Table.data.  The     *)
(* results are sets, since row_count is any column's length.                *)
(***************************************************************************)
EXTENDS CellData

TableError ==
  {"OpenFileError", "HeadersReadingError", "RowReadingError", "ColumnNotAvailable",
   "ColumnNotFound", "ParseFailed", "TypeMismatch", "ColumnLengthMismatch",
   "ColumnNotCheckedOut", "ColumnNotUpdated", "ColumnAlreadyExists",
   "NonNumericColumn", "MissingValuesPresent", "TensorCreationFailed",
   "TargetColumnInFeatures"}

Tensor(x, y) == [result |-> "Ok", x |-> x, y |-> y]
NoTensor(error) == [result |-> error, x |-> <<>>, y |-> <<>>]

\* What check_missing_and_type finds of one column.
ColumnError(d, n) ==
  IF n \notin DOMAIN d THEN "ColumnNotFound"
  ELSE IF d[n].variant \notin Numeric THEN "NonNumericColumn"
  ELSE IF missing_count(d[n]) > 0 THEN "MissingValuesPresent"
  ELSE "None"

\* The first error in the order of the names.
check_missing_and_type(d, names) ==
  LET i == SelectInSeq(names, LAMBDA n : ColumnError(d, n) # "None")
  IN IF i = 0 THEN "None" ELSE ColumnError(d, names[i])

\* The loops read row_count cells of every column; a shorter one has no cell.
Short(d, names, rc) == \E n \in ToSet(names) : len(d[n]) < rc

\* Mutant: one column is pushed after the other.
flat_by_column(d, names, rc) ==
  [k \in 1 .. rc * Len(names) |->
     as_f32[get(d[names[((k - 1) \div rc) + 1]], (k - 1) % rc)]]

\* The Vec the loops push to: row after row, in each the columns in order.
flat(d, names, rc) ==
  [k \in 1 .. rc * Len(names) |->
     as_f32[get(d[names[((k - 1) % Len(names)) + 1]], (k - 1) \div Len(names))]]

\* Tensor::from_vec with a shape of two dimensions: row-major.
from_vec(v, rows, columns) ==
  [r \in 1 .. rows |-> [c \in 1 .. columns |-> v[(r - 1) * columns + c]]]

to_feature_tensor(d, features) ==
  LET error == check_missing_and_type(d, features)
  IN IF error # "None" THEN {NoTensor(error)}
     ELSE {IF Short(d, features, rc) THEN NoTensor("MissingValuesPresent")
           ELSE Tensor(from_vec(flat(d, features, rc), rc, Len(features)), <<>>)
           : rc \in row_count(d)}

to_tensor(d, features, target) ==
  LET combined == Append(features, target)
      error == check_missing_and_type(d, combined)
  IN IF target \in ToSet(features) THEN {NoTensor("TargetColumnInFeatures")}
     ELSE IF error # "None" THEN {NoTensor(error)}
     ELSE {IF Short(d, combined, rc) THEN NoTensor("MissingValuesPresent")
           ELSE Tensor(from_vec(flat(d, features, rc), rc, Len(features)),
                       flat(d, <<target>>, rc))
           : rc \in row_count(d)}
=============================================================================
