------------------------------- MODULE MCTable -------------------------------
(***************************************************************************)
(* Small instances of Table.  A column of contents "digits" parses as a     *)
(* number or as text, one of contents "words" as text only; "" is a header  *)
(* that no Column can have as its name.                                     *)
(***************************************************************************)
EXTENDS Table, TLC

MCParsesAs ==
  [k \in Cells |-> IF k = "digits" THEN Variants ELSE Variants \cap {"Text"}]

\* No file (Table::default), files with one and two headers, and a header that
\* is not a valid name.
PlainHeaders == {<<>>, <<"a">>, <<"a", "b">>}
OddHeaders == {<<"a">>, <<"a", "">>}

\* A file that repeats a header.
RepeatedHeaders == {<<"a", "b", "a">>}

BothWrites == {"update_column", "add_column"}
UpdateOnly == {"update_column"}

CallerSymmetry == Permutations(Callers)
==============================================================================
