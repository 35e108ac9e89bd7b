------------------------------ MODULE MCColumn ------------------------------
(* Small columns of src/src/models/column.rs for TLC.                       *)
EXTENDS Column

MCValues == -2 .. 2

\* Two huge numbers on either side of 0, a tiny one, and two plain ones.
MCHuge == {-2, 2}
MCTiny == {-1}

\* The call that led to a state does not bear on what follows: states are
\* told apart by the column, and every step is checked with its call.
TheColumn == <<data, behaviors>>
=============================================================================
