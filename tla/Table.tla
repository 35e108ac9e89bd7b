-------------------------------- MODULE Table --------------------------------
(***************************************************************************)
(* The checkout protocol of src/src/models/table.rs.  get_column moves a    *)
(* column out of the table to a caller, who renames it, edits it or drops   *)
(* it, and update_column or add_column moves a column back in.  Each method *)
(* runs to completion (&mut self), but the columns that callers hold live   *)
(* on between the calls, so the calls of several holders interleave.        *)
(*                                                                          *)
(* A call that is rejected before it touches anything leaves the state      *)
(* alone and is a stuttering step; a call that has consumed its Column      *)
(* argument by value drops it when it fails.                                *)
(***************************************************************************)
EXTENDS TableData, FiniteSets, Sequences

CONSTANTS Callers,      \* places in the program that hold at most one column
          NoColumn,     \* such a place when it is empty
          NoName,       \* the origin of a column that is not a checkout
          HeaderRows,   \* header rows of the CSV files read
          CarefulCalls  \* writes that callers only make when no one else
                        \* holds the name: {"update_column", "add_column"} at most

ASSUME TableAssumption ==
  /\ NoName \notin Names
  /\ NoColumn \notin TypedColumn
  /\ HeaderRows \subseteq Seq(Names)
  /\ CarefulCalls \subseteq {"update_column", "add_column"}

VARIABLES data,       \* Table.data
          checkouts,  \* Table.checkouts
          held,       \* the column each caller owns
          origin      \* the key it was checked out under (a history variable)

vars == <<data, checkouts, held, origin>>

Occurrences(hs, h) == {i \in DOMAIN hs : hs[i] = h}

\* from_csv: one Raw column per distinct header; the cells of a record are
\* pushed once per occurrence of their header.
from_csv(hs, rows, contents) ==
  /\ data = [h \in Range(hs) |->
               [variant |-> "Raw", cells |-> contents[h],
                rows |-> rows * Cardinality(Occurrences(hs, h))]]
  /\ checkouts = [h \in Range(hs) |-> "Available"]

Init ==
  /\ \E hs \in HeaderRows, rows \in RowCounts, contents \in [Names -> Cells] :
        from_csv(hs, rows, contents)
  /\ held = [c \in Callers |-> NoColumn]
  /\ origin = [c \in Callers |-> NoName]

-----------------------------------------------------------------------------
(* The caller's side: Column methods on a column it owns.                    *)

Holds(c, col, n) ==
  /\ held' = [held EXCEPT ![c] = col]
  /\ origin' = [origin EXCEPT ![c] = n]

Consumed(c) == Holds(c, NoColumn, NoName)

\* Column::new_from_parsed.
new_from_parsed(c) ==
  /\ held[c] = NoColumn
  /\ \E v \in Variants, n \in ValidNames, r \in RowCounts, k \in Cells :
        /\ v \in ParsesAs[k]
        /\ Holds(c, [variant |-> v, name |-> n, rows |-> r, cells |-> k], NoName)
  /\ UNCHANGED <<data, checkouts>>

\* Column::update_name; a name that validate_name rejects changes nothing.
update_name(c, n) ==
  /\ held[c] # NoColumn
  /\ n \in ValidNames
  /\ held' = [held EXCEPT ![c].name = n]
  /\ UNCHANGED <<data, checkouts, origin>>

\* Column::update_element and the fills: other cells of the same type.
update_element(c, k) ==
  /\ held[c] # NoColumn
  /\ held[c].variant \in ParsesAs[k]
  /\ held' = [held EXCEPT ![c].cells = k]
  /\ UNCHANGED <<data, checkouts, origin>>

\* Column::remove_element: some rows fewer.
remove_element(c, r) ==
  /\ held[c] # NoColumn
  /\ r < held[c].rows
  /\ held' = [held EXCEPT ![c].rows = r]
  /\ UNCHANGED <<data, checkouts, origin>>

\* The column goes out of scope.
drop(c) ==
  /\ held[c] # NoColumn
  /\ Consumed(c)
  /\ UNCHANGED <<data, checkouts>>

-----------------------------------------------------------------------------
(* The methods of Table.                                                     *)

\* Mutant: the failing exits do not put the column back.
get_column_not_restoring(c, n, v) ==
  /\ held[c] = NoColumn
  /\ n \in DOMAIN checkouts /\ checkouts[n] = "Available"
  /\ n \in DOMAIN data
  /\ data' = remove(data, n)
  /\ \/ /\ Unwraps(data[n], n, v)
        /\ checkouts' = insert(checkouts, n, "CheckedOut")
        /\ Holds(c, Unwrapped(data[n], n, v), n)
     \/ ~Unwraps(data[n], n, v) /\ UNCHANGED <<checkouts, held, origin>>

\* Mutant: the name is marked before the conversion, which loses the column.
get_column_marking_first(c, n, v) ==
  /\ held[c] = NoColumn
  /\ n \in DOMAIN checkouts /\ checkouts[n] = "Available"
  /\ n \in DOMAIN data
  /\ data' = remove(data, n)
  /\ checkouts' = insert(checkouts, n, "CheckedOut")
  /\ IF Unwraps(data[n], n, v) THEN Holds(c, Unwrapped(data[n], n, v), n)
                               ELSE UNCHANGED <<held, origin>>

\* Mutant: the caller gets a clone, the column stays.
get_column_cloning(c, n, v) ==
  /\ held[c] = NoColumn
  /\ n \in DOMAIN checkouts /\ checkouts[n] = "Available"
  /\ n \in DOMAIN data /\ Unwraps(data[n], n, v)
  /\ Holds(c, Unwrapped(data[n], n, v), n)
  /\ UNCHANGED <<data, checkouts>>

\* The column leaves data before it is known whether it has the type asked
\* for; TypeMismatch and ParseFailed put it back as it was.
get_column(c, n, v) ==
  /\ held[c] = NoColumn
  /\ n \in DOMAIN checkouts /\ checkouts[n] = "Available"
  /\ n \in DOMAIN data
  /\ \/ /\ Unwraps(data[n], n, v)
        /\ data' = remove(data, n)
        /\ checkouts' = insert(checkouts, n, "CheckedOut")
        /\ Holds(c, Unwrapped(data[n], n, v), n)
     \/ /\ ~Unwraps(data[n], n, v)
        /\ data' = insert(remove(data, n), n, data[n])
        /\ UNCHANGED <<checkouts, held, origin>>

\* Does the write of caller c under name n respect the other checkouts?
Permitted(call, c, n) ==
  call \in CarefulCalls => \A d \in Callers \ {c} : origin[d] # n

\* Mutant: the column is taken by reference and cloned into the table.
update_column_borrowing(c, n) ==
  /\ held[c] # NoColumn
  /\ Permitted("update_column", c, n)
  /\ n \in DOMAIN checkouts /\ checkouts[n] = "CheckedOut"
  /\ data' = insert(data, n, held[c])
  /\ checkouts' = insert(checkouts, n, "Available")
  /\ UNCHANGED <<held, origin>>

\* Mutant: no length check.
update_column_any_length(c, n) ==
  /\ held[c] # NoColumn
  /\ Permitted("update_column", c, n)
  /\ IF n \in DOMAIN checkouts /\ checkouts[n] = "CheckedOut"
       THEN /\ data' = insert(data, n, held[c])
            /\ checkouts' = insert(checkouts, n, "Available")
       ELSE UNCHANGED <<data, checkouts>>
  /\ Consumed(c)

\* The column is stored under n whatever its own name, type or origin; it is
\* consumed also when the length or the checkout state is wrong.
update_column(c, n) ==
  /\ held[c] # NoColumn
  /\ Permitted("update_column", c, n)
  /\ \E rc \in row_count(data) :
       IF ~LengthMismatch(rc, held[c]) /\ n \in DOMAIN checkouts
                                       /\ checkouts[n] = "CheckedOut"
         THEN /\ data' = insert(data, n, held[c])
              /\ checkouts' = insert(checkouts, n, "Available")
         ELSE UNCHANGED <<data, checkouts>>
  /\ Consumed(c)

\* The name is looked up in data, where a checked-out column is not.
add_column(c) ==
  /\ held[c] # NoColumn
  /\ Permitted("add_column", c, held[c].name)
  /\ \E rc \in row_count(data) :
       IF held[c].name \notin DOMAIN data /\ ~LengthMismatch(rc, held[c])
         THEN /\ data' = insert(data, held[c].name, held[c])
              /\ checkouts' = insert(checkouts, held[c].name, "Available")
         ELSE UNCHANGED <<data, checkouts>>
  /\ Consumed(c)

\* Stored or checked out, the name is forgotten; a column of it that a caller
\* still holds is a checkout no longer.
remove_column(n) ==
  /\ n \in DOMAIN checkouts
  /\ data' = remove(data, n)
  /\ checkouts' = remove(checkouts, n)
  /\ origin' = [c \in Callers |-> IF origin[c] = n THEN NoName ELSE origin[c]]
  /\ UNCHANGED held

CallerStep(c) ==
  \/ new_from_parsed(c)
  \/ \E n \in Names : update_name(c, n)
  \/ \E k \in Cells : update_element(c, k)
  \/ \E r \in RowCounts : remove_element(c, r)
  \/ drop(c)

TableStep(c) ==
  \/ \E n \in Names, v \in Variants : get_column(c, n, v)
  \/ \E n \in Names : update_column(c, n)
  \/ add_column(c)

Next ==
  \/ \E c \in Callers : CallerStep(c) \/ TableStep(c)
  \/ \E n \in Names : remove_column(n)

Spec == Init /\ [][Next]_vars

-----------------------------------------------------------------------------
(* Properties.                                                               *)

\* Types of the variables; an empty place holds nothing that was checked out.
TypeOK ==
  /\ DOMAIN data \subseteq Names
  /\ \A n \in DOMAIN data : data[n] \in ColumnData
  /\ DOMAIN checkouts \subseteq Names
  /\ \A n \in DOMAIN checkouts : checkouts[n] \in ColumnState
  /\ held \in [Callers -> TypedColumn \cup {NoColumn}]
  /\ origin \in [Callers -> Names \cup {NoName}]
  /\ \A c \in Callers : held[c] = NoColumn => origin[c] = NoName

\* The two maps of the table tell one story: a name is Available exactly when
\* its column is inside.  get_column takes the column out before it can fail,
\* so every one of its exits has to leave the maps in step.
StoredIffAvailable ==
  DOMAIN data = {n \in DOMAIN checkouts : checkouts[n] = "Available"}

\* "Only one caller can hold a column checked out at a time" (get_column).
OneHolder ==
  \A c, d \in Callers : c # d /\ origin[c] # NoName => origin[c] # origin[d]

\* Columns that a caller holds as checkouts are missing from the table: no
\* second copy of a name can be handed out while the first is out.
HeldIsOut ==
  \A c \in Callers : origin[c] # NoName =>
     /\ origin[c] \in DOMAIN checkouts
     /\ checkouts[origin[c]] = "CheckedOut"

\* All columns in the table have the same length, the first line of Table's
\* doc.  It needs header rows without duplicates and columns with a row.
Rectangular ==
  \A m, n \in DOMAIN data : data[m].rows = data[n].rows

\* A checkout that fits the table keeps fitting as long as some column stays
\* inside: only through a table without columns can the row count change.
RowCountStable ==
  [][DOMAIN data # {} /\ DOMAIN data' # {}
       => row_count(data') = row_count(data)]_vars

\* Where the column of a name is: inside the table, with a caller, nowhere
\* although its checkout is still open, or the name is unknown.
Owner(n) ==
  IF n \in DOMAIN data THEN "table"
  ELSE IF n \notin DOMAIN checkouts THEN "absent"
  ELSE IF \E c \in Callers : origin[c] = n
    THEN CHOOSE c \in Callers : origin[c] = n
    ELSE "lost"

\* The ownership of a name moves along the protocol only: a caller gets it
\* from the table and from nowhere else, never straight from another caller,
\* and the table itself never loses a column without forgetting its name.
OwnershipMoves ==
  [][\A n \in Names :
       Owner(n)' # Owner(n) =>
         CASE Owner(n) = "absent" -> Owner(n)' = "table"
           [] Owner(n) = "table"  -> Owner(n)' \in Callers \cup {"absent"}
           [] Owner(n) = "lost"   -> Owner(n)' \in {"table", "absent"}
           [] OTHER               -> Owner(n)' \in {"table", "absent", "lost"}]_vars
==============================================================================
