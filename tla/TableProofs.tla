----------------------------- MODULE TableProofs -----------------------------
(***************************************************************************)
(* Theorems about Table for any names, variants, callers and lengths.       *)
(***************************************************************************)
EXTENDS Table, FiniteSetTheorems, TLAPS

\* Typed and raw columns are told apart by their variant.
LEMMA ColumnKinds ==
  ASSUME NEW col \in ColumnData
  PROVE  /\ col.rows \in Nat
         /\ col.variant = "Raw" => col \in RawColumn
         /\ col.variant # "Raw" => col \in TypedColumn
BY TableDataAssumption DEF ColumnData, TypedColumn, RawColumn

\* What get_column hands out is a typed column, as long as the one it took.
LEMMA UnwrappedType ==
  ASSUME NEW col \in ColumnData, NEW n \in Names, NEW v \in Variants,
         Unwraps(col, n, v)
  PROVE  /\ Unwrapped(col, n, v) \in TypedColumn
         /\ Unwrapped(col, n, v).rows = col.rows
<1>1. CASE col.variant = "Raw"
  <2>1. col \in RawColumn
    BY <1>1, ColumnKinds
  <2>2. n \in ValidNames
    BY <1>1 DEF Unwraps
  <2> QED
    BY <1>1, <2>1, <2>2 DEF Unwrapped, TypedColumn, RawColumn
<1>2. CASE col.variant # "Raw"
  BY <1>2, ColumnKinds DEF Unwrapped
<1> QED
  BY <1>1, <1>2

\* The positions of a header are finitely many.
LEMMA OccurrencesCount ==
  ASSUME NEW hs \in HeaderRows, NEW h \in Names
  PROVE  Cardinality(Occurrences(hs, h)) \in Nat
<1>1. hs \in Seq(Names)
  BY TableAssumption
<1>2. Occurrences(hs, h) \subseteq 1..Len(hs) /\ Len(hs) \in Nat
  BY <1>1 DEF Occurrences
<1>3. IsFiniteSet(1..Len(hs))
  BY <1>2, FS_Interval
<1>4. IsFiniteSet(Occurrences(hs, h))
  BY <1>2, <1>3, FS_Subset
<1> QED
  BY <1>4, FS_CardinalityType

-----------------------------------------------------------------------------
(* Types.                                                                    *)

MapsOK ==
  /\ DOMAIN data \subseteq Names
  /\ \A n \in DOMAIN data : data[n] \in ColumnData
  /\ DOMAIN checkouts \subseteq Names
  /\ \A n \in DOMAIN checkouts : checkouts[n] \in ColumnState

HeldOK ==
  /\ held \in [Callers -> TypedColumn \cup {NoColumn}]
  /\ origin \in [Callers -> Names \cup {NoName}]
  /\ \A c \in Callers : held[c] = NoColumn => origin[c] = NoName

\* A caller that takes or lets go of a column keeps the types of the callers.
LEMMA HoldsType ==
  ASSUME HeldOK, NEW c \in Callers, NEW col \in TypedColumn \cup {NoColumn},
         NEW n \in Names \cup {NoName}, col = NoColumn => n = NoName,
         Holds(c, col, n)
  PROVE  HeldOK'
BY DEF HeldOK, Holds

LEMMA ConsumedType ==
  ASSUME HeldOK, NEW c \in Callers, Consumed(c)
  PROVE  HeldOK'
BY HoldsType DEF Consumed

\* A column stored in the table as Available keeps the types of the maps.
LEMMA StoredType ==
  ASSUME MapsOK, NEW n \in Names, NEW col \in ColumnData,
         data' = insert(data, n, col),
         checkouts' = insert(checkouts, n, "Available")
  PROVE  MapsOK'
BY DEF MapsOK, insert, ColumnState

\* The initial tables are well typed: one raw column per header.
LEMMA InitType == Init => TypeOK
<1> SUFFICES ASSUME Init PROVE TypeOK
  OBVIOUS
<1>1. PICK hs \in HeaderRows, rows \in RowCounts, contents \in [Names -> Cells] :
         from_csv(hs, rows, contents)
  BY DEF Init
<1>2. Range(hs) \subseteq Names
  BY TableAssumption DEF Range
<1>3. \A h \in Range(hs) : data[h] \in ColumnData
  <2> SUFFICES ASSUME NEW h \in Range(hs) PROVE data[h] \in ColumnData
    OBVIOUS
  <2>1. rows \in Nat /\ Cardinality(Occurrences(hs, h)) \in Nat
    BY <1>2, OccurrencesCount, TableDataAssumption
  <2>2. rows * Cardinality(Occurrences(hs, h)) \in Nat
    BY <2>1
  <2>3. contents[h] \in Cells
    BY <1>2
  <2> QED
    BY <1>1, <2>2, <2>3 DEF from_csv, ColumnData, RawColumn
<1>4. MapsOK
  BY <1>1, <1>2, <1>3 DEF from_csv, MapsOK, ColumnState
<1>5. HeldOK
  BY DEF Init, HeldOK
<1> QED
  BY <1>4, <1>5 DEF TypeOK, MapsOK, HeldOK

\* Every method keeps the types: what a caller holds is typed, so what it
\* writes back is.
LEMMA StepType == TypeOK /\ [Next]_vars => TypeOK'
<1> SUFFICES ASSUME TypeOK, [Next]_vars PROVE TypeOK'
  OBVIOUS
<1>0. MapsOK /\ HeldOK
  BY DEF TypeOK, MapsOK, HeldOK
<1>a. ASSUME UNCHANGED <<data, checkouts>> PROVE MapsOK'
  BY <1>0, <1>a DEF MapsOK
<1>b. ASSUME UNCHANGED <<held, origin>> PROVE HeldOK'
  BY <1>0, <1>b DEF HeldOK
<1>1. ASSUME NEW c \in Callers, CallerStep(c) PROVE MapsOK' /\ HeldOK'
  <2>1. CASE new_from_parsed(c)
    <3>1. PICK v \in Variants, n \in ValidNames, r \in RowCounts, k \in Cells :
             Holds(c, [variant |-> v, name |-> n, rows |-> r, cells |-> k], NoName)
      BY <2>1 DEF new_from_parsed
    <3>2. [variant |-> v, name |-> n, rows |-> r, cells |-> k] \in TypedColumn
      BY TableDataAssumption DEF TypedColumn
    <3>3. [variant |-> v, name |-> n, rows |-> r, cells |-> k] # NoColumn
      BY <3>2, TableAssumption
    <3> QED
      BY <1>0, <1>a, <2>1, <3>1, <3>2, <3>3, HoldsType DEF new_from_parsed
  <2>2. ASSUME NEW n \in Names, update_name(c, n) PROVE MapsOK' /\ HeldOK'
    <3>1. held[c] \in TypedColumn /\ held[c] # NoColumn
      BY <1>0, <2>2 DEF update_name, HeldOK
    <3>2. [held[c] EXCEPT !.name = n] \in TypedColumn
      BY <2>2, <3>1 DEF update_name, TypedColumn
    <3>3. [held[c] EXCEPT !.name = n] # NoColumn
      BY <3>2, TableAssumption
    <3> QED
      BY <1>0, <1>a, <2>2, <3>1, <3>2, <3>3 DEF update_name, HeldOK
  <2>3. ASSUME NEW k \in Cells, update_element(c, k) PROVE MapsOK' /\ HeldOK'
    <3>1. held[c] \in TypedColumn /\ held[c] # NoColumn
      BY <1>0, <2>3 DEF update_element, HeldOK
    <3>2. [held[c] EXCEPT !.cells = k] \in TypedColumn
      BY <2>3, <3>1 DEF TypedColumn
    <3>3. [held[c] EXCEPT !.cells = k] # NoColumn
      BY <3>2, TableAssumption
    <3> QED
      BY <1>0, <1>a, <2>3, <3>1, <3>2, <3>3 DEF update_element, HeldOK
  <2>4. ASSUME NEW r \in RowCounts, remove_element(c, r) PROVE MapsOK' /\ HeldOK'
    <3>1. held[c] \in TypedColumn /\ held[c] # NoColumn
      BY <1>0, <2>4 DEF remove_element, HeldOK
    <3>2. [held[c] EXCEPT !.rows = r] \in TypedColumn
      BY <2>4, <3>1, TableDataAssumption DEF TypedColumn
    <3>3. [held[c] EXCEPT !.rows = r] # NoColumn
      BY <3>2, TableAssumption
    <3> QED
      BY <1>0, <1>a, <2>4, <3>1, <3>2, <3>3 DEF remove_element, HeldOK
  <2>5. CASE drop(c)
    BY <1>0, <1>a, <2>5, ConsumedType DEF drop
  <2> QED
    BY <1>1, <2>1, <2>2, <2>3, <2>4, <2>5 DEF CallerStep
<1>2. ASSUME NEW c \in Callers, NEW n \in Names, NEW v \in Variants,
             get_column(c, n, v)
      PROVE  MapsOK' /\ HeldOK'
  <2>0. data[n] \in ColumnData
    BY <1>0, <1>2 DEF get_column, MapsOK
  <2>1. CASE Unwraps(data[n], n, v)
    <3>1. /\ data' = remove(data, n)
          /\ checkouts' = insert(checkouts, n, "CheckedOut")
          /\ Holds(c, Unwrapped(data[n], n, v), n)
      BY <1>2, <2>1 DEF get_column
    <3>2. MapsOK'
      BY <1>0, <3>1 DEF MapsOK, remove, Restrict, insert, ColumnState
    <3>3. Unwrapped(data[n], n, v) \in TypedColumn
      BY <2>0, <2>1, UnwrappedType
    <3>4. Unwrapped(data[n], n, v) # NoColumn
      BY <3>3, TableAssumption
    <3> QED
      BY <1>0, <3>1, <3>2, <3>3, <3>4, HoldsType
  <2>2. CASE ~Unwraps(data[n], n, v)
    <3>1. data' = insert(remove(data, n), n, data[n])
          /\ UNCHANGED <<checkouts, held, origin>>
      BY <1>2, <2>2 DEF get_column
    <3> QED
      BY <1>0, <1>b, <2>0, <3>1 DEF MapsOK, remove, Restrict, insert
  <2> QED
    BY <2>1, <2>2
<1>3. ASSUME NEW c \in Callers, NEW n \in Names, update_column(c, n)
      PROVE  MapsOK' /\ HeldOK'
  <2>1. held[c] \in TypedColumn /\ Consumed(c)
    BY <1>0, <1>3 DEF update_column, HeldOK
  <2>2. \/ UNCHANGED <<data, checkouts>>
        \/ /\ data' = insert(data, n, held[c])
           /\ checkouts' = insert(checkouts, n, "Available")
    BY <1>3 DEF update_column
  <2> QED
    BY <1>0, <1>a, <2>1, <2>2, ConsumedType, StoredType DEF ColumnData
<1>4. ASSUME NEW c \in Callers, add_column(c) PROVE MapsOK' /\ HeldOK'
  <2>1. held[c] \in TypedColumn /\ Consumed(c)
    BY <1>0, <1>4 DEF add_column, HeldOK
  <2>2. \/ UNCHANGED <<data, checkouts>>
        \/ /\ data' = insert(data, held[c].name, held[c])
           /\ checkouts' = insert(checkouts, held[c].name, "Available")
    BY <1>4 DEF add_column
  <2>3. held[c].name \in Names
    BY <2>1, TableDataAssumption DEF TypedColumn
  <2> QED
    BY <1>0, <1>a, <2>1, <2>2, <2>3, ConsumedType, StoredType DEF ColumnData
<1>5. ASSUME NEW n \in Names, remove_column(n) PROVE MapsOK' /\ HeldOK'
  BY <1>0, <1>5 DEF remove_column, MapsOK, HeldOK, remove, Restrict
<1>6. CASE UNCHANGED vars
  BY <1>a, <1>b, <1>6 DEF vars, TypeOK, MapsOK, HeldOK
<1>7. MapsOK' /\ HeldOK'
  BY <1>1, <1>2, <1>3, <1>4, <1>5, <1>a, <1>b DEF Next, TableStep, vars
<1> QED
  BY <1>7 DEF TypeOK, MapsOK, HeldOK

\* Whatever its callers do, the table's maps and the columns in flight are of
\* their types; a caller without a column has no checkout.
THEOREM TypeCorrectness == Spec => []TypeOK
BY InitType, StepType, PTL DEF Spec

-----------------------------------------------------------------------------
(* The two maps.                                                             *)

\* Every exit of every method leaves the two maps in step, get_column's
\* failures and a column added over an open checkout included.
THEOREM MapsInStep == Spec => []StoredIffAvailable
<1>1. Init => StoredIffAvailable
  BY DEF Init, from_csv, StoredIffAvailable
<1>2. StoredIffAvailable /\ [Next]_vars => StoredIffAvailable'
  <2> SUFFICES ASSUME StoredIffAvailable, [Next]_vars
               PROVE  StoredIffAvailable'
    OBVIOUS
  <2>0. ASSUME UNCHANGED <<data, checkouts>> PROVE StoredIffAvailable'
    BY <2>0 DEF StoredIffAvailable
  <2>a. ASSUME NEW n, NEW col,
               data' = insert(data, n, col),
               checkouts' = insert(checkouts, n, "Available")
        PROVE  StoredIffAvailable'
    BY <2>a DEF StoredIffAvailable, insert
  <2>1. ASSUME NEW c \in Callers, CallerStep(c) PROVE StoredIffAvailable'
    BY <2>0, <2>1 DEF CallerStep, new_from_parsed, update_name, update_element,
                      remove_element, drop
  <2>2. ASSUME NEW c \in Callers, NEW n \in Names, NEW v \in Variants,
               get_column(c, n, v)
        PROVE  StoredIffAvailable'
    <3>1. CASE Unwraps(data[n], n, v)
      BY <2>2, <3>1 DEF get_column, StoredIffAvailable, remove, Restrict, insert
    <3>2. CASE ~Unwraps(data[n], n, v)
      BY <2>2, <3>2 DEF get_column, StoredIffAvailable, remove, Restrict, insert
    <3> QED
      BY <3>1, <3>2
  <2>3. ASSUME NEW c \in Callers, NEW n \in Names, update_column(c, n)
        PROVE  StoredIffAvailable'
    BY <2>0, <2>a, <2>3 DEF update_column
  <2>4. ASSUME NEW c \in Callers, add_column(c) PROVE StoredIffAvailable'
    BY <2>0, <2>a, <2>4 DEF add_column
  <2>5. ASSUME NEW n \in Names, remove_column(n) PROVE StoredIffAvailable'
    BY <2>5 DEF remove_column, StoredIffAvailable, remove, Restrict
  <2> QED
    BY <2>0, <2>1, <2>2, <2>3, <2>4, <2>5 DEF Next, TableStep, vars
<1> QED
  BY <1>1, <1>2, PTL DEF Spec

-----------------------------------------------------------------------------
(* Exclusive checkouts.                                                      *)

\* The assumption under which a checkout is exclusive: nobody writes a column
\* under a name that another caller holds.
Careful == CarefulCalls = {"update_column", "add_column"}

\* A write by c under n makes n Available, and no other caller holds n then.
LEMMA WriteKeepsHolders ==
  ASSUME TypeOK, HeldIsOut, OneHolder, NEW c \in Callers, NEW n \in Names,
         \A d \in Callers \ {c} : origin[d] # n,
         Consumed(c),
         \/ UNCHANGED checkouts
         \/ checkouts' = insert(checkouts, n, "Available")
  PROVE  HeldIsOut' /\ OneHolder'
<1>1. \A d \in Callers : origin'[d] = IF d = c THEN NoName ELSE origin[d]
  BY DEF Consumed, Holds, TypeOK
<1>2. OneHolder'
  BY <1>1 DEF OneHolder
<1>3. HeldIsOut'
  <2> SUFFICES ASSUME NEW d \in Callers, origin'[d] # NoName
               PROVE  /\ origin'[d] \in DOMAIN checkouts'
                      /\ checkouts'[origin'[d]] = "CheckedOut"
    BY DEF HeldIsOut
  <2>1. d # c /\ origin'[d] = origin[d] /\ origin[d] # n
    BY <1>1
  <2>2. origin[d] \in DOMAIN checkouts /\ checkouts[origin[d]] = "CheckedOut"
    BY <2>1 DEF HeldIsOut
  <2> QED
    BY <2>1, <2>2 DEF insert
<1> QED
  BY <1>2, <1>3

\* Neither property is inductive alone: that a name can be taken by one caller
\* only, needs that whoever holds it keeps it CheckedOut.
LEMMA CheckoutStep ==
  ASSUME Careful, TypeOK, HeldIsOut, OneHolder, [Next]_vars
  PROVE  HeldIsOut' /\ OneHolder'
<1>0. ASSUME UNCHANGED <<checkouts, origin>> PROVE HeldIsOut' /\ OneHolder'
  BY <1>0 DEF HeldIsOut, OneHolder
<1>a. ASSUME NEW c \in Callers, UNCHANGED checkouts,
             \A d \in Callers : origin'[d] \in {origin[d], NoName}
      PROVE  HeldIsOut' /\ OneHolder'
  BY <1>a DEF HeldIsOut, OneHolder
<1>1. ASSUME NEW c \in Callers, CallerStep(c) PROVE HeldIsOut' /\ OneHolder'
  <2>1. CASE new_from_parsed(c) \/ drop(c)
    <3>1. UNCHANGED checkouts
          /\ \A d \in Callers : origin'[d] \in {origin[d], NoName}
      BY <2>1 DEF new_from_parsed, drop, Consumed, Holds, TypeOK
    <3> QED
      BY <1>a, <3>1
  <2>2. CASE ~(new_from_parsed(c) \/ drop(c))
    BY <1>0, <1>1, <2>2 DEF CallerStep, update_name, update_element, remove_element
  <2> QED
    BY <2>1, <2>2
<1>2. ASSUME NEW c \in Callers, NEW n \in Names, NEW v \in Variants,
             get_column(c, n, v)
      PROVE  HeldIsOut' /\ OneHolder'
  <2>1. CASE Unwraps(data[n], n, v)
    <3>1. /\ checkouts' = insert(checkouts, n, "CheckedOut")
          /\ \A d \in Callers : origin'[d] = IF d = c THEN n ELSE origin[d]
      BY <1>2, <2>1 DEF get_column, Holds, TypeOK
    <3>2. \A d \in Callers : origin[d] # n
      <4>1. checkouts[n] = "Available"
        BY <1>2 DEF get_column
      <4>2. n # NoName
        BY TableAssumption
      <4> QED
        BY <4>1, <4>2 DEF HeldIsOut
    <3>3. OneHolder'
      BY <3>1, <3>2 DEF OneHolder
    <3>4. HeldIsOut'
      BY <3>1 DEF HeldIsOut, insert
    <3> QED
      BY <3>3, <3>4
  <2>2. CASE ~Unwraps(data[n], n, v)
    BY <1>0, <1>2, <2>2 DEF get_column
  <2> QED
    BY <2>1, <2>2
<1>3. ASSUME NEW c \in Callers, NEW n \in Names, update_column(c, n)
      PROVE  HeldIsOut' /\ OneHolder'
  <2>1. \A d \in Callers \ {c} : origin[d] # n
    BY <1>3 DEF update_column, Permitted, Careful
  <2>2. Consumed(c) /\ (\/ UNCHANGED checkouts
                        \/ checkouts' = insert(checkouts, n, "Available"))
    BY <1>3 DEF update_column
  <2> QED
    BY <2>1, <2>2, WriteKeepsHolders
<1>4. ASSUME NEW c \in Callers, add_column(c) PROVE HeldIsOut' /\ OneHolder'
  <2>1. \A d \in Callers \ {c} : origin[d] # held[c].name
    BY <1>4 DEF add_column, Permitted, Careful
  <2>2. Consumed(c)
        /\ (\/ UNCHANGED checkouts
            \/ checkouts' = insert(checkouts, held[c].name, "Available"))
    BY <1>4 DEF add_column
  <2>3. held[c].name \in Names
    BY <1>4, TableDataAssumption DEF add_column, TypeOK, TypedColumn
  <2> QED
    BY <2>1, <2>2, <2>3, WriteKeepsHolders
<1>5. ASSUME NEW n \in Names, remove_column(n) PROVE HeldIsOut' /\ OneHolder'
  <2>1. /\ checkouts' = remove(checkouts, n)
        /\ \A d \in Callers :
             origin'[d] = IF origin[d] = n THEN NoName ELSE origin[d]
    BY <1>5 DEF remove_column
  <2> QED
    BY <2>1 DEF HeldIsOut, OneHolder, remove, Restrict
<1> QED
  BY <1>0, <1>1, <1>2, <1>3, <1>4, <1>5 DEF Next, TableStep, vars

\* With careful callers a checkout is exclusive, as get_column promises, and a
\* column that a caller holds cannot be handed out again.
THEOREM ExclusiveCheckout ==
  ASSUME Careful
  PROVE  Spec => [](OneHolder /\ HeldIsOut)
<1>1. Init => OneHolder /\ HeldIsOut
  BY DEF Init, OneHolder, HeldIsOut
<1>2. TypeOK /\ (OneHolder /\ HeldIsOut) /\ [Next]_vars
        => (OneHolder /\ HeldIsOut)'
  BY CheckoutStep
<1> QED
  BY <1>1, <1>2, TypeCorrectness, PTL DEF Spec

\* A column that a careful caller holds is neither in the table nor marked as
\* being there, so get_column refuses its name to everyone else.
THEOREM HeldOutside ==
  ASSUME Careful
  PROVE  Spec => []HeldIsOut
BY ExclusiveCheckout, PTL

-----------------------------------------------------------------------------
(* Equal lengths.                                                            *)

\* What the lengths depend on: no file repeats a header and no column that
\* comes in, from a file or from a caller, is without rows.
PlainInputs ==
  /\ 0 \notin RowCounts
  /\ \A hs \in HeaderRows : \A i, j \in DOMAIN hs : hs[i] = hs[j] => i = j

\* Rectangular is not inductive: a column without rows would let the next one
\* in at any length, so no column, inside or in flight, may be one.
NoEmptyColumn ==
  /\ \A n \in DOMAIN data : data[n].rows # 0
  /\ \A c \in Callers : held[c] # NoColumn => held[c].rows # 0

LengthsInv == Rectangular /\ NoEmptyColumn

\* Every column of the table after a step is as long as one before it.
LengthsKept ==
  DOMAIN data # {} =>
    \A n \in DOMAIN data' : \E m \in DOMAIN data : data'[n].rows = data[m].rows

\* A header that occurs once gets one cell per record.
LEMMA OnceEach ==
  ASSUME PlainInputs, NEW hs \in HeaderRows, NEW h \in Range(hs)
  PROVE  Cardinality(Occurrences(hs, h)) = 1
<1>1. PICK i \in DOMAIN hs : hs[i] = h
  BY DEF Range
<1>2. Occurrences(hs, h) = {i}
  BY <1>1 DEF Occurrences, PlainInputs
<1> QED
  BY <1>2, FS_Singleton

\* A file gives all its columns the length it has records.
LEMMA InitLengths ==
  ASSUME PlainInputs, Init
  PROVE  LengthsInv
<1>1. PICK hs \in HeaderRows, rows \in RowCounts, contents \in [Names -> Cells] :
         from_csv(hs, rows, contents)
  BY DEF Init
<1>2. rows \in Nat /\ rows # 0
  BY TableDataAssumption DEF PlainInputs
<1>3. \A h \in DOMAIN data : data[h].rows = rows
  <2> SUFFICES ASSUME NEW h \in DOMAIN data PROVE data[h].rows = rows
    OBVIOUS
  <2>1. h \in Range(hs) /\ data[h].rows = rows * Cardinality(Occurrences(hs, h))
    BY <1>1 DEF from_csv
  <2>2. rows * 1 = rows
    BY <1>2
  <2> QED
    BY <2>1, <2>2, OnceEach
<1> QED
  BY <1>2, <1>3 DEF Init, LengthsInv, Rectangular, NoEmptyColumn

\* A column that passes the length check fits the columns that are inside.
LEMMA StoredLength ==
  ASSUME LengthsInv, NEW n, NEW col, col.rows # 0,
         NEW rc \in row_count(data), ~LengthMismatch(rc, col),
         data' = insert(data, n, col)
  PROVE  /\ Rectangular' /\ LengthsKept
         /\ \A m \in DOMAIN data' : data'[m].rows # 0
<1>1. CASE DOMAIN data = {}
  BY <1>1 DEF insert, Rectangular, LengthsKept
<1>2. CASE DOMAIN data # {}
  <2>1. PICK k \in DOMAIN data : rc = data[k].rows
    BY <1>2 DEF row_count
  <2>2. col.rows = data[k].rows
    BY <2>1 DEF LengthMismatch, LengthsInv, NoEmptyColumn
  <2>3. \A m \in DOMAIN data' : data'[m].rows = data[k].rows
    BY <2>2 DEF insert, LengthsInv, Rectangular
  <2> QED
    BY <2>3 DEF LengthsInv, NoEmptyColumn, Rectangular, LengthsKept
<1> QED
  BY <1>1, <1>2

\* Taking columns out, or putting one back, changes no length.
LEMMA SameLengths ==
  ASSUME LengthsInv,
         \A m \in DOMAIN data' : m \in DOMAIN data /\ data'[m] = data[m]
  PROVE  /\ Rectangular' /\ LengthsKept
         /\ \A m \in DOMAIN data' : data'[m].rows # 0
BY DEF LengthsInv, NoEmptyColumn, Rectangular, LengthsKept

\* With plain inputs no method makes the table ragged, and none changes its
\* row count as long as a column stays inside.
LEMMA LengthsStep ==
  ASSUME PlainInputs, TypeOK, LengthsInv, [Next]_vars
  PROVE  LengthsInv' /\ LengthsKept
<1> DEFINE Inside == /\ Rectangular' /\ LengthsKept
                     /\ \A m \in DOMAIN data' : data'[m].rows # 0
           Outside == \A c \in Callers : held'[c] # NoColumn => held'[c].rows # 0
<1>a. ASSUME UNCHANGED data PROVE Inside
  BY <1>a, SameLengths
<1>b. ASSUME UNCHANGED held PROVE Outside
  BY <1>b DEF LengthsInv, NoEmptyColumn
<1>c. ASSUME NEW c \in Callers, NEW col, held' = [held EXCEPT ![c] = col],
             col = NoColumn \/ col.rows # 0
      PROVE  Outside
  BY <1>c DEF LengthsInv, NoEmptyColumn, TypeOK
<1>d. ASSUME NEW c \in Callers, Consumed(c) PROVE Outside
  BY <1>c, <1>d DEF Consumed, Holds
<1>1. ASSUME NEW c \in Callers, CallerStep(c) PROVE Inside /\ Outside
  <2>0. UNCHANGED data
    BY <1>1 DEF CallerStep, new_from_parsed, update_name, update_element,
                remove_element, drop
  <2>1. CASE new_from_parsed(c)
    <3>1. PICK v \in Variants, n \in ValidNames, r \in RowCounts, k \in Cells :
             Holds(c, [variant |-> v, name |-> n, rows |-> r, cells |-> k], NoName)
      BY <2>1 DEF new_from_parsed
    <3>2. r # 0
      BY DEF PlainInputs
    <3> QED
      BY <1>a, <1>c, <2>0, <3>1, <3>2 DEF Holds
  <2>2. ASSUME NEW n \in Names, update_name(c, n) PROVE Inside /\ Outside
    <3>1. held[c] \in TypedColumn /\ held[c].rows # 0
      BY <2>2 DEF update_name, TypeOK, LengthsInv, NoEmptyColumn
    <3>2. [held[c] EXCEPT !.name = n].rows # 0
      BY <3>1 DEF TypedColumn
    <3>3. held' = [held EXCEPT ![c] = [held[c] EXCEPT !.name = n]]
      BY <2>2 DEF update_name
    <3> QED
      BY <1>a, <1>c, <2>0, <3>2, <3>3
  <2>3. ASSUME NEW k \in Cells, update_element(c, k) PROVE Inside /\ Outside
    <3>1. held[c] \in TypedColumn /\ held[c].rows # 0
      BY <2>3 DEF update_element, TypeOK, LengthsInv, NoEmptyColumn
    <3>2. [held[c] EXCEPT !.cells = k].rows # 0
      BY <3>1 DEF TypedColumn
    <3>3. held' = [held EXCEPT ![c] = [held[c] EXCEPT !.cells = k]]
      BY <2>3 DEF update_element
    <3> QED
      BY <1>a, <1>c, <2>0, <3>2, <3>3
  <2>4. ASSUME NEW r \in RowCounts, remove_element(c, r) PROVE Inside /\ Outside
    <3>1. held[c] \in TypedColumn /\ r # 0
      BY <2>4 DEF remove_element, TypeOK, PlainInputs
    <3>2. [held[c] EXCEPT !.rows = r].rows # 0
      BY <3>1 DEF TypedColumn
    <3>3. held' = [held EXCEPT ![c] = [held[c] EXCEPT !.rows = r]]
      BY <2>4 DEF remove_element
    <3> QED
      BY <1>a, <1>c, <2>0, <3>2, <3>3
  <2>5. CASE drop(c)
    BY <1>a, <1>d, <2>0, <2>5 DEF drop
  <2> QED
    BY <1>1, <2>1, <2>2, <2>3, <2>4, <2>5 DEF CallerStep
<1>2. ASSUME NEW c \in Callers, NEW n \in Names, NEW v \in Variants,
             get_column(c, n, v)
      PROVE  Inside /\ Outside
  <2>1. CASE Unwraps(data[n], n, v)
    <3>1. /\ data' = remove(data, n)
          /\ held' = [held EXCEPT ![c] = Unwrapped(data[n], n, v)]
          /\ n \in DOMAIN data
      BY <1>2, <2>1 DEF get_column, Holds
    <3>2. data[n] \in ColumnData /\ data[n].rows # 0
      BY <3>1 DEF TypeOK, LengthsInv, NoEmptyColumn
    <3>3. Unwrapped(data[n], n, v).rows # 0
      BY <2>1, <3>2, UnwrappedType
    <3>4. Inside
      BY <3>1, SameLengths DEF remove, Restrict
    <3> QED
      BY <1>c, <3>1, <3>3, <3>4
  <2>2. CASE ~Unwraps(data[n], n, v)
    <3>1. /\ data' = insert(remove(data, n), n, data[n]) /\ UNCHANGED held
          /\ n \in DOMAIN data
      BY <1>2, <2>2 DEF get_column
    <3>2. Inside
      BY <3>1, SameLengths DEF remove, Restrict, insert
    <3> QED
      BY <1>b, <3>1, <3>2
  <2> QED
    BY <2>1, <2>2
<1>3. ASSUME NEW c \in Callers, NEW n \in Names, update_column(c, n)
      PROVE  Inside /\ Outside
  <2>1. held[c].rows # 0 /\ Consumed(c)
    BY <1>3 DEF update_column, LengthsInv, NoEmptyColumn
  <2>2. PICK rc \in row_count(data) :
           \/ UNCHANGED data
           \/ data' = insert(data, n, held[c]) /\ ~LengthMismatch(rc, held[c])
    BY <1>3 DEF update_column
  <2> QED
    BY <1>a, <1>d, <2>1, <2>2, StoredLength
<1>4. ASSUME NEW c \in Callers, add_column(c) PROVE Inside /\ Outside
  <2>1. held[c].rows # 0 /\ Consumed(c)
    BY <1>4 DEF add_column, LengthsInv, NoEmptyColumn
  <2>2. PICK rc \in row_count(data) :
           \/ UNCHANGED data
           \/ /\ data' = insert(data, held[c].name, held[c])
              /\ ~LengthMismatch(rc, held[c])
    BY <1>4 DEF add_column
  <2> QED
    BY <1>a, <1>d, <2>1, <2>2, StoredLength
<1>5. ASSUME NEW n \in Names, remove_column(n) PROVE Inside /\ Outside
  <2>1. Inside
    BY <1>5, SameLengths DEF remove_column, remove, Restrict
  <2> QED
    BY <1>b, <1>5, <2>1 DEF remove_column
<1>6. Inside /\ Outside
  BY <1>a, <1>b, <1>1, <1>2, <1>3, <1>4, <1>5 DEF Next, TableStep, vars
<1> QED
  BY <1>6 DEF LengthsInv, NoEmptyColumn

\* The invariant behind both theorems below.
LEMMA LengthsInvariant ==
  ASSUME PlainInputs
  PROVE  Spec => []LengthsInv
<1>1. TypeOK /\ LengthsInv /\ [Next]_vars => LengthsInv'
  BY LengthsStep
<1>2. Init => LengthsInv
  BY InitLengths
<1> QED
  BY <1>1, <1>2, TypeCorrectness, PTL DEF Spec

\* From plain inputs all columns of the table always have the same length,
\* whatever the callers do and in whichever order the map is iterated.
THEOREM TableRectangular ==
  ASSUME PlainInputs
  PROVE  Spec => []Rectangular
<1>1. LengthsInv => Rectangular
  BY DEF LengthsInv
<1> QED
  BY <1>1, LengthsInvariant, PTL

\* The row count that the length checks read, never changes while a column
\* stays inside.
THEOREM RowCountKept ==
  ASSUME PlainInputs
  PROVE  Spec => RowCountStable
<1>1. TypeOK /\ LengthsInv /\ [Next]_vars
        => [DOMAIN data # {} /\ DOMAIN data' # {}
              => row_count(data') = row_count(data)]_vars
  <2> SUFFICES ASSUME TypeOK, LengthsInv, [Next]_vars,
                      DOMAIN data # {}, DOMAIN data' # {}
               PROVE  row_count(data') = row_count(data)
    OBVIOUS
  <2>1. PICK k \in DOMAIN data : TRUE
    OBVIOUS
  <2>2. LengthsInv' /\ LengthsKept
    BY LengthsStep
  <2>3. \A m \in DOMAIN data : data[m].rows = data[k].rows
    BY DEF LengthsInv, Rectangular
  <2>4. \A m \in DOMAIN data' : data'[m].rows = data[k].rows
    BY <2>2, <2>3 DEF LengthsKept
  <2> QED
    BY <2>1, <2>3, <2>4 DEF row_count
<1> QED
  BY <1>1, TypeCorrectness, LengthsInvariant, PTL DEF Spec, RowCountStable
-----------------------------------------------------------------------------
(* Ownership.                                                                *)

\* Callers are told apart from the other values of Owner.
CallersApart == {"table", "absent", "lost"} \cap Callers = {}

\* Owner(n) as a function of the maps.
OwnerIn(inside, states, from, n) ==
  IF n \in DOMAIN inside THEN "table"
  ELSE IF n \notin DOMAIN states THEN "absent"
  ELSE IF \E c \in Callers : from[c] = n
    THEN CHOOSE c \in Callers : from[c] = n
    ELSE "lost"

\* Where checkouts are exclusive and out of the table, the owner of a name is
\* the caller that holds it, whichever the CHOOSE takes.
LEMMA HolderOwns ==
  ASSUME NEW inside, NEW states, NEW from, NEW n, NEW c \in Callers,
         from[c] = n, n \notin DOMAIN inside, n \in DOMAIN states,
         \A d \in Callers : from[d] = n => d = c
  PROVE  OwnerIn(inside, states, from, n) = c
<1>1. (CHOOSE d \in Callers : from[d] = n) = c
  OBVIOUS
<1> QED
  BY <1>1 DEF OwnerIn

\* What a step does to one name: a caller that has it had it before or took it
\* from the table, and it is out without a holder only if it was out before.
HandedOver(n) ==
  /\ \A d \in Callers : origin'[d] = n => n \in DOMAIN data \/ origin[d] = n
  /\ n \notin DOMAIN data' /\ n \in DOMAIN checkouts'
       /\ (\A d \in Callers : origin'[d] # n)
     => n \notin DOMAIN data /\ n \in DOMAIN checkouts

LEMMA HandOver ==
  ASSUME TypeOK, [Next]_vars, NEW n \in Names
  PROVE  HandedOver(n)
<1>0. n # NoName
  BY TableAssumption
<1>a. ASSUME UNCHANGED <<data, checkouts>>,
             \A d \in Callers : origin'[d] \in {origin[d], NoName}
      PROVE  HandedOver(n)
  BY <1>0, <1>a DEF HandedOver
<1>b. ASSUME NEW c \in Callers, NEW m \in Names, NEW col, Consumed(c),
             \/ UNCHANGED <<data, checkouts>>
             \/ /\ data' = insert(data, m, col)
                /\ checkouts' = insert(checkouts, m, "Available")
      PROVE  HandedOver(n)
  <2>1. \A d \in Callers : origin'[d] \in {origin[d], NoName}
    BY <1>b DEF Consumed, Holds, TypeOK
  <2>2. CASE UNCHANGED <<data, checkouts>>
    BY <1>a, <2>1, <2>2
  <2>3. CASE data' = insert(data, m, col)
             /\ checkouts' = insert(checkouts, m, "Available")
    BY <1>0, <2>1, <2>3 DEF HandedOver, insert
  <2> QED
    BY <1>b, <2>2, <2>3
<1>1. ASSUME NEW c \in Callers, CallerStep(c) PROVE HandedOver(n)
  <2>1. UNCHANGED <<data, checkouts>>
    BY <1>1 DEF CallerStep, new_from_parsed, update_name, update_element,
                remove_element, drop
  <2>2. \A d \in Callers : origin'[d] \in {origin[d], NoName}
    <3>1. CASE new_from_parsed(c) \/ drop(c)
      BY <3>1 DEF new_from_parsed, drop, Consumed, Holds, TypeOK
    <3>2. CASE ~(new_from_parsed(c) \/ drop(c))
      BY <1>1, <3>2 DEF CallerStep, update_name, update_element, remove_element
    <3> QED
      BY <3>1, <3>2
  <2> QED
    BY <1>a, <2>1, <2>2
<1>2. ASSUME NEW c \in Callers, NEW m \in Names, NEW v \in Variants,
             get_column(c, m, v)
      PROVE  HandedOver(n)
  <2>1. CASE Unwraps(data[m], m, v)
    <3>1. /\ DOMAIN data' = DOMAIN data \ {m}
          /\ DOMAIN checkouts' = DOMAIN checkouts \cup {m}
          /\ m \in DOMAIN data
      BY <1>2, <2>1 DEF get_column, remove, Restrict, insert
    <3>2. \A d \in Callers : origin'[d] = IF d = c THEN m ELSE origin[d]
      BY <1>2, <2>1 DEF get_column, Holds, TypeOK
    <3> QED
      BY <3>1, <3>2, <1>2 DEF HandedOver
  <2>2. CASE ~Unwraps(data[m], m, v)
    <3>1. DOMAIN data' = DOMAIN data /\ UNCHANGED <<checkouts, origin>>
      BY <1>2, <2>2 DEF get_column, remove, Restrict, insert
    <3> QED
      BY <3>1 DEF HandedOver
  <2> QED
    BY <2>1, <2>2
<1>3. ASSUME NEW c \in Callers, NEW m \in Names, update_column(c, m)
      PROVE  HandedOver(n)
  BY <1>3, <1>b DEF update_column
<1>4. ASSUME NEW c \in Callers, add_column(c) PROVE HandedOver(n)
  <2>1. held[c].name \in Names
    BY <1>4, TableDataAssumption DEF add_column, TypeOK, TypedColumn
  <2> QED
    BY <1>4, <1>b, <2>1 DEF add_column
<1>5. ASSUME NEW m \in Names, remove_column(m) PROVE HandedOver(n)
  <2>1. /\ DOMAIN data' = DOMAIN data \ {m}
        /\ DOMAIN checkouts' = DOMAIN checkouts \ {m}
        /\ \A d \in Callers :
             origin'[d] = IF origin[d] = m THEN NoName ELSE origin[d]
    BY <1>5 DEF remove_column, remove, Restrict
  <2> QED
    BY <1>0, <2>1 DEF HandedOver
<1>6. CASE UNCHANGED vars
  BY <1>a, <1>6 DEF vars
<1> QED
  BY <1>1, <1>2, <1>3, <1>4, <1>5, <1>6 DEF Next, TableStep

\* The owners that may follow the owner before.
Follows(before, after) ==
  CASE before = "absent" -> after = "table"
    [] before = "table"  -> after \in Callers \cup {"absent"}
    [] before = "lost"   -> after \in {"table", "absent"}
    [] OTHER             -> after \in {"table", "absent", "lost"}

\* With careful callers a column moves along the protocol only: out of the
\* table to a caller, back in from there, and never from caller to caller.
THEOREM OwnershipKept ==
  ASSUME Careful, CallersApart
  PROVE  Spec => OwnershipMoves
<1> DEFINE HoldersOut == OneHolder /\ HeldIsOut /\ StoredIffAvailable
<1>1. ASSUME TypeOK, HoldersOut, HoldersOut', [Next]_vars, NEW n \in Names
      PROVE  Owner(n)' # Owner(n) => Follows(Owner(n), Owner(n)')
  <2> DEFINE before == OwnerIn(data, checkouts, origin, n)
             after == OwnerIn(data', checkouts', origin', n)
  <2>1. Owner(n) = before /\ Owner(n)' = after
    BY DEF Owner, OwnerIn
  <2>2. HandedOver(n)
    BY <1>1, HandOver
  <2>3. n # NoName
    BY TableAssumption
  <2>4. ASSUME NEW c \in Callers, origin[c] = n PROVE before = c
    <3>1. n \in DOMAIN checkouts /\ n \notin DOMAIN data
      BY <1>1, <2>3, <2>4 DEF HeldIsOut, StoredIffAvailable
    <3>2. \A d \in Callers : origin[d] = n => d = c
      BY <1>1, <2>3, <2>4 DEF OneHolder
    <3> QED
      BY <2>4, <3>1, <3>2, HolderOwns
  <2>5. ASSUME NEW c \in Callers, origin'[c] = n PROVE after = c
    <3>1. n \in DOMAIN checkouts' /\ n \notin DOMAIN data'
      BY <1>1, <2>3, <2>5 DEF HeldIsOut, StoredIffAvailable
    <3>2. \A d \in Callers : origin'[d] = n => d = c
      BY <1>1, <2>3, <2>5 DEF OneHolder
    <3> QED
      BY <2>5, <3>1, <3>2, HolderOwns
  <2>6. /\ n \in DOMAIN data => before = "table"
        /\ n \notin DOMAIN data /\ n \in DOMAIN checkouts
             => before \in Callers \cup {"lost"}
        /\ before \in Callers \cup {"table", "absent", "lost"}
    <3>1. CASE \E c \in Callers : origin[c] = n
      BY <2>4, <3>1 DEF OwnerIn
    <3>2. CASE ~\E c \in Callers : origin[c] = n
      BY <3>2 DEF OwnerIn
    <3> QED
      BY <3>1, <3>2
  <2>7. \/ n \in DOMAIN data' /\ after = "table"
        \/ n \notin DOMAIN data' /\ n \notin DOMAIN checkouts' /\ after = "absent"
        \/ /\ n \notin DOMAIN data' /\ n \in DOMAIN checkouts'
           /\ \A c \in Callers : origin'[c] # n
           /\ after = "lost"
        \/ \E c \in Callers : origin'[c] = n /\ after = c
    BY <2>5 DEF OwnerIn
  <2> HIDE DEF before, after
  <2>8. before \in Callers => before \notin {"table", "absent", "lost"}
    BY DEF CallersApart
  <2>9. after # before => Follows(before, after)
    <3>1. CASE after \in {"table", "absent"}
      BY <2>6, <2>8, <3>1 DEF Follows
    <3>2. CASE after = "lost" /\ n \notin DOMAIN data /\ n \in DOMAIN checkouts
      BY <2>6, <2>8, <3>2 DEF Follows
    <3>3. CASE after \in Callers /\ (before = "table" \/ before = after)
      BY <3>3 DEF Follows
    <3> QED
      BY <2>2, <2>4, <2>6, <2>7, <3>1, <3>2, <3>3 DEF HandedOver
  <2> QED
    BY <2>1, <2>9
<1>2. TypeOK /\ HoldersOut /\ HoldersOut' /\ [Next]_vars =>
        [\A n \in Names : Owner(n)' # Owner(n) =>
           CASE Owner(n) = "absent" -> Owner(n)' = "table"
             [] Owner(n) = "table"  -> Owner(n)' \in Callers \cup {"absent"}
             [] Owner(n) = "lost"   -> Owner(n)' \in {"table", "absent"}
             [] OTHER               -> Owner(n)' \in {"table", "absent", "lost"}]_vars
  <2> SUFFICES ASSUME TypeOK, HoldersOut, HoldersOut', [Next]_vars,
                      NEW n \in Names, Owner(n)' # Owner(n)
               PROVE  Follows(Owner(n), Owner(n)')
    BY DEF Follows
  <2> QED
    BY <1>1
<1>3. Spec => []HoldersOut
  <2>1. OneHolder /\ HeldIsOut /\ StoredIffAvailable => HoldersOut
    OBVIOUS
  <2> QED
    BY <2>1, ExclusiveCheckout, MapsInStep, PTL
<1> HIDE DEF HoldersOut
<1> QED
  BY <1>2, <1>3, TypeCorrectness, PTL DEF Spec, OwnershipMoves
=============================================================================
