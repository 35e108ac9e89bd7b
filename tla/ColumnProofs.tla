----------------------------- MODULE ColumnProofs -----------------------------
(***************************************************************************)
(* Theorems of Column for columns of every length and arguments of every    *)
(* size.                                                                    *)
(***************************************************************************)
EXTENDS Column, Induction, FiniteSetTheorems, FunctionTheorems, SequenceTheorems

\* Whoever calls update_element and with whatever updates: an error leaves the
\* cells alone, since both checks come before the first write.
LEMMA UpdateFails ==
  ASSUME NEW op, NEW arg, NEW us, UpdatesElements(op, arg, us)
  PROVE  call'.result # "Ok" => UNCHANGED data
BY DEF UpdatesElements, Returned

\* A refused scaling has no cell changed.
LEMMA RefusedFails ==
  ASSUME NEW op, NEW error, Refused(op, error)
  PROVE  UNCHANGED data
BY DEF Refused

\* No method that works on the cells leaves them changed when it fails.
LEMMA CellStepFails ==
  ASSUME CellStep
  PROVE  call'.result # "Ok" => UNCHANGED data
<1>1. ASSUME NEW us \in Updates, update_element(us)
      PROVE  call'.result # "Ok" => UNCHANGED data
  BY <1>1, UpdateFails DEF update_element
<1>2. ASSUME NEW is \in Removals, remove_element(is)
      PROVE  call'.result # "Ok" => UNCHANGED data
  <2>1. \/ Returned("remove_element", is, "DuplicatedIndices") /\ UNCHANGED data
        \/ Returned("remove_element", is, "IndexOutOfBounds") /\ UNCHANGED data
        \/ Returned("remove_element", is, "Ok")
    BY <1>2, Zenon DEF remove_element
  <2> QED
    BY <2>1 DEF Returned
<1>f. ASSUME NEW op, NEW arg, NEW value, FillsWith(op, arg, value)
      PROVE  call'.result # "Ok" => UNCHANGED data
  BY <1>f, UpdateFails DEF FillsWith
<1>3. ASSUME NEW value \in f64, fill_with(value)
      PROVE  call'.result # "Ok" => UNCHANGED data
  BY <1>3, <1>f DEF fill_with
<1>4. CASE forward_fill
  BY <1>4, UpdateFails DEF forward_fill
<1>5. CASE backward_fill
  BY <1>5, UpdateFails DEF backward_fill
<1>6. CASE fill_mean
  BY <1>6, <1>f DEF fill_mean
<1>s. ASSUME NEW op, NEW g, ScaledBy(op, g)
      PROVE  call'.result # "Ok" => UNCHANGED data
  BY <1>s, UpdateFails DEF ScaledBy
<1>7. CASE min_max_scale
  <2>1. (\E error : Refused("min_max_scale", error))
          \/ \E g : ScaledBy("min_max_scale", g)
    BY <1>7 DEF min_max_scale
  <2> QED
    BY <2>1, <1>s, RefusedFails
<1>8. CASE z_score_standardization
  <2>1. (\E error : Refused("z_score_standardization", error))
          \/ \E g : ScaledBy("z_score_standardization", g)
    BY <1>8 DEF z_score_standardization
  <2> QED
    BY <2>1, <1>s, RefusedFails
<1> QED
  BY <1>1, <1>2, <1>3, <1>4, <1>5, <1>6, <1>7, <1>8 DEF CellStep

\* The behaviors are a map at all times, so removing a name that is not there
\* removes nothing.
BehaviorsAreMap == behaviors = [n \in DOMAIN behaviors |-> behaviors[n]]

\* No call of a behavior's name that fails touches the map or the cells, and
\* the map stays one.
LEMMA BehaviorStepFails ==
  ASSUME BehaviorsAreMap, BehaviorStep
  PROVE  /\ call'.result # "Ok" => UNCHANGED <<data, behaviors>>
         /\ BehaviorsAreMap'
<1>r. ASSUME NEW op, NEW b, NEW f, NEW error, Registers(op, b, f, error)
      PROVE  /\ call'.result # "Ok" => UNCHANGED <<data, behaviors>>
             /\ BehaviorsAreMap'
  <2>1. call'.result = error /\ UNCHANGED data
    BY <1>r DEF Registers, Returned
  <2>2. CASE error = "Ok"
    <3>1. behaviors' = [n \in DOMAIN behaviors \cup {b} |->
                          IF n = b THEN f ELSE behaviors[n]]
      BY <1>r, <2>2 DEF Registers
    <3> QED
      BY <2>1, <2>2, <3>1 DEF BehaviorsAreMap
  <2>3. CASE error # "Ok"
    BY <1>r, <2>1, <2>3 DEF Registers, BehaviorsAreMap
  <2> QED
    BY <2>2, <2>3
<1>1. ASSUME NEW b \in Behaviors, NEW f \in Closures,
             register_behavior(b, f) \/ update_behavior(b, f)
      PROVE  /\ call'.result # "Ok" => UNCHANGED <<data, behaviors>>
             /\ BehaviorsAreMap'
  BY <1>1, <1>r DEF register_behavior, update_behavior
<1>2. ASSUME NEW b \in Behaviors, remove_behavior(b)
      PROVE  /\ call'.result # "Ok" => UNCHANGED <<data, behaviors>>
             /\ BehaviorsAreMap'
  <2>1. /\ b \in DOMAIN behaviors => call'.result = "Ok"
        /\ UNCHANGED data
    BY <1>2 DEF remove_behavior, Returned
  <2>2. behaviors' = [n \in DOMAIN behaviors \ {b} |-> behaviors[n]]
    BY <1>2 DEF remove_behavior, Restrict
  <2>3. ASSUME b \notin DOMAIN behaviors PROVE UNCHANGED behaviors
    <3>1. DOMAIN behaviors \ {b} = DOMAIN behaviors
      BY <2>3
    <3> QED
      BY <2>2, <3>1 DEF BehaviorsAreMap
  <2> QED
    BY <2>1, <2>2, <2>3 DEF BehaviorsAreMap
<1>3. ASSUME NEW b \in Behaviors, call_behavior(b)
      PROVE  UNCHANGED <<data, behaviors>> /\ BehaviorsAreMap'
  BY <1>3 DEF call_behavior, BehaviorsAreMap
<1> QED
  BY <1>1, <1>2, <1>3 DEF BehaviorStep

\* "No changes are applied at all" (update_element): an error of any method,
\* of those too that reach update_element through a fill or a scaling, leaves
\* the column as it was.
THEOREM FailuresAreClean == Spec => FailuresChangeNothing
<1>1. Init => BehaviorsAreMap
  BY DEF Init, BehaviorsAreMap
<1>2. ASSUME BehaviorsAreMap, [Next]_vars
      PROVE  /\ BehaviorsAreMap'
             /\ [call'.result # "Ok" => UNCHANGED <<data, behaviors>>]_vars
  <2>1. CASE CellStep /\ UNCHANGED behaviors
    BY <1>2, <2>1, CellStepFails DEF BehaviorsAreMap
  <2>2. CASE BehaviorStep
    BY <1>2, <2>2, BehaviorStepFails
  <2>3. CASE UNCHANGED vars
    BY <1>2, <2>3 DEF vars, BehaviorsAreMap
  <2> QED
    BY <1>2, <2>1, <2>2, <2>3 DEF Next
<1>3. BehaviorsAreMap /\ [Next]_vars => BehaviorsAreMap'
  BY <1>2
<1>4. BehaviorsAreMap /\ [Next]_vars =>
        [call'.result # "Ok" => UNCHANGED <<data, behaviors>>]_vars
  BY <1>2
<1> QED
  BY <1>1, <1>3, <1>4, PTL DEF Spec, FailuresChangeNothing
-----------------------------------------------------------------------------
(* What the loop of update_element writes.                                   *)

\* The cells of a column of n.
CellsOf(n) == [1..n -> Cell]

\* Updates as update_element accepts them for a column of n cells.
UpdatesFor(us, n) ==
  /\ us \in Seq(Nat \X Cell)
  /\ \A k \in 1..Len(us) : us[k][1] < n

\* One write keeps the column one of as many cells.
LEMMA OneWrite ==
  ASSUME NEW n \in Nat, NEW c \in CellsOf(n), NEW u \in Nat \X Cell, u[1] < n
  PROVE  /\ Write(c, u) \in CellsOf(n)
         /\ \A p \in 1..n : Write(c, u)[p] = IF p = u[1] + 1 THEN u[2] ELSE c[p]
<1>1. u[1] \in Nat /\ u[2] \in Cell
  OBVIOUS
<1>2. Write(c, u) = [c EXCEPT ![u[1] + 1] = u[2]]
  BY DEF Write, At, IndexOf
<1> QED
  BY <1>1, <1>2 DEF CellsOf

\* f has the columns that the loop over us runs through.
Writes(f, us) ==
  f = [k \in 0..Len(us) |-> IF k = 0 THEN data ELSE Write(f[k - 1], us[k])]

\* There is such an f, and its last column is the one the loop leaves.
LEMMA WriteLoop ==
  ASSUME NEW n \in Nat, data \in CellsOf(n), NEW us, UpdatesFor(us, n)
  PROVE  \E f \in [0..Len(us) -> CellsOf(n)] :
           /\ f[0] = data /\ Written(us) = f[Len(us)]
           /\ \A k \in 1..Len(us) : f[k] = Write(f[k - 1], us[k])
<1> DEFINE m == Len(us)
           C == CellsOf(n)
           step == [x \in C \X (1..m) |-> Write(x[1], us[x[2]])]
<1>1. m \in Nat /\ \A k \in 1..m : us[k] \in Nat \X Cell /\ us[k][1] < n
  BY LenProperties, ElementOfSeq DEF UpdatesFor
<1>2. \A x \in C, k \in 1..m : Write(x, us[k]) \in C
  BY <1>1, OneWrite
<1>3. \A x \in C, k \in 1..m : step[<<x, k>>] = Write(x, us[k])
  OBVIOUS
<1>4. step \in [C \X (1..m) -> C]
  BY <1>2
<1> HIDE DEF step, m, C
<1>5. PICK g : IsLoop(g, m, C, data, step)
  BY <1>1, <1>4, LoopExists DEF C
<1>6. /\ g \in [0..m -> C] /\ g[0] = data
      /\ \A k \in 1..m : g[k] = Write(g[k - 1], us[k])
  <2>1. \A k \in 1..m : k - 1 \in 0..m
    BY <1>1
  <2> QED
    BY <1>3, <1>5, <2>1 DEF IsLoop
<1>7. Writes(g, us)
  <2> DEFINE e(k) == IF k = 0 THEN data ELSE Write(g[k - 1], us[k])
  <2>1. \A k \in 0..m : g[k] = e(k)
    <3>1. \A k \in 0..m : k = 0 \/ k \in 1..m
      BY <1>1
    <3>2. e(0) = data /\ \A k \in 1..m : e(k) = Write(g[k - 1], us[k])
      OBVIOUS
    <3> HIDE DEF e
    <3> QED
      BY <3>1, <3>2, <1>6
  <2> HIDE DEF e
  <2>2. g = [k \in 0..m |-> e(k)]
    BY <2>1, <1>6
  <2> QED
    BY <2>2, Zenon DEF e, Writes, m
<1> DEFINE f == CHOOSE h : Writes(h, us)
<1>8. Writes(f, us)
  BY <1>7, Zenon
<1>9. Written(us) = f[m]
  BY Zenon DEF Written, Writes, m
<1> HIDE DEF f
<1>10. /\ f = [k \in 0..m |-> f[k]] /\ f[0] = data
       /\ \A k \in 1..m : f[k] = Write(f[k - 1], us[k])
  <2> DEFINE e(k) == IF k = 0 THEN data ELSE Write(f[k - 1], us[k])
  <2>1. f = [k \in 0..m |-> e(k)]
    BY <1>8, Zenon DEF Writes, m
  <2>2. e(0) = data /\ \A k \in 1..m : e(k) = Write(f[k - 1], us[k])
    OBVIOUS
  <2> HIDE DEF e
  <2>3. (\A k \in 0..m : f[k] = e(k)) /\ f = [k \in 0..m |-> f[k]]
    BY <2>1
  <2>4. 0 \in 0..m /\ \A k \in 1..m : k \in 0..m
    BY <1>1
  <2> QED
    BY <2>2, <2>3, <2>4, Zenon
<1>11. RunsIn(f, m, C, data, step)
  BY <1>3, <1>10 DEF RunsIn
<1>12. f \in [0..m -> C]
  BY <1>1, <1>4, <1>11, LoopOf DEF C
<1> QED
  BY <1>9, <1>10, <1>12 DEF m, C

\* What the cells c are after updates us of different indices.
Overwrites(c, us, n) ==
  /\ c \in CellsOf(n)
  /\ \A k \in 1..Len(us) : c[us[k][1] + 1] = us[k][2]
  /\ \A p \in 1..n : (\A k \in 1..Len(us) : us[k][1] + 1 # p) => c[p] = data[p]

\* The order of the updates does not show in what they leave.
LEMMA WrittenCells ==
  ASSUME NEW n \in Nat, data \in CellsOf(n), NEW us, UpdatesFor(us, n),
         \A j, k \in 1..Len(us) : us[j][1] = us[k][1] => j = k
  PROVE  Overwrites(Written(us), us, n)
<1> DEFINE m == Len(us)
<1>1. PICK f \in [0..m -> CellsOf(n)] :
        /\ f[0] = data /\ Written(us) = f[m]
        /\ \A k \in 1..m : f[k] = Write(f[k - 1], us[k])
  BY WriteLoop
<1>2. m \in Nat /\ \A k \in 1..m : us[k] \in Nat \X Cell /\ us[k][1] < n
  BY LenProperties, ElementOfSeq DEF UpdatesFor
<1> DEFINE Upto(k) ==
             /\ \A j \in 1..k : f[k][us[j][1] + 1] = us[j][2]
             /\ \A p \in 1..n : (\A j \in 1..k : us[j][1] + 1 # p) => f[k][p] = data[p]
           T == {k \in 0..m : Upto(k)}
<1>3. 0 \in T
  BY <1>1, <1>2
<1>4. ASSUME NEW k \in 1..m, k - 1 \in T PROVE k \in T
  <2>1. k - 1 \in 0..m /\ k \in 0..m
    BY <1>2
  <2>2. f[k - 1] \in CellsOf(n) /\ us[k] \in Nat \X Cell /\ us[k][1] < n
    BY <1>1, <1>2, <2>1
  <2>3. \A p \in 1..n : f[k][p] = IF p = us[k][1] + 1 THEN us[k][2] ELSE f[k - 1][p]
    BY <1>1, <2>2, OneWrite
  <2>4. \A j \in 1..(k - 1) : us[j][1] # us[k][1]
    BY <1>2
  <2>5. \A j \in 1..k : j = k \/ j \in 1..(k - 1)
    BY <1>2
  <2>6. \A j \in 1..k : us[j][1] + 1 \in 1..n /\ us[j][1] \in Nat
    BY <1>2
  <2>7. \A j \in 1..k : f[k][us[j][1] + 1] = us[j][2]
    <3> SUFFICES ASSUME NEW j \in 1..k PROVE f[k][us[j][1] + 1] = us[j][2]
      OBVIOUS
    <3>1. CASE j = k
      BY <3>1, <2>3, <2>6
    <3>2. CASE j \in 1..(k - 1)
      <4>1. us[j][1] + 1 # us[k][1] + 1
        BY <3>2, <2>2, <2>4, <2>6
      <4>2. f[k - 1][us[j][1] + 1] = us[j][2]
        BY <3>2, <1>4
      <4> QED
        BY <4>1, <4>2, <2>3, <2>6
    <3> QED
      BY <3>1, <3>2, <2>5
  <2>8. ASSUME NEW p \in 1..n, \A j \in 1..k : us[j][1] + 1 # p
        PROVE  f[k][p] = data[p]
    <3>1. k \in 1..k /\ \A j \in 1..(k - 1) : j \in 1..k
      BY <1>2
    <3>2. f[k][p] = f[k - 1][p]
      BY <2>3, <2>8, <3>1
    <3> QED
      BY <3>1, <3>2, <2>8, <1>4
  <2> QED
    BY <2>1, <2>7, <2>8
<1> HIDE DEF T
<1>5. \A k \in 0..m : k \in T
  BY <1>2, <1>3, <1>4, UpTo
<1>6. m \in 0..m
  BY <1>2
<1>7. Upto(m)
  BY <1>5, <1>6 DEF T
<1> QED
  BY <1>1, <1>6, <1>7 DEF Overwrites

\* update_element, whoever calls it: the argument is in range and without
\* repetition and all of it is written, or nothing is.
LEMMA UpdateOutcome ==
  ASSUME NEW n \in Nat, data \in CellsOf(n), NEW us \in Seq(Nat \X Cell),
         NEW op, NEW arg, UpdatesElements(op, arg, us)
  PROVE  /\ call' = [op |-> op, arg |-> arg, result |-> call'.result]
         /\ call'.result \in Results /\ data' \in CellsOf(n)
         /\ call'.result # "Ok" => data' = data
         /\ call'.result = "Ok" =>
              /\ \A j, k \in 1..Len(us) : us[j][1] = us[k][1] => j = k
              /\ Overwrites(data', us, n)
<1> DEFINE is == IndicesOf(us)
<1>1. /\ Len(us) \in Nat /\ DOMAIN us = 1..Len(us) /\ Len(data) = n
      /\ \A k \in 1..Len(us) : us[k] \in Nat \X Cell
  BY LenProperties, ElementOfSeq DEF CellsOf
<1>2. DOMAIN is = 1..Len(us) /\ \A k \in 1..Len(us) : is[k] = us[k][1]
  BY <1>1 DEF IndicesOf, IndexOf
<1> HIDE DEF is
<1>3. CASE UNCHANGED data /\ Returned(op, arg, "IndexOutOfBounds")
  BY <1>3 DEF Returned, Results
<1>4. CASE UNCHANGED data /\ Returned(op, arg, "DuplicatedIndices")
  BY <1>4 DEF Returned, Results
<1>5. CASE /\ check_len_limit(is) /\ check_duplicate_indices(is)
           /\ data' = Written(us) /\ Returned(op, arg, "Ok")
  <2>1. UpdatesFor(us, n)
    BY <1>1, <1>2, <1>5 DEF check_len_limit, UpdatesFor
  <2>2. \A j, k \in 1..Len(us) : us[j][1] = us[k][1] => j = k
    BY <1>2, <1>5 DEF check_duplicate_indices, IsInjective
  <2>3. Overwrites(data', us, n)
    BY <1>5, <2>1, <2>2, WrittenCells
  <2>4. data' \in CellsOf(n)
    BY <2>3 DEF Overwrites
  <2> QED
    BY <1>5, <2>2, <2>3, <2>4 DEF Returned, Results
<1> QED
  BY <1>3, <1>4, <1>5 DEF UpdatesElements, is

\* An update that is in range and without repetition is accepted.
LEMMA UpdateAccepted ==
  ASSUME NEW n \in Nat, data \in CellsOf(n), NEW us, UpdatesFor(us, n),
         \A j, k \in 1..Len(us) : us[j][1] = us[k][1] => j = k,
         NEW op, NEW arg, UpdatesElements(op, arg, us)
  PROVE  call'.result = "Ok"
<1> DEFINE is == IndicesOf(us)
<1>1. Len(data) = n /\ DOMAIN us = 1..Len(us) /\ \A k \in 1..Len(us) : us[k][1] < n
  BY LenProperties DEF CellsOf, UpdatesFor
<1>2. DOMAIN is = 1..Len(us) /\ \A k \in 1..Len(us) : is[k] = us[k][1]
  BY <1>1 DEF IndicesOf, IndexOf
<1> HIDE DEF is
<1>3. check_len_limit(is) /\ check_duplicate_indices(is)
  BY <1>1, <1>2 DEF check_len_limit, check_duplicate_indices, IsInjective
<1>4. Returned(op, arg, "Ok")
  BY <1>3 DEF UpdatesElements, is
<1> QED
  BY <1>4 DEF Returned

-----------------------------------------------------------------------------
(* What the loops over the cells collect.                                    *)

\* es are cells of a column of n, with their indices, in the order of these.
Picks(es, n) ==
  /\ es \in Seq(Nat \X Cell)
  /\ \A k \in 1..Len(es) : es[k][1] < n /\ es[k][2] = data[es[k][1] + 1]
  /\ \A j, k \in 1..Len(es) : j < k => es[j][1] < es[k][1]

\* They are those of the first n cells that are wanted.
PicksAll(es, wanted, n) ==
  /\ Picks(es, n)
  /\ \A k \in 1..Len(es) : es[k][2] \in wanted
  /\ \A p \in 1..n : data[p] \in wanted => \E k \in 1..Len(es) : es[k][1] + 1 = p

\* f has the sequences that Enumerated runs through.
Finds(f, wanted) ==
  f = [p \in 0..Len(data) |->
         IF p = 0 THEN <<>>
         ELSE IF data[p] \in wanted THEN Append(f[p - 1], enumerate(data)[p])
         ELSE f[p - 1]]

\* Turn by turn: the last sequence is the one collected.
FindsByTurns(f, wanted, n) ==
  /\ f \in [0..n -> Seq(Nat \X Cell)]
  /\ f[0] = <<>> /\ Enumerated(wanted) = f[n]
  /\ \A p \in 1..n : f[p] = IF data[p] \in wanted
                              THEN Append(f[p - 1], <<p - 1, data[p]>>)
                              ELSE f[p - 1]

\* There is such an f.
LEMMA FindLoop ==
  ASSUME NEW n \in Nat, data \in CellsOf(n), NEW wanted
  PROVE  \E f : FindsByTurns(f, wanted, n)
<1> DEFINE Q == Seq(Nat \X Cell)
           step == [x \in Q \X (1..n) |->
                      IF data[x[2]] \in wanted
                        THEN Append(x[1], enumerate(data)[x[2]]) ELSE x[1]]
<1>1. /\ Len(data) = n
      /\ \A p \in 1..n : /\ enumerate(data)[p] = <<p - 1, data[p]>>
                         /\ enumerate(data)[p] \in Nat \X Cell
  BY DEF CellsOf, enumerate
<1>2. <<>> \in Q
  BY EmptySeq
<1>3. \A x \in Q, p \in 1..n :
        /\ step[<<x, p>>] = IF data[p] \in wanted
                              THEN Append(x, enumerate(data)[p]) ELSE x
        /\ step[<<x, p>>] \in Q
  BY <1>1, AppendProperties
<1>4. step \in [Q \X (1..n) -> Q]
  BY <1>1, AppendProperties
<1> HIDE DEF step, Q
<1>5. PICK g : IsLoop(g, n, Q, <<>>, step)
  BY <1>2, <1>4, LoopExists
<1>6. /\ g \in [0..n -> Q] /\ g[0] = <<>>
      /\ \A p \in 1..n : g[p] = IF data[p] \in wanted
                                  THEN Append(g[p - 1], enumerate(data)[p])
                                  ELSE g[p - 1]
  <2>1. \A p \in 1..n : p - 1 \in 0..n
    OBVIOUS
  <2>2. \A p \in 1..n : g[p - 1] \in Q /\ g[p] = step[<<g[p - 1], p>>]
    BY <1>5, <2>1 DEF IsLoop
  <2> QED
    BY <1>3, <1>5, <2>2 DEF IsLoop
<1>7. Finds(g, wanted)
  <2> DEFINE e(p) == IF p = 0 THEN <<>>
                     ELSE IF data[p] \in wanted THEN Append(g[p - 1], enumerate(data)[p])
                     ELSE g[p - 1]
  <2>1. \A p \in 0..n : g[p] = e(p)
    <3>1. \A p \in 0..n : p = 0 \/ p \in 1..n
      OBVIOUS
    <3>2. /\ e(0) = <<>>
          /\ \A p \in 1..n : e(p) = IF data[p] \in wanted
                                      THEN Append(g[p - 1], enumerate(data)[p])
                                      ELSE g[p - 1]
      OBVIOUS
    <3> HIDE DEF e
    <3> QED
      BY <3>1, <3>2, <1>6
  <2> HIDE DEF e
  <2>2. g = [p \in 0..n |-> e(p)]
    BY <2>1, <1>6
  <2>3. g = [p \in 0..Len(data) |-> e(p)]
    BY <2>2, <1>1
  <2> QED
    BY <2>3, Zenon DEF e, Finds
<1> DEFINE f == CHOOSE h : Finds(h, wanted)
<1>8. Finds(f, wanted)
  BY <1>7, Zenon
<1>9. Enumerated(wanted) = f[n]
  <2>1. Enumerated(wanted) = f[Len(data)]
    BY Zenon DEF Enumerated, Finds
  <2> QED
    BY <2>1, <1>1
<1> HIDE DEF f
<1>10. /\ f = [p \in 0..n |-> f[p]] /\ f[0] = <<>>
       /\ \A p \in 1..n : f[p] = IF data[p] \in wanted
                                   THEN Append(f[p - 1], enumerate(data)[p])
                                   ELSE f[p - 1]
  <2> DEFINE e(p) == IF p = 0 THEN <<>>
                     ELSE IF data[p] \in wanted THEN Append(f[p - 1], enumerate(data)[p])
                     ELSE f[p - 1]
  <2>1. f = [p \in 0..Len(data) |-> e(p)]
    BY <1>8, Zenon DEF Finds
  <2>2. /\ e(0) = <<>>
        /\ \A p \in 1..n : e(p) = IF data[p] \in wanted
                                    THEN Append(f[p - 1], enumerate(data)[p])
                                    ELSE f[p - 1]
    OBVIOUS
  <2> HIDE DEF e
  <2>3. (\A p \in 0..n : f[p] = e(p)) /\ f = [p \in 0..n |-> f[p]]
    BY <2>1, <1>1
  <2>4. 0 \in 0..n /\ \A p \in 1..n : p \in 0..n
    OBVIOUS
  <2> QED
    BY <2>2, <2>3, <2>4, Zenon
<1>11. RunsIn(f, n, Q, <<>>, step)
  BY <1>3, <1>10 DEF RunsIn
<1>12. f \in [0..n -> Q]
  BY <1>2, <1>4, <1>11, LoopOf
<1>13. FindsByTurns(f, wanted, n)
  BY <1>1, <1>9, <1>10, <1>12 DEF Q, FindsByTurns
<1> QED
  BY <1>13

\* It takes the wanted cells, with their indices in the whole column.
LEMMA EnumeratedCells ==
  ASSUME NEW n \in Nat, data \in CellsOf(n), NEW wanted
  PROVE  PicksAll(Enumerated(wanted), wanted, n)
<1>0. PICK f : FindsByTurns(f, wanted, n)
  BY FindLoop
<1>1. /\ f \in [0..n -> Seq(Nat \X Cell)]
      /\ f[0] = <<>> /\ Enumerated(wanted) = f[n]
      /\ \A p \in 1..n : f[p] = IF data[p] \in wanted
                                  THEN Append(f[p - 1], <<p - 1, data[p]>>)
                                  ELSE f[p - 1]
  BY <1>0 DEF FindsByTurns
<1> DEFINE T == {p \in 0..n : PicksAll(f[p], wanted, p)}
<1>2. 0 \in T
  BY <1>1 DEF PicksAll, Picks
<1>3. ASSUME NEW p \in 1..n, p - 1 \in T PROVE p \in T
  <2> DEFINE es == f[p - 1]
             m == Len(es)
  <2>1. /\ es \in Seq(Nat \X Cell) /\ m \in Nat /\ p - 1 \in 0..n /\ p \in 0..n
        /\ \A k \in 1..m : es[k] \in Nat \X Cell
    BY <1>1, LenProperties, ElementOfSeq
  <2>2. /\ \A k \in 1..m : /\ es[k][1] < p - 1 /\ es[k][2] = data[es[k][1] + 1]
                           /\ es[k][2] \in wanted
        /\ \A j, k \in 1..m : j < k => es[j][1] < es[k][1]
        /\ \A q \in 1..(p - 1) : data[q] \in wanted => \E k \in 1..m : es[k][1] + 1 = q
    BY <1>3 DEF PicksAll, Picks
  <2>3. \A q \in 1..p : q = p \/ q \in 1..(p - 1)
    OBVIOUS
  <2>4. CASE data[p] \notin wanted
    <3>1. f[p] = es
      BY <1>1, <2>4
    <3> HIDE DEF es, m
    <3>2. \A k \in 1..m : es[k][1] < p
      BY <2>1, <2>2
    <3>3. \A q \in 1..p : data[q] \in wanted => \E k \in 1..m : es[k][1] + 1 = q
      BY <2>2, <2>3, <2>4
    <3>4. PicksAll(es, wanted, p)
      BY <2>1, <2>2, <3>2, <3>3 DEF PicksAll, Picks, m
    <3> QED
      BY <2>1, <3>1, <3>4
  <2>5. CASE data[p] \in wanted
    <3> DEFINE e == <<p - 1, data[p]>>
               fs == f[p]
    <3>1. e \in Nat \X Cell /\ e[1] = p - 1 /\ e[2] = data[p]
      BY DEF CellsOf
    <3>2. fs = Append(es, e)
      BY <1>1, <2>5
    <3> HIDE DEF e, es, fs, m
    <3>3. /\ fs \in Seq(Nat \X Cell) /\ Len(fs) = m + 1 /\ fs[m + 1] = e
          /\ \A k \in 1..m : fs[k] = es[k]
      BY <2>1, <3>1, <3>2, AppendProperties DEF m
    <3>4. \A k \in 1..(m + 1) : k = m + 1 \/ k \in 1..m
      BY <2>1
    <3>5. \A k \in 1..(m + 1) :
            fs[k][1] < p /\ fs[k][2] = data[fs[k][1] + 1] /\ fs[k][2] \in wanted
      <4>1. e[1] + 1 = p /\ e[1] < p
        BY <3>1
      <4>2. fs[m + 1][1] < p /\ fs[m + 1][2] = data[fs[m + 1][1] + 1]
              /\ fs[m + 1][2] \in wanted
        BY <2>5, <3>1, <3>3, <4>1
      <4>3. ASSUME NEW k \in 1..m
            PROVE  fs[k][1] < p /\ fs[k][2] = data[fs[k][1] + 1] /\ fs[k][2] \in wanted
        <5>1. es[k][1] \in Nat
          BY <2>1
        <5>2. /\ es[k][1] < p - 1 /\ es[k][2] = data[es[k][1] + 1]
              /\ es[k][2] \in wanted /\ fs[k] = es[k]
          BY <2>2, <3>3
        <5> QED
          BY <5>1, <5>2
      <4> QED
        BY <3>4, <4>2, <4>3
    <3>6. ASSUME NEW j \in 1..(m + 1), NEW k \in 1..(m + 1), j < k
          PROVE  fs[j][1] < fs[k][1]
      <4>1. j \in 1..m /\ es[j][1] < p - 1 /\ fs[j] = es[j]
        BY <2>1, <2>2, <3>3, <3>6
      <4>2. CASE k = m + 1
        BY <4>1, <4>2, <3>1, <3>3
      <4>3. CASE k \in 1..m
        <5>1. es[j][1] < es[k][1] /\ fs[k] = es[k]
          BY <4>1, <4>3, <2>2, <3>3, <3>6
        <5> QED
          BY <4>1, <5>1
      <4> QED
        BY <4>2, <4>3, <3>4
    <3>7. \A q \in 1..p : data[q] \in wanted => \E k \in 1..(m + 1) : fs[k][1] + 1 = q
      <4> SUFFICES ASSUME NEW q \in 1..p, data[q] \in wanted
                   PROVE  \E k \in 1..(m + 1) : fs[k][1] + 1 = q
        OBVIOUS
      <4>1. CASE q = p
        BY <4>1, <2>1, <3>1, <3>3
      <4>2. CASE q \in 1..(p - 1)
        <5>1. PICK k \in 1..m : es[k][1] + 1 = q
          BY <4>2, <2>2
        <5> QED
          BY <5>1, <2>1, <3>3
      <4> QED
        BY <4>1, <4>2, <2>3
    <3>8. PicksAll(fs, wanted, p)
      BY <3>3, <3>5, <3>6, <3>7 DEF PicksAll, Picks
    <3> QED
      BY <2>1, <3>8 DEF fs
  <2> QED
    BY <2>4, <2>5
<1> HIDE DEF T
<1>4. \A p \in 0..n : p \in T
  BY <1>2, <1>3, UpTo
<1>5. n \in 0..n
  OBVIOUS
<1> QED
  BY <1>1, <1>4, <1>5 DEF T

\* What the loops of forward_fill and backward_fill keep.
CarryState == [last_valid : Cell, updates : Seq(Nat \X Cell)]

\* f has the states that the loop over es runs through.
Carries(f, es) ==
  f = [k \in 0..Len(es) |->
         IF k = 0 THEN NothingCarried ELSE Carry(f[k - 1], es[k])]

\* Turn by turn: the updates of the last state are the ones collected.
CarriesByTurns(f, es) ==
  /\ f \in [0..Len(es) -> CarryState]
  /\ f[0] = NothingCarried /\ Carried(es) = f[Len(es)].updates
  /\ \A k \in 1..Len(es) : f[k] = Carry(f[k - 1], es[k])

\* One turn of the loop: a present cell is remembered, a gap behind one is filled.
LEMMA OneCarry ==
  ASSUME NEW st \in CarryState, NEW e \in Nat \X Cell
  PROVE  /\ Carry(st, e) \in CarryState
         /\ e[2] # Missing =>
              /\ Carry(st, e).last_valid = e[2] /\ Carry(st, e).updates = st.updates
         /\ e[2] = Missing => Carry(st, e).last_valid = st.last_valid
         /\ e[2] = Missing /\ st.last_valid = Missing => Carry(st, e).updates = st.updates
         /\ e[2] = Missing /\ st.last_valid # Missing =>
              Carry(st, e).updates = Append(st.updates, <<e[1], st.last_valid>>)
<1>1. e[1] \in Nat /\ e[2] \in Cell /\ st.last_valid \in Cell
        /\ st.updates \in Seq(Nat \X Cell)
  BY DEF CarryState
<1>2. Append(st.updates, <<e[1], st.last_valid>>) \in Seq(Nat \X Cell)
  BY <1>1, AppendProperties
<1> QED
  BY <1>1, <1>2 DEF Carry, CarryState, IndexOf

\* There is such an f.
LEMMA CarryLoop ==
  ASSUME NEW es \in Seq(Nat \X Cell)
  PROVE  \E f : CarriesByTurns(f, es)
<1> DEFINE m == Len(es)
           step == [x \in CarryState \X (1..m) |-> Carry(x[1], es[x[2]])]
<1>1. m \in Nat /\ \A k \in 1..m : es[k] \in Nat \X Cell
  BY LenProperties, ElementOfSeq
<1>2. NothingCarried \in CarryState
  BY EmptySeq DEF NothingCarried, CarryState, Cell
<1>3. \A x \in CarryState, k \in 1..m : Carry(x, es[k]) \in CarryState
  BY <1>1, OneCarry
<1>4. \A x \in CarryState, k \in 1..m : step[<<x, k>>] = Carry(x, es[k])
  OBVIOUS
<1>5. step \in [CarryState \X (1..m) -> CarryState]
  BY <1>3
<1> HIDE DEF step, m
<1>6. PICK g : IsLoop(g, m, CarryState, NothingCarried, step)
  BY <1>1, <1>2, <1>5, LoopExists
<1>7. /\ g \in [0..m -> CarryState] /\ g[0] = NothingCarried
      /\ \A k \in 1..m : g[k] = Carry(g[k - 1], es[k])
  <2>1. \A k \in 1..m : k - 1 \in 0..m
    BY <1>1
  <2> QED
    BY <1>4, <1>6, <2>1 DEF IsLoop
<1>8. Carries(g, es)
  <2> DEFINE e(k) == IF k = 0 THEN NothingCarried ELSE Carry(g[k - 1], es[k])
  <2>1. \A k \in 0..m : g[k] = e(k)
    <3>1. \A k \in 0..m : k = 0 \/ k \in 1..m
      BY <1>1
    <3>2. e(0) = NothingCarried /\ \A k \in 1..m : e(k) = Carry(g[k - 1], es[k])
      OBVIOUS
    <3> HIDE DEF e
    <3> QED
      BY <3>1, <3>2, <1>7
  <2> HIDE DEF e
  <2>2. g = [k \in 0..m |-> e(k)]
    BY <2>1, <1>7
  <2> QED
    BY <2>2, Zenon DEF e, Carries, m
<1> DEFINE f == CHOOSE h : Carries(h, es)
<1>9. Carries(f, es)
  BY <1>8, Zenon
<1>10. Carried(es) = f[m].updates
  BY Zenon DEF Carried, Carries, m
<1> HIDE DEF f
<1>11. /\ f = [k \in 0..m |-> f[k]] /\ f[0] = NothingCarried
       /\ \A k \in 1..m : f[k] = Carry(f[k - 1], es[k])
  <2> DEFINE e(k) == IF k = 0 THEN NothingCarried ELSE Carry(f[k - 1], es[k])
  <2>1. f = [k \in 0..m |-> e(k)]
    BY <1>9, Zenon DEF Carries, m
  <2>2. e(0) = NothingCarried /\ \A k \in 1..m : e(k) = Carry(f[k - 1], es[k])
    OBVIOUS
  <2> HIDE DEF e
  <2>3. (\A k \in 0..m : f[k] = e(k)) /\ f = [k \in 0..m |-> f[k]]
    BY <2>1
  <2>4. 0 \in 0..m /\ \A k \in 1..m : k \in 0..m
    BY <1>1
  <2> QED
    BY <2>2, <2>3, <2>4, Zenon
<1>12. RunsIn(f, m, CarryState, NothingCarried, step)
  BY <1>4, <1>11 DEF RunsIn
<1>13. f \in [0..m -> CarryState]
  BY <1>1, <1>2, <1>5, <1>12, LoopOf
<1>14. CarriesByTurns(f, es)
  BY <1>10, <1>11, <1>13 DEF CarriesByTurns, m
<1> QED
  BY <1>14

\* v is the last present one of the first k of the cells es.
LastPresent(es, k, v) ==
  /\ v # Missing
  /\ \E h \in 1..k : es[h][2] = v /\ \A r \in (h + 1)..k : es[r][2] = Missing

\* Update u fills the gap at i with the last cell present before it.
FillsGap(u, es, i) ==
  es[i][2] = Missing /\ u[1] = es[i][1] /\ LastPresent(es, i, u[2])

\* us fills those of the first k cells es that are gaps with a cell present
\* before them, each once.
FillsGaps(us, es, k) ==
  /\ us \in Seq(Nat \X Cell)
  /\ \A j \in 1..Len(us) : \E i \in 1..k : FillsGap(us[j], es, i)
  /\ \A i \in 1..k : es[i][2] = Missing =>
       \/ \A r \in 1..i : es[r][2] = Missing
       \/ \E j \in 1..Len(us) : us[j][1] = es[i][1]
  /\ \A j, l \in 1..Len(us) : us[j][1] = us[l][1] => j = l

\* The loop collects exactly these, in whatever order it meets the cells.
LEMMA CarriedUpdates ==
  ASSUME NEW es \in Seq(Nat \X Cell),
         \A i, k \in 1..Len(es) : es[i][1] = es[k][1] => i = k
  PROVE  FillsGaps(Carried(es), es, Len(es))
<1> DEFINE m == Len(es)
<1>0. PICK f : CarriesByTurns(f, es)
  BY CarryLoop
<1>1. /\ f \in [0..m -> CarryState]
      /\ f[0] = NothingCarried /\ Carried(es) = f[m].updates
      /\ \A k \in 1..m : f[k] = Carry(f[k - 1], es[k])
  BY <1>0 DEF CarriesByTurns
<1>2. m \in Nat /\ \A k \in 1..m : es[k] \in Nat \X Cell
  BY LenProperties, ElementOfSeq
<1> DEFINE Remembers(k) ==
             IF f[k].last_valid = Missing
               THEN \A r \in 1..k : es[r][2] = Missing
               ELSE LastPresent(es, k, f[k].last_valid)
           T == {k \in 0..m : Remembers(k) /\ FillsGaps(f[k].updates, es, k)}
<1>3. 0 \in T
  <2>1. f[0].last_valid = Missing /\ f[0].updates = <<>>
    BY <1>1 DEF NothingCarried
  <2>2. FillsGaps(<<>>, es, 0)
    BY EmptySeq DEF FillsGaps
  <2>3. Remembers(0)
    BY <2>1
  <2> QED
    BY <1>2, <2>1, <2>2, <2>3
<1> HIDE DEF m
<1>4. ASSUME NEW k \in 1..m, k - 1 \in T PROVE k \in T
  <2> DEFINE v == f[k - 1].last_valid
             us == f[k - 1].updates
             n == Len(us)
             e == es[k]
  <2>1. /\ k - 1 \in 0..m /\ k \in 0..m /\ f[k - 1] \in CarryState
        /\ e \in Nat \X Cell /\ f[k] = Carry(f[k - 1], e)
    BY <1>1, <1>2
  <2>2. us \in Seq(Nat \X Cell) /\ n \in Nat /\ v \in Cell
    BY <2>1, LenProperties DEF CarryState
  <2>3. /\ IF v = Missing THEN \A r \in 1..(k - 1) : es[r][2] = Missing
                          ELSE LastPresent(es, k - 1, v)
        /\ FillsGaps(us, es, k - 1)
    BY <1>4
  <2>4. /\ e[2] # Missing => f[k].last_valid = e[2] /\ f[k].updates = us
        /\ e[2] = Missing => f[k].last_valid = v
        /\ e[2] = Missing /\ v = Missing => f[k].updates = us
        /\ e[2] = Missing /\ v # Missing => f[k].updates = Append(us, <<e[1], v>>)
    <3> HIDE DEF e
    <3>1. /\ e[2] # Missing =>
               /\ Carry(f[k - 1], e).last_valid = e[2]
               /\ Carry(f[k - 1], e).updates = us
          /\ e[2] = Missing => Carry(f[k - 1], e).last_valid = v
          /\ e[2] = Missing /\ v = Missing => Carry(f[k - 1], e).updates = us
          /\ e[2] = Missing /\ v # Missing =>
               Carry(f[k - 1], e).updates = Append(us, <<e[1], v>>)
      BY <2>1, OneCarry
    <3> QED
      BY <3>1, <2>1
  <2>5. /\ \A i \in 1..k : i = k \/ i \in 1..(k - 1)
        /\ \A i \in 1..(k - 1) : i \in 1..k /\ es[i][1] # e[1]
        /\ k \in 1..k
    BY <1>2 DEF m
  <2> HIDE DEF v, us, n
  <2>6. /\ \A j \in 1..n : \E i \in 1..(k - 1) : FillsGap(us[j], es, i)
        /\ \A i \in 1..(k - 1) : es[i][2] = Missing =>
             \/ \A r \in 1..i : es[r][2] = Missing
             \/ \E j \in 1..n : us[j][1] = es[i][1]
        /\ \A j, l \in 1..n : us[j][1] = us[l][1] => j = l
    BY <2>3 DEF FillsGaps, n
  <2>7. \A j \in 1..n : us[j][1] # e[1]
    BY <2>5, <2>6 DEF FillsGap
  <2>8. ASSUME e[2] = Missing, v # Missing PROVE LastPresent(es, k, v)
    <3>1. PICK h \in 1..(k - 1) :
            es[h][2] = v /\ \A r \in (h + 1)..(k - 1) : es[r][2] = Missing
      BY <2>3, <2>8 DEF LastPresent
    <3>2. \A r \in (h + 1)..k : r = k \/ r \in (h + 1)..(k - 1)
      OBVIOUS
    <3>3. \A r \in (h + 1)..k : es[r][2] = Missing
      BY <2>8, <3>1, <3>2
    <3> QED
      BY <2>5, <2>8, <3>1, <3>3 DEF LastPresent
  <2>9. Remembers(k)
    <3>1. CASE e[2] # Missing
      <4>1. LastPresent(es, k, e[2])
        BY <2>5, <3>1 DEF LastPresent
      <4> QED
        BY <2>4, <3>1, <4>1
    <3>2. CASE e[2] = Missing /\ v = Missing
      <4>1. \A r \in 1..k : es[r][2] = Missing
        BY <2>3, <2>5, <3>2
      <4> QED
        BY <2>4, <3>2, <4>1
    <3>3. CASE e[2] = Missing /\ v # Missing
      BY <2>4, <2>8, <3>3
    <3> QED
      BY <3>1, <3>2, <3>3
  <2>10. FillsGaps(f[k].updates, es, k)
    <3>1. \A j \in 1..n : \E i \in 1..k : FillsGap(us[j], es, i)
      BY <2>5, <2>6
    <3>2. CASE e[2] # Missing
      <4>1. \A i \in 1..k : es[i][2] = Missing =>
              \/ \A r \in 1..i : es[r][2] = Missing
              \/ \E j \in 1..n : us[j][1] = es[i][1]
        BY <2>5, <2>6, <3>2
      <4>2. FillsGaps(us, es, k)
        BY <2>2, <2>6, <3>1, <4>1 DEF FillsGaps, n
      <4> QED
        BY <2>4, <3>2, <4>2
    <3>3. CASE e[2] = Missing /\ v = Missing
      <4>1. \A r \in 1..k : es[r][2] = Missing
        BY <2>3, <2>5, <3>3
      <4>2. \A i \in 1..k : \A r \in 1..i : es[r][2] = Missing
        BY <4>1
      <4>3. FillsGaps(us, es, k)
        BY <2>2, <2>6, <3>1, <4>2 DEF FillsGaps, n
      <4> QED
        BY <2>4, <3>3, <4>3
    <3>4. CASE e[2] = Missing /\ v # Missing
      <4> DEFINE u == <<e[1], v>>
                 ws == Append(us, u)
      <4>1. u \in Nat \X Cell /\ u[1] = e[1] /\ u[2] = v
        BY <2>1, <2>2
      <4> HIDE DEF u
      <4>2. /\ ws \in Seq(Nat \X Cell) /\ Len(ws) = n + 1 /\ ws[n + 1] = u
            /\ \A j \in 1..n : ws[j] = us[j]
        BY <2>2, <4>1, AppendProperties DEF n
      <4>3. f[k].updates = ws
        BY <2>4, <3>4 DEF u
      <4> HIDE DEF ws
      <4>4. \A j \in 1..(n + 1) : j = n + 1 \/ j \in 1..n
        BY <2>2
      <4>5. \A j \in 1..(n + 1) : \E i \in 1..k : FillsGap(ws[j], es, i)
        <5>1. FillsGap(u, es, k)
          BY <2>8, <3>4, <4>1 DEF FillsGap
        <5> QED
          BY <2>5, <3>1, <4>2, <4>4, <5>1
      <4>6. \A i \in 1..k : es[i][2] = Missing =>
              \/ \A r \in 1..i : es[r][2] = Missing
              \/ \E j \in 1..(n + 1) : ws[j][1] = es[i][1]
        <5>1. n + 1 \in 1..(n + 1) /\ \A j \in 1..n : j \in 1..(n + 1)
          BY <2>2
        <5>2. ws[n + 1][1] = es[k][1]
          BY <4>1, <4>2
        <5>3. \A i \in 1..(k - 1) : (\E j \in 1..n : us[j][1] = es[i][1])
                => \E j \in 1..(n + 1) : ws[j][1] = es[i][1]
          BY <4>2, <5>1
        <5> QED
          BY <2>5, <2>6, <5>1, <5>2, <5>3
      <4>7. \A j, l \in 1..(n + 1) : ws[j][1] = ws[l][1] => j = l
        <5>1. \A j \in 1..n : ws[j][1] # e[1] /\ ws[n + 1][1] = e[1]
          BY <2>7, <4>1, <4>2
        <5>2. \A j, l \in 1..n : ws[j][1] = ws[l][1] => j = l
          BY <2>6, <4>2
        <5> HIDE DEF e
        <5> QED
          BY <4>4, <5>1, <5>2, Zenon
      <4> QED
        BY <4>2, <4>3, <4>5, <4>6, <4>7 DEF FillsGaps
    <3> QED
      BY <3>2, <3>3, <3>4
  <2> QED
    BY <2>1, <2>9, <2>10
<1> HIDE DEF T
<1>5. \A k \in 0..m : k \in T
  BY <1>2, <1>3, <1>4, UpTo DEF m
<1>6. m \in 0..m
  BY <1>2 DEF m
<1>7. FillsGaps(f[m].updates, es, m)
  BY <1>5, <1>6 DEF T
<1> QED
  BY <1>1, <1>7 DEF m

-----------------------------------------------------------------------------
(* What each fill and each scaling makes of the cells.                       *)

\* None is none of the numbers.
LEMMA MissingIsNoNumber ==
  /\ Missing \notin f64 /\ NaN \in f64 /\ Inf \in f64 /\ NegInf \in f64
  /\ NaN # Inf /\ NaN # NegInf /\ Inf # NegInf
  /\ NaN \notin Values /\ Inf \notin Values /\ NegInf \notin Values
  /\ \A x \in Cell : x # Missing <=> x \in f64
BY ColumnAssumption DEF f64, Cell

\* The cells of the column, whose number is n.
LEMMA CellsOfColumn ==
  ASSUME NEW n \in Nat, data \in CellsOf(n)
  PROVE  /\ Len(data) = n /\ DOMAIN data = 1..n /\ data \in Seq(Cell)
         /\ \A p \in 1..n : data[p] \in Cell
         /\ \A x : x \in present_values <=> \E p \in 1..n : data[p] = x /\ x \in f64
<1>1. Len(data) = n /\ DOMAIN data = 1..n /\ data \in Seq(Cell)
  BY DEF CellsOf
<1>2. \A p \in 1..n : data[p] \in Cell
  BY DEF CellsOf
<1>3. ASSUME NEW x
      PROVE  x \in present_values <=> \E p \in 1..n : data[p] = x /\ x \in f64
  BY <1>1, Zenon DEF present_values, Range
<1> QED
  BY <1>1, <1>2, <1>3

\* The call succeeds and every cell x becomes m[x].
MapsCells(op, m, n) ==
  /\ call'.op = op /\ call'.result = "Ok" /\ data' \in CellsOf(n)
  /\ \A p \in 1..n : data'[p] = m[data[p]]

\* us has one update for each of the cells picked, with the value that m gives it.
UpdatesBy(us, es, m) ==
  /\ us \in Seq(Nat \X Cell) /\ Len(us) = Len(es)
  /\ \A k \in 1..Len(es) : us[k][1] = es[k][1] /\ us[k][2] = m[es[k][2]]

\* Updates at the indices of the wanted cells are accepted and reach these cells.
LEMMA WantedCellsUpdated ==
  ASSUME NEW n \in Nat, data \in CellsOf(n), NEW wanted, NEW m, NEW us, NEW op, NEW arg,
         UpdatesBy(us, Enumerated(wanted), m), UpdatesElements(op, arg, us),
         \A x \in Cell \ wanted : m[x] = x
  PROVE  MapsCells(op, m, n)
<1> DEFINE es == Enumerated(wanted)
<1>1. PicksAll(es, wanted, n)
  BY EnumeratedCells
<1> HIDE DEF es
<1>2. /\ es \in Seq(Nat \X Cell) /\ Len(es) \in Nat
      /\ \A k \in 1..Len(es) : es[k] \in Nat \X Cell
  BY <1>1, LenProperties, ElementOfSeq DEF PicksAll, Picks
<1>3. /\ us \in Seq(Nat \X Cell) /\ Len(us) = Len(es)
      /\ \A k \in 1..Len(es) : us[k][1] = es[k][1] /\ us[k][2] = m[es[k][2]]
  BY DEF UpdatesBy, es
<1>4. /\ \A k \in 1..Len(es) : /\ es[k][1] \in Nat /\ es[k][1] < n
                               /\ es[k][2] = data[es[k][1] + 1] /\ es[k][2] \in wanted
      /\ \A j, k \in 1..Len(es) : j < k => es[j][1] < es[k][1]
      /\ \A p \in 1..n : data[p] \in wanted => \E k \in 1..Len(es) : es[k][1] + 1 = p
  BY <1>1, <1>2 DEF PicksAll, Picks
<1>5. \A j, k \in 1..Len(es) : es[j][1] = es[k][1] => j = k
  BY <1>2, <1>4
<1>6. UpdatesFor(us, n) /\ \A j, k \in 1..Len(us) : us[j][1] = us[k][1] => j = k
  BY <1>3, <1>4, <1>5 DEF UpdatesFor
<1>7. call'.op = op /\ call'.result = "Ok" /\ data' \in CellsOf(n) /\ Overwrites(data', us, n)
  BY <1>6, UpdateAccepted, UpdateOutcome DEF UpdatesFor
<1>8. ASSUME NEW p \in 1..n PROVE data'[p] = m[data[p]]
  <2>1. CASE data[p] \in wanted
    <3>1. PICK k \in 1..Len(es) : es[k][1] + 1 = p
      BY <1>4, <2>1
    <3>2. es[k][2] = data[p]
      BY <1>4, <3>1
    <3> QED
      BY <1>3, <1>7, <3>1, <3>2 DEF Overwrites
  <2>2. CASE data[p] \notin wanted
    <3>1. \A k \in 1..Len(us) : us[k][1] + 1 # p
      BY <1>3, <1>4, <2>2
    <3>2. data'[p] = data[p] /\ data[p] \in Cell
      BY <1>7, <3>1 DEF Overwrites, CellsOf
    <3> QED
      BY <2>2, <3>2
  <2> QED
    BY <2>1, <2>2
<1> QED
  BY <1>7, <1>8 DEF MapsCells

\* A fill with one value puts it into every gap and nowhere else.
LEMMA GapsFilled ==
  ASSUME NEW n \in Nat, data \in CellsOf(n), NEW value \in f64, NEW op, NEW arg,
         FillsWith(op, arg, value)
  PROVE  MapsCells(op, [x \in Cell |-> IF x = Missing THEN value ELSE x], n)
<1> DEFINE es == Enumerated({Missing})
           m == [x \in Cell |-> IF x = Missing THEN value ELSE x]
           us == [k \in DOMAIN missing_indices |-> <<missing_indices[k], value>>]
<1>1. PicksAll(es, {Missing}, n)
  BY EnumeratedCells
<1>2. /\ es \in Seq(Nat \X Cell) /\ Len(es) \in Nat /\ DOMAIN es = 1..Len(es)
      /\ \A k \in 1..Len(es) : es[k] \in Nat \X Cell /\ es[k][2] = Missing
  BY <1>1, LenProperties, ElementOfSeq DEF PicksAll, Picks
<1>3. value \in Cell /\ Missing \in Cell
  BY DEF Cell
<1> HIDE DEF es
<1>4. us = [k \in 1..Len(es) |-> <<es[k][1], value>>]
  BY <1>2 DEF missing_indices, IndicesOf, IndexOf, es
<1>5. UpdatesBy(us, es, m)
  <2>1. \A k \in 1..Len(es) : <<es[k][1], value>> \in Nat \X Cell
    BY <1>2, <1>3
  <2>2. m[Missing] = value
    BY <1>3
  <2> HIDE DEF us, m
  <2>3. us \in Seq(Nat \X Cell) /\ Len(us) = Len(es)
    <3> DEFINE u(k) == <<es[k][1], value>>
    <3>1. us = [k \in 1..Len(es) |-> u(k)] /\ \A k \in 1..Len(es) : u(k) \in Nat \X Cell
      BY <1>4, <2>1
    <3> HIDE DEF u
    <3> QED
      BY <1>2, <3>1
  <2>4. \A k \in 1..Len(es) : us[k][1] = es[k][1] /\ us[k][2] = m[es[k][2]]
    BY <1>2, <1>4, <2>2
  <2> QED
    BY <2>3, <2>4 DEF UpdatesBy
<1>6. UpdatesElements(op, arg, us)
  BY DEF FillsWith
<1>7. \A x \in Cell \ {Missing} : m[x] = x
  OBVIOUS
<1> HIDE DEF m, us
<1>8. MapsCells(op, m, n)
  BY <1>5, <1>6, <1>7, WantedCellsUpdated DEF es
<1> QED
  BY <1>8 DEF m

\* What a scaling by g makes of a cell.
Scale(g) == [x \in Cell |-> IF x = Missing THEN Missing ELSE g[x]]

\* A scaling replaces every present value and leaves every gap.
LEMMA PresentScaled ==
  ASSUME NEW n \in Nat, data \in CellsOf(n), NEW op, NEW g,
         \A x \in present_values : g[x] \in Cell,
         ScaledBy(op, g)
  PROVE  MapsCells(op, Scale(g), n)
<1> DEFINE es == Enumerated(f64)
           m == Scale(g)
           us == [k \in DOMAIN es |-> <<IndexOf(es[k]), g[es[k][2]]>>]
<1>1. PicksAll(es, f64, n)
  BY EnumeratedCells
<1>2. /\ es \in Seq(Nat \X Cell) /\ Len(es) \in Nat /\ DOMAIN es = 1..Len(es)
      /\ \A k \in 1..Len(es) : /\ es[k] \in Nat \X Cell
                               /\ es[k][2] \in f64 /\ es[k][2] = data[es[k][1] + 1]
                               /\ es[k][1] < n
  BY <1>1, LenProperties, ElementOfSeq DEF PicksAll, Picks
<1>3. ASSUME NEW k \in 1..Len(es) PROVE es[k][2] \in present_values
  <2>1. es[k][1] + 1 \in 1..n
    BY <1>2
  <2> QED
    BY <1>2, <2>1, CellsOfColumn
<1>4. UpdatesElements(op, <<>>, us)
  BY Zenon DEF ScaledBy
<1> HIDE DEF es
<1>5. us = [k \in 1..Len(es) |-> <<es[k][1], g[es[k][2]]>>]
  BY <1>2 DEF IndexOf
<1>6. \A k \in 1..Len(es) : <<es[k][1], g[es[k][2]]>> \in Nat \X Cell
  BY <1>2, <1>3
<1>7. \A x \in f64 : m[x] = g[x]
  BY MissingIsNoNumber DEF Scale, Cell
<1>8. \A x \in Cell \ f64 : m[x] = x
  BY MissingIsNoNumber DEF Scale
<1> HIDE DEF us, m
<1>9. us \in Seq(Nat \X Cell) /\ Len(us) = Len(es)
  BY <1>2, <1>5, <1>6
<1>10. \A k \in 1..Len(es) : us[k][1] = es[k][1] /\ us[k][2] = m[es[k][2]]
  BY <1>2, <1>5, <1>7
<1>11. UpdatesBy(us, Enumerated(f64), m)
  BY <1>9, <1>10 DEF UpdatesBy, es
<1> QED
  BY <1>4, <1>8, <1>11, WantedCellsUpdated DEF m

\* es are the cells of a column of n with their indices, each once.
Walks(es, n) ==
  /\ es \in Seq(Nat \X Cell)
  /\ \A k \in 1..Len(es) : es[k][1] < n /\ es[k][2] = data[es[k][1] + 1]
  /\ \A j, k \in 1..Len(es) : es[j][1] = es[k][1] => j = k

\* Every cell of the walk is afterwards the last present one up to it, if any.
CarriesOn(es, n) ==
  \A k \in 1..Len(es) :
    LET now == data'[es[k][1] + 1]
    IN IF \A r \in 1..k : es[r][2] = Missing THEN now = Missing
                                             ELSE LastPresent(es, k, now)

\* So it is after either of the fills that carry values, which always succeed.
LEMMA CarriedFill ==
  ASSUME NEW n \in Nat, data \in CellsOf(n), NEW es, Walks(es, n), NEW op, NEW arg,
         UpdatesElements(op, arg, Carried(es))
  PROVE  /\ call'.op = op /\ call'.result = "Ok" /\ data' \in CellsOf(n)
         /\ CarriesOn(es, n)
<1> DEFINE us == Carried(es)
           m == Len(es)
<1>1. /\ es \in Seq(Nat \X Cell) /\ m \in Nat
      /\ \A k \in 1..m : /\ es[k] \in Nat \X Cell
                         /\ es[k][1] < n /\ es[k][2] = data[es[k][1] + 1]
      /\ \A j, k \in 1..m : es[j][1] = es[k][1] => j = k
  BY LenProperties, ElementOfSeq DEF Walks
<1>2. FillsGaps(us, es, m)
  BY <1>1, CarriedUpdates
<1> HIDE DEF us
<1>3. /\ us \in Seq(Nat \X Cell)
      /\ \A j \in 1..Len(us) : \E i \in 1..m : FillsGap(us[j], es, i)
      /\ \A i \in 1..m : es[i][2] = Missing =>
           \/ \A r \in 1..i : es[r][2] = Missing
           \/ \E j \in 1..Len(us) : us[j][1] = es[i][1]
      /\ \A j, l \in 1..Len(us) : us[j][1] = us[l][1] => j = l
  BY <1>2 DEF FillsGaps
<1>4. /\ Len(us) \in Nat
      /\ \A j \in 1..Len(us) : us[j] \in Nat \X Cell
  BY <1>3, LenProperties, ElementOfSeq
<1>5. UpdatesFor(us, n)
  BY <1>1, <1>3 DEF UpdatesFor, FillsGap
<1>6. call'.op = op /\ call'.result = "Ok" /\ data' \in CellsOf(n) /\ Overwrites(data', us, n)
  BY <1>3, <1>5, UpdateAccepted, UpdateOutcome DEF us
<1> HIDE DEF m
<1>7. ASSUME NEW k \in 1..m
      PROVE  LET now == data'[es[k][1] + 1]
             IN IF \A r \in 1..k : es[r][2] = Missing THEN now = Missing
                                                      ELSE LastPresent(es, k, now)
  <2> DEFINE p == es[k][1] + 1
  <2>1. /\ p \in 1..n /\ data[p] = es[k][2] /\ k \in 1..k
        /\ \A j \in 1..Len(us) : us[j][1] \in Nat /\ (us[j][1] + 1 = p <=> us[j][1] = es[k][1])
    BY <1>1, <1>4 DEF m
  <2>2. \A j \in 1..Len(us) : us[j][1] = es[k][1] => FillsGap(us[j], es, k)
    <3> SUFFICES ASSUME NEW j \in 1..Len(us), us[j][1] = es[k][1]
                 PROVE  FillsGap(us[j], es, k)
      OBVIOUS
    <3>1. PICK i \in 1..m : FillsGap(us[j], es, i)
      BY <1>3
    <3>2. i = k
      BY <1>1, <3>1 DEF FillsGap
    <3> QED
      BY <3>1, <3>2
  <2>3. (\A j \in 1..Len(us) : us[j][1] # es[k][1]) => data'[p] = es[k][2]
    BY <1>6, <2>1 DEF Overwrites
  <2> HIDE DEF p
  <2>4. CASE es[k][2] # Missing
    <3>1. data'[p] = es[k][2]
      BY <2>2, <2>3, <2>4 DEF FillsGap
    <3>2. LastPresent(es, k, es[k][2])
      BY <2>1, <2>4 DEF LastPresent
    <3> QED
      BY <2>1, <2>4, <3>1, <3>2 DEF p
  <2>5. CASE \A r \in 1..k : es[r][2] = Missing
    <3>1. \A v : ~LastPresent(es, k, v)
      BY <2>5 DEF LastPresent
    <3>2. data'[p] = Missing
      BY <2>1, <2>2, <2>3, <2>5, <3>1 DEF FillsGap
    <3> QED
      BY <2>5, <3>2 DEF p
  <2>6. CASE es[k][2] = Missing /\ ~ \A r \in 1..k : es[r][2] = Missing
    <3>1. PICK j \in 1..Len(us) : us[j][1] = es[k][1]
      BY <1>3, <2>6
    <3>2. data'[p] = us[j][2]
      BY <1>6, <2>1, <3>1 DEF Overwrites, p
    <3>3. LastPresent(es, k, us[j][2])
      BY <2>2, <3>1 DEF FillsGap
    <3> QED
      BY <2>6, <3>2, <3>3 DEF p
  <2> QED
    BY <2>4, <2>5, <2>6
<1> QED
  BY <1>6, <1>7 DEF CarriesOn, m

\* The cells with their indices, from either end, are such walks.
LEMMA CellsEnumerated ==
  ASSUME NEW n \in Nat, data \in CellsOf(n)
  PROVE  /\ Walks(enumerate(data), n) /\ Len(enumerate(data)) = n
         /\ \A k \in 1..n : enumerate(data)[k] = <<k - 1, data[k]>>
         /\ Walks(Reverse(enumerate(data)), n) /\ Len(Reverse(enumerate(data))) = n
         /\ \A k \in 1..n : Reverse(enumerate(data))[k] = <<n - k, data[n - k + 1]>>
<1> DEFINE a == enumerate(data)
           b == Reverse(a)
<1>1. a = [k \in 1..n |-> <<k - 1, data[k]>>]
  BY CellsOfColumn DEF enumerate
<1>2. \A k \in 1..n : <<k - 1, data[k]>> \in Nat \X Cell
  BY CellsOfColumn
<1>3. a \in Seq(Nat \X Cell) /\ Len(a) = n
  BY <1>1, <1>2
<1>4. b = [k \in 1..n |-> a[(n - k) + 1]]
  BY <1>3 DEF Reverse
<1>5. \A k \in 1..n : /\ (n - k) + 1 \in 1..n /\ ((n - k) + 1) - 1 = n - k
                      /\ n - k \in Nat /\ n - k < n
  OBVIOUS
<1> HIDE DEF a, b
<1>6. \A k \in 1..n : a[k] = <<k - 1, data[k]>> /\ a[k][1] = k - 1 /\ a[k][2] = data[k]
  BY <1>1
<1>7. \A k \in 1..n : /\ b[k] = a[(n - k) + 1]
                      /\ a[(n - k) + 1] = <<((n - k) + 1) - 1, data[(n - k) + 1]>>
  BY <1>4, <1>5, <1>6
<1>8. \A k \in 1..n : /\ b[k] = <<n - k, data[n - k + 1]>>
                      /\ b[k][1] = n - k /\ b[k][2] = data[n - k + 1]
  <2>1. ASSUME NEW k \in 1..n PROVE b[k] = <<n - k, data[n - k + 1]>>
    <3>1. ((n - k) + 1) - 1 = n - k
      OBVIOUS
    <3>2. b[k] = <<((n - k) + 1) - 1, data[(n - k) + 1]>>
      BY <1>7, Zenon
    <3> QED
      BY <3>1, <3>2, Zenon
  <2> QED
    BY <2>1
<1>9. b \in Seq(Nat \X Cell) /\ Len(b) = n
  <2>1. \A k \in 1..n : a[(n - k) + 1] \in Nat \X Cell
    BY <1>2, <1>5, <1>6
  <2> QED
    BY <1>4, <2>1
<1>10. Walks(a, n)
  <2>1. \A k \in 1..n : a[k][1] < n /\ a[k][1] + 1 = k
    BY <1>6
  <2>2. \A k \in 1..n : a[k][2] = data[a[k][1] + 1]
    BY <1>6, <2>1
  <2>3. \A j, k \in 1..n : a[j][1] = a[k][1] => j = k
    BY <1>6
  <2> QED
    BY <1>3, <2>1, <2>2, <2>3 DEF Walks
<1>11. Walks(b, n)
  <2>1. \A k \in 1..n : b[k][1] < n /\ b[k][1] + 1 = n - k + 1
    BY <1>5, <1>8
  <2>2. \A k \in 1..n : b[k][2] = data[b[k][1] + 1]
    BY <1>8, <2>1
  <2>3. \A j, k \in 1..n : b[j][1] = b[k][1] => j = k
    BY <1>8
  <2> QED
    BY <1>9, <2>1, <2>2, <2>3 DEF Walks
<1> QED
  BY <1>3, <1>6, <1>8, <1>9, <1>10, <1>11 DEF a, b

-----------------------------------------------------------------------------
(* The numbers that means and scalings yield.                                *)

\* A quotient is cut to the integer below it.
LEMMA QuotientBounds ==
  ASSUME NEW x \in Nat, NEW d \in Nat \ {0}
  PROVE  x \div d \in Int /\ d * (x \div d) <= x /\ x < d * (x \div d) + d
<1>1. x \div d \in Int
  OBVIOUS
<1>2. d * (x \div d) <= x
  BY SMTT(30)
<1>3. x < d * (x \div d) + d
  BY SMTT(30)
<1> QED
  BY <1>1, <1>2, <1>3

\* Multiples of d less than d apart or in order are in order.
LEMMA MultiplesInOrder ==
  ASSUME NEW q \in Int, NEW r \in Int, NEW d \in Nat \ {0}, d * q < d * r + d
  PROVE  q <= r
<1> SUFFICES ASSUME q >= r + 1 PROVE FALSE
  OBVIOUS
<1>1. PICK e \in Nat : q = r + 1 + e
  <2>1. q - (r + 1) \in Nat
    OBVIOUS
  <2> QED
    BY <2>1
<1>2. d * (r + 1 + e) = d * r + d + d * e
  BY SMTT(30)
<1>3. d * e >= 0
  BY SMTT(30)
<1>4. d * e \in Int /\ d * r \in Int
  OBVIOUS
<1> QED
  BY <1>1, <1>2, <1>3, <1>4

\* Distances a up to d are cut to 0..o in their order, and 0 and d to its ends.
CutInOrder(a, b, d, o) ==
  /\ (a * o) \div d \in 0..o /\ (a * o) \div d <= (b * o) \div d
  /\ (0 * o) \div d = 0 /\ (d * o) \div d = o

\* The division does so.
LEMMA QuotientsInOrder ==
  ASSUME NEW a \in Nat, NEW b \in Nat, NEW d \in Nat \ {0}, NEW o \in Nat,
         a <= b, b <= d
  PROVE  CutInOrder(a, b, d, o)
<1>1. /\ a * o \in Nat /\ b * o \in Nat /\ d * o \in Nat /\ 0 * o = 0
      /\ 0 <= a * o /\ a * o <= b * o /\ b * o <= d * o
  BY SMTT(30)
<1> DEFINE A == (a * o) \div d
           B == (b * o) \div d
           Z == 0 \div d
           D == (d * o) \div d
<1>2. /\ A \in Int /\ d * A <= a * o /\ a * o < d * A + d
      /\ B \in Int /\ d * B <= b * o /\ b * o < d * B + d
  BY <1>1, QuotientBounds
<1>3. /\ Z \in Int /\ d * Z <= 0 /\ 0 < d * Z + d
      /\ D \in Int /\ d * D <= d * o /\ d * o < d * D + d
  BY <1>1, QuotientBounds
<1> HIDE DEF A, B, Z, D
<1>4. d * A \in Int /\ d * B \in Int /\ d * Z \in Int /\ d * D \in Int /\ d * 0 = 0
        /\ d * o \in Int
  BY <1>2, <1>3
<1>5. A <= B
  BY <1>1, <1>2, <1>4, MultiplesInOrder
<1>6. 0 <= A
  <2>1. d * 0 < d * A + d
    BY <1>1, <1>2, <1>4
  <2> QED
    BY <1>2, <2>1, MultiplesInOrder
<1>7. A <= o
  <2>1. d * A < d * o + d
    BY <1>1, <1>2, <1>4
  <2> QED
    BY <1>2, <2>1, MultiplesInOrder
<1>8. Z = 0
  <2>1. d * Z < d * 0 + d /\ d * 0 < d * Z + d
    BY <1>3, <1>4
  <2> QED
    BY <1>3, <2>1, MultiplesInOrder
<1>9. D = o
  <2>1. d * D < d * o + d /\ d * o < d * D + d
    BY <1>3, <1>4
  <2>2. D <= o
    BY <1>3, <2>1, MultiplesInOrder
  <2>3. o <= D
    BY <1>3, <2>1, MultiplesInOrder
  <2> QED
    BY <1>3, <2>2, <2>3
<1> QED
  BY <1>1, <1>2, <1>5, <1>6, <1>7, <1>8, <1>9 DEF A, B, Z, D, CutInOrder

\* A number that no other one exceeds, or is below, is the maximum or minimum.
LEMMA TheExtreme ==
  ASSUME NEW S, S \subseteq Int, NEW x \in S
  PROVE  /\ (\A y \in S : y <= x) => Max(S) = x
         /\ (\A y \in S : x <= y) => Min(S) = x
<1>0. \A y \in S : y \in Int
  OBVIOUS
<1>1. ASSUME \A y \in S : y <= x PROVE Max(S) = x
  <2> DEFINE Best(z) == z \in S /\ \A y \in S : z >= y
  <2>1. Max(S) = CHOOSE z : Best(z)
    BY Zenon DEF Max
  <2>2. Best(x) /\ \A z : Best(z) => z = x
    <3>1. Best(x)
      BY <1>0, <1>1
    <3>2. ASSUME NEW z, Best(z) PROVE z = x
      <4>1. z \in S /\ z \in Int /\ x \in Int /\ z >= x /\ x >= z
        BY <1>0, <1>1, <3>2
      <4> QED
        BY <4>1
    <3> QED
      BY <3>1, <3>2
  <2> HIDE DEF Best
  <2> QED
    BY <2>1, <2>2
<1>2. ASSUME \A y \in S : x <= y PROVE Min(S) = x
  <2> DEFINE Best(z) == z \in S /\ \A y \in S : z <= y
  <2>1. Min(S) = CHOOSE z : Best(z)
    BY Zenon DEF Min
  <2>2. Best(x) /\ \A z : Best(z) => z = x
    <3>1. Best(x)
      BY <1>0, <1>2
    <3>2. ASSUME NEW z, Best(z) PROVE z = x
      <4>1. z \in S /\ z \in Int /\ x \in Int /\ z <= x /\ x <= z
        BY <1>0, <1>2, <3>2
      <4> QED
        BY <4>1
    <3> QED
      BY <3>1, <3>2
  <2> HIDE DEF Best
  <2> QED
    BY <2>1, <2>2
<1> QED
  BY <1>1, <1>2

\* The finite numbers of the column, if it has any, have a least and a greatest.
LEMMA ColumnExtremes ==
  ASSUME NEW n \in Nat, data \in CellsOf(n), present_values \cap Values # {}
  PROVE  LET S == present_values \cap Values
         IN /\ S \subseteq Int /\ Min(S) \in S /\ Max(S) \in S
            /\ \A y \in S : Min(S) <= y /\ y <= Max(S)
<1> DEFINE S == present_values \cap Values
           Held(k) == {p \in 1..k : data[p] \in Values}
           Bounded(k) == \E g, h \in Held(k) :
                           \A p \in Held(k) : data[g] <= data[p] /\ data[p] <= data[h]
           T == {k \in 0..n : Held(k) = {} \/ Bounded(k)}
<1>1. \A x : x \in S <=> \E p \in Held(n) : data[p] = x
  BY CellsOfColumn DEF f64
<1>2. S \subseteq Int /\ \A v \in Values : v \in Int
  BY ColumnAssumption
<1>3. 0 \in T
  OBVIOUS
<1>4. ASSUME NEW k \in 1..n, k - 1 \in T PROVE k \in T
  <2>1. /\ \A p \in Held(k) : p = k \/ p \in Held(k - 1)
        /\ \A p \in Held(k - 1) : p \in Held(k) /\ data[p] \in Int
        /\ k \in 0..n
    <3>1. \A p \in 1..k : p = k \/ p \in 1..(k - 1)
      OBVIOUS
    <3>2. \A p \in 1..(k - 1) : p \in 1..k
      OBVIOUS
    <3> QED
      BY <3>1, <3>2, <1>2
  <2>2. Held(k - 1) = {} \/ Bounded(k - 1)
    BY <1>4
  <2>3. CASE data[k] \notin Values
    <3>1. Held(k) = Held(k - 1)
      BY <2>1, <2>3
    <3> HIDE DEF Held
    <3> QED
      BY <2>1, <2>2, <3>1
  <2>4. CASE data[k] \in Values
    <3>1. k \in Held(k) /\ data[k] \in Int
      <4>1. k \in 1..k
        OBVIOUS
      <4> QED
        BY <2>4, <4>1, <1>2
    <3> HIDE DEF Held
    <3>2. CASE Held(k - 1) = {}
      <4>1. \A p \in Held(k) : data[k] <= data[p] /\ data[p] <= data[k]
        BY <2>1, <3>1, <3>2
      <4> QED
        BY <2>1, <3>1, <4>1
    <3>3. CASE Bounded(k - 1)
      <4>1. PICK g \in Held(k - 1), h \in Held(k - 1) :
              \A p \in Held(k - 1) : data[g] <= data[p] /\ data[p] <= data[h]
        BY <3>3
      <4> DEFINE low == IF data[k] < data[g] THEN k ELSE g
                 high == IF data[h] < data[k] THEN k ELSE h
      <4>2. low \in Held(k) /\ high \in Held(k)
        BY <2>1, <3>1
      <4>3. \A p \in Held(k) : data[low] <= data[p] /\ data[p] <= data[high]
        <5>1. data[g] \in Int /\ data[h] \in Int
          BY <2>1
        <5>2. data[low] <= data[k] /\ data[k] <= data[high]
          BY <3>1, <5>1
        <5>3. ASSUME NEW p \in Held(k - 1)
              PROVE  data[low] <= data[p] /\ data[p] <= data[high]
          <6>1. data[p] \in Int
            BY <2>1
          <6> QED
            BY <3>1, <4>1, <5>1, <6>1
        <5> HIDE DEF low, high
        <5> QED
          BY <2>1, <5>2, <5>3
      <4> HIDE DEF low, high
      <4> QED
        BY <2>1, <4>2, <4>3
    <3> QED
      BY <2>2, <3>2, <3>3
  <2> QED
    BY <2>3, <2>4
<1> HIDE DEF T, Held
<1>5. \A k \in 0..n : k \in T
  BY <1>3, <1>4, UpTo
<1>6. Held(n) # {}
  BY <1>1
<1>7. Bounded(n)
  <2>1. n \in T
    BY <1>5
  <2> HIDE DEF Bounded
  <2> QED
    BY <2>1, <1>6 DEF T
<1>8. PICK g \in Held(n), h \in Held(n) :
        \A p \in Held(n) : data[g] <= data[p] /\ data[p] <= data[h]
  BY <1>7
<1>9. /\ data[g] \in S /\ data[h] \in S
      /\ \A y \in S : data[g] <= y /\ y <= data[h]
  BY <1>1, <1>8
<1> HIDE DEF S
<1>10. Min(S) = data[g] /\ Max(S) = data[h]
  BY <1>2, <1>9, TheExtreme
<1> QED
  BY <1>2, <1>9, <1>10 DEF S

\* A scaling's g makes numbers of numbers, and finite ones of plain ones.  If it
\* makes finite ones of finite ones, then in their order, the least apart from
\* the greatest if there are two and none is huge.
Rescales(g) ==
  /\ \A x \in present_values : g[x] \in f64
  /\ present_values \subseteq Plain => \A x \in present_values : g[x] \in Values
  /\ present_values \subseteq Values /\ (\A x \in present_values : g[x] \in Values) =>
       /\ \A x, y \in present_values : x <= y => g[x] <= g[y]
       /\ present_values \cap Huge = {} /\ Cardinality(present_values) > 1 =>
            \E x, y \in present_values : g[x] # g[y]

\* The smallest and the largest number of the column, when both are finite.
LEMMA FiniteExtremes ==
  ASSUME NEW n \in Nat, data \in CellsOf(n), Smallest \in Values, Largest \in Values
  PROVE  LET S == present_values \cap Values
         IN /\ Smallest \in S /\ Largest \in S
            /\ Smallest \in Int /\ Largest \in Int
            /\ \A y \in S : y \in Int /\ Smallest <= y /\ y <= Largest
<1> DEFINE S == present_values \cap Values
<1>1. S # {} /\ NegInf \notin present_values /\ Inf \notin present_values
  BY MissingIsNoNumber DEF Smallest, Largest
<1>2. Smallest = Min(S) /\ Largest = Max(S)
  BY <1>1 DEF Smallest, Largest
<1>3. \A v \in Values : v \in Int
  BY ColumnAssumption
<1>4. /\ Min(S) \in S /\ Max(S) \in S
      /\ \A y \in S : Min(S) <= y /\ y <= Max(S)
  BY <1>1, ColumnExtremes
<1> HIDE DEF S
<1>5. \A y \in S : y \in Values
  BY DEF S
<1>6. /\ Smallest \in S /\ Largest \in S
      /\ \A y \in S : y \in Int /\ Smallest <= y /\ y <= Largest
  BY <1>2, <1>3, <1>4, <1>5
<1>7. Smallest \in Int /\ Largest \in Int
  BY <1>6
<1> QED
  BY <1>6, <1>7 DEF S

\* The finite numbers of a column of finite ones have finite extremes.
LEMMA ExtremesOfFinite ==
  ASSUME NEW n \in Nat, data \in CellsOf(n), present_values # {},
         present_values \subseteq Values
  PROVE  Smallest \in Values /\ Largest \in Values
<1>1. /\ NegInf \notin present_values /\ Inf \notin present_values
      /\ present_values \cap Values # {}
  BY MissingIsNoNumber
<1>2. /\ Smallest = Min(present_values \cap Values)
      /\ Largest = Max(present_values \cap Values)
  BY <1>1 DEF Smallest, Largest
<1>3. /\ Min(present_values \cap Values) \in present_values \cap Values
      /\ Max(present_values \cap Values) \in present_values \cap Values
  BY <1>1, ColumnExtremes
<1> QED
  BY <1>2, <1>3

\* The quotient of a finite difference by a finite range that is not 0.
LEMMA FiniteQuotients ==
  ASSUME NEW n \in Nat, data \in CellsOf(n), Smallest # Largest, NEW far,
         Smallest \in Values, Largest \in Values \ far,
         NEW x \in present_values \cap Values, NEW y \in present_values \cap Values,
         x \notin far, y \notin far, x <= y
  PROVE  /\ Rescaled(x, Smallest, Largest, far) \in 0..One
         /\ Rescaled(x, Smallest, Largest, far) <= Rescaled(y, Smallest, Largest, far)
<1> DEFINE a == x - Smallest
           b == y - Smallest
           d == Largest - Smallest
<1>1. /\ Smallest \in Int /\ Largest \in Int /\ x \in Int /\ y \in Int
      /\ Smallest <= x /\ y <= Largest /\ Smallest <= Largest
  BY FiniteExtremes
<1>2. a \in Nat /\ b \in Nat /\ d \in Nat \ {0} /\ a <= b /\ b <= d /\ One \in Nat
  BY <1>1, ColumnAssumption
<1>3. /\ Rescaled(x, Smallest, Largest, far) = (a * One) \div d
      /\ Rescaled(y, Smallest, Largest, far) = (b * One) \div d
  BY DEF Rescaled
<1> HIDE DEF a, b, d
<1>4. CutInOrder(a, b, d, One)
  BY ONLY <1>2, QuotientsInOrder
<1> QED
  BY <1>3, <1>4 DEF CutInOrder

\* The extremes become 0 and One.
LEMMA ExtremeQuotients ==
  ASSUME NEW n \in Nat, data \in CellsOf(n), Smallest # Largest, NEW far,
         Smallest \in Values \ far, Largest \in Values \ far
  PROVE  /\ Rescaled(Smallest, Smallest, Largest, far) = 0
         /\ Rescaled(Largest, Smallest, Largest, far) = One
<1> DEFINE d == Largest - Smallest
<1>1. /\ Smallest \in Int /\ Largest \in Int /\ Smallest <= Largest
  BY FiniteExtremes
<1>2. d \in Nat \ {0} /\ One \in Nat /\ 0 <= d /\ d <= d /\ Smallest - Smallest = 0
  BY <1>1, ColumnAssumption
<1>3. /\ Rescaled(Smallest, Smallest, Largest, far) = ((Smallest - Smallest) * One) \div d
      /\ Rescaled(Largest, Smallest, Largest, far) = (d * One) \div d
  BY DEF Rescaled
<1>4. Rescaled(Smallest, Smallest, Largest, far) = (0 * One) \div d
  BY <1>2, <1>3
<1> HIDE DEF d
<1>5. CutInOrder(0, d, d, One)
  <2>1. 0 \in Nat /\ d \in Nat
    BY <1>2
  <2> QED
    BY ONLY <1>2, <2>1, QuotientsInOrder
<1> QED
  BY <1>3, <1>4, <1>5 DEF CutInOrder

\* min_max_scale divides by the range where there is one.
LEMMA MinMaxRescales ==
  ASSUME NEW n \in Nat, data \in CellsOf(n), present_values # {}, Smallest # Largest,
         NEW far \in Farthest
  PROVE  Rescales([x \in present_values |-> Rescaled(x, Smallest, Largest, far)])
<1> DEFINE S == present_values \cap Values
           R(x) == Rescaled(x, Smallest, Largest, far)
           g == [x \in present_values |-> R(x)]
<1>1. /\ \A v \in Values : v \in Int /\ v \in f64
      /\ 0 \in Values /\ \A v \in 0..One : v \in Values
      /\ One \in Nat /\ One # 0 /\ NaN \in f64 /\ NaN \notin Values
  BY ColumnAssumption, MissingIsNoNumber DEF f64
<1>2. /\ \A x \in far : x \in present_values /\ x \in Huge
      /\ \A x \in far : \A y \in S : x <= y => y \in far
  BY DEF Farthest
<1>3. ASSUME NEW x \in present_values
      PROVE  R(x) \in f64 /\ (x \in far => R(x) = NaN)
  <2>1. CASE x \notin Values \ far \/ Smallest \notin Values
    BY <1>1, <2>1 DEF Rescaled
  <2>2. CASE x \in Values \ far /\ Smallest \in Values /\ Largest \notin Values \ far
    BY <1>1, <2>2 DEF Rescaled
  <2>3. CASE x \in Values \ far /\ Smallest \in Values /\ Largest \in Values \ far
    <3>1. x \in S /\ x <= x /\ x \notin far
      BY <1>1, <2>3
    <3>2. R(x) \in 0..One
      BY <2>3, <3>1, FiniteQuotients
    <3> QED
      BY <1>1, <2>3, <3>2
  <2> QED
    BY <2>1, <2>2, <2>3
<1>4. ASSUME present_values \subseteq Values, far = {}
      PROVE  /\ \A x \in present_values : R(x) \in Values
             /\ \A x, y \in present_values : x <= y => R(x) <= R(y)
             /\ \E x, y \in present_values : R(x) # R(y)
  <2>1. /\ Smallest \in Values \ far /\ Largest \in Values \ far
        /\ \A x \in present_values : x \in S /\ x \notin far /\ x <= x
    BY <1>1, <1>4, ExtremesOfFinite
  <2>2. \A x, y \in present_values : x <= y => R(x) \in 0..One /\ R(x) <= R(y)
    BY <2>1, FiniteQuotients
  <2>3. R(Smallest) = 0 /\ R(Largest) = One
    BY <2>1, ExtremeQuotients
  <2>4. Smallest \in present_values /\ Largest \in present_values
    BY <2>1, FiniteExtremes
  <2> HIDE DEF R
  <2> QED
    BY <1>1, <2>1, <2>2, <2>3, <2>4
<1>5. ASSUME present_values \subseteq Values, \A x \in present_values : R(x) \in Values
      PROVE  far = {}
  <2> SUFFICES ASSUME NEW z \in far PROVE FALSE
    OBVIOUS
  <2>1. Largest \in S /\ z \in S /\ z <= Largest
    BY <1>2, <1>5, ExtremesOfFinite, FiniteExtremes
  <2>2. Largest \in far /\ Largest \in present_values
    BY <1>2, <2>1
  <2> QED
    BY <1>1, <1>3, <1>5, <2>2
<1>6. ASSUME present_values \subseteq Plain
      PROVE  present_values \subseteq Values /\ far = {}
  BY <1>2, <1>6 DEF Plain
<1> HIDE DEF R
<1>7. \A x \in present_values : g[x] = R(x)
  OBVIOUS
<1> HIDE DEF g
<1>8. Rescales(g)
  <2>1. \A x \in present_values : g[x] \in f64
    BY <1>3, <1>7
  <2>2. present_values \subseteq Plain => \A x \in present_values : g[x] \in Values
    BY <1>4, <1>6, <1>7
  <2>3. ASSUME present_values \subseteq Values, \A x \in present_values : g[x] \in Values
        PROVE  /\ \A x, y \in present_values : x <= y => g[x] <= g[y]
               /\ \E x, y \in present_values : g[x] # g[y]
    BY <1>4, <1>5, <1>7, <2>3
  <2> QED
    BY <2>1, <2>2, <2>3 DEF Rescales
<1> QED
  BY <1>8, Zenon DEF g, R

\* Sums of numbers that are not huge do not overflow.
LEMMA NoOverflow ==
  ASSUME NEW n \in Nat, data \in CellsOf(n), present_values \cap Huge = {}
  PROVE  Overflows = {}
<1>1. ASSUME NEW H, H \subseteq Huge PROVE HowMany(H) = 0
  <2>1. \A p \in DOMAIN data : data[p] \notin H
    <3> SUFFICES ASSUME NEW p \in DOMAIN data, data[p] \in H PROVE FALSE
      OBVIOUS
    <3>1. data[p] \in Huge /\ data[p] \in f64
      BY <1>1, ColumnAssumption DEF f64
    <3>2. data[p] \in present_values
      BY <3>1 DEF present_values, Range
    <3> QED
      BY <3>1, <3>2
  <2>2. {p \in DOMAIN data : data[p] \in H} = {}
    BY <2>1
  <2> QED
    BY <2>2, FS_EmptySet DEF HowMany
<1>2. \A i : HowMany({h \in Huge : IF i = Inf THEN h > 0 ELSE h < 0}) = 0
  BY <1>1
<1> HIDE DEF HowMany
<1> QED
  BY <1>2 DEF Overflows

\* The finite scores keep the order, and the extremes apart.
LEMMA FiniteScoresRescale ==
  ASSUME NEW n \in Nat, data \in CellsOf(n), present_values # {},
         present_values \subseteq Values, NEW g \in FiniteScores
  PROVE  Rescales(g)
<1>1. \A v \in Values : v \in Int /\ v \in f64
  BY ColumnAssumption DEF f64
<1>2. CASE AllEqual
  <2>1. PICK z \in {One, -One} \cap Values : g = [x \in present_values |-> z]
    BY <1>2 DEF FiniteScores
  <2>2. \A x \in present_values : g[x] = z /\ g[x] \in Values /\ g[x] \in f64
    BY <1>1, <2>1
  <2>3. z <= z /\ Cardinality(present_values) = 1
    BY <1>1, <1>2, <2>1 DEF AllEqual
  <2> QED
    BY <2>2, <2>3 DEF Rescales
<1>3. CASE ~AllEqual
  <2> DEFINE low == g[Min(present_values)]
             high == g[Max(present_values)]
  <2>1. /\ g \in [present_values -> Values]
        /\ \A x, y \in present_values : x < y => g[x] <= g[y]
        /\ low < high
    BY <1>3, Zenon DEF FiniteScores
  <2>2. \A x \in present_values : g[x] \in Values /\ g[x] \in f64 /\ g[x] \in Int /\ x \in Int
    BY <1>1, <2>1
  <2>3. \A x, y \in present_values : x <= y => g[x] <= g[y]
    <3> SUFFICES ASSUME NEW x \in present_values, NEW y \in present_values, x <= y
                 PROVE  g[x] <= g[y]
      OBVIOUS
    <3>1. CASE x = y
      BY <2>2, <3>1
    <3>2. CASE x < y
      BY <2>1, <3>2
    <3> QED
      BY <2>2, <3>1, <3>2
  <2>4. present_values \cap Values = present_values
    OBVIOUS
  <2>5. Min(present_values) \in present_values /\ Max(present_values) \in present_values
    BY <2>4, ColumnExtremes
  <2>6. low # high
    BY <2>1, <2>2, <2>5
  <2> QED
    BY <2>2, <2>3, <2>5, <2>6 DEF Rescales
<1> QED
  BY <1>2, <1>3

\* So do the scores of z_score_standardization: a sum of squares that is faint or
\* infinite comes of numbers that are not plain.
LEMMA ScoresRescale ==
  ASSUME NEW n \in Nat, data \in CellsOf(n), present_values # {},
         NEW kind \in {"faint", "finite", "infinite", "NaN"}, SquaresSum(kind),
         NEW g \in ZScores(kind)
  PROVE  Rescales(g)
<1>1. /\ NaN \in f64 /\ Inf \in f64 /\ NegInf \in f64 /\ 0 \in f64 /\ 0 \in Values
      /\ NaN \notin Values /\ Inf \notin Values /\ NegInf \notin Values /\ 0 <= 0
      /\ Plain \subseteq Values /\ Plain \cap Huge = {} /\ Plain \cap Tiny = {}
  BY ColumnAssumption, MissingIsNoNumber DEF f64, Plain
<1>2. CASE kind = "finite"
  <2>1. g \in FiniteScores /\ present_values \subseteq Values
    BY <1>2 DEF ZScores, SquaresSum, Spread
  <2> QED
    BY <2>1, FiniteScoresRescale
<1>3. CASE kind = "faint"
  <2>1. /\ g \in [present_values -> {NaN, Inf, NegInf}]
        /\ Spread /\ present_values \subseteq Tiny \cup {0}
    BY <1>3, Zenon DEF ZScores, SquaresSum, FaintScores
  <2>2. \A x \in present_values : g[x] \in f64 /\ g[x] \notin Values
    BY <1>1, <2>1
  <2>3. ~(present_values \subseteq Plain)
    <3> SUFFICES ASSUME present_values \subseteq Plain PROVE FALSE
      OBVIOUS
    <3>1. present_values = {0}
      BY <1>1, <2>1
    <3>2. Cardinality({0}) = 1
      BY FS_Singleton
    <3> QED
      BY <1>1, <2>1, <3>1, <3>2 DEF Spread, AllEqual, MeanMayMiss
  <2> QED
    BY <2>2, <2>3 DEF Rescales
<1>4. CASE kind = "infinite"
  <2>1. /\ g \in [present_values -> {NaN, 0}]
        /\ Overflows # {} \/ present_values \cap Huge # {}
    BY <1>4, Zenon DEF ZScores, SquaresSum, InfiniteScores
  <2>2. present_values \cap Huge # {}
    BY <2>1, NoOverflow
  <2>3. \A x \in present_values : g[x] \in f64 /\ (g[x] \in Values => g[x] = 0)
    BY <1>1, <2>1
  <2>4. ~(present_values \subseteq Plain)
    BY <1>1, <2>2
  <2> QED
    BY <1>1, <2>2, <2>3, <2>4 DEF Rescales
<1>5. CASE kind = "NaN"
  <2>1. g = [x \in present_values |-> NaN] /\ ~(present_values \subseteq Values)
    BY <1>5 DEF ZScores, SquaresSum
  <2>2. \A x \in present_values : g[x] \in f64
    BY <1>1, <2>1
  <2> QED
    BY <1>1, <2>1, <2>2 DEF Rescales
<1> QED
  BY <1>2, <1>3, <1>4, <1>5

\* A mean is a number, and a finite one of plain numbers.
LEMMA MeanIsNumber ==
  ASSUME NEW n \in Nat, data \in CellsOf(n), present_values # {}, NEW m \in Means
  PROVE  m \in f64 /\ (present_values \subseteq Plain => m \in Values)
<1>1. /\ NaN \in f64 /\ Inf \in f64 /\ NegInf \in f64 /\ Values \subseteq f64
      /\ Overflows \subseteq {Inf, NegInf}
  BY MissingIsNoNumber DEF f64, Overflows
<1>2. \/ m = NaN
      \/ m \in Overflows \/ m \in present_values \cap {Inf, NegInf}
      \/ m \in Values
  BY DEF Means
<1>3. ASSUME present_values \subseteq Plain PROVE m \in Values
  <2>1. Overflows = {}
    BY <1>3, NoOverflow DEF Plain
  <2>2. /\ NaN \notin present_values /\ Inf \notin present_values
        /\ NegInf \notin present_values
    BY <1>3, MissingIsNoNumber DEF Plain
  <2> QED
    BY <2>1, <2>2, MissingIsNoNumber DEF Means
<1> QED
  BY <1>1, <1>2, <1>3

-----------------------------------------------------------------------------
(* The indices that remove_element sorts.                                    *)

\* s ascends, and its entries are the elements of S.
Ascends(s, S) ==
  /\ s \in Seq(S)
  /\ \A j, k \in 1..Len(s) : j < k => s[j] < s[k]
  /\ \A x \in S : \E k \in 1..Len(s) : s[k] = x

\* Every set of indices below some bound can be sorted.
LEMMA AscendingExists ==
  ASSUME NEW S, S \subseteq Nat, NEW b \in Nat, \A x \in S : x < b
  PROVE  \E s : Ascends(s, S)
<1> DEFINE Below(c) == {x \in S : x < c}
           T == {c \in 0..b : \E s : Ascends(s, Below(c))}
<1>1. 0 \in T
  <2>1. Below(0) = {}
    <3>1. ASSUME NEW x \in Below(0) PROVE FALSE
      <4>1. x \in Nat /\ x < 0
        OBVIOUS
      <4> QED
        BY <4>1
    <3> HIDE DEF Below
    <3> QED
      BY <3>1
  <2>2. Ascends(<<>>, {})
    BY EmptySeq DEF Ascends
  <2> HIDE DEF Below
  <2>3. 0 \in 0..b
    OBVIOUS
  <2> QED
    BY <2>1, <2>2, <2>3, Zenon
<1>2. ASSUME NEW c \in 1..b, c - 1 \in T PROVE c \in T
  <2>1. PICK s : Ascends(s, Below(c - 1))
    BY <1>2
  <2>2. c \in 0..b /\ c - 1 \in Nat
    OBVIOUS
  <2>3. /\ \A x \in Below(c - 1) : x \in Below(c) /\ x \in Nat /\ x < c - 1
        /\ \A x \in Below(c) : x \in Below(c - 1) \/ x = c - 1
    BY <2>2
  <2>4. /\ s \in Seq(Below(c - 1)) /\ Len(s) \in Nat
        /\ \A k \in 1..Len(s) : s[k] \in Below(c - 1)
        /\ \A j, k \in 1..Len(s) : j < k => s[j] < s[k]
        /\ \A x \in Below(c - 1) : \E k \in 1..Len(s) : s[k] = x
    BY <2>1, LenProperties, ElementOfSeq DEF Ascends
  <2>5. CASE c - 1 \notin S
    <3>1. Below(c) = Below(c - 1)
      BY <2>3, <2>5
    <3> HIDE DEF Below
    <3> QED
      BY <2>1, <2>2, <3>1
  <2>6. CASE c - 1 \in S
    <3> DEFINE t == Append(s, c - 1)
    <3>1. c - 1 \in Below(c)
      BY <2>2, <2>6
    <3> HIDE DEF Below
    <3>2. /\ s = [k \in 1..Len(s) |-> s[k]] /\ s \in Seq(Below(c))
      <4>1. s = [k \in 1..Len(s) |-> s[k]]
        BY <2>4
      <4>2. \A k \in 1..Len(s) : s[k] \in Below(c)
        BY <2>3, <2>4
      <4> QED
        BY <2>4, <4>1, <4>2
    <3>3. /\ t \in Seq(Below(c)) /\ Len(t) = Len(s) + 1 /\ t[Len(s) + 1] = c - 1
          /\ \A k \in 1..Len(s) : t[k] = s[k]
      BY <3>1, <3>2, AppendProperties
    <3>4. \A k \in 1..(Len(s) + 1) : k = Len(s) + 1 \/ k \in 1..Len(s)
      BY <2>4
    <3> HIDE DEF t
    <3>5. ASSUME NEW j \in 1..Len(t), NEW k \in 1..Len(t), j < k PROVE t[j] < t[k]
      <4>1. j \in 1..Len(s) /\ t[j] = s[j] /\ t[j] \in Below(c - 1)
        <5>1. j \in 1..(Len(s) + 1) /\ k \in 1..(Len(s) + 1)
          BY <3>3
        <5>2. j \in 1..Len(s)
          BY <2>4, <3>5, <5>1
        <5> QED
          BY <2>4, <3>3, <5>2
      <4>2. CASE k = Len(s) + 1
        BY <2>3, <3>3, <4>1, <4>2
      <4>3. CASE k \in 1..Len(s)
        BY <2>4, <3>3, <3>5, <4>1, <4>3
      <4> QED
        BY <3>3, <3>4, <4>2, <4>3
    <3>6. \A x \in Below(c) : \E k \in 1..Len(t) : t[k] = x
      <4>1. Len(s) + 1 \in 1..Len(t) /\ \A k \in 1..Len(s) : k \in 1..Len(t)
        BY <2>4, <3>3
      <4>2. ASSUME NEW x \in Below(c - 1) PROVE \E k \in 1..Len(t) : t[k] = x
        BY <2>4, <3>3, <4>1
      <4> QED
        BY <2>3, <3>3, <4>1, <4>2
    <3>7. Ascends(t, Below(c))
      BY <3>3, <3>5, <3>6 DEF Ascends
    <3> QED
      BY <2>2, <3>7
  <2> QED
    BY <2>5, <2>6
<1> HIDE DEF T
<1>3. \A c \in 0..b : c \in T
  BY <1>1, <1>2, UpTo
<1>4. b \in 0..b
  OBVIOUS
<1>5. PICK s : Ascends(s, Below(b))
  BY <1>3, <1>4 DEF T
<1>6. Below(b) = S
  OBVIOUS
<1> HIDE DEF Below
<1> QED
  BY <1>5, <1>6

\* sort_unstable() of different indices yields all of them in ascending order.
LEMMA SortedIndices ==
  ASSUME NEW is \in Seq(Nat), IsInjective(is),
         NEW b \in Nat, \A k \in 1..Len(is) : is[k] < b
  PROVE  Ascends(Sorted(is), Range(is)) /\ Len(Sorted(is)) = Len(is)
<1> DEFINE S == Range(is)
           m == Len(is)
<1>1. /\ m \in Nat /\ DOMAIN is = 1..m
      /\ \A k \in 1..m : is[k] \in Nat /\ is[k] \in S
      /\ \A x \in S : \E k \in 1..m : is[k] = x
      /\ S \subseteq Nat
  BY LenProperties, ElementOfSeq DEF Range
<1>2. is \in Bijection(1..m, S)
  <2>1. is \in [1..m -> S]
    BY <1>1
  <2>2. \A j, k \in 1..m : is[j] = is[k] => j = k
    BY <1>1 DEF IsInjective
  <2> HIDE DEF S, m
  <2> QED
    BY <1>1, <2>1, <2>2, Fun_IsBij
<1> HIDE DEF S, m
<1>3. IsFiniteSet(S) /\ Cardinality(S) = m
  <2>1. IsFiniteSet(1..m) /\ Cardinality(1..m) = m
    BY <1>1, FS_Interval
  <2> QED
    BY <1>2, <2>1, FS_Bijection DEF ExistsBijection
<1>4. \A x \in S : x < b
  BY <1>1 DEF m
<1>5. PICK t : Ascends(t, S)
  BY <1>1, <1>4, AscendingExists
<1>6. /\ t \in Seq(S) /\ Len(t) \in Nat /\ DOMAIN t = 1..Len(t) /\ t \in [1..Len(t) -> S]
      /\ \A j, k \in 1..Len(t) : j < k => t[j] < t[k]
      /\ \A x \in S : \E k \in 1..Len(t) : t[k] = x
      /\ \A k \in 1..Len(t) : t[k] \in Nat
  BY <1>1, <1>5, LenProperties, ElementOfSeq DEF Ascends
<1>i. \A j, k \in 1..Len(t) : t[j] = t[k] => j = k
  <2> SUFFICES ASSUME NEW j \in 1..Len(t), NEW k \in 1..Len(t), t[j] = t[k], j # k
               PROVE  FALSE
    OBVIOUS
  <2>1. j < k \/ k < j
    BY <1>6
  <2> QED
    BY <1>6, <2>1
<1>7. Len(t) = m
  <2>2. t \in Bijection(1..Len(t), S)
    BY <1>6, <1>i, Fun_IsBij
  <2>3. IsFiniteSet(1..Len(t)) /\ Cardinality(1..Len(t)) = Len(t)
    <3> DEFINE n == Len(t)
    <3>1. n \in Nat /\ n \in Int /\ 1 \in Int /\ n - 1 + 1 = n
      BY <1>6
    <3> HIDE DEF n
    <3>2. IsFiniteSet(1..n) /\ Cardinality(1..n) = n
      BY <3>1, FS_Interval
    <3> QED
      BY <3>2 DEF n
  <2> QED
    BY <1>3, <2>2, <2>3, FS_Bijection DEF ExistsBijection
<1> DEFINE InOrder(s) == s \in SetToSeqs(S) /\ \A j, k \in DOMAIN s : j < k => s[j] < s[k]
<1>8. InOrder(t)
  <2>1. \A j, k \in 1..m : j # k => t[j] # t[k]
    BY <1>i, <1>7
  <2>2. t \in SetToSeqs(S)
    BY <1>3, <1>6, <1>7, <2>1 DEF SetToSeqs
  <2> QED
    BY <1>6, <2>2
<1> DEFINE s == Sorted(is)
<1>9. InOrder(s)
  <2>1. s = CHOOSE r : InOrder(r)
    BY Zenon DEF Sorted, S
  <2> HIDE DEF InOrder, s
  <2> QED
    BY <1>8, <2>1
<1> HIDE DEF s
<1>10. /\ s \in [1..m -> S] /\ \A j, k \in 1..m : s[j] = s[k] => j = k
  BY <1>3, <1>9 DEF SetToSeqs
<1>11. s \in Surjection(1..m, S)
  <2>1. s \in Injection(1..m, S)
    BY <1>10 DEF Injection, IsInjective
  <2>2. Cardinality(1..m) = m
    BY <1>1, FS_Interval
  <2> QED
    BY <1>3, <2>1, <2>2, FS_Injection
<1>12. \A x \in S : \E k \in 1..m : s[k] = x
  BY <1>11 DEF Surjection
<1>13. s \in Seq(S) /\ Len(s) = m /\ DOMAIN s = 1..m
  BY <1>1, <1>10
<1>14. Ascends(s, S)
  BY <1>9, <1>12, <1>13 DEF Ascends
<1> QED
  BY <1>13, <1>14 DEF s, S, m

-----------------------------------------------------------------------------
(* What remove_element retains.                                              *)

\* What the closure of retain keeps.
RetainState == [kept : Seq(Cell), remove_idx : Nat, i : Nat]

\* The cell at cursor i is the next one to be removed.
NextRemoved(st, is) == st.remove_idx < Len(is) /\ is[st.remove_idx + 1] = st.i

\* One turn: the cursor over the cells moves on, and one of the others does.
LEMMA OneRetain ==
  ASSUME NEW st \in RetainState, NEW cell \in Cell, NEW is
  PROVE  /\ Retain(st, cell, is) \in RetainState
         /\ Retain(st, cell, is).i = st.i + 1
         /\ IF NextRemoved(st, is)
              THEN /\ Retain(st, cell, is).remove_idx = st.remove_idx + 1
                   /\ Retain(st, cell, is).kept = st.kept
              ELSE /\ Retain(st, cell, is).remove_idx = st.remove_idx
                   /\ Retain(st, cell, is).kept = Append(st.kept, cell)
<1>1. st.kept \in Seq(Cell) /\ st.remove_idx \in Nat /\ st.i \in Nat
  BY DEF RetainState
<1>2. Append(st.kept, cell) \in Seq(Cell)
  BY <1>1, AppendProperties
<1>0. st = [kept |-> st.kept, remove_idx |-> st.remove_idx, i |-> st.i]
  BY DEF RetainState
<1> DEFINE next == Retain(st, cell, is)
<1>3. CASE NextRemoved(st, is)
  <2>1. next = [kept |-> st.kept, remove_idx |-> st.remove_idx + 1, i |-> st.i + 1]
    BY <1>0, <1>3 DEF Retain, NextRemoved, At
  <2> HIDE DEF next
  <2>2. /\ next.i = st.i + 1 /\ next.remove_idx = st.remove_idx + 1
        /\ next.kept = st.kept /\ next \in RetainState
    BY <1>1, <2>1 DEF RetainState
  <2> QED
    BY <1>3, <2>2 DEF next
<1>4. CASE ~NextRemoved(st, is)
  <2>1. next = [kept |-> Append(st.kept, cell), remove_idx |-> st.remove_idx,
                i |-> st.i + 1]
    BY <1>0, <1>4 DEF Retain, NextRemoved, At
  <2> HIDE DEF next
  <2>2. /\ next.i = st.i + 1 /\ next.remove_idx = st.remove_idx
        /\ next.kept = Append(st.kept, cell) /\ next \in RetainState
    BY <1>1, <1>2, <2>1 DEF RetainState
  <2> QED
    BY <1>4, <2>2 DEF next
<1> QED
  BY <1>3, <1>4

Unretained == [kept |-> <<>>, remove_idx |-> 0, i |-> 0]

\* f has the states that retain runs through.
Retains(f, is) ==
  f = [p \in 0..Len(data) |->
         IF p = 0 THEN [kept |-> <<>>, remove_idx |-> 0, i |-> 0]
                  ELSE Retain(f[p - 1], data[p], is)]

\* Turn by turn: the cells of the last state are the ones retained.
RetainsByTurns(f, is, n) ==
  /\ f \in [0..n -> RetainState]
  /\ f[0] = Unretained /\ Retained(is) = f[n].kept
  /\ \A p \in 1..n : f[p] = Retain(f[p - 1], data[p], is)

\* There is such an f.
LEMMA RetainLoop ==
  ASSUME NEW n \in Nat, data \in CellsOf(n), NEW is
  PROVE  \E f : RetainsByTurns(f, is, n)
<1> DEFINE step == [x \in RetainState \X (1..n) |-> Retain(x[1], data[x[2]], is)]
<1>1. Len(data) = n /\ \A p \in 1..n : data[p] \in Cell
  BY CellsOfColumn
<1>2. Unretained \in RetainState
  BY EmptySeq DEF Unretained, RetainState
<1>3. \A x \in RetainState, p \in 1..n : Retain(x, data[p], is) \in RetainState
  BY <1>1, OneRetain
<1>4. \A x \in RetainState, p \in 1..n : step[<<x, p>>] = Retain(x, data[p], is)
  OBVIOUS
<1>5. step \in [RetainState \X (1..n) -> RetainState]
  BY <1>3
<1> HIDE DEF step
<1>6. PICK g : IsLoop(g, n, RetainState, Unretained, step)
  BY <1>2, <1>5, LoopExists
<1>7. /\ g \in [0..n -> RetainState] /\ g[0] = Unretained
      /\ \A p \in 1..n : g[p] = Retain(g[p - 1], data[p], is)
  <2>1. \A p \in 1..n : p - 1 \in 0..n
    OBVIOUS
  <2> QED
    BY <1>4, <1>6, <2>1 DEF IsLoop
<1>8. Retains(g, is)
  <2> DEFINE e(p) == IF p = 0 THEN Unretained ELSE Retain(g[p - 1], data[p], is)
  <2>1. \A p \in 0..n : g[p] = e(p)
    <3>1. \A p \in 0..n : p = 0 \/ p \in 1..n
      OBVIOUS
    <3>2. e(0) = Unretained /\ \A p \in 1..n : e(p) = Retain(g[p - 1], data[p], is)
      OBVIOUS
    <3> HIDE DEF e
    <3> QED
      BY <3>1, <3>2, <1>7
  <2> HIDE DEF e
  <2>2. g = [p \in 0..n |-> e(p)]
    BY <2>1, <1>7
  <2>3. g = [p \in 0..Len(data) |-> e(p)]
    BY <2>2, <1>1
  <2> QED
    BY <2>3, Zenon DEF e, Retains, Unretained
<1> DEFINE f == CHOOSE h : Retains(h, is)
<1>9. Retains(f, is)
  BY <1>8, Zenon
<1>10. Retained(is) = f[n].kept
  <2>1. Retained(is) = f[Len(data)].kept
    BY Zenon DEF Retained, Retains
  <2> QED
    BY <2>1, <1>1
<1> HIDE DEF f
<1>11. /\ f = [p \in 0..n |-> f[p]] /\ f[0] = Unretained
       /\ \A p \in 1..n : f[p] = Retain(f[p - 1], data[p], is)
  <2> DEFINE e(p) == IF p = 0 THEN Unretained ELSE Retain(f[p - 1], data[p], is)
  <2>1. f = [p \in 0..Len(data) |-> e(p)]
    BY <1>9, Zenon DEF Retains, Unretained
  <2>2. e(0) = Unretained /\ \A p \in 1..n : e(p) = Retain(f[p - 1], data[p], is)
    OBVIOUS
  <2> HIDE DEF e
  <2>3. (\A p \in 0..n : f[p] = e(p)) /\ f = [p \in 0..n |-> f[p]]
    BY <2>1, <1>1
  <2>4. 0 \in 0..n /\ \A p \in 1..n : p \in 0..n
    OBVIOUS
  <2> QED
    BY <2>2, <2>3, <2>4, Zenon
<1>12. RunsIn(f, n, RetainState, Unretained, step)
  BY <1>4, <1>11 DEF RunsIn
<1>13. f \in [0..n -> RetainState]
  BY <1>2, <1>5, <1>12, LoopOf
<1>14. RetainsByTurns(f, is, n)
  BY <1>10, <1>11, <1>13 DEF RetainsByTurns
<1> QED
  BY <1>14

\* The indices is, in ascending order, lead retain past the first p cells: r of
\* them are behind the cursor, and the rest of the cells is kept.
Passed(st, is, p) ==
  LET r == st.remove_idx
  IN /\ st.i = p /\ r \in 0..Len(is)
     /\ Len(st.kept) = p - r
     /\ \A k \in 1..r : is[k] < p
     /\ \A k \in (r + 1)..Len(is) : is[k] >= p

Ascending(is) == \A j, k \in 1..Len(is) : j < k => is[j] < is[k]

\* The turn leaves after, without the cell if its index p - 1 is one of is.
Turned(st, after, cell, is, p) ==
  IF \E k \in 1..Len(is) : is[k] = p - 1
    THEN after.kept = st.kept /\ after.remove_idx = st.remove_idx + 1
    ELSE after.kept = Append(st.kept, cell) /\ after.remove_idx = st.remove_idx

\* The turn at cell p removes it exactly when its index is one of is.
LEMMA RetainTurn ==
  ASSUME NEW is \in Seq(Nat), Ascending(is),
         NEW p \in Nat \ {0}, NEW st \in RetainState, Passed(st, is, p - 1),
         NEW cell \in Cell, NEW after, after = Retain(st, cell, is)
  PROVE  Passed(after, is, p) /\ Turned(st, after, cell, is, p)
<1> USE DEF Turned
<1> DEFINE r == st.remove_idx
           m == Len(is)
<1>1. /\ m \in Nat /\ \A k \in 1..m : is[k] \in Nat
      /\ st.kept \in Seq(Cell) /\ Len(st.kept) \in Nat
  BY LenProperties, ElementOfSeq DEF RetainState
<1>2. /\ st.i = p - 1 /\ r \in 0..m /\ r \in Nat /\ Len(st.kept) = (p - 1) - r
      /\ \A k \in 1..r : is[k] < p - 1
      /\ \A k \in (r + 1)..m : is[k] >= p - 1
  BY <1>1 DEF Passed
<1>3. /\ after.i = (p - 1) + 1
      /\ IF NextRemoved(st, is)
           THEN after.remove_idx = r + 1 /\ after.kept = st.kept
           ELSE after.remove_idx = r /\ after.kept = Append(st.kept, cell)
  BY <1>2, OneRetain
<1>4. Len(Append(st.kept, cell)) = Len(st.kept) + 1
  BY <1>1, AppendProperties
<1> HIDE DEF r, m
<1>5. CASE NextRemoved(st, is)
  <2>1. r < m /\ is[r + 1] = p - 1 /\ r + 1 \in 1..m /\ r + 1 \in 0..m
    BY <1>2, <1>5, <1>1 DEF NextRemoved, r, m
  <2>2. \A k \in 1..(r + 1) : is[k] < p
    <3>1. \A k \in 1..(r + 1) : k = r + 1 \/ k \in 1..r
      BY <1>2
    <3>2. \A k \in 1..r : k \in 1..m
      BY <1>1, <1>2
    <3> QED
      BY <1>1, <1>2, <2>1, <3>1, <3>2
  <2>3. \A k \in ((r + 1) + 1)..m : is[k] >= p
    <3> SUFFICES ASSUME NEW k \in ((r + 1) + 1)..m PROVE is[k] >= p
      OBVIOUS
    <3>1. k \in 1..m /\ r + 1 < k
      BY <1>1, <1>2
    <3>2. is[r + 1] < is[k] /\ is[k] \in Nat
      BY <1>1, <2>1, <3>1 DEF m, Ascending
    <3> QED
      BY <2>1, <3>2
  <2>4. Len(after.kept) = p - (r + 1) /\ after.i = p /\ after.remove_idx = r + 1
    BY <1>1, <1>2, <1>3, <1>5
  <2>5. Passed(after, is, p)
    BY <2>1, <2>2, <2>3, <2>4 DEF Passed, m
  <2> QED
    BY <1>3, <1>5, <2>1, <2>5 DEF r, m
<1>6. CASE ~NextRemoved(st, is)
  <2>1. ASSUME NEW k \in 1..m PROVE is[k] # p - 1
    <3> SUFFICES ASSUME is[k] = p - 1 PROVE FALSE
      OBVIOUS
    <3>1. k \in (r + 1)..m /\ r + 1 \in 1..m /\ r < m
      BY <1>1, <1>2
    <3>2. is[r + 1] # p - 1
      BY <1>2, <1>6, <3>1 DEF NextRemoved, r, m
    <3>3. is[r + 1] >= p - 1 /\ is[r + 1] \in Nat
      BY <1>1, <1>2, <3>1
    <3>4. r + 1 < k
      BY <1>2, <3>1, <3>2
    <3>5. is[r + 1] < is[k]
      BY <3>1, <3>4 DEF m, Ascending
    <3> QED
      BY <3>3, <3>5
  <2>2. \A k \in 1..r : is[k] < p
    <3>1. \A k \in 1..r : k \in 1..m
      BY <1>1, <1>2
    <3> QED
      BY <1>1, <1>2, <3>1
  <2>3. \A k \in (r + 1)..m : is[k] >= p
    <3> SUFFICES ASSUME NEW k \in (r + 1)..m PROVE is[k] >= p
      OBVIOUS
    <3>1. k \in 1..m
      BY <1>1, <1>2
    <3>2. is[k] >= p - 1 /\ is[k] # p - 1 /\ is[k] \in Nat
      BY <1>1, <1>2, <2>1, <3>1
    <3> QED
      BY <3>2
  <2>4. Len(after.kept) = p - r /\ after.i = p /\ after.remove_idx = r
    <3>1. after.kept = Append(st.kept, cell) /\ after.i = (p - 1) + 1 /\ after.remove_idx = r
      BY <1>3, <1>6
    <3>2. Len(after.kept) = ((p - 1) - r) + 1
      BY <1>2, <1>4, <3>1
    <3> QED
      BY <1>2, <3>1, <3>2
  <2>5. Passed(after, is, p)
    BY <1>2, <2>2, <2>3, <2>4 DEF Passed, m
  <2> QED
    BY <1>3, <1>6, <2>1, <2>5 DEF r, m
<1> QED
  BY <1>5, <1>6

\* The places of the cells with indices is.
PlacesOf(is) == {is[k] + 1 : k \in 1..Len(is)}

\* c is the column of n cells without those at indices is, the others in their
\* order.
Removes(c, is, n) ==
  /\ c \in Seq(Cell) /\ Len(c) = n - Len(is)
  /\ \A k \in 1..Len(c) : \E p \in 1..n : c[k] = data[p]
  /\ \A p \in 1..n : p \notin PlacesOf(is) =>
       c[p - Cardinality({q \in PlacesOf(is) : q < p})] = data[p]

\* That is what retain leaves when the indices ascend.
LEMMA RetainedCells ==
  ASSUME NEW n \in Nat, data \in CellsOf(n), NEW is \in Seq(Nat),
         Ascending(is),
         \A k \in 1..Len(is) : is[k] < n
  PROVE  Removes(Retained(is), is, n)
<1> DEFINE G == PlacesOf(is)
           Upto(p) == {q \in G : q <= p}
           m == Len(is)
<1>0. PICK f : RetainsByTurns(f, is, n)
  BY RetainLoop
<1>1. /\ f \in [0..n -> RetainState]
      /\ f[0] = Unretained /\ Retained(is) = f[n].kept
      /\ \A p \in 1..n : f[p] = Retain(f[p - 1], data[p], is)
  BY <1>0 DEF RetainsByTurns
<1>2. m \in Nat /\ \A k \in 1..m : is[k] \in Nat
  BY LenProperties, ElementOfSeq
<1>3. /\ \A q \in G : q \in Nat /\ q >= 1
      /\ \A p \in Nat : p \in G <=> \E k \in 1..m : is[k] = p - 1
  <2>1. \A q : q \in G <=> \E k \in 1..m : q = is[k] + 1
    BY Zenon DEF PlacesOf
  <2> HIDE DEF m, G
  <2>2. \A q \in G : q \in Nat /\ q >= 1
    BY <1>2, <2>1
  <2>3. ASSUME NEW p \in Nat PROVE p \in G <=> \E k \in 1..m : is[k] = p - 1
    <3>1. \A k \in 1..m : p = is[k] + 1 <=> is[k] = p - 1
      BY <1>2
    <3> QED
      BY <2>1, <3>1, Zenon
  <2> QED
    BY <2>2, <2>3
<1> DEFINE r(p) == f[p].remove_idx
           InPlace(p) ==
             \A q \in 1..p : q \notin G =>
               q - r(q) \in 1..Len(f[p].kept) /\ f[p].kept[q - r(q)] = data[q]
           Taken(p) ==
             \A k \in 1..Len(f[p].kept) : \E q \in 1..n : f[p].kept[k] = data[q]
           T == {p \in 0..n : /\ Passed(f[p], is, p) /\ Taken(p)
                              /\ IsFiniteSet(Upto(p)) /\ Cardinality(Upto(p)) = r(p)
                              /\ InPlace(p)}
<1> HIDE DEF m, G
<1>4. 0 \in T
  <2>1. f[0].i = 0 /\ r(0) = 0 /\ f[0].kept = <<>>
    BY <1>1 DEF Unretained
  <2>2. Passed(f[0], is, 0)
    BY <1>2, <2>1 DEF Passed, m
  <2>3. Upto(0) = {}
    BY <1>3
  <2>4. IsFiniteSet(Upto(0)) /\ Cardinality(Upto(0)) = 0
    BY <2>3, FS_EmptySet
  <2>5. InPlace(0)
    OBVIOUS
  <2>6. Taken(0)
    BY <2>1
  <2> QED
    BY <2>1, <2>2, <2>4, <2>5, <2>6
<1>5. ASSUME NEW p \in 1..n, p - 1 \in T PROVE p \in T
  <2>1. /\ p - 1 \in 0..n /\ p \in 0..n /\ p \in Nat \ {0} /\ p - 1 \in Nat
        /\ f[p - 1] \in RetainState
        /\ f[p] = Retain(f[p - 1], data[p], is) /\ data[p] \in Cell
    BY <1>1, CellsOfColumn
  <2>2. /\ Passed(f[p - 1], is, p - 1)
        /\ IsFiniteSet(Upto(p - 1)) /\ Cardinality(Upto(p - 1)) = r(p - 1)
        /\ InPlace(p - 1) /\ Taken(p - 1)
    BY <1>5
  <2>3. /\ Passed(f[p], is, p)
        /\ IF p \in G
             THEN f[p].kept = f[p - 1].kept /\ r(p) = r(p - 1) + 1
             ELSE f[p].kept = Append(f[p - 1].kept, data[p]) /\ r(p) = r(p - 1)
    <3>0. Passed(f[p - 1], is, p - 1)
      BY <2>2
    <3>1. /\ Passed(f[p], is, p)
          /\ IF \E k \in 1..Len(is) : is[k] = p - 1
               THEN f[p].kept = f[p - 1].kept /\ r(p) = r(p - 1) + 1
               ELSE f[p].kept = Append(f[p - 1].kept, data[p]) /\ r(p) = r(p - 1)
      <4> DEFINE st == f[p - 1]
                 after == f[p]
                 cell == data[p]
      <4>1. /\ st \in RetainState /\ Passed(st, is, p - 1) /\ cell \in Cell
            /\ after = Retain(st, cell, is) /\ p \in Nat \ {0}
        BY <2>1, <3>0
      <4> HIDE DEF st, after, cell
      <4>2. Passed(after, is, p) /\ Turned(st, after, cell, is, p)
        BY <4>1, RetainTurn
      <4> QED
        BY <4>2 DEF st, after, cell, Turned
    <3> QED
      BY <2>1, <3>1, <1>3 DEF m
  <2>4. /\ p \notin Upto(p - 1)
        /\ p \in G => Upto(p) = Upto(p - 1) \cup {p}
        /\ p \notin G => Upto(p) = Upto(p - 1)
    <3>1. \A q \in G : q <= p <=> q <= p - 1 \/ q = p
      BY <1>3, <2>1
    <3>2. ~ (p <= p - 1)
      BY <2>1
    <3> QED
      BY <3>1, <3>2
  <2>5. IsFiniteSet(Upto(p)) /\ Cardinality(Upto(p)) = r(p)
    <3> HIDE DEF Upto, r, InPlace, Taken
    <3>1. CASE p \in G
      BY <2>2, <2>3, <2>4, <3>1, FS_AddElement
    <3>2. CASE p \notin G
      BY <2>2, <2>3, <2>4, <3>2
    <3> QED
      BY <3>1, <3>2
  <2>6. /\ f[p - 1].kept \in Seq(Cell) /\ Len(f[p - 1].kept) \in Nat
        /\ r(p - 1) \in Nat /\ Len(f[p - 1].kept) = (p - 1) - r(p - 1)
    BY <2>1, <2>2, LenProperties DEF Passed, RetainState
  <2>7. InPlace(p)
    <3>1. CASE p \in G
      <4>1. \A q \in 1..p : q \notin G => q \in 1..(p - 1)
        BY <2>1, <3>1
      <4> HIDE DEF r
      <4> QED
        BY <2>2, <2>3, <3>1, <4>1
    <3>2. CASE p \notin G
      <4> DEFINE a == f[p - 1].kept
                 b == f[p].kept
                 l == Len(a)
      <4>0. b = Append(a, data[p]) /\ r(p) = r(p - 1) /\ a \in Seq(Cell) /\ data[p] \in Cell
        <5> HIDE DEF r
        <5> QED
          BY <2>1, <2>3, <2>6, <3>2
      <4>1. /\ Len(b) = l + 1 /\ b[l + 1] = data[p] /\ \A k \in 1..l : b[k] = a[k]
            /\ l \in Nat /\ r(p) = r(p - 1) /\ r(p - 1) \in Nat /\ l = (p - 1) - r(p - 1)
        <5> HIDE DEF a, b, r
        <5>1. /\ Len(b) = l + 1 /\ b[l + 1] = data[p] /\ \A k \in 1..l : b[k] = a[k]
          BY <4>0, AppendProperties
        <5> USE DEF a
        <5> QED
          BY <4>0, <5>1, <2>6
      <4>2. \A q \in 1..(p - 1) : q \notin G => q - r(q) \in 1..l /\ a[q - r(q)] = data[q]
        BY <2>2
      <4> HIDE DEF a, b, l, r
      <4>3. p - r(p) = l + 1
        BY <2>1, <4>1
      <4>4. \A q \in 1..p : q = p \/ q \in 1..(p - 1)
        BY <2>1
      <4>5. \A k \in 1..l : k \in 1..(l + 1)
        BY <4>1
      <4>6. l + 1 \in 1..(l + 1)
        BY <4>1
      <4>7. \A q \in 1..p : q \notin G => q - r(q) \in 1..Len(b) /\ b[q - r(q)] = data[q]
        BY <4>1, <4>2, <4>3, <4>4, <4>5, <4>6
      <4> QED
        BY <4>7 DEF b
    <3> QED
      BY <3>1, <3>2
  <2>8. Taken(p)
    <3>1. CASE p \in G
      BY <2>2, <2>3, <3>1
    <3>2. CASE p \notin G
      <4> DEFINE a == f[p - 1].kept
                 b == f[p].kept
      <4>1. b = Append(a, data[p]) /\ a \in Seq(Cell) /\ data[p] \in Cell
        <5> HIDE DEF r
        <5> QED
          BY <2>1, <2>3, <2>6, <3>2
      <4>2. \A k \in 1..Len(a) : \E q \in 1..n : a[k] = data[q]
        BY <2>2
      <4> HIDE DEF a, b
      <4>3. /\ Len(a) \in Nat /\ Len(b) = Len(a) + 1 /\ b[Len(a) + 1] = data[p]
            /\ \A k \in 1..Len(a) : b[k] = a[k]
        BY <4>1, AppendProperties, LenProperties
      <4>4. \A k \in 1..Len(b) : k = Len(a) + 1 \/ k \in 1..Len(a)
        BY <4>3
      <4>5. \A k \in 1..Len(b) : \E q \in 1..n : b[k] = data[q]
        BY <4>2, <4>3, <4>4
      <4> QED
        BY <4>5 DEF b
    <3> QED
      BY <3>1, <3>2
  <2> QED
    BY <2>1, <2>3, <2>5, <2>7, <2>8
<1> HIDE DEF T
<1>6. \A p \in 0..n : p \in T
  BY <1>4, <1>5, UpTo
<1>7. ASSUME NEW p \in 0..n
      PROVE  /\ Passed(f[p], is, p) /\ Taken(p)
             /\ Cardinality(Upto(p)) = r(p) /\ InPlace(p)
  <2>1. p \in T
    BY <1>6
  <2> QED
    BY <2>1 DEF T
<1>8. n \in 0..n /\ f[n] \in RetainState
  BY <1>1
<1>9. f[n].kept \in Seq(Cell) /\ r(n) \in 0..m /\ Len(f[n].kept) = n - r(n)
        /\ \A k \in (r(n) + 1)..m : is[k] >= n
  BY <1>7, <1>8 DEF Passed, RetainState, m
<1>10. r(n) = m
  <2> SUFFICES ASSUME r(n) # m PROVE FALSE
    OBVIOUS
  <2> HIDE DEF r
  <2>1. r(n) + 1 \in (r(n) + 1)..m /\ r(n) + 1 \in 1..m
    BY <1>2, <1>9
  <2>2. is[r(n) + 1] >= n /\ is[r(n) + 1] < n /\ is[r(n) + 1] \in Nat
    BY <1>2, <1>9, <2>1 DEF m
  <2> QED
    BY <2>2
<1>11. ASSUME NEW p \in 1..n, p \notin G
       PROVE  f[n].kept[p - Cardinality({q \in G : q < p})] = data[p]
  <2>1. p \in 0..n
    OBVIOUS
  <2>2. {q \in G : q < p} = Upto(p)
    <3>1. \A q \in G : q < p <=> q <= p
      BY <1>3, <1>11
    <3> QED
      BY <3>1
  <2>3. Cardinality({q \in G : q < p}) = r(p)
    BY <1>7, <2>1, <2>2
  <2>4. f[n].kept[p - r(p)] = data[p]
    BY <1>7, <1>8, <1>11
  <2> QED
    BY <2>3, <2>4
<1>12. Taken(n)
  BY <1>7, <1>8
<1> QED
  BY <1>1, <1>9, <1>10, <1>11, <1>12 DEF Removes, G, m

-----------------------------------------------------------------------------
(* What a step can have been.                                                *)

\* The call had an error and left the cells.
Failed ==
  /\ call'.result \in Results \ {"Ok"} /\ data' = data
  /\ call'.op \notin {"forward_fill", "backward_fill"}

\* update_element wrote all of its argument.
Updated(n) ==
  /\ call'.op = "update_element" /\ call'.result = "Ok"
  /\ call'.arg \in Seq(Nat \X Cell)
  /\ \A j, k \in 1..Len(call'.arg) : call'.arg[j][1] = call'.arg[k][1] => j = k
  /\ Overwrites(data', call'.arg, n)

\* remove_element removed the cells at its argument.
Removed(n) ==
  /\ call'.op = "remove_element" /\ call'.result = "Ok"
  /\ call'.arg \in Seq(Nat) /\ IsInjective(call'.arg)
  /\ \A k \in 1..Len(call'.arg) : call'.arg[k] < n
  /\ \E s : Ascends(s, Range(call'.arg)) /\ Len(s) = Len(call'.arg) /\ Removes(data', s, n)

\* What a fill with v makes of a cell.
Fill(v) == [x \in Cell |-> IF x = Missing THEN v ELSE x]

\* A fill put one number into all gaps.
Filled(n) ==
  /\ call'.op \in {"fill_with", "fill_mean"}
  /\ \E v \in f64 :
       /\ MapsCells(call'.op, Fill(v), n)
       /\ call'.op = "fill_with" => call'.arg = <<v>>
       /\ call'.op = "fill_mean" /\ present_values \subseteq Plain => v \in Values

\* A fill carried the values on over the gaps.
CarriedOver(n) ==
  /\ call'.result = "Ok" /\ data' \in CellsOf(n)
  /\ \/ call'.op = "forward_fill" /\ CarriesOn(enumerate(data), n)
     \/ call'.op = "backward_fill" /\ CarriesOn(Reverse(enumerate(data)), n)

\* A scaling rescaled the present cells.
Scaled(n) ==
  /\ call'.op \in Scalings
  /\ \E g : MapsCells(call'.op, Scale(g), n) /\ Rescales(g)

\* A call of Returned is one of that method.
LEMMA ReturnedCall ==
  ASSUME NEW op, NEW arg, NEW result, Returned(op, arg, result)
  PROVE  call'.op = op /\ call'.arg = arg /\ call'.result = result
BY DEF Returned

\* A bounded sequence has a length within the bound.
LEMMA BoundedLength ==
  ASSUME NEW S, NEW b, NEW s \in BoundedSeq(S, b)
  PROVE  \E m \in 0..b : s \in [1..m -> S]
BY Zenon DEF BoundedSeq, SeqOf

LEMMA UpdateElementOutcome ==
  ASSUME NEW n \in Nat, data \in CellsOf(n), NEW us \in Updates, update_element(us)
  PROVE  Failed \/ Updated(n)
<1>1. us \in Seq(Nat \X Cell)
  <2>1. us \in BoundedSeq(Indices \X Given, MaxUpdates)
    BY DEF Updates
  <2>2. PICK m \in 0..MaxUpdates : us \in [1..m -> Indices \X Given]
    BY <2>1, BoundedLength
  <2>3. \A x \in Indices \X Given : x \in Nat \X Cell
    <3>1. \A x \in Given : x \in Cell
      BY ColumnAssumption DEF Cell, f64
    <3>2. \A i \in Indices : i \in Nat
      BY ColumnAssumption DEF Indices
    <3> QED
      BY <3>1, <3>2
  <2>4. m \in Nat
    BY ColumnAssumption
  <2> QED
    BY <2>2, <2>3, <2>4
<1>2. UpdatesElements("update_element", us, us)
  BY DEF update_element
<1>3. /\ call' = [op |-> "update_element", arg |-> us, result |-> call'.result]
      /\ call'.result \in Results /\ data' \in CellsOf(n)
      /\ call'.result # "Ok" => data' = data
      /\ call'.result = "Ok" =>
           /\ \A j, k \in 1..Len(us) : us[j][1] = us[k][1] => j = k
           /\ Overwrites(data', us, n)
  BY <1>1, <1>2, UpdateOutcome
<1>4. call'.op = "update_element" /\ call'.arg = us
  BY <1>3
<1> QED
  BY <1>1, <1>3, <1>4 DEF Failed, Updated

LEMMA RemoveElementOutcome ==
  ASSUME NEW n \in Nat, data \in CellsOf(n), NEW is \in Removals, remove_element(is)
  PROVE  Failed \/ Removed(n)
<1>1. is \in Seq(Nat)
  <2>1. is \in BoundedSeq(Indices, MaxRemovals)
    BY DEF Removals
  <2>2. PICK m \in 0..MaxRemovals : is \in [1..m -> Indices]
    BY <2>1, BoundedLength
  <2>3. \A x \in Indices : x \in Nat
    BY ColumnAssumption DEF Indices
  <2>4. m \in Nat
    BY ColumnAssumption
  <2> QED
    BY <2>2, <2>3, <2>4
<1>2. CASE \E e \in {"DuplicatedIndices", "IndexOutOfBounds"} :
             Returned("remove_element", is, e) /\ UNCHANGED data
  BY <1>2, ReturnedCall DEF Failed, Results
<1>3. CASE /\ check_duplicate_indices(is) /\ check_len_limit(is)
           /\ data' = Retained(Sorted(is)) /\ Returned("remove_element", is, "Ok")
  <2>1. /\ Len(is) \in Nat /\ DOMAIN is = 1..Len(is) /\ Len(data) = n
        /\ \A k \in 1..Len(is) : is[k] \in Nat
    BY <1>1, LenProperties, ElementOfSeq, CellsOfColumn
  <2>2. IsInjective(is) /\ \A k \in 1..Len(is) : is[k] < n
    BY <1>3, <2>1 DEF check_duplicate_indices, check_len_limit
  <2> DEFINE s == Sorted(is)
  <2>3. Ascends(s, Range(is)) /\ Len(s) = Len(is)
    BY <1>1, <2>2, SortedIndices
  <2>4. \A x \in Range(is) : x \in Nat /\ x < n
    BY <2>1, <2>2 DEF Range
  <2>5. data' = Retained(s)
    BY <1>3
  <2> HIDE DEF s
  <2>6. /\ s \in Seq(Range(is)) /\ \A j, k \in 1..Len(s) : j < k => s[j] < s[k]
    BY <2>3 DEF Ascends
  <2>7. \A k \in 1..Len(s) : s[k] \in Range(is)
    BY <2>6, ElementOfSeq
  <2>8. s \in Seq(Nat) /\ \A k \in 1..Len(s) : s[k] < n
    <3>1. Range(is) \subseteq Nat
      BY <2>4
    <3>2. s \in Seq(Nat)
      BY <2>6, <3>1
    <3> QED
      BY <2>4, <2>7, <3>2
  <2>9. Removes(data', s, n)
    BY <2>5, <2>6, <2>8, RetainedCells DEF Ascending
  <2>10. call'.op = "remove_element" /\ call'.arg = is /\ call'.result = "Ok"
    BY <1>3, ReturnedCall
  <2> QED
    BY <1>1, <2>2, <2>3, <2>9, <2>10 DEF Removed
<1> QED
  BY <1>2, <1>3, Zenon DEF remove_element

LEMMA FillOutcome ==
  ASSUME NEW n \in Nat, data \in CellsOf(n), NEW value \in f64 \cap Given,
         fill_with(value)
  PROVE  Filled(n)
<1>1. FillsWith("fill_with", <<value>>, value)
  BY DEF fill_with
<1>2. MapsCells("fill_with", Fill(value), n)
  BY <1>1, GapsFilled DEF Fill
<1>3. call'.arg = <<value>>
  <2>1. \E us : UpdatesElements("fill_with", <<value>>, us)
    BY <1>1, Zenon DEF FillsWith
  <2> QED
    BY <2>1, ReturnedCall DEF UpdatesElements
<1>4. call'.op = "fill_with"
  BY <1>2 DEF MapsCells
<1> QED
  BY <1>2, <1>3, <1>4 DEF Filled

LEMMA FillMeanOutcome ==
  ASSUME NEW n \in Nat, data \in CellsOf(n), fill_mean
  PROVE  Failed \/ Filled(n)
<1>1. CASE Returned("fill_mean", <<>>, "AllMissingElements") /\ UNCHANGED data
  BY <1>1, ReturnedCall DEF Failed, Results
<1>2. CASE present_values # {} /\ \E m \in Means : FillsWith("fill_mean", <<>>, m)
  <2>1. PICK m \in Means : FillsWith("fill_mean", <<>>, m)
    BY <1>2
  <2>2. m \in f64 /\ (present_values \subseteq Plain => m \in Values)
    BY <1>2, MeanIsNumber
  <2>3. MapsCells("fill_mean", Fill(m), n)
    BY <2>1, <2>2, GapsFilled DEF Fill
  <2>4. call'.op = "fill_mean"
    BY <2>3 DEF MapsCells
  <2> QED
    BY <2>2, <2>3, <2>4 DEF Filled
<1> QED
  BY <1>1, <1>2 DEF fill_mean

LEMMA CarryOutcome ==
  ASSUME NEW n \in Nat, data \in CellsOf(n), forward_fill \/ backward_fill
  PROVE  CarriedOver(n)
<1>1. Walks(enumerate(data), n) /\ Walks(Reverse(enumerate(data)), n)
  BY CellsEnumerated
<1>2. CASE forward_fill
  <2>1. UpdatesElements("forward_fill", <<>>, Carried(enumerate(data)))
    BY <1>2 DEF forward_fill
  <2> QED
    BY <1>1, <2>1, CarriedFill DEF CarriedOver
<1>3. CASE backward_fill
  <2>1. UpdatesElements("backward_fill", <<>>, Carried(Reverse(enumerate(data))))
    BY <1>3 DEF backward_fill
  <2> QED
    BY <1>1, <2>1, CarriedFill DEF CarriedOver
<1> QED
  BY <1>2, <1>3

LEMMA ScaleOutcome ==
  ASSUME NEW n \in Nat, data \in CellsOf(n), NEW op \in Scalings, NEW g,
         Rescales(g), ScaledBy(op, g)
  PROVE  Scaled(n)
<1>1. \A x \in present_values : g[x] \in Cell
  BY DEF Rescales, Cell
<1>2. MapsCells(op, Scale(g), n)
  BY <1>1, PresentScaled
<1>3. call'.op = op
  BY <1>2 DEF MapsCells
<1> QED
  BY <1>2, <1>3 DEF Scaled

LEMMA ScalingOutcome ==
  ASSUME NEW n \in Nat, data \in CellsOf(n),
         min_max_scale \/ z_score_standardization
  PROVE  Failed \/ Scaled(n)
<1>1. ASSUME NEW op \in Scalings,
             NEW e \in {"AllMissingElements", "FilledElementsEqual"}, Refused(op, e)
      PROVE  Failed
  BY <1>1, ReturnedCall DEF Refused, Failed, Results, Scalings
<1>2. CASE min_max_scale
  <2>1. CASE /\ present_values # {} /\ Smallest # Largest
             /\ \E far \in Farthest :
                  ScaledBy("min_max_scale",
                    [x \in present_values |-> Rescaled(x, Smallest, Largest, far)])
    BY <2>1, MinMaxRescales, ScaleOutcome DEF Scalings
  <2> QED
    BY <1>1, <1>2, <2>1, Zenon DEF min_max_scale, Scalings
<1>3. CASE z_score_standardization
  <2>1. CASE /\ present_values # {}
             /\ \E kind \in {"faint", "finite", "infinite", "NaN"} :
                  /\ SquaresSum(kind)
                  /\ \E g \in ZScores(kind) : ScaledBy("z_score_standardization", g)
    BY <2>1, ScoresRescale, ScaleOutcome DEF Scalings
  <2> QED
    BY <1>1, <1>3, <2>1, Zenon DEF z_score_standardization, Scalings
<1> QED
  BY <1>2, <1>3

\* So a call on the cells has one of these outcomes.
LEMMA CellStepOutcome ==
  ASSUME NEW n \in Nat, data \in CellsOf(n), CellStep
  PROVE  Failed \/ Updated(n) \/ Removed(n) \/ Filled(n) \/ CarriedOver(n) \/ Scaled(n)
BY UpdateElementOutcome, RemoveElementOutcome, FillOutcome, FillMeanOutcome,
   CarryOutcome, ScalingOutcome DEF CellStep

\* A call on the behaviors has no part in the cells.
LEMMA BehaviorStepOutcome ==
  ASSUME BehaviorStep
  PROVE  /\ data' = data /\ call'.result \in Results
         /\ call'.op \in {"register_behavior", "update_behavior", "remove_behavior",
                          "call_behavior"}
<1>r. ASSUME NEW op, NEW b, NEW f, NEW error, Registers(op, b, f, error)
      PROVE  data' = data /\ call'.op = op /\ call'.result = error
  BY <1>r DEF Registers, Returned
<1>1. ASSUME NEW b \in Behaviors, NEW f \in Closures, register_behavior(b, f)
      PROVE  /\ data' = data /\ call'.op = "register_behavior"
             /\ call'.result \in Results
  BY <1>1, <1>r DEF register_behavior, Results
<1>2. ASSUME NEW b \in Behaviors, NEW f \in Closures, update_behavior(b, f)
      PROVE  /\ data' = data /\ call'.op = "update_behavior"
             /\ call'.result \in Results
  BY <1>2, <1>r DEF update_behavior, Results
<1>3. ASSUME NEW b \in Behaviors, remove_behavior(b)
      PROVE  /\ data' = data /\ call'.op = "remove_behavior"
             /\ call'.result \in Results
  BY <1>3 DEF remove_behavior, Returned, Results
<1>4. ASSUME NEW b \in Behaviors, call_behavior(b)
      PROVE  /\ data' = data /\ call'.op = "call_behavior"
             /\ call'.result \in Results
  BY <1>4 DEF call_behavior, Returned, Results
<1> QED
  BY <1>1, <1>2, <1>3, <1>4 DEF BehaviorStep

\* Behaviors come from register_behavior and update_behavior only.
LEMMA BehaviorTypes ==
  ASSUME DOMAIN behaviors \subseteq Behaviors, Range(behaviors) \subseteq Closures,
         BehaviorStep
  PROVE  DOMAIN behaviors' \subseteq Behaviors /\ Range(behaviors') \subseteq Closures
<1>0. \A b \in DOMAIN behaviors : b \in Behaviors /\ behaviors[b] \in Closures
  BY DEF Range
<1>t. ASSUME NEW D, NEW h, D \subseteq Behaviors, behaviors' = [b \in D |-> h[b]],
             \A b \in D : h[b] \in Closures
      PROVE  DOMAIN behaviors' \subseteq Behaviors /\ Range(behaviors') \subseteq Closures
  BY <1>t DEF Range
<1>1. ASSUME NEW op, NEW b \in Behaviors, NEW f \in Closures, NEW error,
             Registers(op, b, f, error)
      PROVE  DOMAIN behaviors' \subseteq Behaviors /\ Range(behaviors') \subseteq Closures
  <2>1. CASE UNCHANGED behaviors
    BY <2>1
  <2>2. CASE behaviors' = [n \in DOMAIN behaviors \cup {b} |->
                             IF n = b THEN f ELSE behaviors[n]]
    BY <1>0, <2>2 DEF Range
  <2> QED
    BY <1>1, <2>1, <2>2 DEF Registers
<1>2. ASSUME NEW b \in Behaviors, remove_behavior(b)
      PROVE  DOMAIN behaviors' \subseteq Behaviors /\ Range(behaviors') \subseteq Closures
  <2>1. behaviors' = [n \in DOMAIN behaviors \ {b} |-> behaviors[n]]
    BY <1>2 DEF remove_behavior, Restrict
  <2> QED
    BY <1>0, <2>1 DEF Range
<1>3. ASSUME NEW b \in Behaviors, call_behavior(b)
      PROVE  behaviors' = behaviors
  BY <1>3 DEF call_behavior
<1> QED
  BY <1>1, <1>2, <1>3 DEF BehaviorStep, register_behavior, update_behavior

\* The column is one of n cells.
LEMMA ColumnOfType ==
  ASSUME TypeOK
  PROVE  \E n \in Nat : n <= MaxLen /\ data \in CellsOf(n)
<1>1. /\ data \in [1..Len(data) -> Cell] /\ Len(data) \in Nat /\ Len(data) <= MaxLen
  BY LenProperties DEF TypeOK
<1> QED
  BY <1>1 DEF CellsOf

\* After a call on the cells they are again a column, never a longer one.
LEMMA CellTypes ==
  ASSUME NEW n \in Nat, data \in CellsOf(n), CellStep
  PROVE  data' \in Seq(Cell) /\ Len(data') <= n /\ call'.result \in Results
<1>s. ASSUME NEW c \in CellsOf(n) PROVE c \in Seq(Cell) /\ Len(c) <= n
  BY DEF CellsOf
<1>o. "Ok" \in Results
  BY DEF Results
<1>1. CASE Failed
  BY <1>1, <1>s DEF Failed
<1>2. CASE Updated(n)
  BY <1>2, <1>s, <1>o DEF Updated, Overwrites
<1>3. CASE Removed(n)
  <2>1. PICK s : Len(s) = Len(call'.arg) /\ Removes(data', s, n)
    BY <1>3 DEF Removed
  <2>2. Len(call'.arg) \in Nat
    BY <1>3, LenProperties DEF Removed
  <2>3. data' \in Seq(Cell) /\ Len(data') = n - Len(call'.arg)
    BY <2>1 DEF Removes
  <2> QED
    BY <1>3, <1>o, <2>2, <2>3 DEF Removed
<1>4. CASE Filled(n)
  BY <1>4, <1>s, <1>o DEF Filled, MapsCells
<1>5. CASE CarriedOver(n)
  BY <1>5, <1>s, <1>o DEF CarriedOver
<1>6. CASE Scaled(n)
  BY <1>6, <1>s, <1>o DEF Scaled, MapsCells
<1> QED
  BY <1>1, <1>2, <1>3, <1>4, <1>5, <1>6, CellStepOutcome

\* Whatever is called, the cells stay numbers or missing, their number never
\* grows, and the result is Ok or an error that the method has.
THEOREM TypeCorrectness == Spec => []TypeOK
<1>1. ASSUME Init PROVE TypeOK
  <2>1. PICK m \in 0..MaxLen : data \in [1..m -> Cell]
    BY <1>1, BoundedLength DEF Init
  <2>2. data \in Seq(Cell) /\ Len(data) = m /\ m <= MaxLen
    BY <2>1, ColumnAssumption
  <2>3. DOMAIN behaviors = {} /\ Range(behaviors) = {}
    BY <1>1 DEF Init, Range
  <2>4. call.result \in Results
    BY <1>1 DEF Init, Results
  <2> QED
    BY <2>2, <2>3, <2>4 DEF TypeOK
<1>2. ASSUME TypeOK, [Next]_vars PROVE TypeOK'
  <2>1. PICK n \in Nat : n <= MaxLen /\ data \in CellsOf(n)
    BY <1>2, ColumnOfType
  <2>2. CASE CellStep /\ UNCHANGED behaviors
    <3>1. data' \in Seq(Cell) /\ Len(data') <= n /\ call'.result \in Results
      BY <2>1, <2>2, CellTypes
    <3>2. Len(data') \in Nat /\ MaxLen \in Nat
      BY <3>1, LenProperties, ColumnAssumption
    <3>3. Len(data') <= MaxLen
      BY <2>1, <3>1, <3>2
    <3> QED
      BY <1>2, <2>2, <3>1, <3>3 DEF TypeOK
  <2>3. CASE BehaviorStep
    <3>1. data' = data /\ call'.result \in Results
      BY <2>3, BehaviorStepOutcome
    <3>2. DOMAIN behaviors' \subseteq Behaviors /\ Range(behaviors') \subseteq Closures
      BY <1>2, <2>3, BehaviorTypes DEF TypeOK
    <3> QED
      BY <1>2, <3>1, <3>2 DEF TypeOK
  <2>4. CASE UNCHANGED vars
    BY <1>2, <2>4 DEF TypeOK, vars
  <2> QED
    BY <1>2, <2>2, <2>3, <2>4 DEF Next
<1>3. TypeOK /\ [Next]_vars => TypeOK'
  BY <1>2
<1>4. Init => TypeOK
  BY <1>1
<1> QED
  BY <1>3, <1>4, PTL DEF Spec

-----------------------------------------------------------------------------
(* What every call keeps.                                                    *)

\* A call on the cells of a column of any length, or one that leaves them.
LEMMA StepOutcome ==
  ASSUME TypeOK, Next
  PROVE  \E n \in Nat :
           /\ data \in CellsOf(n)
           /\ \/ Failed \/ Updated(n) \/ Removed(n) \/ Filled(n)
              \/ CarriedOver(n) \/ Scaled(n) \/ BehaviorStep
<1>1. PICK n \in Nat : data \in CellsOf(n)
  BY ColumnOfType
<1>2. Failed \/ Updated(n) \/ Removed(n) \/ Filled(n)
        \/ CarriedOver(n) \/ Scaled(n) \/ BehaviorStep
  BY <1>1, CellStepOutcome DEF Next
<1> QED
  BY <1>1, <1>2

\* Every cell named in the updates has one new value, that of its update.
LEMMA UpdateWritesAFunction ==
  ASSUME NEW n \in Nat, data \in CellsOf(n), Updated(n)
  PROVE  WritesAFunction
<1> DEFINE us == call'.arg
           ValuesFor(p) == {u[2] : u \in {v \in Range(us) : At(IndexOf(v)) = p}}
<1>1. /\ us \in Seq(Nat \X Cell) /\ Overwrites(data', us, n)
      /\ \A j, k \in 1..Len(us) : us[j][1] = us[k][1] => j = k
  BY DEF Updated
<1> HIDE DEF us
<1>2. /\ DOMAIN us = 1..Len(us) /\ Len(us) \in Nat
      /\ \A k \in 1..Len(us) : us[k] \in Nat \X Cell
  BY <1>1, LenProperties, ElementOfSeq
<1>3. /\ data' \in CellsOf(n) /\ DOMAIN data = 1..n /\ DOMAIN data' = 1..n
      /\ \A k \in 1..Len(us) : data'[us[k][1] + 1] = us[k][2]
      /\ \A p \in 1..n : (\A k \in 1..Len(us) : us[k][1] + 1 # p) => data'[p] = data[p]
  BY <1>1 DEF Overwrites, CellsOf
<1>4. \A v : v \in Range(us) <=> \E k \in 1..Len(us) : v = us[k]
  BY <1>2, Zenon DEF Range
<1>5. \A v : At(IndexOf(v)) = v[1] + 1
  BY DEF At, IndexOf
<1>6. ASSUME NEW p \in 1..n
      PROVE  IF ValuesFor(p) = {} THEN data'[p] = data[p]
                                  ELSE ValuesFor(p) = {data'[p]}
  <2>1. \A x : x \in ValuesFor(p) <=> \E k \in 1..Len(us) : us[k][1] + 1 = p /\ x = us[k][2]
    BY <1>4, <1>5
  <2> HIDE DEF ValuesFor
  <2>2. CASE \A k \in 1..Len(us) : us[k][1] + 1 # p
    BY <1>3, <2>1, <2>2
  <2>3. CASE \E k \in 1..Len(us) : us[k][1] + 1 = p
    <3>1. PICK k \in 1..Len(us) : us[k][1] + 1 = p
      BY <2>3
    <3>2. us[k][2] \in ValuesFor(p) /\ data'[p] = us[k][2]
      BY <1>3, <2>1, <3>1
    <3>3. \A x \in ValuesFor(p) : x = data'[p]
      BY <1>3, <2>1
    <3> QED
      BY <3>2, <3>3
  <2> QED
    BY <2>2, <2>3
<1> QED
  BY <1>3, <1>6 DEF WritesAFunction, us

\* update_element writes a function of the indices, in whatever order its
\* argument lists them.
THEOREM UpdatesAreFunctions == Spec => UpdateIsAFunction
<1>1. ASSUME TypeOK, Next PROVE WritesAFunction
  <2>1. PICK n \in Nat :
          /\ data \in CellsOf(n)
          /\ \/ Failed \/ Updated(n) \/ Removed(n) \/ Filled(n)
             \/ CarriedOver(n) \/ Scaled(n) \/ BehaviorStep
    BY <1>1, StepOutcome
  <2>2. CASE Updated(n)
    BY <2>1, <2>2, UpdateWritesAFunction
  <2>3. CASE ~(call'.op = "update_element" /\ call'.result = "Ok")
    BY <2>3 DEF WritesAFunction
  <2>4. ASSUME Failed \/ Removed(n) \/ Filled(n) \/ CarriedOver(n) \/ Scaled(n)
                 \/ BehaviorStep
        PROVE  ~(call'.op = "update_element" /\ call'.result = "Ok")
    BY <2>4, BehaviorStepOutcome
       DEF Failed, Removed, Filled, CarriedOver, Scaled, Scalings
  <2> QED
    BY <2>1, <2>2, <2>3, <2>4
<1>2. TypeOK /\ [Next]_vars => [WritesAFunction]_vars
  BY <1>1
<1> QED
  BY <1>2, TypeCorrectness, PTL DEF Spec, UpdateIsAFunction

\* The cells that remain close up by the number of the removed ones before them.
LEMMA RemovalClosesUp ==
  ASSUME NEW n \in Nat, data \in CellsOf(n), Removed(n)
  PROVE  ClosesUp
<1> DEFINE is == call'.arg
           Gone == {At(i) : i \in Range(is)}
<1>1. PICK s : Ascends(s, Range(is)) /\ Len(s) = Len(is) /\ Removes(data', s, n)
  BY DEF Removed
<1>2. is \in Seq(Nat)
  BY DEF Removed
<1> HIDE DEF is
<1>3. /\ s \in Seq(Range(is)) /\ Len(s) \in Nat
      /\ \A x \in Range(is) : \E k \in 1..Len(s) : s[k] = x
  BY <1>1, LenProperties DEF Ascends
<1>4. \A k \in 1..Len(s) : s[k] \in Range(is)
  BY <1>3, ElementOfSeq
<1>5. Gone = PlacesOf(s)
  BY <1>3, <1>4 DEF PlacesOf, At
<1>6. /\ Len(data') = n - Len(is) /\ Len(data) = n /\ DOMAIN data = 1..n
      /\ \A p \in 1..n : p \notin PlacesOf(s) =>
           data'[p - Cardinality({q \in PlacesOf(s) : q < p})] = data[p]
  BY <1>1, CellsOfColumn DEF Removes
<1> HIDE DEF Gone
<1>7. /\ Len(data') = Len(data) - Len(is)
      /\ \A p \in DOMAIN data \ Gone :
           data'[p - Cardinality({q \in Gone : q < p})] = data[p]
  BY <1>5, <1>6
<1> QED
  BY <1>7 DEF ClosesUp, Gone, is

\* remove_element takes out the cells at its indices, in whatever order these
\* are, and no other.
THEOREM RemovalsAreExact == Spec => RemovesExactly
<1>1. ASSUME TypeOK, Next PROVE ClosesUp
  <2>1. PICK n \in Nat :
          /\ data \in CellsOf(n)
          /\ \/ Failed \/ Updated(n) \/ Removed(n) \/ Filled(n)
             \/ CarriedOver(n) \/ Scaled(n) \/ BehaviorStep
    BY <1>1, StepOutcome
  <2>2. CASE Removed(n)
    BY <2>1, <2>2, RemovalClosesUp
  <2>3. CASE ~(call'.op = "remove_element" /\ call'.result = "Ok")
    BY <2>3 DEF ClosesUp
  <2>4. ASSUME Failed \/ Updated(n) \/ Filled(n) \/ CarriedOver(n) \/ Scaled(n)
                 \/ BehaviorStep
        PROVE  ~(call'.op = "remove_element" /\ call'.result = "Ok")
    BY <2>4, BehaviorStepOutcome
       DEF Failed, Updated, Filled, CarriedOver, Scaled, Scalings
  <2> QED
    BY <2>1, <2>2, <2>3, <2>4
<1>2. TypeOK /\ [Next]_vars => [ClosesUp]_vars
  BY <1>1
<1> QED
  BY <1>2, TypeCorrectness, PTL DEF Spec, RemovesExactly

\* What the carrying loops leave, by the places of the cells.
LEMMA CarriedCells ==
  ASSUME NEW n \in Nat, data \in CellsOf(n), CarriedOver(n), NEW p \in 1..n
  PROVE  /\ call'.op = "forward_fill" =>
              \/ data'[p] = Missing /\ \A q \in 1..p : data[q] = Missing
              \/ \E h \in 1..p : /\ data'[p] # Missing /\ data'[p] = data[h]
                                 /\ \A q \in 1..p : data[q] # Missing => q <= h
         /\ call'.op = "backward_fill" =>
              \/ data'[p] = Missing /\ \A q \in p..n : data[q] = Missing
              \/ \E h \in p..n : /\ data'[p] # Missing /\ data'[p] = data[h]
                                 /\ \A q \in p..n : data[q] # Missing => h <= q
<1> DEFINE a == enumerate(data)
           b == Reverse(enumerate(data))
<1>0. /\ Len(a) = n /\ \A k \in 1..n : a[k] = <<k - 1, data[k]>>
      /\ Len(b) = n /\ \A k \in 1..n : b[k] = <<n - k, data[n - k + 1]>>
  BY CellsEnumerated
<1>1. ASSUME call'.op = "forward_fill"
      PROVE  \/ data'[p] = Missing /\ \A q \in 1..p : data[q] = Missing
             \/ \E h \in 1..p : /\ data'[p] # Missing /\ data'[p] = data[h]
                                /\ \A q \in 1..p : data[q] # Missing => q <= h
  <2>1. CarriesOn(a, n)
    BY <1>1 DEF CarriedOver
  <2> HIDE DEF a
  <2>2. \A k \in 1..n : a[k][1] = k - 1 /\ a[k][2] = data[k]
    BY <1>0
  <2>3. IF \A r \in 1..p : a[r][2] = Missing THEN data'[p] = Missing
                                             ELSE LastPresent(a, p, data'[p])
    <3>1. a[p][1] + 1 = p
      BY <2>2
    <3> QED
      BY <1>0, <2>1, <3>1 DEF CarriesOn
  <2>4. \A r \in 1..p : r \in 1..n
    OBVIOUS
  <2>5. CASE \A r \in 1..p : a[r][2] = Missing
    BY <2>2, <2>3, <2>4, <2>5
  <2>6. CASE ~ \A r \in 1..p : a[r][2] = Missing
    <3>1. LastPresent(a, p, data'[p])
      BY <2>3, <2>6
    <3>2. PICK h \in 1..p : /\ a[h][2] = data'[p] /\ data'[p] # Missing
                            /\ \A r \in (h + 1)..p : a[r][2] = Missing
      BY <3>1 DEF LastPresent
    <3>3. data'[p] = data[h]
      BY <2>2, <2>4, <3>2
    <3>4. ASSUME NEW q \in 1..p, data[q] # Missing PROVE q <= h
      <4>1. q \notin (h + 1)..p
        BY <2>2, <2>4, <3>2, <3>4
      <4> QED
        BY <4>1
    <3> QED
      BY <3>2, <3>3, <3>4
  <2> QED
    BY <2>5, <2>6
<1>2. ASSUME call'.op = "backward_fill"
      PROVE  \/ data'[p] = Missing /\ \A q \in p..n : data[q] = Missing
             \/ \E h \in p..n : /\ data'[p] # Missing /\ data'[p] = data[h]
                                /\ \A q \in p..n : data[q] # Missing => h <= q
  <2> DEFINE m == n - p + 1
  <2>1. CarriesOn(b, n)
    BY <1>2 DEF CarriedOver
  <2> HIDE DEF b
  <2>2. /\ \A k \in 1..n : b[k][1] = n - k /\ b[k][2] = data[n - k + 1]
        /\ m \in 1..n
    BY <1>0
  <2>3. IF \A r \in 1..m : b[r][2] = Missing THEN data'[p] = Missing
                                             ELSE LastPresent(b, m, data'[p])
    <3>1. b[m][1] + 1 = p
      BY <2>2
    <3> HIDE DEF m
    <3> QED
      BY <1>0, <2>1, <2>2, <3>1 DEF CarriesOn
  <2>4. \A q \in p..n : n - q + 1 \in 1..m /\ n - q + 1 \in 1..n /\ n - (n - q + 1) + 1 = q
    OBVIOUS
  <2>5. CASE \A r \in 1..m : b[r][2] = Missing
    <3>1. \A q \in p..n : data[q] = Missing
      BY <2>2, <2>4, <2>5
    <3> QED
      BY <2>3, <2>5, <3>1
  <2>6. CASE ~ \A r \in 1..m : b[r][2] = Missing
    <3>1. LastPresent(b, m, data'[p])
      BY <2>3, <2>6
    <3>2. PICK k \in 1..m : /\ b[k][2] = data'[p] /\ data'[p] # Missing
                            /\ \A r \in (k + 1)..m : b[r][2] = Missing
      BY <3>1 DEF LastPresent
    <3> DEFINE h == n - k + 1
    <3>3. k \in 1..n /\ h \in p..n
      BY <2>2, <3>2
    <3>4. data'[p] = data[h]
      BY <2>2, <3>2, <3>3
    <3>5. ASSUME NEW q \in p..n, data[q] # Missing PROVE h <= q
      <4>1. n - q + 1 \notin (k + 1)..m
        BY <2>2, <2>4, <3>2, <3>5
      <4> QED
        BY <2>4, <4>1
    <3> QED
      BY <3>2, <3>3, <3>4, <3>5
  <2> QED
    BY <2>5, <2>6
<1> QED
  BY <1>1, <1>2

\* After a fill the present cells are as they were and where they were.
LEMMA FillKeepsPresent ==
  ASSUME NEW n \in Nat, data \in CellsOf(n), Filled(n) \/ CarriedOver(n)
  PROVE  KeepsPresent
<1>1. DOMAIN data = 1..n /\ \A p \in 1..n : data[p] \in Cell
  BY CellsOfColumn
<1>2. CASE Filled(n)
  <2>1. PICK v \in f64 : MapsCells(call'.op, Fill(v), n)
    BY <1>2 DEF Filled
  <2>2. data' \in CellsOf(n) /\ \A p \in 1..n : data'[p] = Fill(v)[data[p]]
    BY <2>1 DEF MapsCells
  <2>3. DOMAIN data' = 1..n
    BY <2>2 DEF CellsOf
  <2>4. \A x \in Cell : x # Missing => Fill(v)[x] = x
    BY DEF Fill
  <2> QED
    BY <1>1, <2>2, <2>3, <2>4 DEF KeepsPresent
<1>3. CASE CarriedOver(n)
  <2>1. DOMAIN data' = 1..n
    BY <1>3 DEF CarriedOver, CellsOf
  <2>2. ASSUME NEW p \in 1..n, data[p] # Missing PROVE data'[p] = data[p]
    <3>1. p \in 1..p /\ p \in p..n
      OBVIOUS
    <3>2. CASE call'.op = "forward_fill"
      <4>1. PICK h \in 1..p : data'[p] = data[h] /\ \A q \in 1..p : data[q] # Missing => q <= h
        BY <1>3, <2>2, <3>1, <3>2, CarriedCells
      <4>2. h = p
        BY <2>2, <3>1, <4>1
      <4> QED
        BY <4>1, <4>2
    <3>3. CASE call'.op = "backward_fill"
      <4>1. PICK h \in p..n : data'[p] = data[h] /\ \A q \in p..n : data[q] # Missing => h <= q
        BY <1>3, <2>2, <3>1, <3>3, CarriedCells
      <4>2. h = p
        BY <2>2, <3>1, <4>1
      <4> QED
        BY <4>1, <4>2
    <3> QED
      BY <1>3, <3>2, <3>3 DEF CarriedOver
  <2> QED
    BY <1>1, <2>1, <2>2 DEF KeepsPresent
<1> QED
  BY <1>2, <1>3

\* No fill, whether it succeeds or not, changes a present cell or the length.
THEOREM FillsOnlyGaps == Spec => FillsKeepPresent
<1>1. ASSUME TypeOK, Next PROVE KeepsPresent
  <2>1. PICK n \in Nat :
          /\ data \in CellsOf(n)
          /\ \/ Failed \/ Updated(n) \/ Removed(n) \/ Filled(n)
             \/ CarriedOver(n) \/ Scaled(n) \/ BehaviorStep
    BY <1>1, StepOutcome
  <2>2. CASE Filled(n) \/ CarriedOver(n)
    BY <2>1, <2>2, FillKeepsPresent
  <2>3. CASE Failed
    BY <2>3 DEF Failed, KeepsPresent
  <2>4. CASE call'.op \notin Fills
    BY <2>4 DEF KeepsPresent
  <2>5. ASSUME Updated(n) \/ Removed(n) \/ Scaled(n) \/ BehaviorStep
        PROVE  call'.op \notin Fills
    BY <2>5, BehaviorStepOutcome DEF Updated, Removed, Scaled, Scalings, Fills
  <2> QED
    BY <2>1, <2>2, <2>3, <2>4, <2>5
<1>2. TypeOK /\ [Next]_vars => [KeepsPresent]_vars
  BY <1>1
<1> QED
  BY <1>2, TypeCorrectness, PTL DEF Spec, FillsKeepPresent

\* The value carried to a cell is that of the nearest present one.
LEMMA CarriesTheNearest ==
  ASSUME NEW n \in Nat, data \in CellsOf(n), CarriedOver(n)
  PROVE  CarriesNearest
<1>1. DOMAIN data = 1..n /\ Len(data) = n
  BY CellsOfColumn
<1>2. ASSUME NEW p \in 1..n, call'.op = "forward_fill"
      PROVE  LET Before == {q \in 1..p : data[q] # Missing}
             IN data'[p] = IF Before = {} THEN Missing ELSE data[Max(Before)]
  <2> DEFINE Before == {q \in 1..p : data[q] # Missing}
  <2>1. CASE data'[p] = Missing /\ \A q \in 1..p : data[q] = Missing
    BY <2>1
  <2>2. CASE \E h \in 1..p : /\ data'[p] # Missing /\ data'[p] = data[h]
                             /\ \A q \in 1..p : data[q] # Missing => q <= h
    <3>1. PICK h \in 1..p : /\ data'[p] # Missing /\ data'[p] = data[h]
                            /\ \A q \in 1..p : data[q] # Missing => q <= h
      BY <2>2
    <3>2. Before \subseteq Int /\ h \in Before /\ \A q \in Before : q <= h
      BY <3>1
    <3> HIDE DEF Before
    <3>3. Max(Before) = h
      BY <3>2, TheExtreme
    <3>4. Before # {}
      BY <3>2
    <3>5. data'[p] = IF Before = {} THEN Missing ELSE data[Max(Before)]
      BY <3>1, <3>3, <3>4
    <3> QED
      BY <3>5 DEF Before
  <2> QED
    BY <1>2, <2>1, <2>2, CarriedCells
<1>3. ASSUME NEW p \in 1..n, call'.op = "backward_fill"
      PROVE  LET After == {q \in p..n : data[q] # Missing}
             IN data'[p] = IF After = {} THEN Missing ELSE data[Min(After)]
  <2> DEFINE After == {q \in p..n : data[q] # Missing}
  <2>1. CASE data'[p] = Missing /\ \A q \in p..n : data[q] = Missing
    BY <2>1
  <2>2. CASE \E h \in p..n : /\ data'[p] # Missing /\ data'[p] = data[h]
                             /\ \A q \in p..n : data[q] # Missing => h <= q
    <3>1. PICK h \in p..n : /\ data'[p] # Missing /\ data'[p] = data[h]
                            /\ \A q \in p..n : data[q] # Missing => h <= q
      BY <2>2
    <3>2. After \subseteq Int /\ h \in After /\ \A q \in After : h <= q
      BY <3>1
    <3> HIDE DEF After
    <3>3. Min(After) = h
      BY <3>2, TheExtreme
    <3>4. After # {}
      BY <3>2
    <3>5. data'[p] = IF After = {} THEN Missing ELSE data[Min(After)]
      BY <3>1, <3>3, <3>4
    <3> QED
      BY <3>5 DEF After
  <2> QED
    BY <1>3, <2>1, <2>2, CarriedCells
<1> QED
  BY <1>1, <1>2, <1>3, Zenon DEF CarriesNearest

\* forward_fill and backward_fill carry the value of the nearest present cell on
\* their side, as it was before the call, and leave a gap that has none.
THEOREM CarriesAreNearest == Spec => FillsCarryNearest
<1>1. ASSUME TypeOK, Next PROVE CarriesNearest
  <2>1. PICK n \in Nat :
          /\ data \in CellsOf(n)
          /\ \/ Failed \/ Updated(n) \/ Removed(n) \/ Filled(n)
             \/ CarriedOver(n) \/ Scaled(n) \/ BehaviorStep
    BY <1>1, StepOutcome
  <2>2. CASE CarriedOver(n)
    BY <2>1, <2>2, CarriesTheNearest
  <2>3. CASE call'.op \notin {"forward_fill", "backward_fill"}
    BY <2>3 DEF CarriesNearest
  <2>4. ASSUME Failed \/ Updated(n) \/ Removed(n) \/ Filled(n) \/ Scaled(n)
                 \/ BehaviorStep
        PROVE  call'.op \notin {"forward_fill", "backward_fill"}
    BY <2>4, BehaviorStepOutcome
       DEF Failed, Updated, Removed, Filled, Scaled, Scalings
  <2> QED
    BY <2>1, <2>2, <2>3, <2>4
<1>2. TypeOK /\ [Next]_vars => [CarriesNearest]_vars
  BY <1>1
<1> QED
  BY <1>2, TypeCorrectness, PTL DEF Spec, FillsCarryNearest

\* Every cell of S is plain or missing, or finite or missing.
AllPlain(S) == \A x \in S : x \in Plain \/ x = Missing
Finite(S) == \A x \in S : x \in Values \/ x = Missing

\* A call on plain cells with a plain argument leaves finite cells.
LEMMA FiniteCells ==
  ASSUME NEW n \in Nat, data \in CellsOf(n), \A p \in 1..n : AllPlain({data[p]}),
         \/ Updated(n) /\ \A k \in 1..Len(call'.arg) : AllPlain({call'.arg[k][2]})
         \/ Removed(n)
         \/ Filled(n) /\ (call'.op = "fill_with" => AllPlain(Range(call'.arg)))
         \/ CarriedOver(n) \/ Scaled(n)
  PROVE  \A p \in DOMAIN data' : Finite({data'[p]})
<1>0. Plain \subseteq Values
  BY DEF Plain
<1>a. \A p \in 1..n : data[p] \in Plain \/ data[p] = Missing
  BY DEF AllPlain
<1>1. \A p \in 1..n : data[p] \in Values \/ data[p] = Missing
  BY <1>0, <1>a
<1>2. Missing \notin f64 /\ \A x \in Cell : x # Missing <=> x \in f64
  BY MissingIsNoNumber
<1>3. /\ DOMAIN data = 1..n /\ \A p \in 1..n : data[p] \in Cell
      /\ \A x : x \in present_values <=> \E p \in 1..n : data[p] = x /\ x \in f64
  BY CellsOfColumn
<1>4. present_values \subseteq Plain
  BY <1>a, <1>2, <1>3
<1>d. ASSUME data' \in CellsOf(n) PROVE DOMAIN data' = 1..n
  BY <1>d DEF CellsOf
<1>5. CASE Updated(n) /\ \A k \in 1..Len(call'.arg) : AllPlain({call'.arg[k][2]})
  <2> DEFINE us == call'.arg
  <2>1. /\ us \in Seq(Nat \X Cell) /\ Overwrites(data', us, n)
        /\ \A k \in 1..Len(us) : us[k][2] \in Values \/ us[k][2] = Missing
    BY <1>0, <1>5 DEF Updated, AllPlain
  <2> HIDE DEF us
  <2>2. /\ data' \in CellsOf(n)
        /\ \A k \in 1..Len(us) : data'[us[k][1] + 1] = us[k][2]
        /\ \A p \in 1..n : (\A k \in 1..Len(us) : us[k][1] + 1 # p) => data'[p] = data[p]
    BY <2>1 DEF Overwrites
  <2>3. ASSUME NEW p \in 1..n PROVE data'[p] \in Values \/ data'[p] = Missing
    BY <1>1, <2>1, <2>2
  <2> QED
    BY <1>d, <2>2, <2>3 DEF Finite
<1>6. CASE Removed(n)
  <2>1. PICK s : Removes(data', s, n)
    BY <1>6 DEF Removed
  <2>2. /\ data' \in Seq(Cell)
        /\ \A k \in 1..Len(data') : \E p \in 1..n : data'[k] = data[p]
    BY <2>1 DEF Removes
  <2>3. DOMAIN data' = 1..Len(data')
    BY <2>2, LenProperties
  <2> QED
    BY <1>1, <2>2, <2>3 DEF Finite
<1>7. CASE Filled(n) /\ (call'.op = "fill_with" => AllPlain(Range(call'.arg)))
  <2>1. PICK v \in f64 :
          /\ MapsCells(call'.op, Fill(v), n)
          /\ call'.op = "fill_with" => call'.arg = <<v>>
          /\ call'.op = "fill_mean" /\ present_values \subseteq Plain => v \in Values
    BY <1>7 DEF Filled
  <2>2. v \in Values
    <3>1. CASE call'.op = "fill_with"
      <4>1. AllPlain(Range(<<v>>))
        BY <1>7, <2>1, <3>1
      <4>2. v \in Range(<<v>>)
        BY DEF Range
      <4> QED
        BY <1>0, <1>2, <4>1, <4>2 DEF AllPlain
    <3> QED
      BY <1>4, <1>7, <2>1, <3>1 DEF Filled
  <2>3. data' \in CellsOf(n) /\ \A p \in 1..n : data'[p] = Fill(v)[data[p]]
    BY <2>1 DEF MapsCells
  <2>4. \A x \in Cell : Fill(v)[x] = v \/ Fill(v)[x] = x
    BY DEF Fill
  <2>5. ASSUME NEW p \in 1..n PROVE data'[p] \in Values \/ data'[p] = Missing
    BY <1>1, <1>3, <2>2, <2>3, <2>4
  <2> QED
    BY <1>d, <2>3, <2>5 DEF Finite
<1>8. CASE CarriedOver(n)
  <2>1. ASSUME NEW p \in 1..n PROVE data'[p] \in Values \/ data'[p] = Missing
    <3>1. /\ \A h \in 1..p : data[h] \in Values \/ data[h] = Missing
          /\ \A h \in p..n : data[h] \in Values \/ data[h] = Missing
      BY <1>1
    <3>2. call'.op = "forward_fill" \/ call'.op = "backward_fill"
      BY <1>8 DEF CarriedOver
    <3> QED
      BY <1>8, <3>1, <3>2, CarriedCells
  <2> QED
    BY <1>d, <1>8, <2>1 DEF Finite, CarriedOver
<1>9. CASE Scaled(n)
  <2>1. PICK g : MapsCells(call'.op, Scale(g), n) /\ Rescales(g)
    BY <1>9 DEF Scaled
  <2>2. data' \in CellsOf(n) /\ \A p \in 1..n : data'[p] = Scale(g)[data[p]]
    BY <2>1 DEF MapsCells
  <2>3. \A x \in present_values : g[x] \in Values
    BY <1>4, <2>1 DEF Rescales
  <2>4. \A x \in Cell : Scale(g)[x] = IF x = Missing THEN Missing ELSE g[x]
    BY DEF Scale
  <2>5. ASSUME NEW p \in 1..n PROVE data'[p] \in Values \/ data'[p] = Missing
    <3>1. data[p] # Missing => data[p] \in present_values
      BY <1>2, <1>3
    <3> QED
      BY <1>3, <2>2, <2>3, <2>4, <3>1
  <2> QED
    BY <1>d, <2>2, <2>5 DEF Finite
<1> QED
  BY <1>5, <1>6, <1>7, <1>8, <1>9

\* No division is by a zero that the cells could give it: as long as nothing can
\* overflow or underflow, no call makes NaN or an infinity.
THEOREM DivisorsAreGuarded == Spec => DivisionsGuarded
<1>1. ASSUME TypeOK, Next PROVE GuardsDivisions
  <2> DEFINE Brought == IF call'.op = "fill_with" THEN Range(call'.arg)
                        ELSE IF call'.op = "update_element"
                          THEN {u[2] : u \in Range(call'.arg)} ELSE {}
  <2> SUFFICES ASSUME Range(data) \cup Brought \subseteq Plain \cup {Missing}
               PROVE  Range(data') \subseteq Values \cup {Missing}
    BY DEF GuardsDivisions
  <2>1. PICK n \in Nat :
          /\ data \in CellsOf(n)
          /\ \/ Failed \/ Updated(n) \/ Removed(n) \/ Filled(n)
             \/ CarriedOver(n) \/ Scaled(n) \/ BehaviorStep
    BY <1>1, StepOutcome
  <2>2. \A p \in 1..n : AllPlain({data[p]})
    BY <2>1, CellsOfColumn DEF AllPlain, Range
  <2>3. CASE Failed \/ BehaviorStep
    <3>1. data' = data
      BY <2>3, BehaviorStepOutcome DEF Failed
    <3>2. Range(data) \subseteq Values \cup {Missing}
      BY DEF Plain
    <3> QED
      BY <3>1, <3>2
  <2>4. ASSUME \A p \in DOMAIN data' : Finite({data'[p]})
        PROVE  Range(data') \subseteq Values \cup {Missing}
    BY <2>4 DEF Finite, Range
  <2>5. CASE Updated(n)
    <3>1. /\ call'.arg \in Seq(Nat \X Cell) /\ call'.op = "update_element"
          /\ DOMAIN call'.arg = 1..Len(call'.arg)
      BY <2>5, LenProperties DEF Updated
    <3>2. Brought = {u[2] : u \in Range(call'.arg)}
      BY <3>1
    <3>3. ASSUME NEW k \in 1..Len(call'.arg) PROVE AllPlain({call'.arg[k][2]})
      <4>1. call'.arg[k] \in Range(call'.arg)
        BY <3>1, Zenon DEF Range
      <4>2. call'.arg[k][2] \in Brought
        BY <3>2, <4>1
      <4> QED
        BY <4>2 DEF AllPlain
    <3> QED
      BY <2>1, <2>2, <2>4, <2>5, <3>3, FiniteCells
  <2>6. CASE Filled(n)
    <3>1. call'.op = "fill_with" => AllPlain(Range(call'.arg))
      BY DEF AllPlain
    <3> QED
      BY <2>1, <2>2, <2>4, <2>6, <3>1, FiniteCells
  <2>7. CASE Removed(n) \/ CarriedOver(n) \/ Scaled(n)
    BY <2>1, <2>2, <2>4, <2>7, FiniteCells
  <2> QED
    BY <2>1, <2>3, <2>5, <2>6, <2>7
<1>2. TypeOK /\ [Next]_vars => [GuardsDivisions]_vars
  BY <1>1
<1> QED
  BY <1>2, TypeCorrectness, PTL DEF Spec, DivisionsGuarded

\* A set with two different elements has more than one.
LEMMA TwoElements ==
  ASSUME NEW S, IsFiniteSet(S), NEW x \in S, NEW y \in S, x # y
  PROVE  Cardinality(S) > 1
<1>1. IsFiniteSet({x}) /\ Cardinality({x}) = 1
  BY FS_Singleton
<1>2. IsFiniteSet({x} \cup {y}) /\ Cardinality({x} \cup {y}) = 2
  <2> DEFINE A == {x}
  <2>1. y \notin A /\ IsFiniteSet(A) /\ Cardinality(A) = 1
    BY <1>1
  <2> HIDE DEF A
  <2>2. IsFiniteSet(A \cup {y}) /\ Cardinality(A \cup {y}) = Cardinality(A) + 1
    BY <2>1, FS_AddElement
  <2> QED
    BY <2>1, <2>2 DEF A
<1>3. {x} \cup {y} \in SUBSET S
  OBVIOUS
<1>4. Cardinality({x} \cup {y}) <= Cardinality(S) /\ Cardinality(S) \in Nat
  BY <1>3, FS_Subset, FS_CardinalityType
<1> QED
  BY <1>2, <1>4

\* A column has finitely many different cells.
LEMMA FiniteRange ==
  ASSUME NEW n \in Nat, NEW c \in CellsOf(n)
  PROVE  IsFiniteSet(Range(c))
<1>1. IsFiniteSet(1..n)
  <2>1. 1 \in Int /\ n \in Int
    OBVIOUS
  <2> QED
    BY <2>1, FS_Interval
<1>2. c \in Surjection(1..n, Range(c))
  <2>1. DOMAIN c = 1..n
    BY DEF CellsOf
  <2> QED
    BY <2>1 DEF Surjection, Range, CellsOf
<1> QED
  BY <1>1, <1>2, FS_Surjection

\* A scaling of finite cells to finite ones keeps their places and their order.
LEMMA ScaledInOrder ==
  ASSUME NEW n \in Nat, data \in CellsOf(n), Scaled(n)
  PROVE  KeepsOrder
<1>1. PICK g : MapsCells(call'.op, Scale(g), n) /\ Rescales(g)
  BY DEF Scaled
<1>2. data' \in CellsOf(n) /\ \A p \in 1..n : data'[p] = Scale(g)[data[p]]
  BY <1>1 DEF MapsCells
<1>3. \A x \in Cell : Scale(g)[x] = IF x = Missing THEN Missing ELSE g[x]
  BY DEF Scale
<1>4. /\ DOMAIN data = 1..n /\ \A p \in 1..n : data[p] \in Cell
      /\ \A x : x \in present_values <=> \E p \in 1..n : data[p] = x /\ x \in f64
  BY CellsOfColumn
<1>5. Missing \notin f64 /\ \A x \in Cell : x # Missing <=> x \in f64
  BY MissingIsNoNumber
<1>6. DOMAIN data' = 1..n
  BY <1>2 DEF CellsOf
<1>7. \A x \in present_values : g[x] \in f64
  BY <1>1 DEF Rescales
<1>8. \A p \in 1..n : data[p] # Missing =>
        data[p] \in present_values /\ data'[p] = g[data[p]] /\ data'[p] # Missing
  BY <1>2, <1>3, <1>4, <1>5, <1>7
<1>9. \A p \in 1..n : data[p] = Missing => data'[p] = Missing
  BY <1>2, <1>3, <1>4
<1>10. ASSUME Range(data) \cup Range(data') \subseteq Values \cup {Missing}
       PROVE  LET Present == {p \in DOMAIN data : data[p] # Missing}
              IN /\ \A p, q \in Present : data[p] <= data[q] => data'[p] <= data'[q]
                 /\ present_values \cap Huge = {} /\ Cardinality(present_values) > 1 =>
                      Cardinality(Range(data') \ {Missing}) > 1
  <2>a. present_values \subseteq Values
    BY <1>5, <1>10 DEF present_values
  <2>b. ASSUME NEW x \in present_values PROVE g[x] \in Values
    <3>1. PICK p \in 1..n : data[p] = x /\ x \in f64
      BY <1>4
    <3>2. data'[p] = g[x] /\ data'[p] # Missing
      BY <1>5, <1>8, <3>1
    <3>3. data'[p] \in Range(data')
      BY <1>6 DEF Range
    <3> QED
      BY <1>10, <3>2, <3>3
  <2>1. /\ \A x, y \in present_values : x <= y => g[x] <= g[y]
        /\ present_values \cap Huge = {} /\ Cardinality(present_values) > 1 =>
             \E x, y \in present_values : g[x] # g[y]
    BY <1>1, <2>a, <2>b DEF Rescales
  <2>2. \A p, q \in {r \in DOMAIN data : data[r] # Missing} :
          data[p] <= data[q] => data'[p] <= data'[q]
    BY <1>4, <1>8, <2>1
  <2>3. ASSUME present_values \cap Huge = {}, Cardinality(present_values) > 1
        PROVE  Cardinality(Range(data') \ {Missing}) > 1
    <3>1. PICK x, y \in present_values : g[x] # g[y]
      BY <2>1, <2>3
    <3>2. PICK p \in 1..n : data[p] = x /\ x \in f64
      BY <1>4
    <3>3. PICK q \in 1..n : data[q] = y /\ y \in f64
      BY <1>4
    <3>4. /\ data'[p] = g[x] /\ data'[p] # Missing
          /\ data'[q] = g[y] /\ data'[q] # Missing
      BY <1>5, <1>8, <3>2, <3>3
    <3>5. g[x] \in Range(data') \ {Missing} /\ g[y] \in Range(data') \ {Missing}
      BY <1>6, <3>4 DEF Range
    <3>6. IsFiniteSet(Range(data') \ {Missing})
      <4>1. IsFiniteSet(Range(data'))
        BY <1>2, FiniteRange
      <4>2. Range(data') \ {Missing} \in SUBSET Range(data')
        OBVIOUS
      <4> QED
        BY <4>1, <4>2, FS_Subset
    <3> QED
      BY <3>1, <3>5, <3>6, TwoElements
  <2> QED
    BY <2>2, <2>3
<1>11. DOMAIN data' = DOMAIN data
  BY <1>4, <1>6
<1>12. \A p \in DOMAIN data : data'[p] = Missing <=> data[p] = Missing
  BY <1>4, <1>8, <1>9
<1> QED
  BY <1>10, <1>11, <1>12, Zenon DEF KeepsOrder

\* A scaling that makes finite numbers of finite ones leaves the gaps and the
\* order, and does not make all of them equal if they differ and none is huge.
THEOREM ScalingsKeepOrder == Spec => ScalingKeepsOrder
<1>1. ASSUME TypeOK, Next PROVE KeepsOrder
  <2>1. PICK n \in Nat :
          /\ data \in CellsOf(n)
          /\ \/ Failed \/ Updated(n) \/ Removed(n) \/ Filled(n)
             \/ CarriedOver(n) \/ Scaled(n) \/ BehaviorStep
    BY <1>1, StepOutcome
  <2>2. CASE Scaled(n)
    BY <2>1, <2>2, ScaledInOrder
  <2>3. CASE ~(call'.op \in Scalings /\ call'.result = "Ok")
    BY <2>3 DEF KeepsOrder
  <2>4. ASSUME Failed \/ Updated(n) \/ Removed(n) \/ Filled(n) \/ CarriedOver(n)
                 \/ BehaviorStep
        PROVE  ~(call'.op \in Scalings /\ call'.result = "Ok")
    BY <2>4, BehaviorStepOutcome
       DEF Failed, Updated, Removed, Filled, CarriedOver, Scalings
  <2> QED
    BY <2>1, <2>2, <2>3, <2>4
<1>2. TypeOK /\ [Next]_vars => [KeepsOrder]_vars
  BY <1>1
<1> QED
  BY <1>2, TypeCorrectness, PTL DEF Spec, ScalingKeepsOrder
=============================================================================
