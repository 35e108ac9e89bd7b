------------------------------- MODULE Column -------------------------------
(***************************************************************************)
(* One Column<f64>: the methods of src/src/models/column.rs that change its *)
(* cells or its behaviors, the fills of column/fill.rs and the scalings of  *)
(* column/scale.rs, called in any order by the owner of the column.         *)
(*                                                                          *)
(* Vec indices count from 0 in the arguments, as in the code, and from 1 in *)
(* TLA+; At(i) is the place of index i.  A cell holds a number or Missing;  *)
(* a number is finite, or NaN or an infinity, which a CSV cell may spell    *)
(* out.  The finite ones are Values: 0 is 0.0, and each other stands for    *)
(* some number in that place of the order.  Where the place does not tell   *)
(* whether a result is rounded, overflows or underflows, it may do any.     *)
(***************************************************************************)
EXTENDS Integers, SequencesExt

CONSTANTS Values,      \* the finite numbers in the cells
          Huge,        \* those so large that a sum or a square may overflow
          Tiny,        \* those so small that the square of a difference may vanish
          One,         \* the one that 1.0 falls on
          NaN, Inf, NegInf,  \* the other numbers
          Missing,     \* None
          Given,       \* the cells in arguments
          Behaviors,   \* names under which closures are registered
          Closures,    \* closures
          MaxLen,      \* bound on the cells of the column
          MaxUpdates,  \* bound on the pairs in an argument of update_element
          MaxRemovals  \* bound on the indices in an argument of remove_element

ASSUME ColumnAssumption ==
  /\ Values \subseteq Int /\ 0..One \subseteq Values /\ One \in Nat \ {0}
  /\ Huge \subseteq Values \ {0} /\ Tiny \subseteq Values \ Huge
  /\ NaN \notin Values \cup {Inf, NegInf, Missing}
  /\ Inf \notin Values \cup {NegInf, Missing} /\ NegInf \notin Values \cup {Missing}
  /\ Missing \notin Values
  /\ Given \subseteq Values \cup {NaN, Inf, NegInf, Missing}
  /\ MaxLen \in Nat /\ MaxUpdates \in Nat /\ MaxRemovals \in Nat

VARIABLES data,       \* Column.data
          behaviors,  \* Column.behaviors
          call        \* the last method with its argument and what it returned

vars == <<data, behaviors, call>>

f64 == Values \cup {NaN, Inf, NegInf}
Cell == f64 \cup {Missing}
Indices == 0 .. MaxLen
Updates == BoundedSeq(Indices \X Given, MaxUpdates)
Removals == BoundedSeq(Indices, MaxRemovals)

Fills == {"fill_with", "forward_fill", "backward_fill", "fill_mean"}
Scalings == {"min_max_scale", "z_score_standardization"}

\* What the methods return; a name or a parse is no matter here.
Results ==
  {"Ok", "IndexOutOfBounds", "DuplicatedIndices", "AllMissingElements",
   "FilledElementsEqual", "BehaviorAlreadyRegistered", "BehaviorNotFound"}

At(i) == i + 1
IndexOf(u) == u[1]
IndicesOf(us) == [k \in DOMAIN us |-> IndexOf(us[k])]

\* new_from_parsed or new_from_raw has made a column of any cells.
Init ==
  /\ data \in BoundedSeq(Cell, MaxLen)
  /\ behaviors = [b \in {} |-> NaN]
  /\ call = [op |-> "new", arg |-> <<>>, result |-> "Ok"]

Returned(op, arg, result) ==
  call' = [op |-> op, arg |-> arg, result |-> result]

\* The checks of update_element and remove_element.
check_len_limit(is) == \A k \in DOMAIN is : is[k] < Len(data)
check_duplicate_indices(is) == IsInjective(is)

present_values == Range(data) \cap f64

\* The number of cells in S.
HowMany(S) == Cardinality({p \in DOMAIN data : data[p] \in S})

-----------------------------------------------------------------------------
(* update_element, which the fills call too.                                 *)

Write(cells, u) == [cells EXCEPT ![At(IndexOf(u))] = u[2]]

\* The cells after the loop.
Written(us) ==
  LET cells[k \in 0 .. Len(us)] ==
        IF k = 0 THEN data ELSE Write(cells[k - 1], us[k])
  IN cells[Len(us)]

\* Mutant: every pair is written as soon as it has been checked.
UpdatesWhileChecking(op, arg, us) ==
  LET within == SelectSeq(us, LAMBDA u : IndexOf(u) < Len(data)) IN
  /\ data' = Written(within)
  /\ Returned(op, arg, IF Len(within) = Len(us) THEN "Ok"
                                                ELSE "IndexOutOfBounds")

\* Mutant: repeated indices are not looked for.
UpdatesRepeatedly(op, arg, us) ==
  IF check_len_limit(IndicesOf(us))
    THEN data' = Written(us) /\ Returned(op, arg, "Ok")
    ELSE UNCHANGED data /\ Returned(op, arg, "IndexOutOfBounds")

\* What update_element(us) does when method op calls it.
UpdatesElements(op, arg, us) ==
  \/ /\ ~check_len_limit(IndicesOf(us))
     /\ Returned(op, arg, "IndexOutOfBounds")
     /\ UNCHANGED data
  \/ /\ check_len_limit(IndicesOf(us))
     /\ ~check_duplicate_indices(IndicesOf(us))
     /\ Returned(op, arg, "DuplicatedIndices")
     /\ UNCHANGED data
  \/ /\ check_len_limit(IndicesOf(us))
     /\ check_duplicate_indices(IndicesOf(us))
     /\ data' = Written(us)
     /\ Returned(op, arg, "Ok")

update_element(us) == UpdatesElements("update_element", us, us)

-----------------------------------------------------------------------------
(* remove_element: retain walks the cells with one cursor in the cells and   *)
(* one in the indices.                                                       *)

Retain(st, cell, is) ==
  IF st.remove_idx < Len(is) /\ is[At(st.remove_idx)] = st.i
    THEN [st EXCEPT !.remove_idx = @ + 1, !.i = @ + 1]
    ELSE [st EXCEPT !.kept = Append(@, cell), !.i = @ + 1]

Retained(is) ==
  LET st[p \in 0 .. Len(data)] ==
        IF p = 0 THEN [kept |-> <<>>, remove_idx |-> 0, i |-> 0]
                 ELSE Retain(st[p - 1], data[p], is)
  IN st[Len(data)].kept

\* sort_unstable(), of indices that are known to differ.
Sorted(is) ==
  CHOOSE s \in SetToSeqs(Range(is)) : \A j, k \in DOMAIN s : j < k => s[j] < s[k]

\* Mutant: the indices are not sorted.
remove_element_unsorted(is) ==
  /\ check_duplicate_indices(is)
  /\ check_len_limit(is)
  /\ data' = Retained(is)
  /\ Returned("remove_element", is, "Ok")

remove_element(is) ==
  \/ /\ ~check_duplicate_indices(is)
     /\ Returned("remove_element", is, "DuplicatedIndices")
     /\ UNCHANGED data
  \/ /\ check_duplicate_indices(is)
     /\ ~check_len_limit(is)
     /\ Returned("remove_element", is, "IndexOutOfBounds")
     /\ UNCHANGED data
  \/ /\ check_duplicate_indices(is)
     /\ check_len_limit(is)
     /\ data' = Retained(Sorted(is))
     /\ Returned("remove_element", is, "Ok")

-----------------------------------------------------------------------------
(* The fills.                                                                *)

\* iter().enumerate(): the cells with their indices.
enumerate(cells) == [p \in DOMAIN cells |-> <<p - 1, cells[p]>>]

\* Those of the column that are among the cells wanted, in their order.
Enumerated(wanted) ==
  LET found[p \in 0 .. Len(data)] ==
        IF p = 0 THEN <<>>
        ELSE IF data[p] \in wanted THEN Append(found[p - 1], enumerate(data)[p])
        ELSE found[p - 1]
  IN found[Len(data)]

\* Mutant: filter before enumerate, which counts the missing cells only.
missing_indices_renumbered == IndicesOf(enumerate(Enumerated({Missing})))

missing_indices == IndicesOf(Enumerated({Missing}))

FillsWith(op, arg, value) ==
  UpdatesElements(op, arg,
    [k \in DOMAIN missing_indices |-> <<missing_indices[k], value>>])

fill_with(value) == FillsWith("fill_with", <<value>>, value)

\* The body of both loops: cell e[2] with index e[1].
Carry(st, e) ==
  IF e[2] # Missing
    THEN [st EXCEPT !.last_valid = e[2]]
    ELSE IF st.last_valid # Missing
      THEN [st EXCEPT !.updates = Append(@, <<IndexOf(e), st.last_valid>>)]
      ELSE st

NothingCarried == [last_valid |-> Missing, updates |-> <<>>]

\* The updates that a loop over the cells es collects.
Carried(es) ==
  LET st[k \in 0 .. Len(es)] ==
        IF k = 0 THEN NothingCarried ELSE Carry(st[k - 1], es[k])
  IN st[Len(es)].updates

forward_fill == UpdatesElements("forward_fill", <<>>, Carried(enumerate(data)))

\* Mutant: rev before enumerate, which counts from the end.
backward_fill_renumbered ==
  UpdatesElements("backward_fill", <<>>, Carried(enumerate(Reverse(data))))

backward_fill ==
  UpdatesElements("backward_fill", <<>>, Carried(Reverse(enumerate(data))))

\* The infinities that the running sum of the finite cells may overflow to.
Overflows ==
  {i \in {Inf, NegInf} :
     HowMany({h \in Huge : IF i = Inf THEN h > 0 ELSE h < 0}) >= 2}

\* Where x may end up by rounding, when it is the mean of three cells or more:
\* at most in the next place on its side of 0.
Rounded(x) ==
  IF HowMany(f64) >= 3 /\ x # 0 THEN (x - 1 .. x + 1) \ {0} ELSE {x}

\* What the sum of the present values over their number may be; 0.0 / 0.0 is NaN.
Means ==
  LET infinite == present_values \cap {Inf, NegInf}
  IN IF NaN \in present_values \/ present_values = {} \/ infinite = {Inf, NegInf}
       THEN {NaN}
     ELSE IF infinite # {}
       THEN infinite \cup (IF Overflows \subseteq infinite THEN {} ELSE {NaN})
     ELSE Overflows \cup
          {m \in Values : \E x, y \in present_values :
                          \E l \in Rounded(x), h \in Rounded(y) : l <= m /\ m <= h}

\* Mutant: no guard against a column without a number.
fill_mean_unguarded == \E m \in Means : FillsWith("fill_mean", <<>>, m)

fill_mean ==
  \/ /\ present_values = {}
     /\ Returned("fill_mean", <<>>, "AllMissingElements")
     /\ UNCHANGED data
  \/ /\ present_values # {}
     /\ \E m \in Means : FillsWith("fill_mean", <<>>, m)

-----------------------------------------------------------------------------
(* The scalings.                                                             *)

\* Mutant: present_values().enumerate() numbers the present cells only.
ScaledInPlaces(op, g) ==
  LET present == Enumerated(f64)
  IN UpdatesElements(op, <<>>, [k \in DOMAIN present |-> <<k - 1, g[present[k][2]]>>])

\* Both loops: every present cell x gets the value g[x], missing ones nothing.
ScaledBy(op, g) ==
  LET present == Enumerated(f64)
  IN UpdatesElements(op, <<>>,
       [k \in DOMAIN present |-> <<IndexOf(present[k]), g[present[k][2]]>>])

Refused(op, error) ==
  Returned(op, <<>>, error) /\ UNCHANGED data

\* Mutant: the difference is not divided by the range.
RescaledUndivided(x, min, max, far) ==
  IF x \notin Values \/ min \notin Values THEN NaN ELSE x - min

\* (x - min) / (max - min), where x - min overflows for the x in far; a finite
\* quotient is cut to a multiple of 1 / One.
Rescaled(x, min, max, far) ==
  IF x \notin Values \ far \/ min \notin Values THEN NaN
  ELSE IF max \notin Values \ far THEN 0
  ELSE IF max = min THEN NaN
  ELSE ((x - min) * One) \div (max - min)

\* The fold from Inf and NegInf with f64::min and max, which pass over NaN.
Smallest ==
  IF NegInf \in present_values THEN NegInf
  ELSE IF present_values \cap Values = {} THEN Inf
  ELSE Min(present_values \cap Values)

Largest ==
  IF Inf \in present_values THEN Inf
  ELSE IF present_values \cap Values = {} THEN NegInf
  ELSE Max(present_values \cap Values)

\* The sets of present values that may be too far from the smallest one for
\* their difference to be finite: the largest ones, if both are huge.
Farthest ==
  {far \in SUBSET {x \in present_values \cap Huge :
                     Smallest \in Huge /\ Smallest < 0 /\ 0 < x} :
     \A x \in far, y \in present_values \cap Values : x <= y => y \in far}

\* Mutant: the guard against a zero spread is missing.
min_max_scale_unguarded ==
  /\ present_values # {}
  /\ \E far \in Farthest :
       ScaledBy("min_max_scale",
         [x \in present_values |-> Rescaled(x, Smallest, Largest, far)])

min_max_scale ==
  \/ present_values = {} /\ Refused("min_max_scale", "AllMissingElements")
  \/ /\ present_values # {} /\ Smallest = Largest
     /\ Refused("min_max_scale", "FilledElementsEqual")
  \/ /\ present_values # {} /\ Smallest # Largest
     /\ \E far \in Farthest :
          ScaledBy("min_max_scale",
            [x \in present_values |-> Rescaled(x, Smallest, Largest, far)])

\* Three or more equal numbers other than 0 may have a mean that is not that
\* number, by rounding: (0.1 + 0.1 + 0.1) / 3.
MeanMayMiss == present_values \subseteq Values \ {0} /\ HowMany(f64) >= 3

AllEqual == Cardinality(present_values) = 1 /\ present_values \subseteq Values

\* May some deviation from the mean be other than 0?
Spread == present_values \subseteq Values /\ (AllEqual => MeanMayMiss)

\* What the sum of the squared deviations may be: zero, also when every square
\* underflows; faint, so that its part for one cell is 0.0; finite; infinite,
\* also when the mean is; or NaN.
SquaresSum(kind) ==
  LET fade == present_values \subseteq Tiny \cup {0}
  IN \/ kind = "zero" /\ (AllEqual \/ fade)
     \/ kind = "faint" /\ Spread /\ fade
     \/ kind = "finite" /\ Spread
     \/ /\ kind = "infinite" /\ present_values \subseteq Values
        /\ Overflows # {} \/ (Spread /\ present_values \cap Huge # {})
     \/ kind = "NaN" /\ ~(present_values \subseteq Values)

\* One deviation apart: equal values that miss their mean are all on one side.
\* Of other scores only the order is kept, and that the extremes differ.
FiniteScores ==
  IF AllEqual THEN {[x \in present_values |-> z] : z \in {One, -One} \cap Values}
  ELSE {g \in [present_values -> Values] :
          /\ \A x, y \in present_values : x < y => g[x] <= g[y]
          /\ g[Min(present_values)] < g[Max(present_values)]}

\* Over a deviation of 0.0: an infinity on each side of the mean, NaN on it.
FaintScores ==
  {g \in [present_values -> {NaN, Inf, NegInf}] :
     /\ \A x, y \in present_values : x < y => g[x] = NegInf \/ g[y] = Inf
     /\ \E x \in present_values : g[x] # NaN}

\* Over an infinite one: 0.0, or NaN where x - mean is infinite too, which it is
\* everywhere if the mean is.
InfiniteScores ==
  {g \in [present_values -> {NaN, 0}] :
     \/ Overflows # {} /\ \A x \in present_values : g[x] = NaN
     \/ Spread /\ \A x \in present_values :
          g[x] = NaN => \E y \in present_values : {x, y} \subseteq Huge /\ x * y < 0}

\* (x - mean) / standard_deviation for every present x.
ZScores(kind) ==
  CASE kind = "finite" -> FiniteScores
    [] kind = "faint" -> FaintScores
    [] kind = "infinite" -> InfiniteScores
    [] OTHER -> {[x \in present_values |-> NaN]}

z_score_standardization ==
  \/ /\ present_values = {}
     /\ Refused("z_score_standardization", "AllMissingElements")
  \/ /\ present_values # {} /\ SquaresSum("zero")
     /\ Refused("z_score_standardization", "FilledElementsEqual")
  \/ /\ present_values # {}
     /\ \E kind \in {"faint", "finite", "infinite", "NaN"} :
          /\ SquaresSum(kind)
          /\ \E g \in ZScores(kind) : ScaledBy("z_score_standardization", g)

-----------------------------------------------------------------------------
(* The behaviors: closures by name, run on the cells when they are called.   *)

Registers(op, b, f, error) ==
  /\ IF error = "Ok"
       THEN behaviors' = [n \in DOMAIN behaviors \cup {b} |->
                            IF n = b THEN f ELSE behaviors[n]]
       ELSE UNCHANGED behaviors
  /\ Returned(op, <<b>>, error)
  /\ UNCHANGED data

register_behavior(b, f) ==
  Registers("register_behavior", b, f,
    IF b \in DOMAIN behaviors THEN "BehaviorAlreadyRegistered" ELSE "Ok")

update_behavior(b, f) ==
  Registers("update_behavior", b, f,
    IF b \in DOMAIN behaviors THEN "Ok" ELSE "BehaviorNotFound")

remove_behavior(b) ==
  /\ behaviors' = Restrict(behaviors, DOMAIN behaviors \ {b})
  /\ Returned("remove_behavior", <<b>>,
       IF b \in DOMAIN behaviors THEN "Ok" ELSE "BehaviorNotFound")
  /\ UNCHANGED data

\* Any Some(result) is Ok; the closure gets the cells by shared reference.
call_behavior(b) ==
  /\ b \in DOMAIN behaviors
  /\ Returned("call_behavior", <<b>>, "Ok")
  /\ UNCHANGED <<data, behaviors>>

CellStep ==
  \/ \E us \in Updates : update_element(us)
  \/ \E is \in Removals : remove_element(is)
  \/ \E value \in f64 \cap Given : fill_with(value)
  \/ forward_fill \/ backward_fill \/ fill_mean
  \/ min_max_scale \/ z_score_standardization

BehaviorStep ==
  \E b \in Behaviors :
    \/ \E f \in Closures : register_behavior(b, f) \/ update_behavior(b, f)
    \/ remove_behavior(b) \/ call_behavior(b)

Next == (CellStep /\ UNCHANGED behaviors) \/ BehaviorStep

Spec == Init /\ [][Next]_vars
-----------------------------------------------------------------------------
(* Properties.                                                               *)

\* The cells are numbers or missing, the column never grows, and a method
\* returns Ok or one of its errors.
TypeOK ==
  /\ data \in Seq(Cell) /\ Len(data) <= MaxLen
  /\ DOMAIN behaviors \subseteq Behaviors /\ Range(behaviors) \subseteq Closures
  /\ call.result \in Results

\* column.rs:131: "if any index is out of bounds or repeated, no changes are
\* applied at all"; nor by a fill or a scaling that returns an error, although
\* it calls update_element on the way; nor to a behavior by a failed call.
FailuresChangeNothing ==
  [][call'.result # "Ok" => UNCHANGED <<data, behaviors>>]_vars

\* update_element succeeds only if its argument maps each index to one value,
\* and then exactly these cells change, whatever the order of the pairs.
WritesAFunction ==
  call'.op = "update_element" /\ call'.result = "Ok" =>
    LET updates == Range(call'.arg)
        ValuesFor(p) == {u[2] : u \in {v \in updates : At(IndexOf(v)) = p}}
    IN /\ DOMAIN data' = DOMAIN data
       /\ \A p \in DOMAIN data :
             IF ValuesFor(p) = {} THEN data'[p] = data[p]
                                  ELSE ValuesFor(p) = {data'[p]}

UpdateIsAFunction == [][WritesAFunction]_vars

\* remove_element takes out the cells it was asked to, in any order of the
\* indices, and leaves the others in theirs: a column out of step by one cell
\* is misaligned with the rest of its table.
ClosesUp ==
  call'.op = "remove_element" /\ call'.result = "Ok" =>
    LET Gone == {At(i) : i \in Range(call'.arg)}
        Place(p) == p - Cardinality({q \in Gone : q < p})
    IN /\ Len(data') = Len(data) - Len(call'.arg)
       /\ \A p \in DOMAIN data \ Gone : data'[Place(p)] = data[p]

RemovesExactly == [][ClosesUp]_vars

\* fill.rs: a fill touches missing cells only and keeps the length, so that the
\* column still matches its table.
KeepsPresent ==
  call'.op \in Fills =>
    /\ DOMAIN data' = DOMAIN data
    /\ \A p \in DOMAIN data : data[p] # Missing => data'[p] = data[p]

FillsKeepPresent == [][KeepsPresent]_vars

\* fill.rs:33 and :61: a missing cell gets "the nearest preceding", or following,
\* "non-missing value", as it was before the call; a leading, or trailing, gap
\* is left, also by the loop that runs from the end.
CarriesNearest ==
  \A p \in DOMAIN data :
    LET Before == {q \in 1 .. p : data[q] # Missing}
        After == {q \in p .. Len(data) : data[q] # Missing}
    IN /\ call'.op = "forward_fill" =>
            data'[p] = IF Before = {} THEN Missing ELSE data[Max(Before)]
       /\ call'.op = "backward_fill" =>
            data'[p] = IF After = {} THEN Missing ELSE data[Min(After)]

FillsCarryNearest == [][CarriesNearest]_vars

\* The numbers whose sums and squares are in the range of f64.
Plain == Values \ (Huge \cup Tiny)

\* The guards at fill.rs:101 and scale.rs:17, :27, :60 and :70: where nothing can
\* overflow or underflow, only a zero divisor could bring NaN or an infinity into
\* a column, and no column without numbers or with equal ones gets to divide by it.
GuardsDivisions ==
  LET Brought == IF call'.op = "fill_with" THEN Range(call'.arg)
                 ELSE IF call'.op = "update_element"
                   THEN {u[2] : u \in Range(call'.arg)} ELSE {}
  IN Range(data) \cup Brought \subseteq Plain \cup {Missing} =>
       Range(data') \subseteq Values \cup {Missing}

DivisionsGuarded == [][GuardsDivisions]_vars

\* scale.rs: "Missing elements are left as None", and finite numbers that are
\* scaled to finite numbers stay where they were, in the same order, and with the
\* smallest and the largest still apart unless some of them are huge.
KeepsOrder ==
  call'.op \in Scalings /\ call'.result = "Ok" =>
    /\ DOMAIN data' = DOMAIN data
    /\ \A p \in DOMAIN data : data'[p] = Missing <=> data[p] = Missing
    /\ Range(data) \cup Range(data') \subseteq Values \cup {Missing} =>
         LET Present == {p \in DOMAIN data : data[p] # Missing}
         IN /\ \A p, q \in Present : data[p] <= data[q] => data'[p] <= data'[q]
            /\ present_values \cap Huge = {} /\ Cardinality(present_values) > 1 =>
                 Cardinality(Range(data') \ {Missing}) > 1

ScalingKeepsOrder == [][KeepsOrder]_vars

\* scale.rs:55: z_score_standardization "returns [...] FilledElementsEqual if all
\* present values are equal (standard deviation would be 0)".
EqualValuesRefused ==
  [][call'.op = "z_score_standardization" /\ AllEqual =>
       call'.result = "FilledElementsEqual"]_vars
=============================================================================
