# A TLA+ model of wisdom

wisdom is a Rust library: an in-memory, CSV-backed table whose columns are
checked out, edited and checked back in; a feature store that keeps versions of
columns and pins them in snapshots; and a small machine-learning layer that
trains on a table, saves the model next to the id of its snapshot and runs
inference later. This directory holds TLA+ modules translated from the code, TLC
configurations that check them on small instances, and TLAPS proofs of the
results that should hold for every instance. `PROJECT.json` lists runs,
theorems, the lines each definition stands for, hazards and findings.

    tlc -config Table_checkout.cfg MCTable   # one run
    tlapm TableProofs.tla                    # one module of proofs

## The system

| Part | Source (under `src/src/`) | State | Operations | Model |
|---|---|---|---|---|
| Table checkout protocol | `models/table.rs` | `data` (name to column), `checkouts` (name to Available/CheckedOut) | `from_csv`, `get_column`, `update_column`, `add_column`, `remove_column` | `TableData`, `Table` |
| Column values | `models/column.rs` | a Vec of optional cells, a name | `new_from_parsed`, `new_from_raw`, `update_name`, `update_element`, `remove_element` | `Column` cell by cell; `Table` from the table's side |
| Column behaviors | `models/column.rs` | name to closure | register, update, remove, call | `Column` |
| Missing-value fills | `models/column/fill.rs` | the column's cells | `fill_with`, `forward_fill`, `backward_fill`, `fill_mean` | `Column` |
| Scaling | `models/column/scale.rs` | the column's cells | `min_max_scale`, `z_score_standardization` | `Column` |
| Train/test split | `models/table/split.rs` | two new tables | `train_test_split` | `CellData`, `Dataset` |
| Tensor assembly | `models/table/tensor.rs` | none | `to_tensor`, `to_feature_tensor` | `Tensors` in `Dataset` and `Pipeline` |
| Feature versions | `feature_store.rs` | `versions` (name to Vec of versions), `max_versions` | `new`, `commit`, `get_version`, `get_latest_version` | `FeatureStore`, `RetainedHistory` |
| Snapshots | `feature_store/snapshot.rs` | `snapshots` (digest to list of versions) | `create_snapshot`, `get_snapshot`, `reconstruct_table` | `FeatureStore`, `Pipeline` |
| Drift detection | `feature_store/drift.rs` | none | `detect_drift` | `Drift` in `Pipeline` |
| Model artifacts | `ml/training/artifact.rs` | two files per (snapshot, label) | `new`, `save`, `load` | `ArtifactStore`; `Pipeline` for many pairs |
| Training | `ml/training/linear_reg.rs` | weights | `train_linear_regression` | what it records, in `Pipeline` |
| Inference | `ml/inference.rs` | none | `run_inference_from_snapshot`, `run_inference_from_values` | `Pipeline` |

How the parts meet. The owner of a checked-out column edits it with the methods
of `Column`, then moves it back with `update_column`, hands it to
`FeatureStore::commit`, or drops it. A table is split by rows and turned into
tensors. A snapshot pins committed versions by name and number, without their
data; `reconstruct_table` looks them up again and rebuilds a `Table` through
`add_column`, so the table's length check decides whether a snapshot can be
rebuilt. The caller adds a target to the rebuilt table and trains; the model is
saved under the snapshot's id, in a pair of files that another process may read
at any time. Inference rebuilds the snapshot's table, or takes live values by
name, and feeds them to the loaded model in the order the snapshot recorded.

What is hard. The library is synchronous and every method that changes something
takes `&mut self`, so there are no data races; but checked-out columns outlive
the calls, and the calls of several holders interleave in any order (`Table`).
Methods fail half-way and have to leave the state as it was, or consume their
argument (`Table`, `Column`). Positions, numbers and lengths stand in for each
other: a version's number for its place in a pruned Vec, a row count of 0 for
the absence of columns, indices counted over all cells or over the present ones,
one flat Vec for a matrix. Floating-point guards compare with 0 what rounding
has moved away from it (`Column`, `Drift`). Snapshots refer to data that later
commits prune, and models refer to snapshots (`Pipeline`). And `save` writes two
files in sequence while crashes, repeated saves and concurrent loads get in
between (`ArtifactStore`).

What makes each part correct:

- Table: the two maps agree, a column has one holder, all columns have the same
  length and keep it; no path of calls loses or duplicates a column.
- Feature versions: pruning forgets what it should and nothing else; a number
  never changes its meaning. Snapshots: rebuilt as pinned or not at all; an id
  stands for one list.
- Artifacts: what `load` returns belongs together, whatever happened to earlier
  saves.
- Columns: a call changes the cells it names, or nothing when it fails; a fill
  never overwrites a value, a scaling keeps order and gaps, and neither divides
  by zero.
- Split: the halves partition the rows and stay aligned across columns, and no
  column is dropped. Tensors: each cell lands in its row and column, or the call
  is refused.
- Inference: the model sees the rows it was trained on, features in the same
  places, whatever was committed since; live values are treated as the batch is.
- Drift: measured from the version that was named, gaps not counted as 0.

## Modules and code

`TableData` holds what all tables and stores share: the kinds of `ColumnData`,
the HashMap operations, `row_count` and the length check. The cells of a column
are one value of `Cells`, with the set of types they parse into; its length is a
number. `row_count` is a *set* of results, because the code reads whichever column
the HashMap yields first.

`Table` has one action per method and one for each thing an owner does with its
column. `Callers` are the places in a program that can own a column; `held` is
what they own, and `origin`, a history variable, the name it was checked out
under. `get_column` contains both its exits: the column is taken out of `data`
first and put back when the conversion fails. `update_column` and `add_column`
take the column by value, so it is gone also when they fail. Calls that are
refused before they touch anything are stuttering steps. A CSV file that cannot
be read produces no table and is left out; `HeaderRows` also contains the row
without headers, which is `Table::default`.

`Column` holds the cells of one `Column<f64>` and its behaviors.
`UpdatesElements` is `update_element` with its two checks in their order and its
loop; the fills and scalings call it with the updates their own loops collect,
as in the code. Each loop is a recursive function of the turns made: `Written`,
`Carried`, `Enumerated` (an `enumerate().filter_map()`), and `Retained` for
`retain`, with its cursor in the indices that `Sorted` has put in order. `call`
records the last call and its result. Indices count from 0 as in the code. A
cell is missing, a finite number, NaN or infinity (a CSV cell may spell the last
two). The finite numbers are integers that stand for some numbers in that order:
0 is 0.0, and of sums, means and quotients the model keeps where they lie, not
their digits. So `fill_mean` writes any value between the smallest and the
largest, `min_max_scale` a quotient cut to a multiple of 1/`One`, and
`z_score_standardization` any scores in the order of the values. Where the order
does not decide, every outcome of f64 is possible: the mean of three equal
numbers need not be that number (`Rounded`, `MeanMayMiss`); with two `Huge`
numbers of one sign a sum may be an infinity (`Overflows`); the difference of
two of both signs may be one, which makes `min_max_scale` write 0 and NaN
(`Farthest`); a squared deviation may be an infinity next to a huge number and
vanish among `Tiny` ones (`SquaresSum`), so that scores become 0, NaN or
infinite, or unequal numbers are refused as equal. The guard of
`z_score_standardization` is against a `squares_sum` of 0.0, its divisor is the
root of `squares_sum / filled_count`, which may be 0.0 without it
(`FaintScores`). Behaviors are a map of opaque closures.

`CellData` refines `TableData`: a column's cells are a sequence of numbers and
gaps, with `get`, `present_values`, `select_rows` and the cast to f32, under
which two numbers may become one. `Tensors` has both tensor functions with their
checks in order, the loop that pushes cells row by row and the shape that cuts
the flat Vec. `Dataset` is a table of any state, some of its columns out, that is
split: `shuffle` yields every permutation, since the code's generator may give
any of them for some seed; a ratio is a pair of integers, whose product with the
rows is cut down by the cast, one lower where f64 may have rounded it below an
integer. A split point above the number of rows panics; with a ratio a little
above 1 the rounding may just avoid it.

`FeatureStore` keeps `versions` as the code does, a sequence per name that is
pruned by position, with `max_version` recomputed from it at every commit.
`history`, a history variable, has every column committed. `create_snapshot`
walks its list and stops at the first pair that fails either check (the doc
comment, snapshot.rs:95, has the check for repeated names before the lookups;
what is accepted is the same, only the error differs). `reconstruct_table` is a
recursive function that yields the set of tables the code could build. The id of
a snapshot is the byte string the code hashes: SHA-256 is taken to be free of
collisions, the bytes are not taken to be unambiguous. Names are their UTF-8
bytes, and a u64 has `IntBytes` bytes.

`RetainedHistory` is the abstract specification of the versions: a log per
feature of which the first and the most recent ones can be looked up.
`ImplementsHistory` says that `FeatureStore`, under the mapping given at its end,
implements it.

`Drift` is `detect_drift` on the versions of a `FeatureStore`. Its numbers are
integers, so the score is compared with the threshold by cross-multiplication,
without roots or quotients; where the mean of equal values may be rounded
(`DeviationMayMiss`) the answer of either formula is possible.

`Pipeline` composes `FeatureStore`, `Drift`, `Tensors` and the artifacts: commits
and snapshots go on (`StoreStep`) while a caller rebuilds a table, adds a target,
trains and saves, each an action of its own, so that a commit may fall between
any two of them. A model is the shape candle builds it with, and `features` and
`x`, history fields, say what it was trained on; a prediction is represented by
the input rows it is made from. Both inference calls are operators on the state:
they change nothing, and the properties quantify over them in every state, which
is every time they might be made.

`ArtifactStore` looks into one (snapshot, label) pair of files. Opening a file
for writing truncates it (`Partial`), the write completes it; a save is four such
steps, after each of which `fail_save`, a crash or an error return, may end it. A
load is three steps, and its steps interleave with those of a save. Two saves
of one pair do not overlap; the code has no locking, so this is an assumption
about its callers. `VarMap::save` and `VarMap::load` belong to candle; the
model takes from `artifact.rs` that the first creates and writes a file and the
second refuses a file that is cut off or whose tensors have other shapes.

## Runs

| Run | Shows |
|---|---|
| `table_checkout` | Two callers, two names and a header that is no valid name, two types, lengths 1 and 2: the maps stay in step (`StoredIffAvailable`) through every failure, a checkout has one holder and is not in the table (`OneHolder`, `HeldIsOut`), ownership moves only along the protocol (`OwnershipMoves`), all columns stay equally long (`Rectangular`) and the row count does not change while a column is inside (`RowCountStable`). Callers do not write under a name someone else holds (`CarefulCalls`). |
| `column` | Every column of up to four cells, NaN, infinities, huge and tiny numbers among them, under every call, with up to two updates or three indices to remove: failures change nothing, updates and removals do exactly what they are asked to, fills keep present values and take the nearest value, scalings keep gaps and order, and among numbers whose sums and squares stay in range no call divides by zero (`DivisionsGuarded`). |
| `feature_store` | Two features, `max_versions` 3, six commits each and two snapshots in every order: the window of versions, lookups against the full history, numbers and snapshot ids that keep their meaning, also under another label, rebuilt tables, a reason for each table that cannot be rebuilt (`RebuildOutcomes`), and the refinement of `RetainedHistory`. |
| `artifact` | Three saves, crashing anywhere, and two loaders: in the first save the order of the writes protects readers (`FirstSavePairs`, `FirstSaveLoads`); a save that returns Ok makes up for any number of failed ones (`LastSaveIsLoadable`), and loads outside saves then succeed with one model's files (`QuietLoadsSucceed`). |
| `dataset` | Tables of four rows and of none, with gaps, text, columns that are out, under every shuffle and five ratios: the halves deal the rows out whole (`HalvesPartition`) in the proportion asked for (`RatioRespected`), no column is lost (`NoColumnDropped`), and the tensors of both halves together hold exactly the examples of the table (`TensorsOfHalves`, `TensorLayout`). |
| `pipeline` | Two features, `max_versions` 2, two snapshots and two artifacts in every order: a model trained on its snapshot's features is run on the very rows it was trained on, or refused because a version was pruned (`ServedAsTrained`); live values are run as the batch is (`LiveMatchesBatch`); drift is measured from the first version and ignores gaps. |

Six runs are expected to find a violation: the code does otherwise than a doc
comment says. `PROJECT.json` quotes the lines.

| Run | The code against its documentation |
|---|---|
| `table_readd` | `add_column` looks a name up in `data`, where a checked-out column is not: checkout, add, checkout gives a name two holders. |
| `table_empty_rows` | A row count of 0 switches the length check off also when there are columns, without rows. `reconstruct_table` inherits this: features without rows and with rows rebuild into one table. |
| `table_repeated_header` | A repeated CSV header gets two cells per record. |
| `column_equal` | `z_score_standardization` should refuse equal values, but compares a rounded sum with 0.0: (0.1 + 0.1 + 0.1) / 3 is not 0.1, and the cells become 1 or -1. |
| `artifact_torn` | A crash while the metadata is written leaves a metadata file of an incomplete pair. |
| `artifact_stale` | A crash in a second save leaves the first one's metadata with other weights. |

These runs give each assumption of the passing ones its reason: `table_readd`
is why `table_checkout` has careful callers, `table_empty_rows` why `RowCounts`
has no 0 in the runs about lengths, `table_repeated_header` why `HeaderRows` is
free of repetition, `column_equal` why `ScalingKeepsOrder` asks for two values
that differ, and `artifact_stale` why `FirstSavePairs` is about the first save.

### Bounds

- `table_checkout`: two callers and two usable names are enough for every
  interference between holders: the properties relate two holders of one name or
  two columns of one table. Two lengths let a column be shortened and returned.
  The state space is finite without further bounds. Symmetry is over `Callers`,
  which no property distinguishes.
- `column`: with four cells and three indices `remove_element` can take the
  first, last, adjacent and separated cells in any order, and a fill can meet gaps
  at both ends and in the middle with different neighbours. Two updates are enough
  to be out of bounds, repeated, or in either order. `Given` limits the cells in
  arguments: what a call is given is copied unread. Of the numbers -2 to 2 the ends
  are huge, so that a sum overflows to either infinity and a range overflows; -1 is
  tiny; 0 and 1 are neither and leave `DivisionsGuarded` columns with equal and
  with different numbers. `column_equal` has the same numbers, none huge or tiny.
  The runs view states by their cells and behaviors: the last call does not bear on
  what follows, and every step is checked together with its call.
- `feature_store`: `MaxVersions = 3` is the smallest value with a window that
  slides behind version 1; `MaxCommits = 6` prunes three times. The snapshot
  requests have versions that are pruned, not yet there and listed twice; two
  snapshots (`MaxSnapshots`) in both orders show whether their ids collide. The
  names are chosen such that one contains the other followed by a number, the
  case in which a digest without separators would collide.
- `dataset`: four rows are the fewest that leave two rows in each half, so that
  order within a half is visible; the ratios are both ends, a half, one whose
  product is no integer and one above 1, which the model, unlike f64, may round
  down to all the rows: it stands for every ratio just above 1. Two integers
  that f32 takes for one are in one column.
- `pipeline`: `MaxVersions = 2` with `MaxCommits = 3` prunes a version that a
  snapshot pins, before and after a model was trained on it. The feature lists have
  both orders of the features, so a model of one order meets the other; two
  artifacts (`MaxArtifacts`) are enough for one to be served under a store that the
  training of the other saw differently.
- `artifact`: `MaxSaves = 3` gives a save after a failed save after a successful
  one; two models share a shape, so that a load cannot tell them apart, and one has
  another. Symmetry is over `Loaders`, which no property distinguishes.
- No run disables the deadlock check.

### Fairness

No specification assumes any, and no liveness is stated. The library has no
threads, retries, locks or waiting: nothing happens unless its caller makes a
call, and each call is straight-line code or a loop over a Vec, which ends by
itself. That a save or a load ends would hold by that shape, and nothing
obliges a caller to make another: a column that is checked out may stay out for
ever.

## Proofs

Each theorem is `Spec => ...` for all values of the constants that satisfy the
named assumptions of its module.

`TableProofs`. `TypeOK` is inductive as stated. `StoredIffAvailable` is
inductive given `TypeOK`: every exit of every method writes both maps or
neither (`MapsInStep`). `ExclusiveCheckout` and `HeldOutside` assume `Careful`,
that both kinds of write are in `CarefulCalls`; `OneHolder` needs `HeldIsOut`
beside it, because a second checkout of a name is only excluded by its being
marked as out. `TableRectangular` and `RowCountKept` assume `PlainInputs` (no
repeated header, no length 0), and need `NoEmptyColumn` beside `Rectangular`: an
empty column inside, or in the hands of a caller, would let another length in.
The runs `table_readd`, `table_empty_rows` and `table_repeated_header` show that
neither assumption can be dropped. `OwnershipKept` (under `Careful`, with
`CallersApart`: no caller is one of the words that `Owner` uses) rests on what a
step may do to one name (`HandedOver`): whoever has it had it before or took it
from the table, and it is out without a holder only if it was out before.

`ColumnProofs` proves every property of the run `column`, for columns of every
length, arguments of every size and any numbers. `TypeOK` is inductive as stated
(`TypeCorrectness`), and the action properties follow from it step by step; the
work is in what the loops leave:

- `WrittenCells`: updates at different indices leave the same cells in whatever
  order they are written. `UpdatesAreFunctions` follows, the indices being
  compared before the first write (`UpdateOutcome`).
- `EnumeratedCells`: the cells collected have their index in the whole column, so
  the updates of `fill_with`, `fill_mean` and both scalings reach these cells and no
  others (`WantedCellsUpdated`).
- `CarriedUpdates`: a carrying loop remembers the last present cell that it has
  met (`LastPresent`) and has collected one update for each gap after the first
  such cell (`FillsGaps`). Run from either end this is the nearest present cell on
  that side (`CarriesAreNearest`), and the indices never repeat, so both fills
  always succeed.
- `RetainedCells`: after p cells, the cursor of `retain` stands at the number of
  indices below p, and each cell kept has moved down by the removed ones before
  it (`Passed`). That needs the indices to ascend, which `SortedIndices` has of the
  sort; `RemovalsAreExact` follows.
- `QuotientsInOrder`, `ColumnExtremes`, `ScoresRescale`: scaled values that are
  finite keep their order, also when some of the column's numbers are huge
  (`ScalingsKeepOrder`). Without huge and tiny numbers nothing overflows or
  vanishes (`NoOverflow`), and then the guards are enough: the divisor is not 0
  and the scaled values are finite (`FiniteScoresRescale`, `DivisorsAreGuarded`).
  This is about the model's numbers: for `min_max_scale` quotients cut to
  multiples of 1/`One`, for `z_score_standardization` the scores `ZScores` allows,
  whose order is assumed.

`FailuresAreClean`: an error of any method leaves cells and behaviors alone. Its
lemma `UpdateFails` is about `update_element` whoever calls it, since both its
checks come before the first write; a failed `remove_behavior` removes nothing
only because the behaviors are a map at all times (`BehaviorsAreMap`).

`FeatureStoreProofs`. The invariant `IInv` is `TypeOK` and, for each feature,
`Window`: the Vec is version 1 followed by the most recent ones without a gap,
each with the column committed under its number. `CommitKeepsWindow` is the
heart: appending the successor of the maximum and removing the second element
keeps a window. From it follow `VersionsRetained`, `LookupCorrectness` (a lookup
answers as the log of all commits, cut down to the window) and `NoNumberReused`,
for every `MaxVersions >= 2`, which `FeatureStore::new` enforces, and for all
bounds on commits and snapshots. `Refinement` is the whole of `ImplementsHistory`:
in every state with `IInv` the mapping of a Vec is the last commit's number and the
columns of its window (`Mapping`), so a commit is a commit of the abstract log
(`CommitRefines`) and all else a stutter. `IdsKeepMeaning` rests on `Filed`, that
each snapshot is stored under the id of its own list, so a list recorded again
replaces only itself, and on `DigestsSeparate`: the bytes hashed for different
lists differ. The latter is proved of the concatenation itself, pair by pair: a
name is preceded by its length and a number has a fixed width, so equal bytes
begin with equal pairs. Its assumption is that lengths and numbers fit in the u64
they are cast to (`DigestAssumption`); a usize does. `SnapshotsReproducible` and
`RebuildsExplained` need `Pinned`: what a snapshot lists was committed under
that number and that name, and no name is listed twice; then the loop of
`reconstruct_table`, after each feature, holds the columns of the features so far
or has stopped at one that was pruned or has another length (`RebuiltTables`).

`TensorProofs` has what both tensor functions return, for any number of rows and
features: the loop that pushes the cells row by row puts feature c of row r at
place (r - 1) * C + c of the flat Vec, where the shape looks for it
(`PlaceInFlat`), and the call fails before it if a column is missing, has gaps or
is no number, or if the target is one of the features.

`DatasetProofs`. The invariant `DInv` says that the halves are what the last split
returned. From it, for tables of any size, any ratio and every shuffle: `SameBag`
of the rows (`HalvesShareRows`, by splitting a bijection at the split point), the
share of rows (`SharesOfRows`), that no column is left behind
(`EveryColumnSplit`), and that splitting and making tensors commute
(`TensorsCommute`).

`PipelineProofs`. `FirstAndLatestCompare` takes the window of `IInv` to the end it
serves: version 1 and the latest one are always there to compare. `GapsAreNoDrift`
is arithmetic: two equal sequences have difference 0, whatever their sums.
`PipelineTypes` needs `TypeInv`, that the snapshot of a rebuilt table and of every
model is still stored. `ServesAsTrained` and `LiveAsBatch` need `ServeInv`: a
model with the features of its snapshot was trained on exactly the columns
*committed* under the pinned numbers, which no later commit can change
(`HistoryGrows`), and a table rebuilt at any time has these columns or does not
come about.

`ArtifactStoreProofs`. `LastSaveLoadable` and `QuietLoads` rest on `QuietInv`,
which says what the files hold at each step of a save and what a loader has read
while no save ran. `FirstSaveIsAPair` and `FirstSaveCanBeRead` rest on
`FirstInv`: until the metadata is written in the first save there is none that
parses, and from then on nothing touches the files. They hold for any number
of saves, models, shapes and loaders.

`Induction` is what the loops need. The library states induction for an
operator; here it is stated for a set (`UpTo`: a set that has 0 and with i - 1
also i has all numbers up to the bound), and the function that a recursive
definition defines is shown to exist from a step given as a function
(`LoopExists`, `LoopOf`). A loop's invariant is then a set of turns.

The theorems assume, beside the constants' own assumptions:

- `RectangularTables` (`DatasetProofs`): the columns of a table are equally long,
  which `TableRectangular` of `TableProofs` proves under `PlainInputs`.
- `NoEmptyOffer`, `NoEmptyColumns` (`RebuildsExplained`, `ServesAsTrained`,
  `LiveAsBatch`): no column without rows. Such a column turns the length check off,
  as the run `table_empty_rows` shows, and a ragged table can be rebuilt.
- `NoEmptyModel` (`ServesAsTrained`): a model has a feature. One without any is
  trained on as many empty rows as the target has, and served on none, since the
  rebuilt table has no target to count by.

Only model-checked are the six violations, which are counterexamples.

Taken from outside by the model, and so not proved: that SHA-256 has no
collisions, and what candle's files and tensors do.

## Not modelled

- Training itself: gradient descent on random floats in candle. What is recorded of
  it, the model's shape and the rows it saw, is in `Pipeline` and `ArtifactStore`.
- The digits of f64, and so how often a sum is rounded, overflows or vanishes: the
  model has each outcome as a possibility. What the code should do with huge or
  tiny numbers is written nowhere, so no property says it; the hazards name the
  lines. In `Drift` overflow is left out, and integers above 2^53 in its sums.
- In the split: ratios that are negative or NaN, which Rust casts to 0, and the
  generator behind the seed.
- Lists of feature names with repetitions in `run_inference_from_values`: a snapshot
  records none, and what other lists should do is not said anywhere.
- Timestamps, transformation tags, file names and error texts: nothing reads them.
- `TensorCreationFailed` and `ModelCreationFailed`, which need a device of
  candle's that fails.
- Overlapping saves of one pair: the code has no lock, and neither it nor its docs
  say what should happen; two such saves can leave the weights of one with the
  metadata of the other.
- A model trained on its snapshot's features in another order: nothing but their
  number is compared, so inference runs it silently on swapped columns.
  `ServedAsTrained` is about models trained in the recorded order.

## Plan

Done: every component of the table above, and a proof of every invariant and
action property that a passing run checks. What is left to add, in this order:

1. `ArtifactStore` with saves of one pair that overlap: which mixtures can be left
   behind, as a weaker guarantee to state for callers without a lock.
2. A refinement between `Column` and `Table`: `update_element` and
   `remove_element` there are what the calls here do to the number of rows.
