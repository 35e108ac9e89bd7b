------------------------------ MODULE Pipeline ------------------------------
(***************************************************************************)
(* From features to predictions: a FeatureStore, a table that a caller      *)
(* rebuilds from a snapshot and trains on (Tensors), the artifact it saves  *)
(* for that snapshot, and the two inference calls of src/src/ml/inference.rs*)
(* with the loaded model.  Commits and snapshots go on in between.          *)
(*                                                                          *)
(* A model is the shape candle builds it with; of its weights nothing is    *)
(* kept, of a prediction the input rows that it is made from.  How the two  *)
(* files of an artifact are written is ArtifactStore's matter.              *)
(***************************************************************************)
EXTENDS Drift, Tensors

CONSTANTS Targets,         \* columns that callers add to a rebuilt table
          FeatureColumns,  \* arguments feature_columns of to_tensor
          ArtifactLabels,  \* labels of artifacts: sequences of kinds of characters
          MAX_LABEL_CHARACTER,
          NoTable,         \* the caller holds no table
          MaxArtifacts     \* bound: artifacts on disk

ASSUME PipelineAssumption ==
  /\ Targets \subseteq TypedColumn
  /\ \A d \in Offered \cup Targets : d.rows = Len(d.cells)
  /\ FeatureColumns \subseteq Seq(Names)
  /\ MAX_LABEL_CHARACTER \in Nat /\ MaxArtifacts \in Nat

VARIABLES table,  \* the table rebuilt last, with the id of its snapshot
          files   \* the artifacts on disk by file name

pipelineVars == <<versions, snapshots, history, table, files>>

PipelineInit ==
  /\ Init
  /\ table = NoTable
  /\ files = [f \in {} |-> NoTable]

-----------------------------------------------------------------------------
(* Training.                                                                 *)

StoreStep == Next /\ UNCHANGED <<table, files>>

\* reconstruct_table when it returns a table.
rebuild(id) ==
  /\ \E t \in reconstruct_table(id) :
       t.error = "None" /\ table' = [id |-> id, data |-> t.data]
  /\ UNCHANGED <<vars, files>>

\* Table::add_column on the rebuilt table, whose columns are all inside.
add_target(col) ==
  /\ table # NoTable
  /\ \E rc \in row_count(table.data) :
       /\ col.name \notin DOMAIN table.data
       /\ ~LengthMismatch(rc, col)
       /\ table' = [table EXCEPT !.data = insert(@, col.name, col)]
  /\ UNCHANGED <<vars, files>>

\* Mutant: the target is counted among the features.
architecture_with_target(features) ==
  [in_features |-> Len(features) + 1, out_features |-> 1]

\* train_linear_regression's ModelArchitecture::Linear, from the tensor x.
architecture(features) == [in_features |-> Len(features), out_features |-> 1]

\* The checks of ModelArtifact::new.
label_error(label) ==
  IF label = <<>> THEN "EmptyLabel"
  ELSE IF Len(label) > MAX_LABEL_CHARACTER THEN "LabelTooLong"
  ELSE IF ~(ToSet(label) \subseteq {"alphanumeric", "-", "_"}) THEN "InvalidCharacter"
  ELSE "None"

\* {snapshot_id}_{label}: an id is 64 hex digits, so the pair can be read back.
file_name(id, label) == <<id, label>>

\* What save writes and load gives back of a model, with the features
\* and the rows x that the model was trained on (history).
ModelArtifact(id, label, features, x) ==
  [architecture |-> architecture(features), snapshot_id |-> id, label |-> label,
   features |-> features, x |-> x]

\* Tensors, a model, its artifact and the save, which overwrites one of the same
\* snapshot and label.
train(features, target, label) ==
  /\ table # NoTable
  /\ label_error(label) = "None"
  /\ Cardinality(DOMAIN files \cup {file_name(table.id, label)}) <= MaxArtifacts
  /\ \E t \in to_tensor(table.data, features, target) :
       /\ t.result = "Ok"
       /\ files' = insert(files, file_name(table.id, label),
                          ModelArtifact(table.id, label, features, t.x))
  /\ UNCHANGED <<vars, table>>

PipelineNext ==
  \/ StoreStep
  \/ \E id \in DOMAIN snapshots : rebuild(id)
  \/ \E col \in Targets : add_target(col)
  \/ \E features \in FeatureColumns, target \in Names, label \in ArtifactLabels :
       train(features, target, label)

PipelineSpec == PipelineInit /\ [][PipelineNext]_pipelineVars

-----------------------------------------------------------------------------
(* Inference.  What a call may return: "Ok" with the rows that the model's   *)
(* prediction is made from, or an error.                                     *)

Predicted(x) == [result |-> "Ok", x |-> x]
Failed(error) == [result |-> error, x |-> <<>>]

\* Linear::forward multiplies rows of as many columns as the model has inputs.
run(model, columns, x) ==
  IF columns = model.architecture.in_features THEN Predicted(x)
                                              ELSE Failed("ForwardFailed")

\* Mutant: the order of the table's columns, which is the HashMap's.
feature_columns_of_table(id, d) == SetToSeq(DOMAIN d)

\* The names in the snapshot's order; d is the rebuilt table.
feature_columns(id, d) ==
  LET of == snapshots[id].ordered_features IN [i \in DOMAIN of |-> of[i][1]]

run_inference_from_snapshot(model, id) ==
  UNION {
    IF t.error # "None" THEN {Failed("TableReconstructionFailed")}
    ELSE LET names == feature_columns(id, t.data)
         IN {IF x.result # "Ok" THEN Failed("FeatureTensorFailed")
             ELSE run(model, Len(names), x.x) : x \in to_feature_tensor(t.data, names)}
    : t \in reconstruct_table(id)}

\* Mutant: the values in the order of their map.
row_in_map_order(feature_names, values) ==
  LET keys == SetToSeq(DOMAIN values)
  IN [i \in DOMAIN keys |-> as_f32[values[keys[i]]]]

row(feature_names, values) ==
  [i \in DOMAIN feature_names |-> as_f32[values[feature_names[i]]]]

\* values is a map from names to numbers; it is longer than the list of names
\* when it has others, provided that no name is listed twice.
run_inference_from_values(model, feature_names, values) ==
  IF ~(ToSet(feature_names) \subseteq DOMAIN values) THEN Failed("MissingFeature")
  ELSE IF Cardinality(DOMAIN values) # Len(feature_names)
    THEN Failed("UnexpectedFeature")
  ELSE run(model, Len(feature_names),
           from_vec(row(feature_names, values), 1, Len(feature_names)))

InferenceResults ==
  {"Ok", "TableReconstructionFailed", "FeatureTensorFailed", "ForwardFailed",
   "MissingFeature", "UnexpectedFeature"}

-----------------------------------------------------------------------------
(* Properties.                                                               *)

\* Types of the variables, and of what the store's calls and inference return:
\* an artifact is filed under its snapshot and label, and its shape is that of
\* the rows that it was trained on.
PipelineTypeOK ==
  /\ TypeOK
  /\ table # NoTable => table.id \in DOMAIN snapshots /\ DOMAIN table.data \subseteq Names
  /\ \A id \in DOMAIN snapshots : \A t \in reconstruct_table(id) :
       t.error \in FeatureStoreError \cup {"None"}
  /\ \A n \in Names, threshold \in Thresholds :
       detect_drift(n, 1, 2, threshold) \subseteq FeatureStoreError \cup {"drifted", "stable"}
  /\ \A f \in DOMAIN files :
       /\ f = <<files[f].snapshot_id, files[f].label>>
       /\ files[f].snapshot_id \in DOMAIN snapshots
       /\ label_error(files[f].label) = "None"
       /\ \A i \in DOMAIN files[f].x : Len(files[f].x[i]) = files[f].architecture.in_features
       /\ \A r \in run_inference_from_snapshot(files[f], f[1]) : r.result \in InferenceResults

\* The names that a snapshot was created with.
Recorded(id) ==
  LET of == snapshots[id].ordered_features IN [i \in DOMAIN of |-> of[i][1]]

\* The models that were trained on all features of their snapshot, in its
\* order: "it can later drive Table::to_tensor's feature_columns" (Snapshot).
TrainedAsRecorded ==
  {f \in DOMAIN files : files[f].features = Recorded(f[1])}

\* Such a model, whenever it is loaded and whatever was committed since, is run
\* on the very rows it was trained on, features in the same places, or on
\* nothing, and that only because a version its snapshot pins was pruned.
ServedAsTrained ==
  \A f \in TrainedAsRecorded : \A r \in run_inference_from_snapshot(files[f], f[1]) :
    IF r.result = "Ok" THEN r.x = files[f].x
    ELSE /\ r.result = "TableReconstructionFailed"
         /\ \E p \in ToSet(snapshots[f[1]].ordered_features) :
              get_version(p[1], p[2]) = NotFound

\* inference.rs: live values are "keyed by feature name rather than position".
\* A row of the snapshot's table given by name is run as that row of the batch
\* is, and maps with a name missing or a name more are refused.
LiveMatchesBatch ==
  \A f \in TrainedAsRecorded :
    LET id == f[1]
        names == Recorded(id)
        Live(values) == run_inference_from_values(files[f], names, values)
    IN \A t \in reconstruct_table(id) : t.error = "None" =>
         \A i \in DOMAIN files[f].x :
           LET cell == [n \in DOMAIN t.data |-> t.data[n].cells[i]]
           IN /\ Live(cell) = Predicted(<<files[f].x[i]>>)
              /\ \A V \in {W \in SUBSET Names : IsFiniteSet(W)} \ {DOMAIN cell} :
                   Live([n \in V |-> IF n \in DOMAIN cell THEN cell[n] ELSE 0]).result
                     \in {"MissingFeature", "UnexpectedFeature"}
=============================================================================
