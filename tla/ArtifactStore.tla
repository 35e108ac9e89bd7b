---------------------------- MODULE ArtifactStore ----------------------------
(***************************************************************************)
(* ModelArtifact::save and ::load (src/src/ml/training/artifact.rs) on the  *)
(* two files of one (snapshot_id, label) pair: the weights, which candle's  *)
(* VarMap writes and reads, and the metadata, which serde_json does.  Saves *)
(* of the pair follow one another, each possibly failing or crashing at any *)
(* point and leaving the files as they are; loads run at any time, between  *)
(* the steps of a save too.  A file is created, which truncates it, before  *)
(* it is written, and never removed.                                        *)
(***************************************************************************)
EXTENDS Naturals

CONSTANTS Models,    \* what is saved: one member per trained model
          Shape,     \* the ModelArchitecture of each
          Loaders,   \* the callers of load
          Absent,    \* a file that does not exist
          Partial,   \* a file that was created but not written to its end
          MaxSaves   \* bound: saves started

ASSUME ArtifactAssumption ==
  /\ Absent \notin Models /\ Partial \notin Models /\ Absent # Partial
  /\ MaxSaves \in Nat

VARIABLES weights,   \* {snapshot_id}_{label}.safetensors
          metadata,  \* {snapshot_id}_{label}.json
          save,      \* the save in progress: its step and its model
          saves,     \* saves started so far
          lastSaved, \* the model of the last save if that returned Ok
          load       \* for each loader its step and what it has read, and
                     \* whether no save has touched the files since it opened
                     \* them after one that returned Ok (quiet, for the
                     \* properties only)

vars == <<weights, metadata, save, saves, lastSaved, load>>

NoModel == Absent
File == Models \cup {Absent, Partial}
Idle == [at |-> "idle", model |-> NoModel]

Init ==
  /\ weights = Absent
  /\ metadata = Absent
  /\ save = Idle
  /\ saves = 0
  /\ lastSaved = NoModel
  /\ load = [l \in Loaders |-> [at |-> "idle", quiet |-> FALSE,
                               metadata |-> NoModel, weights |-> NoModel]]

-----------------------------------------------------------------------------
(* save: VarMap::save, then File::create, then serde_json::to_writer.        *)

begin_save(m) ==
  /\ save = Idle
  /\ saves < MaxSaves
  /\ save' = [at |-> "create_weights", model |-> m]
  /\ saves' = saves + 1
  /\ lastSaved' = NoModel
  /\ load' = [l \in Loaders |->
       [load[l] EXCEPT !.quiet = @ /\ load[l].at \notin {"opened", "parsed"}]]
  /\ UNCHANGED <<weights, metadata>>

SaveStep(from, to) ==
  /\ save.at = from
  /\ save' = [save EXCEPT !.at = to]
  /\ UNCHANGED <<saves, lastSaved, load>>

\* Mutants: writing the weights is left to a thread nobody waits for; weights
\* that exist are taken to be saved already.
create_weights_unflushed ==
  /\ SaveStep("create_weights", "create_metadata")
  /\ weights' = Partial
  /\ UNCHANGED metadata

create_weights_once ==
  /\ SaveStep("create_weights", IF weights = Absent THEN "write_weights"
                                                   ELSE "create_metadata")
  /\ weights' = IF weights = Absent THEN Partial ELSE weights
  /\ UNCHANGED metadata

create_weights ==
  /\ SaveStep("create_weights", "write_weights")
  /\ weights' = Partial
  /\ UNCHANGED metadata

\* Mutant: WeightsSaveFailed is ignored.
write_weights_unchecked ==
  /\ SaveStep("write_weights", "create_metadata")
  /\ weights' \in {Partial, save.model}
  /\ UNCHANGED metadata

write_weights ==
  /\ SaveStep("write_weights", "create_metadata")
  /\ weights' = save.model
  /\ UNCHANGED metadata

create_metadata ==
  /\ SaveStep("create_metadata", "write_metadata")
  /\ metadata' = Partial
  /\ UNCHANGED weights

\* Mutant: Ok is returned before the metadata is flushed.
write_metadata_unflushed ==
  /\ save.at = "write_metadata"
  /\ lastSaved' = save.model
  /\ save' = Idle
  /\ UNCHANGED <<weights, metadata, saves, load>>

write_metadata ==
  /\ save.at = "write_metadata"
  /\ metadata' = save.model
  /\ lastSaved' = save.model
  /\ save' = Idle
  /\ UNCHANGED <<weights, saves, load>>

\* A crash, or one of WeightsSaveFailed, FileCreationFailed and
\* SerializationFailed: nothing that was written is undone.
fail_save ==
  /\ save # Idle
  /\ save' = Idle
  /\ UNCHANGED <<weights, metadata, saves, lastSaved, load>>

-----------------------------------------------------------------------------
(* load: File::open, serde_json::from_reader, VarMap::load.                  *)

LoadStep(l, at, m, w) ==
  /\ load' = [load EXCEPT ![l] =
       [at |-> at, metadata |-> m, weights |-> w,
        quiet |-> IF at = "opened" THEN lastSaved # NoModel ELSE load[l].quiet]]
  /\ UNCHANGED <<weights, metadata, save, saves, lastSaved>>

open_metadata(l) ==
  /\ load[l].at = "idle"
  /\ LoadStep(l, IF metadata = Absent THEN "ArtifactFileOpenFailed"
                                      ELSE "opened", NoModel, NoModel)

\* Mutant: metadata that is cut off is filled up with defaults.
read_metadata_defaulting(l) ==
  /\ load[l].at = "opened"
  /\ LoadStep(l, "parsed", metadata, NoModel)

read_metadata(l) ==
  /\ load[l].at = "opened"
  /\ IF metadata \in Models
       THEN LoadStep(l, "parsed", metadata, NoModel)
       ELSE LoadStep(l, "DeserializationFailed", NoModel, NoModel)

\* VarMap::load fills the variables of the model built from the metadata; it
\* fails on a file that is not whole and on tensors of another shape.
load_weights(l) ==
  /\ load[l].at = "parsed"
  /\ IF weights \in Models /\ Shape[weights] = Shape[load[l].metadata]
       THEN LoadStep(l, "Ok", load[l].metadata, weights)
       ELSE LoadStep(l, "WeightsLoadedFailed", load[l].metadata, NoModel)

\* The caller is done with the result and may load again.
return(l) ==
  /\ load[l].at \notin {"idle", "opened", "parsed"}
  /\ load' = [load EXCEPT ![l] = [at |-> "idle", quiet |-> FALSE,
                                  metadata |-> NoModel, weights |-> NoModel]]
  /\ UNCHANGED <<weights, metadata, save, saves, lastSaved>>

Next ==
  \/ \E m \in Models : begin_save(m)
  \/ create_weights \/ write_weights \/ create_metadata \/ write_metadata
  \/ fail_save
  \/ \E l \in Loaders :
       open_metadata(l) \/ read_metadata(l) \/ load_weights(l) \/ return(l)

Spec == Init /\ [][Next]_vars

-----------------------------------------------------------------------------
(* Properties.                                                               *)

SaveSteps ==
  {"create_weights", "write_weights", "create_metadata", "write_metadata"}

LoadSteps ==
  {"idle", "opened", "parsed", "Ok", "ArtifactFileOpenFailed",
   "DeserializationFailed", "WeightsLoadedFailed"}

\* Types of the variables.
TypeOK ==
  /\ weights \in File
  /\ metadata \in File
  /\ save \in [at : SaveSteps, model : Models] \cup {Idle}
  /\ saves \in 0..MaxSaves
  /\ lastSaved \in Models \cup {NoModel}
  /\ load \in [Loaders -> [at : LoadSteps, metadata : Models \cup {NoModel},
                           quiet : BOOLEAN, weights : Models \cup {NoModel}]]

ParsedMeansPair == metadata \in Models => weights = metadata

\* The order of the two writes: up to the end of the first save of a pair,
\* wherever that crashes or fails, metadata that can be parsed comes with the
\* whole weights of the same model.
FirstSavePairs == saves <= 1 => ParsedMeansPair

\* No load that got past parsing the metadata stumbles over the weights,
\* wherever in the first save it runs.
FirstSaveLoads ==
  saves <= 1 => \A l \in Loaders : load[l].at # "WeightsLoadedFailed"

\* The pair also after later saves, while none is running: "a crash between the
\* two writes leaves only the (harmless, ignorable) weights file behind" (save).
QuietParsedMeansPair == save = Idle => ParsedMeansPair

\* "The presence of the metadata file [is] confirmation that the pair is
\* complete", once the process that saved it has returned or crashed.
PresenceMeansComplete ==
  save = Idle /\ metadata # Absent => metadata \in Models /\ weights = metadata

\* However many saves failed half-way before, one that returned Ok is what the
\* files hold until the next one begins.
LastSaveIsLoadable ==
  lastSaved # NoModel => weights = lastSaved /\ metadata = lastSaved

\* A load that runs between two saves, after one that returned Ok, succeeds,
\* and with weights and metadata of that one save, whatever crashed before.
QuietLoadsSucceed ==
  \A l \in Loaders :
    load[l].quiet /\ load[l].at \notin {"opened", "parsed"} =>
      load[l].at = "Ok" /\ load[l].weights = load[l].metadata
==============================================================================
