------------------------- MODULE ArtifactStoreProofs -------------------------
(***************************************************************************)
(* Theorems about ArtifactStore for any models, shapes and loaders, and any *)
(* number of saves where nothing else is said.                              *)
(***************************************************************************)
EXTENDS ArtifactStore, TLAPS

\* No step of a save, of a crash in it or of a load leaves its types.
THEOREM TypeCorrectness == Spec => []TypeOK
<1> USE ArtifactAssumption DEF NoModel, File, Idle, SaveSteps, LoadSteps
<1>1. Init => TypeOK
  BY DEF Init, TypeOK
<1>2. TypeOK /\ [Next]_vars => TypeOK'
  <2> SUFFICES ASSUME TypeOK, [Next]_vars PROVE TypeOK'
    OBVIOUS
  <2> USE DEF TypeOK
  <2>1. ASSUME NEW m \in Models, begin_save(m) PROVE TypeOK'
    <3>1. ASSUME NEW l \in Loaders, NEW q \in BOOLEAN
          PROVE  [load[l] EXCEPT !.quiet = q]
                   \in [at : LoadSteps, metadata : Models \cup {NoModel},
                       quiet : BOOLEAN, weights : Models \cup {NoModel}]
      OBVIOUS
    <3>2. \A l \in Loaders :
            (load[l].quiet /\ load[l].at \notin {"opened", "parsed"}) \in BOOLEAN
      OBVIOUS
    <3>3. load' \in [Loaders -> [at : LoadSteps, metadata : Models \cup {NoModel},
                                quiet : BOOLEAN, weights : Models \cup {NoModel}]]
      BY <2>1, <3>1, <3>2, Zenon DEF begin_save
    <3> QED
      BY <2>1, <3>3 DEF begin_save
  <2>2. CASE create_weights
    BY <2>2 DEF create_weights, SaveStep
  <2>3. CASE write_weights
    BY <2>3 DEF write_weights, SaveStep
  <2>4. CASE create_metadata
    BY <2>4 DEF create_metadata, SaveStep
  <2>5. CASE write_metadata
    BY <2>5 DEF write_metadata
  <2>6. CASE fail_save
    BY <2>6 DEF fail_save
  <2>7. ASSUME NEW l \in Loaders, open_metadata(l) PROVE TypeOK'
    BY <2>7 DEF open_metadata, LoadStep
  <2>8. ASSUME NEW l \in Loaders, read_metadata(l) PROVE TypeOK'
    BY <2>8 DEF read_metadata, LoadStep
  <2>9. ASSUME NEW l \in Loaders, load_weights(l) PROVE TypeOK'
    BY <2>9 DEF load_weights, LoadStep
  <2>10. ASSUME NEW l \in Loaders, return(l) PROVE TypeOK'
    BY <2>10 DEF return
  <2>11. CASE UNCHANGED vars
    BY <2>11 DEF vars
  <2> QED
    BY <2>1, <2>2, <2>3, <2>4, <2>5, <2>6, <2>7, <2>8, <2>9, <2>10, <2>11
    DEF Next
<1> QED
  BY <1>1, <1>2, PTL DEF Spec

-----------------------------------------------------------------------------
(* Any number of saves.                                                      *)

\* Why the last save that returned Ok is loadable: by the time the metadata is
\* created the weights are whole, and a new save starts by forgetting the last.
SaveInv ==
  /\ LastSaveIsLoadable
  /\ save # Idle => lastSaved = NoModel
  /\ save.at \in {"create_metadata", "write_metadata"} => weights = save.model

\* A quiet load reads the files of the last save only.
LoadInv ==
  \A l \in Loaders : load[l].quiet =>
    /\ load[l].at = "opened" => lastSaved # NoModel
    /\ load[l].at = "parsed" =>
         lastSaved # NoModel /\ load[l].metadata = lastSaved

QuietInv == SaveInv /\ LoadInv /\ QuietLoadsSucceed

\* A step of load leaves the other loaders alone.
LEMMA LoadStepEffect ==
  ASSUME TypeOK, NEW l \in Loaders, NEW at, NEW m, NEW w, LoadStep(l, at, m, w)
  PROVE  /\ load'[l].at = at /\ load'[l].metadata = m /\ load'[l].weights = w
         /\ load'[l].quiet =>
              IF at = "opened" THEN lastSaved # NoModel ELSE load[l].quiet
         /\ \A k \in Loaders \ {l} : load'[k] = load[k]
         /\ UNCHANGED <<weights, metadata, save, saves, lastSaved>>
<1> DEFINE q == IF at = "opened" THEN lastSaved # NoModel ELSE load[l].quiet
<1>1. /\ load' = [load EXCEPT ![l] = [at |-> at, metadata |-> m,
                                      weights |-> w, quiet |-> q]]
      /\ UNCHANGED <<weights, metadata, save, saves, lastSaved>>
  BY DEF LoadStep
<1> HIDE DEF q
<1>2. /\ load'[l] = [at |-> at, metadata |-> m, weights |-> w, quiet |-> q]
      /\ \A k \in Loaders \ {l} : load'[k] = load[k]
  BY <1>1 DEF TypeOK
<1>3. /\ load'[l].at = at /\ load'[l].metadata = m /\ load'[l].weights = w
      /\ load'[l].quiet = q
  BY <1>2
<1>4. q => IF at = "opened" THEN lastSaved # NoModel ELSE load[l].quiet
  BY DEF q
<1> QED
  BY <1>1, <1>2, <1>3, <1>4

\* What a quiet load has read is right if its last step was.
LEMMA LoadStepQuiet ==
  ASSUME TypeOK, QuietInv,
         NEW l \in Loaders, NEW at, NEW m, NEW w, LoadStep(l, at, m, w),
         at # "opened" /\ load[l].quiet =>
           \/ at = "parsed" /\ lastSaved # NoModel /\ m = lastSaved
           \/ at = "Ok" /\ w = m
  PROVE  LoadInv' /\ QuietLoadsSucceed'
<1> DEFINE Right(ld) ==
             ld.quiet =>
               /\ ld.at = "opened" => lastSaved # NoModel
               /\ ld.at = "parsed" =>
                    lastSaved # NoModel /\ ld.metadata = lastSaved
               /\ ld.at \notin {"opened", "parsed"} =>
                    ld.at = "Ok" /\ ld.weights = ld.metadata
<1>1. \A k \in Loaders \ {l} : Right(load'[k])
  BY LoadStepEffect DEF QuietInv, LoadInv, QuietLoadsSucceed
<1>2. Right(load'[l])
  <2>1. CASE at = "opened"
    BY <2>1, LoadStepEffect
  <2>2. CASE at # "opened"
    BY <2>2, LoadStepEffect
  <2> QED
    BY <2>1, <2>2
<1>3. UNCHANGED lastSaved
  BY LoadStepEffect
<1> QED
  BY <1>1, <1>2, <1>3 DEF LoadInv, QuietLoadsSucceed

\* The steps of load say nothing about the files, those of save nothing about
\* loads in progress.
LEMMA QuietStep ==
  ASSUME TypeOK, QuietInv, [Next]_vars
  PROVE  QuietInv'
<1> USE ArtifactAssumption DEF NoModel
<1>a. ASSUME UNCHANGED load, lastSaved' = lastSaved \/ lastSaved = NoModel
      PROVE  LoadInv' /\ QuietLoadsSucceed'
  BY <1>a DEF QuietInv, LoadInv, QuietLoadsSucceed
<1>b. ASSUME UNCHANGED <<weights, metadata, save, lastSaved>> PROVE SaveInv'
  BY <1>b DEF QuietInv, SaveInv, LastSaveIsLoadable
<1>1. ASSUME NEW m \in Models, begin_save(m) PROVE QuietInv'
  <2>1. SaveInv'
    BY <1>1 DEF begin_save, SaveInv, LastSaveIsLoadable
  <2>2. \A l \in Loaders :
          /\ load'[l].at = load[l].at
          /\ load'[l].metadata = load[l].metadata
          /\ load'[l].weights = load[l].weights
          /\ load'[l].quiet =>
               load[l].quiet /\ load[l].at \notin {"opened", "parsed"}
    BY <1>1 DEF begin_save, TypeOK
  <2>3. LoadInv'
    BY <2>2 DEF LoadInv
  <2>4. QuietLoadsSucceed'
    BY <2>2 DEF QuietInv, QuietLoadsSucceed
  <2> QED
    BY <2>1, <2>3, <2>4 DEF QuietInv
<1>2. ASSUME create_weights \/ write_weights \/ create_metadata \/ fail_save
      PROVE  QuietInv'
  <2>1. save # Idle /\ UNCHANGED load /\ lastSaved' = lastSaved
    BY <1>2 DEF create_weights, write_weights, create_metadata, fail_save,
                SaveStep, Idle
  <2>2. lastSaved = NoModel
    BY <2>1 DEF QuietInv, SaveInv
  <2>3. SaveInv'
    BY <1>2, <2>1, <2>2 DEF QuietInv, SaveInv, LastSaveIsLoadable, TypeOK, Idle,
       create_weights, write_weights, create_metadata, fail_save, SaveStep
  <2> QED
    BY <1>a, <2>1, <2>3 DEF QuietInv
<1>3. CASE write_metadata
  <2>1. lastSaved = NoModel /\ weights = save.model
    BY <1>3 DEF write_metadata, QuietInv, SaveInv, Idle
  <2>2. SaveInv'
    BY <1>3, <2>1 DEF write_metadata, SaveInv, LastSaveIsLoadable, Idle
  <2>3. LoadInv' /\ QuietLoadsSucceed'
    BY <1>a, <1>3, <2>1 DEF write_metadata
  <2> QED
    BY <2>2, <2>3 DEF QuietInv
<1>4. ASSUME NEW l \in Loaders, open_metadata(l) PROVE QuietInv'
  <2>1. ~load[l].quiet
    BY <1>4 DEF open_metadata, QuietInv, QuietLoadsSucceed
  <2>2. PICK at \in {"opened", "ArtifactFileOpenFailed"} :
           LoadStep(l, at, NoModel, NoModel)
    BY <1>4 DEF open_metadata
  <2>3. SaveInv'
    BY <1>b, <2>2 DEF LoadStep
  <2>4. LoadInv' /\ QuietLoadsSucceed'
    BY <2>1, <2>2, LoadStepQuiet
  <2> QED
    BY <2>3, <2>4 DEF QuietInv
<1>5. ASSUME NEW l \in Loaders, read_metadata(l) PROVE QuietInv'
  <2>1. load[l].quiet => lastSaved # NoModel /\ metadata = lastSaved
    BY <1>5 DEF read_metadata, QuietInv, LoadInv, SaveInv, LastSaveIsLoadable
  <2>2. lastSaved # NoModel => lastSaved \in Models
    BY DEF TypeOK
  <2>3. \/ LoadStep(l, "parsed", metadata, NoModel)
        \/ /\ LoadStep(l, "DeserializationFailed", NoModel, NoModel)
           /\ ~load[l].quiet
    BY <1>5, <2>1, <2>2 DEF read_metadata
  <2>4. SaveInv'
    BY <1>b, <2>3 DEF LoadStep
  <2>5. LoadInv' /\ QuietLoadsSucceed'
    BY <2>1, <2>3, LoadStepQuiet
  <2> QED
    BY <2>4, <2>5 DEF QuietInv
<1>6. ASSUME NEW l \in Loaders, load_weights(l) PROVE QuietInv'
  <2>1. load[l].quiet => /\ weights \in Models
                         /\ weights = load[l].metadata
    BY <1>6 DEF load_weights, QuietInv, LoadInv, SaveInv, LastSaveIsLoadable,
                TypeOK
  <2>2. \/ LoadStep(l, "Ok", load[l].metadata, weights)
        \/ /\ LoadStep(l, "WeightsLoadedFailed", load[l].metadata, NoModel)
           /\ ~load[l].quiet
    BY <1>6, <2>1 DEF load_weights
  <2>3. SaveInv'
    BY <1>b, <2>2 DEF LoadStep
  <2>4. LoadInv' /\ QuietLoadsSucceed'
    BY <2>1, <2>2, LoadStepQuiet
  <2> QED
    BY <2>3, <2>4 DEF QuietInv
<1>7. ASSUME NEW l \in Loaders, return(l) PROVE QuietInv'
  <2>1. SaveInv'
    BY <1>b, <1>7 DEF return
  <2>2. /\ \A k \in Loaders \ {l} : load'[k] = load[k]
        /\ ~load'[l].quiet
        /\ UNCHANGED lastSaved
    BY <1>7 DEF return, TypeOK
  <2>3. LoadInv' /\ QuietLoadsSucceed'
    BY <2>2 DEF QuietInv, LoadInv, QuietLoadsSucceed
  <2> QED
    BY <2>1, <2>3 DEF QuietInv
<1>8. CASE UNCHANGED vars
  BY <1>a, <1>b, <1>8 DEF vars, QuietInv
<1> QED
  BY <1>1, <1>2, <1>3, <1>4, <1>5, <1>6, <1>7, <1>8 DEF Next

\* The invariant behind the two theorems below.
LEMMA QuietInvariant == Spec => []QuietInv
<1>1. Init => QuietInv
  BY DEF Init, QuietInv, SaveInv, LoadInv, LastSaveIsLoadable,
         QuietLoadsSucceed, Idle, NoModel
<1>2. TypeOK /\ QuietInv /\ [Next]_vars => QuietInv'
  BY QuietStep
<1> QED
  BY <1>1, <1>2, TypeCorrectness, PTL DEF Spec

\* After any number of saves, failed or not, the files hold what the last save
\* that returned Ok has written, until the next one begins.
THEOREM LastSaveLoadable == Spec => []LastSaveIsLoadable
<1>1. QuietInv => LastSaveIsLoadable
  BY DEF QuietInv, SaveInv
<1> QED
  BY <1>1, QuietInvariant, PTL

\* A load that no save runs into, after a save that returned Ok, succeeds with
\* the weights and the metadata of one model.
THEOREM QuietLoads == Spec => []QuietLoadsSucceed
<1>1. QuietInv => QuietLoadsSucceed
  BY DEF QuietInv
<1> QED
  BY <1>1, QuietInvariant, PTL

-----------------------------------------------------------------------------
(* The first save.                                                           *)

\* Until a second save begins, the metadata does not exist before the weights
\* are whole, and nothing follows it.
FirstFacts ==
  /\ save # Idle => saves = 1
  /\ saves = 0 => metadata = Absent
  /\ save.at \in {"create_weights", "write_weights", "create_metadata"} =>
       metadata = Absent
  /\ save.at = "write_metadata" => metadata = Partial
  /\ save.at \in {"create_metadata", "write_metadata"} => weights = save.model
  /\ metadata \in Models => weights = metadata /\ save = Idle /\ saves = 1
  /\ \A l \in Loaders : load[l].at \in {"opened", "parsed"} => metadata # Absent
  /\ \A l \in Loaders : load[l].at = "parsed" =>
       load[l].metadata \in Models /\ load[l].metadata = metadata
  /\ \A l \in Loaders : load[l].at # "WeightsLoadedFailed"

FirstInv == saves <= 1 => FirstFacts

\* Until a second save begins the files only ever grow into the pair.
LEMMA FirstStep ==
  ASSUME TypeOK, FirstInv, [Next]_vars
  PROVE  FirstInv'
<1> USE ArtifactAssumption DEF NoModel, File, Idle
<1>0. saves \in Nat
  BY DEF TypeOK
<1>1. ASSUME NEW m \in Models, begin_save(m), saves' <= 1 PROVE FirstFacts'
  <2>1. saves = 0 /\ saves' = 1
    BY <1>0, <1>1 DEF begin_save
  <2>2. FirstFacts /\ metadata = Absent
    BY <2>1 DEF FirstInv, FirstFacts
  <2>3. \A l \in Loaders :
          load'[l].at = load[l].at /\ load'[l].metadata = load[l].metadata
    BY <1>1 DEF begin_save, TypeOK
  <2> QED
    BY <1>1, <2>1, <2>2, <2>3 DEF begin_save, FirstFacts
<1> USE DEF FirstFacts
<1>2. ASSUME FirstFacts, create_weights PROVE FirstFacts'
  BY <1>2 DEF create_weights, SaveStep, TypeOK
<1>3. ASSUME FirstFacts, write_weights PROVE FirstFacts'
  BY <1>3 DEF write_weights, SaveStep, TypeOK
<1>4. ASSUME FirstFacts, create_metadata PROVE FirstFacts'
  BY <1>4 DEF create_metadata, SaveStep, TypeOK
<1>5. ASSUME FirstFacts, write_metadata PROVE FirstFacts'
  BY <1>5 DEF write_metadata, TypeOK
<1>6. ASSUME FirstFacts, fail_save PROVE FirstFacts'
  BY <1>6 DEF fail_save, TypeOK
<1>7. ASSUME FirstFacts,
             NEW l \in Loaders, NEW at, NEW m, NEW w, LoadStep(l, at, m, w),
             at # "WeightsLoadedFailed",
             at \in {"opened", "parsed"} => metadata # Absent,
             at = "parsed" => m \in Models /\ m = metadata
      PROVE  FirstFacts'
  <2>1. /\ load'[l].at = at /\ load'[l].metadata = m
        /\ \A k \in Loaders \ {l} : load'[k] = load[k]
        /\ UNCHANGED <<weights, metadata, save, saves, lastSaved>>
    BY <1>7, LoadStepEffect
  <2>2. \A k \in Loaders :
          /\ load'[k].at # "WeightsLoadedFailed"
          /\ load'[k].at \in {"opened", "parsed"} => metadata # Absent
          /\ load'[k].at = "parsed" =>
               load'[k].metadata \in Models /\ load'[k].metadata = metadata
    BY <1>7, <2>1
  <2> QED
    BY <1>7, <2>1, <2>2
<1>8. ASSUME FirstFacts, NEW l \in Loaders, open_metadata(l) PROVE FirstFacts'
  BY <1>7, <1>8 DEF open_metadata
<1>9. ASSUME FirstFacts, NEW l \in Loaders, read_metadata(l) PROVE FirstFacts'
  BY <1>7, <1>9 DEF read_metadata
<1>10. ASSUME FirstFacts, NEW l \in Loaders, load_weights(l) PROVE FirstFacts'
  <2>1. weights = load[l].metadata /\ weights \in Models
    BY <1>10 DEF load_weights
  <2> QED
    BY <1>7, <1>10, <2>1 DEF load_weights
<1>11. ASSUME FirstFacts, NEW l \in Loaders, return(l) PROVE FirstFacts'
  BY <1>11 DEF return, TypeOK
<1>12. ASSUME FirstFacts, UNCHANGED vars PROVE FirstFacts'
  BY <1>12 DEF vars
<1> USE DEF FirstInv
<1>13. ASSUME NEW m \in Models, begin_save(m) PROVE FirstInv'
  BY <1>1, <1>13
<1>14. CASE ~\E m \in Models : begin_save(m)
  <2>1. saves' = saves
    BY <1>14 DEF Next, vars, create_weights, write_weights, create_metadata,
       write_metadata, fail_save, SaveStep, open_metadata, read_metadata,
       load_weights, return, LoadStep
  <2>2. FirstFacts => FirstFacts'
    <3> HIDE DEF FirstFacts
    <3> QED
      BY <1>14, <1>2, <1>3, <1>4, <1>5, <1>6, <1>8, <1>9, <1>10, <1>11, <1>12
      DEF Next
  <2> QED
    BY <2>1, <2>2
<1> QED
  BY <1>13, <1>14

\* The invariant behind the two theorems below.
LEMMA FirstInvariant == Spec => []FirstInv
<1>1. Init => FirstInv
  BY ArtifactAssumption DEF Init, FirstInv, FirstFacts, Idle, NoModel
<1>2. TypeOK /\ FirstInv /\ [Next]_vars => FirstInv'
  BY FirstStep
<1> QED
  BY <1>1, <1>2, TypeCorrectness, PTL DEF Spec

\* Until a second save of the pair begins, metadata that parses comes with the
\* weights of its model, crashes and loads in the middle included.
THEOREM FirstSaveIsAPair == Spec => []FirstSavePairs
<1>1. FirstInv => FirstSavePairs
  BY DEF FirstInv, FirstFacts, FirstSavePairs, ParsedMeansPair
<1> QED
  BY <1>1, FirstInvariant, PTL

\* Until a second save of the pair begins, no load fails on the weights.
THEOREM FirstSaveCanBeRead == Spec => []FirstSaveLoads
<1>1. FirstInv => FirstSaveLoads
  BY DEF FirstInv, FirstFacts, FirstSaveLoads
<1> QED
  BY <1>1, FirstInvariant, PTL
=============================================================================
