----------------------------- MODULE FeatureStore -----------------------------
(***************************************************************************)
(* src/src/feature_store.rs and feature_store/snapshot.rs: per-feature      *)
(* version histories with pruning, and snapshots that pin an ordered list   *)
(* of versions.  Snapshots hold (name, version) pairs, not data, so commits *)
(* made after a snapshot decide what reconstruct_table finds later.         *)
(***************************************************************************)
EXTENDS TableData, SequencesExt

CONSTANTS MaxVersions,   \* FeatureStore.max_versions
          Offered,       \* ColumnData values that callers pass to commit
          FeatureLists,  \* lists of (name, version) passed to create_snapshot
          Labels,        \* labels passed with them
          NotFound,      \* VersionNotFound or FeatureNotFound instead of a version
          IntBytes,      \* bytes of a u64 in a digest
          MaxCommits,    \* bound: commits of one feature
          MaxSnapshots   \* bound: snapshots in the store

\* The numbers of IntBytes bytes.
U64 ==
  LET power[i \in 0..IntBytes] == IF i = 0 THEN 1 ELSE 256 * power[i - 1]
  IN 0 .. power[IntBytes] - 1

\* FeatureStore::new refuses max_versions < 2.  Names are their UTF-8 bytes.
ASSUME FeatureStoreAssumption ==
  /\ MaxVersions \in Nat /\ MaxVersions >= 2
  /\ Names \subseteq Seq(0..255)
  /\ Offered \subseteq ColumnData
  /\ NotFound \notin [data : ColumnData, version_number : Nat, name : Names]
  /\ FeatureLists \subseteq Seq(Names \X Nat)
  /\ IntBytes \in Nat \ {0} /\ MaxCommits \in Nat /\ MaxSnapshots \in Nat

\* Lengths and version numbers are usize, which is at most 64 bits wide.
ASSUME DigestAssumption ==
  \A of \in FeatureLists : \A i \in DOMAIN of :
    Len(of[i][1]) \in U64 /\ of[i][2] \in U64

VARIABLES versions,   \* FeatureStore.versions
          snapshots,  \* FeatureStore.snapshots
          history     \* every column committed under a name (history variable)

vars == <<versions, snapshots, history>>

Typed == {d \in Offered : d.variant # "Raw"}

ColumnVersion == [data : Typed, version_number : Nat, name : Names]

Init ==
  /\ versions = [n \in {} |-> <<>>]
  /\ snapshots = [id \in {} |-> <<>>]
  /\ history = [n \in Names |-> <<>>]

VersionsOf(name) == IF name \in DOMAIN versions THEN versions[name] ELSE <<>>

\* Mutant: numbering by the length of the Vec.
max_version_by_length(vs) == Len(vs)

max_version(vs) ==
  IF vs = <<>> THEN 0 ELSE Max({vs[i].version_number : i \in DOMAIN vs})

\* Mutants: the oldest version goes; one version more is kept.
PrunedFirst(vs) == IF Len(vs) > MaxVersions THEN RemoveAt(vs, 1) ELSE vs
PrunedLate(vs) == IF Len(vs) > MaxVersions + 1 THEN RemoveAt(vs, 2) ELSE vs

\* The Vec after the push: one version too many, and the second one goes.
Pruned(vs) == IF Len(vs) > MaxVersions THEN RemoveAt(vs, 2) ELSE vs

\* Mutant: a Raw column is committed under some name.
commit_raw(d) ==
  LET name == IF d.variant = "Raw" THEN CHOOSE n \in Names : TRUE ELSE d.name
      vs == VersionsOf(name)
      new == [data |-> d, version_number |-> max_version(vs) + 1, name |-> name]
  IN /\ Len(history[name]) < MaxCommits
     /\ versions' = insert(versions, name, Pruned(Append(vs, new)))
     /\ history' = [history EXCEPT ![name] = Append(@, d)]
     /\ UNCHANGED snapshots

\* A Raw column has no name to be committed under (RawColumnExists): the call
\* returns before it touches the map.
commit(d) ==
  \/ d.variant = "Raw" /\ UNCHANGED vars
  \/ /\ d.variant # "Raw"
     /\ Len(history[d.name]) < MaxCommits
     /\ LET vs == VersionsOf(d.name)
            new == [data |-> d, version_number |-> max_version(vs) + 1,
                    name |-> d.name]
        IN versions' = insert(versions, d.name, Pruned(Append(vs, new)))
     /\ history' = [history EXCEPT ![d.name] = Append(@, d)]
     /\ UNCHANGED snapshots

\* Mutant: the version number is taken for the position in the Vec.
get_version_by_position(name, v) ==
  IF v \in DOMAIN VersionsOf(name) THEN VersionsOf(name)[v] ELSE NotFound

get_version(name, v) ==
  LET i == SelectInSeq(VersionsOf(name), LAMBDA cv : cv.version_number = v)
  IN IF i = 0 THEN NotFound ELSE VersionsOf(name)[i]

\* Mutant: the length of the Vec is taken for the latest number.
get_latest_version_by_length(name) ==
  IF name \notin DOMAIN versions THEN NotFound
  ELSE get_version(name, Len(versions[name]))

get_latest_version(name) ==
  IF name \notin DOMAIN versions THEN NotFound
  ELSE get_version(name, max_version(versions[name]))

-----------------------------------------------------------------------------
(* Snapshots.                                                                *)

\* to_le_bytes of a u64.
le_bytes(x) ==
  LET rest[i \in 0..IntBytes] == IF i = 0 THEN x ELSE rest[i - 1] \div 256
  IN [i \in 1..IntBytes |-> rest[i - 1] % 256]

\* Mutant: the names are hashed without their lengths.
compute_snapshot_id_unseparated(of) ==
  FlattenSeq([i \in DOMAIN of |-> of[i][1] \o le_bytes(of[i][2])])

\* The bytes that are hashed; the digest itself is taken to be collision-free.
compute_snapshot_id(of) ==
  FlattenSeq([i \in DOMAIN of |->
    le_bytes(Len(of[i][1])) \o of[i][1] \o le_bytes(of[i][2])])

\* Mutant: only a pair that is repeated as a whole is a duplicate.
RepeatsPair(of, i) == \E j \in 1..(i - 1) : of[j] = of[i]

Repeats(of, i) == \E j \in 1..(i - 1) : of[j][1] = of[i][1]

\* The loop over the pairs stops at the first one that fails either check.
create_snapshot_error(of) ==
  LET Bad == {i \in DOMAIN of :
                Repeats(of, i) \/ get_version(of[i][1], of[i][2]) = NotFound}
  IN IF Bad = {} THEN "None"
     ELSE IF Repeats(of, Min(Bad)) THEN "DuplicateFeatureInSnapshot"
     ELSE "VersionNotFound"

\* A list seen before has the same id and replaces the snapshot, label and all.
create_snapshot(of, label) ==
  /\ create_snapshot_error(of) = "None"
  /\ LET id == compute_snapshot_id(of)
     IN /\ Cardinality(DOMAIN snapshots \cup {id}) <= MaxSnapshots
        /\ snapshots' = insert(snapshots, id,
                               [ordered_features |-> of, label |-> label])
  /\ UNCHANGED <<versions, history>>

\* Mutant: the latest version is taken instead of the pinned one.
AddFeatureLatest(t, name, v) ==
  IF t.error # "None" THEN {t}
  ELSE LET col == get_latest_version(name).data
       IN {IF col.name \in DOMAIN t.data \/ LengthMismatch(rc, col)
             THEN [t EXCEPT !.error = "TableBuildFailed"]
             ELSE [t EXCEPT !.data = insert(@, col.name, col)]
           : rc \in row_count(t.data)}

\* One turn of reconstruct_table's loop on the table t built so far: the
\* results there may be, one per row count that add_column may read.
AddFeature(t, name, v) ==
  IF t.error # "None" THEN {t}
  ELSE IF get_version(name, v) = NotFound
    THEN {[t EXCEPT !.error = "VersionNotFound"]}
  ELSE LET col == get_version(name, v).data
       IN {IF col.name \in DOMAIN t.data \/ LengthMismatch(rc, col)
             THEN [t EXCEPT !.error = "TableBuildFailed"]
             ELSE [t EXCEPT !.data = insert(@, col.name, col)]
           : rc \in row_count(t.data)}

\* What reconstruct_table may return for the snapshot id.
reconstruct_table(id) ==
  LET of == snapshots[id].ordered_features
      build[i \in 0..Len(of)] ==
        IF i = 0 THEN {[error |-> "None", data |-> [n \in {} |-> NotFound]]}
        ELSE UNION {AddFeature(t, of[i][1], of[i][2]) : t \in build[i - 1]}
  IN build[Len(of)]

Next ==
  \/ \E d \in Offered : commit(d)
  \/ \E of \in FeatureLists, label \in Labels : create_snapshot(of, label)

Spec == Init /\ [][Next]_vars

-----------------------------------------------------------------------------
(* Properties.                                                               *)

\* Types of the variables.
TypeOK ==
  /\ DOMAIN versions \subseteq Names
  /\ \A n \in DOMAIN versions : versions[n] \in Seq(ColumnVersion)
  /\ \A id \in DOMAIN snapshots :
       snapshots[id] \in [ordered_features : FeatureLists, label : Labels]
  /\ history \in [Names -> Seq(Typed)]

\* The Vec vs holds version 1 of the commits h and then, without a gap and in
\* order, the most recent ones, MaxVersions in all, each with the column that
\* was committed under that number.
Window(vs, h, name) ==
  /\ Len(h) <= MaxVersions => Len(vs) = Len(h)
  /\ Len(h) > MaxVersions => Len(vs) = MaxVersions
  /\ \A i \in 1..Len(vs) :
       /\ i = 1 => vs[i].version_number = 1
       /\ i > 1 => vs[i].version_number = Len(h) - Len(vs) + i
       /\ vs[i].data = h[vs[i].version_number]
       /\ vs[i].name = name

\* Pruning by position (versions.remove(1)) and numbering by maximum keep every
\* feature's Vec such a window, and a feature is in the map once committed.
RetainedVersions ==
  \A n \in Names :
    /\ Window(VersionsOf(n), history[n], n)
    /\ n \in DOMAIN versions <=> history[n] # <<>>

\* get_version answers as a log of all commits would, cut down to the first
\* version and the last max_versions - 1: nothing else is forgotten, nothing
\* is answered for a number that was pruned or never given.
LookupMatchesHistory ==
  \A n \in Names, v \in 0..(MaxCommits + 1) :
    LET k == Len(history[n])
        cv == get_version(n, v)
    IN IF v \in 1..k /\ (v = 1 \/ v > k + 1 - MaxVersions)
         THEN cv # NotFound /\ cv.data = history[n][v]
         ELSE cv = NotFound

\* A version number is never given a second time: one that was ever given
\* keeps resolving to the same version or, once pruned, to nothing for good.
\* A snapshot can therefore go stale but never change its meaning.
NumbersNeverReused ==
  [][\A n \in Names : \A v \in 1..Len(history[n]) :
       get_version(n, v)' \in {get_version(n, v), NotFound}]_vars

\* The id of a snapshot, which model artifacts store, stands for one ordered
\* list of features for ever.
SnapshotsKeepFeatures ==
  [][\A id \in DOMAIN snapshots :
       /\ id \in DOMAIN snapshots'
       /\ snapshots'[id].ordered_features = snapshots[id].ordered_features]_vars

\* Whatever was committed since, a table rebuilt from a snapshot has exactly
\* the snapshot's features, each as it was committed under the pinned number.
SnapshotReproducible ==
  \A id \in DOMAIN snapshots : \A t \in reconstruct_table(id) :
    LET of == snapshots[id].ordered_features
    IN t.error = "None" =>
         /\ DOMAIN t.data = {of[i][1] : i \in DOMAIN of}
         /\ \A i \in DOMAIN of : t.data[of[i][1]] = history[of[i][1]][of[i][2]]

\* Each outcome of reconstruct_table has its reason.  A table is rebuilt only
\* from features of one length, and building it fails only if two lengths
\* differ: never because a name is there already, since names are the columns'
\* own (both hold when no feature is committed empty).  A version is not found
\* only once it was pruned, which version 1 never is.
RebuildOutcomes ==
  \A id \in DOMAIN snapshots : \A t \in reconstruct_table(id) :
    LET of == snapshots[id].ordered_features
    IN /\ t.error = "None" =>
            \A m, n \in DOMAIN t.data : t.data[m].rows = t.data[n].rows
       /\ t.error = "TableBuildFailed" =>
            \E i, j \in DOMAIN of :
              history[of[i][1]][of[i][2]].rows # history[of[j][1]][of[j][2]].rows
       /\ t.error = "VersionNotFound" =>
            \E i \in DOMAIN of :
              of[i][2] \in 2 .. Len(history[of[i][1]]) + 1 - MaxVersions

\* The store implements the abstract histories of RetainedHistory.
abstractLatest == [n \in Names |-> max_version(VersionsOf(n))]
abstractKept ==
  [n \in Names |->
     LET vs == VersionsOf(n)
     IN [v \in {vs[i].version_number : i \in 1..Len(vs)} |-> get_version(n, v).data]]

Abstract == INSTANCE RetainedHistory WITH
  Data <- Typed, latest <- abstractLatest, kept <- abstractKept

ImplementsHistory == Abstract!Spec
==============================================================================
