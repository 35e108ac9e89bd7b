\* Histories with pruning at max_versions = 3 and up to two snapshots.
CONSTANTS
  Names <- MCNames
  ValidNames <- MCNames
  Variants = {"Int"}
  Cells = {"x"}
  ParsesAs <- MCParsesAs
  RowCounts = {1, 2}
  MaxVersions = 3
  Offered <- MCOffered
  FeatureLists <- MCFeatureLists
  Labels = {"v1", "v2"}
  NotFound = NotFound
  IntBytes = 2
  MaxCommits = 6
  MaxSnapshots = 2
SPECIFICATION Spec
INVARIANTS TypeOK RetainedVersions LookupMatchesHistory
  SnapshotReproducible RebuildOutcomes
PROPERTIES NumbersNeverReused SnapshotsKeepFeatures ImplementsHistory
