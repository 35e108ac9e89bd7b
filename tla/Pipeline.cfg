\* Features committed past max_versions = 2, a table rebuilt and trained on,
\* and inference with the artifact at any later time.
CONSTANTS
  Names <- MCNames
  ValidNames <- MCNames
  Variants = {"Int", "Float", "Bool", "Text"}
  Cells <- MCCells
  ParsesAs <- MCParsesAs
  RowCounts = {2, 3}
  Missing = Missing
  as_f32 <- MCas_f32
  MaxVersions = 2
  Offered <- MCOffered
  FeatureLists <- MCFeatureLists
  Labels = {"v1"}
  NotFound = NotFound
  IntBytes = 1
  MaxCommits = 3
  MaxSnapshots = 2
  Thresholds = {0, 1, 2}
  Targets <- MCTargets
  FeatureColumns <- MCFeatureColumns
  ArtifactLabels <- MCArtifactLabels
  MAX_LABEL_CHARACTER = 2
  NoTable = NoTable
  MaxArtifacts = 2
SPECIFICATION PipelineSpec
INVARIANTS PipelineTypeOK ServedAsTrained LiveMatchesBatch
  DriftFromFirst DriftIgnoresGaps
