\* Every shuffle of four rows, split in every ratio, and the tensors of both
\* halves.
CONSTANTS
  Names = {"a", "b", "c", "y"}
  ValidNames = {"a", "b", "c", "y"}
  Variants = {"Int", "Float", "Bool", "Text"}
  Cells <- MCCells
  ParsesAs <- MCParsesAs
  RowCounts = {0, 4}
  Missing = Missing
  as_f32 <- MCas_f32
  Tables <- MCTables
  Ratios <- MCRatios
  None = None
  ColumnLists <- MCColumnLists
  FeatureLists <- MCFeatureLists
SPECIFICATION Spec
INVARIANTS TypeOK HalvesPartition RatioRespected NoColumnDropped
  TensorsOfHalves TensorLayout
