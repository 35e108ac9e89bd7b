\* Lengths, with columns of no row: ragged tables can be built.
CONSTANTS
  Names = {"a", "b"}
  ValidNames = {"a", "b"}
  Variants = {"Int"}
  Cells = {"digits"}
  ParsesAs <- MCParsesAs
  RowCounts = {0, 1}
  Callers = {c1, c2}
  NoColumn = NoColumn
  NoName = NoName
  HeaderRows <- PlainHeaders
  CarefulCalls = {}
SPECIFICATION Spec
SYMMETRY CallerSymmetry
INVARIANTS Rectangular
