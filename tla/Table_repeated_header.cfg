\* Lengths, with a CSV file that repeats a header.
CONSTANTS
  Names = {"a", "b"}
  ValidNames = {"a", "b"}
  Variants = {"Int"}
  Cells = {"digits"}
  ParsesAs <- MCParsesAs
  RowCounts = {1, 2}
  Callers = {c1, c2}
  NoColumn = NoColumn
  NoName = NoName
  HeaderRows <- RepeatedHeaders
  CarefulCalls = {}
SPECIFICATION Spec
SYMMETRY CallerSymmetry
INVARIANTS Rectangular
