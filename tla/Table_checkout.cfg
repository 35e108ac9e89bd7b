\* The checkout protocol among two holders: element types, failed and
\* successful conversions, write-backs of a wrong length.
CONSTANTS
  Names = {"a", "b", ""}
  ValidNames = {"a", "b"}
  Variants = {"Int", "Text"}
  Cells = {"digits", "words"}
  ParsesAs <- MCParsesAs
  RowCounts = {1, 2}
  Callers = {c1, c2}
  NoColumn = NoColumn
  NoName = NoName
  HeaderRows <- OddHeaders
  CarefulCalls <- BothWrites
SPECIFICATION Spec
SYMMETRY CallerSymmetry
INVARIANTS TypeOK StoredIffAvailable OneHolder HeldIsOut Rectangular
PROPERTIES OwnershipMoves RowCountStable
