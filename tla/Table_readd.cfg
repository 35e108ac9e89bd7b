\* Exclusive checkout when callers may add a column under a name that is
\* checked out.
CONSTANTS
  Names = {"a", "b"}
  ValidNames = {"a", "b"}
  Variants = {"Int"}
  Cells = {"digits"}
  ParsesAs <- MCParsesAs
  RowCounts = {1}
  Callers = {c1, c2}
  NoColumn = NoColumn
  NoName = NoName
  HeaderRows <- PlainHeaders
  CarefulCalls <- UpdateOnly
SPECIFICATION Spec
SYMMETRY CallerSymmetry
INVARIANTS OneHolder
