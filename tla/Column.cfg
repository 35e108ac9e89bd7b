\* Every column of up to four cells, NaN, the infinities, huge and tiny numbers
\* among them, under every call.
CONSTANTS
  Values <- MCValues
  Huge <- MCHuge
  Tiny <- MCTiny
  One = 1
  NaN = NaN
  Inf = Inf
  NegInf = NegInf
  Missing = Missing
  Given = {0, NaN, Missing}
  Behaviors = {"b"}
  Closures = {"f", "g"}
  MaxLen = 4
  MaxUpdates = 2
  MaxRemovals = 3
SPECIFICATION Spec
VIEW TheColumn
INVARIANT TypeOK
PROPERTIES FailuresChangeNothing UpdateIsAFunction RemovesExactly
  FillsKeepPresent FillsCarryNearest DivisionsGuarded ScalingKeepsOrder
