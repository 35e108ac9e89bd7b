\* Equal values whose mean is rounded; no number overflows or underflows.
CONSTANTS
  Values <- MCValues
  Huge = {}
  Tiny = {}
  One = 1
  NaN = NaN
  Inf = Inf
  NegInf = NegInf
  Missing = Missing
  Given = {0, NaN, Missing}
  Behaviors = {"b"}
  Closures = {"f", "g"}
  MaxLen = 3
  MaxUpdates = 2
  MaxRemovals = 3
SPECIFICATION Spec
VIEW TheColumn
PROPERTY EqualValuesRefused
