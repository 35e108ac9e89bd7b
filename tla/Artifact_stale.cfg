\* The metadata file as the sign of a complete pair, after a second save.
CONSTANTS
  m1 = m1
  m2 = m2
  m3 = m3
  Models <- MCModels
  Shape <- MCShape
  Loaders = {l1, l2}
  Absent = Absent
  Partial = Partial
  MaxSaves = 2
SPECIFICATION Spec
SYMMETRY LoaderSymmetry
INVARIANTS QuietParsedMeansPair
