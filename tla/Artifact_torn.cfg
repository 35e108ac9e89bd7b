\* The metadata file as the sign of a complete pair, after one save.
CONSTANTS
  m1 = m1
  m2 = m2
  m3 = m3
  Models <- MCModels
  Shape <- MCShape
  Loaders = {l1, l2}
  Absent = Absent
  Partial = Partial
  MaxSaves = 1
SPECIFICATION Spec
SYMMETRY LoaderSymmetry
INVARIANTS PresenceMeansComplete
