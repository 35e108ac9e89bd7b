\* A pair that is saved again and again, with crashes and concurrent loads.
CONSTANTS
  m1 = m1
  m2 = m2
  m3 = m3
  Models <- MCModels
  Shape <- MCShape
  Loaders = {l1, l2}
  Absent = Absent
  Partial = Partial
  MaxSaves = 3
SPECIFICATION Spec
INVARIANTS TypeOK FirstSavePairs FirstSaveLoads LastSaveIsLoadable
  QuietLoadsSucceed
SYMMETRY LoaderSymmetry
