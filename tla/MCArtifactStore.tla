--------------------------- MODULE MCArtifactStore ---------------------------
(***************************************************************************)
(* Small instances of ArtifactStore: two models of one shape, which a load  *)
(* cannot tell apart, and one of another shape.                             *)
(***************************************************************************)
EXTENDS ArtifactStore, TLC

CONSTANTS m1, m2, m3

MCModels == {m1, m2, m3}
MCShape == [m \in MCModels |-> IF m = m3 THEN "2x1" ELSE "1x1"]

LoaderSymmetry == Permutations(Loaders)
==============================================================================
