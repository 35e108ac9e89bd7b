---------------------------- MODULE MCFeatureStore ----------------------------
(***************************************************************************)
(* Small instances of FeatureStore.  The second name's bytes contain the     *)
(* first name and a version number: a digest that does not separate names   *)
(* from numbers takes the two orders of the features for the same list.     *)
(***************************************************************************)
EXTENDS FeatureStore

A == <<1>>
B == <<1, 1, 0, 1>>

MCNames == {A, B}
MCParsesAs == [k \in Cells |-> Variants]

\* The first feature changes its length between commits, the second does not.
MCOffered ==
  {[variant |-> "Int", name |-> A, rows |-> r, cells |-> k] :
     r \in RowCounts, k \in Cells}
  \cup {[variant |-> "Int", name |-> B, rows |-> 1, cells |-> k] : k \in Cells}
  \cup {[variant |-> "Raw", rows |-> 1, cells |-> k] : k \in Cells}

\* Lists of one and two features in both orders, the empty list, versions that
\* get pruned, that are not there yet, and names listed twice.
MCFeatureLists ==
  {<<>>, <<<<A, 1>>>>, <<<<A, 2>>>>,
   <<<<A, 1>>, <<B, 1>>>>, <<<<B, 1>>, <<A, 1>>>>,
   <<<<A, 2>>, <<B, 1>>>>, <<<<B, 2>>, <<A, 3>>>>, <<<<A, 1>>, <<A, 2>>>>}
==============================================================================
