------------------------------ MODULE MCPipeline ------------------------------
(***************************************************************************)
(* Small instances of Pipeline: a feature that is committed with and        *)
(* without a gap, as text, and with equal values; one that is not; and a    *)
(* target that is not in the store.                                         *)
(***************************************************************************)
EXTENDS Pipeline

A == <<1>>
B == <<2>>
Y == <<3>>

Column(v, n, k) == [variant |-> v, name |-> n, rows |-> Len(k), cells |-> k]

MCNames == {A, B, Y}
MCCells == {<<2, 4>>, <<2, Missing, 4>>, <<4, 9>>, <<0, 1>>, <<4, 4, 4>>}
MCParsesAs == [k \in Cells |-> Variants]
\* 9 stands for a number that f32 cannot hold.
MCas_f32 == [x \in 0 .. 9 |-> IF x = 9 THEN 8 ELSE x]

MCOffered ==
  {Column("Int", A, <<2, 4>>), Column("Int", A, <<2, Missing, 4>>),
   Column("Text", A, <<2, 4>>), Column("Int", A, <<4, 4, 4>>),
   Column("Float", B, <<4, 9>>),
   [variant |-> "Raw", rows |-> 2, cells |-> <<2, 4>>]}
MCTargets == {Column("Bool", Y, <<0, 1>>)}

MCFeatureLists ==
  {<<<<A, 1>>, <<B, 1>>>>, <<<<B, 1>>, <<A, 2>>>>, <<<<B, 2>>, <<A, 1>>>>, <<<<A, 2>>>>}
MCFeatureColumns == {<<A, B>>, <<B, A>>, <<A>>}

MCArtifactLabels ==
  {<<>>, <<"alphanumeric", "-">>, <<"/">>, <<"_", "_", "_">>}
==============================================================================
