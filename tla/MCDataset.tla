------------------------------ MODULE MCDataset ------------------------------
(***************************************************************************)
(* Small instances of Dataset: tables of four rows or none, with columns    *)
(* that have a gap, that are no numbers or that are out with a caller.  Two *)
(* of the integers are one number as f32.                                   *)
(***************************************************************************)
EXTENDS Dataset

Big == 16777216
Numbers == <<1, Big, Big + 1, 1>>

MCCells ==
  {<<>>, Numbers, <<1, Missing, 3, 4>>, <<5, 6, 7, 8>>, <<0, 1, 0, 1>>}
MCas_f32 ==
  [x \in 0 .. 8 \cup {Big, Big + 1} |-> IF x = Big + 1 THEN Big ELSE x]
MCParsesAs == [k \in Cells |-> Variants]

\* A column of any variant; Raw has no name.
Column(v, n, k) ==
  IF v = "Raw" THEN [variant |-> v, rows |-> Len(k), cells |-> k]
               ELSE [variant |-> v, name |-> n, rows |-> Len(k), cells |-> k]

FullTables ==
  {[a |-> Column("Int", "a", k), b |-> Column(v, "b", <<5, 6, 7, 8>>),
    y |-> Column("Bool", "y", <<0, 1, 0, 1>>)] :
      k \in {Numbers, <<1, Missing, 3, 4>>}, v \in {"Float", "Text", "Raw"}}
EmptyTable == [a |-> Column("Int", "a", <<>>), y |-> Column("Bool", "y", <<>>)]

\* d with the columns out of it that callers hold.
Without(d, out) ==
  [data |-> Restrict(d, DOMAIN d \ out),
   checkouts |-> [n \in DOMAIN d |->
                    IF n \in out THEN "CheckedOut" ELSE "Available"]]

MCTables ==
  {Without(d, out) : d \in FullTables, out \in {{}, {"b"}}}
  \cup {Without(EmptyTable, {}), Without(EmptyTable, {"a", "y"})}

MCRatios == {<<0, 1>>, <<1, 2>>, <<7, 10>>, <<1, 1>>, <<5, 4>>}
MCColumnLists ==
  {<<>>, <<"a", "y">>, <<"y", "b", "a">>, <<"b", "c">>, <<"c", "b">>, <<"a", "a">>}
MCFeatureLists == {<<>>, <<"a">>, <<"a", "b">>, <<"b", "a">>, <<"a", "y">>, <<"c">>}
=============================================================================
