--------------------------- MODULE RetainedHistory ---------------------------
(***************************************************************************)
(* What FeatureStore promises of one feature's versions, without the Vec it *)
(* keeps them in: versions are numbered from 1 without a gap, the store     *)
(* answers for the first one and for the most recent MaxVersions - 1, and   *)
(* what it answers for a number never changes.                              *)
(***************************************************************************)
EXTENDS Integers

CONSTANTS Names,       \* feature names
          Data,        \* what can be committed
          MaxVersions  \* versions kept of one feature

VARIABLES latest,  \* the number of the last version of each feature, 0 if none
          kept     \* for each feature, the versions that can be looked up

Retained(k) == {v \in 1..k : v = 1 \/ v > k + 1 - MaxVersions}

Init ==
  /\ latest = [n \in Names |-> 0]
  /\ kept = [n \in Names |-> [v \in {} |-> CHOOSE d \in Data : TRUE]]

Commit(n, d) ==
  /\ latest' = [latest EXCEPT ![n] = @ + 1]
  /\ kept' = [kept EXCEPT ![n] =
       [v \in Retained(latest'[n]) |-> IF v = latest'[n] THEN d ELSE @[v]]]

Next == \E n \in Names, d \in Data : Commit(n, d)

Spec == Init /\ [][Next]_<<latest, kept>>
==============================================================================
