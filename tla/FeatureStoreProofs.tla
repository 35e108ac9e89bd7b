-------------------------- MODULE FeatureStoreProofs --------------------------
(***************************************************************************)
(* Theorems of FeatureStore for every number of features, commits and       *)
(* snapshots and every max_versions the constructor accepts.                *)
(***************************************************************************)
EXTENDS FeatureStore, Induction, SequenceTheorems, TLAPS

\* Vec::remove(1): the second element is gone, the others keep their order.
LEMMA RemoveSecond ==
  ASSUME NEW S, NEW L \in Nat, L > 1,
         NEW s \in Seq(S), Len(s) = L
  PROVE  /\ RemoveAt(s, 2) \in Seq(S)
         /\ Len(RemoveAt(s, 2)) = L - 1
         /\ \A i \in 1..(L - 1) :
              RemoveAt(s, 2)[i] = IF i = 1 THEN s[1] ELSE s[i + 1]
<1> DEFINE l == SubSeq(s, 1, 1)
           r == SubSeq(s, 3, L)
<1>1. \A i \in 1..L : s[i] \in S
  BY ElementOfSeq
<1>2. /\ l \in Seq(S) /\ Len(l) = 1
      /\ l[1] = s[1]
  BY <1>1, SubSeqProperties
<1>3. /\ r \in Seq(S) /\ Len(r) = L - 2
      /\ \A i \in 1..(L - 2) : r[i] = s[i + 2]
  <2>1. /\ r \in Seq(S)
        /\ Len(r) = IF 3 <= L THEN L - 3 + 1 ELSE 0
        /\ \A i \in 1..(L - 3 + 1) : r[i] = s[3 + i - 1]
    BY <1>1, SubSeqProperties
  <2> HIDE DEF r
  <2>2. Len(r) = L - 2
    <3>1. CASE L = 2
      BY <2>1, <3>1
    <3>2. CASE 3 <= L
      BY <2>1, <1>1, <3>2
    <3> QED
      BY <3>1, <3>2, <1>1
  <2>3. ASSUME NEW i \in 1..(L - 2)
        PROVE  r[i] = s[i + 2]
    <3>1. i \in 1..(L - 3 + 1) /\ 3 + i - 1 = i + 2
      BY <1>1
    <3> QED
      BY <3>1, <2>1
  <2> QED
    BY <2>1, <2>2, <2>3
<1>4. /\ l \o r \in Seq(S)
      /\ Len(l \o r) = L - 1
      /\ \A i \in 1..(L - 1) :
           (l \o r)[i] = IF i <= 1 THEN l[i] ELSE r[i - 1]
  <2> HIDE DEF l, r
  <2>1. /\ l \o r \in Seq(S)
        /\ Len(l \o r) = Len(l) + Len(r)
        /\ \A i \in 1..(Len(l) + Len(r)) :
             (l \o r)[i] = IF i <= Len(l) THEN l[i] ELSE r[i - Len(l)]
    BY <1>2, <1>3, ConcatProperties
  <2>2. Len(l) = 1 /\ Len(l) + Len(r) = L - 1
    BY <1>1, <1>2, <1>3
  <2> QED
    BY <2>1, <2>2
<1>5. RemoveAt(s, 2) = l \o r
  BY DEF RemoveAt
<1> HIDE DEF l, r
<1>6. ASSUME NEW i \in 1..(L - 1)
      PROVE  (l \o r)[i] = IF i = 1 THEN s[1] ELSE s[i + 1]
  <2>1. CASE i = 1
    BY <2>1, <1>1, <1>2, <1>4
  <2>2. CASE i # 1
    <3>1. i - 1 \in 1..(L - 2)
      BY <2>2, <1>1
    <3>2. r[i - 1] = s[(i - 1) + 2]
      BY <3>1, <1>3
    <3> QED
      BY <2>2, <3>2, <1>1, <1>4
  <2> QED
    BY <2>1, <2>2
<1> QED
  BY <1>4, <1>5, <1>6

\* The largest version number in a window is the number of commits.
LEMMA WindowMaximum ==
  ASSUME NEW vs \in Seq(ColumnVersion), NEW h \in Seq(Typed), NEW name,
         Window(vs, h, name)
  PROVE  max_version(vs) = Len(h)
<1> DEFINE L == Len(vs)
           k == Len(h)
           M == MaxVersions
<1>0. /\ L \in Nat /\ k \in Nat /\ M \in Nat /\ M >= 2
      /\ DOMAIN vs = 1..L
      /\ vs = <<>> <=> L = 0
  BY LenProperties, EmptySeq, FeatureStoreAssumption
<1>l. (k <= M => L = k) /\ (k > M => L = M)
  BY DEF Window
<1>w. \A i \in 1..L :
        /\ i = 1 => vs[i].version_number = 1
        /\ i > 1 => vs[i].version_number = k - L + i
  BY DEF Window
<1> HIDE DEF L, k, M
<1> SUFFICES max_version(vs) = k
  BY DEF k
<1>1. CASE vs = <<>>
  <2>1. k = 0
    BY <1>1, <1>0, <1>l
  <2> QED
    BY <1>1, <2>1 DEF max_version
<1>2. CASE vs # <<>>
  <2> DEFINE N == {vs[i].version_number : i \in DOMAIN vs}
  <2>1. L > 0 /\ L <= k
    <3>1. L > 0
      BY <1>0, <1>2
    <3> QED
      BY <3>1, <1>0, <1>l
  <2>2. ASSUME NEW i \in 1..L
        PROVE  /\ vs[i].version_number \in Nat
               /\ vs[i].version_number <= k
               /\ i = L => vs[i].version_number = k
    <3>1. CASE i = 1
      <4>1. vs[i].version_number = 1
        BY <3>1, <1>w
      <4>2. i = L => k = 1
        BY <3>1, <1>0, <1>l
      <4> QED
        BY <4>1, <4>2, <2>1, <1>0
    <3>2. CASE i > 1
      <4>1. vs[i].version_number = k - L + i
        BY <3>2, <1>w
      <4>2. k - L + i \in Nat /\ k - L + i <= k /\ (i = L => k - L + i = k)
        BY <3>2, <2>1, <1>0
      <4> QED
        BY <4>1, <4>2
    <3> QED
      BY <3>1, <3>2, <1>0
  <2>3. k \in N
    <3>1. L \in 1..L /\ vs[L].version_number = k
      BY <2>1, <2>2, <1>0
    <3> QED
      BY <3>1, <1>0
  <2>4. \A x \in N : x \in Nat /\ x <= k
    BY <2>2, <1>0
  <2>5. Max(N) = k
    <3> HIDE DEF N
    <3>1. \A x \in N : (\A y \in N : x >= y) => x = k
      BY <2>3, <2>4, <1>0
    <3>2. \A y \in N : k >= y
      BY <2>4
    <3> QED
      BY <2>3, <3>1, <3>2 DEF Max
  <2> QED
    BY <1>2, <2>5 DEF max_version
<1> QED
  BY <1>1, <1>2

\* commit keeps the window: pushing the number after the largest one and, when
\* that is one version too many, removing the second.
LEMMA CommitKeepsWindow ==
  ASSUME NEW vs \in Seq(ColumnVersion), NEW h \in Seq(Typed),
         NEW name \in Names, NEW d \in Typed,
         Window(vs, h, name)
  PROVE  LET new == [data |-> d, version_number |-> max_version(vs) + 1,
                     name |-> name]
         IN /\ Pruned(Append(vs, new)) \in Seq(ColumnVersion)
            /\ Window(Pruned(Append(vs, new)), Append(h, d), name)
<1> DEFINE new == [data |-> d, version_number |-> max_version(vs) + 1,
                   name |-> name]
           ps == Append(vs, new)
           g == Append(h, d)
<1> SUFFICES /\ Pruned(ps) \in Seq(ColumnVersion)
             /\ Window(Pruned(ps), g, name)
  OBVIOUS
<1> DEFINE L == Len(vs)
           k == Len(h)
           M == MaxVersions
<1>0. L \in Nat /\ k \in Nat /\ M \in Nat /\ M >= 2
  BY LenProperties, FeatureStoreAssumption
<1>2. max_version(vs) = k
  BY WindowMaximum
<1>3. new \in ColumnVersion
  BY <1>2 DEF ColumnVersion
<1>4. /\ ps \in Seq(ColumnVersion) /\ Len(ps) = L + 1
      /\ \A i \in 1..L : ps[i] = vs[i]
      /\ ps[L + 1] = new
      /\ Len(ps) > MaxVersions <=> L + 1 > M
  BY <1>3, AppendProperties
<1>5. /\ g \in Seq(Typed) /\ Len(g) = k + 1
      /\ \A v \in 1..k : g[v] = h[v]
      /\ g[k + 1] = d
  BY AppendProperties
<1>l. (k <= M => L = k) /\ (k > M => L = M)
  BY DEF Window
<1>w. \A i \in 1..L :
        /\ i = 1 => vs[i].version_number = 1
        /\ i > 1 => vs[i].version_number = k - L + i
        /\ vs[i].data = h[vs[i].version_number]
        /\ vs[i].name = name
  BY DEF Window
\* Being a window, in the abbreviations used here.
<1>v. ASSUME NEW qs \in Seq(ColumnVersion), NEW n \in Nat, Len(qs) = n,
             k + 1 <= M => n = k + 1,
             k + 1 > M => n = M,
             \A i \in 1..n :
               /\ i = 1 => qs[i].version_number = 1
               /\ i > 1 => qs[i].version_number = (k + 1) - n + i
               /\ qs[i].data = g[qs[i].version_number]
               /\ qs[i].name = name
      PROVE  Window(qs, g, name)
  BY <1>v, <1>5 DEF Window
<1> HIDE DEF L, k, M, ps, g
<1> USE <1>0
\* The pushed Vec is a window that is not cut off on the left.
<1>6. /\ k > 0 => L > 0
      /\ \A i \in 1..(L + 1) :
            /\ i = 1 => ps[i].version_number = 1
            /\ i > 1 => ps[i].version_number = k - L + i
            /\ ps[i].data = g[ps[i].version_number]
            /\ ps[i].name = name
  <2>1. k > 0 => L > 0
    BY <1>l
  <2>2. ASSUME NEW i \in 1..L
        PROVE  /\ i = 1 => ps[i].version_number = 1
               /\ i > 1 => ps[i].version_number = k - L + i
               /\ ps[i].data = g[ps[i].version_number]
               /\ ps[i].name = name
    <3>1. vs[i].version_number \in 1..k
      <4>1. L <= k
        BY <1>l
      <4>2. CASE i = 1
        BY <4>1, <4>2, <1>w
      <4>3. CASE i > 1
        <5>1. k - L + i \in 1..k
          BY <4>1, <4>3
        <5> QED
          BY <5>1, <4>3, <1>w
      <4> QED
        BY <4>2, <4>3
    <3> HIDE DEF new
    <3> QED
      BY <3>1, <1>4, <1>5, <1>w
  <2>3. /\ L + 1 = 1 => ps[L + 1].version_number = 1
        /\ L + 1 > 1 => ps[L + 1].version_number = k - L + (L + 1)
        /\ ps[L + 1].data = g[ps[L + 1].version_number]
        /\ ps[L + 1].name = name
    <3>1. new.version_number = k + 1 /\ new.data = d /\ new.name = name
      BY <1>2
    <3>2. L = 0 => k = 0
      BY <2>1
    <3> HIDE DEF new
    <3>3. ps[L + 1].version_number = k + 1
      BY <3>1, <1>4
    <3> QED
      BY <3>1, <3>2, <3>3, <1>4, <1>5
  <2> HIDE DEF new
  <2>4. ASSUME NEW i \in 1..(L + 1)
        PROVE  i \in 1..L \/ i = L + 1
    OBVIOUS
  <2> QED
    BY <2>1, <2>2, <2>3, <2>4
<1>7. CASE L + 1 > M
  <2>1. L = M /\ k >= M
    BY <1>7, <1>l
  <2>2. Pruned(ps) = RemoveAt(ps, 2)
    BY <1>4, <1>7 DEF Pruned
  <2> HIDE DEF new
  <2>3. /\ RemoveAt(ps, 2) \in Seq(ColumnVersion)
        /\ Len(RemoveAt(ps, 2)) = L
        /\ \A i \in 1..L :
              RemoveAt(ps, 2)[i] = IF i = 1 THEN ps[1] ELSE ps[i + 1]
    <3> PICK N \in Nat : N = L + 1
      OBVIOUS
    <3>1. N > 1 /\ N - 1 = L
      BY <2>1
    <3>2. /\ RemoveAt(ps, 2) \in Seq(ColumnVersion)
          /\ Len(RemoveAt(ps, 2)) = N - 1
          /\ \A i \in 1..(N - 1) :
                RemoveAt(ps, 2)[i] = IF i = 1 THEN ps[1] ELSE ps[i + 1]
      BY <3>1, <1>4, RemoveSecond
    <3> QED
      BY <3>1, <3>2
  <2>4. ASSUME NEW i \in 1..L
        PROVE  /\ i = 1 => RemoveAt(ps, 2)[i].version_number = 1
               /\ i > 1 => RemoveAt(ps, 2)[i].version_number
                              = (k + 1) - L + i
               /\ RemoveAt(ps, 2)[i].data
                    = g[RemoveAt(ps, 2)[i].version_number]
               /\ RemoveAt(ps, 2)[i].name = name
    <3>1. CASE i = 1
      <4>1. RemoveAt(ps, 2)[i] = ps[1] /\ 1 \in 1..(L + 1)
        BY <3>1, <2>3
      <4> QED
        BY <4>1, <3>1, <1>6
    <3>2. CASE i > 1
      <4>1. RemoveAt(ps, 2)[i] = ps[i + 1] /\ i + 1 \in 1..(L + 1)
        BY <3>2, <2>3
      <4>2. i + 1 > 1 /\ k - L + (i + 1) = (k + 1) - L + i
        BY <3>2
      <4> QED
        BY <4>1, <4>2, <3>2, <1>6
    <3> QED
      BY <3>1, <3>2
  <2>5. Window(RemoveAt(ps, 2), g, name)
    <3>1. (k + 1 <= M => L = k + 1) /\ (k + 1 > M => L = M)
      BY <2>1, <1>0
    <3> QED
      BY <3>1, <2>3, <2>4, <1>0, <1>v
  <2> QED
    BY <2>2, <2>3, <2>5
<1>8. CASE L + 1 <= M
  <2>1. L = k
    BY <1>8, <1>l
  <2>2. Pruned(ps) = ps
    BY <1>4, <1>8 DEF Pruned
  <2> HIDE DEF new
  <2>3. Window(ps, g, name)
    <3> DEFINE n == L + 1
    <3>1. /\ n \in Nat
          /\ k + 1 <= M => n = k + 1
          /\ k + 1 > M => n = M
          /\ \A i \in 1..n : k - L + i = (k + 1) - n + i
      BY <2>1, <1>0, <1>8
    <3>2. \A i \in 1..n :
            /\ i = 1 => ps[i].version_number = 1
            /\ i > 1 => ps[i].version_number = (k + 1) - n + i
            /\ ps[i].data = g[ps[i].version_number]
            /\ ps[i].name = name
      BY <3>1, <1>6
    <3> HIDE DEF n
    <3>3. Len(ps) = n
      BY <1>4 DEF n
    <3> QED
      BY <3>1, <3>2, <3>3, <1>4, <1>v
  <2> QED
    BY <2>2, <2>3, <1>4
<1> QED
  BY <1>7, <1>8

-----------------------------------------------------------------------------
(* The inductive invariant.                                                  *)

IInv == TypeOK /\ RetainedVersions

\* What a caller commits is named like one of the features.
LEMMA TypedHasName ==
  ASSUME NEW d \in Offered, d.variant # "Raw"
  PROVE  d \in Typed /\ d.name \in Names
BY TableDataAssumption, FeatureStoreAssumption
   DEF Typed, ColumnData, TypedColumn, RawColumn

\* What commit and the lookups read under a name is a list of its versions.
LEMMA VersionsOfType ==
  ASSUME TypeOK, NEW n \in Names
  PROVE  VersionsOf(n) \in Seq(ColumnVersion)
<1>1. CASE n \in DOMAIN versions
  BY <1>1 DEF TypeOK, VersionsOf
<1>2. CASE n \notin DOMAIN versions
  BY <1>2, EmptySeq DEF VersionsOf
<1> QED
  BY <1>1, <1>2

\* An empty store: every feature's history and Vec are empty.
LEMMA InitInv == Init => IInv
<1> SUFFICES ASSUME Init PROVE IInv
  OBVIOUS
<1>1. TypeOK
  BY EmptySeq DEF Init, TypeOK
<1>2. RetainedVersions
  <2> SUFFICES ASSUME NEW n \in Names
               PROVE  /\ Window(VersionsOf(n), history[n], n)
                      /\ n \in DOMAIN versions <=> history[n] # <<>>
    BY DEF RetainedVersions
  <2>1. history[n] = <<>> /\ VersionsOf(n) = <<>> /\ n \notin DOMAIN versions
    BY DEF Init, VersionsOf
  <2>2. Len(<<>>) = 0 /\ ~ 0 > MaxVersions
    BY EmptySeq, FeatureStoreAssumption
  <2>3. Window(<<>>, <<>>, n)
    BY <2>2 DEF Window
  <2> QED
    BY <2>1, <2>3
<1> QED
  BY <1>1, <1>2 DEF IInv

\* A commit replaces one feature's Vec by the next window and appends to that
\* feature's history; it leaves the other features alone.
LEMMA CommitStep ==
  ASSUME IInv, NEW d \in Offered, commit(d), d.variant # "Raw"
  PROVE  LET vs == VersionsOf(d.name)
             new == [data |-> d, version_number |-> max_version(vs) + 1,
                     name |-> d.name]
         IN /\ d \in Typed /\ d.name \in Names
            /\ versions' = insert(versions, d.name, Pruned(Append(vs, new)))
            /\ Pruned(Append(vs, new)) \in Seq(ColumnVersion)
            /\ history' = [history EXCEPT ![d.name] = Append(@, d)]
            /\ history[d.name] \in Seq(Typed)
            /\ Append(history[d.name], d) \in Seq(Typed)
            /\ Append(history[d.name], d) # <<>>
            /\ Window(Pruned(Append(vs, new)), Append(history[d.name], d),
                      d.name)
            /\ snapshots' = snapshots
<1> DEFINE vs == VersionsOf(d.name)
           new == [data |-> d, version_number |-> max_version(vs) + 1,
                   name |-> d.name]
<1>1. d \in Typed /\ d.name \in Names
  BY TypedHasName
<1>2. vs \in Seq(ColumnVersion)
  BY <1>1, VersionsOfType DEF IInv
<1>3. history[d.name] \in Seq(Typed)
  BY <1>1 DEF IInv, TypeOK
<1>4. Window(vs, history[d.name], d.name)
  BY <1>1 DEF IInv, RetainedVersions
<1>5. /\ Pruned(Append(vs, new)) \in Seq(ColumnVersion)
      /\ Window(Pruned(Append(vs, new)), Append(history[d.name], d), d.name)
  BY <1>1, <1>2, <1>3, <1>4, CommitKeepsWindow
<1>6. /\ Append(history[d.name], d) \in Seq(Typed)
      /\ Append(history[d.name], d) # <<>>
  BY <1>1, <1>3, AppendProperties
<1>7. /\ versions' = insert(versions, d.name, Pruned(Append(vs, new)))
      /\ history' = [history EXCEPT ![d.name] = Append(@, d)]
      /\ snapshots' = snapshots
  BY DEF commit
<1> QED
  BY <1>1, <1>3, <1>5, <1>6, <1>7

\* commit appends to one feature's Vec and to its history alike.
LEMMA CommitPreservesInv ==
  ASSUME IInv, NEW d \in Offered, commit(d), d.variant # "Raw"
  PROVE  IInv'
<1> DEFINE vs == VersionsOf(d.name)
           new == [data |-> d, version_number |-> max_version(vs) + 1,
                   name |-> d.name]
           ps == Pruned(Append(vs, new))
           g == Append(history[d.name], d)
<1>1. /\ d.name \in Names
      /\ versions' = insert(versions, d.name, ps)
      /\ ps \in Seq(ColumnVersion)
      /\ history' = [history EXCEPT ![d.name] = g]
      /\ g \in Seq(Typed) /\ g # <<>>
      /\ Window(ps, g, d.name)
      /\ snapshots' = snapshots
  BY CommitStep
<1> HIDE DEF vs, new, ps, g
<1>2. /\ DOMAIN versions' = DOMAIN versions \cup {d.name}
      /\ versions'[d.name] = ps
      /\ \A n \in DOMAIN versions : n # d.name => versions'[n] = versions[n]
  BY <1>1 DEF insert
<1>3. /\ history \in [Names -> Seq(Typed)]
      /\ history'[d.name] = g
      /\ \A n \in Names : n # d.name => history'[n] = history[n]
  BY <1>1 DEF IInv, TypeOK
<1>4. TypeOK'
  <2>1. DOMAIN versions' \subseteq Names
    BY <1>1, <1>2 DEF IInv, TypeOK
  <2>2. \A n \in DOMAIN versions' : versions'[n] \in Seq(ColumnVersion)
    BY <1>1, <1>2 DEF IInv, TypeOK
  <2>3. history' \in [Names -> Seq(Typed)]
    BY <1>1, <1>3
  <2>4. \A id \in DOMAIN snapshots' :
          snapshots'[id] \in [ordered_features : FeatureLists, label : Labels]
    BY <1>1 DEF IInv, TypeOK
  <2> QED
    BY <2>1, <2>2, <2>3, <2>4 DEF TypeOK, ColumnVersion
<1>5. RetainedVersions'
  <2>1. ASSUME NEW n \in Names
        PROVE  /\ Window(VersionsOf(n)', history'[n], n)
               /\ n \in DOMAIN versions' <=> history'[n] # <<>>
    <3>1. CASE n = d.name
      <4>1. VersionsOf(n)' = ps
        BY <3>1, <1>2 DEF VersionsOf
      <4> QED
        BY <3>1, <4>1, <1>1, <1>2, <1>3
    <3>2. CASE n # d.name
      <4>1. VersionsOf(n)' = VersionsOf(n)
        BY <3>2, <1>2 DEF VersionsOf
      <4>2. /\ Window(VersionsOf(n), history[n], n)
            /\ n \in DOMAIN versions <=> history[n] # <<>>
        BY DEF IInv, RetainedVersions
      <4> QED
        BY <3>2, <4>1, <4>2, <1>2, <1>3
    <3> QED
      BY <3>1, <3>2
  <2> QED
    BY <2>1 DEF RetainedVersions, Window
<1> QED
  BY <1>4, <1>5 DEF IInv

\* The retained versions depend on the versions and the history only.
LEMMA RetainedUnchanged ==
  ASSUME RetainedVersions, versions' = versions, history' = history
  PROVE  RetainedVersions'
<1>1. ASSUME NEW n \in Names
      PROVE  /\ Window(VersionsOf(n)', history'[n], n)
             /\ n \in DOMAIN versions' <=> history'[n] # <<>>
  <2>1. VersionsOf(n)' = VersionsOf(n)
    BY DEF VersionsOf
  <2> QED
    BY <2>1 DEF RetainedVersions
<1> QED
  BY <1>1 DEF RetainedVersions, Window

\* create_snapshot touches no version.
LEMMA SnapshotPreservesInv ==
  ASSUME IInv, NEW of \in FeatureLists, NEW label \in Labels,
         create_snapshot(of, label)
  PROVE  IInv'
<1> DEFINE s == [ordered_features |-> of, label |-> label]
           id == compute_snapshot_id(of)
<1>1. /\ snapshots' = insert(snapshots, id, s)
      /\ versions' = versions /\ history' = history
  BY DEF create_snapshot
<1>2. s \in [ordered_features : FeatureLists, label : Labels]
  OBVIOUS
<1> HIDE DEF s, id
<1>3. \A i \in DOMAIN snapshots' :
        snapshots'[i] \in [ordered_features : FeatureLists, label : Labels]
  <2>1. /\ DOMAIN snapshots' = DOMAIN snapshots \cup {id}
        /\ snapshots'[id] = s
        /\ \A i \in DOMAIN snapshots :
             i # id => snapshots'[i] = snapshots[i]
    BY <1>1 DEF insert
  <2> QED
    BY <2>1, <1>2 DEF IInv, TypeOK
<1>4. TypeOK'
  BY <1>1, <1>3 DEF IInv, TypeOK
<1>5. RetainedVersions'
  BY <1>1, RetainedUnchanged DEF IInv
<1> QED
  BY <1>4, <1>5 DEF IInv

\* A refused call changes nothing.
LEMMA StutterPreservesInv == IInv /\ UNCHANGED vars => IInv'
<1> SUFFICES ASSUME IInv, UNCHANGED vars PROVE IInv'
  OBVIOUS
<1>1. TypeOK'
  BY DEF IInv, TypeOK, vars
<1>2. RetainedVersions'
  BY RetainedUnchanged DEF IInv, vars
<1> QED
  BY <1>1, <1>2 DEF IInv

\* Each operation of the store preserves the invariant.
LEMMA NextPreservesInv == IInv /\ [Next]_vars => IInv'
<1> SUFFICES ASSUME IInv, [Next]_vars
             PROVE  IInv'
  OBVIOUS
<1>1. ASSUME NEW d \in Offered, commit(d)
      PROVE  IInv'
  <2>1. CASE d.variant = "Raw"
    BY <1>1, <2>1, StutterPreservesInv DEF commit
  <2>2. CASE d.variant # "Raw"
    BY <1>1, <2>2, CommitPreservesInv
  <2> QED
    BY <2>1, <2>2
<1>2. ASSUME NEW of \in FeatureLists, NEW label \in Labels,
             create_snapshot(of, label)
      PROVE  IInv'
  BY <1>2, SnapshotPreservesInv
<1>3. CASE UNCHANGED vars
  BY <1>3, StutterPreservesInv
<1> QED
  BY <1>1, <1>2, <1>3 DEF Next

\* The invariant of the store, from which the theorems below follow.
LEMMA Invariance == Spec => []IInv
<1>1. Init => IInv
  BY InitInv
<1>2. IInv /\ [Next]_vars => IInv'
  BY NextPreservesInv
<1> QED
  BY <1>1, <1>2, PTL DEF Spec

\* Type correctness of the store.
THEOREM TypeCorrectness == Spec => []TypeOK
<1>1. IInv => TypeOK
  BY DEF IInv
<1> QED
  BY <1>1, Invariance, PTL

\* Whatever is committed, every feature's Vec is version 1 followed by the most
\* recent versions without a gap, max_versions in all (commit).
THEOREM VersionsRetained == Spec => []RetainedVersions
<1>1. IInv => RetainedVersions
  BY DEF IInv
<1> QED
  BY <1>1, Invariance, PTL

-----------------------------------------------------------------------------
(* What get_version answers.                                                 *)

Retained(k, v) == v \in 1..k /\ (v = 1 \/ v > k + 1 - MaxVersions)

\* In a window every number occurs once, and the numbers are the retained ones.
LEMMA WindowNumbers ==
  ASSUME NEW vs \in Seq(ColumnVersion), NEW h \in Seq(Typed), NEW name,
         Window(vs, h, name)
  PROVE  /\ \A i, j \in 1..Len(vs) :
              vs[i].version_number = vs[j].version_number => i = j
         /\ \A i \in 1..Len(vs) : Retained(Len(h), vs[i].version_number)
         /\ \A v : Retained(Len(h), v) =>
              \E i \in 1..Len(vs) : vs[i].version_number = v
<1> DEFINE L == Len(vs)
           k == Len(h)
           M == MaxVersions
<1>0. /\ L \in Nat /\ k \in Nat /\ M \in Nat /\ M >= 2
  BY LenProperties, FeatureStoreAssumption
<1>1. (k <= M => L = k) /\ (k > M => L = M)
  BY DEF Window
<1>2. \A i \in 1..L :
        /\ i = 1 => vs[i].version_number = 1
        /\ i > 1 => vs[i].version_number = k - L + i
  BY DEF Window
<1>3. \A v : Retained(k, v) <=> v \in 1..k /\ (v = 1 \/ v > k + 1 - M)
  BY DEF Retained
<1> HIDE DEF L, k, M
<1> SUFFICES /\ \A i, j \in 1..L :
                  vs[i].version_number = vs[j].version_number => i = j
             /\ \A i \in 1..L : Retained(k, vs[i].version_number)
             /\ \A v : Retained(k, v) =>
                  \E i \in 1..L : vs[i].version_number = v
  BY DEF L, k
<1>4. L <= k /\ (L < k => L = M) /\ (k > 0 => L > 0)
  BY <1>0, <1>1
<1>5. ASSUME NEW i \in 1..L, NEW j \in 1..L,
             vs[i].version_number = vs[j].version_number
      PROVE  i = j
  <2>1. CASE i = 1 /\ j = 1
    BY <2>1
  <2>2. CASE i = 1 /\ j > 1
    <3>1. 1 = k - L + j
      BY <1>2, <1>5, <2>2
    <3> QED
      BY <3>1, <2>2, <1>0, <1>4
  <2>3. CASE i > 1 /\ j = 1
    <3>1. 1 = k - L + i
      BY <1>2, <1>5, <2>3
    <3> QED
      BY <3>1, <2>3, <1>0, <1>4
  <2>4. CASE i > 1 /\ j > 1
    <3>1. k - L + i = k - L + j
      BY <1>2, <1>5, <2>4
    <3> QED
      BY <3>1, <1>0
  <2> QED
    BY <2>1, <2>2, <2>3, <2>4, <1>0
<1>6. ASSUME NEW i \in 1..L
      PROVE  Retained(k, vs[i].version_number)
  <2>1. CASE i = 1
    <3>1. 1 \in 1..k
      BY <2>1, <1>0, <1>4
    <3> QED
      BY <3>1, <2>1, <1>2, <1>3
  <2>2. CASE i > 1
    <3>1. vs[i].version_number = k - L + i
      BY <2>2, <1>2
    <3>2. k - L + i \in 1..k
      BY <2>2, <1>0, <1>4
    <3>3. k - L + i > k + 1 - M
      BY <2>2, <1>0, <1>1
    <3> QED
      BY <3>1, <3>2, <3>3, <1>3
  <2> QED
    BY <2>1, <2>2, <1>0
<1>7. ASSUME NEW v, Retained(k, v)
      PROVE  \E i \in 1..L : vs[i].version_number = v
  <2>1. v \in 1..k /\ (v = 1 \/ v > k + 1 - M)
    BY <1>7, <1>3
  <2>2. CASE v = 1
    <3>1. 1 \in 1..L
      BY <2>1, <1>0, <1>4
    <3> QED
      BY <3>1, <2>2, <1>2
  <2>3. CASE v > 1
    <3> DEFINE i == v - (k - L)
    <3>1. /\ i \in 1..L /\ i > 1
          /\ k - L + i = v
      <4>1. CASE L = k
        BY <4>1, <2>1, <2>3, <1>0
      <4>2. CASE L < k
        BY <4>2, <2>1, <2>3, <1>0, <1>4
      <4> QED
        BY <4>1, <4>2, <1>0, <1>4
    <3> HIDE DEF i
    <3> QED
      BY <3>1, <1>2
  <2> QED
    BY <2>1, <2>2, <2>3, <1>0
<1> QED
  BY <1>5, <1>6, <1>7

\* The answer of get_version in terms of the commits alone.
Found(n, v) ==
  IF Retained(Len(history[n]), v)
    THEN [data |-> history[n][v], version_number |-> v, name |-> n]
    ELSE NotFound

\* get_version gives that answer while the Vecs are windows, and a version that
\* is there is not mistaken for none.
LEMMA FindVersion ==
  ASSUME IInv, NEW n \in Names, NEW v
  PROVE  /\ get_version(n, v) = Found(n, v)
         /\ Retained(Len(history[n]), v) => Found(n, v) # NotFound
<1> DEFINE vs == VersionsOf(n)
           h == history[n]
           I == {i \in 1..Len(vs) : vs[i].version_number = v}
<1>1. /\ vs \in Seq(ColumnVersion) /\ h \in Seq(Typed)
      /\ Window(vs, h, n)
  BY VersionsOfType DEF IInv, TypeOK, RetainedVersions
<1>2. get_version(n, v) = IF (IF I # {} THEN Min(I) ELSE 0) = 0 THEN NotFound
                          ELSE vs[IF I # {} THEN Min(I) ELSE 0]
  BY DEF get_version, SelectInSeq
<1>w. \A i \in 1..Len(vs) : /\ vs[i].data = h[vs[i].version_number]
                            /\ vs[i].name = n
  BY <1>1 DEF Window
<1> HIDE DEF vs, h
<1>3. CASE I = {}
  <2>1. ~ Retained(Len(h), v)
    BY <1>3, <1>1, WindowNumbers
  <2> QED
    BY <2>1, <1>2, <1>3 DEF Found, h
<1>4. CASE I # {}
  <2>1. PICK i \in 1..Len(vs) : vs[i].version_number = v
    BY <1>4
  <2>2. I = {i}
    BY <2>1, <1>1, WindowNumbers
  <2>3. Len(vs) \in Nat
    BY <1>1, LenProperties
  <2>4. Min(I) = i
    BY <2>2, <2>3 DEF Min
  <2>5. get_version(n, v) = vs[i]
    BY <1>2, <1>4, <2>3, <2>4
  <2>6. vs[i] \in ColumnVersion
    BY <1>1, <2>3, ElementOfSeq
  <2>7. vs[i] = [data |-> h[v], version_number |-> v, name |-> n]
    BY <2>1, <2>6, <1>w DEF ColumnVersion
  <2>8. Retained(Len(h), v)
    BY <2>1, <1>1, WindowNumbers
  <2>9. vs[i] # NotFound
    BY <2>6, FeatureStoreAssumption DEF ColumnVersion, Typed
  <2> QED
    BY <2>5, <2>7, <2>8, <2>9 DEF Found, h
<1> QED
  BY <1>3, <1>4

\* get_version forgets exactly what pruning is documented to forget and never
\* answers for a number with anything but what was committed under it.
THEOREM LookupCorrectness == Spec => []LookupMatchesHistory
<1>1. IInv => LookupMatchesHistory
  <2> SUFFICES ASSUME IInv, NEW n \in Names, NEW v \in 0..(MaxCommits + 1)
               PROVE  IF Retained(Len(history[n]), v)
                        THEN /\ get_version(n, v) # NotFound
                             /\ get_version(n, v).data = history[n][v]
                        ELSE get_version(n, v) = NotFound
    BY DEF LookupMatchesHistory, Retained
  <2>1. /\ get_version(n, v) = Found(n, v)
        /\ Retained(Len(history[n]), v) => Found(n, v) # NotFound
    BY FindVersion
  <2> QED
    BY <2>1 DEF Found
<1> QED
  BY <1>1, Invariance, PTL

\* Histories only ever grow at their end.
LEMMA HistoryGrows ==
  ASSUME IInv, [Next]_vars, NEW n \in Names
  PROVE  /\ Len(history[n]) \in Nat /\ Len(history'[n]) \in Nat
         /\ Len(history[n]) <= Len(history'[n])
         /\ \A v \in 1..Len(history[n]) : history'[n][v] = history[n][v]
<1>1. history[n] \in Seq(Typed) /\ Len(history[n]) \in Nat
  BY LenProperties DEF IInv, TypeOK
<1>2. CASE history' = history
  BY <1>1, <1>2
<1>3. ASSUME NEW d \in Offered, commit(d), d.variant # "Raw"
      PROVE  /\ Len(history'[n]) \in Nat
             /\ Len(history[n]) <= Len(history'[n])
             /\ \A v \in 1..Len(history[n]) : history'[n][v] = history[n][v]
  <2>1. /\ d \in Typed
        /\ history' = [history EXCEPT ![d.name] = Append(history[d.name], d)]
        /\ history \in [Names -> Seq(Typed)]
    BY <1>3, CommitStep DEF IInv, TypeOK
  <2>2. CASE n # d.name
    BY <2>1, <2>2, <1>1
  <2>3. CASE n = d.name
    <3>1. history'[n] = Append(history[n], d)
      BY <2>1, <2>3
    <3>2. /\ Len(history'[n]) = Len(history[n]) + 1
          /\ \A v \in 1..Len(history[n]) : history'[n][v] = history[n][v]
      BY <3>1, <2>1, <1>1, AppendProperties
    <3> QED
      BY <3>2, <1>1
  <2> QED
    BY <2>2, <2>3
<1>4. ASSUME NEW d \in Offered, commit(d), d.variant = "Raw"
      PROVE  history' = history
  BY <1>4 DEF commit, vars
<1>5. ASSUME NEW of \in FeatureLists, NEW label \in Labels,
             create_snapshot(of, label)
      PROVE  history' = history
  BY <1>5 DEF create_snapshot
<1>6. UNCHANGED vars => history' = history
  BY DEF vars
<1> QED
  BY <1>1, <1>2, <1>3, <1>4, <1>5, <1>6 DEF Next

\* In a window, get_version finds a number exactly if it is the first one or
\* among the most recent, and then the column that was committed under it.
LEMMA Lookups ==
  IInv => \A n \in Names : \A v : get_version(n, v) = Found(n, v)
BY FindVersion

\* No version number is given twice: what a number once stood for is what it
\* stands for later, unless it was pruned, and then it stays so.
THEOREM NoNumberReused == Spec => NumbersNeverReused
<1>1. IInv' => (\A n \in Names : \A v : get_version(n, v) = Found(n, v))'
  BY Lookups, PTL
<1>2. ASSUME IInv, IInv', [Next]_vars, NEW n \in Names,
             NEW v \in 1..Len(history[n])
      PROVE  get_version(n, v)' \in {get_version(n, v), NotFound}
  <2>1. get_version(n, v) = Found(n, v)
    BY <1>2, Lookups
  <2>2. get_version(n, v)' = Found(n, v)'
    BY <1>2, <1>1
  <2>3. Found(n, v)' \in {Found(n, v), NotFound}
    <3> DEFINE k == Len(history[n])
               j == Len(history'[n])
               M == MaxVersions
    <3>1. /\ k \in Nat /\ j \in Nat /\ k <= j
          /\ history'[n][v] = history[n][v]
      BY <1>2, HistoryGrows
    <3>2. /\ Retained(j, v) <=> v \in 1..j /\ (v = 1 \/ v > j + 1 - M)
          /\ Retained(k, v) <=> v \in 1..k /\ (v = 1 \/ v > k + 1 - M)
          /\ v \in 1..k /\ M \in Nat
      BY FeatureStoreAssumption DEF Retained
    <3>3. Retained(j, v) => Retained(k, v)
      <4> HIDE DEF k, j, M
      <4> QED
        BY <3>1, <3>2
    <3> QED
      BY <3>1, <3>3 DEF Found, Retained
  <2> QED
    BY <2>1, <2>2, <2>3
<1>3. IInv /\ IInv' /\ [Next]_vars =>
        [\A n \in Names : \A v \in 1..Len(history[n]) :
           get_version(n, v)' \in {get_version(n, v), NotFound}]_vars
  BY <1>2
<1> QED
  BY <1>3, Invariance, PTL DEF Spec, NumbersNeverReused

-----------------------------------------------------------------------------
(* The refinement of RetainedHistory.                                        *)

\* What the abstract variables are in terms of the commits alone.
Latest == [n \in Names |-> Len(history[n])]
Kept ==
  [n \in Names |->
     [v \in Abstract!Retained(Len(history[n])) |-> history[n][v]]]

\* The refinement mapping says the same while the Vecs are windows.
LEMMA Mapping == IInv => abstractLatest = Latest /\ abstractKept = Kept
<1> SUFFICES ASSUME IInv PROVE abstractLatest = Latest /\ abstractKept = Kept
  OBVIOUS
<1>1. ASSUME NEW n \in Names
      PROVE  /\ max_version(VersionsOf(n)) = Len(history[n])
             /\ {VersionsOf(n)[i].version_number : i \in 1..Len(VersionsOf(n))}
                  = Abstract!Retained(Len(history[n]))
             /\ \A v \in Abstract!Retained(Len(history[n])) :
                  get_version(n, v).data = history[n][v]
  <2> DEFINE vs == VersionsOf(n)
             h == history[n]
  <2>1. /\ vs \in Seq(ColumnVersion) /\ h \in Seq(Typed)
        /\ Window(vs, h, n)
    BY VersionsOfType DEF IInv, TypeOK, RetainedVersions
  <2>2. \A v : v \in Abstract!Retained(Len(h)) <=> Retained(Len(h), v)
    BY DEF Retained, Abstract!Retained
  <2>3. \A v : Retained(Len(h), v) => get_version(n, v).data = h[v]
    BY FindVersion DEF Found
  <2> HIDE DEF vs, h
  <2>4. max_version(vs) = Len(h)
    BY <2>1, WindowMaximum
  <2>5. /\ \A i \in 1..Len(vs) : Retained(Len(h), vs[i].version_number)
        /\ \A v : Retained(Len(h), v) =>
             \E i \in 1..Len(vs) : vs[i].version_number = v
    BY <2>1, WindowNumbers
  <2>6. {vs[i].version_number : i \in 1..Len(vs)} = Abstract!Retained(Len(h))
    BY <2>2, <2>5
  <2> QED
    BY <2>2, <2>3, <2>4, <2>6 DEF vs, h
<1>2. abstractLatest = Latest
  BY <1>1 DEF abstractLatest, Latest
<1>3. abstractKept = Kept
  BY <1>1 DEF abstractKept, Kept
<1> QED
  BY <1>2, <1>3

\* A commit is the abstract one: the number given is new, and what is still
\* kept afterwards was kept before.
LEMMA CommitRefines ==
  ASSUME IInv, abstractLatest = Latest, abstractKept = Kept,
         abstractLatest' = Latest', abstractKept' = Kept',
         NEW d \in Offered, commit(d), d.variant # "Raw"
  PROVE  Abstract!Commit(d.name, d)
<1> DEFINE name == d.name
<1>1. /\ d \in Typed /\ name \in Names
      /\ history' = [history EXCEPT ![name] = Append(history[name], d)]
      /\ history \in [Names -> Seq(Typed)]
  BY CommitStep DEF IInv, TypeOK
<1> HIDE DEF name
<1>2. /\ Len(history[name]) \in Nat
      /\ Len(history'[name]) = Len(history[name]) + 1
      /\ history'[name][Len(history[name]) + 1] = d
      /\ \A v \in 1..Len(history[name]) : history'[name][v] = history[name][v]
  BY <1>1, AppendProperties, LenProperties
<1>3. \A n \in Names \ {name} : history'[n] = history[n]
  BY <1>1
<1>4. Latest' = [Latest EXCEPT ![name] = @ + 1]
  BY <1>1, <1>2, <1>3 DEF Latest
<1> DEFINE k == Len(history[name])
           now == [v \in Abstract!Retained(k + 1) |->
                     IF v = k + 1 THEN d ELSE Kept[name][v]]
<1>5. [v \in Abstract!Retained(k + 1) |-> history'[name][v]] = now
  <2> SUFFICES ASSUME NEW v \in Abstract!Retained(k + 1), v # k + 1
               PROVE  history'[name][v] = Kept[name][v]
    BY <1>2
  <2>1. v \in 1..k /\ v \in Abstract!Retained(k)
    BY <1>2, FeatureStoreAssumption DEF Abstract!Retained
  <2>2. Kept[name][v] = history[name][v]
    BY <2>1, <1>1 DEF Kept
  <2> QED
    BY <2>1, <2>2, <1>2
<1>6. Kept' = [Kept EXCEPT ![name] = now]
  <2>1. Kept'[name] = now
    BY <1>1, <1>2, <1>5 DEF Kept
  <2>2. \A n \in Names \ {name} : Kept'[n] = Kept[n]
    BY <1>3 DEF Kept
  <2> HIDE DEF now
  <2> QED
    BY <2>1, <2>2 DEF Kept
<1>7. Latest'[name] = k + 1
  BY <1>1, <1>2 DEF Latest
<1> QED
  BY <1>4, <1>6, <1>7 DEF Abstract!Commit, name

\* The store implements the abstract histories, for every max_versions of at
\* least 2: what commit does to the Vec is what RetainedHistory does to a log.
THEOREM Refinement == Spec => ImplementsHistory
<1>1. Init => Abstract!Init
  <2> SUFFICES ASSUME Init PROVE Abstract!Init
    OBVIOUS
  <2>1. abstractLatest = Latest /\ abstractKept = Kept
    BY InitInv, Mapping
  <2>2. \A n \in Names : Len(history[n]) = 0
    BY DEF Init
  <2>3. Abstract!Retained(0) = {}
    BY DEF Abstract!Retained
  <2> QED
    BY <2>1, <2>2, <2>3 DEF Abstract!Init, Latest, Kept
<1>2. IInv' => (abstractLatest = Latest /\ abstractKept = Kept)'
  BY Mapping, PTL
<1>3. ASSUME IInv, IInv', [Next]_vars
      PROVE  [Abstract!Next]_<<abstractLatest, abstractKept>>
  <2>1. /\ abstractLatest = Latest /\ abstractKept = Kept
        /\ abstractLatest' = Latest' /\ abstractKept' = Kept'
    BY <1>2, <1>3, Mapping
  <2>2. history' = history => UNCHANGED <<abstractLatest, abstractKept>>
    BY <2>1 DEF Latest, Kept
  <2>3. ASSUME NEW d \in Offered, commit(d), d.variant # "Raw"
        PROVE  Abstract!Next
    <3>1. Abstract!Commit(d.name, d)
      BY <1>3, <2>1, <2>3, CommitRefines
    <3> QED
      BY <2>3, <3>1, TypedHasName DEF Abstract!Next
  <2>4. ASSUME NEW d \in Offered, commit(d), d.variant = "Raw"
        PROVE  history' = history
    BY <2>4 DEF commit, vars
  <2>5. ASSUME NEW of \in FeatureLists, NEW label \in Labels,
               create_snapshot(of, label)
        PROVE  history' = history
    BY <2>5 DEF create_snapshot
  <2>6. UNCHANGED vars => history' = history
    BY DEF vars
  <2> QED
    BY <1>3, <2>2, <2>3, <2>4, <2>5, <2>6 DEF Next
<1>4. IInv /\ IInv' /\ [Next]_vars => [Abstract!Next]_<<abstractLatest, abstractKept>>
  BY <1>3
<1> QED
  BY <1>1, <1>4, Invariance, PTL DEF Spec, ImplementsHistory, Abstract!Spec

-----------------------------------------------------------------------------
(* The bytes that a snapshot's id is made from.                              *)

\* What to_le_bytes divides a number into.
LEMMA ByteAndRest == \A y \in Nat : y \div 256 \in Nat /\ y % 256 \in 0..255
OBVIOUS

\* f has what is left of x after each division by 256.
Rests(f, x) == f = [i \in 0..IntBytes |-> IF i = 0 THEN x ELSE f[i - 1] \div 256]

\* le_bytes gives the remainders of repeated divisions.
LEMMA LeBytes ==
  ASSUME NEW x \in Nat
  PROVE  \E f \in [0..IntBytes -> Nat] :
           /\ f[0] = x /\ \A i \in 1..IntBytes : f[i] = f[i - 1] \div 256
           /\ le_bytes(x) = [i \in 1..IntBytes |-> f[i - 1] % 256]
<1> DEFINE n == IntBytes
           step == [p \in Nat \X (1..n) |-> p[1] \div 256]
<1>1. n \in Nat
  BY FeatureStoreAssumption
<1>s. step \in [Nat \X (1..n) -> Nat]
  OBVIOUS
<1>2. \A y \in Nat, i \in 1..n : step[<<y, i>>] = y \div 256
  OBVIOUS
<1> HIDE DEF step
<1>3. PICK g : IsLoop(g, n, Nat, x, step)
  BY <1>1, <1>s, LoopExists
<1>4. /\ g \in [0..n -> Nat] /\ g[0] = x
      /\ \A i \in 1..n : g[i] = g[i - 1] \div 256
  <2>1. /\ g \in [0..n -> Nat] /\ g[0] = x
        /\ \A i \in 1..n : g[i] = step[<<g[i - 1], i>>]
    BY <1>3 DEF IsLoop
  <2>2. \A i \in 1..n : g[i - 1] \in Nat
    BY <1>1, <2>1
  <2> QED
    BY <1>2, <2>1, <2>2
<1>5. Rests(g, x)
  BY <1>1, <1>4 DEF Rests
<1> DEFINE f == CHOOSE h : Rests(h, x)
<1>6. Rests(f, x)
  BY <1>5, Zenon
<1>7. le_bytes(x) = [i \in 1..n |-> f[i - 1] % 256]
  BY Zenon DEF le_bytes, Rests
<1> HIDE DEF f
<1>m. f = [i \in 0..n |-> f[i]]
  BY <1>6 DEF Rests
<1>8. /\ f[0] = x /\ \A i \in 1..n : f[i] = f[i - 1] \div 256
  BY <1>1, <1>6 DEF Rests
<1>9. \A i \in 1..n : f[i - 1] \in Nat => f[i] = step[<<f[i - 1], i>>]
  BY <1>2, <1>8
<1>l. RunsIn(f, n, Nat, x, step)
  BY <1>m, <1>8, <1>9, Zenon DEF RunsIn
<1>10. f \in [0..n -> Nat]
  BY <1>1, <1>s, <1>l, LoopOf
<1> QED
  BY <1>7, <1>8, <1>10

\* f has the powers of 256.
Powers(f) == f = [i \in 0..IntBytes |-> IF i = 0 THEN 1 ELSE 256 * f[i - 1]]

LEMMA U64Powers ==
  \E f \in [0..IntBytes -> Nat] :
    /\ f[0] = 1 /\ \A i \in 1..IntBytes : f[i] = 256 * f[i - 1]
    /\ U64 = 0 .. f[IntBytes] - 1
<1> DEFINE n == IntBytes
           step == [p \in Nat \X (1..n) |-> 256 * p[1]]
<1>1. n \in Nat
  BY FeatureStoreAssumption
<1>s. step \in [Nat \X (1..n) -> Nat]
  OBVIOUS
<1>2. \A y \in Nat, i \in 1..n : step[<<y, i>>] = 256 * y
  OBVIOUS
<1> HIDE DEF step
<1>3. PICK g : IsLoop(g, n, Nat, 1, step)
  BY <1>1, <1>s, LoopExists, 1 \in Nat
<1>4. /\ g \in [0..n -> Nat] /\ g[0] = 1
      /\ \A i \in 1..n : g[i] = 256 * g[i - 1]
  <2>1. /\ g \in [0..n -> Nat] /\ g[0] = 1
        /\ \A i \in 1..n : g[i] = step[<<g[i - 1], i>>]
    BY <1>3 DEF IsLoop
  <2>2. \A i \in 1..n : g[i - 1] \in Nat
    BY <1>1, <2>1
  <2> QED
    BY <1>2, <2>1, <2>2
<1>5. Powers(g)
  BY <1>1, <1>4 DEF Powers
<1> DEFINE f == CHOOSE h : Powers(h)
<1>6. Powers(f)
  BY <1>5, Zenon
<1>7. U64 = 0 .. f[n] - 1
  BY Zenon DEF U64, Powers
<1> HIDE DEF f
<1>m. f = [i \in 0..n |-> f[i]]
  BY <1>6 DEF Powers
<1>8. /\ f[0] = 1 /\ \A i \in 1..n : f[i] = 256 * f[i - 1]
  BY <1>1, <1>6 DEF Powers
<1>9. \A i \in 1..n : f[i - 1] \in Nat => f[i] = step[<<f[i - 1], i>>]
  BY <1>2, <1>8
<1>l. RunsIn(f, n, Nat, 1, step)
  BY <1>m, <1>8, <1>9, Zenon DEF RunsIn
<1>10. f \in [0..n -> Nat]
  BY <1>1, <1>s, <1>l, LoopOf, 1 \in Nat
<1> QED
  BY <1>7, <1>8, <1>10

\* As many bytes as IntBytes.
LEMMA BytesOfNumber ==
  ASSUME NEW x \in Nat
  PROVE  le_bytes(x) \in Seq(0..255) /\ Len(le_bytes(x)) = IntBytes
<1>1. PICK f \in [0..IntBytes -> Nat] :
        /\ f[0] = x /\ \A i \in 1..IntBytes : f[i] = f[i - 1] \div 256
        /\ le_bytes(x) = [i \in 1..IntBytes |-> f[i - 1] % 256]
  BY LeBytes
<1>2. IntBytes \in Nat
  BY FeatureStoreAssumption
<1>3. \A i \in 1..IntBytes : f[i - 1] \in Nat
  BY <1>2
<1> DEFINE e(i) == f[i - 1] % 256
           b == le_bytes(x)
<1>5. \A i \in 1..IntBytes : e(i) \in 0..255
  BY <1>3, ByteAndRest
<1>6. b = [i \in 1..IntBytes |-> e(i)]
  BY <1>1
<1> HIDE DEF e, b
<1>7. b \in [1..IntBytes -> 0..255]
  BY <1>5, <1>6
<1>8. b \in Seq(0..255) /\ Len(b) = IntBytes
  BY <1>2, <1>7
<1> QED
  BY <1>8 DEF b

\* Two numbers of a u64 with the same bytes are the same.
LEMMA LeBytesInjective ==
  ASSUME NEW x \in U64, NEW y \in U64, le_bytes(x) = le_bytes(y)
  PROVE  x = y
<1> DEFINE n == IntBytes
<1>1. n \in Nat
  BY FeatureStoreAssumption
<1>2. PICK p \in [0..n -> Nat] :
        /\ p[0] = 1 /\ \A i \in 1..n : p[i] = 256 * p[i - 1]
        /\ U64 = 0 .. p[n] - 1
  BY U64Powers
<1>3. x \in Nat /\ y \in Nat
  BY <1>1, <1>2
<1>4. PICK f \in [0..n -> Nat] :
        /\ f[0] = x /\ \A i \in 1..n : f[i] = f[i - 1] \div 256
        /\ le_bytes(x) = [i \in 1..n |-> f[i - 1] % 256]
  BY <1>3, LeBytes
<1>5. PICK g \in [0..n -> Nat] :
        /\ g[0] = y /\ \A i \in 1..n : g[i] = g[i - 1] \div 256
        /\ le_bytes(y) = [i \in 1..n |-> g[i - 1] % 256]
  BY <1>3, LeBytes
<1>6. \A i \in 1..n : f[i - 1] % 256 = g[i - 1] % 256
  <2>1. ASSUME NEW h, h = [i \in 1..n |-> f[i - 1] % 256],
               h = [i \in 1..n |-> g[i - 1] % 256], NEW i \in 1..n
        PROVE  f[i - 1] % 256 = g[i - 1] % 256
    <3>1. h[i] = f[i - 1] % 256
      BY <2>1, Zenon
    <3>2. h[i] = g[i - 1] % 256
      BY <2>1, Zenon
    <3> QED
      BY <3>1, <3>2
  <2> QED
    BY <2>1, <1>4, <1>5
<1> HIDE DEF n
<1>7. ASSUME NEW h \in [0..n -> Nat], h[0] < p[n],
             \A i \in 1..n : h[i] = h[i - 1] \div 256
      PROVE  h[n] = 0
  <2> DEFINE S == {i \in 0..n : h[i] < p[n - i]}
  <2>1. 0 \in S
    BY <1>1, <1>7
  <2>2. ASSUME NEW i \in 1..n, i - 1 \in S PROVE i \in S
    <3>i. i - 1 \in 0..n /\ n - i \in 0..n /\ i \in 0..n
      BY <1>1
    <3>1. PICK a \in Nat, b \in Nat : a = h[i - 1] /\ b = p[n - i]
      BY <3>i
    <3>2. p[n - (i - 1)] = 256 * b
      <4>1. n - (i - 1) \in 1..n /\ (n - (i - 1)) - 1 = n - i
        BY <1>1
      <4> QED
        BY <4>1, <3>1, <1>2
    <3>3. a < 256 * b
      BY <2>2, <3>1, <3>2
    <3>4. a \div 256 < b
      BY <3>3
    <3>5. h[i] < p[n - i]
      BY <1>7, <3>1, <3>4
    <3> QED
      BY <3>i, <3>5
  <2> HIDE DEF S
  <2>3. \A i \in 0..n : i \in S
    BY <1>1, <2>1, <2>2, UpTo
  <2>4. n \in 0..n /\ n - n = 0
    BY <1>1
  <2>5. h[n] < p[n - n]
    BY <2>3, <2>4 DEF S
  <2> QED
    BY <1>2, <1>7, <2>4, <2>5
<1>8. f[n] = 0 /\ g[n] = 0
  <2>1. x < p[n] /\ y < p[n]
    BY <1>1, <1>2
  <2>2. f[n] = 0
    BY <1>4, <1>7, <2>1
  <2>3. g[n] = 0
    BY <1>5, <1>7, <2>1
  <2> QED
    BY <2>2, <2>3
<1> DEFINE S == {k \in 0..n : f[n - k] = g[n - k]}
<1>9. 0 \in S
  BY <1>1, <1>8
<1>10. ASSUME NEW k \in 1..n, k - 1 \in S PROVE k \in S
  <2>1. PICK i \in 1..n : i = n - (k - 1) /\ i - 1 = n - k
    BY <1>1
  <2>2. PICK a \in Nat, b \in Nat : a = f[i - 1] /\ b = g[i - 1]
    <3>1. i - 1 \in 0..n
      BY <1>1
    <3>2. f[i - 1] \in Nat /\ g[i - 1] \in Nat
      BY <3>1
    <3> QED
      BY <3>2
  <2>3. a \div 256 = b \div 256 /\ a % 256 = b % 256
    BY <1>4, <1>5, <1>6, <1>10, <2>1, <2>2
  <2>4. a = b
    BY <2>3
  <2>5. f[n - k] = g[n - k]
    BY <2>1, <2>2, <2>4
  <2>6. k \in 0..n
    BY <1>1
  <2> QED
    BY <2>5, <2>6
<1> HIDE DEF S
<1>11. \A k \in 0..n : k \in S
  BY <1>1, <1>9, <1>10, UpTo
<1>12. f[n - n] = g[n - n] /\ n - n = 0
  <2>1. n \in 0..n /\ n - n = 0
    BY <1>1
  <2> QED
    BY <1>11, <2>1 DEF S
<1> QED
  BY <1>4, <1>5, <1>12

\* What a feature adds to the bytes that are hashed.
Block(p) == le_bytes(Len(p[1])) \o p[1] \o le_bytes(p[2])

Byte == 0..255

\* u is s, of length m, with t, of length n, after it.
AreJoined(u, s, t, m, n) ==
  /\ Len(u) = m + n
  /\ \A k \in 1..m : u[k] = s[k]
  /\ \A k \in 1..n : u[m + k] = t[k]

LEMMA Joined ==
  ASSUME NEW S, NEW s \in Seq(S), NEW t \in Seq(S), NEW m \in Nat, NEW n \in Nat,
         Len(s) = m, Len(t) = n
  PROVE  s \o t \in Seq(S) /\ AreJoined(s \o t, s, t, m, n)
<1>1. s \o t \in Seq(S) /\ Len(s \o t) = m + n
  BY ConcatProperties
<1>2. \A i \in 1..(m + n) : (s \o t)[i] = IF i <= m THEN s[i] ELSE t[i - m]
  BY ConcatProperties
<1> DEFINE u == s \o t
<1> HIDE DEF u
<1>3. \A k \in 1..m : u[k] = s[k]
  BY <1>2 DEF u
<1>4. \A k \in 1..n : u[m + k] = t[k]
  BY <1>2 DEF u
<1> QED
  BY <1>1, <1>3, <1>4 DEF u, AreJoined

LEMMA BlockBytes ==
  ASSUME NEW p \in Names \X Nat
  PROVE  /\ Block(p) \in Seq(Byte) /\ Len(p[1]) \in Nat /\ p[1] \in Seq(Byte)
         /\ Len(Block(p)) = IntBytes + Len(p[1]) + IntBytes
         /\ \A k \in 1..IntBytes : Block(p)[k] = le_bytes(Len(p[1]))[k]
         /\ \A k \in 1..Len(p[1]) : Block(p)[IntBytes + k] = p[1][k]
         /\ \A k \in 1..IntBytes : Block(p)[IntBytes + Len(p[1]) + k] = le_bytes(p[2])[k]
<1> DEFINE a == le_bytes(Len(p[1]))
           b == p[1]
           c == le_bytes(p[2])
           n == IntBytes
           L == Len(p[1])
<1>1. n \in Nat
  BY FeatureStoreAssumption
<1>2. b \in Seq(Byte) /\ L \in Nat /\ Len(b) = L
  BY FeatureStoreAssumption, LenProperties DEF Byte
<1>3. /\ a \in Seq(Byte) /\ Len(a) = n
      /\ c \in Seq(Byte) /\ Len(c) = n
  BY <1>2, BytesOfNumber DEF Byte
<1>4. Block(p) = (a \o b) \o c
  BY DEF Block
<1> HIDE DEF a, b, c, n, L
<1> DEFINE ab == a \o b
           B == ab \o c
<1>5. /\ ab \in Seq(Byte) /\ Len(ab) = n + L
      /\ \A k \in 1..n : ab[k] = a[k]
      /\ \A k \in 1..L : ab[n + k] = b[k]
  <2>1. ab \in Seq(Byte) /\ AreJoined(ab, a, b, n, L)
    BY <1>1, <1>2, <1>3, Joined
  <2> QED
    BY <2>1 DEF AreJoined
<1> HIDE DEF ab
<1>6. n + L \in Nat
  BY <1>1, <1>2
<1>7. /\ B \in Seq(Byte) /\ Len(B) = n + L + n
      /\ \A k \in 1..(n + L) : B[k] = ab[k]
      /\ \A k \in 1..n : B[n + L + k] = c[k]
  <2>1. B \in Seq(Byte) /\ AreJoined(B, ab, c, n + L, n)
    BY <1>1, <1>3, <1>5, <1>6, Joined
  <2> QED
    BY <2>1 DEF AreJoined
<1>8. Block(p) = B
  BY <1>4 DEF ab
<1> HIDE DEF B
<1>9. \A k \in 1..n : B[k] = a[k]
  BY <1>1, <1>2, <1>5, <1>7
<1>10. \A k \in 1..L : B[n + k] = b[k]
  BY <1>1, <1>2, <1>5, <1>7
<1> QED
  BY <1>2, <1>7, <1>8, <1>9, <1>10 DEF a, b, c, n, L

\* T has the sequence b after its place o.
HasAt(T, o, b) == \A k \in 1..Len(b) : T[o + k] = b[k]

\* A block says of which feature it is.
LEMMA BlockInjective ==
  ASSUME NEW p \in Names \X Nat, NEW q \in Names \X Nat,
         Len(p[1]) \in U64, Len(q[1]) \in U64, p[2] \in U64, q[2] \in U64,
         NEW T, NEW o \in Nat, HasAt(T, o, Block(p)), HasAt(T, o, Block(q))
  PROVE  p = q
<1>1. /\ IntBytes \in Nat /\ Len(p[1]) \in Nat /\ Len(q[1]) \in Nat
      /\ p[1] \in Seq(Byte) /\ q[1] \in Seq(Byte)
  BY BlockBytes, FeatureStoreAssumption
<1> DEFINE n == IntBytes
           L == Len(p[1])
           M == Len(q[1])
<1>2. \A x \in Nat : le_bytes(x) \in Seq(0..255) /\ Len(le_bytes(x)) = n
  BY BytesOfNumber
<1>3. L = M
  <2>1. \A k \in 1..n : le_bytes(L)[k] = T[o + k] /\ le_bytes(M)[k] = T[o + k]
    BY <1>1, BlockBytes DEF HasAt
  <2>2. le_bytes(L) = le_bytes(M)
    BY <1>1, <1>2, <2>1, SeqEqual
  <2> QED
    BY <2>2, LeBytesInjective
<1>4. p[1] = q[1]
  <2>1. \A k \in 1..L : p[1][k] = T[o + (n + k)] /\ q[1][k] = T[o + (n + k)]
    BY <1>1, <1>3, BlockBytes DEF HasAt
  <2>2. \A k \in 1..L : p[1][k] = q[1][k]
    BY <2>1
  <2> QED
    BY <1>1, <1>3, <2>2, SeqEqual
<1>5. p[2] = q[2]
  <2>1. \A k \in 1..n : /\ le_bytes(p[2])[k] = T[o + (n + L + k)]
                         /\ le_bytes(q[2])[k] = T[o + (n + L + k)]
    <3>1. \A k \in 1..n : /\ Block(p)[n + L + k] = le_bytes(p[2])[k]
                           /\ Block(q)[n + L + k] = le_bytes(q[2])[k]
      BY <1>3, BlockBytes
    <3>2. Len(Block(p)) = n + L + n /\ Len(Block(q)) = n + L + n
      BY <1>3, BlockBytes
    <3>3. \A k \in 1..n : n + L + k \in 1..(n + L + n)
      BY <1>1
    <3> QED
      BY <3>1, <3>2, <3>3 DEF HasAt
  <2>2. le_bytes(p[2]) = le_bytes(q[2])
    BY <1>1, <1>2, <2>1, SeqEqual
  <2> QED
    BY <2>2, LeBytesInjective
<1> QED
  BY <1>4, <1>5

\* f has what the sequences seqs of elements of S are when joined one by one.
Chain(f, seqs, N, S) ==
  /\ f \in [0..N -> Seq(S)] /\ f[0] = <<>>
  /\ \A i \in 1..N : f[i] = f[i - 1] \o seqs[i]

\* b starts with a.
Starts(a, b) == Len(a) <= Len(b) /\ \A k \in 1..Len(a) : b[k] = a[k]

\* Every sequence of the chain starts the later ones.
LEMMA ChainStarts ==
  ASSUME NEW S, NEW N \in Nat, NEW f, NEW seqs, Chain(f, seqs, N, S),
         \A i \in 1..N : seqs[i] \in Seq(S), NEW j \in 0..N
  PROVE  \A i \in j..N : Starts(f[j], f[i])
<1> DEFINE T == {i \in 0..N : i >= j => Starts(f[j], f[i])}
<1>1. \A i \in 0..N : f[i] \in Seq(S) /\ Len(f[i]) \in Nat
  BY LenProperties DEF Chain
<1>2. Starts(f[j], f[j])
  BY <1>1 DEF Starts
<1>3. 0 \in T
  <2>1. 0 >= j => j = 0
    OBVIOUS
  <2> QED
    BY <1>2, <2>1
<1>4. ASSUME NEW i \in 1..N, i - 1 \in T PROVE i \in T
  <2>1. i \in 0..N /\ i - 1 \in 0..N
    OBVIOUS
  <2>2. CASE i <= j
    <3>1. i >= j => i = j
      BY <2>2
    <3> QED
      BY <1>2, <2>1, <3>1
  <2>3. CASE i - 1 >= j
    <3>1. Starts(f[j], f[i - 1])
      BY <1>4, <2>3
    <3> DEFINE a == f[i - 1]
               b == seqs[i]
    <3>2. /\ a \in Seq(S) /\ Len(a) \in Nat /\ b \in Seq(S) /\ Len(b) \in Nat
          /\ Len(f[j]) \in Nat /\ f[i] = a \o b
      BY <1>1, <2>1, LenProperties DEF Chain
    <3> HIDE DEF a, b
    <3>3. AreJoined(f[i], a, b, Len(a), Len(b))
      BY <3>2, Joined
    <3>4. Starts(f[j], a)
      BY <3>1 DEF a
    <3>5. Starts(f[j], f[i])
      BY <3>2, <3>3, <3>4 DEF Starts, AreJoined
    <3> QED
      BY <2>1, <3>5
  <2> QED
    BY <2>2, <2>3
<1> HIDE DEF T
<1>5. \A i \in 0..N : i \in T
  BY <1>3, <1>4, UpTo
<1> QED
  BY <1>5 DEF T

\* f has the values that FlattenSeq runs through.
Flattens(f, seqs) ==
  f = [i \in 1..Len(seqs) |-> IF i = 1 THEN seqs[i] ELSE f[i - 1] \o seqs[i]]

LEMMA Flattened ==
  ASSUME NEW S, NEW seqs, NEW N \in Nat, N # 0, Len(seqs) = N,
         \A i \in 1..N : seqs[i] \in Seq(S)
  PROVE  \E f : Chain(f, seqs, N, S) /\ FlattenSeq(seqs) = f[N]
<1> DEFINE step == [p \in Seq(S) \X (1..N) |-> p[1] \o seqs[p[2]]]
<1>1. step \in [Seq(S) \X (1..N) -> Seq(S)]
  BY ConcatProperties
<1>2. \A x \in Seq(S), i \in 1..N : step[<<x, i>>] = x \o seqs[i]
  OBVIOUS
<1> HIDE DEF step
<1>3. PICK g : IsLoop(g, N, Seq(S), <<>>, step)
  BY <1>1, EmptySeq, LoopExists
<1>4. Chain(g, seqs, N, S)
  <2>1. /\ g \in [0..N -> Seq(S)] /\ g[0] = <<>>
        /\ \A i \in 1..N : g[i] = step[<<g[i - 1], i>>]
    BY <1>3 DEF IsLoop
  <2>2. \A i \in 1..N : g[i - 1] \in Seq(S)
    BY <2>1
  <2> QED
    BY <1>2, <2>1, <2>2 DEF Chain
<1>f. g[1] = seqs[1]
  <2>1. 1 \in 1..N /\ 1 - 1 = 0
    OBVIOUS
  <2>2. g[1] = <<>> \o seqs[1] /\ seqs[1] \in Seq(S)
    BY <1>4, <2>1 DEF Chain
  <2> QED
    BY <2>2, ConcatEmptySeq
<1> DEFINE e(f, i) == IF i = 1 THEN seqs[i] ELSE f[i - 1] \o seqs[i]
           h == [i \in 1..N |-> g[i]]
<1>5. \A i \in 1..N : h[i] = e(h, i)
  <2> SUFFICES ASSUME NEW i \in 1..N PROVE h[i] = e(h, i)
    OBVIOUS
  <2>1. g[i] = g[i - 1] \o seqs[i]
    BY <1>4 DEF Chain
  <2>2. CASE i = 1
    BY <1>f, <2>2
  <2>3. CASE i # 1
    <3>1. i - 1 \in 1..N
      BY <2>3
    <3>2. h[i - 1] = g[i - 1]
      BY <3>1
    <3> QED
      BY <2>1, <2>3, <3>2
  <2> QED
    BY <2>2, <2>3
<1>6. Flattens(h, seqs)
  <2>1. h = [i \in 1..N |-> h[i]]
    OBVIOUS
  <2> HIDE DEF h, e
  <2>2. h = [i \in 1..N |-> e(h, i)]
    BY <1>5, <2>1
  <2> QED
    BY <2>2, Zenon DEF Flattens, e
<1> DEFINE f == CHOOSE x : Flattens(x, seqs)
<1>7. Flattens(f, seqs)
  BY <1>6, Zenon
<1>8. FlattenSeq(seqs) = f[N]
  BY Zenon DEF FlattenSeq, Flattens
<1> HIDE DEF f, h, e
<1>9. \A i \in 1..N : f[i] = e(f, i)
  <2>1. f = [i \in 1..N |-> e(f, i)]
    BY <1>7, Zenon DEF Flattens, e
  <2> QED
    BY <2>1, Zenon
<1>10. f[1] = seqs[1] /\ \A i \in 1..N : i # 1 => f[i] = f[i - 1] \o seqs[i]
  <2>1. 1 \in 1..N
    OBVIOUS
  <2>2. e(f, 1) = seqs[1] /\ \A i \in 1..N : i # 1 => e(f, i) = f[i - 1] \o seqs[i]
    BY Zenon DEF e
  <2>3. f[1] = e(f, 1)
    BY <1>9, <2>1
  <2>4. ASSUME NEW i \in 1..N, i # 1 PROVE f[i] = f[i - 1] \o seqs[i]
    BY <1>9, <2>2, <2>4
  <2> QED
    BY <2>2, <2>3, <2>4
<1> DEFINE T == {i \in 0..N : i # 0 => f[i] = g[i]}
<1>11. 0 \in T
  OBVIOUS
<1>12. ASSUME NEW i \in 1..N, i - 1 \in T PROVE i \in T
  <2>1. g[i] = g[i - 1] \o seqs[i]
    BY <1>4 DEF Chain
  <2>2. CASE i = 1
    BY <1>10, <1>f, <2>2
  <2>3. CASE i # 1
    <3>1. f[i - 1] = g[i - 1]
      BY <1>12, <2>3
    <3>2. f[i] = g[i]
      BY <1>10, <2>1, <2>3, <3>1
    <3> QED
      BY <3>2
  <2> QED
    BY <2>2, <2>3
<1> HIDE DEF T
<1>13. N \in T
  <2>1. \A i \in 0..N : i \in T
    BY <1>11, <1>12, UpTo
  <2> QED
    BY <2>1
<1>14. f[N] = g[N]
  BY <1>13 DEF T
<1> QED
  BY <1>4, <1>8, <1>14

\* The bytes of a list are its features' blocks, one after the other.
Blocks(of) == [i \in DOMAIN of |-> Block(of[i])]

LEMMA DigestChain ==
  ASSUME NEW of \in FeatureLists
  PROVE  \E f : /\ Chain(f, Blocks(of), Len(of), Byte)
                /\ compute_snapshot_id(of) = f[Len(of)]
<1> DEFINE N == Len(of)
           seqs == Blocks(of)
<1>1. N \in Nat /\ DOMAIN of = 1..N /\ \A i \in 1..N : of[i] \in Names \X Nat
  <2>1. of \in Seq(Names \X Nat)
    BY FeatureStoreAssumption
  <2> QED
    BY <2>1, LenProperties, ElementOfSeq
<1>2. compute_snapshot_id(of) = FlattenSeq(seqs)
  BY Zenon DEF compute_snapshot_id, Blocks, Block
<1>3. \A i \in 1..N : seqs[i] = Block(of[i]) /\ seqs[i] \in Seq(Byte)
  BY <1>1, BlockBytes DEF Blocks
<1>4. seqs = [i \in 1..N |-> Block(of[i])]
  BY <1>1 DEF Blocks
<1> HIDE DEF seqs, N
<1>5. Len(seqs) = N
  <2> DEFINE e(i) == Block(of[i])
  <2>1. seqs = [i \in 1..N |-> e(i)]
    BY <1>4
  <2> HIDE DEF e
  <2> QED
    BY <1>1, <2>1
<1>6. CASE N = 0
  <2>1. seqs = <<>>
    BY <1>4, <1>6
  <2>2. FlattenSeq(seqs) = <<>>
    BY <1>5, <1>6, <2>1 DEF FlattenSeq
  <2> DEFINE f == [i \in 0..0 |-> <<>>]
  <2>3. f \in [0..0 -> Seq(Byte)] /\ f[0] = <<>>
    BY EmptySeq
  <2>4. \A i \in 1..0 : FALSE
    OBVIOUS
  <2> HIDE DEF f
  <2>5. Chain(f, seqs, N, Byte) /\ f[N] = <<>>
    BY <1>6, <2>3, <2>4 DEF Chain
  <2> QED
    BY <1>2, <2>2, <2>5 DEF seqs, N
<1>7. CASE N # 0
  <2>1. \E f : Chain(f, seqs, N, Byte) /\ FlattenSeq(seqs) = f[N]
    BY <1>1, <1>3, <1>5, <1>7, Flattened
  <2> QED
    BY <1>2, <2>1 DEF seqs, N
<1> QED
  BY <1>6, <1>7

\* Every feature of a list makes its bytes longer, and its block is where the
\* bytes of those before it end.
LEMMA DigestGrows ==
  ASSUME NEW of, NEW N \in Nat, NEW f, Chain(f, Blocks(of), N, Byte),
         DOMAIN of = 1..N, \A i \in 1..N : of[i] \in Names \X Nat,
         NEW i \in 1..N
  PROVE  /\ f[i] = f[i - 1] \o Block(of[i])
         /\ Len(f[i - 1]) \in Nat /\ Len(f[N]) \in Nat
         /\ Len(f[i - 1]) < Len(f[N])
         /\ HasAt(f[N], Len(f[i - 1]), Block(of[i]))
<1> DEFINE seqs == Blocks(of)
           b == Block(of[i])
           a == f[i - 1]
<1>1. \A j \in 1..N : seqs[j] = Block(of[j]) /\ seqs[j] \in Seq(Byte)
  BY BlockBytes DEF Blocks
<1>2. i - 1 \in 0..N /\ i \in 0..N /\ N \in i..N /\ N \in 0..N
  OBVIOUS
<1>3. f[i] = a \o b /\ b \in Seq(Byte) /\ a \in Seq(Byte) /\ f[N] \in Seq(Byte)
  BY <1>1, <1>2 DEF Chain
<1>4. Len(b) \in Nat /\ Len(a) \in Nat /\ Len(f[N]) \in Nat
  BY <1>3, LenProperties
<1>5. Len(b) > 0
  <2>1. /\ Len(b) = IntBytes + Len(of[i][1]) + IntBytes
        /\ Len(of[i][1]) \in Nat /\ IntBytes \in Nat \ {0}
    BY BlockBytes, FeatureStoreAssumption
  <2> QED
    BY <2>1
<1> HIDE DEF seqs
<1>6. Starts(f[i], f[N])
  <2>1. Chain(f, seqs, N, Byte)
    BY DEF seqs
  <2> QED
    BY <1>1, <1>2, <2>1, ChainStarts
<1> HIDE DEF a, b
<1>7. AreJoined(f[i], a, b, Len(a), Len(b))
  BY <1>3, <1>4, Joined
<1>8. Len(f[i]) = Len(a) + Len(b) /\ \A k \in 1..Len(b) : f[i][Len(a) + k] = b[k]
  BY <1>7 DEF AreJoined
<1>9. Len(a) < Len(f[N])
  BY <1>4, <1>5, <1>6, <1>8 DEF Starts
<1>10. ASSUME NEW k \in 1..Len(b) PROVE f[N][Len(a) + k] = b[k]
  <2>1. Len(a) + k \in 1..Len(f[i])
    BY <1>4, <1>8
  <2> QED
    BY <1>6, <1>8, <2>1 DEF Starts
<1> QED
  BY <1>3, <1>4, <1>9, <1>10 DEF a, b, HasAt

\* The length prefixes separate what is hashed: two lists of features with the
\* same bytes are the same list.
DigestsDiffer ==
  \A of, og \in FeatureLists :
    compute_snapshot_id(of) = compute_snapshot_id(og) => of = og

LEMMA DigestsSeparate == DigestsDiffer
<1> SUFFICES ASSUME NEW of \in FeatureLists, NEW og \in FeatureLists,
                    compute_snapshot_id(of) = compute_snapshot_id(og)
             PROVE  of = og
  BY DEF DigestsDiffer
<1> DEFINE N == Len(of)
           M == Len(og)
           T == compute_snapshot_id(of)
<1>1. of \in Seq(Names \X Nat) /\ og \in Seq(Names \X Nat)
  BY FeatureStoreAssumption
<1>2. /\ N \in Nat /\ DOMAIN of = 1..N /\ \A i \in 1..N : of[i] \in Names \X Nat
      /\ M \in Nat /\ DOMAIN og = 1..M /\ \A i \in 1..M : og[i] \in Names \X Nat
  BY <1>1, LenProperties, ElementOfSeq
<1>3. /\ \A i \in 1..N : Len(of[i][1]) \in U64 /\ of[i][2] \in U64
      /\ \A i \in 1..M : Len(og[i][1]) \in U64 /\ og[i][2] \in U64
  BY <1>2, DigestAssumption
<1>4. PICK f : Chain(f, Blocks(of), N, Byte) /\ T = f[N]
  BY DigestChain
<1>5. PICK g : Chain(g, Blocks(og), M, Byte) /\ T = g[M]
  BY DigestChain
<1> HIDE DEF N, M, T
<1>6. f[0] = <<>> /\ g[0] = <<>>
  BY <1>4, <1>5 DEF Chain
<1> DEFINE Same(i) == f[i] = g[i] /\ \A j \in 1..i : of[j] = og[j]
           S == {i \in 0..N : i <= M => Same(i)}
<1>7. 0 \in S
  BY <1>2, <1>6
<1>8. ASSUME NEW i \in 1..N, i - 1 \in S PROVE i \in S
  <2> SUFFICES ASSUME i <= M PROVE Same(i)
    BY <1>2
  <2>1. i \in 1..M /\ i - 1 <= M /\ i - 1 \in 0..N
    BY <1>2
  <2>2. Same(i - 1)
    BY <1>8, <2>1
  <2>3. /\ f[i] = f[i - 1] \o Block(of[i]) /\ Len(f[i - 1]) \in Nat
        /\ HasAt(f[N], Len(f[i - 1]), Block(of[i]))
    BY <1>2, <1>4, DigestGrows
  <2>4. /\ g[i] = g[i - 1] \o Block(og[i])
        /\ HasAt(g[M], Len(g[i - 1]), Block(og[i]))
    BY <1>2, <1>5, <2>1, DigestGrows
  <2>5. of[i] = og[i]
    <3> DEFINE o == Len(f[i - 1])
               p == of[i]
               q == og[i]
    <3>1. /\ o \in Nat /\ HasAt(T, o, Block(p)) /\ HasAt(T, o, Block(q))
          /\ p \in Names \X Nat /\ q \in Names \X Nat
          /\ Len(p[1]) \in U64 /\ Len(q[1]) \in U64 /\ p[2] \in U64 /\ q[2] \in U64
      BY <1>2, <1>3, <1>4, <1>5, <2>1, <2>2, <2>3, <2>4
    <3> HIDE DEF o, p, q
    <3>2. p = q
      BY <3>1, BlockInjective
    <3> QED
      BY <3>2 DEF p, q
  <2>6. f[i] = g[i]
    BY <2>2, <2>3, <2>4, <2>5
  <2> QED
    BY <1>2, <2>2, <2>5, <2>6
<1> HIDE DEF S
<1>9. \A i \in 0..N : i \in S
  BY <1>2, <1>7, <1>8, UpTo
<1>10. N = M
  <2>1. ~ (N < M)
    <3> SUFFICES ASSUME N < M PROVE FALSE
      OBVIOUS
    <3>1. N \in 0..N /\ N <= M /\ N + 1 \in 1..M /\ (N + 1) - 1 = N
      BY <1>2
    <3>2. g[N] = T
      BY <1>4, <1>9, <3>1 DEF S
    <3>3. Len(g[(N + 1) - 1]) < Len(g[M]) /\ Len(g[M]) \in Nat
      BY <1>2, <1>5, <3>1, DigestGrows
    <3> QED
      BY <1>5, <3>1, <3>2, <3>3
  <2>2. ~ (M < N)
    <3> SUFFICES ASSUME M < N PROVE FALSE
      OBVIOUS
    <3>1. M \in 0..N /\ M <= M /\ M + 1 \in 1..N /\ (M + 1) - 1 = M
      BY <1>2
    <3>2. f[M] = T
      BY <1>5, <1>9, <3>1 DEF S
    <3>3. Len(f[(M + 1) - 1]) < Len(f[N]) /\ Len(f[N]) \in Nat
      BY <1>2, <1>4, <3>1, DigestGrows
    <3> QED
      BY <1>4, <3>1, <3>2, <3>3
  <2> QED
    BY <1>2, <2>1, <2>2
<1>11. \A j \in 1..N : of[j] = og[j]
  <2>1. N \in 0..N /\ N <= M
    BY <1>2, <1>10
  <2> QED
    BY <1>9, <2>1 DEF S
<1> QED
  BY <1>1, <1>10, <1>11, SeqEqual DEF N, M

-----------------------------------------------------------------------------
(* The ids of snapshots.                                                     *)

\* Every snapshot is stored under the id of its own list.
Filed ==
  \A id \in DOMAIN snapshots :
    LET of == snapshots[id].ordered_features
    IN of \in FeatureLists /\ id = compute_snapshot_id(of)

\* A call of create_snapshot files its snapshot and, where one was already
\* stored under the id, puts the same list there.
LEMMA SnapshotFiled ==
  ASSUME Filed, NEW of \in FeatureLists, NEW label \in Labels,
         create_snapshot(of, label)
  PROVE  /\ Filed'
         /\ \A id \in DOMAIN snapshots :
              /\ id \in DOMAIN snapshots'
              /\ snapshots'[id].ordered_features = snapshots[id].ordered_features
<1> DEFINE new == compute_snapshot_id(of)
           s == [ordered_features |-> of, label |-> label]
<1>1. snapshots' = insert(snapshots, new, s) /\ s.ordered_features = of
  BY DEF create_snapshot
<1>2. new = compute_snapshot_id(of)
  OBVIOUS
<1> HIDE DEF new, s
<1>3. /\ DOMAIN snapshots' = DOMAIN snapshots \cup {new}
      /\ snapshots'[new] = s
      /\ \A id \in DOMAIN snapshots \ {new} : snapshots'[id] = snapshots[id]
  BY <1>1 DEF insert
<1>4. Filed'
  <2>1. ASSUME NEW id \in DOMAIN snapshots'
        PROVE  /\ snapshots'[id].ordered_features \in FeatureLists
               /\ id = compute_snapshot_id(snapshots'[id].ordered_features)
    BY <1>1, <1>2, <1>3 DEF Filed
  <2> QED
    BY <2>1 DEF Filed, compute_snapshot_id, le_bytes
<1>5. ASSUME NEW id \in DOMAIN snapshots
      PROVE  snapshots'[id].ordered_features = snapshots[id].ordered_features
  BY <1>1, <1>2, <1>3, DigestsSeparate DEF Filed, DigestsDiffer
<1> QED
  BY <1>3, <1>4, <1>5

\* Every step files what it files so, and leaves the lists under their ids.
LEMMA FiledStep ==
  ASSUME Filed, [Next]_vars
  PROVE  /\ Filed'
         /\ \A id \in DOMAIN snapshots :
              /\ id \in DOMAIN snapshots'
              /\ snapshots'[id].ordered_features = snapshots[id].ordered_features
<1>1. ASSUME snapshots' = snapshots
      PROVE  /\ Filed'
             /\ \A id \in DOMAIN snapshots :
                  /\ id \in DOMAIN snapshots'
                  /\ snapshots'[id].ordered_features = snapshots[id].ordered_features
  <2>1. Filed' <=> Filed
    BY <1>1 DEF Filed, compute_snapshot_id, le_bytes
  <2> QED
    BY <1>1, <2>1
<1>2. ASSUME NEW of \in FeatureLists, NEW label \in Labels,
             create_snapshot(of, label)
      PROVE  /\ Filed'
             /\ \A id \in DOMAIN snapshots :
                  /\ id \in DOMAIN snapshots'
                  /\ snapshots'[id].ordered_features = snapshots[id].ordered_features
  BY <1>2, SnapshotFiled
<1>3. ASSUME NEW d \in Offered, commit(d) PROVE snapshots' = snapshots
  BY <1>3 DEF commit, vars
<1> QED
  BY <1>1, <1>2, <1>3 DEF Next, vars

\* An id that a model artifact has stored stands for one ordered list of
\* features for ever, also when the same list is recorded again.
THEOREM IdsKeepMeaning == Spec => SnapshotsKeepFeatures
<1>1. Init => Filed
  BY DEF Init, Filed
<1>2. Filed /\ [Next]_vars => Filed'
  BY FiledStep
<1>3. Filed /\ [Next]_vars =>
        [\A id \in DOMAIN snapshots :
           /\ id \in DOMAIN snapshots'
           /\ snapshots'[id].ordered_features = snapshots[id].ordered_features]_vars
  BY FiledStep
<1> QED
  BY <1>1, <1>2, <1>3, PTL DEF Spec, SnapshotsKeepFeatures

-----------------------------------------------------------------------------
(* Rebuilding tables.                                                        *)

\* The tables that reconstruct_table's loop starts from, and those it has after
\* turn i if it had the given ones before.
NoColumns == {[error |-> "None", data |-> [n \in {} |-> NotFound]]}
Turn(tables, of, i) == UNION {AddFeature(t, of[i][1], of[i][2]) : t \in tables}

\* f has the tables there may be after each of the first n turns.
Builds(f, of, n) ==
  f = [i \in 0..n |-> IF i = 0 THEN NoColumns ELSE Turn(f[i - 1], of, i)]

\* The recursion of reconstruct_table defines a function on every list.
LEMMA BuildExists ==
  ASSUME NEW of, NEW N \in Nat
  PROVE  \E f : Builds(f, of, N)
<1> DEFINE S == {n \in 0..N : \E f : Builds(f, of, n)}
<1>0. 0 \in 0..N /\ N \in 0..N
  OBVIOUS
<1>1. 0 \in S
  <2>1. Builds([i \in 0..0 |-> NoColumns], of, 0)
    BY DEF Builds
  <2> QED
    BY <2>1, <1>0, Zenon
<1>2. \A n \in 1..N : n - 1 \in S => n \in S
  <2> SUFFICES ASSUME NEW n \in 1..N, NEW f, Builds(f, of, n - 1)
               PROVE  \E g : Builds(g, of, n)
    OBVIOUS
  <2> DEFINE g == [i \in 0..n |-> IF i = n THEN Turn(f[n - 1], of, n) ELSE f[i]]
  <2>1. Builds(g, of, n)
    BY DEF Builds
  <2> HIDE DEF g
  <2> QED
    BY <2>1
<1> HIDE DEF S
<1>3. N \in S
  BY <1>0, <1>1, <1>2, UpTo, Zenon
<1> QED
  BY <1>3 DEF S

\* What reconstruct_table returns is what its loop has after the last turn.
LEMMA Rebuild ==
  ASSUME NEW id, Len(snapshots[id].ordered_features) \in Nat
  PROVE  LET of == snapshots[id].ordered_features
         IN  \E f : Builds(f, of, Len(of)) /\ reconstruct_table(id) = f[Len(of)]
<1> DEFINE of == snapshots[id].ordered_features
           build == CHOOSE f : Builds(f, of, Len(of))
<1>1. reconstruct_table(id) = build[Len(of)]
  BY Zenon DEF reconstruct_table, Builds, Turn, NoColumns
<1>2. Builds(build, of, Len(of))
  BY BuildExists, Zenon
<1> QED
  BY <1>1, <1>2, Zenon

\* A list of features as create_snapshot lets it through: no name twice, and
\* every number was given in the histories h.
PinsCommits(of, h) ==
  /\ of \in Seq(Names \X Nat)
  /\ \A i, j \in 1..Len(of) : of[i][1] = of[j][1] => i = j
  /\ \A i \in 1..Len(of) : of[i][2] \in 1..Len(h[of[i][1]])

\* What is committed under a name bears that name, and snapshots pin commits.
Pinned ==
  /\ \A n \in Names : \A k \in 1..Len(history[n]) : history[n][k].name = n
  /\ \A id \in DOMAIN snapshots : PinsCommits(snapshots[id].ordered_features, history)

LEMMA PinnedInit == Init => Pinned
<1> SUFFICES ASSUME Init PROVE Pinned
  OBVIOUS
<1>1. \A n \in Names : history[n] = <<>> /\ Len(history[n]) = 0
  BY DEF Init
<1> QED
  BY <1>1 DEF Init, Pinned

\* The loop of create_snapshot refuses every list that does not pin commits.
LEMMA AcceptedPins ==
  ASSUME IInv, NEW of \in FeatureLists, create_snapshot_error(of) = "None"
  PROVE  PinsCommits(of, history)
<1> DEFINE Bad == {i \in DOMAIN of :
                     Repeats(of, i) \/ get_version(of[i][1], of[i][2]) = NotFound}
<1>1. of \in Seq(Names \X Nat) /\ Len(of) \in Nat /\ DOMAIN of = 1..Len(of)
  BY FeatureStoreAssumption, LenProperties
<1>2. Bad = {}
  BY DEF create_snapshot_error
<1>3. ASSUME NEW i \in 1..Len(of), NEW j \in 1..Len(of), of[i][1] = of[j][1]
      PROVE  i = j
  <2>1. ~ Repeats(of, i) /\ ~ Repeats(of, j)
    BY <1>1, <1>2
  <2> QED
    BY <2>1, <1>1, <1>3 DEF Repeats
<1>4. ASSUME NEW i \in 1..Len(of)
      PROVE  of[i][2] \in 1..Len(history[of[i][1]])
  <2>1. of[i] \in Names \X Nat
    BY <1>1, ElementOfSeq
  <2>2. of[i][1] \in Names
    BY <2>1
  <2>3. get_version(of[i][1], of[i][2]) # NotFound
    BY <1>1, <1>2
  <2>4. Retained(Len(history[of[i][1]]), of[i][2])
    BY <2>2, <2>3, FindVersion DEF Found
  <2> QED
    BY <2>4 DEF Retained
<1> QED
  BY <1>1, <1>3, <1>4 DEF PinsCommits

\* A list that pins commits goes on doing so: histories grow at their end.
LEMMA PinsKept ==
  ASSUME IInv, [Next]_vars, NEW of, PinsCommits(of, history)
  PROVE  PinsCommits(of, history')
<1>1. ASSUME NEW i \in 1..Len(of)
      PROVE  of[i][2] \in 1..Len(history'[of[i][1]])
  <2>1. of[i] \in Names \X Nat
    BY ElementOfSeq DEF PinsCommits
  <2>2. of[i][1] \in Names
    BY <2>1
  <2>3. of[i][2] \in 1..Len(history[of[i][1]])
    BY DEF PinsCommits
  <2> QED
    BY <2>2, <2>3, HistoryGrows
<1> QED
  BY <1>1 DEF PinsCommits

LEMMA PinnedStep == IInv /\ Pinned /\ [Next]_vars => Pinned'
<1> SUFFICES ASSUME IInv, Pinned, [Next]_vars
             PROVE  Pinned'
  OBVIOUS
<1>1. ASSUME NEW n \in Names, NEW k \in 1..Len(history'[n])
      PROVE  history'[n][k].name = n
  <2>1. history[n] \in Seq(Typed) /\ Len(history[n]) \in Nat
    BY LenProperties DEF IInv, TypeOK
  <2>2. CASE history' = history
    BY <2>2, <1>1 DEF Pinned
  <2>3. ASSUME NEW d \in Offered, commit(d), d.variant # "Raw"
        PROVE  history'[n][k].name = n
    <3>1. /\ d \in Typed
          /\ history' = [history EXCEPT ![d.name] = Append(history[d.name], d)]
          /\ history \in [Names -> Seq(Typed)]
      BY <2>3, CommitStep DEF IInv, TypeOK
    <3>2. CASE n # d.name
      <4>1. history'[n] = history[n]
        BY <3>1, <3>2
      <4> QED
        BY <4>1, <1>1 DEF Pinned
    <3>3. CASE n = d.name
      <4>1. history'[n] = Append(history[n], d)
        BY <3>1, <3>3
      <4>2. /\ Len(history'[n]) = Len(history[n]) + 1
            /\ \A v \in 1..Len(history[n]) : history'[n][v] = history[n][v]
            /\ history'[n][Len(history[n]) + 1] = d
        BY <4>1, <3>1, <2>1, AppendProperties
      <4>3. CASE k = Len(history[n]) + 1
        BY <4>2, <4>3, <3>3
      <4>4. CASE k \in 1..Len(history[n])
        BY <4>2, <4>4 DEF Pinned
      <4> QED
        BY <4>2, <4>3, <4>4, <2>1, <1>1
    <3> QED
      BY <3>2, <3>3
  <2>4. CASE UNCHANGED vars
    BY <2>2, <2>4 DEF vars
  <2>5. ASSUME NEW d \in Offered, commit(d), d.variant = "Raw"
        PROVE  history' = history
    BY <2>5 DEF commit, vars
  <2>6. ASSUME NEW of \in FeatureLists, NEW label \in Labels,
               create_snapshot(of, label)
        PROVE  history' = history
    BY <2>6 DEF create_snapshot
  <2> QED
    BY <2>2, <2>3, <2>4, <2>5, <2>6 DEF Next
<1>2. ASSUME NEW id \in DOMAIN snapshots'
      PROVE  PinsCommits(snapshots'[id].ordered_features, history')
  <2>1. ASSUME id \in DOMAIN snapshots, snapshots'[id] = snapshots[id]
        PROVE  PinsCommits(snapshots'[id].ordered_features, history')
    <3>1. PinsCommits(snapshots[id].ordered_features, history)
      BY <2>1 DEF Pinned
    <3> QED
      BY <3>1, <2>1, PinsKept
  <2>2. CASE snapshots' = snapshots
    BY <2>1, <2>2
  <2>3. ASSUME NEW of \in FeatureLists, NEW label \in Labels,
               create_snapshot(of, label)
        PROVE  PinsCommits(snapshots'[id].ordered_features, history')
    <3> DEFINE new == compute_snapshot_id(of)
               s == [ordered_features |-> of, label |-> label]
    <3>1. snapshots' = insert(snapshots, new, s) /\ s.ordered_features = of
      BY <2>3 DEF create_snapshot
    <3>2. PinsCommits(of, history')
      <4>1. PinsCommits(of, history)
        BY <2>3, AcceptedPins DEF create_snapshot
      <4> QED
        BY <4>1, PinsKept
    <3> HIDE DEF new, s
    <3>3. CASE id = new
      <4>1. snapshots'[id].ordered_features = of
        BY <3>1, <3>3 DEF insert
      <4> QED
        BY <4>1, <3>2
    <3>4. CASE id # new
      <4>1. id \in DOMAIN snapshots /\ snapshots'[id] = snapshots[id]
        BY <3>1, <3>4 DEF insert
      <4> QED
        BY <4>1, <2>1
    <3> QED
      BY <3>3, <3>4
  <2>4. CASE UNCHANGED vars
    BY <2>2, <2>4 DEF vars
  <2>5. ASSUME NEW d \in Offered, commit(d)
        PROVE  snapshots' = snapshots
    BY <2>5 DEF commit, vars
  <2> QED
    BY <2>2, <2>3, <2>4, <2>5 DEF Next
<1> QED
  BY <1>1, <1>2 DEF Pinned

LEMMA PinnedAlways == Spec => []Pinned
<1>1. IInv /\ Pinned /\ [Next]_vars => Pinned'
  BY PinnedStep
<1> QED
  BY <1>1, PinnedInit, Invariance, PTL DEF Spec

\* The column that was committed as the j-th feature of the list of.
Meant(of, j) == history[of[j][1]][of[j][2]]

\* What is known of a table t after i turns of the loop over the list of.
Loaded(t, of, i) ==
  /\ t = [error |-> t.error, data |-> t.data]
  /\ t.error \in {"None", "VersionNotFound", "TableBuildFailed"}
  /\ t.error = "None" =>
       /\ DOMAIN t.data = {of[j][1] : j \in 1..i}
       /\ \A j \in 1..i : t.data[of[j][1]] = Meant(of, j)
       /\ (\A d \in Typed : d.rows # 0) =>
            \A j, k \in 1..i : Meant(of, j).rows = Meant(of, k).rows
  /\ t.error = "TableBuildFailed" =>
       \E j, k \in 1..Len(of) : Meant(of, j).rows # Meant(of, k).rows
  /\ t.error = "VersionNotFound" =>
       \E j \in 1..Len(of) : get_version(of[j][1], of[j][2]) = NotFound

\* One turn of the loop: the column that is looked up is the one that was
\* committed, its name is free, and a refused length is another feature's.
LEMMA TurnLoads ==
  ASSUME IInv, Pinned, NEW of, PinsCommits(of, history), NEW i \in 1..Len(of),
         NEW t, Loaded(t, of, i - 1), NEW u \in AddFeature(t, of[i][1], of[i][2])
  PROVE  Loaded(u, of, i)
<1> DEFINE n == of[i][1]
           v == of[i][2]
           col == Meant(of, i)
<1>1. /\ n \in Names /\ v \in 1..Len(history[n])
      /\ col \in Typed /\ col.name = n
      /\ Len(of) \in Nat /\ i \in Nat
  <2>1. of[i] \in Names \X Nat /\ Len(of) \in Nat
    BY ElementOfSeq, LenProperties DEF PinsCommits
  <2>2. n \in Names /\ v \in 1..Len(history[n])
    BY <2>1 DEF PinsCommits
  <2>3. history[n] \in Seq(Typed)
    BY <2>2 DEF IInv, TypeOK
  <2>4. history[n][v] \in Typed
    BY <2>2, <2>3, ElementOfSeq
  <2> QED
    BY <2>1, <2>2, <2>4 DEF Pinned, Meant
<1>2. get_version(n, v) # NotFound => get_version(n, v).data = col
  BY <1>1, FindVersion DEF Found, Meant
<1>3. CASE t.error # "None"
  <2>1. u = t
    BY <1>3 DEF AddFeature
  <2> QED
    BY <2>1, <1>3 DEF Loaded
<1>4. CASE t.error = "None" /\ get_version(n, v) = NotFound
  <2>1. u = [t EXCEPT !.error = "VersionNotFound"]
    BY <1>4 DEF AddFeature
  <2>2. t = [error |-> t.error, data |-> t.data]
    BY DEF Loaded
  <2>3. u.error = "VersionNotFound" /\ u = [error |-> u.error, data |-> u.data]
    BY <2>1, <2>2
  <2> QED
    BY <2>3, <1>4 DEF Loaded
<1>5. CASE t.error = "None" /\ get_version(n, v) # NotFound
  <2>1. PICK rc \in row_count(t.data) :
          u = IF col.name \in DOMAIN t.data \/ LengthMismatch(rc, col)
                THEN [t EXCEPT !.error = "TableBuildFailed"]
                ELSE [t EXCEPT !.data = insert(@, col.name, col)]
    BY <1>2, <1>5 DEF AddFeature
  <2>2. /\ DOMAIN t.data = {of[j][1] : j \in 1..(i - 1)}
        /\ \A j \in 1..(i - 1) : t.data[of[j][1]] = Meant(of, j)
        /\ t = [error |-> t.error, data |-> t.data]
    BY <1>5 DEF Loaded
  <2>3. n \notin DOMAIN t.data
    <3>1. \A j \in 1..(i - 1) : j \in 1..Len(of) /\ j # i
      BY <1>1
    <3>2. \A j \in 1..(i - 1) : of[j][1] # n
      BY <3>1 DEF PinsCommits
    <3> QED
      BY <3>2, <2>2
  <2>4. \/ DOMAIN t.data = {} /\ rc = 0
        \/ \E j \in 1..(i - 1) : rc = Meant(of, j).rows
    <3>1. CASE DOMAIN t.data = {}
      BY <3>1, <2>1 DEF row_count
    <3>2. CASE DOMAIN t.data # {}
      <4>1. PICK m \in DOMAIN t.data : rc = t.data[m].rows
        BY <3>2, <2>1 DEF row_count
      <4>2. PICK j \in 1..(i - 1) : m = of[j][1]
        BY <2>2
      <4> QED
        BY <4>1, <4>2, <2>2
    <3> QED
      BY <3>1, <3>2
  <2> HIDE DEF n, v, col
  <2>5. CASE LengthMismatch(rc, col)
    <3>1. u = [t EXCEPT !.error = "TableBuildFailed"]
      BY <2>1, <2>5
    <3>2. u.error = "TableBuildFailed" /\ u = [error |-> u.error, data |-> u.data]
      BY <3>1, <2>2
    <3>3. \E j \in 1..(i - 1) : Meant(of, j).rows # col.rows
      BY <2>4, <2>5 DEF LengthMismatch
    <3> QED
      BY <3>2, <3>3, <1>1 DEF Loaded, col
  <2>6. CASE ~ LengthMismatch(rc, col)
    <3>1. u = [t EXCEPT !.data = insert(@, n, col)]
      BY <2>1, <2>3, <2>6, <1>1
    <3>2. /\ u.error = "None" /\ u = [error |-> u.error, data |-> u.data]
          /\ u.data = insert(t.data, n, col)
      BY <3>1, <2>2, <1>5
    <3>3. 1..i = 1..(i - 1) \cup {i}
      BY <1>1
    <3>4. DOMAIN u.data = {of[j][1] : j \in 1..i}
      BY <3>2, <3>3, <2>2 DEF insert, n
    <3>5. \A j \in 1..i : u.data[of[j][1]] = Meant(of, j)
      BY <3>2, <3>3, <2>2, <2>3 DEF insert, n, col
    <3>6. ASSUME \A d \in Typed : d.rows # 0,
                 NEW j \in 1..i, NEW k \in 1..i
          PROVE  Meant(of, j).rows = Meant(of, k).rows
      <4>1. \A x, y \in 1..(i - 1) : Meant(of, x).rows = Meant(of, y).rows
        BY <3>6, <1>5 DEF Loaded
      <4>2. \A x \in 1..(i - 1) : Meant(of, x) \in Typed
        <5> SUFFICES ASSUME NEW x \in 1..(i - 1) PROVE Meant(of, x) \in Typed
          OBVIOUS
        <5>1. x \in 1..Len(of)
          BY <1>1
        <5>2. of[x] \in Names \X Nat
          BY <5>1, ElementOfSeq DEF PinsCommits
        <5>3. of[x][1] \in Names /\ of[x][2] \in 1..Len(history[of[x][1]])
          BY <5>1, <5>2 DEF PinsCommits
        <5>4. history[of[x][1]] \in Seq(Typed)
          BY <5>3 DEF IInv, TypeOK
        <5> QED
          BY <5>3, <5>4, ElementOfSeq DEF Meant
      <4>3. i > 1 => \E x \in 1..(i - 1) : col.rows = Meant(of, x).rows
        <5> SUFFICES ASSUME i > 1
                     PROVE  \E x \in 1..(i - 1) : col.rows = Meant(of, x).rows
          OBVIOUS
        <5>1. of[1][1] \in DOMAIN t.data
          <6>1. 1 \in 1..(i - 1)
            BY <1>1
          <6> QED
            BY <6>1, <2>2
        <5>2. PICK x \in 1..(i - 1) : rc = Meant(of, x).rows
          BY <5>1, <2>4
        <5>3. rc # 0
          BY <5>2, <4>2, <3>6
        <5> QED
          BY <5>2, <5>3, <2>6 DEF LengthMismatch
      <4>4. \A x \in 1..(i - 1) : col.rows = Meant(of, x).rows
        BY <4>1, <4>3, <1>1
      <4> QED
        BY <4>1, <4>4, <3>3 DEF col
    <3> QED
      BY <3>2, <3>4, <3>5, <3>6 DEF Loaded
  <2> QED
    BY <2>5, <2>6
<1> QED
  BY <1>3, <1>4, <1>5

\* Every table that reconstruct_table may return has been through all turns.
LEMMA RebuiltTables ==
  ASSUME IInv, Pinned, NEW id \in DOMAIN snapshots, NEW t \in reconstruct_table(id)
  PROVE  LET of == snapshots[id].ordered_features
         IN  Len(of) \in Nat /\ DOMAIN of = 1..Len(of) /\ Loaded(t, of, Len(of))
<1> DEFINE of == snapshots[id].ordered_features
           N == Len(of)
<1>1. PinsCommits(of, history) /\ N \in Nat /\ DOMAIN of = 1..N
  BY LenProperties DEF Pinned, PinsCommits
<1>2. PICK f : Builds(f, of, N) /\ reconstruct_table(id) = f[N]
  BY <1>1, Rebuild
<1> HIDE DEF of, N
<1> DEFINE S == {i \in 0..N : \A u \in f[i] : Loaded(u, of, i)}
<1>3. /\ f[0] = NoColumns
      /\ \A i \in 1..N : f[i] = Turn(f[i - 1], of, i)
  BY <1>1, <1>2 DEF Builds
<1>4. 0 \in S
  <2>1. ASSUME NEW u \in f[0] PROVE Loaded(u, of, 0)
    BY <2>1, <1>3, 1..0 = {} DEF NoColumns, Loaded
  <2> QED
    BY <2>1, <1>1
<1>5. \A i \in 1..N : i - 1 \in S => i \in S
  <2> SUFFICES ASSUME NEW i \in 1..N, i - 1 \in S, NEW u \in f[i]
               PROVE  Loaded(u, of, i)
    BY <1>1
  <2>1. PICK s \in f[i - 1] : u \in AddFeature(s, of[i][1], of[i][2])
    BY <1>3 DEF Turn
  <2> QED
    BY <2>1, <1>1, TurnLoads DEF N
<1>6. N \in 0..N
  BY <1>1
<1>7. N \in S
  <2> HIDE DEF S
  <2> QED
    BY <1>1, <1>4, <1>5, <1>6, UpTo
<1> QED
  BY <1>1, <1>2, <1>7 DEF of, N

\* A snapshot is rebuilt from what was committed under the pinned numbers, all
\* of it and nothing else, or not at all, whatever was committed since.
THEOREM SnapshotsReproducible == Spec => []SnapshotReproducible
<1>1. IInv /\ Pinned => SnapshotReproducible
  BY RebuiltTables, Zenon DEF SnapshotReproducible, Loaded, Meant
<1> QED
  BY <1>1, Invariance, PinnedAlways, PTL

\* No feature is committed without a row.
NoEmptyOffer == \A d \in Offered : d.variant # "Raw" => d.rows # 0

\* A snapshot's features are only put into one table if they are equally long,
\* and nothing but their lengths or a pruned version can keep them from it.
THEOREM RebuildsExplained ==
  ASSUME NoEmptyOffer
  PROVE  Spec => []RebuildOutcomes
<1>1. IInv /\ Pinned => RebuildOutcomes
  <2> SUFFICES ASSUME IInv, Pinned,
                      NEW id \in DOMAIN snapshots, NEW t \in reconstruct_table(id)
               PROVE  LET of == snapshots[id].ordered_features
                      IN /\ t.error = "None" =>
                              \A m, n \in DOMAIN t.data : t.data[m].rows = t.data[n].rows
                         /\ t.error = "TableBuildFailed" =>
                              \E i, j \in DOMAIN of :
                                Meant(of, i).rows # Meant(of, j).rows
                         /\ t.error = "VersionNotFound" =>
                              \E i \in DOMAIN of :
                                of[i][2] \in 2 .. Len(history[of[i][1]]) + 1 - MaxVersions
    BY DEF RebuildOutcomes, Meant
  <2> DEFINE of == snapshots[id].ordered_features
  <2>1. DOMAIN of = 1..Len(of) /\ Loaded(t, of, Len(of))
    BY RebuiltTables
  <2>2. \A d \in Typed : d.rows # 0
    BY DEF NoEmptyOffer, Typed
  <2>3. ASSUME t.error = "VersionNotFound"
        PROVE  \E i \in DOMAIN of :
                 of[i][2] \in 2 .. Len(history[of[i][1]]) + 1 - MaxVersions
    <3>1. PICK i \in 1..Len(of) : get_version(of[i][1], of[i][2]) = NotFound
      BY <2>1, <2>3 DEF Loaded
    <3>2. of[i] \in Names \X Nat /\ of[i][2] \in 1..Len(history[of[i][1]])
      BY ElementOfSeq DEF Pinned, PinsCommits
    <3> DEFINE k == Len(history[of[i][1]])
    <3>3. ~ Retained(k, of[i][2])
      BY <3>1, <3>2, FindVersion
    <3>4. k \in Nat /\ MaxVersions \in Nat /\ of[i][2] \in Nat
      <4>1. history[of[i][1]] \in Seq(Typed)
        BY <3>2 DEF IInv, TypeOK
      <4> QED
        BY <3>2, <4>1, LenProperties, FeatureStoreAssumption
    <3>5. of[i][2] \in 1..k
      BY <3>2
    <3> HIDE DEF k
    <3>6. of[i][2] \in 2 .. k + 1 - MaxVersions
      BY <3>3, <3>4, <3>5 DEF Retained
    <3> QED
      BY <2>1, <3>6 DEF k
  <2>4. t.error = "None" =>
          \A m, n \in DOMAIN t.data : t.data[m].rows = t.data[n].rows
    BY <2>1, <2>2 DEF Loaded
  <2>5. t.error = "TableBuildFailed" =>
          \E i, j \in DOMAIN of : Meant(of, i).rows # Meant(of, j).rows
    BY <2>1, <2>2 DEF Loaded
  <2> QED
    BY <2>3, <2>4, <2>5
<1> QED
  BY <1>1, Invariance, PinnedAlways, PTL
==============================================================================
