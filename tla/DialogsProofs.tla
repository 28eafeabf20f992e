----------------------------- MODULE DialogsProofs -----------------------------
(***************************************************************************)
(* Theorems about Forms and Shell: for every tree of directories, number   *)
(* of paths and loads; for every number of notifications, toasts, entries  *)
(* and queries of the palette.                                             *)
(***************************************************************************)
EXTENDS Forms, Shell, FiniteSetTheorems, SequenceTheorems, TLAPS

-----------------------------------------------------------------------------
(* Induction                                                               *)

\* A set of naturals has a least member: the intervals 1..n with n in the set
\* are finite sets, and strict inclusion of finite sets is well founded.
LEMMA LeastNumber ==
    ASSUME NEW T \in SUBSET Nat, T # {}
    PROVE  \E m \in T : \A k \in T : m <= k
<1> DEFINE F == {1..n : n \in T}
<1>1. F \subseteq FiniteSubsetsOf(Nat) /\ F # {}
  <2>1. ASSUME NEW n \in T PROVE 1..n \subseteq Nat /\ IsFiniteSet(1..n)
    BY FS_Interval
  <2> QED
    BY <2>1 DEF FiniteSubsetsOf
<1>2. IsWellFoundedOn(StrictSubsetOrdering(Nat), FiniteSubsetsOf(Nat))
  BY FS_StrictSubsetOrderingWellFounded
<1>3. PICK x \in F : \A y \in F : ~(<<y, x>> \in StrictSubsetOrdering(Nat))
  <2> HIDE DEF F
  <2> QED
    BY <1>1, <1>2, WFMin
<1>4. PICK m \in T : x = 1..m
  OBVIOUS
<1>5. ASSUME NEW k \in T, k < m PROVE FALSE
  <2>1. 1..k \subseteq Nat /\ 1..m \subseteq Nat /\ 1..k \subseteq 1..m
    BY <1>5
  <2>2. m \in 1..m /\ m \notin 1..k
    BY <1>5
  <2>3. <<1..k, 1..m>> \in StrictSubsetOrdering(Nat)
    BY <2>1, <2>2 DEF StrictSubsetOrdering
  <2>4. 1..k \in F
    OBVIOUS
  <2> QED
    BY <1>3, <1>4, <2>3, <2>4
<1> QED
  BY <1>5

\* Induction for a set of naturals.
LEMMA SetInduction ==
    ASSUME NEW T \in SUBSET Nat, 0 \in T, \A n \in Nat : n \in T => n + 1 \in T
    PROVE  T = Nat
<1> DEFINE B == Nat \ T
<1> SUFFICES ASSUME B # {} PROVE FALSE
  OBVIOUS
<1>1. PICK m \in B : \A k \in B : m <= k
  <2>1. B \in SUBSET Nat
    OBVIOUS
  <2> HIDE DEF B
  <2> QED
    BY <2>1, LeastNumber
<1>2. m \in Nat /\ m # 0
  OBVIOUS
<1>3. m - 1 \in Nat /\ m - 1 \notin B
  <2> HIDE DEF B
  <2> QED
    BY <1>1, <1>2
<1>4. (m - 1) + 1 \in T
  BY <1>3
<1> QED
  BY <1>2, <1>4

-----------------------------------------------------------------------------
(* Filters                                                                 *)

\* The recursive definition of Kept defines a function.
LEMMA KeptDef ==
    ASSUME NEW A, NEW s \in Seq(A), NEW S
    PROVE  Kept(s, S) = [i \in 0..Len(s) |->
               IF i = 0 THEN <<>>
               ELSE IF s[i] \in S THEN Append(Kept(s, S)[i - 1], s[i]) ELSE Kept(s, S)[i - 1]]
<1> DEFINE Body(f, n) == [i \in 0..n |->
               IF i = 0 THEN <<>>
               ELSE IF s[i] \in S THEN Append(f[i - 1], s[i]) ELSE f[i - 1]]
           T == {n \in Nat : \E f : f = Body(f, n)}
<1>1. 0 \in T
  <2> DEFINE f == [i \in 0..0 |-> <<>>]
  <2>1. f = Body(f, 0)
    OBVIOUS
  <2> QED
    BY <2>1
<1>2. ASSUME NEW n \in Nat, n \in T PROVE n + 1 \in T
  <2>1. PICK g : g = Body(g, n)
    BY <1>2
  <2> DEFINE m == n + 1
             f == [i \in 0..m |-> IF i = m THEN (IF s[m] \in S THEN Append(g[n], s[m]) ELSE g[n]) ELSE g[i]]
  <2>2. ASSUME NEW i \in 0..m PROVE f[i] = Body(f, m)[i]
    <3>1. CASE i = m
      <4>1. f[m] = IF s[m] \in S THEN Append(g[n], s[m]) ELSE g[n]
        OBVIOUS
      <4>2. f[n] = g[n] /\ m - 1 = n /\ m # 0
        OBVIOUS
      <4> HIDE DEF f
      <4> QED
        BY <3>1, <4>1, <4>2
    <3>2. CASE i # m /\ i # 0
      <4>1. i \in 0..n /\ i - 1 \in 0..n
        BY <3>2
      <4>2. f[i] = g[i] /\ f[i - 1] = g[i - 1]
        BY <3>2, <4>1
      <4>3. g[i] = Body(g, n)[i]
        BY <2>1
      <4> HIDE DEF f
      <4> QED
        BY <3>2, <4>1, <4>2, <4>3
    <3>3. CASE i = 0
      <4>1. f[0] = g[0] /\ 0 \in 0..n
        BY <3>3
      <4>2. g[0] = Body(g, n)[0]
        BY <2>1
      <4> QED
        BY <3>3, <4>1, <4>2
    <3> QED
      BY <3>1, <3>2, <3>3
  <2>3. f = Body(f, m)
    BY <2>2
  <2>4. \E h : h = Body(h, m)
    BY <2>3
  <2> HIDE DEF Body
  <2> QED
    BY <2>4
<1>3. T = Nat
  <2>1. T \in SUBSET Nat
    OBVIOUS
  <2> HIDE DEF T
  <2> QED
    BY <1>1, <1>2, <2>1, SetInduction
<1>4. PICK f : f = Body(f, Len(s))
  <2>1. Len(s) \in Nat
    OBVIOUS
  <2> QED
    BY <1>3, <2>1
<1>5. Kept(s, S) = CHOOSE h : h = Body(h, Len(s))
  BY DEF Kept
<1> HIDE DEF Body
<1>6. Kept(s, S) = Body(Kept(s, S), Len(s))
  BY <1>4, <1>5
<1> QED
  BY <1>6 DEF Body

\* What Kept has at each place: the elements of S up to there, each once and in
\* their order.
Rising(g, n) == \A i, j \in 1..n : i < j => g[i] < g[j]
Selects(k, s, S, n) ==
    \E g \in [1..Len(k) -> 1..n] :
        /\ Rising(g, Len(k))
        /\ \A j \in 1..Len(k) : k[j] = s[g[j]] /\ s[g[j]] \in S
        /\ \A i \in 1..n : s[i] \in S => \E j \in 1..Len(k) : g[j] = i

LEMMA KeptSelects ==
    ASSUME NEW A, NEW s \in Seq(A), NEW S
    PROVE  \A n \in 0..Len(s) : /\ Kept(s, S)[n] \in Seq(A) /\ Len(Kept(s, S)[n]) <= n
                                /\ Selects(Kept(s, S)[n], s, S, n)
<1> DEFINE K == Kept(s, S)
           T == {n \in Nat : n <= Len(s) => K[n] \in Seq(A) /\ Len(K[n]) <= n /\ Selects(K[n], s, S, n)}
<1>1. K = [i \in 0..Len(s) |->
               IF i = 0 THEN <<>>
               ELSE IF s[i] \in S THEN Append(K[i - 1], s[i]) ELSE K[i - 1]]
  BY KeptDef
<1> HIDE DEF K
<1>2. 0 \in T
  <2>1. K[0] = <<>>
    BY <1>1
  <2>2. Len(K[0]) = 0 /\ K[0] \in Seq(A)
    BY <2>1
  <2>3. [i \in 1..0 |-> 0] \in [1..0 -> 1..0]
    OBVIOUS
  <2>4. Selects(K[0], s, S, 0)
    BY <2>2, <2>3 DEF Selects, Rising
  <2> QED
    BY <2>2, <2>4
<1>3. ASSUME NEW n \in Nat, n \in T PROVE n + 1 \in T
  <2> DEFINE m == n + 1
  <2> SUFFICES ASSUME m <= Len(s) PROVE K[m] \in Seq(A) /\ Len(K[m]) <= m /\ Selects(K[m], s, S, m)
    OBVIOUS
  <2>1. K[n] \in Seq(A) /\ Len(K[n]) <= n /\ Selects(K[n], s, S, n)
    BY <1>3
  <2>2. m \in 1..Len(s) /\ s[m] \in A /\ m - 1 = n /\ m # 0 /\ m \in 0..Len(s)
    OBVIOUS
  <2>3. K[m] = IF s[m] \in S THEN Append(K[n], s[m]) ELSE K[n]
    BY <1>1, <2>2
  <2> DEFINE l == Len(K[n])
  <2>4. l \in Nat
    BY <2>1
  <2>5. PICK g \in [1..l -> 1..n] :
            /\ Rising(g, l)
            /\ \A j \in 1..l : K[n][j] = s[g[j]] /\ s[g[j]] \in S
            /\ \A i \in 1..n : s[i] \in S => \E j \in 1..l : g[j] = i
    BY <2>1 DEF Selects
  <2>6. CASE s[m] \in S
    <3>1. K[m] \in Seq(A) /\ Len(K[m]) = l + 1 /\ K[m][l + 1] = s[m] /\ \A j \in 1..l : K[m][j] = K[n][j]
      BY <2>1, <2>2, <2>3, <2>6
    <3> DEFINE h == [j \in 1..(l + 1) |-> IF j = l + 1 THEN m ELSE g[j]]
    <3> HIDE DEF l
    <3>2. h \in [1..(l + 1) -> 1..m] /\ h[l + 1] = m /\ \A j \in 1..l : h[j] = g[j]
      BY <2>4, <2>5
    <3> HIDE DEF h
    <3>3. Rising(h, l + 1)
      <4> SUFFICES ASSUME NEW i \in 1..(l + 1), NEW j \in 1..(l + 1), i < j PROVE h[i] < h[j]
        BY DEF Rising
      <4>1. i \in 1..l
        BY <2>4
      <4>2. CASE j = l + 1
        <5>1. h[i] = g[i] /\ g[i] \in 1..n /\ h[j] = m
          BY <2>5, <3>2, <4>1, <4>2
        <5> QED
          BY <5>1
      <4>3. CASE j \in 1..l
        BY <2>5, <3>2, <4>1, <4>3 DEF Rising
      <4> QED
        BY <2>4, <4>2, <4>3
    <3>4. \A j \in 1..(l + 1) : K[m][j] = s[h[j]] /\ s[h[j]] \in S
      <4> SUFFICES ASSUME NEW j \in 1..(l + 1) PROVE K[m][j] = s[h[j]] /\ s[h[j]] \in S
        OBVIOUS
      <4>1. CASE j = l + 1
        BY <2>6, <3>1, <3>2, <4>1
      <4>2. CASE j \in 1..l
        BY <2>5, <3>1, <3>2, <4>2
      <4> QED
        BY <2>4, <4>1, <4>2
    <3>5. \A i \in 1..m : s[i] \in S => \E j \in 1..(l + 1) : h[j] = i
      <4> SUFFICES ASSUME NEW i \in 1..m, s[i] \in S PROVE \E j \in 1..(l + 1) : h[j] = i
        OBVIOUS
      <4>1. CASE i = m
        BY <2>4, <3>2, <4>1
      <4>2. CASE i \in 1..n
        <5>1. PICK j \in 1..l : g[j] = i
          BY <2>5, <4>2
        <5> QED
          BY <2>4, <3>2, <5>1
      <4> QED
        BY <4>1, <4>2
    <3>6. Len(K[m]) <= m
      BY <2>1, <2>4, <3>1 DEF l
    <3> QED
      BY <3>1, <3>2, <3>3, <3>4, <3>5, <3>6 DEF Selects
  <2>7. CASE s[m] \notin S
    <3>1. K[m] = K[n]
      BY <2>3, <2>7
    <3> HIDE DEF l
    <3>2. g \in [1..l -> 1..m]
      <4>1. 1..n \subseteq 1..m
        OBVIOUS
      <4> QED
        BY <2>5, <4>1
    <3>3. \A i \in 1..m : s[i] \in S => \E j \in 1..l : g[j] = i
      <4>1. \A i \in 1..m : i = m \/ i \in 1..n
        OBVIOUS
      <4> QED
        BY <2>5, <2>7, <4>1
    <3>4. Selects(K[n], s, S, m)
      <4>1. l = Len(K[n])
        BY DEF l
      <4>2. Rising(g, l) /\ \A j \in 1..l : K[n][j] = s[g[j]] /\ s[g[j]] \in S
        BY <2>5
      <4> QED
        BY <3>2, <3>3, <4>1, <4>2 DEF Selects
    <3>5. Len(K[m]) <= m
      BY <2>1, <2>4, <3>1 DEF l
    <3> QED
      BY <2>1, <3>1, <3>4, <3>5
  <2> QED
    BY <2>6, <2>7
<1>4. T = Nat
  <2>1. T \in SUBSET Nat
    OBVIOUS
  <2> HIDE DEF T
  <2> QED
    BY <1>2, <1>3, <2>1, SetInduction
<1>5. \A n \in 0..Len(s) : n \in Nat /\ n <= Len(s)
  OBVIOUS
<1> QED
  BY <1>4, <1>5 DEF K

\* A filter leaves the elements of S, in their order.
LEMMA KeepSelects ==
    ASSUME NEW A, NEW s \in Seq(A), NEW S
    PROVE  /\ Keep(s, S) \in Seq(A) /\ Len(Keep(s, S)) <= Len(s)
           /\ Selects(Keep(s, S), s, S, Len(s))
<1>1. Len(s) \in 0..Len(s)
  OBVIOUS
<1> QED
  BY <1>1, KeptSelects DEF Keep

\* A filter leaves all of a sequence over S.
LEMMA KeepAll ==
    ASSUME NEW S, NEW s \in Seq(S)
    PROVE  Keep(s, S) = s
<1> DEFINE K == Kept(s, S)
           T == {n \in Nat : n <= Len(s) => K[n] = SubSeq(s, 1, n)}
<1>1. K = [i \in 0..Len(s) |->
               IF i = 0 THEN <<>>
               ELSE IF s[i] \in S THEN Append(K[i - 1], s[i]) ELSE K[i - 1]]
  BY KeptDef
<1> HIDE DEF K
<1>2. 0 \in T
  <2>1. K[0] = <<>>
    BY <1>1
  <2>2. SubSeq(s, 1, 0) = <<>>
    BY SubSeqEmpty
  <2> QED
    BY <2>1, <2>2
<1>3. ASSUME NEW n \in Nat, n \in T PROVE n + 1 \in T
  <2> DEFINE m == n + 1
  <2> SUFFICES ASSUME m <= Len(s) PROVE K[m] = SubSeq(s, 1, m)
    OBVIOUS
  <2>1. K[n] = SubSeq(s, 1, n)
    BY <1>3
  <2>2. s[m] \in S /\ m - 1 = n /\ m # 0 /\ m \in 0..Len(s)
    OBVIOUS
  <2>3. K[m] = Append(K[n], s[m])
    BY <1>1, <2>2
  <2>4. Append(SubSeq(s, 1, n), s[m]) = SubSeq(s, 1, m)
    OBVIOUS
  <2> QED
    BY <2>1, <2>3, <2>4
<1>4. T = Nat
  <2>1. T \in SUBSET Nat
    OBVIOUS
  <2> HIDE DEF T
  <2> QED
    BY <1>2, <1>3, <2>1, SetInduction
<1>5. K[Len(s)] = SubSeq(s, 1, Len(s))
  <2>1. Len(s) \in Nat
    OBVIOUS
  <2> QED
    BY <1>4, <2>1
<1>6. SubSeq(s, 1, Len(s)) = s
  OBVIOUS
<1> QED
  BY <1>5, <1>6 DEF Keep, K

-----------------------------------------------------------------------------
(* Forms: fields and configurations                                        *)

Segments  == Seq({"export", "data"})
Filesets  == {f \in [kind : {"fileset"}, name : BOOLEAN, paths : Seq(Dirs), quiesce : BOOLEAN] :
                Len(f.paths) \in 1..MaxPaths}
Volumes   == [kind : {"volume"}, name : BOOLEAN, backend : {"btrfs", "lvm", "zfs"}, id : {"", "pool"}]
NasShares == [kind : {"nas_share"}, name : BOOLEAN, protocol : {"smb", "nfs"}, host : {"", "nas"}, port : Ports,
              share : {"", "share"}, export : Segments, sub : Segments, login : {"", "user"}, owner : {"0", "33"}]
Filling   == Filesets \cup Volumes \cup NasShares

\* The urls that are written: the default port is never one's port.
SmbUrls == [protocol : {"smb"}, host : {"", "nas"}, port : Ports \ {"445"}, share : {"", "share"},
            path : Segments, login : {"", "user"}, owner : {"0"}]
NfsUrls == [protocol : {"nfs"}, host : {"", "nas"}, port : Ports \ {"2049"}, share : {""},
            path : Segments, login : {""}, owner : {"0", "33"}]
FilesetConfigs == {c \in [kind : {"fileset"}, paths : Seq(Tree), quiesce : BOOLEAN] : Len(c.paths) <= MaxPaths}
VolumeConfigs  == [kind : {"volume"}, backend : {"btrfs", "lvm", "zfs"}, id : {"", "pool"}]
ShareConfigs   == [kind : {"nas_share"}, url : SmbUrls \cup NfsUrls]
Configs        == FilesetConfigs \cup VolumeConfigs \cup ShareConfigs

LEMMA FilledPaths ==
    ASSUME NEW p \in Seq(Dirs)
    PROVE  /\ Filled(p) \in Seq(Tree) /\ Len(Filled(p)) <= Len(p)
           /\ p \in Seq(Tree) => Filled(p) = p
<1>1. Keep(p, Tree) \in Seq(Dirs) /\ Len(Keep(p, Tree)) <= Len(p) /\ Selects(Keep(p, Tree), p, Tree, Len(p))
  BY KeepSelects
<1> DEFINE k == Keep(p, Tree)
<1>2. \A j \in 1..Len(k) : k[j] \in Tree
  BY <1>1 DEF Selects
<1> HIDE DEF k
<1>3. k \in Seq(Dirs) => k \in Seq(Tree)
  BY <1>2
<1> QED
  BY <1>1, <1>3, KeepAll DEF Filled, k

LEMMA NoPaths == Filled(<<>>) = <<>> /\ Filled(<<None>>) = <<>>
<1>1. <<>> \in Seq(Tree) /\ <<>> \in Seq(Dirs) /\ <<None>> \in Seq(Dirs)
  BY DEF Dirs
<1>2. Filled(<<>>) = <<>>
  BY <1>1, FilledPaths
<1> DEFINE p == <<None>>
           k == Keep(p, Tree)
<1>3. k \in Seq(Dirs) /\ Selects(k, p, Tree, Len(p))
  BY <1>1, KeepSelects
<1>4. \A i \in 1..Len(p) : p[i] \notin Tree
  BY FormsAssumption
<1> HIDE DEF k, p
<1>5. PICK g \in [1..Len(k) -> 1..Len(p)] : \A j \in 1..Len(k) : k[j] = p[g[j]] /\ p[g[j]] \in Tree
  BY <1>3 DEF Selects
<1>6. \A j \in 1..Len(k) : FALSE
  BY <1>4, <1>5
<1>7. Len(k) = 0
  BY <1>3, <1>6
<1>8. k = <<>>
  BY <1>3, <1>7
<1> QED
  BY <1>2, <1>8 DEF Filled, k, p

LEMMA BlankFills ==
    ASSUME NEW k \in Kinds
    PROVE  Blank(k) \in Filling /\ Blank(k).kind = k
<1>1. CASE k = "fileset"
  <2>1. <<None>> \in Seq(Dirs) /\ Len(<<None>>) \in 1..MaxPaths
    BY FormsAssumption DEF Dirs
  <2>2. Blank(k) = [kind |-> k, name |-> FALSE, paths |-> <<None>>, quiesce |-> FALSE]
    BY <1>1 DEF Blank
  <2> DEFINE p == <<None>>
  <2> HIDE DEF p
  <2>3. p \in Seq(Dirs) /\ Len(p) \in 1..MaxPaths
    BY <2>1 DEF p
  <2>4. [kind |-> "fileset", name |-> FALSE, paths |-> p, quiesce |-> FALSE] \in Filesets
    BY <2>3 DEF Filesets
  <2>5. Blank(k) = [kind |-> "fileset", name |-> FALSE, paths |-> p, quiesce |-> FALSE]
    BY <1>1, <2>2 DEF p
  <2>6. Blank(k).kind = "fileset"
    BY <2>2, <1>1
  <2> QED
    BY <1>1, <2>4, <2>5, <2>6 DEF Filling
<1>2. CASE k = "volume"
  BY <1>2 DEF Blank, Filling, Volumes
<1>3. CASE k = "nas_share"
  <2>1. <<>> \in Segments
    BY DEF Segments
  <2> QED
    BY <1>3, <2>1 DEF Blank, Filling, NasShares, Ports
<1> QED
  BY <1>1, <1>2, <1>3 DEF Kinds

\* What is written is a configuration.
LEMMA BuildsConfig ==
    ASSUME NEW f \in Filling
    PROVE  BuildConfig(f) \in Configs
<1>1. CASE f \in Filesets
  <2>1. f.kind = "fileset" /\ f.paths \in Seq(Dirs) /\ Len(f.paths) <= MaxPaths /\ f.quiesce \in BOOLEAN
    BY <1>1 DEF Filesets
  <2>2. Filled(f.paths) \in Seq(Tree) /\ Len(Filled(f.paths)) <= MaxPaths
    <3>1. Len(f.paths) \in Nat /\ Len(Filled(f.paths)) \in Nat /\ MaxPaths \in Nat
      BY <2>1, FilledPaths, FormsAssumption
    <3> QED
      BY <2>1, <3>1, FilledPaths
  <2>3. BuildConfig(f) = [kind |-> "fileset", paths |-> Filled(f.paths), quiesce |-> f.quiesce]
    BY <2>1 DEF BuildConfig
  <2> QED
    BY <2>1, <2>2, <2>3 DEF FilesetConfigs, Configs
<1>2. CASE f \in Volumes
  BY <1>2 DEF Volumes, BuildConfig, VolumeConfigs, Configs
<1>3. CASE f \in NasShares
  <2>1. BuildConfig(f) = [kind |-> "nas_share", url |-> Url(f)]
    BY <1>3 DEF NasShares, BuildConfig
  <2>2. ASSUME f.protocol = "smb" PROVE Url(f) \in SmbUrls
    BY <1>3, <2>2 DEF NasShares, Url, SmbUrls, Ports
  <2>3. ASSUME f.protocol = "nfs" PROVE Url(f) \in NfsUrls
    <3>1. f.export \in Segments /\ f.sub \in Segments
      BY <1>3 DEF NasShares
    <3>2. f.export \o f.sub \in Segments
      BY <3>1, ConcatProperties DEF Segments
    <3> QED
      BY <1>3, <2>3, <3>2 DEF NasShares, Url, NfsUrls, Ports
  <2>4. Url(f) \in SmbUrls \cup NfsUrls
    BY <1>3, <2>2, <2>3 DEF NasShares
  <2>5. BuildConfig(f) \in ShareConfigs
    BY <2>1, <2>4 DEF ShareConfigs
  <2> QED
    BY <2>5 DEF Configs
<1> QED
  BY <1>1, <1>2, <1>3 DEF Filling

\* The path of a share is its first segment and what follows.
LEMMA TopBelow ==
    ASSUME NEW p \in Segments
    PROVE  Top(p) \in Segments /\ Below(p) \in Segments /\ Top(p) \o Below(p) = p
<1>1. CASE p = <<>>
  BY <1>1 DEF Top, Below, Segments
<1>2. CASE p # <<>>
  <2>1. /\ Head(p) \in {"export", "data"} /\ Tail(p) \in Segments /\ Len(Tail(p)) = Len(p) - 1
        /\ Len(p) \in Nat \ {0} /\ Head(p) = p[1] /\ \A i \in 1..Len(Tail(p)) : Tail(p)[i] = p[i + 1]
    BY <1>2, HeadTailProperties, EmptySeq DEF Segments
  <2>2. <<Head(p)>> \in Segments /\ Len(<<Head(p)>>) = 1
    BY <2>1 DEF Segments
  <2> DEFINE q == <<Head(p)>> \o Tail(p)
  <2>3. q \in Segments /\ Len(q) = Len(p) /\ \A i \in 1..Len(p) : q[i] = p[i]
    BY <2>1, <2>2 DEF Segments
  <2> HIDE DEF q
  <2>4. q = p
    BY <2>3, SeqEqual DEF Segments
  <2> QED
    BY <1>2, <2>1, <2>2, <2>4 DEF Top, Below, q
<1> QED
  BY <1>1, <1>2

LEMMA ShareFields ==
    ASSUME NEW pr \in {"smb", "nfs"}, NEW h \in {"", "nas"}, NEW po \in Ports, NEW sh \in {"", "share"},
           NEW e \in Segments, NEW su \in Segments, NEW l \in {"", "user"}, NEW o \in {"0", "33"}
    PROVE  [kind |-> "nas_share", name |-> FALSE, protocol |-> pr, host |-> h, port |-> po,
            share |-> sh, export |-> e, sub |-> su, login |-> l, owner |-> o] \in NasShares
BY DEF NasShares

\* What is read from a url.
LEMMA ParsesSmb ==
    ASSUME NEW u \in SmbUrls
    PROVE  ParseUrl(u) = [kind |-> "nas_share", name |-> FALSE, protocol |-> "smb", host |-> u.host, port |-> u.port,
                          share |-> u.share, export |-> <<>>, sub |-> u.path,
                          login |-> IF u.path = <<>> THEN u.login ELSE "", owner |-> "0"]
<1> DEFINE g == IF u.path = <<>> THEN u.login ELSE ""
<1> HIDE DEF g
<1>1. ParseUrl(u) = [kind |-> "nas_share", name |-> FALSE, protocol |-> "smb", host |-> u.host, port |-> u.port,
                     share |-> u.share, export |-> <<>>, sub |-> u.path, login |-> g, owner |-> "0"]
  BY DEF SmbUrls, ParseUrl, Blank, g
<1> QED
  BY <1>1 DEF g

LEMMA ParsesNfs ==
    ASSUME NEW u \in NfsUrls
    PROVE  ParseUrl(u) = [kind |-> "nas_share", name |-> FALSE, protocol |-> "nfs", host |-> u.host, port |-> u.port,
                          share |-> "", export |-> Top(u.path), sub |-> Below(u.path), login |-> "", owner |-> u.owner]
BY DEF NfsUrls, ParseUrl, Blank

LEMMA ParsesShare ==
    ASSUME NEW u \in SmbUrls \cup NfsUrls
    PROVE  ParseUrl(u) \in NasShares
<1>0. <<>> \in Segments
  BY DEF Segments
<1>1. CASE u \in SmbUrls
  <2> DEFINE g == IF u.path = <<>> THEN u.login ELSE ""
  <2>1. g \in {"", "user"}
    BY <1>1 DEF SmbUrls
  <2> HIDE DEF g
  <2>2. ParseUrl(u) = [kind |-> "nas_share", name |-> FALSE, protocol |-> "smb", host |-> u.host, port |-> u.port,
                       share |-> u.share, export |-> <<>>, sub |-> u.path, login |-> g, owner |-> "0"]
    BY <1>1, ParsesSmb DEF g
  <2>3. u.host \in {"", "nas"} /\ u.port \in Ports /\ u.share \in {"", "share"} /\ u.path \in Segments
    BY <1>1 DEF SmbUrls
  <2>4. [kind |-> "nas_share", name |-> FALSE, protocol |-> "smb", host |-> u.host, port |-> u.port,
         share |-> u.share, export |-> <<>>, sub |-> u.path, login |-> g, owner |-> "0"] \in NasShares
    BY <1>0, <2>1, <2>3, ShareFields, Zenon
  <2> QED
    BY <2>2, <2>4
<1>2. CASE u \in NfsUrls
  <2>1. Top(u.path) \in Segments /\ Below(u.path) \in Segments
    BY <1>2, TopBelow DEF NfsUrls
  <2>2. ParseUrl(u) = [kind |-> "nas_share", name |-> FALSE, protocol |-> "nfs", host |-> u.host, port |-> u.port,
                       share |-> "", export |-> Top(u.path), sub |-> Below(u.path), login |-> "", owner |-> u.owner]
    BY <1>2, ParsesNfs
  <2>3. u.host \in {"", "nas"} /\ u.port \in Ports /\ u.owner \in {"0", "33"}
    BY <1>2 DEF NfsUrls
  <2>4. [kind |-> "nas_share", name |-> FALSE, protocol |-> "nfs", host |-> u.host, port |-> u.port,
         share |-> "", export |-> Top(u.path), sub |-> Below(u.path), login |-> "", owner |-> u.owner] \in NasShares
    BY <2>1, <2>3, ShareFields, Zenon
  <2> QED
    BY <2>2, <2>4
<1> QED
  BY <1>1, <1>2

LEMMA PopulatesForm ==
    ASSUME NEW c \in Configs
    PROVE  PopulateConfig(c) \in Filling
<1>1. CASE c \in FilesetConfigs
  <2>0. c.kind = "fileset" /\ c.paths \in Seq(Tree) /\ c.quiesce \in BOOLEAN /\ Len(c.paths) <= MaxPaths
    BY <1>1 DEF FilesetConfigs
  <2> DEFINE p == IF c.paths = <<>> THEN <<None>> ELSE c.paths
  <2>1. p \in Seq(Dirs) /\ Len(p) \in 1..MaxPaths
    <3>1. CASE c.paths = <<>>
      BY <3>1, FormsAssumption DEF Dirs
    <3>2. CASE c.paths # <<>>
      <4>1. Len(c.paths) \in Nat \ {0} /\ Len(c.paths) <= MaxPaths /\ c.paths \in Seq(Dirs)
        BY <2>0, <3>2, EmptySeq DEF Dirs
      <4> QED
        BY <3>2, <4>1, FormsAssumption
    <3> QED
      BY <3>1, <3>2
  <2> HIDE DEF p
  <2>2. PopulateConfig(c) = [kind |-> "fileset", name |-> TRUE, paths |-> p, quiesce |-> c.quiesce]
    BY <2>0 DEF PopulateConfig, Blank, p
  <2> QED
    BY <2>0, <2>1, <2>2 DEF Filling, Filesets
<1>2. CASE c \in VolumeConfigs
  BY <1>2 DEF PopulateConfig, Blank, Filling, Volumes, VolumeConfigs
<1>3. CASE c \in ShareConfigs
  <2> DEFINE u == c.url
  <2>1. u \in SmbUrls \cup NfsUrls /\ PopulateConfig(c) = [ParseUrl(u) EXCEPT !.name = TRUE]
    BY <1>3 DEF PopulateConfig, ShareConfigs
  <2> HIDE DEF u
  <2>3. ParseUrl(u) \in NasShares
    BY <2>1, ParsesShare
  <2>4. [ParseUrl(u) EXCEPT !.name = TRUE] \in NasShares
    BY <2>3 DEF NasShares
  <2> QED
    BY <2>1, <2>4 DEF Filling
<1> QED
  BY <1>1, <1>2, <1>3 DEF Configs

\* What is read from a configuration is written as it was, but for the login of
\* an smb share whose url has a path.
LEMMA ReadsWhatIsWritten ==
    ASSUME NEW c \in Configs
    PROVE  IF c.kind = "nas_share" /\ c.url.protocol = "smb" /\ c.url.path # <<>>
           THEN BuildConfig(PopulateConfig(c)) = [c EXCEPT !.url.login = ""]
           ELSE BuildConfig(PopulateConfig(c)) = c
<1>1. CASE c \in FilesetConfigs
  <2> DEFINE p == IF c.paths = <<>> THEN <<None>> ELSE c.paths
  <2>1. c.kind = "fileset" /\ c.paths \in Seq(Tree) /\ c = [kind |-> "fileset", paths |-> c.paths, quiesce |-> c.quiesce]
    BY <1>1 DEF FilesetConfigs
  <2>2. Filled(p) = c.paths
    <3>1. CASE c.paths = <<>>
      BY <3>1, NoPaths
    <3>2. CASE c.paths # <<>>
      <4>1. c.paths \in Seq(Dirs)
        BY <2>1, SeqMonotonic DEF Dirs
      <4> QED
        BY <2>1, <3>2, <4>1, FilledPaths
    <3> QED
      BY <3>1, <3>2
  <2> HIDE DEF p
  <2>3. PopulateConfig(c) = [kind |-> "fileset", name |-> TRUE, paths |-> p, quiesce |-> c.quiesce]
    BY <2>1 DEF PopulateConfig, Blank, p
  <2>4. BuildConfig(PopulateConfig(c)) = [kind |-> "fileset", paths |-> c.paths, quiesce |-> c.quiesce]
    BY <2>2, <2>3 DEF BuildConfig
  <2> QED
    BY <2>1, <2>4
<1>2. CASE c \in VolumeConfigs
  BY <1>2 DEF VolumeConfigs, PopulateConfig, BuildConfig, Blank
<1>3. CASE c \in ShareConfigs
  <2> DEFINE u == c.url
             f == [ParseUrl(u) EXCEPT !.name = TRUE]
  <2>1. c = [kind |-> "nas_share", url |-> u] /\ u \in SmbUrls \cup NfsUrls
    BY <1>3 DEF ShareConfigs
  <2>2. PopulateConfig(c) = f
    BY <2>1 DEF PopulateConfig
  <2> HIDE DEF u
  <2>3. ASSUME u \in SmbUrls
        PROVE  BuildConfig(f) = [kind |-> "nas_share", url |-> [u EXCEPT !.login = IF u.path = <<>> THEN u.login ELSE ""]]
    <3> DEFINE g == IF u.path = <<>> THEN u.login ELSE ""
    <3> HIDE DEF g
    <3>1. /\ f.kind = "nas_share" /\ f.protocol = "smb" /\ f.host = u.host /\ f.port = u.port
          /\ f.share = u.share /\ f.sub = u.path /\ f.login = g
      <4>1. ParseUrl(u) = [kind |-> "nas_share", name |-> FALSE, protocol |-> "smb", host |-> u.host, port |-> u.port,
                           share |-> u.share, export |-> <<>>, sub |-> u.path, login |-> g, owner |-> "0"]
        BY <2>3, ParsesSmb DEF g
      <4> QED
        BY <4>1
    <3> HIDE DEF f
    <3>2. Url(f) = [protocol |-> "smb", host |-> u.host, port |-> u.port, share |-> u.share, path |-> u.path,
                    login |-> g, owner |-> "0"]
      BY <2>3, <3>1 DEF SmbUrls, Url
    <3>3. Url(f) = [u EXCEPT !.login = g]
      <4>1. [u EXCEPT !.login = g] = [protocol |-> "smb", host |-> u.host, port |-> u.port, share |-> u.share,
                                      path |-> u.path, login |-> g, owner |-> "0"]
        <5>1. u = [protocol |-> u.protocol, host |-> u.host, port |-> u.port, share |-> u.share,
                   path |-> u.path, login |-> u.login, owner |-> u.owner]
          BY <2>3 DEF SmbUrls
        <5>2. u.protocol = "smb" /\ u.owner = "0"
          BY <2>3 DEF SmbUrls
        <5>3. [u EXCEPT !.login = g] = [protocol |-> u.protocol, host |-> u.host, port |-> u.port, share |-> u.share,
                                        path |-> u.path, login |-> g, owner |-> u.owner]
          BY <5>1
        <5> QED
          BY <5>2, <5>3
      <4> QED
        BY <3>2, <4>1
    <3>4. BuildConfig(f) = [kind |-> "nas_share", url |-> Url(f)]
      BY <3>1 DEF BuildConfig
    <3> QED
      BY <3>3, <3>4 DEF g
  <2>4. ASSUME u \in NfsUrls
        PROVE  BuildConfig(f) = [kind |-> "nas_share", url |-> u]
    <3> DEFINE e == Top(u.path)
               b == Below(u.path)
    <3>1. e \o b = u.path
      BY <2>4, TopBelow DEF NfsUrls
    <3> HIDE DEF e, b
    <3>2. /\ f.kind = "nas_share" /\ f.protocol = "nfs" /\ f.host = u.host /\ f.port = u.port
          /\ f.export = e /\ f.sub = b /\ f.owner = u.owner
      <4>1. ParseUrl(u) = [kind |-> "nas_share", name |-> FALSE, protocol |-> "nfs", host |-> u.host, port |-> u.port,
                           share |-> "", export |-> e, sub |-> b, login |-> "", owner |-> u.owner]
        BY <2>4, ParsesNfs DEF e, b
      <4> DEFINE r == ParseUrl(u)
      <4>2. /\ r.kind = "nas_share" /\ r.protocol = "nfs" /\ r.host = u.host /\ r.port = u.port
            /\ r.export = e /\ r.sub = b /\ r.owner = u.owner
        <5> HIDE DEF r
        <5>1. r = [kind |-> "nas_share", name |-> FALSE, protocol |-> "nfs", host |-> u.host, port |-> u.port,
                   share |-> "", export |-> e, sub |-> b, login |-> "", owner |-> u.owner]
          BY <4>1 DEF r
        <5> QED
          BY <5>1
      <4> HIDE DEF r
      <4>3. r \in NasShares /\ f = [r EXCEPT !.name = TRUE]
        BY <2>4, ParsesShare DEF r
      <4>4. /\ f.kind = r.kind /\ f.protocol = r.protocol /\ f.host = r.host /\ f.port = r.port
            /\ f.export = r.export /\ f.sub = r.sub /\ f.owner = r.owner
        BY <4>3 DEF NasShares
      <4> QED
        BY <4>2, <4>4
    <3> HIDE DEF f
    <3>3. Url(f) = [protocol |-> "nfs", host |-> u.host, port |-> u.port, share |-> "", path |-> u.path,
                    login |-> "", owner |-> u.owner]
      BY <2>4, <3>1, <3>2 DEF NfsUrls, Url
    <3>4. Url(f) = u
      BY <2>4, <3>3 DEF NfsUrls
    <3>5. BuildConfig(f) = [kind |-> "nas_share", url |-> Url(f)]
      BY <3>2 DEF BuildConfig
    <3> QED
      BY <3>4, <3>5
  <2> HIDE DEF f
  <2>5. CASE u \in SmbUrls
    <3>1. u.protocol = "smb" /\ u = [u EXCEPT !.login = u.login]
      BY <2>5 DEF SmbUrls
    <3>2. CASE u.path = <<>>
      BY <2>1, <2>2, <2>3, <2>5, <3>1, <3>2 DEF u
    <3>3. CASE u.path # <<>>
      <4>1. [c EXCEPT !.url.login = ""] = [kind |-> "nas_share", url |-> [u EXCEPT !.login = ""]]
        <5>1. c = [kind |-> c.kind, url |-> c.url] /\ c.kind = "nas_share"
          BY <1>3 DEF ShareConfigs
        <5>2. ASSUME NEW w PROVE [c EXCEPT !.url = w] = [kind |-> c.kind, url |-> w]
          BY <5>1
        <5> QED
          BY <5>1, <5>2 DEF u
      <4> QED
        BY <2>1, <2>2, <2>3, <2>5, <3>1, <3>3, <4>1 DEF u
    <3> QED
      BY <3>2, <3>3
  <2>6. CASE u \in NfsUrls
    <3>1. u.protocol = "nfs"
      BY <2>6 DEF NfsUrls
    <3> QED
      BY <2>1, <2>2, <2>4, <2>6, <3>1 DEF u
  <2> QED
    BY <2>1, <2>5, <2>6
<1> QED
  BY <1>1, <1>2, <1>3 DEF Configs

\* Typing keeps the kind of a form, and the rows of its paths.
LEMMA TypingFills ==
    ASSUME NEW f \in Filling, NEW x \in DOMAIN f \cap DOMAIN Values, NEW v \in Values[x]
    PROVE  [f EXCEPT ![x] = v] \in Filling
<1>0. DOMAIN Values = {"quiesce", "backend", "id", "protocol", "host", "port", "share", "export", "sub", "login", "owner"}
  BY DEF Values
<1>a. v \in Values[x]
  OBVIOUS
<1>1. CASE f \in Filesets
  <2>0. DOMAIN f = {"kind", "name", "paths", "quiesce"}
    BY <1>1 DEF Filesets
  <2>1. x = "quiesce" /\ v \in BOOLEAN
    <3>1. x = "quiesce"
      BY <1>0, <2>0
    <3>2. Values["quiesce"] = BOOLEAN
      BY DEF Values
    <3> QED
      BY <1>a, <3>1, <3>2
  <2>2. [f EXCEPT !["quiesce"] = v] \in Filesets
    BY <1>1, <2>1 DEF Filesets
  <2> QED
    BY <2>1, <2>2 DEF Filling
<1>2. CASE f \in Volumes
  <2>1. \/ x = "backend" /\ v \in {"btrfs", "lvm", "zfs"}
        \/ x = "id" /\ v \in {"", "pool"}
    <3>1. DOMAIN f = {"kind", "name", "backend", "id"}
      BY <1>2 DEF Volumes
    <3>2. x \in {"backend", "id"}
      BY <1>0, <3>1
    <3>3. CASE x = "backend"
      <4>1. Values[x] = {"btrfs", "lvm", "zfs"}
        BY <3>3 DEF Values
      <4>2. v \in {"btrfs", "lvm", "zfs"}
        BY <4>1
      <4> QED
        BY <3>3, <4>2
    <3>4. CASE x = "id"
      <4>1. Values[x] = {"", "pool"}
        BY <3>4 DEF Values
      <4>2. v \in {"", "pool"}
        BY <4>1
      <4> QED
        BY <3>4, <4>2
    <3> QED
      BY <3>2, <3>3, <3>4
  <2>2. [f EXCEPT ![x] = v] \in Volumes
    BY <1>2, <2>1 DEF Volumes
  <2> QED
    BY <2>2 DEF Filling
<1>3. CASE f \in NasShares
  <2>1. Exports \subseteq Segments /\ {<<>>, <<"data">>} \subseteq Segments
    BY DEF Exports, Segments
  <2>2. \/ x = "protocol" /\ v \in {"smb", "nfs"}
        \/ x = "host" /\ v \in {"", "nas"}
        \/ x = "port" /\ v \in Ports
        \/ x = "share" /\ v \in {"", "share"}
        \/ x \in {"export", "sub"} /\ v \in Segments
        \/ x = "login" /\ v \in {"", "user"}
        \/ x = "owner" /\ v \in {"0", "33"}
    <3>1. DOMAIN f = {"kind", "name", "protocol", "host", "port", "share", "export", "sub", "login", "owner"}
      BY <1>3 DEF NasShares
    <3>2. x \in {"protocol", "host", "port", "share", "export", "sub", "login", "owner"}
      BY <1>0, <3>1
    <3>3. CASE x = "protocol"
      <4>1. Values[x] = {"smb", "nfs"}
        BY <3>3 DEF Values
      <4>2. v \in {"smb", "nfs"}
        BY <4>1
      <4> QED
        BY <3>3, <4>2
    <3>4. CASE x = "host"
      <4>1. Values[x] = {"", "nas"}
        BY <3>4 DEF Values
      <4>2. v \in {"", "nas"}
        BY <4>1
      <4> QED
        BY <3>4, <4>2
    <3>5. CASE x = "port"
      <4>1. Values[x] = Ports
        BY <3>5 DEF Values
      <4>2. v \in Ports
        BY <4>1
      <4> QED
        BY <3>5, <4>2
    <3>6. CASE x = "share"
      <4>1. Values[x] = {"", "share"}
        BY <3>6 DEF Values
      <4>2. v \in {"", "share"}
        BY <4>1
      <4> QED
        BY <3>6, <4>2
    <3>7. CASE x = "export"
      <4>1. Values[x] = Exports
        BY <3>7 DEF Values
      <4>2. v \in Exports
        BY <4>1
      <4> QED
        BY <2>1, <3>7, <4>2
    <3>8. CASE x = "sub"
      <4>1. Values[x] = {<<>>, <<"data">>}
        BY <3>8 DEF Values
      <4>2. v \in {<<>>, <<"data">>}
        BY <4>1
      <4> QED
        BY <2>1, <3>8, <4>2
    <3>9. CASE x = "login"
      <4>1. Values[x] = {"", "user"}
        BY <3>9 DEF Values
      <4>2. v \in {"", "user"}
        BY <4>1
      <4> QED
        BY <3>9, <4>2
    <3>10. CASE x = "owner"
      <4>1. Values[x] = {"0", "33"}
        BY <3>10 DEF Values
      <4>2. v \in {"0", "33"}
        BY <4>1
      <4> QED
        BY <3>10, <4>2
    <3> QED
      BY <3>2, <3>3, <3>4, <3>5, <3>6, <3>7, <3>8, <3>9, <3>10
  <2>3. [f EXCEPT ![x] = v] \in NasShares
    <3>1. CASE x = "protocol" /\ v \in {"smb", "nfs"}
      BY <1>3, <3>1 DEF NasShares
    <3>2. CASE x = "host" /\ v \in {"", "nas"}
      BY <1>3, <3>2 DEF NasShares
    <3>3. CASE x = "port" /\ v \in Ports
      BY <1>3, <3>3 DEF NasShares
    <3>4. CASE x = "share" /\ v \in {"", "share"}
      BY <1>3, <3>4 DEF NasShares
    <3>5. CASE x = "export" /\ v \in Segments
      BY <1>3, <3>5 DEF NasShares
    <3>6. CASE x = "sub" /\ v \in Segments
      BY <1>3, <3>6 DEF NasShares
    <3>7. CASE x = "login" /\ v \in {"", "user"}
      BY <1>3, <3>7 DEF NasShares
    <3>8. CASE x = "owner" /\ v \in {"0", "33"}
      BY <1>3, <3>8 DEF NasShares
    <3> QED
      BY <2>2, <3>1, <3>2, <3>3, <3>4, <3>5, <3>6, <3>7, <3>8
  <2> QED
    BY <2>3 DEF Filling
<1> QED
  BY <1>1, <1>2, <1>3 DEF Filling

\* Whatever is above a directory of the tree is in the tree.
LEMMA TreePrefix ==
    ASSUME NEW d \in Tree, NEW n \in 0..Len(d)
    PROVE  SubSeq(d, 1, n) \in Tree
<1> DEFINE T == {k \in Nat : k <= Len(d) => SubSeq(d, 1, Len(d) - k) \in Tree}
<1>1. d \in Seq(STRING) /\ Len(d) \in Nat
  BY FormsAssumption
<1>2. 0 \in T
  <2>1. SubSeq(d, 1, Len(d)) = d
    BY <1>1, SubSeqFull
  <2>2. Len(d) - 0 = Len(d)
    BY <1>1
  <2> QED
    BY <2>1, <2>2
<1>3. ASSUME NEW k \in Nat, k \in T PROVE k + 1 \in T
  <2> SUFFICES ASSUME k + 1 <= Len(d) PROVE SubSeq(d, 1, Len(d) - (k + 1)) \in Tree
    OBVIOUS
  <2> DEFINE m == Len(d) - k
             e == SubSeq(d, 1, m)
  <2>1. m \in 1..Len(d) /\ Len(d) - (k + 1) = m - 1
    BY <1>1
  <2>2. e \in Tree
    BY <1>1, <1>3
  <2> HIDE DEF m
  <2>3. Len(e) = m /\ e # <<>>
    BY <1>1, <2>1
  <2>4. SubSeq(e, 1, m - 1) = SubSeq(d, 1, m - 1)
    BY <1>1, <2>1
  <2>5. Parent(e) \in Tree
    BY <2>2, <2>3, FormsAssumption
  <2> QED
    BY <2>1, <2>3, <2>4, <2>5 DEF Parent
<1>4. T = Nat
  <2>1. T \in SUBSET Nat
    OBVIOUS
  <2> HIDE DEF T
  <2> QED
    BY <1>2, <1>3, <2>1, SetInduction
<1>5. Len(d) - n \in Nat /\ Len(d) - n <= Len(d) /\ Len(d) - (Len(d) - n) = n
  BY <1>1
<1>6. Len(d) - n \in T
  <2> HIDE DEF T
  <2> QED
    BY <1>4, <1>5
<1> QED
  BY <1>5, <1>6
-----------------------------------------------------------------------------
(* Forms: the invariant                                                    *)

\* The pages: what is stored is what some form has written.
FieldsInv ==
    /\ page \in {"new", "edit", None} /\ step \in 0..1
    /\ form \in Filling
    /\ stored = None \/ stored \in Configs
    /\ page = "edit" => stored # None

PickerTypes ==
    /\ picker \in [at : Nat, path : Tree, listed : Dirs, chosen : Dirs, loading : BOOLEAN, error : BOOLEAN]
    /\ loads \in [Loads -> Dirs] /\ crossed \in BOOLEAN

\* An open picker is a row's of a fileset; a closed one has forgotten all.
PickerInv ==
    /\ picker.at # 0 => /\ page \in {"new", "edit"} /\ form.kind = "fileset"
                        /\ picker.at <= Len(form.paths)
    /\ picker.at = 0 => picker = Shut /\ ~crossed /\ \A l \in Loads : loads[l] = None

\* Unless loads crossed, at most one is under way, the picker shows that one is,
\* and a chosen file is one of the directory listed.
LoadsInv ==
    /\ Listing => picker.path = picker.listed
    /\ ~crossed => /\ \A l, m \in Loads : loads[l] # None /\ loads[m] # None => l = m
                   /\ \A l \in Loads : loads[l] # None => picker.loading
                   /\ picker.loading => picker.chosen = None
                   /\ picker.chosen \in {None, picker.listed}

FormsInv == FieldsInv /\ PickerTypes /\ PickerInv /\ LoadsInv
LEMMA FormKinds ==
    ASSUME NEW f \in Filling
    PROVE  /\ f.kind \in Kinds /\ f.name \in BOOLEAN /\ DOMAIN f = DOMAIN Blank(f.kind)
           /\ f.kind = "fileset" => f \in Filesets
<1>1. CASE f \in Filesets
  <2>1. f.kind = "fileset" /\ f.name \in BOOLEAN /\ DOMAIN f = {"kind", "name", "paths", "quiesce"}
    BY <1>1 DEF Filesets
  <2>2. DOMAIN Blank("fileset") = {"kind", "name", "paths", "quiesce"}
    BY DEF Blank
  <2> QED
    BY <1>1, <2>1, <2>2 DEF Kinds
<1>2. CASE f \in Volumes
  <2>1. f.kind = "volume" /\ f.name \in BOOLEAN /\ DOMAIN f = {"kind", "name", "backend", "id"}
    BY <1>2 DEF Volumes
  <2>2. DOMAIN Blank("volume") = {"kind", "name", "backend", "id"}
    BY DEF Blank
  <2> QED
    BY <2>1, <2>2 DEF Kinds
<1>3. CASE f \in NasShares
  <2>1. /\ f.kind = "nas_share" /\ f.name \in BOOLEAN
        /\ DOMAIN f = {"kind", "name", "protocol", "host", "port", "share", "export", "sub", "login", "owner"}
    BY <1>3 DEF NasShares
  <2>2. DOMAIN Blank("nas_share") =
            {"kind", "name", "protocol", "host", "port", "share", "export", "sub", "login", "owner"}
    BY DEF Blank
  <2> QED
    BY <2>1, <2>2 DEF Kinds
<1> QED
  BY <1>1, <1>2, <1>3 DEF Filling

LEMMA NamedFills ==
    ASSUME NEW f \in Filling, NEW b \in BOOLEAN
    PROVE  [f EXCEPT !.name = b] \in Filling
<1>1. CASE f \in Filesets
  BY <1>1 DEF Filesets, Filling
<1>2. CASE f \in Volumes
  BY <1>2 DEF Volumes, Filling
<1>3. CASE f \in NasShares
  BY <1>3 DEF NasShares, Filling
<1> QED
  BY <1>1, <1>2, <1>3 DEF Filling

LEMMA PathsFill ==
    ASSUME NEW f \in Filesets, NEW p \in Seq(Dirs), Len(p) \in 1..MaxPaths
    PROVE  [f EXCEPT !.paths = p] \in Filling
BY DEF Filesets, Filling

\* A step of the fields while no picker is open.
LEMMA FieldsStep ==
    ASSUME FormsInv, picker.at = 0, UNCHANGED pickerVars, FieldsInv'
    PROVE  FormsInv'
<1>1. picker' = picker /\ loads' = loads /\ crossed' = crossed
  BY DEF pickerVars
<1>2. PickerTypes'
  BY <1>1 DEF FormsInv, PickerTypes
<1>3. PickerInv'
  BY <1>1 DEF FormsInv, PickerInv
<1>4. LoadsInv'
  BY <1>1 DEF FormsInv, LoadsInv, Listing
<1> QED
  BY <1>2, <1>3, <1>4 DEF FormsInv

\* A step after which no picker is open.
LEMMA ShutStep ==
    ASSUME ShutPicker, FieldsInv'
    PROVE  FormsInv'
<1>1. picker' = Shut /\ loads' = [l \in Loads |-> None] /\ crossed' = FALSE
  BY DEF ShutPicker
<1>2. <<>> \in Tree /\ None \in Dirs
  BY FormsAssumption DEF Dirs
<1>3. PickerTypes'
  BY <1>1, <1>2 DEF PickerTypes, Shut
<1>4. Shut.at = 0 /\ Shut.loading = FALSE /\ Shut.chosen = None
  BY DEF Shut
<1>5. PickerInv'
  BY <1>1, <1>4 DEF PickerInv
<1>6. LoadsInv'
  BY <1>1, <1>4 DEF LoadsInv, Listing
<1> QED
  BY <1>3, <1>5, <1>6 DEF FormsInv

\* A picker that loads a directory.
LEMMA LoadStep ==
    ASSUME FormsInv, NEW l \in Loads, NEW d \in Tree,
           NEW p \in [at : Nat, path : Tree, listed : Dirs, chosen : Dirs, loading : BOOLEAN, error : BOOLEAN],
           p.at # 0, p.at <= Len(form.paths), form.kind = "fileset", page \in {"new", "edit"},
           LoadDir(p, l, d)
    PROVE  FormsInv'
<1>1. /\ picker' = [p EXCEPT !.loading = TRUE, !.error = FALSE, !.chosen = None]
      /\ loads' = [loads EXCEPT ![l] = d] /\ crossed' = (crossed \/ \E m \in Loads : loads[m] # None)
      /\ page' = page /\ step' = step /\ form' = form /\ stored' = stored
  BY DEF LoadDir, formVars
<1>2. /\ picker' \in [at : Nat, path : Tree, listed : Dirs, chosen : Dirs, loading : BOOLEAN, error : BOOLEAN]
      /\ picker'.at = p.at /\ picker'.loading /\ picker'.chosen = None
  BY <1>1 DEF Dirs
<1>3. PickerTypes'
  BY <1>1, <1>2 DEF FormsInv, PickerTypes, Dirs
<1>4. PickerInv'
  BY <1>1, <1>2 DEF PickerInv
<1>5. LoadsInv'
  <2>1. ~Listing'
    BY <1>2 DEF Listing
  <2>2. ASSUME ~crossed' PROVE \A m \in Loads : loads'[m] # None => m = l
    <3>1. \A m \in Loads : loads[m] = None
      BY <1>1, <2>2
    <3> QED
      BY <1>1, <3>1 DEF FormsInv, PickerTypes
  <2> QED
    BY <1>2, <2>1, <2>2 DEF LoadsInv
<1>6. FieldsInv'
  BY <1>1 DEF FormsInv, FieldsInv
<1> QED
  BY <1>3, <1>4, <1>5, <1>6 DEF FormsInv

LEMMA FormsInitOK == FormsInit => FormsInv
<1> SUFFICES ASSUME FormsInit PROVE FormsInv
  OBVIOUS
<1>1. FieldsInv
  <2>1. Blank("fileset") \in Filling
    BY BlankFills DEF Kinds
  <2> QED
    BY <2>1, FormsAssumption DEF FormsInit, FieldsInv
<1>2. picker = Shut /\ loads = [l \in Loads |-> None] /\ crossed = FALSE
  BY DEF FormsInit
<1>3. <<>> \in Tree /\ None \in Dirs
  BY FormsAssumption DEF Dirs
<1>4. PickerTypes
  BY <1>2, <1>3 DEF PickerTypes, Shut
<1>5. Shut.at = 0 /\ Shut.loading = FALSE /\ Shut.chosen = None
  BY DEF Shut
<1>6. PickerInv /\ LoadsInv
  BY <1>2, <1>5 DEF PickerInv, LoadsInv, Listing
<1> QED
  BY <1>1, <1>4, <1>6 DEF FormsInv

\* The pages that come and go.
LEMMA PagesStep ==
    ASSUME FormsInv, OpenNew \/ OpenEdit \/ LeaveForm
    PROVE  FormsInv'
<1>1. page = None => picker.at = 0
  BY FormsAssumption DEF FormsInv, PickerInv
<1>2. Blank("fileset") \in Filling
  BY BlankFills DEF Kinds
<1>3. CASE OpenNew
  <2>1. FieldsInv'
    BY <1>2, <1>3 DEF OpenNew, FormsInv, FieldsInv
  <2> QED
    BY <1>1, <1>3, <2>1, FieldsStep DEF OpenNew
<1>4. CASE OpenEdit
  <2>1. FieldsInv'
    BY <1>4, PopulatesForm DEF OpenEdit, FormsInv, FieldsInv
  <2> QED
    BY <1>1, <1>4, <2>1, FieldsStep DEF OpenEdit
<1>5. CASE LeaveForm
  <2>1. FieldsInv'
    BY <1>2, <1>5, FormsAssumption DEF LeaveForm, Unmount, FormsInv, FieldsInv
  <2>2. ShutPicker
    BY <1>5 DEF LeaveForm, Unmount, ShutPicker
  <2> QED
    BY <2>1, <2>2, ShutStep
<1> QED
  BY <1>3, <1>4, <1>5

\* The fields, and the steps of the wizard.
LEMMA TypingStep ==
    ASSUME FormsInv, (\E k \in Kinds : StepType(k)) \/ NextStep \/ BackStep \/ StepConfig \/ EditConfig
    PROVE  FormsInv'
<1>0. FieldsInv
  BY DEF FormsInv
<1>1. ASSUME NEW k \in Kinds, StepType(k) PROVE FormsInv'
  <2>1. form' \in Filling
    BY <1>0, <1>1, BlankFills, FormKinds, NamedFills DEF StepType, FieldsInv
  <2>2. FieldsInv'
    BY <1>0, <1>1, <2>1 DEF StepType, FieldsInv
  <2> QED
    BY <1>1, <2>2, FieldsStep DEF StepType, On
<1>2. CASE NextStep \/ BackStep
  <2>1. FieldsInv'
    BY <1>0, <1>2 DEF NextStep, BackStep, FieldsInv
  <2> QED
    BY <1>2, <2>1, FieldsStep DEF NextStep, BackStep, On
<1>3. CASE StepConfig \/ EditConfig
  <2>1. Type /\ picker.at = 0
    BY <1>3 DEF StepConfig, EditConfig, ConfigStep, On
  <2>2. form' \in Filling
    <3>1. CASE form' = [form EXCEPT !.name = ~@]
      <4>1. (~form.name) \in BOOLEAN
        OBVIOUS
      <4> QED
        BY <1>0, <3>1, <4>1, NamedFills DEF FieldsInv
    <3>2. CASE \E x \in DOMAIN form \cap DOMAIN Values : \E v \in Values[x] : form' = [form EXCEPT ![x] = v]
      BY <1>0, <3>2, TypingFills DEF FieldsInv
    <3> QED
      BY <2>1, <3>1, <3>2 DEF Type
  <2>3. FieldsInv'
    BY <1>0, <2>1, <2>2 DEF Type, FieldsInv
  <2> QED
    BY <2>1, <2>3, FieldsStep DEF Type
<1> QED
  BY <1>1, <1>2, <1>3

\* The rows of backup paths.
LEMMA RowsStep ==
    ASSUME FormsInv, AddPath \/ \E i \in 1..MaxPaths : RemovePath(i)
    PROVE  FormsInv'
<1>1. picker.at = 0 /\ form \in Filesets /\ FieldsInv
  BY FormKinds DEF AddPath, RemovePath, ShowsFields, ConfigStep, On, FormsInv, FieldsInv
<1>2. form.paths \in Seq(Dirs) /\ Len(form.paths) \in 1..MaxPaths /\ None \in Dirs /\ MaxPaths \in Nat
  BY <1>1, FormsAssumption DEF Filesets, Dirs
<1>3. CASE AddPath
  <2>1. Append(form.paths, None) \in Seq(Dirs) /\ Len(Append(form.paths, None)) \in 1..MaxPaths
    BY <1>2, <1>3 DEF AddPath
  <2>2. form' = [form EXCEPT !.paths = Append(form.paths, None)]
    BY <1>3 DEF AddPath
  <2>3. form' \in Filling
    BY <1>1, <2>1, <2>2, PathsFill
  <2>4. FieldsInv'
    BY <1>1, <1>3, <2>3 DEF AddPath, FieldsInv
  <2> QED
    BY <1>1, <1>3, <2>4, FieldsStep DEF AddPath
<1>4. ASSUME NEW i \in 1..MaxPaths, RemovePath(i) PROVE FormsInv'
  <2> DEFINE a == SubSeq(form.paths, 1, i - 1)
             b == SubSeq(form.paths, i + 1, Len(form.paths))
  <2>1. i \in 1..Len(form.paths) /\ Len(form.paths) > 1
    BY <1>2, <1>4 DEF RemovePath
  <2>2. a \in Seq(Dirs) /\ Len(a) = i - 1 /\ b \in Seq(Dirs) /\ Len(b) = Len(form.paths) - i
    BY <1>2, <2>1, SubSeqProperties
  <2> HIDE DEF a, b
  <2>3. a \o b \in Seq(Dirs) /\ Len(a \o b) \in 1..MaxPaths
    BY <1>2, <2>1, <2>2
  <2>4. form' = [form EXCEPT !.paths = a \o b]
    BY <1>4 DEF RemovePath, a, b
  <2>5. form' \in Filling
    BY <1>1, <2>3, <2>4, PathsFill
  <2>6. FieldsInv'
    BY <1>1, <1>4, <2>5 DEF RemovePath, FieldsInv
  <2> QED
    BY <1>1, <1>4, <2>6, FieldsStep DEF RemovePath
<1> QED
  BY <1>3, <1>4

\* The agent stores what the form has written.
LEMMA StoreStep ==
    ASSUME FormsInv, HandleCreate \/ HandleSubmit
    PROVE  FormsInv'
<1>1. Store /\ FieldsInv
  BY DEF HandleCreate, HandleSubmit, FormsInv
<1>2. stored' \in Configs
  BY <1>1, BuildsConfig DEF Store, FieldsInv
<1>3. Blank("fileset") \in Filling
  BY BlankFills DEF Kinds
<1>4. FieldsInv'
  BY <1>1, <1>2, <1>3, FormsAssumption DEF Store, Unmount, FieldsInv
<1>5. ShutPicker
  BY <1>1 DEF Store, Unmount, ShutPicker
<1> QED
  BY <1>4, <1>5, ShutStep

\* The picker opens, and goes from one directory to another.
LEMMA DirsStep ==
    ASSUME FormsInv, NEW l \in Loads, OpenPicker(l) \/ GoToDir(l)
    PROVE  FormsInv'
<1>0. FieldsInv /\ PickerTypes /\ PickerInv
  BY DEF FormsInv
<1>1. CASE OpenPicker(l)
  <2>1. form \in Filesets /\ form.kind = "fileset" /\ page \in {"new", "edit"}
    BY <1>0, <1>1, FormKinds DEF OpenPicker, ShowsFields, ConfigStep, On, FieldsInv
  <2>2. PICK i \in DOMAIN form.paths :
            LET d == IF form.paths[i] = None THEN <<>> ELSE form.paths[i]
            IN  LoadDir([Shut EXCEPT !.at = i, !.path = d], l, d)
    BY <1>1 DEF OpenPicker
  <2> DEFINE d == IF form.paths[i] = None THEN <<>> ELSE form.paths[i]
             p == [Shut EXCEPT !.at = i, !.path = d]
  <2>3. i \in Nat /\ i # 0 /\ i <= Len(form.paths) /\ form.paths[i] \in Dirs
    BY <2>1 DEF Filesets
  <2>4. d \in Tree
    BY <2>3, FormsAssumption DEF Dirs
  <2>5. LoadDir(p, l, d)
    BY <2>2
  <2> HIDE DEF d
  <2>6. /\ p \in [at : Nat, path : Tree, listed : Dirs, chosen : Dirs, loading : BOOLEAN, error : BOOLEAN]
        /\ p.at = i
    BY <2>3, <2>4 DEF Shut, Dirs
  <2> HIDE DEF p
  <2> QED
    BY <2>1, <2>3, <2>4, <2>5, <2>6, LoadStep
<1>2. CASE GoToDir(l)
  <2>1. picker.at # 0
    BY <1>2 DEF GoToDir, Listing
  <2>2. form.kind = "fileset" /\ page \in {"new", "edit"} /\ picker.at <= Len(form.paths)
    BY <1>0, <2>1 DEF PickerInv
  <2>3. PICK d \in Tree : LoadDir(picker, l, d)
    <3>1. \A n \in 0..Len(picker.path) : SubSeq(picker.path, 1, n) \in Tree
      BY <1>0, TreePrefix DEF PickerTypes
    <3> QED
      BY <1>2, <3>1 DEF GoToDir
  <2> QED
    BY <1>0, <2>1, <2>2, <2>3, LoadStep DEF PickerTypes
<1> QED
  BY <1>1, <1>2

LEMMA ClickFileStep ==
    ASSUME FormsInv, ClickFile
    PROVE  FormsInv'
<1>1. /\ picker' = [picker EXCEPT !.chosen = picker.listed] /\ loads' = loads /\ crossed' = crossed
      /\ page' = page /\ step' = step /\ form' = form /\ stored' = stored
      /\ picker.at # 0 /\ ~picker.loading
  BY DEF ClickFile, formVars, Listing
<1>2. picker \in [at : Nat, path : Tree, listed : Dirs, chosen : Dirs, loading : BOOLEAN, error : BOOLEAN]
  BY DEF FormsInv, PickerTypes
<1>3. /\ picker' \in [at : Nat, path : Tree, listed : Dirs, chosen : Dirs, loading : BOOLEAN, error : BOOLEAN]
      /\ picker'.at = picker.at /\ picker'.path = picker.path /\ picker'.listed = picker.listed
      /\ picker'.chosen = picker.listed /\ picker'.loading = picker.loading /\ picker'.error = picker.error
  BY <1>1, <1>2
<1>4. FieldsInv'
  BY <1>1 DEF FormsInv, FieldsInv
<1>5. PickerTypes'
  BY <1>1, <1>3 DEF FormsInv, PickerTypes
<1>6. PickerInv'
  BY <1>1, <1>3 DEF FormsInv, PickerInv
<1>7. LoadsInv'
  BY <1>1, <1>3 DEF FormsInv, LoadsInv, Listing
<1> QED
  BY <1>4, <1>5, <1>6, <1>7 DEF FormsInv

\* A directory's entries arrive, or it cannot be read.
LEMMA DirAnsweredStep ==
    ASSUME FormsInv, NEW l \in Loads, DirAnswered(l)
    PROVE  FormsInv'
<1>1. /\ loads[l] # None /\ loads' = [loads EXCEPT ![l] = None] /\ crossed' = crossed
      /\ page' = page /\ step' = step /\ form' = form /\ stored' = stored
  BY DEF DirAnswered, formVars
<1>2. picker \in [at : Nat, path : Tree, listed : Dirs, chosen : Dirs, loading : BOOLEAN, error : BOOLEAN]
  BY DEF FormsInv, PickerTypes
<1>3. loads[l] \in Tree /\ loads \in [Loads -> Dirs]
  BY <1>1 DEF FormsInv, PickerTypes, Dirs
<1>4. /\ picker' \in [at : Nat, path : Tree, listed : Dirs, chosen : Dirs, loading : BOOLEAN, error : BOOLEAN]
      /\ picker'.at = picker.at /\ picker'.chosen = picker.chosen /\ ~picker'.loading
      /\ picker'.error \/ (picker'.path = picker'.listed /\ picker'.error = picker.error)
  <2>1. CASE picker' = [picker EXCEPT !.listed = loads[l], !.path = loads[l], !.loading = FALSE]
    BY <1>2, <1>3, <2>1 DEF Dirs
  <2>2. CASE picker' = [picker EXCEPT !.error = TRUE, !.loading = FALSE]
    BY <1>2, <2>2
  <2> QED
    BY <2>1, <2>2 DEF DirAnswered
<1>5. FieldsInv'
  BY <1>1 DEF FormsInv, FieldsInv
<1>6. PickerTypes'
  BY <1>1, <1>3, <1>4 DEF FormsInv, PickerTypes, Dirs
<1>7. picker.at # 0
  BY <1>1 DEF FormsInv, PickerInv
<1>8. PickerInv'
  BY <1>1, <1>4, <1>7 DEF FormsInv, PickerInv
<1>9. LoadsInv'
  <2>1. Listing' => picker'.path = picker'.listed
    BY <1>4 DEF Listing
  <2>2. ASSUME ~crossed' PROVE (\A m \in Loads : loads'[m] = None) /\ picker'.chosen = None
    <3>1. \A m \in Loads : loads[m] # None => m = l
      BY <1>1, <2>2 DEF FormsInv, LoadsInv
    <3>2. picker.chosen = None
      BY <1>1, <2>2 DEF FormsInv, LoadsInv
    <3> QED
      BY <1>1, <1>3, <1>4, <3>1, <3>2
  <2> QED
    BY <1>4, <2>1, <2>2 DEF LoadsInv
<1> QED
  BY <1>5, <1>6, <1>8, <1>9 DEF FormsInv

\* The picker closes, with a directory or without one.
LEMMA SelectStep ==
    ASSUME FormsInv, HandleSelect \/ ClosePicker
    PROVE  FormsInv'
<1>0. FieldsInv /\ PickerTypes /\ PickerInv
  BY DEF FormsInv
<1>1. ShutPicker
  BY DEF HandleSelect, ClosePicker
<1>2. CASE HandleSelect
  <2>1. picker.at # 0 /\ form' = [form EXCEPT !.paths[picker.at] = Picked]
    BY <1>2 DEF HandleSelect
  <2>2. form \in Filesets /\ picker.at \in 1..Len(form.paths)
    BY <1>0, <2>1, FormKinds DEF FieldsInv, PickerInv, PickerTypes, Filesets
  <2>3. Picked \in Dirs
    BY <1>0 DEF PickerTypes, Picked, Dirs
  <2> DEFINE p == [form.paths EXCEPT ![picker.at] = Picked]
  <2>4. form.paths \in Seq(Dirs) /\ Len(form.paths) \in 1..MaxPaths
    BY <2>2 DEF Filesets
  <2>5. p \in Seq(Dirs) /\ Len(p) = Len(form.paths)
    BY <2>2, <2>3, <2>4
  <2>6. form' = [form EXCEPT !.paths = p]
    BY <2>1, <2>2 DEF Filesets
  <2> HIDE DEF p
  <2>7. form' \in Filling
    BY <2>2, <2>4, <2>5, <2>6, PathsFill
  <2>8. FieldsInv'
    BY <1>0, <1>2, <2>7 DEF HandleSelect, FieldsInv
  <2> QED
    BY <1>1, <2>8, ShutStep
<1>3. CASE ClosePicker
  <2>1. FieldsInv'
    BY <1>0, <1>3 DEF ClosePicker, formVars, FieldsInv
  <2> QED
    BY <1>1, <2>1, ShutStep
<1> QED
  BY <1>2, <1>3

LEMMA FormsStep == FormsInv /\ [FormsNext]_<<formVars, pickerVars>> => FormsInv'
<1> SUFFICES ASSUME FormsInv, [FormsNext]_<<formVars, pickerVars>> PROVE FormsInv'
  OBVIOUS
<1>1. CASE UNCHANGED <<formVars, pickerVars>>
  BY <1>1 DEF FormsInv, FieldsInv, PickerTypes, PickerInv, LoadsInv, Listing, formVars, pickerVars
<1>2. CASE FormsNext
  <2>1. CASE OpenNew \/ OpenEdit \/ LeaveForm
    BY <2>1, PagesStep
  <2>2. CASE (\E k \in Kinds : StepType(k)) \/ NextStep \/ BackStep \/ StepConfig \/ EditConfig
    BY <2>2, TypingStep
  <2>3. CASE AddPath \/ \E i \in 1..MaxPaths : RemovePath(i)
    BY <2>3, RowsStep
  <2>4. CASE HandleCreate \/ HandleSubmit
    BY <2>4, StoreStep
  <2>5. CASE ClickFile
    BY <2>5, ClickFileStep
  <2>6. CASE HandleSelect \/ ClosePicker
    BY <2>6, SelectStep
  <2>7. ASSUME NEW l \in Loads, OpenPicker(l) \/ GoToDir(l) \/ DirAnswered(l) PROVE FormsInv'
    BY <2>7, DirsStep, DirAnsweredStep
  <2> QED
    BY <1>2, <2>1, <2>2, <2>3, <2>4, <2>5, <2>6, <2>7 DEF FormsNext
<1> QED
  BY <1>1, <1>2

-----------------------------------------------------------------------------
(* Forms: theorems                                                         *)

\* The pages, the fields and the path picker keep the invariant above.
THEOREM FormsInvariant == FormsSpec => []FormsInv
BY FormsInitOK, FormsStep, PTL DEF FormsSpec

\* Forms keep their types: a row that the picker was opened for is one of the
\* form's, and a fileset keeps between one path and the most it may have.
THEOREM FormsTypeOKAlways == FormsSpec => []FormsTypeOK
<1>1. FormsInv => FormsTypeOK
  <2> SUFFICES ASSUME FormsInv PROVE FormsTypeOK
    OBVIOUS
  <2>1. FieldsInv /\ PickerTypes /\ PickerInv
    BY DEF FormsInv
  <2>2. form.kind \in Kinds /\ DOMAIN form = DOMAIN Blank(form.kind)
    BY <2>1, FormKinds DEF FieldsInv
  <2>3. ASSUME form.kind = "fileset"
        PROVE  /\ Len(form.paths) \in 1..MaxPaths /\ picker.at \in 0..Len(form.paths)
               /\ \A i \in DOMAIN form.paths : form.paths[i] \in Dirs
    <3>1. form \in Filesets
      BY <2>1, <2>3, FormKinds DEF FieldsInv
    <3>2. form.paths \in Seq(Dirs) /\ Len(form.paths) \in 1..MaxPaths
      BY <3>1 DEF Filesets
    <3>3. picker.at \in Nat /\ (picker.at # 0 => picker.at <= Len(form.paths))
      BY <2>1 DEF PickerTypes, PickerInv
    <3> QED
      BY <3>2, <3>3, FormsAssumption
  <2>4. picker.at # 0 => page # None /\ form.kind = "fileset"
    BY <2>1, FormsAssumption DEF PickerInv
  <2>5. picker.path \in Tree /\ picker.listed \in Dirs /\ picker.chosen \in Dirs /\ loads \in [Loads -> Dirs]
    BY <2>1 DEF PickerTypes
  <2> QED
    BY <2>1, <2>2, <2>3, <2>4, <2>5 DEF FormsTypeOK, FieldsInv
<1> QED
  BY <1>1, FormsInvariant, PTL

\* An asset that is opened in the edit form and saved as it is keeps its
\* configuration, whatever was written before, but for the login of an smb
\* share whose url has a path below the share.
THEOREM EditKeepsConfigAlways == FormsSpec => []EditKeepsConfig
<1>1. FormsInv => EditKeepsConfig
  <2> SUFFICES ASSUME FormsInv, stored # None PROVE EditKeepsConfig
    BY DEF EditKeepsConfig
  <2>1. stored \in Configs
    BY DEF FormsInv, FieldsInv
  <2>2. CASE stored.kind = "nas_share" /\ stored.url.protocol = "smb" /\ stored.url.path # <<>>
    BY <2>1, <2>2, ReadsWhatIsWritten DEF EditKeepsConfig
  <2>3. CASE ~(stored.kind = "nas_share" /\ stored.url.protocol = "smb" /\ stored.url.path # <<>>)
    BY <2>1, <2>3, ReadsWhatIsWritten DEF EditKeepsConfig
  <2> QED
    BY <2>2, <2>3
<1> QED
  BY <1>1, FormsInvariant, PTL

\* The path picker hands over the directory it lists, however many loads
\* were under way, unless a file was chosen; then too, unless two loads were
\* under way at once.
THEOREM PickedIsListedAlways == FormsSpec => []PickedIsListed
<1>1. FormsInv => PickedIsListed
  BY DEF FormsInv, LoadsInv, PickedIsListed
<1> QED
  BY <1>1, FormsInvariant, PTL
-----------------------------------------------------------------------------
(* Shell: the invariant                                                    *)

NoteRows == [id : Nat, read : BOOLEAN]
ToastRows == [id : Nat, message : Messages, persistent : BOOLEAN]

\* A new id is above all that are shown.
NotesInv ==
    /\ notes \in Seq(NoteRows) /\ lastNote \in Nat
    /\ Len(notes) <= Cap
    /\ \A i \in 1..Len(notes) : notes[i].id <= lastNote
    /\ \A i, k \in 1..Len(notes) : i < k => notes[i].id > notes[k].id

Expiring(s) == {s[i].id : i \in {k \in 1..Len(s) : ~s[k].persistent}}

ToastsInv ==
    /\ toasts \in Seq(ToastRows) /\ lastToast \in 0..MaxToasts
    /\ \A i \in 1..Len(toasts) : toasts[i].id <= lastToast
    /\ \A i, k \in 1..Len(toasts) : i < k =>
          toasts[i].id < toasts[k].id /\ toasts[i].message # toasts[k].message
    /\ timers = Expiring(toasts)

\* The highlight is never further up than just before the first entry.
PaletteInv ==
    /\ open \in BOOLEAN /\ query \in Queries /\ assets \subseteq Assets /\ jobs \subseteq Jobs
    /\ asked \subseteq {"assets", "jobs"} /\ arrived \in BOOLEAN
    /\ selected \in Int /\ selected >= -1
    /\ PaletteHighlights

ShellInv == NotesInv /\ ToastsInv /\ PaletteInv

LEMMA NoteTypes ==
    ASSUME NotesInv, NEW i \in 1..Len(notes)
    PROVE  notes[i].id \in Nat /\ notes[i].read \in BOOLEAN
<1>1. notes[i] \in NoteRows
  BY DEF NotesInv
<1> QED
  BY <1>1 DEF NoteRows

LEMMA ToastTypes ==
    ASSUME ToastsInv, NEW i \in 1..Len(toasts)
    PROVE  toasts[i].id \in Nat
<1>1. toasts[i] \in ToastRows
  BY DEF ToastsInv
<1> QED
  BY <1>1 DEF ToastRows

LEMMA NotesKept == ASSUME NotesInv, UNCHANGED noteVars PROVE NotesInv'
BY DEF NotesInv, noteVars

LEMMA ToastsKept == ASSUME ToastsInv, UNCHANGED toastVars PROVE ToastsInv'
BY DEF ToastsInv, toastVars, Expiring

LEMMA PaletteKept == ASSUME PaletteInv, UNCHANGED paletteVars PROVE PaletteInv'
BY DEF PaletteInv, PaletteHighlights, Results, paletteVars

LEMMA ShellInitOK == ShellInit => ShellInv
<1> SUFFICES ASSUME ShellInit PROVE ShellInv
  OBVIOUS
<1>1. NotesInv
  BY ShellAssumption DEF ShellInit, NotesInv
<1>2. ToastsInv
  BY ShellAssumption DEF ShellInit, ToastsInv, Expiring
<1>3. PaletteInv
  <2>1. ~open /\ selected = 0 /\ open \in BOOLEAN /\ arrived \in BOOLEAN
    BY DEF ShellInit
  <2>2. query \in Queries /\ assets \subseteq Assets /\ jobs \subseteq Jobs /\ asked \subseteq {"assets", "jobs"}
    BY ShellAssumption DEF ShellInit
  <2>3. selected \in Int /\ selected >= -1
    BY <2>1
  <2>4. PaletteHighlights
    BY <2>1 DEF PaletteHighlights
  <2> QED
    BY <2>1, <2>2, <2>3, <2>4 DEF PaletteInv
<1> QED
  BY <1>1, <1>2, <1>3 DEF ShellInv

\* A notification goes to the front, and the oldest one over the limit goes.
LEMMA AddNotificationStep ==
    ASSUME NotesInv, AddNotification
    PROVE  NotesInv'
<1> DEFINE n == [id |-> lastNote', read |-> FALSE]
           s == <<n>> \o notes
           m == IF Len(notes) < Cap THEN Len(notes) + 1 ELSE Cap
<1>1. /\ notes \in Seq(NoteRows) /\ lastNote \in Nat /\ Len(notes) \in Nat /\ Len(notes) <= Cap
      /\ Cap \in Nat \ {0}
  BY ShellAssumption DEF NotesInv
<1>2. lastNote' = lastNote + 1 /\ notes' = SubSeq(s, 1, m)
  BY DEF AddNotification
<1>3. n \in NoteRows /\ n.id = lastNote + 1
  BY <1>1, <1>2 DEF NoteRows
<1>4. m \in 1..(Len(notes) + 1) /\ m <= Cap
  BY <1>1
<1> HIDE DEF n, m
<1>5. /\ s \in Seq(NoteRows) /\ Len(s) = Len(notes) + 1
      /\ s[1] = n /\ \A i \in 2..(Len(notes) + 1) : s[i] = notes[i - 1]
  BY <1>1, <1>3
<1> HIDE DEF s
<1>6. /\ notes' \in Seq(NoteRows) /\ Len(notes') = m
      /\ notes'[1] = n /\ \A i \in 2..m : notes'[i] = notes[i - 1] /\ i - 1 \in 1..Len(notes)
  <2>1. notes' \in Seq(NoteRows) /\ Len(notes') = m /\ \A i \in 1..m : notes'[i] = s[i]
    BY <1>1, <1>2, <1>4, <1>5, SubSeqProperties
  <2> QED
    BY <1>1, <1>4, <1>5, <2>1
<1>7. \A i \in 1..Len(notes) : notes[i].id <= lastNote /\ notes[i].id \in Nat
  BY NoteTypes DEF NotesInv
<1>8. ASSUME NEW i \in 1..Len(notes') PROVE notes'[i].id <= lastNote'
  <2>1. CASE i = 1
    BY <1>1, <1>2, <1>3, <1>6, <2>1
  <2>2. CASE i \in 2..m
    <3>1. notes'[i].id = notes[i - 1].id /\ notes[i - 1].id <= lastNote /\ notes[i - 1].id \in Nat
      BY <1>6, <1>7, <2>2
    <3>2. lastNote \in Nat /\ lastNote' = lastNote + 1
      BY <1>1, <1>2
    <3> QED
      BY <3>1, <3>2
  <2> QED
    BY <1>4, <1>6, <2>1, <2>2
<1>9. ASSUME NEW i \in 1..Len(notes'), NEW k \in 1..Len(notes'), i < k PROVE notes'[i].id > notes'[k].id
  <2>1. k \in 2..m /\ notes'[k].id = notes[k - 1].id /\ k - 1 \in 1..Len(notes)
    BY <1>4, <1>6, <1>9
  <2>2. CASE i = 1
    BY <1>1, <1>3, <1>6, <1>7, <2>1, <2>2
  <2>3. CASE i \in 2..m
    <3>1. notes'[i].id = notes[i - 1].id /\ i - 1 \in 1..Len(notes) /\ i - 1 < k - 1
      BY <1>6, <1>9, <2>1, <2>3
    <3>2. notes[i - 1].id > notes[k - 1].id
      BY <2>1, <3>1 DEF NotesInv
    <3> QED
      BY <2>1, <3>1, <3>2
  <2> QED
    BY <1>4, <1>6, <2>2, <2>3
<1> QED
  BY <1>1, <1>2, <1>4, <1>6, <1>8, <1>9 DEF NotesInv

LEMMA MarkReadStep ==
    ASSUME NotesInv, NEW id \in Nat, MarkRead(id)
    PROVE  NotesInv'
<1>1. lastNote' = lastNote /\ notes' = [i \in DOMAIN notes |-> [notes[i] EXCEPT !.read = @ \/ notes[i].id = id]]
  BY DEF MarkRead
<1>2. notes \in Seq(NoteRows) /\ DOMAIN notes = 1..Len(notes) /\ Len(notes) \in Nat
  BY DEF NotesInv
<1>3. ASSUME NEW i \in 1..Len(notes) PROVE notes'[i] \in NoteRows /\ notes'[i].id = notes[i].id
  <2>1. notes[i] \in NoteRows
    BY <1>2
  <2> DEFINE b == notes[i].read \/ notes[i].id = id
  <2>2. b \in BOOLEAN /\ notes'[i] = [notes[i] EXCEPT !.read = b]
    BY <1>1, <1>2
  <2> HIDE DEF b
  <2> QED
    BY <2>1, <2>2 DEF NoteRows
<1>4. notes' \in [1..Len(notes) -> NoteRows]
  BY <1>1, <1>2, <1>3
<1>5. notes' \in Seq(NoteRows) /\ Len(notes') = Len(notes)
  BY <1>2, <1>4
<1> QED
  BY <1>1, <1>3, <1>5 DEF NotesInv

LEMMA ClearAllStep ==
    ASSUME NotesInv, ClearAll
    PROVE  NotesInv'
BY ShellAssumption DEF ClearAll, NotesInv

\* A new toast goes to the end.
LEMMA PushToastStep ==
    ASSUME ToastsInv, NEW m \in Messages, NEW p \in BOOLEAN, PushToast(m, p)
    PROVE  ToastsInv'
<1> DEFINE t == [id |-> lastToast', message |-> m, persistent |-> p]
           l == Len(toasts)
<1>1. toasts \in Seq(ToastRows) /\ lastToast \in Nat /\ l \in Nat /\ MaxToasts \in Nat
  BY ShellAssumption DEF ToastsInv
<1>2. /\ lastToast < MaxToasts /\ lastToast' = lastToast + 1 /\ toasts' = Append(toasts, t)
      /\ timers' = timers \cup (IF p THEN {} ELSE {lastToast'})
  BY DEF PushToast
<1>3. t \in ToastRows /\ t.id = lastToast + 1 /\ t.message = m /\ t.persistent = p
  BY <1>1, <1>2 DEF ToastRows
<1>4. \A i \in 1..l : toasts[i].message # m
  BY <1>1 DEF PushToast
<1>5. \A i \in 1..l : toasts[i].id <= lastToast /\ toasts[i].id \in Nat
  BY ToastTypes DEF ToastsInv
<1> HIDE DEF t
<1>6. /\ toasts' \in Seq(ToastRows) /\ Len(toasts') = l + 1
      /\ toasts'[l + 1] = t /\ \A i \in 1..l : toasts'[i] = toasts[i]
  BY <1>1, <1>2, <1>3
<1>7. \A i \in 1..(l + 1) : i = l + 1 \/ i \in 1..l
  BY <1>1
<1>8. timers = Expiring(toasts)
  BY DEF ToastsInv
<1>9. ASSUME NEW i \in 1..l, NEW k \in 1..l, i < k
      PROVE  toasts[i].id < toasts[k].id /\ toasts[i].message # toasts[k].message
  BY <1>9 DEF ToastsInv
<1> HIDE DEF l
<1>10. \A i \in 1..(l + 1) : toasts'[i].id <= lastToast'
  BY <1>1, <1>2, <1>3, <1>5, <1>6, <1>7
<1>11. ASSUME NEW i \in 1..(l + 1), NEW k \in 1..(l + 1), i < k
       PROVE  toasts'[i].id < toasts'[k].id /\ toasts'[i].message # toasts'[k].message
  <2>1. i \in 1..l
    BY <1>1, <1>11
  <2>2. CASE k = l + 1
    BY <1>1, <1>3, <1>4, <1>5, <1>6, <2>1, <2>2
  <2>3. CASE k \in 1..l
    BY <1>6, <1>9, <1>11, <2>1, <2>3
  <2> QED
    BY <1>7, <2>2, <2>3
<1>12. timers' = Expiring(toasts')
  <2>1. \A k \in 1..(l + 1) : toasts'[k].persistent = IF k = l + 1 THEN p ELSE toasts[k].persistent
    BY <1>1, <1>3, <1>6, <1>7
  <2>2. \A k \in 1..(l + 1) : toasts'[k].id = IF k = l + 1 THEN lastToast' ELSE toasts[k].id
    BY <1>1, <1>2, <1>3, <1>6, <1>7
  <2>3. 1..l \subseteq 1..(l + 1) /\ l + 1 \in 1..(l + 1) /\ l + 1 \notin 1..l
    BY <1>1
  <2>4. Expiring(toasts') = {toasts'[i].id : i \in {k \in 1..(l + 1) : ~toasts'[k].persistent}}
    BY <1>6 DEF Expiring
  <2>5. Expiring(toasts) = {toasts[i].id : i \in {k \in 1..l : ~toasts[k].persistent}}
    BY DEF Expiring, l
  <2>6. ASSUME NEW x \in timers' PROVE x \in Expiring(toasts')
    <3>1. CASE x \in timers
      <4>1. PICK i \in 1..l : ~toasts[i].persistent /\ x = toasts[i].id
        BY <1>8, <2>5, <3>1
      <4>2. toasts'[i] = toasts[i] /\ i \in 1..(l + 1)
        BY <1>6, <2>3
      <4> QED
        BY <2>4, <4>1, <4>2
    <3>2. CASE x = lastToast' /\ ~p
      <4>1. ~toasts'[l + 1].persistent /\ toasts'[l + 1].id = x /\ l + 1 \in 1..(l + 1)
        BY <2>1, <2>2, <2>3, <3>2
      <4> QED
        BY <2>4, <4>1
    <3> QED
      BY <1>2, <2>6, <3>1, <3>2
  <2>7. ASSUME NEW x \in Expiring(toasts') PROVE x \in timers'
    <3>1. PICK i \in 1..(l + 1) : ~toasts'[i].persistent /\ x = toasts'[i].id
      BY <2>4
    <3>2. CASE i = l + 1
      BY <1>2, <2>1, <2>2, <3>1, <3>2
    <3>3. CASE i \in 1..l
      <4>1. ~toasts[i].persistent /\ x = toasts[i].id
        BY <1>6, <3>1, <3>3
      <4>2. x \in timers
        BY <1>8, <2>5, <3>3, <4>1
      <4> QED
        BY <1>2, <4>2
    <3> QED
      BY <1>7, <3>2, <3>3
  <2> QED
    BY <2>6, <2>7
<1>13. lastToast' \in 0..MaxToasts
  BY <1>1, <1>2
<1> QED
  BY <1>6, <1>10, <1>11, <1>12, <1>13 DEF ToastsInv

\* Without the toast of an id the others stay, in their order.
LEMMA WithoutOne ==
    ASSUME ToastsInv, NEW id
    PROVE  /\ Without(id) \in Seq(ToastRows)
           /\ \E g \in [1..Len(Without(id)) -> 1..Len(toasts)] :
                 /\ Rising(g, Len(Without(id)))
                 /\ \A j \in 1..Len(Without(id)) : Without(id)[j] = toasts[g[j]] /\ toasts[g[j]].id # id
                 /\ \A i \in 1..Len(toasts) : toasts[i].id # id => \E j \in 1..Len(Without(id)) : g[j] = i
<1> DEFINE S == {toasts[i] : i \in {k \in DOMAIN toasts : toasts[k].id # id}}
           w == Without(id)
<1>1. toasts \in Seq(ToastRows) /\ DOMAIN toasts = 1..Len(toasts)
  BY DEF ToastsInv
<1>2. w = Keep(toasts, S)
  BY DEF Without
<1>3. \A i \in 1..Len(toasts) : toasts[i] \in S <=> toasts[i].id # id
  BY <1>1
<1> HIDE DEF S, w
<1>4. w \in Seq(ToastRows) /\ Selects(w, toasts, S, Len(toasts))
  BY <1>1, <1>2, KeepSelects
<1>5. PICK g \in [1..Len(w) -> 1..Len(toasts)] :
          /\ Rising(g, Len(w))
          /\ \A j \in 1..Len(w) : w[j] = toasts[g[j]] /\ toasts[g[j]] \in S
          /\ \A i \in 1..Len(toasts) : toasts[i] \in S => \E j \in 1..Len(w) : g[j] = i
  BY <1>4 DEF Selects
<1>6. \A j \in 1..Len(w) : g[j] \in 1..Len(toasts)
  BY <1>5
<1>7. \A j \in 1..Len(w) : w[j] = toasts[g[j]] /\ toasts[g[j]].id # id
  BY <1>3, <1>5, <1>6
<1>8. \A i \in 1..Len(toasts) : toasts[i].id # id => \E j \in 1..Len(w) : g[j] = i
  BY <1>3, <1>5
<1> QED
  BY <1>4, <1>5, <1>7, <1>8 DEF w

\* A toast that goes takes its timeout with it, if it had one.
LEMMA ToastGoes ==
    ASSUME ToastsInv, NEW id, toasts' = Without(id), lastToast' = lastToast, timers' = timers \ {id}
    PROVE  ToastsInv'
<1> DEFINE w == Without(id)
           n == Len(w)
<1>1. w \in Seq(ToastRows)
  BY WithoutOne
<1>2. PICK g \in [1..n -> 1..Len(toasts)] :
          /\ Rising(g, n)
          /\ \A j \in 1..n : w[j] = toasts[g[j]] /\ toasts[g[j]].id # id
          /\ \A i \in 1..Len(toasts) : toasts[i].id # id => \E j \in 1..n : g[j] = i
  BY WithoutOne
<1>3. toasts' = w
  OBVIOUS
<1> HIDE DEF w, n
<1>4. Len(toasts') = n
  BY <1>3 DEF n
<1>5. \A j \in 1..n : g[j] \in 1..Len(toasts) /\ toasts'[j] = toasts[g[j]] /\ toasts[g[j]].id # id
  BY <1>2, <1>3
<1>6. \A j \in 1..n : toasts'[j].id <= lastToast'
  BY <1>5 DEF ToastsInv
<1>7. \A j, k \in 1..n : j < k => toasts'[j].id < toasts'[k].id /\ toasts'[j].message # toasts'[k].message
  <2> SUFFICES ASSUME NEW j \in 1..n, NEW k \in 1..n, j < k
               PROVE  toasts'[j].id < toasts'[k].id /\ toasts'[j].message # toasts'[k].message
    OBVIOUS
  <2>1. g[j] < g[k]
    BY <1>2 DEF Rising
  <2> QED
    BY <1>5, <2>1 DEF ToastsInv
<1>8. timers' = Expiring(toasts')
  <2>1. timers = Expiring(toasts)
    BY DEF ToastsInv
  <2>2. ASSUME NEW x \in timers' PROVE x \in Expiring(toasts')
    <3>1. PICK i \in 1..Len(toasts) : ~toasts[i].persistent /\ x = toasts[i].id
      BY <2>1 DEF Expiring
    <3>2. PICK j \in 1..n : g[j] = i
      BY <1>2, <3>1
    <3>3. toasts'[j] = toasts[i]
      BY <1>5, <3>2
    <3> QED
      BY <1>4, <3>1, <3>2, <3>3 DEF Expiring
  <2>3. ASSUME NEW x \in Expiring(toasts') PROVE x \in timers'
    <3>1. PICK j \in 1..n : ~toasts'[j].persistent /\ x = toasts'[j].id
      BY <1>4 DEF Expiring
    <3>2. g[j] \in 1..Len(toasts) /\ ~toasts[g[j]].persistent /\ x = toasts[g[j]].id /\ x # id
      BY <1>5, <3>1
    <3> QED
      BY <2>1, <3>2 DEF Expiring
  <2> QED
    BY <2>2, <2>3
<1>9. lastToast' \in 0..MaxToasts
  BY DEF ToastsInv
<1> QED
  BY <1>1, <1>3, <1>4, <1>6, <1>7, <1>8, <1>9 DEF ToastsInv

LEMMA ToastGoesStep ==
    ASSUME ToastsInv, NEW id \in 1..MaxToasts, Timeout(id) \/ DismissToast(id)
    PROVE  ToastsInv'
<1>1. CASE Timeout(id)
  BY <1>1, ToastGoes DEF Timeout
<1>2. CASE DismissToast(id)
  <2>1. PICK i \in 1..Len(toasts) : toasts[i].id = id /\ toasts[i].persistent
    BY <1>2 DEF DismissToast, ToastsInv
  <2>2. id \notin timers
    <3> SUFFICES ASSUME id \in timers PROVE FALSE
      OBVIOUS
    <3>1. PICK k \in 1..Len(toasts) : ~toasts[k].persistent /\ id = toasts[k].id
      BY DEF ToastsInv, Expiring
    <3>2. toasts[i].id \in Nat /\ toasts[k].id \in Nat
      BY ToastTypes
    <3>3. ~(i < k) /\ ~(k < i)
      BY <2>1, <3>1, <3>2 DEF ToastsInv
    <3>4. i = k
      BY <3>3
    <3> QED
      BY <2>1, <3>1, <3>4
  <2>3. timers' = timers \ {id}
    BY <1>2, <2>2 DEF DismissToast
  <2> QED
    BY <1>2, <2>3, ToastGoes DEF DismissToast
<1> QED
  BY <1>1, <1>2

\* The number of entries shown.
LEMMA ResultsType ==
    ASSUME PaletteInv
    PROVE  Results \in Nat
<1>1. Matches[query] \cap (Pages \cup assets \cup jobs) \subseteq Pages \cup Assets \cup Jobs
  BY DEF PaletteInv
<1>2. IsFiniteSet(Matches[query] \cap (Pages \cup assets \cup jobs))
  BY <1>1, ShellAssumption, FS_Subset
<1> QED
  BY <1>2, FS_CardinalityType DEF Results

LEMMA PaletteStep ==
    ASSUME PaletteInv,
           \/ Open \/ MoveKey \/ Hover \/ Close
           \/ \E s \in SUBSET Assets : AssetsArrive(s)
           \/ \E s \in SUBSET Jobs : JobsArrive(s)
           \/ \E q \in Queries : TypeQuery(q)
    PROVE  PaletteInv'
<1> DEFINE Types == /\ open \in BOOLEAN /\ query \in Queries /\ assets \subseteq Assets /\ jobs \subseteq Jobs
                    /\ asked \subseteq {"assets", "jobs"} /\ arrived \in BOOLEAN
           Placed == selected \in Int /\ selected >= -1
<1>0. Types /\ Placed /\ Results \in Nat
  BY ResultsType DEF PaletteInv
<1>a. ASSUME Types', Placed', ~open' \/ arrived' \/ selected' = 0 PROVE PaletteInv'
  <2>1. ASSUME selected' = 0, open', ~arrived', Results' > 0 PROVE selected' \in 0..(Results' - 1)
    <3>1. Matches[query'] \cap (Pages \cup assets' \cup jobs') \subseteq Pages \cup Assets \cup Jobs
      BY <1>a
    <3>2. IsFiniteSet(Matches[query'] \cap (Pages \cup assets' \cup jobs'))
      BY <3>1, ShellAssumption, FS_Subset
    <3>3. Results' \in Nat
      BY <3>2, FS_CardinalityType DEF Results
    <3>4. ASSUME NEW r \in Nat, r > 0 PROVE 0 \in 0..(r - 1)
      BY <3>4
    <3>5. 0 \in 0..(Results' - 1)
      BY <2>1, <3>3, <3>4, Zenon
    <3> QED
      BY <2>1, <3>5, Zenon
  <2> QED
    BY <1>a, <2>1 DEF PaletteInv, PaletteHighlights
<1>b. ASSUME Types', Placed', query' = query, assets' = assets, jobs' = jobs,
             ~arrived' /\ Results > 0 => selected' \in 0..(Results - 1)
      PROVE  PaletteInv'
  <2>1. Results' = Results
    BY <1>b DEF Results
  <2> QED
    BY <1>b, <2>1 DEF PaletteInv, PaletteHighlights
<1>1. CASE Open
  <2>1. /\ open' = TRUE /\ query' = Everything /\ selected' = 0 /\ arrived' = FALSE
        /\ asked' = {"assets", "jobs"} /\ assets' = assets /\ jobs' = jobs
    BY <1>1 DEF Open, Select
  <2>2. Types'
    BY <1>0, <2>1, ShellAssumption
  <2>3. Placed'
    BY <2>1
  <2> QED
    BY <1>a, <2>1, <2>2, <2>3
<1>2. CASE MoveKey
  <2>1. UNCHANGED <<open, query, assets, jobs, asked>>
    BY <1>2 DEF MoveKey
  <2>2. CASE selected' = (IF selected + 1 < Results - 1 THEN selected + 1 ELSE Results - 1) /\ arrived' = FALSE
    <3>1. Placed' /\ (Results > 0 => selected' \in 0..(Results - 1))
      BY <1>0, <2>2
    <3> QED
      BY <1>0, <1>b, <2>1, <2>2, <3>1
  <2>3. CASE selected' = (IF selected > 0 THEN selected - 1 ELSE 0) /\ arrived' = arrived
    <3>1. Placed'
      BY <1>0, <2>3
    <3>2. ASSUME ~arrived', Results > 0 PROVE selected' \in 0..(Results - 1)
      <4>1. selected \in 0..(Results - 1)
        BY <1>2, <2>3, <3>2 DEF PaletteInv, PaletteHighlights, MoveKey
      <4> QED
        BY <1>0, <2>3, <3>2, <4>1
    <3> QED
      BY <1>0, <1>b, <2>1, <2>3, <3>1, <3>2
  <2> QED
    BY <1>2, <2>2, <2>3 DEF MoveKey, Select
<1>3. CASE Hover
  <2>1. PICK i \in 0..(Results - 1) : selected' = i /\ arrived' = FALSE
    BY <1>3 DEF Hover, Select
  <2>2. Placed'
    BY <1>0, <2>1
  <2>3. UNCHANGED <<open, query, assets, jobs, asked>>
    BY <1>3 DEF Hover
  <2> QED
    BY <1>0, <1>b, <2>1, <2>2, <2>3
<1>4. CASE Close
  BY <1>0, <1>4, <1>a DEF Close
<1>5. ASSUME NEW s \in SUBSET Assets, AssetsArrive(s) PROVE PaletteInv'
  BY <1>0, <1>5, <1>a DEF AssetsArrive
<1>6. ASSUME NEW s \in SUBSET Jobs, JobsArrive(s) PROVE PaletteInv'
  BY <1>0, <1>6, <1>a DEF JobsArrive
<1>7. ASSUME NEW q \in Queries, TypeQuery(q) PROVE PaletteInv'
  <2>1. /\ query' = q /\ selected' = 0 /\ arrived' = FALSE
        /\ open' = open /\ asked' = asked /\ assets' = assets /\ jobs' = jobs
    BY <1>7 DEF TypeQuery, Select
  <2>2. Types'
    BY <1>0, <2>1
  <2>3. Placed'
    BY <2>1
  <2> QED
    BY <1>a, <2>1, <2>2, <2>3
<1> QED
  BY <1>1, <1>2, <1>3, <1>4, <1>5, <1>6, <1>7

LEMMA ShellStep == ShellInv /\ [ShellNext]_<<noteVars, toastVars, paletteVars>> => ShellInv'
<1> SUFFICES ASSUME ShellInv, [ShellNext]_<<noteVars, toastVars, paletteVars>> PROVE ShellInv'
  OBVIOUS
<1>0. NotesInv /\ ToastsInv /\ PaletteInv
  BY DEF ShellInv
<1>1. CASE UNCHANGED <<noteVars, toastVars, paletteVars>>
  BY <1>0, <1>1, NotesKept, ToastsKept, PaletteKept DEF ShellInv
<1>2. CASE AddNotification \/ ClearAll \/ \E id \in 1..MaxNotes : MarkRead(id)
  <2>1. NotesInv'
    BY <1>0, <1>2, AddNotificationStep, ClearAllStep, MarkReadStep
  <2>2. UNCHANGED <<toastVars, paletteVars>>
    BY <1>2 DEF AddNotification, ClearAll, MarkRead
  <2> QED
    BY <1>0, <2>1, <2>2, ToastsKept, PaletteKept DEF ShellInv
<1>3. CASE \/ \E m \in Messages, p \in BOOLEAN : PushToast(m, p)
           \/ \E id \in 1..MaxToasts : Timeout(id) \/ DismissToast(id)
  <2>1. ToastsInv'
    BY <1>0, <1>3, PushToastStep, ToastGoesStep
  <2>2. UNCHANGED <<noteVars, paletteVars>>
    BY <1>3 DEF PushToast, Timeout, DismissToast
  <2> QED
    BY <1>0, <2>1, <2>2, NotesKept, PaletteKept DEF ShellInv
<1>4. CASE \/ Open \/ MoveKey \/ Hover \/ Close
           \/ \E s \in SUBSET Assets : AssetsArrive(s)
           \/ \E s \in SUBSET Jobs : JobsArrive(s)
           \/ \E q \in Queries : TypeQuery(q)
  <2>1. PaletteInv'
    BY <1>0, <1>4, PaletteStep
  <2>2. UNCHANGED <<noteVars, toastVars>>
    BY <1>4 DEF Open, MoveKey, Hover, Close, AssetsArrive, JobsArrive, TypeQuery
  <2> QED
    BY <1>0, <2>1, <2>2, NotesKept, ToastsKept DEF ShellInv
<1>5. CASE UnmountShell
  <2>1. NotesInv'
    BY <1>5, ShellAssumption DEF UnmountShell, NotesInv
  <2>2. ToastsInv'
    BY <1>5, ShellAssumption DEF UnmountShell, ToastsInv, Expiring
  <2>3. PaletteInv'
    <3>1. ~open' /\ selected' = 0 /\ open' \in BOOLEAN /\ arrived' \in BOOLEAN
      BY <1>5 DEF UnmountShell
    <3>2. query' \in Queries /\ assets' \subseteq Assets /\ jobs' \subseteq Jobs /\ asked' \subseteq {"assets", "jobs"}
      BY <1>5, ShellAssumption DEF UnmountShell
    <3>3. selected' \in Int /\ selected' >= -1
      BY <3>1
    <3>4. PaletteHighlights'
      BY <3>1 DEF PaletteHighlights
    <3> QED
      BY <3>1, <3>2, <3>3, <3>4 DEF PaletteInv
  <2> QED
    BY <2>1, <2>2, <2>3 DEF ShellInv
<1> QED
  BY <1>1, <1>2, <1>3, <1>4, <1>5 DEF ShellNext

-----------------------------------------------------------------------------
(* Shell: theorems                                                         *)

\* Notifications, toasts and the palette keep the invariant above.
THEOREM ShellInvariant == ShellSpec => []ShellInv
BY ShellInitOK, ShellStep, PTL DEF ShellSpec

\* The ids of notifications fall and those of toasts rise along their lists,
\* no two toasts are alike, and the pending timeouts are exactly those of the
\* toasts shown that are not persistent.
THEOREM ShellTypeOKAlways == ShellSpec => []ShellTypeOK
<1>1. ShellInv => ShellTypeOK
  <2> SUFFICES ASSUME ShellInv PROVE ShellTypeOK
    OBVIOUS
  <2>1. NotesInv /\ ToastsInv /\ PaletteInv
    BY DEF ShellInv
  <2>2. DOMAIN notes = 1..Len(notes) /\ DOMAIN toasts = 1..Len(toasts)
    BY <2>1 DEF NotesInv, ToastsInv
  <2>3. \A i \in DOMAIN notes : notes[i].read \in BOOLEAN
    BY <2>1, <2>2, NoteTypes
  <2> QED
    BY <2>1, <2>2, <2>3 DEF NotesInv, ToastsInv, PaletteInv, Expiring, ShellTypeOK
<1> QED
  BY <1>1, ShellInvariant, PTL

\* An open palette with entries highlights one of them, unless an answer came
\* after the highlight was last moved.
THEOREM PaletteHighlightsAlways == ShellSpec => []PaletteHighlights
<1>1. ShellInv => PaletteHighlights
  BY DEF ShellInv, PaletteInv
<1> QED
  BY <1>1, ShellInvariant, PTL
=============================================================================
