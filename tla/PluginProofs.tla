------------------------------ MODULE PluginProofs ------------------------------
(***************************************************************************)
(* The proofs about Plugin.                                                *)
(*                                                                         *)
(* What makes DependsInited inductive is the ledger of PluginInvariant: a  *)
(* plugin is finalized when one reference is left to it, and that one is   *)
(* its own as long as no initialized plugin claims it.  The ledger needs   *)
(* to know what a call has still to do, so the invariant gives the agenda  *)
(* of a call that loads, and of one that unloads, a shape.  Every step     *)
(* puts tasks in the place of the first ones, so lemmas on splices carry   *)
(* the shapes over.  The ranks say that dependencies have no cycle: what   *)
(* is being loaded is not loaded again for a dependency of its own.        *)
(*                                                                         *)
(* In order: files, the list and its sort, numbers of tasks and claims,    *)
(* agendas, the steps of a load, a load that fails, the steps of an        *)
(* unload, the calls, and the theorems.                                    *)
(***************************************************************************)
EXTENDS PluginInvariant, FiniteSetTheorems, SequenceTheorems, WellFoundedInduction, TLAPS

-----------------------------------------------------------------------------
(* Files and their plugins.                                                *)

\* A plugin has one file, and is in it.
LEMMA Filed ==
  ASSUME NEW p \in Plugins
  PROVE  /\ FileOf(p) \in Files /\ p \in ToSet(Contents[FileOf(p)])
         /\ \A f \in Files : p \in ToSet(Contents[f]) => f = FileOf(p)
<1>1. ASSUME NEW f \in Files, NEW x
      PROVE  Contains(Contents[f], x) <=> x \in ToSet(Contents[f])
  <2>1. Contents[f] \in Seq(Plugins) BY PluginConstants
  <2>2. DOMAIN Contents[f] = 1 .. Len(Contents[f]) BY <2>1, LenProperties
  <2> QED BY <2>2 DEF Contains, ToSet
<1>2. \E f \in Files : Contains(Contents[f], p) BY PluginConstants
<1>3. FileOf(p) \in Files /\ Contains(Contents[FileOf(p)], p) BY <1>2 DEF FileOf
<1>4. ASSUME NEW f \in Files, p \in ToSet(Contents[f]) PROVE f = FileOf(p)
  BY <1>1, <1>3, <1>4, PluginConstants
<1> QED BY <1>1, <1>3, <1>4

\* A file is named after a plugin and holds plugins, one at least.
LEMMA ContentsTypes ==
  ASSUME NEW f \in Files
  PROVE  /\ Contents[f] \in Seq(Plugins) /\ Len(Contents[f]) \in Nat \ {0}
         /\ DOMAIN Contents[f] = 1 .. Len(Contents[f])
         /\ ToSet(Contents[f]) \subseteq Plugins /\ f \in Plugins
         /\ IsFiniteSet(ToSet(Contents[f]))
         /\ \A i \in 1 .. Len(Contents[f]) :
              Contents[f][i] \in ToSet(Contents[f]) /\ Contents[f][i] \in Plugins
<1>1. Contents[f] \in Seq(Plugins) /\ Contents[f] # << >> /\ f \in Plugins BY PluginConstants
<1>2. Len(Contents[f]) \in Nat \ {0} /\ DOMAIN Contents[f] = 1 .. Len(Contents[f])
  BY <1>1, EmptySeq, LenProperties
<1>3. \A i \in 1 .. Len(Contents[f]) : Contents[f][i] \in Plugins BY <1>1, ElementOfSeq
<1>4. ToSet(Contents[f]) \subseteq Plugins BY <1>2, <1>3 DEF ToSet
<1>5. IsFiniteSet(ToSet(Contents[f])) BY <1>4, FS_Subset, PluginConstants
<1> QED BY <1>1, <1>2, <1>3, <1>4, <1>5 DEF ToSet

\* The place of a plugin in its file.
LEMMA PlaceInFile ==
  ASSUME NEW f \in Files, NEW i \in 1 .. Len(Contents[f])
  PROVE  FileOf(Contents[f][i]) = f /\ Place(Contents[f][i]) = i
<1> DEFINE p == Contents[f][i]
           ps == Contents[f]
           at == {j \in 1 .. Len(ps) : ps[j] = p}
<1>1. p \in Plugins /\ p \in ToSet(ps) /\ DOMAIN ps = 1 .. Len(ps) BY ContentsTypes
<1>2. FileOf(p) = f BY <1>1, Filed
<1>3. \A j \in 1 .. Len(ps) : ps[j] = p => j = i BY <1>1, PluginConstants DEF IsInjective
<1>4. at = {i} BY <1>3
<1> HIDE DEF at
<1>5. Min(at) = i BY <1>4 DEF Min
<1>6. at # {} BY <1>4
<1>7. Place(p) = i BY <1>2, <1>5, <1>6 DEF Place, SelectInSeq, at
<1> QED BY <1>2, <1>7

\* A plugin is at its place in its file.
LEMMA Placed ==
  ASSUME NEW p \in Plugins
  PROVE  Place(p) \in 1 .. Len(Contents[FileOf(p)]) /\ Contents[FileOf(p)][Place(p)] = p
<1>1. FileOf(p) \in Files /\ p \in ToSet(Contents[FileOf(p)]) BY Filed
<1>2. PICK i \in 1 .. Len(Contents[FileOf(p)]) : p = Contents[FileOf(p)][i]
  BY <1>1, ContentsTypes DEF ToSet
<1> QED BY <1>1, <1>2, PlaceInFile

\* A plugin has a parent if its file is shared, a parent has none.
LEMMA Parents ==
  /\ \A p \in Plugins : ParentsOf(p) = IF Shared(p) THEN {Parent(FileOf(p))} ELSE {}
  /\ \A f \in Files : ParentsOf(Parent(f)) = {}
  /\ \A f \in Files : Parent(f) \notin Plugins
  /\ \A f, g \in Files : Parent(f) = Parent(g) => f = g
<1>1. \A f \in Files : \A x : Contains(Contents[f], x) <=> x \in ToSet(Contents[f])
  BY ContentsTypes DEF Contains, ToSet
<1>2. \A f \in Files : Parent(f) \notin Plugins BY PluginConstants
<1>3. \A f, g \in Files : Parent(f) = Parent(g) => f = g BY DEF Parent
<1>4. ASSUME NEW p \in Plugins PROVE ParentsOf(p) = IF Shared(p) THEN {Parent(FileOf(p))} ELSE {}
  <2>1. {g \in Files : Multi(g) /\ Contains(Contents[g], p)} = IF Shared(p) THEN {FileOf(p)} ELSE {}
    BY <1>1, Filed DEF Shared
  <2> QED BY <2>1 DEF ParentsOf
<1>5. ASSUME NEW f \in Files PROVE ParentsOf(Parent(f)) = {}
  <2>1. {g \in Files : Multi(g) /\ Contains(Contents[g], Parent(f))} = {}
    BY <1>1, <1>2, ContentsTypes
  <2> QED BY <2>1 DEF ParentsOf
<1> QED BY <1>2, <1>3, <1>4, <1>5

\* A module is a plugin, or the parent of a file of several.
LEMMA ModuleTypes ==
  /\ Plugins \subseteq Modules
  /\ \A f \in Files : Multi(f) => Parent(f) \in Modules
  /\ \A m \in Modules : m \notin Plugins => \E f \in Files : Multi(f) /\ m = Parent(f)
BY DEF Modules

\* The plugin that follows in a shared file.
LEMMA AfterProperties ==
  ASSUME NEW p \in Plugins
  PROVE  \/ After(p) = << >>
         \/ /\ Shared(p) /\ Place(p) + 1 \in 1 .. Len(Contents[FileOf(p)])
            /\ After(p) = <<Contents[FileOf(p)][Place(p) + 1]>>
<1> DEFINE ps == Contents[FileOf(p)]
<1>1. Place(p) \in 1 .. Len(ps) /\ ps[Place(p)] = p /\ FileOf(p) \in Files BY Placed, Filed
<1>2. Len(ps) \in Nat \ {0} BY <1>1, ContentsTypes
<1>3. CASE p = Last(ps) BY <1>3 DEF After
<1>4. CASE p # Last(ps)
  <2>1. Place(p) # Len(ps) BY <1>1, <1>4 DEF Last
  <2>2. Place(p) + 1 \in 1 .. Len(ps) /\ Len(ps) > 1 BY <1>1, <1>2, <2>1
  <2>3. After(p) = <<ps[Place(p) + 1]>> BY <1>4 DEF After
  <2> QED BY <2>2, <2>3 DEF Shared, Multi
<1> QED BY <1>3, <1>4

-----------------------------------------------------------------------------
(* Dependencies.                                                           *)

\* Ranks grow along the dependencies: there is no cycle.
LEMMA RankProperties ==
  /\ \A p \in Plugins : Rank[p] \in Nat
  /\ \A p, d \in Plugins : Contains(Depends[p], d) => Rank[d] < Rank[p]
<1>1. Rank \in Rankings BY PluginUsage DEF Rank
<1>2. Cardinality(Plugins) \in Nat BY FS_CardinalityType, PluginConstants
<1>3. \A p \in Plugins : Rank[p] \in Nat BY <1>1, <1>2 DEF Rankings
<1>4. \A p, d \in Plugins : Contains(Depends[p], d) => Rank[d] < Rank[p] BY <1>1 DEF Rankings
<1> QED BY <1>3, <1>4

\* The dependencies of a plugin are plugins, in a sequence.
LEMMA DependsTypes ==
  ASSUME NEW p \in Plugins
  PROVE  /\ Depends[p] \in Seq(Plugins) /\ Len(Depends[p]) \in Nat
         /\ DOMAIN Depends[p] = 1 .. Len(Depends[p])
         /\ \A i \in 1 .. Len(Depends[p]) : Depends[p][i] \in Plugins /\ Contains(Depends[p], Depends[p][i])
<1>1. Depends[p] \in Seq(Plugins) BY PluginConstants
<1> QED BY <1>1, LenProperties, ElementOfSeq DEF Contains

\* The places where one plugin names another are finitely many.
LEMMA UsesProperties ==
  ASSUME NEW p \in Plugins, NEW d
  PROVE  /\ Uses(p, d) \subseteq 1 .. Len(Depends[p])
         /\ IsFiniteSet(Uses(p, d)) /\ Cardinality(Uses(p, d)) \in Nat
         /\ Uses(p, d) # {} <=> Contains(Depends[p], d)
         /\ \A i : i \in Uses(p, d) <=> i \in 1 .. Len(Depends[p]) /\ Depends[p][i] = d
<1>1. Len(Depends[p]) \in Nat /\ DOMAIN Depends[p] = 1 .. Len(Depends[p]) BY DependsTypes
<1>2. \A i : i \in Uses(p, d) <=> i \in 1 .. Len(Depends[p]) /\ Depends[p][i] = d
  BY <1>1 DEF Uses
<1>3. Uses(p, d) \subseteq 1 .. Len(Depends[p]) BY <1>2
<1>4. IsFiniteSet(1 .. Len(Depends[p])) BY <1>1, FS_Interval
<1>5. IsFiniteSet(Uses(p, d)) BY <1>3, <1>4, FS_Subset
<1>6. Cardinality(Uses(p, d)) \in Nat BY <1>5, FS_CardinalityType
<1>7. Uses(p, d) # {} <=> Contains(Depends[p], d) BY <1>2 DEF Contains
<1> QED BY <1>2, <1>3, <1>5, <1>6, <1>7

\* What is depended on has a file of its own.
LEMMA DependedOn ==
  ASSUME NEW d \in Plugins, Depended(d)
  PROVE  ~Shared(d) /\ (d \in Files => Contents[d] = <<d>>)
BY PluginUsage DEF Depended, Shared

-----------------------------------------------------------------------------
(* The list.                                                               *)

ListOK == list \in Seq(Modules) /\ IsInjective(list)

\* A set of numbers that is not empty has a least one.
LEMMA SmallestIndex ==
  ASSUME NEW S \in SUBSET Nat, S # {} PROVE Min(S) \in S /\ \A k \in S : Min(S) <= k
<1>1. IsWellFoundedOn(OpToRel(<, Nat), Nat) BY NatLessThanWellFounded
<1>2. PICK m \in S : \A k \in S : ~(<<k, m>> \in OpToRel(<, Nat)) BY <1>1, WFMin
<1>3. ASSUME NEW k \in S PROVE m <= k
  <2>1. k < m => <<k, m>> \in OpToRel(<, Nat) BY DEF OpToRel
  <2>2. ~(k < m) BY <1>2, <2>1, Zenon
  <2>3. k \in Nat /\ m \in Nat OBVIOUS
  <2> QED BY <2>2, <2>3
<1> QED BY <1>3 DEF Min

\* The list is injective, and its members are modules.
LEMMA ListTypes ==
  ASSUME ListOK
  PROVE  /\ Len(list) \in Nat /\ DOMAIN list = 1 .. Len(list)
         /\ listed \subseteq Modules
         /\ \A i \in 1 .. Len(list) : list[i] \in listed
         /\ \A m \in listed : \E i \in 1 .. Len(list) : list[i] = m
         /\ \A i, j \in 1 .. Len(list) : list[i] = list[j] => i = j
         /\ list = << >> <=> Len(list) = 0
         /\ list # << >> => Head(list) = list[1] /\ Head(list) \in listed
<1>1. list \in Seq(Modules) BY DEF ListOK
<1>2. Len(list) \in Nat /\ DOMAIN list = 1 .. Len(list) BY <1>1, LenProperties
<1>3. \A i \in 1 .. Len(list) : list[i] \in Modules BY <1>1, ElementOfSeq
<1>4. list = << >> <=> Len(list) = 0 BY <1>1, EmptySeq
<1> QED BY <1>1, <1>2, <1>3, <1>4 DEF ListOK, listed, ToSet, IsInjective

\* The index of a member is where it is.
LEMMA IndexProperties ==
  ASSUME ListOK, NEW m \in listed
  PROVE  Index(m) \in 1 .. Len(list) /\ list[Index(m)] = m
<1> DEFINE at == {j \in 1 .. Len(list) : list[j] = m}
<1>1. at # {} /\ at \in SUBSET Nat BY ListTypes
<1>2. Index(m) = Min(at) BY <1>1 DEF Index, SelectInSeq
<1>3. Min(at) \in at
  <2> HIDE DEF at
  <2> QED BY <1>1, SmallestIndex
<1> QED BY <1>2, <1>3

\* When the tail is the last node the walk finds every member.
LEMMA WalkProperties ==
  ASSUME ListOK
  PROVE  /\ \A m : Found(m) => m \in listed
         /\ list = << >> \/ tail = Last(list) => \A m : Found(m) <=> m \in listed
         /\ list # << >> => Found(Head(list))
<1> DEFINE n == Index(tail)
<1>1. Len(list) \in Nat /\ list \in Seq(Modules) BY ListTypes DEF ListOK
<1>2. \A m : Contains(list, m) <=> m \in listed BY ListTypes DEF Contains
<1>3. CASE tail \notin listed
  <2>1. Walk = list BY <1>3 DEF Walk
  <2>2. \A m : Found(m) <=> m \in listed BY <1>2, <2>1 DEF Found
  <2> QED BY <2>2, ListTypes
<1>4. CASE tail \in listed
  <2>1. n \in 1 .. Len(list) /\ list[n] = tail BY <1>4, IndexProperties
  <2>2. Walk = SubSeq(list, 1, n) BY <1>4 DEF Walk, Index
  <2> HIDE DEF n
  <2>3. Len(Walk) = n /\ \A i \in 1 .. n : Walk[i] = list[i] BY <1>1, <2>1, <2>2
  <2>4. \A m : Found(m) <=> \E i \in 1 .. n : list[i] = m BY <2>3 DEF Found, Contains
  <2>5. \A m : Found(m) => m \in listed BY <2>1, <2>4, ListTypes
  <2>6. ASSUME tail = Last(list), NEW m \in listed PROVE Found(m)
    <3>1. Len(list) \in 1 .. Len(list) BY <1>1, <2>1
    <3>2. list[Len(list)] = list[n] BY <2>1, <2>6 DEF Last
    <3>3. n = Len(list) BY <2>1, <3>1, <3>2, ListTypes
    <3> QED BY <2>4, <3>3, ListTypes
  <2>7. list # << >> /\ Found(Head(list))
    <3>1. 1 \in 1 .. n /\ Len(list) # 0 BY <1>1, <2>1
    <3> QED BY <2>4, <3>1, ListTypes
  <2> QED BY <2>5, <2>6, <2>7
<1> QED BY <1>3, <1>4

\* What inserting into a sequence yields.
LEMMA InsertAtProperties ==
  ASSUME NEW V, NEW s \in Seq(V), NEW t \in V, NEW i \in 1 .. Len(s)
  PROVE  LET r == InsertAt(s, i, t) IN
         /\ r \in Seq(V) /\ Len(r) = Len(s) + 1
         /\ \A k \in 1 .. Len(s) + 1 :
              r[k] = IF k < i THEN s[k] ELSE IF k = i THEN t ELSE s[k - 1]
BY DEF InsertAt

\* What removing from a sequence yields.
LEMMA RemoveAtProperties ==
  ASSUME NEW V, NEW s \in Seq(V), NEW i \in 1 .. Len(s)
  PROVE  LET r == RemoveAt(s, i) IN
         /\ r \in Seq(V) /\ Len(r) = Len(s) - 1
         /\ \A k \in 1 .. Len(s) - 1 : r[k] = IF k < i THEN s[k] ELSE s[k + 1]
<1> DEFINE a == SubSeq(s, 1, i - 1)
           b == SubSeq(s, i + 1, Len(s))
<1>1. a \in Seq(V) /\ Len(a) = i - 1 /\ \A k \in 1 .. i - 1 : a[k] = s[k]
  OBVIOUS
<1>2. b \in Seq(V) /\ Len(b) = Len(s) - i /\ \A k \in 1 .. Len(s) - i : b[k] = s[k + i]
  OBVIOUS
<1>3. RemoveAt(s, i) = a \o b BY DEF RemoveAt
<1> HIDE DEF a, b
<1>4. /\ a \o b \in Seq(V) /\ Len(a \o b) = Len(a) + Len(b)
      /\ \A k \in 1 .. Len(a) + Len(b) :
           (a \o b)[k] = IF k <= Len(a) THEN a[k] ELSE b[k - Len(a)]
  BY <1>1, <1>2, ConcatProperties
<1>5. Len(s) \in Nat /\ Len(a) + Len(b) = Len(s) - 1 BY <1>1, <1>2
<1>6. ASSUME NEW k \in 1 .. Len(s) - 1 PROVE (a \o b)[k] = IF k < i THEN s[k] ELSE s[k + 1]
  <2>1. CASE k < i BY <1>1, <1>4, <1>5, <2>1
  <2>2. CASE ~(k < i)
    <3>1. (a \o b)[k] = b[k - (i - 1)] BY <1>1, <1>4, <1>5, <2>2
    <3>2. k - (i - 1) \in 1 .. Len(s) - i /\ k - (i - 1) + i = k + 1 BY <2>2
    <3> QED BY <1>2, <2>2, <3>1, <3>2
  <2> QED BY <2>1, <2>2
<1> QED BY <1>3, <1>4, <1>5, <1>6

\* XPR_ListAppend: wherever it is sorted in, the module is a member then.
LEMMA AppendKeeps ==
  ASSUME ListOK, NEW m \in Modules \ listed, NEW counts, ListAppend(m, counts)
  PROVE  /\ ListOK' /\ listed' = listed \union {m} /\ refs' = counts
         /\ list' # << >> /\ tail' = Last(list')
<1> DEFINE more == SelectInSeq(list, LAMBDA x : counts[x] > counts[m])
           at == {j \in 1 .. Len(list) : counts[list[j]] > counts[m]}
<1>1. Len(list) \in Nat /\ list \in Seq(Modules) BY ListTypes DEF ListOK
<1>2. more \in 0 .. Len(list)
  <2>1. more = IF at # {} THEN Min(at) ELSE 0 BY DEF SelectInSeq
  <2>2. at \in SUBSET Nat /\ at \subseteq 1 .. Len(list) BY <1>1
  <2> HIDE DEF at, more
  <2>3. CASE at # {}
    <3>1. Min(at) \in at BY <2>2, <2>3, SmallestIndex
    <3>2. more \in 1 .. Len(list) BY <2>1, <2>2, <2>3, <3>1
    <3> QED BY <1>1, <3>2
  <2>4. CASE at = {} BY <1>1, <2>1, <2>4
  <2> QED BY <2>3, <2>4
<1>3. list' = IF more = 0 THEN Append(list, m) ELSE InsertAt(list, more, m)
  BY DEF ListAppend
<1>4. refs' = counts /\ tail' = Last(list') BY DEF ListAppend
<1> HIDE DEF more
<1> DEFINE n == IF more = 0 THEN Len(list) + 1 ELSE more
<1>5. /\ list' \in Seq(Modules) /\ Len(list') = Len(list) + 1
      /\ \A k \in 1 .. Len(list) + 1 :
           list'[k] = IF k < n THEN list[k] ELSE IF k = n THEN m ELSE list[k - 1]
  <2>1. CASE more = 0
    <3>1. list' = Append(list, m) BY <1>3, <2>1
    <3>2. /\ Append(list, m) \in Seq(Modules) /\ Len(Append(list, m)) = Len(list) + 1
          /\ \A k \in 1 .. Len(list) : Append(list, m)[k] = list[k]
          /\ Append(list, m)[Len(list) + 1] = m
      BY <1>1, AppendProperties
    <3> QED BY <1>1, <2>1, <3>1, <3>2
  <2>2. CASE more # 0
    <3>1. list' = InsertAt(list, more, m) /\ more \in 1 .. Len(list) BY <1>2, <1>3, <2>2
    <3>2. /\ InsertAt(list, more, m) \in Seq(Modules) /\ Len(InsertAt(list, more, m)) = Len(list) + 1
          /\ \A k \in 1 .. Len(list) + 1 : InsertAt(list, more, m)[k] =
               IF k < more THEN list[k] ELSE IF k = more THEN m ELSE list[k - 1]
      <4>1. m \in Modules OBVIOUS
      <4> QED BY ONLY <1>1, <3>1, <4>1, InsertAtProperties
    <3> QED BY <2>2, <3>1, <3>2
  <2> QED BY <2>1, <2>2
<1>6. n \in 1 .. Len(list) + 1 BY <1>1, <1>2
<1> HIDE DEF n
<1>7. DOMAIN list' = 1 .. Len(list) + 1 BY <1>5, LenProperties
<1>8. \A i \in 1 .. Len(list) : list[i] # m BY ListTypes
<1>9. IsInjective(list')
  <2> SUFFICES ASSUME NEW j \in 1 .. Len(list) + 1, NEW k \in 1 .. Len(list) + 1,
                      list'[j] = list'[k]
               PROVE  j = k
    BY <1>7 DEF IsInjective
  <2>1. CASE j = n \/ k = n
    <3>1. ASSUME NEW i \in 1 .. Len(list) + 1, i # n PROVE list'[i] # m
      <4>1. CASE i < n BY <1>1, <1>5, <1>6, <1>8, <4>1
      <4>2. CASE i > n
        <5>1. i - 1 \in 1 .. Len(list) /\ list'[i] = list[i - 1] BY <1>1, <1>5, <1>6, <4>2
        <5> QED BY <1>8, <5>1
      <4> QED BY <1>1, <1>6, <3>1, <4>1, <4>2
    <3>2. list'[n] = m BY <1>1, <1>5, <1>6
    <3> QED BY <2>1, <3>1, <3>2
  <2>2. CASE j # n /\ k # n
    <3> DEFINE jj == IF j < n THEN j ELSE j - 1
               kk == IF k < n THEN k ELSE k - 1
    <3>1. /\ jj \in 1 .. Len(list) /\ kk \in 1 .. Len(list)
          /\ list'[j] = list[jj] /\ list'[k] = list[kk]
      BY <1>1, <1>5, <1>6, <2>2
    <3>2. jj = kk
      <4> HIDE DEF jj, kk
      <4>1. \A a, b \in 1 .. Len(list) : list[a] = list[b] => a = b BY ListTypes
      <4>2. list[jj] = list[kk] BY <3>1
      <4> QED BY ONLY <3>1, <4>1, <4>2
    <3> QED BY <1>1, <1>6, <2>2, <3>2
  <2> QED BY <2>1, <2>2
<1>10. ASSUME NEW k \in 1 .. Len(list) + 1 PROVE list'[k] \in listed \union {m}
  <2>1. CASE k < n
    <3>1. k \in 1 .. Len(list) /\ list'[k] = list[k] BY <1>1, <1>5, <1>6, <2>1
    <3> QED BY <3>1, ListTypes
  <2>2. CASE k = n BY <1>1, <1>5, <1>6, <2>2
  <2>3. CASE k > n
    <3>1. k - 1 \in 1 .. Len(list) /\ list'[k] = list[k - 1] BY <1>1, <1>5, <1>6, <2>3
    <3> QED BY <3>1, ListTypes
  <2> QED BY <1>1, <1>6, <2>1, <2>2, <2>3
<1>11. ASSUME NEW x \in listed PROVE \E k \in 1 .. Len(list) + 1 : list'[k] = x
  <2>1. PICK i \in 1 .. Len(list) : list[i] = x BY ListTypes
  <2>2. CASE i < n
    <3>1. i \in 1 .. Len(list) + 1 /\ list'[i] = x BY <1>1, <1>5, <2>1, <2>2
    <3> QED BY <3>1
  <2>3. CASE i >= n
    <3>1. i + 1 \in 1 .. Len(list) + 1 /\ list'[i + 1] = x BY <1>1, <1>5, <1>6, <2>1, <2>3
    <3> QED BY <3>1
  <2> QED BY <1>1, <1>6, <2>2, <2>3
<1>12. list'[n] = m BY <1>1, <1>5, <1>6
<1>13. listed' = listed \union {m}
  <2>1. listed' = {list'[k] : k \in 1 .. Len(list) + 1} BY <1>7 DEF listed, ToSet
  <2>2. listed' \subseteq listed \union {m} BY <1>10, <2>1
  <2>3. listed \subseteq listed' BY <1>11, <2>1
  <2>4. m \in listed' BY <1>6, <1>12, <2>1
  <2> QED BY <2>2, <2>3, <2>4
<1>14. list' # << >> BY <1>1, <1>5, EmptySeq
<1> QED BY <1>4, <1>5, <1>9, <1>13, <1>14 DEF ListOK

\* XPR_ListRemove: the module is none, and the others stay.
LEMMA RemoveKeeps ==
  ASSUME ListOK, NEW m \in listed, ListRemove(m)
  PROVE  /\ ListOK' /\ listed' = listed \ {m}
         /\ tail = Last(list) => list' = << >> \/ tail' = Last(list')
<1> DEFINE i == Index(m)
           r == RemoveAt(list, i)
<1>1. Len(list) \in Nat /\ list \in Seq(Modules) BY ListTypes DEF ListOK
<1>2. i \in 1 .. Len(list) /\ list[i] = m BY IndexProperties
<1>3. list' = r
  <2>1. list' = RemoveFirst(list, m) BY DEF ListRemove
  <2>2. SelectInSeq(list, LAMBDA v : v = m) = i BY DEF Index
  <2> QED BY <1>2, <2>1, <2>2 DEF RemoveFirst
<1>4. tail' = IF m # Head(list) THEN Last(list') ELSE tail BY DEF ListRemove
<1> HIDE DEF i
<1>5. /\ r \in Seq(Modules) /\ Len(r) = Len(list) - 1
      /\ \A k \in 1 .. Len(list) - 1 : r[k] = IF k < i THEN list[k] ELSE list[k + 1]
  BY ONLY <1>1, <1>2, RemoveAtProperties
<1> HIDE DEF r
<1>6. DOMAIN r = 1 .. Len(list) - 1 BY <1>5, LenProperties
<1>7. \A j, k \in 1 .. Len(list) : list[j] = list[k] => j = k BY ListTypes
<1>8. IsInjective(r)
  <2> SUFFICES ASSUME NEW j \in 1 .. Len(list) - 1, NEW k \in 1 .. Len(list) - 1, r[j] = r[k]
               PROVE  j = k
    BY <1>6 DEF IsInjective
  <2> DEFINE jj == IF j < i THEN j ELSE j + 1
             kk == IF k < i THEN k ELSE k + 1
  <2>1. /\ jj \in 1 .. Len(list) /\ kk \in 1 .. Len(list)
        /\ r[j] = list[jj] /\ r[k] = list[kk]
    BY <1>1, <1>2, <1>5
  <2>2. jj = kk
    <3> HIDE DEF jj, kk
    <3> QED BY <1>7, <2>1
  <2> QED BY <1>1, <1>2, <2>2
<1>9. ASSUME NEW k \in 1 .. Len(list) - 1 PROVE r[k] \in listed \ {m}
  <2> DEFINE kk == IF k < i THEN k ELSE k + 1
  <2>1. kk \in 1 .. Len(list) /\ kk # i /\ r[k] = list[kk] BY <1>1, <1>2, <1>5
  <2> HIDE DEF kk
  <2>2. list[kk] # m BY <1>2, <1>7, <2>1
  <2> QED BY <2>1, <2>2, ListTypes
<1>10. ASSUME NEW x \in listed, x # m PROVE \E k \in 1 .. Len(list) - 1 : r[k] = x
  <2>1. PICK j \in 1 .. Len(list) : list[j] = x BY ListTypes
  <2>2. CASE j < i
    <3>1. j \in 1 .. Len(list) - 1 /\ r[j] = x BY <1>1, <1>2, <1>5, <2>1, <2>2
    <3> QED BY <3>1
  <2>3. CASE j > i
    <3>1. j - 1 \in 1 .. Len(list) - 1 /\ r[j - 1] = x BY <1>1, <1>2, <1>5, <2>1, <2>3
    <3> QED BY <3>1
  <2>4. j # i BY <1>2, <1>10, <2>1
  <2> QED BY <1>1, <1>2, <2>2, <2>3, <2>4
<1>11. listed' = listed \ {m}
  <2>1. listed' = {r[k] : k \in 1 .. Len(list) - 1} BY <1>3, <1>6 DEF listed, ToSet
  <2>2. listed' \subseteq listed \ {m} BY <1>9, <2>1
  <2>3. listed \ {m} \subseteq listed' BY <1>10, <2>1
  <2> QED BY <2>2, <2>3
<1>12. ASSUME tail = Last(list), list' # << >> PROVE tail' = Last(list')
  <2>1. CASE m # Head(list) BY <1>4, <2>1
  <2>2. CASE m = Head(list)
    <3>1. i = 1
      <4>1. list # << >> /\ 1 \in 1 .. Len(list) BY <1>1, <1>2
      <4>2. list[1] = list[i] BY <1>2, <2>2, <4>1, ListTypes
      <4> QED BY <1>2, <1>7, <4>1, <4>2
    <3>2. Len(list) - 1 # 0 BY <1>3, <1>5, <1>12, EmptySeq
    <3>3. r[Len(list) - 1] = list[Len(list) - 1 + 1] BY <1>1, <1>2, <1>5, <3>1, <3>2
    <3>4. Last(list') = Last(list) BY <1>1, <1>3, <1>5, <3>3 DEF Last
    <3> QED BY <1>4, <1>12, <2>2, <3>4
  <2> QED BY <2>1, <2>2
<1> QED BY <1>3, <1>5, <1>8, <1>11, <1>12 DEF ListOK

\* Sorting keeps the modules and brings one of the lowest counts to the front.
LEMMA SortedProperties ==
  ASSUME ListOK, \A m \in listed : refs[m] \in Nat
  PROVE  /\ Sorted \in Seq(Modules) /\ IsInjective(Sorted) /\ ToSet(Sorted) = listed
         /\ list # << >> => /\ Sorted # << >> /\ Head(Sorted) \in listed
                            /\ \A m \in listed : refs[Head(Sorted)] <= refs[m]
<1> DEFINE n == Len(list)
           Pos(m) == Cardinality(Before(m))
           pos == [m \in listed |-> Pos(m)]
<1>1. n \in Nat /\ list \in [1 .. n -> listed] /\ listed \subseteq Modules
  <2>1. list \in Seq(Modules) BY DEF ListOK
  <2> QED BY <2>1, ListTypes
<1>2. IsFiniteSet(listed) /\ Cardinality(listed) = n
  <2>1. list \in Injection(1 .. n, listed) BY <1>1, ListTypes DEF Injection, IsInjective
  <2>2. list \in Surjection(1 .. n, listed) BY <1>1, ListTypes DEF Surjection
  <2>3. IsFiniteSet(1 .. n) /\ Cardinality(1 .. n) = n BY <1>1, FS_Interval
  <2> HIDE DEF n
  <2> QED BY <2>1, <2>2, <2>3, FS_Surjection
<1>3. \A x, y \in listed : Index(x) \in Nat /\ (Index(x) = Index(y) => x = y)
  BY <1>1, IndexProperties
<1>4. \A x, m \in listed : x \in Before(m) <=> \/ refs[x] < refs[m]
                                               \/ refs[x] = refs[m] /\ Index(x) < Index(m)
  BY DEF Before
<1>5. \A m \in listed : Before(m) \subseteq listed /\ m \notin Before(m) BY <1>3, <1>4 DEF Before
<1>6. \A x, m \in listed : x \in Before(m) => Before(x) \subseteq Before(m)
  <2> SUFFICES ASSUME NEW x \in listed, NEW m \in listed, x \in Before(m), NEW y \in Before(x)
               PROVE  y \in Before(m)
    OBVIOUS
  <2>1. y \in listed BY <1>5
  <2> QED BY <1>3, <1>4, <2>1
<1>7. \A x, m \in listed : x # m => x \in Before(m) \/ m \in Before(x) BY <1>3, <1>4
<1>8. \A m \in listed : IsFiniteSet(Before(m)) /\ Pos(m) \in Nat
  BY <1>2, <1>5, FS_Subset, FS_CardinalityType
<1>9. ASSUME NEW x \in listed, NEW m \in listed, x \in Before(m) PROVE Pos(x) < Pos(m)
  <2>1. Before(x) \subseteq Before(m) /\ Before(x) # Before(m) BY <1>5, <1>6, <1>9
  <2> QED BY <1>8, <2>1, FS_Subset
<1>10. ASSUME NEW m \in listed PROVE Pos(m) \in 0 .. n - 1
  <2>1. Before(m) \subseteq listed /\ Before(m) # listed BY <1>5
  <2>2. Pos(m) <= n /\ Pos(m) # n BY <1>2, <2>1, FS_Subset
  <2> QED BY <1>1, <1>8, <2>2
<1>11. ASSUME NEW k \in 0 .. n - 1 PROVE \E m \in listed : Pos(m) = k
  <2>1. pos \in [listed -> 0 .. n - 1] BY <1>10
  <2>2. \A x, m \in listed : Pos(x) = Pos(m) => x = m BY <1>7, <1>8, <1>9
  <2>3. pos \in Injection(listed, 0 .. n - 1) BY <2>1, <2>2 DEF Injection, IsInjective
  <2>4. IsFiniteSet(0 .. n - 1) /\ Cardinality(0 .. n - 1) = n
    <3> HIDE DEF n, pos
    <3>1. 0 \in Int /\ n - 1 \in Int BY <1>1
    <3>2. /\ IsFiniteSet(0 .. n - 1)
          /\ Cardinality(0 .. n - 1) = IF 0 > n - 1 THEN 0 ELSE n - 1 - 0 + 1
      BY ONLY <3>1, FS_Interval
    <3> QED BY <1>1, <3>2
  <2>5. pos \in Surjection(listed, 0 .. n - 1)
    <3> HIDE DEF pos, n
    <3>1. Cardinality(listed) = Cardinality(0 .. n - 1) => pos \in Surjection(listed, 0 .. n - 1)
      BY ONLY <2>3, <2>4, FS_Injection
    <3> QED BY <1>2, <2>4, <3>1
  <2> QED BY <2>5 DEF Surjection
<1>12. \A x, m \in listed : Pos(x) = Pos(m) => x = m BY <1>7, <1>8, <1>9
<1> HIDE DEF pos, Pos
<1>13. Sorted = [k \in 1 .. n |-> CHOOSE m \in listed : Pos(m) = k - 1] BY DEF Sorted, Pos
<1>14. ASSUME NEW k \in 1 .. n PROVE Sorted[k] \in listed /\ Pos(Sorted[k]) = k - 1
  <2>1. \E m \in listed : Pos(m) = k - 1 BY <1>1, <1>11
  <2> QED BY <1>13, <2>1
<1>15. Sorted \in [1 .. n -> listed] BY <1>13, <1>14
<1> HIDE DEF n
<1>16. Sorted \in Seq(Modules) /\ Len(Sorted) = n /\ DOMAIN Sorted = 1 .. n
  <2>1. Sorted \in [1 .. n -> Modules] BY <1>1, <1>15
  <2>2. Sorted \in Seq(Modules) BY <1>1, <2>1, SeqDef
  <2>3. DOMAIN Sorted = 1 .. Len(Sorted) /\ Len(Sorted) \in Nat BY <2>2, LenProperties
  <2> QED BY <1>1, <2>1, <2>2, <2>3
<1>17. IsInjective(Sorted)
  <2> SUFFICES ASSUME NEW j \in 1 .. n, NEW k \in 1 .. n, Sorted[j] = Sorted[k] PROVE j = k
    BY <1>16 DEF IsInjective
  <2> QED BY <1>1, <1>14
<1>18. ASSUME NEW m \in listed PROVE \E k \in 1 .. n : Sorted[k] = m
  <2>1. PICK k \in 1 .. n : k - 1 = Pos(m)
    <3> DEFINE j == Pos(m) + 1
    <3>1. j \in 1 .. n /\ j - 1 = Pos(m) BY <1>1, <1>10 DEF Pos
    <3> HIDE DEF j
    <3> QED BY <3>1
  <2>2. Pos(Sorted[k]) = Pos(m) /\ Sorted[k] \in listed BY <1>14, <2>1
  <2>3. Sorted[k] = m BY <1>12, <2>2, Zenon
  <2> QED BY <2>3
<1>19. ToSet(Sorted) = listed BY <1>14, <1>16, <1>18 DEF ToSet
<1>20. ASSUME list # << >>
       PROVE  /\ Sorted # << >> /\ Head(Sorted) \in listed
              /\ \A m \in listed : refs[Head(Sorted)] <= refs[m]
  <2>1. n # 0 /\ 1 \in 1 .. n BY <1>1, <1>20, ListTypes DEF n
  <2>2. Sorted # << >> /\ Head(Sorted) = Sorted[1] BY <1>1, <1>16, <2>1, EmptySeq
  <2>3. Sorted[1] \in listed /\ Pos(Sorted[1]) = 0 BY <1>14, <2>1
  <2>4. ASSUME NEW m \in listed PROVE refs[Sorted[1]] <= refs[m]
    <3>1. m \notin Before(Sorted[1])
      <4>1. m \in Before(Sorted[1]) => Pos(m) < 0 BY <1>9, <2>3 DEF Pos
      <4> QED BY <1>8, <4>1 DEF Pos
    <3>2. ~(refs[m] < refs[Sorted[1]]) BY <1>4, <2>3, <3>1
    <3> QED BY <2>3, <3>2
  <2> QED BY <2>2, <2>3, <2>4
<1> QED BY <1>16, <1>17, <1>19, <1>20

-----------------------------------------------------------------------------
(* What is numbered in the ledger.                                         *)

\* How many elements of a sequence are in a set is a number.
LEMMA NumberType ==
  ASSUME NEW V, NEW s \in Seq(V), NEW S
  PROVE  /\ IsFiniteSet({i \in DOMAIN s : s[i] \in S}) /\ Number(s, S) \in Nat
         /\ (\A i \in DOMAIN s : s[i] \notin S) => Number(s, S) = 0
         /\ (\E i \in DOMAIN s : s[i] \in S) => Number(s, S) >= 1
<1> DEFINE A == {i \in DOMAIN s : s[i] \in S}
<1>1. IsFiniteSet(A)
  <2>1. DOMAIN s = 1 .. Len(s) /\ Len(s) \in Nat BY LenProperties
  <2>2. IsFiniteSet(1 .. Len(s)) BY <2>1, FS_Interval
  <2> QED BY <2>1, <2>2, FS_Subset
<1>2. Number(s, S) = Cardinality(A) BY DEF Number
<1>3. (\A i \in DOMAIN s : s[i] \notin S) <=> A = {} OBVIOUS
<1> HIDE DEF A
<1>4. Cardinality(A) \in Nat /\ (Cardinality(A) = 0 <=> A = {})
  BY <1>1, FS_CardinalityType, FS_EmptySet
<1> QED BY <1>1, <1>2, <1>3, <1>4 DEF A

\* The numbers of two sequences add up when they are concatenated.
LEMMA NumberConcat ==
  ASSUME NEW V, NEW s \in Seq(V), NEW t \in Seq(V), NEW S
  PROVE  Number(s \o t, S) = Number(s, S) + Number(t, S)
<1> DEFINE A == {i \in DOMAIN s : s[i] \in S}
           B == {i \in DOMAIN t : t[i] \in S}
           C == {i \in DOMAIN (s \o t) : (s \o t)[i] \in S}
           D == {Len(s) + i : i \in B}
           shift == [i \in B |-> Len(s) + i]
<1>1. /\ Len(s) \in Nat /\ DOMAIN s = 1 .. Len(s)
      /\ Len(t) \in Nat /\ DOMAIN t = 1 .. Len(t)
  BY LenProperties
<1>2. /\ DOMAIN (s \o t) = 1 .. Len(s) + Len(t)
      /\ \A i \in 1 .. Len(s) + Len(t) : (s \o t)[i] = IF i <= Len(s) THEN s[i] ELSE t[i - Len(s)]
  <2>1. s \o t \in Seq(V) /\ Len(s \o t) = Len(s) + Len(t) BY ConcatProperties
  <2>2. DOMAIN (s \o t) = 1 .. Len(s \o t) BY <2>1, LenProperties
  <2> QED BY <2>1, <2>2, ConcatProperties
<1>3. C = A \union D
  <2>1. ASSUME NEW i \in C PROVE i \in A \union D
    <3>1. CASE i <= Len(s) BY <1>1, <1>2, <3>1
    <3>2. CASE i > Len(s)
      <4>1. i - Len(s) \in B /\ i = Len(s) + (i - Len(s)) BY <1>1, <1>2, <3>2
      <4> QED BY <4>1
    <3> QED BY <1>1, <1>2, <3>1, <3>2
  <2>2. A \subseteq C BY <1>1, <1>2
  <2>3. ASSUME NEW j \in B PROVE Len(s) + j \in C
    <3>1. /\ j \in 1 .. Len(t) /\ Len(s) + j \in 1 .. Len(s) + Len(t)
          /\ ~(Len(s) + j <= Len(s)) /\ Len(s) + j - Len(s) = j
      BY <1>1
    <3>2. (s \o t)[Len(s) + j] = t[j] BY <1>2, <3>1
    <3> QED BY <1>2, <3>1, <3>2
  <2> QED BY <2>1, <2>2, <2>3
<1>4. A \intersect D = {} BY <1>1
<1>5. IsFiniteSet(A) /\ IsFiniteSet(B) BY NumberType
<1>6. ExistsBijection(B, D)
  <2>1. B \subseteq Nat BY <1>1
  <2>2. shift \in [B -> D] OBVIOUS
  <2>3. shift \in Surjection(B, D) BY <2>2 DEF Surjection
  <2>4. shift \in Injection(B, D) BY <1>1, <2>1, <2>2 DEF Injection, IsInjective
  <2> QED BY <2>3, <2>4 DEF Bijection, ExistsBijection
<1>7. Number(s, S) = Cardinality(A) /\ Number(t, S) = Cardinality(B) /\ Number(s \o t, S) = Cardinality(C)
  BY DEF Number
<1> HIDE DEF A, B, C, D, shift
<1>8. IsFiniteSet(D) /\ Cardinality(D) = Cardinality(B) BY <1>5, <1>6, FS_Bijection
<1>9. Cardinality(A \union D) = Cardinality(A) + Cardinality(D) - Cardinality(A \intersect D)
  BY <1>5, <1>8, FS_Union
<1>10. Cardinality(A \intersect D) = 0 BY <1>4, FS_EmptySet
<1>11. Cardinality(A) \in Nat /\ Cardinality(D) \in Nat BY <1>5, <1>8, FS_CardinalityType
<1> QED BY <1>3, <1>7, <1>8, <1>9, <1>10, <1>11

\* The tasks for a plugin's dependencies name each as often as it does.
LEMMA NumberTasks ==
  ASSUME NEW p \in Plugins, NEW op, NEW d, NEW S, \A x : <<op, x>> \in S <=> x = d
  PROVE  Number(Tasks(op, Depends[p]), S) = Cardinality(Uses(p, d))
<1>1. DOMAIN Tasks(op, Depends[p]) = DOMAIN Depends[p] BY DEF Tasks
<1>2. \A i \in DOMAIN Depends[p] : Tasks(op, Depends[p])[i] = <<op, Depends[p][i]>> BY DEF Tasks
<1>3. {i \in DOMAIN Tasks(op, Depends[p]) : Tasks(op, Depends[p])[i] \in S} = Uses(p, d)
  BY <1>1, <1>2 DEF Uses
<1> QED BY <1>3 DEF Number

\* The number of a single task.
LEMMA NumberOne ==
  ASSUME NEW t, NEW S
  PROVE  Number(<<t>>, S) = IF t \in S THEN 1 ELSE 0
<1>1. {i \in DOMAIN <<t>> : <<t>>[i] \in S} = IF t \in S THEN {1} ELSE {} OBVIOUS
<1>2. Cardinality({1}) = 1 /\ Cardinality({}) = 0 BY FS_Singleton, FS_EmptySet
<1> QED BY <1>1, <1>2 DEF Number

\* A claim is a plugin, a place where it names d, and one of its references.
LEMMA ClaimsMember ==
  ASSUME NEW d, NEW w
  PROVE  /\ \A p \in Plugins : \A i \in Uses(p, d) : \A k \in 1 .. w[p] : <<<<p, i>>, k>> \in Claims(d, w)
         /\ \A c \in Claims(d, w) : \E p \in Plugins : \E i \in Uses(p, d) : \E k \in 1 .. w[p] :
              c = <<<<p, i>>, k>>
<1>1. ASSUME NEW p \in Plugins, NEW i \in Uses(p, d), NEW k \in 1 .. w[p]
      PROVE  <<<<p, i>>, k>> \in Claims(d, w)
  <2>1. <<<<p, i>>, k>> \in ({p} \X Uses(p, d)) \X (1 .. w[p]) OBVIOUS
  <2> QED BY <2>1 DEF Claims
<1>2. ASSUME NEW c \in Claims(d, w)
      PROVE  \E p \in Plugins : \E i \in Uses(p, d) : \E k \in 1 .. w[p] : c = <<<<p, i>>, k>>
  <2>1. PICK p \in Plugins : c \in ({p} \X Uses(p, d)) \X (1 .. w[p]) BY DEF Claims
  <2>2. PICK x \in {p} \X Uses(p, d), k \in 1 .. w[p] : c = <<x, k>> BY <2>1
  <2>3. PICK i \in Uses(p, d) : x = <<p, i>> BY <2>2
  <2> QED BY <2>2, <2>3
<1> QED BY <1>1, <1>2

\* Claims can be counted.
LEMMA ClaimsFinite ==
  ASSUME NEW d, NEW w \in [Plugins -> Nat]
  PROVE  IsFiniteSet(Claims(d, w)) /\ Cardinality(Claims(d, w)) \in Nat
<1> DEFINE Part(p) == ({p} \X Uses(p, d)) \X (1 .. w[p])
           part == [p \in Plugins |-> Part(p)]
           parts == {Part(p) : p \in Plugins}
<1>1. ASSUME NEW p \in Plugins PROVE IsFiniteSet(Part(p))
  <2>1. IsFiniteSet({p}) /\ IsFiniteSet(Uses(p, d)) BY FS_Singleton, UsesProperties
  <2>2. IsFiniteSet({p} \X Uses(p, d)) BY <2>1, FS_Product
  <2>3. w[p] \in Nat OBVIOUS
  <2>4. IsFiniteSet(1 .. w[p]) BY <2>3, FS_Interval
  <2> QED BY <2>2, <2>4, FS_Product
<1>2. IsFiniteSet(parts)
  <2> HIDE DEF Part
  <2>1. part \in Surjection(Plugins, parts) BY DEF Surjection
  <2> HIDE DEF part, parts
  <2> QED BY <2>1, FS_Surjection, PluginConstants
<1>3. \A T \in parts : IsFiniteSet(T) BY <1>1
<1>4. Claims(d, w) = UNION parts BY DEF Claims
<1> HIDE DEF parts
<1>5. IsFiniteSet(Claims(d, w)) BY <1>2, <1>3, <1>4, FS_UNION
<1> QED BY <1>5, FS_CardinalityType

\* More references claim no less.
LEMMA ClaimsGrow ==
  ASSUME NEW d, NEW w \in [Plugins -> Nat], NEW v \in [Plugins -> Nat],
         \A p \in Plugins : Uses(p, d) # {} => w[p] <= v[p]
  PROVE  /\ Claims(d, w) \subseteq Claims(d, v)
         /\ Cardinality(Claims(d, w)) <= Cardinality(Claims(d, v))
<1>1. ASSUME NEW c \in Claims(d, w) PROVE c \in Claims(d, v)
  <2>1. PICK p, i, k : p \in Plugins /\ i \in Uses(p, d) /\ k \in 1 .. w[p] /\ c = <<<<p, i>>, k>>
    BY ClaimsMember
  <2>2. w[p] <= v[p] /\ w[p] \in Nat /\ v[p] \in Nat BY <2>1
  <2>3. k \in 1 .. v[p] BY <2>1, <2>2
  <2> QED BY <2>1, <2>3, ClaimsMember
<1> QED BY <1>1, ClaimsFinite, FS_Subset

\* One more reference to a plugin claims as often as the plugin uses.
LEMMA ClaimsAdd ==
  ASSUME NEW d, NEW w \in [Plugins -> Nat], NEW v \in [Plugins -> Nat], NEW q \in Plugins,
         v[q] = w[q] + 1, \A p \in Plugins : p # q => v[p] = w[p]
  PROVE  Cardinality(Claims(d, v)) = Cardinality(Claims(d, w)) + Cardinality(Uses(q, d))
<1> DEFINE n == w[q] + 1
           N == ({q} \X Uses(q, d)) \X {n}
           U == Uses(q, d)
           f == [i \in U |-> <<<<q, i>>, n>>]
<1>1. w[q] \in Nat /\ n \in Nat OBVIOUS
<1>2. \A c : c \in N <=> \E i \in U : c = <<<<q, i>>, n>>
  <2>1. ASSUME NEW c \in N PROVE \E i \in U : c = <<<<q, i>>, n>>
    <3>1. PICK x \in {q} \X U, y \in {n} : c = <<x, y>> OBVIOUS
    <3>2. PICK i \in U : x = <<q, i>> BY <3>1
    <3> QED BY <3>1, <3>2
  <2>2. \A i \in U : <<<<q, i>>, n>> \in N OBVIOUS
  <2> QED BY <2>1, <2>2
<1>3. IsFiniteSet(U) BY UsesProperties
<1>4. f \in [U -> N] BY <1>2
<1>5. f \in Injection(U, N) /\ f \in Surjection(U, N)
  <2>1. \A i, j \in U : <<<<q, i>>, n>> = <<<<q, j>>, n>> => i = j OBVIOUS
  <2>2. \A i \in U : f[i] = <<<<q, i>>, n>> OBVIOUS
  <2> HIDE DEF U, N, f, n
  <2>3. DOMAIN f = U BY <1>4
  <2>4. IsInjective(f) BY <2>1, <2>2, <2>3 DEF IsInjective
  <2>5. \A c \in N : \E i \in U : f[i] = c BY <1>2, <2>2
  <2> QED BY <1>4, <2>4, <2>5 DEF Injection, Surjection
<1>6. IsFiniteSet(N) /\ Cardinality(N) = Cardinality(U)
  <2> HIDE DEF N, U, f
  <2>1. ExistsBijection(U, N) BY <1>5 DEF ExistsBijection, Bijection
  <2> QED BY <1>3, <2>1, FS_Bijection
<1> HIDE DEF N, f
<1>7. Claims(d, v) = Claims(d, w) \union N
  <2>1. ASSUME NEW c \in Claims(d, v) PROVE c \in Claims(d, w) \union N
    <3>1. PICK p, i, k : p \in Plugins /\ i \in Uses(p, d) /\ k \in 1 .. v[p] /\ c = <<<<p, i>>, k>>
    BY ClaimsMember
    <3>2. CASE p = q /\ k = n BY <1>2, <3>1, <3>2
    <3>3. CASE ~(p = q /\ k = n)
      <4>1. k \in 1 .. w[p] BY <1>1, <3>1, <3>3
      <4> QED BY <3>1, <4>1, ClaimsMember
    <3> QED BY <3>2, <3>3
  <2>2. Claims(d, w) \subseteq Claims(d, v)
    <3>1. \A p \in Plugins : w[p] <= v[p] BY <1>1
    <3> QED BY <3>1, ClaimsGrow
  <2>3. ASSUME NEW c \in N PROVE c \in Claims(d, v)
    <3>1. PICK i \in U : c = <<<<q, i>>, n>> BY <1>2
    <3>2. n \in 1 .. v[q] BY <1>1
    <3> QED BY <3>1, <3>2, ClaimsMember
  <2> QED BY <2>1, <2>2, <2>3
<1>8. Claims(d, w) \intersect N = {}
  <2> SUFFICES ASSUME NEW c \in Claims(d, w), c \in N PROVE FALSE OBVIOUS
  <2>1. PICK p, i, k : p \in Plugins /\ i \in Uses(p, d) /\ k \in 1 .. w[p] /\ c = <<<<p, i>>, k>>
    BY ClaimsMember
  <2>2. PICK j \in U : c = <<<<q, j>>, n>> BY <1>2
  <2>3. p = q /\ k = n BY <2>1, <2>2
  <2> QED BY <1>1, <2>1, <2>3
<1>9. IsFiniteSet(Claims(d, w)) /\ Cardinality(Claims(d, w)) \in Nat BY ClaimsFinite
<1>10. Cardinality(Claims(d, w) \union N) = Cardinality(Claims(d, w)) + Cardinality(N)
                                           - Cardinality(Claims(d, w) \intersect N)
  BY <1>6, <1>9, FS_Union
<1>11. Cardinality(Claims(d, w) \intersect N) = 0 BY <1>8, FS_EmptySet
<1>12. Cardinality(U) \in Nat BY <1>3, FS_CardinalityType
<1> QED BY <1>6, <1>7, <1>9, <1>10, <1>11, <1>12

-----------------------------------------------------------------------------
(* The agenda: every step puts tasks in the place of the first ones.       *)

Splices(V, s, n, new, t) ==
  /\ t \in Seq(V) /\ Len(s) \in Nat /\ Len(new) \in Nat
  /\ Len(t) = Len(new) + (Len(s) - n)
  /\ DOMAIN s = 1 .. Len(s) /\ DOMAIN new = 1 .. Len(new) /\ DOMAIN t = 1 .. Len(t)
  /\ \A i \in 1 .. Len(new) : i \in 1 .. Len(t) /\ t[i] = new[i]
  /\ \A i \in n + 1 .. Len(s) : i - n + Len(new) \in Len(new) + 1 .. Len(t)
                                /\ t[i - n + Len(new)] = s[i]
  /\ \A i \in 1 .. Len(t) : i > Len(new) =>
       i - Len(new) + n \in n + 1 .. Len(s) /\ t[i] = s[i - Len(new) + n]

\* A sequence whose first n elements are replaced.
LEMMA Spliced ==
  ASSUME NEW V, NEW s \in Seq(V), NEW new \in Seq(V), NEW n \in 0 .. Len(s), NEW t,
         t = new \o SubSeq(s, n + 1, Len(s))
  PROVE  Splices(V, s, n, new, t)
<1> DEFINE r == SubSeq(s, n + 1, Len(s))
<1>1. Len(s) \in Nat /\ DOMAIN s = 1 .. Len(s) /\ Len(new) \in Nat /\ DOMAIN new = 1 .. Len(new)
  BY LenProperties
<1>2. /\ r \in Seq(V) /\ Len(r) = Len(s) - n
      /\ \A i \in 1 .. Len(s) - n : r[i] = s[n + i]
  <2>1. \A i \in n + 1 .. Len(s) : s[i] \in V BY <1>1, ElementOfSeq
  <2>2. n + 1 \in Int /\ Len(s) \in Int BY <1>1
  <2>3. /\ r \in Seq(V) /\ Len(r) = IF n + 1 <= Len(s) THEN Len(s) - (n + 1) + 1 ELSE 0
        /\ \A i \in 1 .. Len(s) - (n + 1) + 1 : r[i] = s[n + 1 + i - 1]
    BY ONLY <2>1, <2>2, SubSeqProperties
  <2> HIDE DEF r
  <2>4. Len(r) = Len(s) - n
    <3>1. n \in Nat /\ n <= Len(s) /\ Len(s) \in Nat BY <1>1
    <3>2. Len(r) = IF n + 1 <= Len(s) THEN Len(s) - (n + 1) + 1 ELSE 0 BY <2>3
    <3> QED BY ONLY <3>1, <3>2
  <2>5. ASSUME NEW i \in 1 .. Len(s) - n PROVE r[i] = s[n + i]
    <3>1. i \in 1 .. Len(s) - (n + 1) + 1 /\ n + 1 + i - 1 = n + i BY <1>1
    <3> QED BY <2>3, <3>1
  <2> QED BY <2>3, <2>4, <2>5
<1> HIDE DEF r
<1>3. t = new \o r BY DEF r
<1>4. /\ t \in Seq(V) /\ Len(t) = Len(new) + Len(r)
      /\ \A i \in 1 .. Len(new) + Len(r) : t[i] = IF i <= Len(new) THEN new[i] ELSE r[i - Len(new)]
  <2>1. /\ new \o r \in Seq(V) /\ Len(new \o r) = Len(new) + Len(r)
        /\ \A i \in 1 .. Len(new) + Len(r) :
             (new \o r)[i] = IF i <= Len(new) THEN new[i] ELSE r[i - Len(new)]
    BY <1>2, ConcatProperties
  <2> QED BY ONLY <1>3, <2>1
<1>5. Len(t) = Len(new) + (Len(s) - n) /\ DOMAIN t = 1 .. Len(t) BY <1>2, <1>4, LenProperties
<1>6. \A i \in 1 .. Len(new) : i \in 1 .. Len(t) /\ t[i] = new[i] BY <1>1, <1>2, <1>4
<1>7. ASSUME NEW i \in 1 .. Len(t), i > Len(new)
      PROVE  i - Len(new) + n \in n + 1 .. Len(s) /\ t[i] = s[i - Len(new) + n]
  <2>1. t[i] = r[i - Len(new)]
    <3>1. i \in 1 .. Len(new) + Len(r) /\ ~(i <= Len(new)) BY <1>1, <1>4, <1>7
    <3> QED BY ONLY <1>4, <3>1
  <2>2. i - Len(new) \in 1 .. Len(s) - n BY <1>1, <1>5, <1>7
  <2>3. n + (i - Len(new)) = i - Len(new) + n BY <1>1
  <2>4. r[i - Len(new)] = s[n + (i - Len(new))] BY ONLY <1>2, <2>2
  <2>5. i - Len(new) + n \in n + 1 .. Len(s) BY <1>1, <2>2
  <2> QED BY <2>1, <2>3, <2>4, <2>5
<1>8. ASSUME NEW i \in n + 1 .. Len(s)
      PROVE  i - n + Len(new) \in Len(new) + 1 .. Len(t) /\ t[i - n + Len(new)] = s[i]
  <2>1. i - n + Len(new) \in Len(new) + 1 .. Len(t) BY <1>1, <1>5
  <2> DEFINE j == i - n + Len(new)
  <2>2. j \in 1 .. Len(t) /\ j > Len(new) /\ j - Len(new) + n = i BY <1>1, <2>1
  <2> HIDE DEF j
  <2>3. t[j] = s[j - Len(new) + n] BY <1>7, <2>2
  <2> QED BY <2>1, <2>2, <2>3 DEF j
<1> QED BY ONLY <1>1, <1>4, <1>5, <1>6, <1>7, <1>8 DEF Splices

NumbersSplice(s, n, new, t, S) ==
  /\ Number(t, S) + Number(SubSeq(s, 1, n), S) = Number(new, S) + Number(s, S)
  /\ Number(t, S) \in Nat /\ Number(SubSeq(s, 1, n), S) \in Nat
  /\ Number(new, S) \in Nat /\ Number(s, S) \in Nat

\* What that does to numbers.
LEMMA SplicedNumber ==
  ASSUME NEW V, NEW s \in Seq(V), NEW new \in Seq(V), NEW n \in 0 .. Len(s), NEW t,
         t = new \o SubSeq(s, n + 1, Len(s)), NEW S
  PROVE  NumbersSplice(s, n, new, t, S)
<1> DEFINE a == SubSeq(s, 1, n)
           b == SubSeq(s, n + 1, Len(s))
<1>1. Len(s) \in Nat /\ \A i \in 1 .. Len(s) : s[i] \in V BY LenProperties, ElementOfSeq
<1>2. a \in Seq(V) /\ b \in Seq(V)
  <2>1. 1 \in Int /\ n \in Int /\ n + 1 \in Int /\ Len(s) \in Int BY <1>1
  <2>2. (\A i \in 1 .. n : s[i] \in V) /\ (\A i \in n + 1 .. Len(s) : s[i] \in V) BY <1>1
  <2> QED BY ONLY <2>1, <2>2, SubSeqProperties
<1>3. a \o b = s
  <2>1. 1 \in 1 .. Len(s) + 1 /\ n \in 1 - 1 .. Len(s) /\ Len(s) \in n .. Len(s) BY <1>1
  <2>2. a \o b = SubSeq(s, 1, Len(s)) BY ONLY <2>1, s \in Seq(V), ConcatAdjacentSubSeq
  <2> QED BY <2>2, SubSeqFull
<1> HIDE DEF a, b
<1>4. Number(a \o b, S) = Number(a, S) + Number(b, S) BY <1>2, NumberConcat
<1>5. Number(new \o b, S) = Number(new, S) + Number(b, S) BY <1>2, NumberConcat
<1>6. Number(s, S) = Number(a, S) + Number(b, S) BY <1>3, <1>4, Zenon
<1>10. Number(t, S) = Number(new, S) + Number(b, S)
  <2>1. t = new \o b BY DEF b
  <2> QED BY <1>5, <2>1, Zenon
<1>7. Number(a, S) \in Nat /\ Number(b, S) \in Nat /\ Number(new, S) \in Nat
  BY <1>2, NumberType
<1>8. Number(t, S) + Number(a, S) = Number(new, S) + Number(s, S) BY ONLY <1>6, <1>10, <1>7
<1>9. Number(t, S) \in Nat /\ Number(s, S) \in Nat BY ONLY <1>6, <1>10, <1>7
<1> QED BY <1>7, <1>8, <1>9 DEF a, NumbersSplice

\* Doing a task replaces the first.
LEMMA ThenSplices ==
  ASSUME NEW V, todo \in Seq(V), NEW op, NEW x, Doing(op, x), NEW new, Then(new)
  PROVE  /\ 1 \in 0 .. Len(todo) /\ 1 \in DOMAIN todo /\ todo # << >>
         /\ todo[1] = <<op, x>> /\ Op(1) = op /\ Arg(1) = x
         /\ todo' = new \o SubSeq(todo, 1 + 1, Len(todo))
         /\ SubSeq(todo, 1, 1) = <<<<op, x>>>>
<1>1. todo # << >> /\ Head(todo) = <<op, x>> /\ todo' = new \o Tail(todo) BY DEF Doing, Then
<1>2. Len(todo) \in Nat \ {0} /\ DOMAIN todo = 1 .. Len(todo) BY <1>1, EmptySeq, LenProperties
<1>3. Tail(todo) = SubSeq(todo, 2, Len(todo)) BY <1>1, TailIsSubSeq
<1>4. todo[1] = <<op, x>> BY <1>1
<1>5. SubSeq(todo, 1, 1) = <<todo[1]>>
  <2>1. 1 \in 1 .. Len(todo) /\ 1 \in 1 .. Len(todo) BY <1>2
  <2>2. SubSeq(todo, 1, 1) = <<todo[1]>> \o SubSeq(todo, 1 + 1, 1)
    BY ONLY <2>1, todo \in Seq(V), SubSeqRecursiveFirst
  <2>3. SubSeq(todo, 1 + 1, 1) = << >> BY SubSeqEmpty
  <2>4. <<todo[1]>> \in Seq(V) /\ <<todo[1]>> \o << >> = <<todo[1]>> BY <1>2, ElementOfSeq
  <2> QED BY ONLY <2>2, <2>3, <2>4, Zenon
<1> QED BY <1>1, <1>2, <1>3, <1>4, <1>5 DEF Op, Arg

\* One task for each of several arguments.
LEMMA Tasked ==
  ASSUME NEW V, NEW W, NEW xs \in Seq(W), NEW op, \A x \in W : <<op, x>> \in V
  PROVE  /\ Tasks(op, xs) \in Seq(V) /\ Len(Tasks(op, xs)) = Len(xs) /\ Len(xs) \in Nat
         /\ \A i \in 1 .. Len(xs) : Tasks(op, xs)[i] = <<op, xs[i]>> /\ xs[i] \in W
<1>1. Len(xs) \in Nat /\ DOMAIN xs = 1 .. Len(xs) /\ \A i \in 1 .. Len(xs) : xs[i] \in W
  BY LenProperties, ElementOfSeq
<1>2. Tasks(op, xs) = [i \in 1 .. Len(xs) |-> <<op, xs[i]>>] BY <1>1 DEF Tasks
<1>3. Tasks(op, xs) \in [1 .. Len(xs) -> V] BY <1>1, <1>2
<1>4. Tasks(op, xs) \in Seq(V) BY <1>1, <1>3, SeqDef
<1>5. DOMAIN Tasks(op, xs) = 1 .. Len(Tasks(op, xs)) /\ Len(Tasks(op, xs)) \in Nat BY <1>4, LenProperties
<1>6. Len(Tasks(op, xs)) = Len(xs) BY <1>1, <1>2, <1>5
<1> QED BY <1>1, <1>2, <1>4, <1>6

-----------------------------------------------------------------------------
(* The shape of a load's agenda, when new replaces its first n tasks.      *)

Splice(n, new) ==
  /\ todo \in Seq(LoadTasks) /\ n \in 1 .. Len(todo) /\ new \in Seq(LoadTasks)
  /\ todo' = new \o SubSeq(todo, n + 1, Len(todo))

\* The elements of a loading agenda whose first n tasks are replaced.
LEMMA SpliceProperties ==
  ASSUME NEW n, NEW new, Splice(n, new)
  PROVE  /\ todo' \in Seq(LoadTasks) /\ Len(todo) \in Nat /\ Len(new) \in Nat /\ n \in Nat
         /\ n \in 1 .. Len(todo) /\ Len(todo') = Len(new) + (Len(todo) - n)
         /\ DOMAIN todo = 1 .. Len(todo) /\ DOMAIN new = 1 .. Len(new) /\ DOMAIN todo' = 1 .. Len(todo')
         /\ \A i \in 1 .. Len(new) : i \in 1 .. Len(todo') /\ todo'[i] = new[i]
         /\ \A i \in n + 1 .. Len(todo) : /\ i - n + Len(new) \in Len(new) + 1 .. Len(todo')
                                          /\ todo'[i - n + Len(new)] = todo[i]
         /\ \A i \in 1 .. Len(todo') : i > Len(new) =>
              i - Len(new) + n \in n + 1 .. Len(todo) /\ todo'[i] = todo[i - Len(new) + n]
<1>1. todo \in Seq(LoadTasks) /\ new \in Seq(LoadTasks) BY DEF Splice
<1>2. n \in 1 .. Len(todo) /\ todo' = new \o SubSeq(todo, n + 1, Len(todo)) BY DEF Splice
<1>3. Len(todo) \in Nat BY <1>1, LenProperties
<1>4. n \in 0 .. Len(todo) /\ n \in Nat BY <1>2, <1>3
<1>5. Splices(LoadTasks, todo, n, new, todo') BY ONLY <1>1, <1>2, <1>4, Spliced
<1> QED BY ONLY <1>2, <1>4, <1>5 DEF Splices

\* Ranks keep growing outwards, when they do in the new tasks and up to the old ones.
LEMMA DescendsSplice ==
  ASSUME Descends, NEW n, NEW new, Splice(n, new),
         \A i, j \in 1 .. Len(new) : i < j => Inside(new[i], new[j]),
         \A i \in 1 .. Len(new) : \A j \in n + 1 .. Len(todo) : Inside(new[i], todo[j])
  PROVE  Descends'
<1> SUFFICES ASSUME NEW i \in 1 .. Len(todo'), NEW j \in 1 .. Len(todo'), i < j
             PROVE  Inside(todo'[i], todo'[j])
  BY SpliceProperties DEF Descends
<1> DEFINE ii == i - Len(new) + n
           jj == j - Len(new) + n
<1>1. Len(new) \in Nat /\ Len(todo) \in Nat /\ n \in Nat /\ Len(todo') \in Nat
  BY SpliceProperties
<1>2. CASE j <= Len(new)
  <2>1. i \in 1 .. Len(new) /\ j \in 1 .. Len(new) BY <1>1, <1>2
  <2>2. todo'[i] = new[i] /\ todo'[j] = new[j] BY <2>1, SpliceProperties
  <2> QED BY <2>1, <2>2
<1>3. CASE i <= Len(new) /\ j > Len(new)
  <2>1. i \in 1 .. Len(new) BY <1>1, <1>3
  <2>2. todo'[i] = new[i] BY <2>1, SpliceProperties
  <2>3. jj \in n + 1 .. Len(todo) /\ todo'[j] = todo[jj] BY <1>3, SpliceProperties
  <2> HIDE DEF jj
  <2> QED BY <2>1, <2>2, <2>3
<1>4. CASE i > Len(new)
  <2>1. ii \in n + 1 .. Len(todo) /\ todo'[i] = todo[ii] BY <1>4, SpliceProperties
  <2>5. j > Len(new) BY <1>1, <1>4
  <2>2. jj \in n + 1 .. Len(todo) /\ todo'[j] = todo[jj] BY <2>5, SpliceProperties
  <2>3. ii < jj BY <1>1
  <2> HIDE DEF ii, jj
  <2>4. ii \in DOMAIN todo /\ jj \in DOMAIN todo BY <1>1, <2>1, <2>2, SpliceProperties
  <2> QED BY <2>1, <2>2, <2>3, <2>4 DEF Descends
<1> QED BY <1>1, <1>2, <1>3, <1>4

\* The shared file stays outermost, when no new task is about one.
LEMMA OutermostSplice ==
  ASSUME Outermost, NEW n, NEW new, Splice(n, new),
         \A i \in 1 .. Len(new) :
           /\ new[i][1] \in {"load", "plugin"} => i = 1
           /\ new[i][1] \in {"plugin", "init"} /\ Shared(new[i][2]) => i = Len(new) /\ n = Len(todo)
           /\ new[i][1] = "load" => (i = Len(new) /\ n = Len(todo)) \/ Contents[new[i][2]] = <<new[i][2]>>
           /\ new[i][1] \in {"depend", "ref"} => Depended(new[i][2])
  PROVE  Outermost'
<1> SUFFICES ASSUME NEW i \in 1 .. Len(todo')
             PROVE  /\ todo'[i][1] \in {"load", "plugin"} => i = 1
                    /\ todo'[i][1] \in {"plugin", "init"} /\ Shared(todo'[i][2]) => i = Len(todo')
                    /\ todo'[i][1] = "load" => i = Len(todo') \/ Contents[todo'[i][2]] = <<todo'[i][2]>>
                    /\ todo'[i][1] \in {"depend", "ref"} => Depended(todo'[i][2])
  BY SpliceProperties DEF Outermost, Op, Arg
<1> DEFINE ii == i - Len(new) + n
<1>1. /\ Len(new) \in Nat /\ Len(todo) \in Nat /\ n \in Nat /\ n >= 1
      /\ Len(todo') = Len(new) + (Len(todo) - n)
  BY SpliceProperties
<1>2. CASE i <= Len(new)
  <2>1. i \in 1 .. Len(new) BY <1>1, <1>2
  <2>2. todo'[i] = new[i] BY <2>1, SpliceProperties
  <2>3. n = Len(todo) => Len(todo') = Len(new) BY <1>1
  <2> QED BY <2>1, <2>2, <2>3
<1>3. CASE i > Len(new)
  <2>1. ii \in n + 1 .. Len(todo) /\ todo'[i] = todo[ii] BY <1>3, SpliceProperties
  <2>2. ii # 1 /\ (ii = Len(todo) => i = Len(todo')) BY <1>1, <1>3
  <2> HIDE DEF ii
  <2>3. ii \in DOMAIN todo BY <1>1, <2>1, SpliceProperties
  <2>4. /\ todo[ii][1] \in {"load", "plugin"} => ii = 1
        /\ todo[ii][1] \in {"plugin", "init"} /\ Shared(todo[ii][2]) => ii = Len(todo)
        /\ todo[ii][1] = "load" => ii = Len(todo) \/ Contents[todo[ii][2]] = <<todo[ii][2]>>
        /\ todo[ii][1] \in {"depend", "ref"} => Depended(todo[ii][2])
    BY <2>3 DEF Outermost, Op, Arg
  <2> QED BY <2>1, <2>2, <2>4
<1> QED BY <1>1, <1>2, <1>3

\* What is in its place in the rest of the agenda is so after the step.
LEMMA InPlaceSplice ==
  ASSUME NEW n, NEW new, Splice(n, new), NEW j \in n + 1 .. Len(todo), InPlace(todo, j)
  PROVE  InPlace(todo', j - n + Len(new))
<1> DEFINE jj == j - n + Len(new)
<1>1. Len(new) \in Nat /\ Len(todo) \in Nat /\ n \in Nat BY SpliceProperties
<1>2. PICK l \in j + 1 .. Len(todo) :
        /\ todo[l][1] = "init" /\ \A k \in j .. l - 1 : todo[k][1] # "init"
        /\ Len(Depends[todo[l][2]]) + 1 - (l - j) \in Uses(todo[l][2], todo[j][2])
  BY DEF InPlace
<1> DEFINE ll == l - n + Len(new)
<1>3. l \in n + 1 .. Len(todo) BY <1>1
<1>4. ll \in Len(new) + 1 .. Len(todo') /\ todo'[ll] = todo[l] BY <1>3, SpliceProperties
<1>5. jj \in Len(new) + 1 .. Len(todo') /\ todo'[jj] = todo[j] BY SpliceProperties
<1>6. ASSUME NEW k \in jj .. ll - 1 PROVE todo'[k][1] # "init"
  <2> DEFINE kk == k - Len(new) + n
  <2>1. kk \in j .. l - 1 BY <1>1
  <2>2. k \in 1 .. Len(todo') /\ k > Len(new)
    <3>1. ll \in Len(new) + 1 .. Len(todo') /\ jj \in Len(new) + 1 .. Len(todo') /\ k \in jj .. ll - 1
      BY <1>4, <1>5
    <3>2. Len(todo') \in Nat /\ Len(new) \in Nat BY SpliceProperties
    <3> HIDE DEF jj, ll
    <3> QED BY <3>1, <3>2
  <2>3. todo'[k] = todo[kk] BY <2>2, SpliceProperties
  <2> HIDE DEF kk
  <2> QED BY <1>2, <2>1, <2>3
<1>7. ll - jj = l - j /\ ll \in jj + 1 .. Len(todo') BY <1>1, <1>4
<1> HIDE DEF jj, ll
<1>8. InPlace(todo', jj) BY <1>2, <1>4, <1>5, <1>6, <1>7 DEF InPlace
<1> QED BY <1>8 DEF jj

\* Dependencies stay in place before their initializer.
LEMMA AlignedSplice ==
  ASSUME Aligned, NEW n, NEW new, Splice(n, new),
         (\E k \in 1 .. n : Op(k) # "ref") \/ (\A k \in 1 .. Len(new) : new[k][1] = "ref"),
         \A j \in 1 .. Len(new) :
           new[j][1] \in {"depend", "ref"} /\ (\E k \in 1 .. j : new[k][1] # "ref") => InPlace(todo', j)
  PROVE  Aligned'
<1> SUFFICES ASSUME NEW j \in 1 .. Len(todo'), todo'[j][1] \in {"depend", "ref"},
                    NEW k \in 1 .. j, todo'[k][1] # "ref"
             PROVE  InPlace(todo', j)
  BY SpliceProperties DEF Aligned, Op, Arg
<1> DEFINE jj == j - Len(new) + n
           kk == k - Len(new) + n
<1>1. Len(new) \in Nat /\ Len(todo) \in Nat /\ n \in Nat /\ Len(todo') \in Nat BY SpliceProperties
<1>2. CASE j <= Len(new)
  <2>1. j \in 1 .. Len(new) /\ k \in 1 .. Len(new) BY <1>1, <1>2
  <2>2. todo'[j] = new[j] /\ todo'[k] = new[k] BY <2>1, SpliceProperties
  <2> QED BY <2>1, <2>2
<1>3. CASE j > Len(new)
  <2>1. jj \in n + 1 .. Len(todo) /\ todo'[j] = todo[jj] BY <1>3, SpliceProperties
  <2>2. \E i \in 1 .. jj : Op(i) # "ref"
    <3>1. CASE k <= Len(new)
      <4>1. k \in 1 .. Len(new) BY <1>1, <3>1
      <4>2. new[k][1] # "ref" BY <4>1, SpliceProperties
      <4>3. PICK i \in 1 .. n : Op(i) # "ref" BY <4>1, <4>2
      <4>4. i \in 1 .. jj BY <1>1, <2>1
      <4> QED BY <4>3, <4>4
    <3>2. CASE k > Len(new)
      <4>3. k \in 1 .. Len(todo') BY <1>1
      <4>1. kk \in n + 1 .. Len(todo) /\ todo'[k] = todo[kk] BY <3>2, <4>3, SpliceProperties
      <4>2. kk \in 1 .. jj BY <1>1, <4>1
      <4> HIDE DEF kk
      <4> QED BY <4>1, <4>2 DEF Op
    <3> QED BY <1>1, <3>1, <3>2
  <2>3. jj - n + Len(new) = j BY <1>1
  <2> HIDE DEF jj
  <2>4. jj \in DOMAIN todo /\ Op(jj) \in {"depend", "ref"} BY <1>1, <2>1, SpliceProperties DEF Op
  <2>5. InPlace(todo, jj) BY <2>2, <2>4 DEF Aligned
  <2>6. InPlace(todo', jj - n + Len(new)) BY <2>1, <2>5, InPlaceSplice
  <2> QED BY <2>3, <2>6
<1> QED BY <1>1, <1>2, <1>3

\* What is to be counted still arrives, when what brought it did.
LEMMA ArrivesSplice ==
  ASSUME Arrives, NEW n, NEW new, Splice(n, new), inited \subseteq inited',
         \A i \in 1 .. n : \A j \in n + 1 .. Len(todo) : Op(j) = "ref" /\ Brings(todo[i], Arg(j)) =>
           Arg(j) \in inited' \/ \E k \in 1 .. Len(new) : Brings(new[k], Arg(j)),
         \A j \in 1 .. Len(new) : new[j][1] = "ref" =>
           new[j][2] \in inited' \/ \E k \in 1 .. j - 1 : Brings(new[k], new[j][2])
  PROVE  Arrives'
<1> SUFFICES ASSUME NEW j \in 1 .. Len(todo'), todo'[j][1] = "ref"
             PROVE  todo'[j][2] \in inited' \/ \E i \in 1 .. j - 1 : Brings(todo'[i], todo'[j][2])
  BY SpliceProperties DEF Arrives, Op, Arg
<1> DEFINE jj == j - Len(new) + n
<1>1. Len(new) \in Nat /\ Len(todo) \in Nat /\ n \in Nat /\ Len(todo') \in Nat BY SpliceProperties
<1>2. CASE j <= Len(new)
  <2>1. j \in 1 .. Len(new) BY <1>1, <1>2
  <2>2. todo'[j] = new[j] BY <2>1, SpliceProperties
  <2>3. CASE new[j][2] \in inited' BY <2>2, <2>3
  <2>4. ASSUME NEW k \in 1 .. j - 1, Brings(new[k], new[j][2])
        PROVE  \E i \in 1 .. j - 1 : Brings(todo'[i], todo'[j][2])
    <3>1. k \in 1 .. Len(new) BY <1>1, <2>1
    <3>2. todo'[k] = new[k] BY <3>1, SpliceProperties
    <3> QED BY <2>2, <2>4, <3>2
  <2> QED BY <2>1, <2>2, <2>3, <2>4
<1>3. CASE j > Len(new)
  <2>1. jj \in n + 1 .. Len(todo) /\ todo'[j] = todo[jj] BY <1>3, SpliceProperties
  <2>2. \A i \in 1 .. jj - 1 : i > n => i - n + Len(new) \in 1 .. j - 1 BY <1>1
  <2> HIDE DEF jj
  <2>3. jj \in DOMAIN todo /\ Op(jj) = "ref" /\ Arg(jj) = todo'[j][2]
    BY <1>1, <2>1, SpliceProperties DEF Op, Arg
  <2>4. CASE Arg(jj) \in inited BY <2>3, <2>4
  <2>5. ASSUME NEW i \in 1 .. jj - 1, Brings(todo[i], Arg(jj))
        PROVE  todo'[j][2] \in inited' \/ \E k \in 1 .. j - 1 : Brings(todo'[k], todo'[j][2])
    <3>1. CASE i <= n
      <4>1. i \in 1 .. n BY <1>1, <2>1, <3>1
      <4>2. Arg(jj) \in inited' \/ \E k \in 1 .. Len(new) : Brings(new[k], Arg(jj))
        BY <2>1, <2>3, <2>5, <4>1
      <4>3. ASSUME NEW k \in 1 .. Len(new), Brings(new[k], Arg(jj))
            PROVE  \E m \in 1 .. j - 1 : Brings(todo'[m], todo'[j][2])
        <5>1. k \in 1 .. j - 1 /\ todo'[k] = new[k] BY <1>1, <1>3, SpliceProperties
        <5> QED BY <2>3, <4>3, <5>1
      <4> QED BY <2>3, <4>2, <4>3
    <3>2. CASE i > n
      <4>1. i \in n + 1 .. Len(todo) BY <1>1, <2>1, <3>2
      <4>2. todo'[i - n + Len(new)] = todo[i] BY <4>1, SpliceProperties
      <4>3. i - n + Len(new) \in 1 .. j - 1 BY <2>2, <3>2
      <4> QED BY <2>3, <2>5, <4>2, <4>3
    <3> QED BY <1>1, <2>1, <3>1, <3>2
  <2> QED BY <2>3, <2>4, <2>5 DEF Arrives
<1> QED BY <1>1, <1>2, <1>3

\* The plugins of a file stay in order, when the counts of the others stay.
LEMMA InOrderSplice ==
  ASSUME NEW n, NEW new, Splice(n, new),
         \A p \in Plugins : (\E i \in n + 1 .. Len(todo) : todo[i] \in {<<"plugin", p>>, <<"init", p>>})
           => IsNext(p)',
         \A p \in Plugins : (\E i \in 1 .. Len(new) : new[i] \in {<<"plugin", p>>, <<"init", p>>})
           => IsNext(p)'
  PROVE  InOrder'
<1> SUFFICES ASSUME NEW i \in 1 .. Len(todo'), todo'[i][1] \in {"plugin", "init"}, NEW p, p = todo'[i][2]
             PROVE  IsNext(p)'
  BY SpliceProperties DEF InOrder, Op, Arg
<1>1. todo'[i] \in LoadTasks BY SpliceProperties, ElementOfSeq
<1>2. p \in Plugins /\ todo'[i] \in {<<"plugin", p>>, <<"init", p>>} BY <1>1 DEF LoadTasks
<1>3. Len(new) \in Nat BY SpliceProperties
<1>4. CASE i <= Len(new)
  <2>1. i \in 1 .. Len(new) /\ todo'[i] = new[i] BY <1>3, <1>4, SpliceProperties
  <2> QED BY <1>2, <2>1
<1>5. CASE i > Len(new)
  <2>1. i - Len(new) + n \in n + 1 .. Len(todo) /\ todo'[i] = todo[i - Len(new) + n]
    BY <1>5, SpliceProperties
  <2> QED BY <1>2, <2>1
<1> QED BY <1>3, <1>4, <1>5

-----------------------------------------------------------------------------
(* The first task is replaced.                                             *)

\* What is pending once the first task is replaced.
LEMMA ThenPending ==
  ASSUME NEW V, todo \in Seq(V), NEW op, NEW x, Doing(op, x), NEW new \in Seq(V), Then(new)
  PROVE  /\ todo' \in Seq(V)
         /\ \A t : t # <<op, x>> =>
              (Contains(todo', t) <=> Contains(todo, t) \/ Contains(new, t))
<1>1. /\ 1 \in 0 .. Len(todo) /\ todo[1] = <<op, x>>
      /\ todo' = new \o SubSeq(todo, 1 + 1, Len(todo))
  BY ThenSplices
<1>2. Splices(V, todo, 1, new, todo') BY ONLY <1>1, todo \in Seq(V), new \in Seq(V), Spliced
<1>3. ASSUME NEW t, t # <<op, x>>, Contains(todo', t) PROVE Contains(todo, t) \/ Contains(new, t)
  <2>1. PICK i \in 1 .. Len(todo') : todo'[i] = t BY <1>3 DEF Contains
  <2>2. CASE i <= Len(new)
    <3>1. i \in 1 .. Len(new) BY <1>2, <2>2 DEF Splices
    <3> QED BY <1>2, <2>1, <3>1 DEF Contains, Splices
  <2>3. CASE i > Len(new)
    <3> DEFINE j == i - Len(new) + 1
    <3>1. j \in 1 + 1 .. Len(todo) /\ todo[j] = t BY <1>2, <2>1, <2>3 DEF Splices
    <3>2. j \in 1 .. Len(todo) BY <1>2, <3>1 DEF Splices
    <3> HIDE DEF j
    <3> QED BY <3>1, <3>2 DEF Contains
  <2> QED BY <1>2, <2>2, <2>3 DEF Splices
<1>4. ASSUME NEW t, Contains(new, t) PROVE Contains(todo', t)
  BY <1>2, <1>4 DEF Contains, Splices
<1>5. ASSUME NEW t, t # <<op, x>>, Contains(todo, t) PROVE Contains(todo', t)
  <2>1. PICK i \in 1 .. Len(todo) : todo[i] = t BY <1>5 DEF Contains
  <2>2. i \in 1 + 1 .. Len(todo)
    <3>1. i # 1 BY <1>1, <1>5, <2>1
    <3> QED BY <1>2, <2>1, <3>1 DEF Splices
  <2> DEFINE j == i - 1 + Len(new)
  <2>3. j \in Len(new) + 1 .. Len(todo') /\ todo'[j] = t BY <1>2, <2>1, <2>2 DEF Splices
  <2>4. j \in 1 .. Len(todo') BY <1>2, <2>3 DEF Splices
  <2> HIDE DEF j
  <2> QED BY <2>3, <2>4 DEF Contains
<1> QED BY <1>2, <1>3, <1>4, <1>5 DEF Splices

\* How many tasks of a kind there are then.
LEMMA ThenNumber ==
  ASSUME NEW V, todo \in Seq(V), NEW op, NEW x, Doing(op, x), NEW new \in Seq(V), Then(new), NEW S
  PROVE  /\ Number(todo', S) + (IF <<op, x>> \in S THEN 1 ELSE 0) = Number(todo, S) + Number(new, S)
         /\ Number(todo, S) \in Nat /\ Number(todo', S) \in Nat /\ Number(new, S) \in Nat
<1>1. /\ 1 \in 0 .. Len(todo)
      /\ todo' = new \o SubSeq(todo, 1 + 1, Len(todo))
  BY ThenSplices
<1>2. SubSeq(todo, 1, 1) = <<<<op, x>>>> BY ThenSplices
<1>3. NumbersSplice(todo, 1, new, todo', S)
  BY ONLY <1>1, todo \in Seq(V), new \in Seq(V), SplicedNumber
<1>4. Number(<<<<op, x>>>>, S) = IF <<op, x>> \in S THEN 1 ELSE 0 BY NumberOne
<1>5. Number(SubSeq(todo, 1, 1), S) = IF <<op, x>> \in S THEN 1 ELSE 0 BY <1>2, <1>4, Zenon
<1> QED BY ONLY <1>3, <1>5 DEF NumbersSplice

\* The agendas of no task and of one.
LEMMA NothingContained ==
  /\ \A t : ~Contains(<< >>, t)
  /\ \A t, u : Contains(<<u>>, t) <=> t = u
  /\ \A S : Number(<< >>, S) = 0
<1>1. \A t : ~Contains(<< >>, t) BY DEF Contains
<1>2. \A t, u : Contains(<<u>>, t) <=> t = u BY DEF Contains
<1>3. ASSUME NEW S PROVE Number(<< >>, S) = 0
  <2>1. {i \in DOMAIN << >> : << >>[i] \in S} = {} OBVIOUS
  <2> QED BY <2>1, FS_EmptySet DEF Number
<1> QED BY <1>1, <1>2, <1>3

\* What is counted of each plugin, in this state and in the next.
LEMMA CountedType ==
  ASSUME refs \in [Modules -> Nat]
  PROVE  /\ Counted \in [Plugins -> Nat]
         /\ \A p \in Plugins : Counted[p] = IF p \in inited THEN refs[p]
                                            ELSE IF Pending("init", p) THEN 1 ELSE 0
<1>1. \A p \in Plugins : refs[p] \in Nat BY ModuleTypes
<1> QED BY <1>1 DEF Counted

\* The same of the next state.
LEMMA CountedTypeNext ==
  ASSUME refs' \in [Modules -> Nat]
  PROVE  /\ Counted' \in [Plugins -> Nat]
         /\ \A p \in Plugins : Counted'[p] = IF p \in inited' THEN refs'[p]
                                             ELSE IF Pending("init", p)' THEN 1 ELSE 0
<1>1. \A p \in Plugins : refs'[p] \in Nat BY ModuleTypes
<1> QED BY <1>1 DEF Counted

\* Claims stay when counts, what is initialized and the pending initializers do.
LEMMA CountedSame ==
  ASSUME \A p \in Plugins : /\ p \in inited' <=> p \in inited
                            /\ refs'[p] = refs[p]
                            /\ Pending("init", p)' <=> Pending("init", p)
  PROVE  Counted' = Counted
BY DEF Counted

-----------------------------------------------------------------------------
(* What a load that goes on knows.                                         *)

\* Nothing is being removed, and the list is walked to its end.
Settled == /\ inits \in 0 .. MaxInits /\ ListOK /\ refs \in [Modules -> Nat]
           /\ \A m \in Modules : refs[m] > 0 <=> m \in listed
           /\ \A p \in Plugins : refs[p] > 0 <=> p \in inited
           /\ inited \subseteq Plugins
           /\ list = << >> \/ tail = Last(list)

\* A call that loads owes nothing and removes nothing.
LEMMA LoadTaskKinds ==
  ASSUME NEW s \in Seq(LoadTasks)
  PROVE  /\ \A t : Contains(s, t) => t \in LoadTasks
         /\ \A x : /\ \A op \in {"remove", "drop", "next", "unload", "unref"} : ~Contains(s, <<op, x>>)
                   /\ Number(s, {<<"drop", x>>}) = 0
<1>1. \A i \in 1 .. Len(s) : s[i] \in LoadTasks BY ElementOfSeq
<1>2. \A t : Contains(s, t) => t \in LoadTasks BY <1>1 DEF Contains
<1>3. \A t \in LoadTasks : t[1] \in {"load", "fail", "plugin", "depend", "ref", "init"} BY DEF LoadTasks
<1>4. ASSUME NEW x, NEW op \in {"remove", "drop", "next", "unload", "unref"} PROVE ~Contains(s, <<op, x>>)
  BY <1>2, <1>3
<1>5. ASSUME NEW x PROVE Number(s, {<<"drop", x>>}) = 0
  <2>1. DOMAIN s = 1 .. Len(s) BY LenProperties
  <2>2. \A i \in DOMAIN s : s[i] \notin {<<"drop", x>>} BY <1>1, <1>3, <2>1
  <2> QED BY <2>2, NumberType
<1> QED BY <1>2, <1>4, <1>5

\* While a call loads, what is listed, counted and initialized is the same plugins.
LEMMA LoadingSettled ==
  ASSUME TypeOK, TailIsLast, Counts, Loading
  PROVE  Settled /\ \A m : Found(m) <=> m \in listed
<1>1. todo \in Seq(LoadTasks) BY DEF Loading
<1>2. ListOK BY DEF TypeOK, ListOK
<1>3. \A m : ~Pending("remove", m) /\ ~Pending("next", m) BY <1>1, LoadTaskKinds DEF Pending
<1>4. \A m \in Modules : refs[m] > 0 <=> m \in listed BY <1>3 DEF TypeOK, Pending
<1>5. inited \subseteq Plugins BY DEF TypeOK
<1>6. \A p \in Plugins : refs[p] > 0 <=> p \in inited BY DEF Loading, Counts
<1>7. list = << >> \/ tail = Last(list) BY <1>3 DEF TailIsLast
<1>8. Settled BY <1>2, <1>4, <1>5, <1>6, <1>7 DEF Settled, TypeOK
<1> QED BY <1>2, <1>7, <1>8, WalkProperties

\* What that says of the invariant in the next state.
LEMMA SettledKept ==
  ASSUME Settled', \A m : ~Contains(todo', <<"remove", m>>)
  PROVE  TypeOK' /\ TailIsLast'
<1>1. TailIsLast' BY DEF Settled, TailIsLast
<1>2. \A p \in inited' : p \in listed' BY ModuleTypes DEF Settled
<1>3. ASSUME NEW m \in Modules
      PROVE  (refs'[m] > 0) = (m \in listed' /\ ~Contains(todo', <<"remove", m>>))
  <2>1. refs'[m] > 0 <=> m \in listed' BY DEF Settled
  <2> QED BY <2>1
<1>4. TypeOK' BY <1>2, <1>3 DEF TypeOK, Settled, ListOK
<1> QED BY <1>1, <1>4

\* The parts of the invariant that a step of a load shows.
LEMMA LoadingKept ==
  ASSUME Settled', Counts', Ledger', Loading'
  PROVE  PluginInv'
<1>1. todo' \in Seq(LoadTasks) BY DEF Loading
<1>2. \A m : ~Contains(todo', <<"remove", m>>) BY <1>1, LoadTaskKinds
<1>3. TypeOK' /\ TailIsLast' BY <1>2, SettledKept
<1> QED BY <1>3 DEF PluginInv

\* The ledger of a load: nothing is owed.
Expected(d) == {<<"ref", d>>, <<"depend", d>>}
\* The ledger of this state.
LEMMA LedgerOfLoad ==
  ASSUME todo \in Seq(LoadTasks), refs \in [Modules -> Nat], NEW d \in Plugins, Ledger
  PROVE  /\ Cardinality(Claims(d, Counted)) + (IF refs[d] > 0 THEN 1 ELSE 0)
              <= refs[d] + Number(todo, Expected(d))
         /\ Cardinality(Claims(d, Counted)) \in Nat
<1>1. Owed(d) = 0 BY LoadTaskKinds DEF Owed
<1>2. Coming(d) = Number(todo, Expected(d)) BY DEF Coming, Expected
<1>3. Cardinality(Claims(d, Counted)) + Owed(d) + (IF refs[d] > 0 THEN 1 ELSE 0) <= refs[d] + Coming(d)
  BY DEF Ledger
<1>4. Cardinality(Claims(d, Counted)) \in Nat BY CountedType, ClaimsFinite
<1> QED BY <1>1, <1>2, <1>3, <1>4

\* The ledger of the next state, when nothing is owed.
LEMMA LedgerNext ==
  ASSUME refs' \in [Modules -> Nat],
         \A d \in Plugins : Number(todo', {<<"drop", d>>}) = 0,
         \A d \in Plugins : Cardinality(Claims(d, Counted')) + (IF refs'[d] > 0 THEN 1 ELSE 0)
                              <= refs'[d] + Number(todo', Expected(d))
  PROVE  Ledger'
<1> SUFFICES ASSUME NEW d \in Plugins
             PROVE  Cardinality(Claims(d, Counted)') + Owed(d)' + (IF refs'[d] > 0 THEN 1 ELSE 0)
                      <= refs'[d] + Coming(d)'
  BY DEF Ledger
<1>1. Owed(d)' = 0 BY DEF Owed
<1>2. Coming(d)' = Number(todo', Expected(d)) BY DEF Coming, Expected
<1>3. Claims(d, Counted)' = Claims(d, Counted') BY DEF Claims
<1>4. Cardinality(Claims(d, Counted')) \in Nat BY CountedTypeNext, ClaimsFinite
<1> QED BY <1>1, <1>2, <1>3, <1>4

\* The ledger of the next state of a load.
LEMMA LedgerOfLoadNext ==
  ASSUME todo' \in Seq(LoadTasks), refs' \in [Modules -> Nat],
         \A d \in Plugins : Cardinality(Claims(d, Counted')) + (IF refs'[d] > 0 THEN 1 ELSE 0)
                              <= refs'[d] + Number(todo', Expected(d))
  PROVE  Ledger'
<1>1. \A d \in Plugins : Number(todo', {<<"drop", d>>}) = 0 BY LoadTaskKinds
<1> QED BY <1>1, LedgerNext

\* A first task that loads says which kind of call is at work.
LEMMA LoadHead ==
  ASSUME PluginInv, NEW op \in {"load", "plugin", "depend", "ref", "init", "fail"}, NEW x, Doing(op, x)
  PROVE  Loading /\ <<op, x>> \in LoadTasks
<1>1. CASE Loading
  <2>1. todo \in Seq(LoadTasks) BY <1>1 DEF Loading
  <2>2. todo # << >> /\ Head(todo) = <<op, x>> BY DEF Doing
  <2>3. Head(todo) \in LoadTasks BY <2>1, <2>2, HeadTailProperties
  <2> QED BY <1>1, <2>2, <2>3
<1>2. CASE Unloading
  <2> DEFINE V == UnloadTasks \union {<<"next", NoModule>>} \union ({"fail"} \X Files)
  <2>1. todo \in Seq(V) BY <1>2 DEF Unloading
  <2>2. todo # << >> /\ Head(todo) = <<op, x>> BY DEF Doing
  <2>3. todo[1] \in V /\ todo[1] = <<op, x>> /\ Len(todo) \in Nat \ {0} /\ DOMAIN todo = 1 .. Len(todo)
    BY <2>1, <2>2, HeadTailProperties, EmptySeq, LenProperties
  <2>4. op = "fail" /\ x \in Files BY <2>3 DEF UnloadTasks
  <2>5. Len(todo) = 1 BY <1>2, <2>3, <2>4 DEF Unloading, Op
  <2>6. todo[1] \in LoadTasks BY <2>3, <2>4 DEF LoadTasks
  <2>7. todo \in Seq(LoadTasks) BY <2>1, <2>3, <2>5, <2>6, SeqDef
  <2>8. \A p \in Plugins : refs[p] > 0 => p \in inited
    <3>1. \A p : ~Pending("unref", p) BY <2>7, LoadTaskKinds DEF Pending
    <3> QED BY <1>2, <3>1 DEF Unloading
  <2>9. \A i \in DOMAIN todo : i = 1 /\ Op(i) = "fail" BY <2>3, <2>4, <2>5 DEF Op
  <2>10. Descends /\ Outermost /\ Aligned /\ Arrives /\ InOrder
    BY <2>9 DEF Descends, Outermost, Aligned, Arrives, InOrder, Op
  <2> QED BY <2>3, <2>6, <2>7, <2>8, <2>10 DEF Loading
<1> QED BY <1>1, <1>2 DEF PluginInv

\* All that a step of a load may assume.
LEMMA LoadDoing ==
  ASSUME PluginInv, NEW op \in {"load", "plugin", "depend", "ref", "init", "fail"}, NEW x, Doing(op, x)
  PROVE  /\ Settled /\ Counts /\ Ledger /\ (\A m : Found(m) <=> m \in listed)
         /\ todo \in Seq(LoadTasks) /\ <<op, x>> \in LoadTasks
         /\ (\A p \in Plugins : refs[p] > 0 => p \in inited)
         /\ Descends /\ Outermost /\ Aligned /\ Arrives /\ InOrder
         /\ 1 \in DOMAIN todo /\ DOMAIN todo = 1 .. Len(todo) /\ Len(todo) \in Nat
         /\ todo[1] = <<op, x>> /\ Op(1) = op /\ Arg(1) = x
<1>1. Loading /\ <<op, x>> \in LoadTasks BY LoadHead
<1>2. todo \in Seq(LoadTasks) BY <1>1 DEF Loading
<1>3. todo # << >> /\ Head(todo) = <<op, x>> BY DEF Doing
<1>4. Len(todo) \in Nat /\ DOMAIN todo = 1 .. Len(todo) BY <1>2, LenProperties
<1>5. Len(todo) # 0 /\ Head(todo) = todo[1] BY <1>2, <1>3, HeadTailProperties, EmptySeq
<1>6. 1 \in DOMAIN todo BY <1>4, <1>5
<1>7. Settled /\ \A m : Found(m) <=> m \in listed BY <1>1, LoadingSettled DEF PluginInv
<1> QED BY <1>1, <1>2, <1>3, <1>4, <1>5, <1>6, <1>7 DEF PluginInv, Loading, Op, Arg

\* Such a step splices the agenda.
LEMMA SpliceThen ==
  ASSUME NEW op, NEW x, Doing(op, x), todo \in Seq(LoadTasks), NEW new \in Seq(LoadTasks), Then(new)
  PROVE  Splice(1, new)
<1>1. todo' = new \o SubSeq(todo, 1 + 1, Len(todo)) BY ThenSplices
<1>2. 1 \in 1 .. Len(todo)
  <2>1. todo # << >> BY DEF Doing
  <2> QED BY <2>1, EmptySeq, LenProperties
<1> QED BY <1>1, <1>2 DEF Splice

\* A step that leaves the modules alone keeps them settled and counted.
LEMMA SameModules ==
  ASSUME UNCHANGED <<inits, list, tail, refs, inited>>
  PROVE  /\ Settled => Settled'
         /\ Counts => Counts'
         /\ \A p : IsNext(p)' <=> IsNext(p)
<1>1. Settled => Settled' BY DEF Settled, ListOK, listed
<1>2. Counts => Counts' BY DEF Counts, Counting
<1>3. ASSUME NEW p PROVE IsNext(p)' <=> IsNext(p) BY DEF IsNext
<1> QED BY <1>1, <1>2, <1>3

-----------------------------------------------------------------------------
(* The steps of a load.                                                    *)

\* The tasks of a load and their arguments.
LEMMA LoadTaskTypes ==
  /\ \A f \in Files : <<"load", f>> \in LoadTasks /\ <<"fail", f>> \in LoadTasks
  /\ \A p \in Plugins : \A op \in {"plugin", "depend", "ref", "init"} : <<op, p>> \in LoadTasks
  /\ \A t \in LoadTasks : /\ t = <<t[1], t[2]>>
                          /\ t[1] \in {"load", "fail", "plugin", "depend", "ref", "init"}
                          /\ t[1] \in {"load", "fail"} => t[2] \in Files
                          /\ t[1] \in {"plugin", "depend", "ref", "init"} => t[2] \in Plugins
  /\ << >> \in Seq(LoadTasks) /\ \A t \in LoadTasks : <<t>> \in Seq(LoadTasks)
BY DEF LoadTasks

\* The tasks that load the dependencies of a plugin.
LEMMA DependTasks ==
  ASSUME NEW p \in Plugins, NEW op \in {"depend", "ref"}
  PROVE  /\ Tasks(op, Depends[p]) \in Seq(LoadTasks)
         /\ Len(Tasks(op, Depends[p])) = Len(Depends[p])
         /\ \A i \in 1 .. Len(Depends[p]) : Tasks(op, Depends[p])[i] = <<op, Depends[p][i]>>
<1>1. Depends[p] \in Seq(Plugins) BY DependsTypes
<1>2. \A x \in Plugins : <<op, x>> \in LoadTasks BY LoadTaskTypes
<1> DEFINE V == LoadTasks
           xs == Depends[p]
<1>3. xs \in Seq(Plugins) /\ \A x \in Plugins : <<op, x>> \in V BY <1>1, <1>2
<1> HIDE DEF V, xs
<1>4. /\ Tasks(op, xs) \in Seq(V) /\ Len(Tasks(op, xs)) = Len(xs)
      /\ \A i \in 1 .. Len(xs) : Tasks(op, xs)[i] = <<op, xs[i]>>
  BY <1>3, Tasked
<1> QED BY <1>4 DEF V, xs

\* A task that is done and has no successor keeps the agenda's shape.
LEMMA Ended ==
  ASSUME NEW V, NEW s \in Seq(V), NEW t \in V
  PROVE  LET r == s \o <<t>> IN
         /\ r \in Seq(V) /\ Len(s) \in Nat /\ Len(r) = Len(s) + 1 /\ DOMAIN r = 1 .. Len(s) + 1
         /\ r[Len(s) + 1] = t /\ \A i \in 1 .. Len(s) : r[i] = s[i]
<1> DEFINE r == s \o <<t>>
<1>1. <<t>> \in Seq(V) /\ Len(<<t>>) = 1 /\ <<t>>[1] = t OBVIOUS
<1>2. r \in Seq(V) /\ Len(r) = Len(s) + Len(<<t>>)
      /\ \A i \in 1 .. Len(s) + Len(<<t>>) : r[i] = IF i <= Len(s) THEN s[i] ELSE <<t>>[i - Len(s)]
  BY <1>1, ConcatProperties
<1>3. Len(s) \in Nat /\ DOMAIN r = 1 .. Len(r) BY <1>2, LenProperties
<1>4. \A i \in 1 .. Len(s) + 1 : r[i] = IF i <= Len(s) THEN s[i] ELSE <<t>>[i - Len(s)] BY <1>1, <1>2
<1> HIDE DEF r
<1>5. Len(s) + 1 \in 1 .. Len(s) + 1 /\ ~(Len(s) + 1 <= Len(s)) /\ Len(s) + 1 - Len(s) = 1 BY <1>3
<1>6. r[Len(s) + 1] = t BY <1>1, <1>4, <1>5
<1>7. \A i \in 1 .. Len(s) : r[i] = s[i] BY <1>3, <1>4
<1>8. r \in Seq(V) /\ Len(s) \in Nat /\ Len(r) = Len(s) + 1 /\ DOMAIN r = 1 .. Len(s) + 1
  BY <1>1, <1>2, <1>3
<1> QED BY <1>6, <1>7, <1>8 DEF r

\* loadModule: the dependencies come first, in their order, then the initializer.
LEMMA LoadPluginKeeps ==
  ASSUME PluginInv, NEW p \in Plugins, LoadPlugin(p)
  PROVE  PluginInv'
<1> DEFINE ds == Tasks("depend", Depends[p])
           new == ds \o <<<<"init", p>>>>
           m == Len(Depends[p])
<1>1. Doing("plugin", p) /\ Then(new) /\ UNCHANGED <<inits, list, tail, refs, inited>> BY DEF LoadPlugin
<1>2. /\ Settled /\ Counts /\ Ledger /\ todo \in Seq(LoadTasks)
      /\ (\A q \in Plugins : refs[q] > 0 => q \in inited)
      /\ Descends /\ Outermost /\ Aligned /\ Arrives /\ InOrder
      /\ 1 \in DOMAIN todo /\ DOMAIN todo = 1 .. Len(todo) /\ Len(todo) \in Nat
      /\ todo[1] = <<"plugin", p>> /\ Op(1) = "plugin" /\ Arg(1) = p
  BY <1>1, LoadDoing
<1>3. /\ Depends[p] \in Seq(Plugins) /\ m \in Nat /\ DOMAIN Depends[p] = 1 .. m
      /\ \A i \in 1 .. m : Depends[p][i] \in Plugins /\ Contains(Depends[p], Depends[p][i])
  BY DependsTypes
<1>4. /\ ds \in Seq(LoadTasks) /\ Len(ds) = m
      /\ \A i \in 1 .. m : ds[i] = <<"depend", Depends[p][i]>>
  BY DependTasks
<1>5. <<"init", p>> \in LoadTasks /\ <<<<"init", p>>>> \in Seq(LoadTasks) BY LoadTaskTypes
<1>6. /\ new \in Seq(LoadTasks) /\ Len(new) = m + 1 /\ new[m + 1] = <<"init", p>>
      /\ \A i \in 1 .. m : new[i] = <<"depend", Depends[p][i]>>
  <2> HIDE DEF ds
  <2>1. /\ new \in Seq(LoadTasks) /\ Len(new) = Len(ds) + 1 /\ new[Len(ds) + 1] = <<"init", p>>
        /\ \A i \in 1 .. Len(ds) : new[i] = ds[i]
    BY <1>4, <1>5, Ended
  <2> HIDE DEF new, m
  <2> QED BY <1>4, <2>1
<1> HIDE DEF new, ds, m
<1>7. Splice(1, new) BY <1>1, <1>2, <1>6, SpliceThen
<1>8. IsNext(p) BY <1>2 DEF InOrder
<1>9. refs[p] = 0 /\ p \notin inited
  <2>1. Place(p) \in Nat /\ Place(p) >= Place(p) BY Placed, ContentsTypes, Filed
  <2>2. refs[p] = 0 BY <1>8, <2>1, Filed DEF IsNext
  <2> QED BY <2>2, <1>2 DEF Settled
<1>10. \A j \in 2 .. Len(todo) : todo[j][1] = "init" => Rank[p] < Rank[todo[j][2]]
  BY <1>2 DEF Descends, Inside
<1>11. ~Pending("init", p)
  <2>1. SUFFICES ASSUME NEW j \in DOMAIN todo, todo[j] = <<"init", p>> PROVE FALSE
    BY DEF Pending, Contains
  <2>2. j # 1 BY <1>2, <2>1
  <2>3. Rank[p] < Rank[p] BY <1>2, <1>10, <2>1, <2>2
  <2> QED BY <2>3, RankProperties
<1>12. \A t : t # <<"plugin", p>> => (Contains(todo', t) <=> Contains(todo, t) \/ Contains(new, t))
  BY <1>1, <1>2, <1>6, ThenPending
<1>13. \A q : Contains(new, <<"init", q>>) <=> q = p
  <2>1. DOMAIN new = 1 .. m + 1 BY <1>3, <1>6, LenProperties
  <2>2. m + 1 \in DOMAIN new BY <1>3, <2>1
  <2>3. \A i \in DOMAIN new : i = m + 1 \/ i \in 1 .. m BY <1>3, <2>1
  <2>4. \A i \in DOMAIN new : \A q : new[i] = <<"init", q>> => q = p BY <1>6, <2>3
  <2> QED BY <1>6, <2>2, <2>4 DEF Contains
<1>14. Counted \in [Plugins -> Nat] /\ Counted' \in [Plugins -> Nat] /\ Counted[p] = 0 /\ Counted'[p] = 1
       /\ \A q \in Plugins : q # p => Counted'[q] = Counted[q]
  <2>1. refs \in [Modules -> Nat] /\ refs' = refs /\ inited' = inited BY <1>1, <1>2 DEF Settled
  <2>2. \A q : Pending("init", q)' <=> Pending("init", q) \/ q = p BY <1>12, <1>13 DEF Pending
  <2> QED BY <2>1, <2>2, <1>9, <1>11, CountedType, CountedTypeNext
<1>15. \A d \in Plugins : Number(todo', Expected(d)) = Number(todo, Expected(d)) + Cardinality(Uses(p, d))
  <2> SUFFICES ASSUME NEW d \in Plugins
               PROVE  Number(todo', Expected(d)) = Number(todo, Expected(d)) + Cardinality(Uses(p, d))
    OBVIOUS
  <2>1. <<"plugin", p>> \notin Expected(d) /\ <<"init", p>> \notin Expected(d)
        /\ \A x : <<"depend", x>> \in Expected(d) <=> x = d
    BY DEF Expected
  <2>2. Number(todo', Expected(d)) + 0 = Number(todo, Expected(d)) + Number(new, Expected(d))
        /\ Number(todo, Expected(d)) \in Nat /\ Number(todo', Expected(d)) \in Nat
    BY <1>1, <1>2, <1>6, <2>1, ThenNumber
  <2>3. Number(ds, Expected(d)) = Cardinality(Uses(p, d)) BY <2>1, NumberTasks DEF ds
  <2>4. Number(<<<<"init", p>>>>, Expected(d)) = 0 BY <2>1, NumberOne
  <2>5. Number(new, Expected(d)) = Number(ds, Expected(d)) + Number(<<<<"init", p>>>>, Expected(d))
    BY <1>4, <1>5, NumberConcat DEF new
  <2> QED BY <2>2, <2>3, <2>4, <2>5, UsesProperties
<1>16. Ledger'
  <2>1. todo' \in Seq(LoadTasks) BY <1>7, SpliceProperties
  <2>2. refs' \in [Modules -> Nat] /\ refs' = refs BY <1>1, <1>2 DEF Settled
  <2>3. ASSUME NEW d \in Plugins
        PROVE  Cardinality(Claims(d, Counted')) + (IF refs'[d] > 0 THEN 1 ELSE 0)
                 <= refs'[d] + Number(todo', Expected(d))
    <3>1. Cardinality(Claims(d, Counted')) = Cardinality(Claims(d, Counted)) + Cardinality(Uses(p, d))
      BY <1>14, ClaimsAdd
    <3>2. Cardinality(Claims(d, Counted)) + (IF refs[d] > 0 THEN 1 ELSE 0)
            <= refs[d] + Number(todo, Expected(d)) /\ Cardinality(Claims(d, Counted)) \in Nat
      BY <1>2, <2>2, LedgerOfLoad
    <3>3. Number(todo, Expected(d)) \in Nat BY <1>2, NumberType
    <3>4. refs[d] \in Nat BY <2>2, ModuleTypes
    <3> QED BY <1>15, <2>2, <3>1, <3>2, <3>3, <3>4, UsesProperties
  <2> QED BY <2>1, <2>2, <2>3, LedgerOfLoadNext
<1>17. Descends'
  <2>1. \A i, j \in 1 .. Len(new) : i < j => Inside(new[i], new[j])
    BY <1>3, <1>6, RankProperties DEF Inside
  <2>2. \A i \in 1 .. Len(new) : \A j \in 1 + 1 .. Len(todo) : Inside(new[i], todo[j])
    <3>1. ASSUME NEW i \in 1 .. Len(new), NEW j \in 2 .. Len(todo), todo[j][1] = "init"
          PROVE  Rank[new[i][2]] < Rank[todo[j][2]]
      <4>1. Rank[p] < Rank[todo[j][2]] BY <1>10, <3>1
      <4>2. todo[j][2] \in Plugins
        <5>1. todo[j] \in LoadTasks BY <1>2
        <5> QED BY <5>1, <3>1 DEF LoadTasks
      <4>3. CASE i = m + 1 BY <1>6, <4>1, <4>3
      <4>4. CASE i \in 1 .. m
        <5>1. Rank[Depends[p][i]] < Rank[p] BY <1>3, <4>4, RankProperties
        <5> QED BY <1>3, <1>6, <4>1, <4>2, <4>4, <5>1, RankProperties
      <4> QED BY <1>3, <1>6, <4>3, <4>4
    <3> QED BY <3>1 DEF Inside
  <2> QED BY <1>2, <1>7, <2>1, <2>2, DescendsSplice
<1>18. Outermost'
  <2>1. Shared(p) => Len(todo) = 1 BY <1>2 DEF Outermost
  <2>2. \A i \in 1 .. m : Depended(Depends[p][i]) BY <1>3 DEF Depended
  <2>3. ASSUME NEW i \in 1 .. Len(new)
        PROVE  /\ new[i][1] \in {"load", "plugin"} => i = 1
               /\ new[i][1] \in {"plugin", "init"} /\ Shared(new[i][2]) => i = Len(new) /\ 1 = Len(todo)
               /\ new[i][1] = "load" => (i = Len(new) /\ 1 = Len(todo)) \/ Contents[new[i][2]] = <<new[i][2]>>
               /\ new[i][1] \in {"depend", "ref"} => Depended(new[i][2])
    <3>1. CASE i = m + 1 BY <1>3, <1>6, <2>1, <3>1
    <3>2. CASE i \in 1 .. m BY <1>6, <2>2, <3>2
    <3> QED BY <1>3, <1>6, <3>1, <3>2
  <2> QED BY <1>2, <1>7, <2>3, OutermostSplice
<1>19. Aligned'
  <2>1. \E k \in 1 .. 1 : Op(k) # "ref" BY <1>2
  <2>2. ASSUME NEW j \in 1 .. Len(new), new[j][1] \in {"depend", "ref"}
        PROVE  InPlace(todo', j)
    <3>1. j \in 1 .. m BY <1>3, <1>6, <2>2
    <3>2. Len(todo') \in Nat /\ Len(new) <= Len(todo') /\ \A i \in 1 .. Len(new) : todo'[i] = new[i]
      BY <1>7, SpliceProperties
    <3>3. m + 1 \in j + 1 .. Len(todo') BY <1>3, <1>6, <3>1, <3>2
    <3>4. todo'[m + 1] = <<"init", p>> /\ \A k \in 1 .. m : todo'[k] = <<"depend", Depends[p][k]>>
      <4>1. \A i \in 1 .. m : i \in 1 .. Len(new) BY <1>3, <1>6
      <4>2. m + 1 \in 1 .. Len(new) BY <1>3, <1>6
      <4> QED BY <1>6, <3>2, <4>1, <4>2
    <3>5. m + 1 - (m + 1 - j) = j BY <1>3, <3>1
    <3>6. j \in Uses(p, Depends[p][j]) BY <1>3, <3>1, UsesProperties
    <3>8. todo'[m + 1][1] = "init" /\ todo'[m + 1][2] = p /\ todo'[j][2] = Depends[p][j] BY <3>1, <3>4
    <3>9. m + 1 \in j + 1 .. Len(todo') /\ m + 1 - (m + 1 - j) \in Uses(todo'[m + 1][2], todo'[j][2])
          /\ m = Len(Depends[todo'[m + 1][2]])
      BY <3>3, <3>5, <3>6, <3>8 DEF m
    <3> DEFINE l == m + 1
    <3> HIDE DEF l
    <3>11. l \in j + 1 .. Len(todo') /\ todo'[l][1] = "init" BY <3>8, <3>9 DEF l
    <3>12. \A k \in j .. l - 1 : todo'[k][1] # "init"
      <4>1. l - 1 = m BY <1>3 DEF l
      <4>2. \A k \in j .. m : todo'[k][1] # "init" BY <1>3, <3>1, <3>4
      <4> QED BY <4>1, <4>2
    <3>13. Len(Depends[todo'[l][2]]) + 1 - (l - j) \in Uses(todo'[l][2], todo'[j][2])
      <4>1. m + 1 - (l - j) \in Uses(todo'[l][2], todo'[j][2]) BY <3>9 DEF l
      <4>2. m = Len(Depends[todo'[l][2]]) BY <3>9 DEF l
      <4> QED BY <4>1, <4>2
    <3> QED BY <3>11, <3>12, <3>13 DEF InPlace
  <2> QED BY <1>2, <1>7, <2>1, <2>2, AlignedSplice
<1>20. Arrives'
  <2>1. m + 1 \in 1 .. Len(new) /\ \A i \in 1 .. Len(new) : new[i][1] # "ref" BY <1>3, <1>6
  <2>2. ASSUME NEW d, Brings(todo[1], d) PROVE Brings(new[m + 1], d)
    BY <1>2, <1>6, <2>2 DEF Brings
  <2> QED BY <1>1, <1>2, <1>7, <2>1, <2>2, ArrivesSplice
<1>21. InOrder'
  <2>1. \A q : IsNext(q)' <=> IsNext(q) BY <1>1, SameModules
  <2>2. \A i \in DOMAIN todo : todo[i][1] \in {"plugin", "init"} => IsNext(todo[i][2])
    BY <1>2 DEF InOrder, Op, Arg
  <2>3. ASSUME NEW q \in Plugins, NEW i \in 1 + 1 .. Len(todo), todo[i] \in {<<"plugin", q>>, <<"init", q>>}
        PROVE  IsNext(q)
    BY <1>2, <2>2, <2>3
  <2>4. \A i \in 1 .. Len(new) : \A q : new[i] \in {<<"plugin", q>>, <<"init", q>>} => q = p
    BY <1>3, <1>6
  <2> QED BY <1>7, <1>8, <2>1, <2>3, <2>4, InOrderSplice
<1>22. Settled' /\ Counts' BY <1>1, <1>2, SameModules
<1>23. Loading'
  <2>1. todo' \in Seq(LoadTasks) BY <1>7, SpliceProperties
  <2>2. \A q \in Plugins : refs'[q] > 0 => q \in inited' BY <1>1, <1>2
  <2> QED BY <2>1, <2>2, <1>17, <1>18, <1>19, <1>20, <1>21 DEF Loading
<1> QED BY <1>16, <1>22, <1>23, LoadingKept

\* A step of a load that leaves the modules alone.
LEMMA SameModulesKept ==
  ASSUME PluginInv, NEW op \in {"load", "plugin", "depend", "ref", "fail"}, NEW x, Doing(op, x),
         UNCHANGED <<inits, list, tail, refs, inited>>,
         NEW new \in Seq(LoadTasks), Then(new),
         \A i \in 1 .. Len(new) : /\ new[i][1] # "init"
                                  /\ \A p \in Plugins : new[i] = <<"plugin", p>> => IsNext(p),
         \A d \in Plugins : Number(new, Expected(d)) = IF <<op, x>> \in Expected(d) THEN 1 ELSE 0,
         Descends', Outermost', Aligned', Arrives'
  PROVE  PluginInv'
<1>1. /\ Settled /\ Counts /\ Ledger /\ todo \in Seq(LoadTasks)
      /\ (\A q \in Plugins : refs[q] > 0 => q \in inited)
      /\ Descends /\ Outermost /\ Aligned /\ Arrives /\ InOrder
      /\ 1 \in DOMAIN todo /\ DOMAIN todo = 1 .. Len(todo) /\ Len(todo) \in Nat
      /\ todo[1] = <<op, x>>
  BY LoadDoing
<1>2. Splice(1, new) BY <1>1, SpliceThen
<1>3. todo' \in Seq(LoadTasks) BY <1>2, SpliceProperties
<1>4. refs \in [Modules -> Nat] /\ refs' = refs /\ inited' = inited BY <1>1 DEF Settled
<1>5. Counted' = Counted
  <2>1. \A t : t # <<op, x>> => (Contains(todo', t) <=> Contains(todo, t) \/ Contains(new, t))
    BY <1>1, ThenPending
  <2>2. \A p : <<"init", p>> # <<op, x>> OBVIOUS
  <2>3. DOMAIN new = 1 .. Len(new) BY LenProperties
  <2>4. \A p : ~Contains(new, <<"init", p>>) BY <2>3 DEF Contains
  <2>5. \A p : Pending("init", p)' <=> Pending("init", p) BY <2>1, <2>2, <2>4 DEF Pending
  <2> QED BY <1>4, <2>5, CountedSame
<1>6. Ledger'
  <2>1. ASSUME NEW d \in Plugins
        PROVE  Cardinality(Claims(d, Counted')) + (IF refs'[d] > 0 THEN 1 ELSE 0)
                 <= refs'[d] + Number(todo', Expected(d))
    <3>1. Number(todo', Expected(d)) + (IF <<op, x>> \in Expected(d) THEN 1 ELSE 0)
            = Number(todo, Expected(d)) + Number(new, Expected(d))
          /\ Number(todo, Expected(d)) \in Nat /\ Number(todo', Expected(d)) \in Nat
      BY <1>1, ThenNumber
    <3>2. Number(new, Expected(d)) = IF <<op, x>> \in Expected(d) THEN 1 ELSE 0 OBVIOUS
    <3>3. Number(todo', Expected(d)) = Number(todo, Expected(d)) BY <3>1, <3>2
    <3>4. Cardinality(Claims(d, Counted)) + (IF refs[d] > 0 THEN 1 ELSE 0)
            <= refs[d] + Number(todo, Expected(d))
      BY <1>1, <1>4, LedgerOfLoad
    <3> QED BY <1>4, <1>5, <3>3, <3>4
  <2> QED BY <1>3, <1>4, <2>1, LedgerOfLoadNext
<1>7. InOrder'
  <2>1. \A q : IsNext(q)' <=> IsNext(q) BY SameModules
  <2>2. \A i \in DOMAIN todo : todo[i][1] \in {"plugin", "init"} => IsNext(todo[i][2])
    BY <1>1 DEF InOrder, Op, Arg
  <2>3. ASSUME NEW q \in Plugins, NEW i \in 1 + 1 .. Len(todo), todo[i] \in {<<"plugin", q>>, <<"init", q>>}
        PROVE  IsNext(q)
    BY <1>1, <2>2, <2>3
  <2>4. \A q \in Plugins : \A i \in 1 .. Len(new) : new[i] \in {<<"plugin", q>>, <<"init", q>>} => IsNext(q)
    OBVIOUS
  <2> QED BY <1>2, <2>1, <2>3, <2>4, InOrderSplice
<1>8. Settled' /\ Counts' BY <1>1, SameModules
<1>9. \A q \in Plugins : refs'[q] > 0 => q \in inited' BY <1>1, <1>4
<1> QED BY <1>3, <1>6, <1>7, <1>8, <1>9, LoadingKept DEF Loading

\* loadModuleDepends, for a dependency that is loaded: it will be counted.
LEMMA DependFoundKeeps ==
  ASSUME PluginInv, NEW d \in Plugins, Doing("depend", d), Found(d), Then(<<<<"ref", d>>>>),
         UNCHANGED <<inits, list, tail, refs, inited>>
  PROVE  PluginInv'
<1> DEFINE new == <<<<"ref", d>>>>
<1>1. /\ Settled /\ (\A m : Found(m) <=> m \in listed) /\ todo \in Seq(LoadTasks)
      /\ Descends /\ Outermost /\ Aligned /\ Arrives /\ InOrder
      /\ 1 \in DOMAIN todo /\ DOMAIN todo = 1 .. Len(todo) /\ Len(todo) \in Nat
      /\ todo[1] = <<"depend", d>> /\ Op(1) = "depend" /\ Arg(1) = d
  BY LoadDoing
<1>2. new \in Seq(LoadTasks) /\ Len(new) = 1 /\ new[1] = <<"ref", d>> BY LoadTaskTypes
<1>3. Then(new) OBVIOUS
<1>4. \A c \in Plugins : Number(new, Expected(c)) = IF <<"depend", d>> \in Expected(c) THEN 1 ELSE 0
  BY NumberOne DEF Expected
<1> HIDE DEF new
<1>5. Splice(1, new) BY <1>1, <1>2, <1>3, SpliceThen
<1>6. \A i \in 1 .. Len(new) : i = 1 /\ new[i] = <<"ref", d>> BY <1>2
<1>7. d \in inited BY <1>1, ModuleTypes DEF Settled
<1>8. Descends'
  <2>1. \A i \in 1 .. Len(new) : \A u : Inside(new[i], u) BY <1>6 DEF Inside
  <2> QED BY <1>1, <1>5, <2>1, DescendsSplice
<1>9. Outermost'
  <2>1. Depended(d) BY <1>1 DEF Outermost
  <2> QED BY <1>1, <1>5, <1>6, <2>1, OutermostSplice
<1>10. Aligned'
  <2>1. \E k \in 1 .. 1 : Op(k) # "ref" BY <1>1
  <2>2. \A j \in 1 .. Len(new) : ~\E k \in 1 .. j : new[k][1] # "ref" BY <1>2, <1>6
  <2> QED BY <1>1, <1>5, <2>1, <2>2, AlignedSplice
<1>11. Arrives'
  <2>1. \A c : ~Brings(todo[1], c) BY <1>1 DEF Brings
  <2>2. inited' = inited /\ d \in inited' BY <1>7
  <2> QED BY <1>1, <1>5, <1>6, <2>1, <2>2, ArrivesSplice
<1>12. \A i \in 1 .. Len(new) : new[i][1] # "init" /\ \A p \in Plugins : new[i] # <<"plugin", p>>
  BY <1>6
<1> QED BY <1>2, <1>3, <1>4, <1>8, <1>9, <1>10, <1>11, <1>12, SameModulesKept

\* loadModuleDepends, for one that is not: it is loaded, then counted.
LEMMA DependAbsentKeeps ==
  ASSUME PluginInv, NEW d \in Plugins, Doing("depend", d), d \in Files,
         Then(<<<<"load", d>>, <<"ref", d>>>>), UNCHANGED <<inits, list, tail, refs, inited>>
  PROVE  PluginInv'
<1> DEFINE new == <<<<"load", d>>, <<"ref", d>>>>
<1>1. /\ todo \in Seq(LoadTasks)
      /\ Descends /\ Outermost /\ Aligned /\ Arrives /\ InOrder
      /\ 1 \in DOMAIN todo /\ DOMAIN todo = 1 .. Len(todo) /\ Len(todo) \in Nat
      /\ todo[1] = <<"depend", d>> /\ Op(1) = "depend" /\ Arg(1) = d
  BY LoadDoing
<1>2. new \in Seq(LoadTasks) /\ Len(new) = 2 /\ new[1] = <<"load", d>> /\ new[2] = <<"ref", d>>
  <2>1. <<"load", d>> \in LoadTasks /\ <<"ref", d>> \in LoadTasks BY LoadTaskTypes
  <2> QED BY <2>1
<1>3. Then(new) OBVIOUS
<1>4. \A c \in Plugins : Number(new, Expected(c)) = IF <<"depend", d>> \in Expected(c) THEN 1 ELSE 0
  <2> SUFFICES ASSUME NEW c \in Plugins
               PROVE  Number(new, Expected(c)) = IF <<"depend", d>> \in Expected(c) THEN 1 ELSE 0
    OBVIOUS
  <2> DEFINE s == <<<<"load", d>>>>
             r == <<<<"ref", d>>>>
  <2>1. <<"load", d>> \in LoadTasks /\ <<"ref", d>> \in LoadTasks BY LoadTaskTypes
  <2>2. s \in Seq(LoadTasks) /\ r \in Seq(LoadTasks) /\ new = s \o r BY <2>1
  <2>3. Number(s, Expected(c)) = 0 BY NumberOne DEF Expected
  <2>4. Number(r, Expected(c)) = IF <<"depend", d>> \in Expected(c) THEN 1 ELSE 0
    BY NumberOne DEF Expected
  <2> HIDE DEF new, s, r
  <2>5. Number(new, Expected(c)) = Number(s, Expected(c)) + Number(r, Expected(c))
    BY <2>2, NumberConcat
  <2> QED BY <2>3, <2>4, <2>5
<1> HIDE DEF new
<1>5. Splice(1, new) BY <1>1, <1>2, <1>3, SpliceThen
<1>6. \A i \in 1 .. Len(new) : i \in {1, 2} BY <1>2
<1>7. Descends'
  <2>1. \A i, j \in 1 .. Len(new) : i < j => Inside(new[i], new[j]) BY <1>2, <1>6 DEF Inside
  <2>2. \A j \in 1 + 1 .. Len(todo) : Inside(todo[1], todo[j]) BY <1>1 DEF Descends
  <2>3. \A u : Inside(todo[1], u) => Inside(new[1], u) BY <1>1, <1>2 DEF Inside
  <2>4. \A u : Inside(new[2], u) BY <1>2 DEF Inside
  <2>5. \A i \in 1 .. Len(new) : \A j \in 1 + 1 .. Len(todo) : Inside(new[i], todo[j])
    BY <1>6, <2>2, <2>3, <2>4
  <2> QED BY <1>1, <1>5, <2>1, <2>5, DescendsSplice
<1>8. Outermost'
  <2>1. Depended(d) BY <1>1 DEF Outermost
  <2>2. Contents[d] = <<d>> BY <2>1, DependedOn
  <2>3. ASSUME NEW i \in 1 .. Len(new)
        PROVE  /\ new[i][1] \in {"load", "plugin"} => i = 1
               /\ new[i][1] \in {"plugin", "init"} /\ Shared(new[i][2]) => i = Len(new) /\ 1 = Len(todo)
               /\ new[i][1] = "load" => (i = Len(new) /\ 1 = Len(todo)) \/ Contents[new[i][2]] = <<new[i][2]>>
               /\ new[i][1] \in {"depend", "ref"} => Depended(new[i][2])
    <3>1. CASE i = 1 BY <1>2, <2>2, <3>1
    <3>2. CASE i = 2 BY <1>2, <2>1, <3>2
    <3> QED BY <1>6, <3>1, <3>2
  <2> QED BY <1>1, <1>5, <2>3, OutermostSplice
<1>9. Aligned'
  <2>1. \E k \in 1 .. 1 : Op(k) # "ref" BY <1>1
  <2>2. InPlace(todo, 1) BY <1>1 DEF Aligned
  <2>3. PICK l \in 1 + 1 .. Len(todo) : /\ todo[l][1] = "init" /\ \A k \in 1 .. l - 1 : todo[k][1] # "init"
                                       /\ Len(Depends[todo[l][2]]) + 1 - (l - 1) \in Uses(todo[l][2], todo[1][2])
    BY <2>2 DEF InPlace
  <2>4. Len(todo') = Len(todo) + 1 /\ todo'[1] = new[1] /\ todo'[2] = new[2]
        /\ \A i \in 2 .. Len(todo) : todo'[i + 1] = todo[i]
    <3>1. \A i \in 1 .. Len(new) : todo'[i] = new[i] BY <1>5, SpliceProperties
    <3>2. \A i \in 1 + 1 .. Len(todo) : todo'[i - 1 + Len(new)] = todo[i] BY <1>5, SpliceProperties
    <3>3. Len(todo') = Len(new) + (Len(todo) - 1) BY <1>5, SpliceProperties
    <3>4. \A i \in 2 .. Len(todo) : i - 1 + Len(new) = i + 1 BY <1>2
    <3> QED BY <1>1, <1>2, <3>1, <3>2, <3>3, <3>4
  <2>5. l + 1 \in 2 + 1 .. Len(todo') /\ todo'[l + 1] = todo[l] /\ l + 1 - 2 = l - 1
    BY <1>1, <2>3, <2>4
  <2>6. \A k \in 2 .. l + 1 - 1 : todo'[k][1] # "init"
    <3>1. SUFFICES ASSUME NEW k \in 2 .. l + 1 - 1 PROVE todo'[k][1] # "init" OBVIOUS
    <3>2. CASE k = 2 BY <1>2, <2>4, <3>2
    <3>3. CASE k # 2
      <4>1. k - 1 \in 2 .. Len(todo) /\ k - 1 \in 1 .. l - 1 /\ k - 1 + 1 = k BY <1>1, <2>3, <3>1, <3>3
      <4>2. todo'[k] = todo[k - 1] BY <2>4, <4>1
      <4> QED BY <2>3, <4>1, <4>2
    <3> QED BY <3>2, <3>3
  <2>7. todo'[2][2] = d /\ todo[1][2] = d BY <1>1, <1>2, <2>4
  <2> DEFINE n == l + 1
  <2>8. n \in 2 + 1 .. Len(todo') /\ todo'[n] = todo[l] /\ n - 2 = l - 1
        /\ \A k \in 2 .. n - 1 : todo'[k][1] # "init"
    BY <2>5, <2>6
  <2> HIDE DEF n
  <2>9. /\ n \in 2 + 1 .. Len(todo') /\ todo'[n][1] = "init" /\ \A k \in 2 .. n - 1 : todo'[k][1] # "init"
        /\ Len(Depends[todo'[n][2]]) + 1 - (n - 2) \in Uses(todo'[n][2], todo'[2][2])
    BY <2>3, <2>7, <2>8
  <2>10. InPlace(todo', 2) BY <2>9 DEF InPlace
  <2>11. \A j \in 1 .. Len(new) : new[j][1] \in {"depend", "ref"} => InPlace(todo', j)
    BY <1>2, <1>6, <2>10
  <2> QED BY <1>1, <1>5, <2>1, <2>11, AlignedSplice
<1>10. Arrives'
  <2>1. \A c : ~Brings(todo[1], c) BY <1>1 DEF Brings
  <2>2. Brings(new[1], d) BY <1>2 DEF Brings
  <2>3. ASSUME NEW j \in 1 .. Len(new), new[j][1] = "ref"
        PROVE  \E k \in 1 .. j - 1 : Brings(new[k], new[j][2])
    <3>1. j = 2 BY <1>2, <1>6, <2>3
    <3>2. 1 \in 1 .. j - 1 /\ new[j][2] = d BY <1>2, <3>1
    <3> QED BY <2>2, <3>2
  <2>4. inited' = inited OBVIOUS
  <2> QED BY <1>1, <1>5, <2>1, <2>3, <2>4, ArrivesSplice
<1>11. ASSUME NEW i \in 1 .. Len(new)
       PROVE  new[i][1] # "init" /\ \A p \in Plugins : new[i] = <<"plugin", p>> => IsNext(p)
  <2>1. new[i][1] \in {"load", "ref"} BY <1>2, <1>6
  <2> QED BY <2>1
<1> QED BY <1>2, <1>3, <1>4, <1>7, <1>8, <1>9, <1>10, <1>11, SameModulesKept

\* refModuleRecursive: one reference more claims one more of each dependency.
LEMMA RefModuleKeeps ==
  ASSUME PluginInv, DependsInited, NEW d \in Plugins, RefModuleRecursive(d)
  PROVE  PluginInv'
<1> DEFINE new == Tasks("ref", Depends[d])
<1>1. /\ Settled /\ Counts /\ Ledger /\ (\A m : Found(m) <=> m \in listed) /\ todo \in Seq(LoadTasks)
      /\ (\A q \in Plugins : refs[q] > 0 => q \in inited)
      /\ Descends /\ Outermost /\ Aligned /\ Arrives /\ InOrder
      /\ 1 \in DOMAIN todo /\ DOMAIN todo = 1 .. Len(todo) /\ Len(todo) \in Nat
      /\ todo[1] = <<"ref", d>> /\ Op(1) = "ref" /\ Arg(1) = d
  BY LoadDoing DEF RefModuleRecursive
<1>2. d \in inited BY <1>1 DEF Arrives
<1>3. Found(d) /\ d \in Modules BY <1>1, <1>2, ModuleTypes DEF Settled
<1>4. /\ Doing("ref", d) /\ Then(new) /\ refs' = [refs EXCEPT ![d] = @ + 1]
      /\ UNCHANGED <<inits, list, tail, inited>>
  BY <1>3 DEF RefModuleRecursive
<1>5. /\ new \in Seq(LoadTasks) /\ Len(new) = Len(Depends[d])
      /\ \A i \in 1 .. Len(Depends[d]) : new[i] = <<"ref", Depends[d][i]>>
  BY DependTasks
<1>6. \A i \in 1 .. Len(new) : new[i] = <<"ref", Depends[d][i]>> /\ Contains(Depends[d], Depends[d][i])
                               /\ Depends[d][i] \in Plugins
  BY <1>5, DependsTypes
<1>7. \A c \in Plugins : Number(new, Expected(c)) = Cardinality(Uses(d, c))
  <2>1. ASSUME NEW c \in Plugins PROVE Number(new, Expected(c)) = Cardinality(Uses(d, c))
    <3>1. \A x : <<"ref", x>> \in Expected(c) <=> x = c BY DEF Expected
    <3> QED BY <3>1, NumberTasks
  <2> QED BY <2>1
<1> HIDE DEF new
<1>8. Splice(1, new) BY <1>1, <1>4, <1>5, SpliceThen
<1>9. todo' \in Seq(LoadTasks) BY <1>8, SpliceProperties
<1>10. refs \in [Modules -> Nat] /\ refs' \in [Modules -> Nat] /\ refs'[d] = refs[d] + 1 /\ refs[d] > 0
       /\ \A m \in Modules : m # d => refs'[m] = refs[m]
  BY <1>1, <1>2, <1>3, <1>4 DEF Settled
<1>11. Depended(d) BY <1>1 DEF Outermost
<1>12. ~Shared(d) BY <1>11, DependedOn
<1>13. Settled'
  <2>1. ListOK' /\ listed' = listed BY <1>1, <1>4 DEF Settled, ListOK, listed
  <2>2. \A m \in Modules : refs'[m] > 0 <=> m \in listed'
    BY <1>1, <1>3, <1>10, <2>1 DEF Settled
  <2>3. \A p \in Plugins : refs'[p] > 0 <=> p \in inited'
    BY <1>1, <1>2, <1>4, <1>10, ModuleTypes DEF Settled
  <2> QED BY <1>1, <1>4, <1>10, <2>1, <2>2, <2>3 DEF Settled
<1>14. \A f \in Files : Multi(f) => /\ refs'[Parent(f)] = refs[Parent(f)]
                                    /\ \A p \in ToSet(Contents[f]) : refs'[p] = refs[p]
  <2>1. SUFFICES ASSUME NEW f \in Files, Multi(f)
                 PROVE  refs'[Parent(f)] = refs[Parent(f)] /\ \A p \in ToSet(Contents[f]) : refs'[p] = refs[p]
    OBVIOUS
  <2>2. Parent(f) \in Modules /\ Parent(f) # d BY <2>1, ModuleTypes, Parents
  <2>3. d \notin ToSet(Contents[f]) BY <1>12, <2>1, Filed DEF Shared
  <2>4. \A p \in ToSet(Contents[f]) : p \in Modules BY ContentsTypes, ModuleTypes
  <2> QED BY <1>10, <2>2, <2>3, <2>4
<1>15. Counts'
  <2>1. \A f \in Files : Multi(f) => Counting(f)' = Counting(f) BY <1>14 DEF Counting
  <2>2. \A p \in inited' : refs'[p] > 0 BY <1>13 DEF Settled
  <2>3. ASSUME NEW f \in Files, Multi(f)
        PROVE  /\ refs'[Parent(f)] > 0 => refs'[Parent(f)] = 1 + Cardinality(Counting(f)')
               /\ refs'[Parent(f)] = 0 => Counting(f)' = {}
               /\ \A p \in Counting(f)' : refs'[p] = 1
    <3>1. \A p \in Counting(f) : refs'[p] = refs[p] BY <1>14, <2>3 DEF Counting
    <3> QED BY <1>1, <1>14, <2>1, <2>3, <3>1 DEF Counts
  <2> QED BY <2>2, <2>3 DEF Counts
<1>16. Counted \in [Plugins -> Nat] /\ Counted' \in [Plugins -> Nat] /\ Counted'[d] = Counted[d] + 1
       /\ \A q \in Plugins : q # d => Counted'[q] = Counted[q]
  <2>1. \A t : t # <<"ref", d>> => (Contains(todo', t) <=> Contains(todo, t) \/ Contains(new, t))
    BY <1>1, <1>4, <1>5, ThenPending
  <2>2. DOMAIN new = 1 .. Len(new) BY <1>5, LenProperties
  <2>3. \A p : ~Contains(new, <<"init", p>>) BY <1>6, <2>2 DEF Contains
  <2>4. \A p : Pending("init", p)' <=> Pending("init", p) BY <2>1, <2>3 DEF Pending
  <2> QED BY <1>2, <1>4, <1>10, <2>4, ModuleTypes, CountedType, CountedTypeNext
<1>17. Ledger'
  <2>1. ASSUME NEW c \in Plugins
        PROVE  Cardinality(Claims(c, Counted')) + (IF refs'[c] > 0 THEN 1 ELSE 0)
                 <= refs'[c] + Number(todo', Expected(c))
    <3>1. Number(todo', Expected(c)) + (IF <<"ref", d>> \in Expected(c) THEN 1 ELSE 0)
            = Number(todo, Expected(c)) + Number(new, Expected(c))
          /\ Number(todo, Expected(c)) \in Nat /\ Number(todo', Expected(c)) \in Nat
      BY <1>1, <1>4, <1>5, ThenNumber
    <3>2. <<"ref", d>> \in Expected(c) <=> c = d BY DEF Expected
    <3>3. Cardinality(Claims(c, Counted')) = Cardinality(Claims(c, Counted)) + Cardinality(Uses(d, c))
      BY <1>16, ClaimsAdd
    <3>4. Cardinality(Claims(c, Counted)) + (IF refs[c] > 0 THEN 1 ELSE 0)
            <= refs[c] + Number(todo, Expected(c)) /\ Cardinality(Claims(c, Counted)) \in Nat
      BY <1>1, <1>10, LedgerOfLoad
    <3>5. refs[c] \in Nat /\ Cardinality(Uses(d, c)) \in Nat BY <1>10, ModuleTypes, UsesProperties
    <3>6. CASE c = d BY <1>7, <1>10, <3>1, <3>2, <3>3, <3>4, <3>5, <3>6
    <3>7. CASE c # d
      <4>1. refs'[c] = refs[c] BY <1>10, <3>7, ModuleTypes
      <4> QED BY <1>7, <3>1, <3>2, <3>3, <3>4, <3>5, <3>7, <4>1
    <3> QED BY <3>6, <3>7
  <2> QED BY <1>9, <1>10, <2>1, LedgerOfLoadNext
<1>18. Descends'
  <2>1. \A i \in 1 .. Len(new) : \A u : Inside(new[i], u) BY <1>6 DEF Inside
  <2> QED BY <1>1, <1>8, <2>1, DescendsSplice
<1>19. Outermost'
  <2>1. \A i \in 1 .. Len(new) : new[i][1] = "ref" /\ Depended(new[i][2]) BY <1>6 DEF Depended
  <2> QED BY <1>1, <1>8, <2>1, OutermostSplice
<1>20. Aligned'
  <2>1. \A i \in 1 .. Len(new) : new[i][1] = "ref" BY <1>6
  <2>2. \A j \in 1 .. Len(new) : ~\E k \in 1 .. j : new[k][1] # "ref"
    <3>1. Len(new) \in Nat BY <1>8, SpliceProperties
    <3> QED BY <2>1, <3>1
  <2> QED BY <1>1, <1>8, <2>1, <2>2, AlignedSplice
<1>21. Arrives'
  <2>1. \A c : ~Brings(todo[1], c) BY <1>1 DEF Brings
  <2>2. \A i \in 1 .. Len(new) : new[i][2] \in inited' BY <1>2, <1>4, <1>6 DEF DependsInited
  <2>3. inited' = inited BY <1>4
  <2> QED BY <1>1, <1>8, <2>1, <2>2, <2>3, ArrivesSplice
<1>22. InOrder'
  <2>1. ASSUME NEW p \in Plugins, IsNext(p) PROVE IsNext(p)'
    <3>1. ASSUME NEW q \in ToSet(Contents[FileOf(p)]), Place(q) >= Place(p) PROVE refs'[q] = 0
      <4>1. refs[q] = 0 BY <2>1, <3>1 DEF IsNext
      <4>2. q \in Modules BY Filed, ContentsTypes, ModuleTypes
      <4> QED BY <1>10, <4>1, <4>2
    <3>2. Shared(p) => refs'[Parent(FileOf(p))] > 0 BY <1>14, <2>1, Filed DEF IsNext, Shared
    <3> QED BY <3>1, <3>2 DEF IsNext
  <2>2. \A i \in DOMAIN todo : todo[i][1] \in {"plugin", "init"} => IsNext(todo[i][2])
    BY <1>1 DEF InOrder, Op, Arg
  <2>3. ASSUME NEW p \in Plugins, NEW i \in 1 + 1 .. Len(todo), todo[i] \in {<<"plugin", p>>, <<"init", p>>}
        PROVE  IsNext(p)'
    BY <1>1, <2>1, <2>2, <2>3
  <2>4. \A i \in 1 .. Len(new) : \A p : new[i] \notin {<<"plugin", p>>, <<"init", p>>} BY <1>6
  <2> QED BY <1>8, <2>3, <2>4, InOrderSplice
<1>23. \A q \in Plugins : refs'[q] > 0 => q \in inited' BY <1>13 DEF Settled
<1> QED BY <1>9, <1>13, <1>15, <1>17, <1>18, <1>19, <1>20, <1>21, <1>22, <1>23, LoadingKept DEF Loading

\* loadModule, for a file that is loaded: nothing is left to do.
LEMMA FileLoadedKeeps ==
  ASSUME PluginInv, NEW f \in Files, Doing("load", f), IsLibraryLoaded(f), Then(<< >>),
         UNCHANGED <<inits, list, tail, refs, inited>>
  PROVE  PluginInv'
<1> DEFINE new == << >>
<1>1. /\ Settled /\ (\A m : Found(m) <=> m \in listed) /\ todo \in Seq(LoadTasks)
      /\ Descends /\ Outermost /\ Aligned /\ Arrives /\ InOrder
      /\ 1 \in DOMAIN todo /\ DOMAIN todo = 1 .. Len(todo) /\ Len(todo) \in Nat
      /\ todo[1] = <<"load", f>> /\ Op(1) = "load" /\ Arg(1) = f
  BY LoadDoing
<1>2. new \in Seq(LoadTasks) /\ Len(new) = 0 BY LoadTaskTypes
<1>3. Then(new) OBVIOUS
<1>4. \A c \in Plugins : Number(new, Expected(c)) = IF <<"load", f>> \in Expected(c) THEN 1 ELSE 0
  BY NothingContained DEF Expected
<1> HIDE DEF new
<1>5. Splice(1, new) BY <1>1, <1>2, <1>3, SpliceThen
<1>6. 1 .. Len(new) = {} BY <1>2
<1>7. Descends' BY <1>1, <1>5, <1>6, DescendsSplice
<1>8. Outermost' BY <1>1, <1>5, <1>6, OutermostSplice
<1>9. Aligned'
  <2>1. \E k \in 1 .. 1 : Op(k) # "ref" BY <1>1
  <2> QED BY <1>1, <1>5, <1>6, <2>1, AlignedSplice
<1>10. Arrives'
  <2>1. ASSUME NEW j \in 1 + 1 .. Len(todo), Op(j) = "ref", Brings(todo[1], Arg(j))
        PROVE  Arg(j) \in inited'
    <3>1. Arg(j) = f BY <1>1, <2>1 DEF Brings
    <3>2. f \in Plugins BY ContentsTypes
    <3>3. Depended(f) BY <1>1, <2>1, <3>1 DEF Outermost
    <3>4. Contents[f] = <<f>> BY <3>2, <3>3, DependedOn
    <3>5. Found(f) BY <3>4 DEF IsLibraryLoaded, Multi
    <3> QED BY <1>1, <3>1, <3>2, <3>5, ModuleTypes DEF Settled
  <2>2. inited' = inited OBVIOUS
  <2>3. \A i \in 1 .. 1 : i = 1 OBVIOUS
  <2> QED BY <1>1, <1>5, <1>6, <2>1, <2>2, <2>3, ArrivesSplice
<1> QED BY <1>2, <1>3, <1>4, <1>6, <1>7, <1>8, <1>9, <1>10, SameModulesKept

\* loadModule, for a file of one plugin.
LEMMA SingleFileKeeps ==
  ASSUME PluginInv, NEW f \in Files, Doing("load", f), ~IsLibraryLoaded(f), ~Multi(f),
         Then(<<<<"plugin", Contents[f][1]>>>>), UNCHANGED <<inits, list, tail, refs, inited>>
  PROVE  PluginInv'
<1> DEFINE p == Contents[f][1]
           new == <<<<"plugin", p>>>>
<1>1. /\ Settled /\ (\A m : Found(m) <=> m \in listed) /\ todo \in Seq(LoadTasks)
      /\ Descends /\ Outermost /\ Aligned /\ Arrives /\ InOrder
      /\ 1 \in DOMAIN todo /\ DOMAIN todo = 1 .. Len(todo) /\ Len(todo) \in Nat
      /\ todo[1] = <<"load", f>> /\ Op(1) = "load" /\ Arg(1) = f
  BY LoadDoing
<1>2. Len(Contents[f]) = 1 /\ 1 \in 1 .. Len(Contents[f]) BY ContentsTypes DEF Multi
<1>3. p \in Plugins /\ FileOf(p) = f BY <1>2, ContentsTypes, PlaceInFile
<1>4. ~Shared(p) BY <1>3 DEF Shared
<1>5. new \in Seq(LoadTasks) /\ Len(new) = 1 /\ new[1] = <<"plugin", p>>
  <2>1. <<"plugin", p>> \in LoadTasks BY <1>3, LoadTaskTypes
  <2> HIDE DEF p
  <2> QED BY <2>1
<1>6. Then(new) OBVIOUS
<1>7. \A c \in Plugins : Number(new, Expected(c)) = IF <<"load", f>> \in Expected(c) THEN 1 ELSE 0
  BY NumberOne DEF Expected
<1>8. ~Found(p) BY DEF IsLibraryLoaded
<1>9. IsNext(p)
  <2>1. ASSUME NEW q \in ToSet(Contents[f]) PROVE q = p
    <3>1. DOMAIN Contents[f] = 1 .. 1 BY <1>2, ContentsTypes
    <3> QED BY <3>1 DEF ToSet
  <2>2. refs[p] = 0
    <3>1. p \in Modules /\ p \notin listed BY <1>1, <1>3, <1>8, ModuleTypes
    <3>2. refs[p] \in Nat /\ ~(refs[p] > 0) BY <1>1, <3>1 DEF Settled
    <3> QED BY <3>2
  <2> QED BY <1>3, <1>4, <2>1, <2>2 DEF IsNext
<1>10. 1 # Len(todo) => p = f
  <2>1. 1 # Len(todo) => Contents[f] = <<f>> BY <1>1 DEF Outermost
  <2> QED BY <2>1
<1> HIDE DEF new, p
<1>11. Splice(1, new) BY <1>1, <1>5, <1>6, SpliceThen
<1>12. \A i \in 1 .. Len(new) : i = 1 /\ new[i] = <<"plugin", p>> BY <1>5
<1>13. Descends'
  <2>1. \A j \in 1 + 1 .. Len(todo) : Inside(todo[1], todo[j]) BY <1>1 DEF Descends
  <2>2. ASSUME NEW j \in 1 + 1 .. Len(todo) PROVE Inside(new[1], todo[j])
    <3>1. p = f BY <1>1, <1>10, <2>2
    <3>2. todo[1] = <<"load", f>> /\ new[1] = <<"plugin", f>> BY <1>1, <1>5, <3>1
    <3> QED BY <2>1, <3>2 DEF Inside
  <2>3. \A i, j \in 1 .. Len(new) : ~(i < j) BY <1>5
  <2> QED BY <1>1, <1>11, <1>12, <2>2, <2>3, DescendsSplice
<1>14. Outermost'
  <2>1. ASSUME NEW i \in 1 .. Len(new)
        PROVE  i = 1 /\ new[i][1] = "plugin" /\ ~Shared(new[i][2])
    BY <1>4, <1>12
  <2> QED BY <1>1, <1>11, <2>1, OutermostSplice
<1>15. Aligned'
  <2>1. \E k \in 1 .. 1 : Op(k) # "ref" BY <1>1
  <2>2. \A j \in 1 .. Len(new) : new[j][1] = "plugin" BY <1>12
  <2> QED BY <1>1, <1>11, <2>1, <2>2, AlignedSplice
<1>16. Arrives'
  <2>1. ASSUME NEW j \in 1 + 1 .. Len(todo), Brings(todo[1], Arg(j))
        PROVE  \E k \in 1 .. Len(new) : Brings(new[k], Arg(j))
    <3>1. p = f BY <1>1, <1>10, <2>1
    <3>2. Arg(j) = f BY <1>1, <2>1 DEF Brings
    <3>3. Brings(new[1], Arg(j)) BY <1>5, <3>1, <3>2 DEF Brings
    <3> QED BY <1>5, <3>3
  <2>2. inited' = inited OBVIOUS
  <2>3. \A i \in 1 .. 1 : i = 1 OBVIOUS
  <2>4. \A j \in 1 .. Len(new) : new[j][1] # "ref" BY <1>12
  <2> QED BY <1>1, <1>11, <2>1, <2>2, <2>3, <2>4, ArrivesSplice
<1>17. ASSUME NEW i \in 1 .. Len(new)
       PROVE  new[i][1] # "init" /\ \A q \in Plugins : new[i] = <<"plugin", q>> => IsNext(q)
  <2>1. new[i] = <<"plugin", p>> BY <1>12
  <2>2. new[i][1] = "plugin" /\ new[i][2] = p BY <2>1
  <2>3. \A q \in Plugins : new[i] = <<"plugin", q>> => q = p BY <2>2
  <2> QED BY <1>9, <2>2, <2>3
<1> QED BY <1>5, <1>6, <1>7, <1>13, <1>14, <1>15, <1>16, <1>17, SameModulesKept

\* A sequence of one element.
LEMMA OneLong ==
  ASSUME NEW V, NEW s \in Seq(V), Len(s) = 1 PROVE s = <<s[1]>>
OBVIOUS

\* A sequence of two elements.
LEMMA TwoLong ==
  ASSUME NEW V, NEW s \in Seq(V), Len(s) = 2 PROVE s = <<s[1], s[2]>>
OBVIOUS

\* A call whose last task is the only one.
LEMMA AloneKept ==
  ASSUME NEW t, todo' = <<t>>, t[1] \in {"load", "plugin", "fail"}
  PROVE  Descends' /\ Outermost' /\ Aligned' /\ Arrives'
<1>1. Len(todo') = 1 /\ DOMAIN todo' = {1} /\ todo'[1] = t OBVIOUS
<1>2. Descends' BY <1>1 DEF Descends
<1>3. Outermost' BY <1>1 DEF Outermost, Op
<1>4. Aligned' BY <1>1 DEF Aligned, Op
<1>5. Arrives' BY <1>1 DEF Arrives, Op
<1> QED BY <1>2, <1>3, <1>4, <1>5

\* loadModule, for a file of several plugins: the parent is counted first.
LEMMA SharedFileKeeps ==
  ASSUME PluginInv, NEW f \in Files, Doing("load", f), ~IsLibraryLoaded(f), Multi(f),
         Then(<<<<"plugin", Contents[f][1]>>>>),
         ListAppend(Parent(f), [refs EXCEPT ![Parent(f)] = 1]), UNCHANGED <<inits, inited>>
  PROVE  PluginInv'
<1> DEFINE p == Contents[f][1]
           new == <<<<"plugin", p>>>>
           u == Parent(f)
<1>1. /\ Settled /\ Counts /\ Ledger /\ (\A m : Found(m) <=> m \in listed) /\ todo \in Seq(LoadTasks)
      /\ Outermost
      /\ 1 \in DOMAIN todo /\ DOMAIN todo = 1 .. Len(todo) /\ Len(todo) \in Nat
      /\ todo[1] = <<"load", f>> /\ Op(1) = "load" /\ Arg(1) = f
  BY LoadDoing
<1>2. 1 \in 1 .. Len(Contents[f]) BY ContentsTypes
<1>3. p \in Plugins /\ FileOf(p) = f BY <1>2, ContentsTypes, PlaceInFile
<1>4. Shared(p) BY <1>3 DEF Shared
<1>5. new \in Seq(LoadTasks) /\ Len(new) = 1 /\ new[1] = <<"plugin", p>>
  <2>1. <<"plugin", p>> \in LoadTasks BY <1>3, LoadTaskTypes
  <2> HIDE DEF p
  <2> QED BY <2>1
<1>6. Then(new) OBVIOUS
<1>7. \A c \in Plugins : Number(new, Expected(c)) = 0 /\ <<"load", f>> \notin Expected(c)
  BY NumberOne DEF Expected
<1>8. u \in Modules /\ u \notin Plugins /\ u \notin listed
  <2>1. ~Found(u) BY DEF IsLibraryLoaded
  <2> QED BY <1>1, <2>1, ModuleTypes, Parents
<1>9. refs[u] = 0 /\ refs \in [Modules -> Nat]
  <2>1. refs[u] \in Nat /\ ~(refs[u] > 0) BY <1>1, <1>8 DEF Settled
  <2> QED BY <1>1, <2>1 DEF Settled
<1>10. Counting(f) = {} BY <1>1, <1>9 DEF Counts
<1>11. /\ ListOK' /\ listed' = listed \union {u} /\ refs' = [refs EXCEPT ![u] = 1]
       /\ list' # << >> /\ tail' = Last(list')
  <2> DEFINE counts == [refs EXCEPT ![u] = 1]
  <2>1. ListOK /\ u \in Modules \ listed /\ ListAppend(u, counts) BY <1>1, <1>8 DEF Settled
  <2> HIDE DEF counts, u
  <2>2. ListOK' /\ listed' = listed \union {u} /\ refs' = counts /\ list' # << >> /\ tail' = Last(list')
    BY <2>1, AppendKeeps
  <2> QED BY <2>2 DEF counts
<1> HIDE DEF new, p, u
<1>12. refs' \in [Modules -> Nat] /\ refs'[u] = 1 /\ \A m \in Modules : m # u => refs'[m] = refs[m]
  BY <1>8, <1>9, <1>11
<1>13. Splice(1, new) BY <1>1, <1>5, <1>6, SpliceThen
<1>14. \A q \in Plugins : refs'[q] = refs[q] BY <1>8, <1>12, ModuleTypes
<1>15. Settled'
  <2>1. \A m \in Modules : refs'[m] > 0 <=> m \in listed' BY <1>1, <1>11, <1>12 DEF Settled
  <2>2. \A q \in Plugins : refs'[q] > 0 <=> q \in inited' BY <1>1, <1>14 DEF Settled
  <2> QED BY <1>1, <1>11, <1>12, <2>1, <2>2 DEF Settled
<1>16. \A g \in Files : Counting(g)' = Counting(g)
  <2>1. \A g \in Files : \A q \in ToSet(Contents[g]) : refs'[q] = refs[q] BY <1>14, ContentsTypes
  <2> QED BY <2>1 DEF Counting
<1>17. Counts'
  <2>1. \A q \in inited' : refs'[q] > 0 BY <1>15 DEF Settled
  <2>2. ASSUME NEW g \in Files, Multi(g)
        PROVE  /\ refs'[Parent(g)] > 0 => refs'[Parent(g)] = 1 + Cardinality(Counting(g)')
               /\ refs'[Parent(g)] = 0 => Counting(g)' = {}
               /\ \A q \in Counting(g)' : refs'[q] = 1
    <3>1. CASE g = f
      <4>1. refs'[Parent(g)] = 1 /\ Counting(g)' = {} BY <1>10, <1>12, <1>16, <3>1 DEF u
      <4> QED BY <4>1, FS_EmptySet
    <3>2. CASE g # f
      <4>1. Parent(g) # u BY <3>2, Parents DEF u
      <4>2. refs'[Parent(g)] = refs[Parent(g)] BY <1>12, <2>2, <4>1, ModuleTypes
      <4>3. \A q \in Counting(g) : refs'[q] = refs[q] BY <1>14, ContentsTypes DEF Counting
      <4> QED BY <1>1, <1>16, <2>2, <4>2, <4>3 DEF Counts
    <3> QED BY <3>1, <3>2
  <2> QED BY <2>1, <2>2 DEF Counts
<1>18. todo' \in Seq(LoadTasks) BY <1>13, SpliceProperties
<1>19. Counted' = Counted
  <2>1. \A t : t # <<"load", f>> => (Contains(todo', t) <=> Contains(todo, t) \/ Contains(new, t))
    BY <1>1, <1>5, <1>6, ThenPending
  <2>2. \A q : ~Contains(new, <<"init", q>>) BY NothingContained DEF new
  <2>3. \A q : Pending("init", q)' <=> Pending("init", q) BY <2>1, <2>2 DEF Pending
  <2> QED BY <1>14, <2>3, CountedSame
<1>20. Ledger'
  <2>1. ASSUME NEW d \in Plugins
        PROVE  Cardinality(Claims(d, Counted')) + (IF refs'[d] > 0 THEN 1 ELSE 0)
                 <= refs'[d] + Number(todo', Expected(d))
    <3>1. Number(todo', Expected(d)) + (IF <<"load", f>> \in Expected(d) THEN 1 ELSE 0)
            = Number(todo, Expected(d)) + Number(new, Expected(d))
          /\ Number(todo, Expected(d)) \in Nat /\ Number(todo', Expected(d)) \in Nat
      BY <1>1, <1>5, <1>6, ThenNumber
    <3>2. Number(todo', Expected(d)) = Number(todo, Expected(d)) BY <1>7, <3>1
    <3>3. Cardinality(Claims(d, Counted)) + (IF refs[d] > 0 THEN 1 ELSE 0)
            <= refs[d] + Number(todo, Expected(d))
      BY <1>1, <1>9, LedgerOfLoad
    <3> QED BY <1>14, <1>19, <3>2, <3>3
  <2> QED BY <1>12, <1>18, <2>1, LedgerOfLoadNext
<1>21. Len(todo) = 1
  <2>1. 1 = Len(todo) \/ Contents[f] = <<f>> BY <1>1 DEF Outermost
  <2>2. Contents[f] # <<f>> BY DEF Multi
  <2> QED BY <2>1, <2>2
<1>22. todo' = <<<<"plugin", p>>>>
  <2>1. Len(todo') = Len(new) + (Len(todo) - 1) /\ \A i \in 1 .. Len(new) : todo'[i] = new[i]
    BY ONLY <1>13, SpliceProperties
  <2>2. Len(todo') = 1 /\ todo'[1] = <<"plugin", p>> BY <1>5, <1>21, <2>1
  <2>3. todo' = <<todo'[1]>> BY <1>18, <2>2, OneLong
  <2> QED BY <2>2, <2>3
<1>23. Descends' /\ Outermost' /\ Aligned' /\ Arrives'
  <2>1. <<"plugin", p>>[1] \in {"load", "plugin", "fail"} OBVIOUS
  <2> QED BY <1>22, <2>1, AloneKept
<1>24. InOrder'
  <2>1. \A q \in ToSet(Contents[f]) : refs'[q] = 0
    <3>1. ASSUME NEW q \in ToSet(Contents[f]) PROVE refs'[q] = 0
      <4>1. q \in Plugins /\ q \in Modules BY ContentsTypes, ModuleTypes
      <4>2. ~(refs[q] > 0) BY <1>10 DEF Counting
      <4> QED BY <1>9, <1>14, <4>1, <4>2
    <3> QED BY <3>1
  <2>2. refs'[Parent(f)] > 0 BY <1>12 DEF u
  <2>3. IsNext(p)' BY <1>3, <2>1, <2>2 DEF IsNext
  <2>4. DOMAIN todo' = {1} /\ todo'[1] = <<"plugin", p>> BY <1>22
  <2> QED BY <2>3, <2>4 DEF InOrder, Op, Arg
<1>25. \A q \in Plugins : refs'[q] > 0 => q \in inited' BY <1>15 DEF Settled
<1> QED BY <1>15, <1>17, <1>18, <1>20, <1>23, <1>24, <1>25, LoadingKept DEF Loading

\* Plugins at different places of a file differ.
LEMMA Injects ==
  ASSUME NEW S, NEW T, IsFiniteSet(T), NEW F \in [S -> T], \A a, b \in S : F[a] = F[b] => a = b
  PROVE  IsFiniteSet(S) /\ Cardinality(S) <= Cardinality(T)
<1>1. F \in Injection(S, T) BY DEF Injection, IsInjective
<1> QED BY <1>1, FS_Injection

\* A plugin is initialized once by one load.
LEMMA InitOnce ==
  ASSUME todo \in Seq(LoadTasks), Descends,
         NEW i \in DOMAIN todo, NEW j \in DOMAIN todo, todo[i][1] = "init", todo[j][1] = "init",
         todo[i][2] = todo[j][2]
  PROVE  i = j
<1>1. DOMAIN todo = 1 .. Len(todo) /\ Len(todo) \in Nat BY LenProperties
<1>2. todo[i] \in LoadTasks BY <1>1
<1>3. todo[i][2] \in Plugins BY <1>2 DEF LoadTasks
<1>4. ~(Rank[todo[i][2]] < Rank[todo[i][2]]) BY <1>3, RankProperties
<1>5. ~(i < j) /\ ~(j < i) BY <1>4 DEF Descends, Inside
<1> QED BY <1>1, <1>5

\* What is pending for a plugin is claimed by plugins that are loaded further out.
LEMMA SupplyClaims ==
  ASSUME todo \in Seq(LoadTasks), Descends, NEW d \in Plugins, NEW J \in SUBSET DOMAIN todo,
         NEW w \in [Plugins -> Nat], \A j \in J : todo[j][2] = d /\ InPlace(todo, j),
         \A j \in J : \A l \in j + 1 .. Len(todo) : todo[l][1] = "init" => w[todo[l][2]] >= 1
  PROVE  Cardinality(J) <= Cardinality(Claims(d, w))
<1> DEFINE P(j, l) == /\ l \in j + 1 .. Len(todo) /\ todo[l][1] = "init"
                      /\ Len(Depends[todo[l][2]]) + 1 - (l - j) \in Uses(todo[l][2], d)
           L == [j \in J |-> CHOOSE l : P(j, l)]
           q(j) == todo[L[j]][2]
           e(j) == Len(Depends[q(j)]) + 1 - (L[j] - j)
           F == [j \in J |-> <<<<q(j), e(j)>>, 1>>]
<1>1. DOMAIN todo = 1 .. Len(todo) /\ Len(todo) \in Nat BY LenProperties
<1>2. ASSUME NEW j \in J PROVE P(j, L[j])
  <2>1. \E l : P(j, l) BY DEF InPlace
  <2> QED BY <2>1
<1>3. ASSUME NEW j \in J
      PROVE  /\ L[j] \in DOMAIN todo /\ L[j] \in Nat /\ j \in Nat /\ todo[L[j]][1] = "init"
             /\ q(j) \in Plugins /\ e(j) \in Uses(q(j), d) /\ w[q(j)] >= 1
             /\ Len(Depends[q(j)]) \in Nat
  <2>1. L[j] \in j + 1 .. Len(todo) /\ todo[L[j]][1] = "init" /\ e(j) \in Uses(q(j), d) BY <1>2
  <2> HIDE DEF P, L
  <2>2. L[j] \in DOMAIN todo /\ L[j] \in Nat /\ j \in Nat BY <1>1, <2>1
  <2>3. todo[L[j]] \in LoadTasks BY <1>1, <2>2
  <2>4. q(j) \in Plugins BY <2>1, <2>3 DEF LoadTasks
  <2>5. w[q(j)] >= 1 BY <2>1
  <2> QED BY <2>1, <2>2, <2>4, <2>5, DependsTypes
<1> HIDE DEF P, L
<1>4. F \in [J -> Claims(d, w)]
  <2>1. ASSUME NEW j \in J PROVE <<<<q(j), e(j)>>, 1>> \in Claims(d, w)
    <3>1. w[q(j)] \in Nat /\ w[q(j)] >= 1 BY <1>3
    <3>2. 1 \in 1 .. w[q(j)] BY <3>1
    <3> QED BY <1>3, <3>2, ClaimsMember
  <2> HIDE DEF q, e
  <2> QED BY <2>1
<1>5. ASSUME NEW a \in J, NEW b \in J, F[a] = F[b] PROVE a = b
  <2>1. q(a) = q(b) /\ e(a) = e(b) BY <1>5
  <2>2. L[a] = L[b] BY <1>3, <2>1, InitOnce
  <2>3. Len(Depends[q(a)]) = Len(Depends[q(b)]) BY <2>1
  <2> DEFINE n == Len(Depends[q(a)])
             x == L[a]
  <2>4. n + 1 - (x - a) = n + 1 - (x - b) BY <2>1, <2>2, <2>3
  <2>5. n \in Nat /\ x \in Nat /\ a \in Nat /\ b \in Nat BY <1>3
  <2> HIDE DEF n, x
  <2> QED BY <2>4, <2>5
<1>6. IsFiniteSet(Claims(d, w)) BY ClaimsFinite
<1> HIDE DEF F
<1> QED BY <1>4, <1>5, <1>6, Injects

\* When a plugin is about to be initialized, what it depends on is.
LEMMA DependenciesThere ==
  ASSUME PluginInv, NEW p \in Plugins, Doing("init", p), NEW d \in Plugins, Contains(Depends[p], d)
  PROVE  d \in inited
<1>1. /\ Settled /\ Ledger /\ todo \in Seq(LoadTasks)
      /\ Descends /\ Aligned /\ InOrder
      /\ 1 \in DOMAIN todo /\ DOMAIN todo = 1 .. Len(todo) /\ Len(todo) \in Nat
      /\ todo[1] = <<"init", p>> /\ Op(1) = "init" /\ Arg(1) = p
  BY LoadDoing
<1> DEFINE J == {j \in DOMAIN todo : todo[j] \in Expected(d)}
           w == [Counted EXCEPT ![p] = 0]
<1>2. refs \in [Modules -> Nat] BY <1>1 DEF Settled
<1>3. ASSUME NEW l \in DOMAIN todo, todo[l][1] = "init"
      PROVE  todo[l][2] \in Plugins /\ Counted[todo[l][2]] = 1
  <2> DEFINE q == todo[l][2]
  <2>1. todo[l] \in LoadTasks BY <1>1
  <2>2. q \in Plugins /\ todo[l] = <<"init", q>> BY <1>3, <2>1 DEF LoadTasks
  <2>3. IsNext(q) BY <1>1, <1>3 DEF InOrder, Op, Arg
  <2> HIDE DEF q
  <2>4. refs[q] = 0
    <3>1. Place(q) \in Nat /\ q \in ToSet(Contents[FileOf(q)]) BY <2>2, Placed, Filed, ContentsTypes
    <3> QED BY <2>3, <3>1 DEF IsNext
  <2>5. q \notin inited BY <1>1, <2>2, <2>4 DEF Settled
  <2>6. Pending("init", q) BY <2>2 DEF Pending, Contains
  <2>7. Counted[q] = 1 BY <1>2, <2>2, <2>5, <2>6, CountedType
  <2> QED BY <2>2, <2>7 DEF q
<1>4. Counted \in [Plugins -> Nat] /\ Counted[p] = 1 BY <1>1, <1>2, <1>3, CountedType
<1>5. w \in [Plugins -> Nat] /\ w[p] = 0 /\ \A q \in Plugins : q # p => w[q] = Counted[q] BY <1>4
<1>6. Cardinality(Claims(d, Counted)) = Cardinality(Claims(d, w)) + Cardinality(Uses(p, d))
  <2>1. Counted[p] = w[p] + 1 /\ \A q \in Plugins : q # p => Counted[q] = w[q] BY <1>4, <1>5
  <2> HIDE DEF w
  <2> QED BY <1>4, <1>5, <2>1, ClaimsAdd
<1> HIDE DEF w
<1>7. Cardinality(J) <= Cardinality(Claims(d, w))
  <2>1. ASSUME NEW j \in J PROVE j \in 2 .. Len(todo) /\ todo[j][2] = d /\ InPlace(todo, j)
    <3>1. todo[j][2] = d /\ todo[j][1] \in {"depend", "ref"} /\ j \in DOMAIN todo BY <2>1 DEF Expected
    <3>2. j # 1 BY <1>1, <3>1
    <3>3. 1 \in 1 .. j BY <1>1, <3>1
    <3>4. InPlace(todo, j) BY <1>1, <3>1, <3>3 DEF Aligned, Op
    <3> QED BY <1>1, <3>1, <3>2, <3>4
  <2>2. ASSUME NEW j \in J, NEW l \in j + 1 .. Len(todo), todo[l][1] = "init"
        PROVE  w[todo[l][2]] >= 1
    <3>1. l \in DOMAIN todo /\ l # 1 BY <1>1, <2>1, <2>2
    <3>2. todo[l][2] # p
      <4>1. todo[1][1] = "init" /\ todo[1][2] = p BY <1>1
      <4> QED BY <1>1, <2>2, <3>1, <4>1, InitOnce
    <3> QED BY <1>3, <1>5, <2>2, <3>1, <3>2
  <2>3. J \in SUBSET DOMAIN todo OBVIOUS
  <2> HIDE DEF J
  <2> QED BY <1>1, <1>5, <2>1, <2>2, <2>3, SupplyClaims
<1>8. Number(todo, Expected(d)) = Cardinality(J) BY DEF Number
<1>9. Cardinality(Uses(p, d)) >= 1
  <2>1. Uses(p, d) # {} /\ IsFiniteSet(Uses(p, d)) /\ Cardinality(Uses(p, d)) \in Nat BY UsesProperties
  <2>2. Cardinality(Uses(p, d)) # 0 BY <2>1, FS_EmptySet
  <2> QED BY <2>1, <2>2
<1>10. Cardinality(Claims(d, Counted)) + (IF refs[d] > 0 THEN 1 ELSE 0)
         <= refs[d] + Number(todo, Expected(d))
  BY <1>1, <1>2, LedgerOfLoad
<1>11. /\ Cardinality(Claims(d, w)) \in Nat /\ Cardinality(J) \in Nat /\ refs[d] \in Nat
       /\ Cardinality(Uses(p, d)) \in Nat
  <2>1. Cardinality(J) \in Nat BY <1>1, <1>8, NumberType
  <2> QED BY <1>2, <1>5, <2>1, ClaimsFinite, UsesProperties, ModuleTypes
<1> HIDE DEF J
<1>12. refs[d] > 0 BY <1>6, <1>7, <1>8, <1>9, <1>10, <1>11
<1> QED BY <1>1, <1>12 DEF Settled

\* A plugin that others depend on is alone in its file.
LEMMA AloneInFile ==
  ASSUME NEW p \in Plugins, ~Shared(p), NEW q \in Plugins, FileOf(q) = FileOf(p)
  PROVE  q = p
<1>1. Len(Contents[FileOf(p)]) = 1
  <2> DEFINE n == Len(Contents[FileOf(p)])
  <2>1. n \in Nat /\ n # 0 BY Filed, ContentsTypes
  <2>2. ~(n > 1) BY DEF Shared, Multi
  <2> HIDE DEF n
  <2>3. n = 1 BY <2>1, <2>2
  <2> QED BY <2>3 DEF n
<1>2. Place(p) = 1 /\ Place(q) = 1 BY <1>1, Placed
<1> QED BY <1>2, Placed

\* The modules once a plugin is initialized.
LEMMA InitCounts ==
  ASSUME Settled, Counts, NEW p \in Plugins, IsNext(p), InitPlugin(p)
  PROVE  /\ Settled' /\ Counts' /\ refs[p] = 0 /\ refs'[p] = 1 /\ p \notin inited
         /\ (\A q \in Plugins : q # p => refs'[q] = refs[q])
         /\ \A f \in Files : Multi(f) /\ refs[Parent(f)] > 0 => refs'[Parent(f)] > 0
<1> DEFINE counts == [m \in Modules |-> IF m = p THEN 1
                         ELSE IF m \in ParentsOf(p) THEN refs[m] + 1 ELSE refs[m]]
           f == FileOf(p)
           u == Parent(f)
<1>1. refs \in [Modules -> Nat] /\ p \in Modules BY ModuleTypes DEF Settled
<1>2. refs[p] = 0
  <2>1. Place(p) \in Nat /\ p \in ToSet(Contents[FileOf(p)]) BY Placed, Filed, ContentsTypes
  <2>2. Place(p) >= Place(p) BY <2>1
  <2> QED BY <2>1, <2>2 DEF IsNext
<1>3. p \notin inited /\ p \notin listed
  <2>1. ~(refs[p] > 0) BY <1>2
  <2> QED BY <1>1, <2>1 DEF Settled
<1>4. ListAppend(p, counts) /\ UNCHANGED inits /\ inited' = inited \union {p} BY DEF InitPlugin
<1>5. /\ counts \in [Modules -> Nat] /\ counts[p] = 1
      /\ \A m \in Modules : m # p => counts[m] = IF m \in ParentsOf(p) THEN refs[m] + 1 ELSE refs[m]
  BY <1>1
<1> HIDE DEF counts
<1>6. ListOK' /\ listed' = listed \union {p} /\ refs' = counts /\ list' # << >> /\ tail' = Last(list')
  BY <1>1, <1>3, <1>4, AppendKeeps DEF Settled
<1>7. f \in Files /\ p \in ToSet(Contents[f]) BY Filed
<1>8. ParentsOf(p) = IF Multi(f) THEN {u} ELSE {} BY Parents DEF Shared
<1>9. /\ refs' \in [Modules -> Nat] /\ refs'[p] = 1
      /\ \A m \in Modules : m # p => refs'[m] = IF Multi(f) /\ m = u THEN refs[m] + 1 ELSE refs[m]
  BY <1>5, <1>6, <1>8
<1>10. u \notin Plugins /\ (Multi(f) => u \in Modules /\ refs[u] > 0)
  BY <1>7, Parents, ModuleTypes DEF IsNext, Shared
<1> HIDE DEF f, u
<1>11. \A m \in Modules : m # p => (refs'[m] > 0 <=> refs[m] > 0)
  BY <1>1, <1>9, <1>10
<1>12. \A q \in Plugins : q # p => refs'[q] = refs[q] BY <1>9, <1>10, ModuleTypes
<1>13. Settled'
  <2>1. \A m \in Modules : refs'[m] > 0 <=> m \in listed' BY <1>6, <1>9, <1>11 DEF Settled
  <2>2. \A q \in Plugins : refs'[q] > 0 <=> q \in inited'
    BY <1>4, <1>9, <1>11, ModuleTypes DEF Settled
  <2> QED BY <1>4, <1>6, <1>9, <2>1, <2>2 DEF Settled
<1>14. \A g \in Files : g # f => \A q \in ToSet(Contents[g]) : q # p /\ q \in Plugins /\ refs'[q] = refs[q]
  <2>1. \A g \in Files : g # f => \A q \in ToSet(Contents[g]) : q # p BY Filed DEF f
  <2>2. \A g \in Files : \A q \in ToSet(Contents[g]) : q \in Plugins BY ContentsTypes
  <2> QED BY <1>12, <2>1, <2>2
<1>15. ASSUME NEW g \in Files, Multi(g)
       PROVE  /\ refs'[Parent(g)] > 0 => refs'[Parent(g)] = 1 + Cardinality(Counting(g)')
              /\ refs'[Parent(g)] = 0 => Counting(g)' = {}
              /\ \A q \in Counting(g)' : refs'[q] = 1
  <2>1. Parent(g) \in Modules /\ Parent(g) # p BY <1>15, ModuleTypes, Parents
  <2>2. CASE g = f
    <3>1. refs'[u] = refs[u] + 1 /\ refs[u] > 0 /\ refs[u] \in Nat
      BY <1>1, <1>9, <1>10, <1>15, <2>1, <2>2 DEF u
    <3>2. refs[u] = 1 + Cardinality(Counting(f)) /\ \A q \in Counting(f) : refs[q] = 1
      BY <1>7, <1>15, <2>2, <3>1 DEF Counts, u
    <3>3. IsFiniteSet(Counting(f)) /\ p \notin Counting(f)
      <4>1. IsFiniteSet(ToSet(Contents[f])) BY <1>7, ContentsTypes
      <4>2. Counting(f) \in SUBSET ToSet(Contents[f]) BY DEF Counting
      <4> QED BY <1>2, <4>1, <4>2, FS_Subset DEF Counting
    <3>4. Counting(f)' = Counting(f) \union {p}
      <4>1. Counting(f)' = {q \in ToSet(Contents[f]) : refs'[q] > 0} BY DEF Counting
      <4>2. \A q \in ToSet(Contents[f]) : q \in Plugins BY <1>7, ContentsTypes
      <4>3. \A q \in ToSet(Contents[f]) : q # p => refs'[q] = refs[q] BY <1>12, <4>2
      <4> QED BY <1>7, <1>9, <4>1, <4>3 DEF Counting
    <3>5. Cardinality(Counting(f)') = Cardinality(Counting(f)) + 1 /\ Cardinality(Counting(f)) \in Nat
      BY <3>3, <3>4, FS_AddElement, FS_CardinalityType
    <3>6. \A q \in Counting(f) : refs'[q] = refs[q]
      BY <1>7, <1>12, <3>3, ContentsTypes DEF Counting
    <3>7. \A q \in Counting(f)' : refs'[q] = 1 BY <1>9, <3>2, <3>4, <3>6
    <3> QED BY <2>2, <3>1, <3>2, <3>5, <3>7 DEF u
  <2>3. CASE g # f
    <3>1. Parent(g) # u BY <1>7, <2>3, Parents DEF u
    <3>2. refs'[Parent(g)] = refs[Parent(g)] BY <1>9, <2>1, <3>1
    <3>3. Counting(g)' = Counting(g) BY <1>14, <2>3 DEF Counting
    <3>4. \A q \in Counting(g) : refs'[q] = refs[q] BY <1>14, <2>3 DEF Counting
    <3> QED BY <1>15, <3>2, <3>3, <3>4 DEF Counts
  <2> QED BY <2>2, <2>3
<1>16. Counts'
  <2>1. \A q \in inited' : refs'[q] > 0 BY <1>13 DEF Settled
  <2> QED BY <1>15, <2>1 DEF Counts
<1>17. ASSUME NEW g \in Files, Multi(g), refs[Parent(g)] > 0 PROVE refs'[Parent(g)] > 0
  <2>1. Parent(g) \in Modules BY <1>17, ModuleTypes
  <2> QED BY <1>9, <1>11, <1>17, <2>1
<1> QED BY <1>2, <1>3, <1>9, <1>12, <1>13, <1>16, <1>17

\* loadModule, after a plugin's initializer: it is listed, and counted in its parent.
LEMMA InitPluginKeeps ==
  ASSUME PluginInv, DependsInited, NEW p \in Plugins, InitPlugin(p)
  PROVE  PluginInv' /\ DependsInited'
<1> DEFINE new == Tasks("plugin", After(p))
           f == FileOf(p)
<1>1. /\ Settled /\ Counts /\ Ledger /\ todo \in Seq(LoadTasks)
      /\ Descends /\ Outermost /\ Aligned /\ Arrives /\ InOrder
      /\ 1 \in DOMAIN todo /\ DOMAIN todo = 1 .. Len(todo) /\ Len(todo) \in Nat
      /\ todo[1] = <<"init", p>> /\ Op(1) = "init" /\ Arg(1) = p
  BY LoadDoing DEF InitPlugin
<1>2. Doing("init", p) /\ Then(new) /\ inited' = inited \union {p} BY DEF InitPlugin
<1>3. IsNext(p) BY <1>1 DEF InOrder
<1>4. /\ Settled' /\ Counts' /\ refs[p] = 0 /\ refs'[p] = 1 /\ p \notin inited
      /\ (\A q \in Plugins : q # p => refs'[q] = refs[q])
      /\ \A g \in Files : Multi(g) /\ refs[Parent(g)] > 0 => refs'[Parent(g)] > 0
  BY <1>1, <1>3, InitCounts
<1>5. DependsInited'
  <2>1. \A d \in Plugins : Contains(Depends[p], d) => d \in inited BY <1>2, DependenciesThere
  <2> QED BY <1>2, <2>1 DEF DependsInited
<1>6. \/ new = << >>
      \/ /\ Shared(p) /\ Place(p) + 1 \in 1 .. Len(Contents[f])
         /\ new = <<<<"plugin", Contents[f][Place(p) + 1]>>>>
  <2> DEFINE q == Contents[f][Place(p) + 1]
  <2> HIDE DEF q
  <2>1. Tasks("plugin", << >>) = << >> BY DEF Tasks
  <2>2. Tasks("plugin", <<q>>) = <<<<"plugin", q>>>> BY DEF Tasks
  <2> QED BY <2>1, <2>2, AfterProperties DEF q
<1>7. /\ new \in Seq(LoadTasks) /\ Len(new) \in {0, 1}
      /\ \A i \in 1 .. Len(new) : new[i][1] = "plugin"
  <2> DEFINE q == Contents[f][Place(p) + 1]
  <2>1. CASE new = << >>
    <3>1. << >> \in Seq(LoadTasks) /\ Len(<< >>) = 0 BY LoadTaskTypes
    <3> HIDE DEF new
    <3> QED BY <2>1, <3>1
  <2>2. CASE new # << >>
    <3>1. Place(p) + 1 \in 1 .. Len(Contents[f]) /\ new = <<<<"plugin", q>>>> BY <1>6, <2>2
    <3>2. q \in Plugins BY <3>1, Filed, ContentsTypes
    <3>3. <<"plugin", q>> \in LoadTasks BY <3>2, LoadTaskTypes
    <3> HIDE DEF new, q
    <3> QED BY <3>1, <3>3
  <2> QED BY <2>1, <2>2
<1> HIDE DEF new
<1>8. Splice(1, new) BY <1>1, <1>2, <1>7, SpliceThen
<1>9. todo' \in Seq(LoadTasks) BY <1>8, SpliceProperties
<1>10. refs \in [Modules -> Nat] /\ refs' \in [Modules -> Nat] BY <1>1, <1>4 DEF Settled
<1>11. Counted' = Counted
  <2>1. \A t : t # <<"init", p>> => (Contains(todo', t) <=> Contains(todo, t) \/ Contains(new, t))
    BY <1>1, <1>2, <1>7, ThenPending
  <2>2. DOMAIN new = 1 .. Len(new) BY <1>7, LenProperties
  <2>3. \A q : ~Contains(new, <<"init", q>>) BY <1>7, <2>2 DEF Contains
  <2>4. \A q : q # p => (Pending("init", q)' <=> Pending("init", q)) BY <2>1, <2>3 DEF Pending
  <2>5. Pending("init", p) BY <1>1 DEF Pending, Contains
  <2>6. ASSUME NEW q \in Plugins
        PROVE  (IF q \in inited' THEN refs'[q] ELSE IF Pending("init", q)' THEN 1 ELSE 0)
               = (IF q \in inited THEN refs[q] ELSE IF Pending("init", q) THEN 1 ELSE 0)
    <3>1. CASE q = p BY <1>2, <1>4, <2>5, <3>1
    <3>2. CASE q # p BY <1>2, <1>4, <2>4, <3>2
    <3> QED BY <3>1, <3>2
  <2>7. Counted' = [q \in Plugins |-> IF q \in inited' THEN refs'[q] ELSE IF Pending("init", q)' THEN 1 ELSE 0]
    BY DEF Counted
  <2>8. Counted = [q \in Plugins |-> IF q \in inited THEN refs[q] ELSE IF Pending("init", q) THEN 1 ELSE 0]
    BY DEF Counted
  <2> QED BY <2>6, <2>7, <2>8
<1>12. Ledger'
  <2>1. ASSUME NEW d \in Plugins
        PROVE  Cardinality(Claims(d, Counted')) + (IF refs'[d] > 0 THEN 1 ELSE 0)
                 <= refs'[d] + Number(todo', Expected(d))
    <3>1. Number(todo', Expected(d)) + (IF <<"init", p>> \in Expected(d) THEN 1 ELSE 0)
            = Number(todo, Expected(d)) + Number(new, Expected(d))
          /\ Number(todo, Expected(d)) \in Nat /\ Number(todo', Expected(d)) \in Nat
      BY <1>1, <1>2, <1>7, ThenNumber
    <3>2. <<"init", p>> \notin Expected(d) /\ \A x : <<"plugin", x>> \notin Expected(d) BY DEF Expected
    <3>3. Number(new, Expected(d)) = 0 BY <1>6, <3>2, NothingContained, NumberOne
    <3>4. Cardinality(Claims(d, Counted)) + (IF refs[d] > 0 THEN 1 ELSE 0)
            <= refs[d] + Number(todo, Expected(d)) /\ Cardinality(Claims(d, Counted)) \in Nat
      BY <1>1, <1>10, LedgerOfLoad
    <3>5. refs[d] \in Nat BY <1>10, ModuleTypes
    <3>6. CASE d = p BY <1>4, <1>11, <3>1, <3>2, <3>3, <3>4, <3>6
    <3>7. CASE d # p BY <1>4, <1>11, <3>1, <3>2, <3>3, <3>4, <3>5, <3>7
    <3> QED BY <3>6, <3>7
  <2> QED BY <1>9, <1>10, <2>1, LedgerOfLoadNext
<1>13. Descends' /\ Outermost' /\ Aligned' /\ Arrives' /\ InOrder'
  <2>1. CASE new = << >>
    <3>1. 1 .. Len(new) = {}
      <4>1. Len(<< >>) = 0 OBVIOUS
      <4> QED BY <2>1, <4>1
    <3>2. Descends' BY <1>1, <1>8, <3>1, DescendsSplice
    <3>3. Outermost' BY <1>1, <1>8, <3>1, OutermostSplice
    <3>4. Aligned'
      <4>1. \E k \in 1 .. 1 : Op(k) # "ref" BY <1>1
      <4> QED BY <1>1, <1>8, <3>1, <4>1, AlignedSplice
    <3>5. Arrives'
      <4>1. ASSUME NEW c, Brings(todo[1], c) PROVE c \in inited' BY <1>1, <1>2, <4>1 DEF Brings
      <4>2. inited \subseteq inited' BY <1>2
      <4>3. \A i \in 1 .. 1 : i = 1 OBVIOUS
      <4> QED BY <1>1, <1>8, <3>1, <4>1, <4>2, <4>3, ArrivesSplice
    <3>6. InOrder'
      <4>1. ASSUME NEW q \in Plugins, NEW i \in 1 + 1 .. Len(todo),
                   todo[i] \in {<<"plugin", q>>, <<"init", q>>}
            PROVE  IsNext(q)'
        <5>1. i \in DOMAIN todo /\ 1 < i /\ i # 1 /\ 1 # Len(todo) BY <1>1, <4>1
        <5>2. Op(i) = "init" /\ Arg(i) = q BY <1>1, <4>1, <5>1 DEF Outermost, Op, Arg
        <5>3. ~Shared(p) BY <1>1, <5>1 DEF Outermost
        <5>4. q # p
          <6>1. Inside(todo[1], todo[i]) BY <1>1, <5>1 DEF Descends
          <6>2. Rank[p] < Rank[q] BY <1>1, <5>2, <6>1 DEF Inside, Op, Arg
          <6> QED BY <6>2, RankProperties
        <5>5. FileOf(q) # FileOf(p) BY <5>3, <5>4, AloneInFile
        <5>6. p \notin ToSet(Contents[FileOf(q)]) BY <5>5, Filed
        <5>7. IsNext(q) BY <1>1, <5>1, <5>2 DEF InOrder
        <5>8. ASSUME NEW r \in ToSet(Contents[FileOf(q)]), Place(r) >= Place(q) PROVE refs'[r] = 0
          <6>1. refs[r] = 0 BY <5>7, <5>8 DEF IsNext
          <6>2. r \in Plugins /\ r # p BY <5>6, Filed, ContentsTypes
          <6> QED BY <1>4, <6>1, <6>2
        <5>9. Shared(q) => refs'[Parent(FileOf(q))] > 0 BY <1>4, <5>7, Filed DEF IsNext, Shared
        <5> QED BY <5>8, <5>9 DEF IsNext
      <4> QED BY <1>8, <3>1, <4>1, InOrderSplice
    <3> QED BY <3>2, <3>3, <3>4, <3>5, <3>6
  <2>2. CASE new # << >>
    <3> DEFINE k == Place(p) + 1
               q == Contents[f][k]
    <3>1. Shared(p) /\ k \in 1 .. Len(Contents[f]) /\ new = <<<<"plugin", q>>>> BY <1>6, <2>2
    <3>2. f \in Files BY Filed
    <3>3. FileOf(q) = f /\ Place(q) = k BY <3>1, <3>2, PlaceInFile
    <3>4. Len(todo) = 1 BY <1>1, <3>1 DEF Outermost
    <3> HIDE DEF q, k
    <3>5. todo' = <<<<"plugin", q>>>>
      <4>1. Len(todo') = Len(new) + (Len(todo) - 1) /\ \A i \in 1 .. Len(new) : todo'[i] = new[i]
        BY <1>8, SpliceProperties
      <4>2. Len(new) = 1 /\ new[1] = <<"plugin", q>> BY <3>1
      <4>3. Len(todo') = 1 /\ todo'[1] = <<"plugin", q>> BY <3>4, <4>1, <4>2
      <4>4. todo' = <<todo'[1]>> BY <1>9, <4>3, OneLong
      <4> QED BY <4>3, <4>4
    <3>6. Descends' /\ Outermost' /\ Aligned' /\ Arrives'
      <4>1. <<"plugin", q>>[1] \in {"load", "plugin", "fail"} OBVIOUS
      <4> QED BY <3>5, <4>1, AloneKept
    <3>7. IsNext(q)'
      <4>1. Place(p) \in Nat /\ Place(q) = Place(p) + 1 BY <3>2, <3>3, Placed, ContentsTypes DEF k
      <4>2. ASSUME NEW r \in ToSet(Contents[FileOf(q)]), Place(r) >= Place(q) PROVE refs'[r] = 0
        <5>1. r \in Plugins BY <3>2, <3>3, ContentsTypes
        <5>2. Place(r) \in Int BY <5>1, Placed
        <5>3. r # p /\ Place(r) >= Place(p) BY <4>1, <4>2, <5>2
        <5>4. refs[r] = 0 BY <1>3, <3>3, <5>3 DEF IsNext
        <5> QED BY <1>4, <5>1, <5>3, <5>4
      <4>3. refs'[Parent(FileOf(q))] > 0 BY <1>3, <1>4, <3>1, <3>2, <3>3 DEF IsNext, Shared
      <4> QED BY <4>2, <4>3 DEF IsNext
    <3>8. InOrder'
      <4>1. DOMAIN todo' = {1} /\ todo'[1] = <<"plugin", q>> BY <3>5
      <4> QED BY <3>7, <4>1 DEF InOrder, Op, Arg
    <3> QED BY <3>6, <3>8
  <2> QED BY <2>1, <2>2
<1>14. \A q \in Plugins : refs'[q] > 0 => q \in inited' BY <1>4 DEF Settled
<1>15. Loading' BY <1>9, <1>13, <1>14 DEF Loading
<1> QED BY <1>4, <1>5, <1>12, <1>15, LoadingKept

-----------------------------------------------------------------------------
(* A load that fails.                                                      *)

\* When a load fails, what was pending for the plugin it was loading is dropped
\* with the plugin's own claims.
LEMMA FailPrefix ==
  ASSUME todo \in Seq(LoadTasks), Aligned, todo[1][1] # "ref", NEW i \in DOMAIN todo, todo[i][1] = "init",
         \A k \in 1 .. i - 1 : todo[k][1] # "init", NEW d \in Plugins
  PROVE  Number(SubSeq(todo, 1, i), Expected(d)) <= Cardinality(Uses(todo[i][2], d))
<1> DEFINE a == todo[i][2]
           s == SubSeq(todo, 1, i)
           n == Len(Depends[a])
           J == {j \in DOMAIN s : s[j] \in Expected(d)}
           F == [j \in J |-> n + 1 - (i - j)]
<1>1. DOMAIN todo = 1 .. Len(todo) /\ Len(todo) \in Nat /\ i \in 1 .. Len(todo) BY LenProperties
<1>2. a \in Plugins
  <2>1. todo[i] \in LoadTasks BY <1>1
  <2> QED BY <2>1 DEF LoadTasks
<1>3. DOMAIN s = 1 .. i /\ \A j \in 1 .. i : s[j] = todo[j]
  <2>1. 1 \in 1 .. Len(todo) + 1 /\ i \in 1 - 1 .. Len(todo) BY <1>1
  <2> QED BY <1>1, <2>1, SubSeqProperties
<1>4. n \in Nat BY <1>2, DependsTypes
<1> HIDE DEF s, a, n
<1>5. ASSUME NEW j \in J PROVE j \in Nat /\ n + 1 - (i - j) \in Uses(a, d)
  <2>1. j \in 1 .. i /\ todo[j] \in Expected(d) BY <1>3
  <2>2. j \in DOMAIN todo /\ j \in Nat /\ todo[j][1] \in {"depend", "ref"} /\ todo[j][2] = d
    BY <1>1, <2>1 DEF Expected
  <2>3. 1 \in 1 .. j BY <2>1
  <2>4. InPlace(todo, j) BY <2>2, <2>3 DEF Aligned, Op
  <2>5. PICK l \in j + 1 .. Len(todo) : /\ todo[l][1] = "init" /\ \A k \in j .. l - 1 : todo[k][1] # "init"
                                       /\ Len(Depends[todo[l][2]]) + 1 - (l - j) \in Uses(todo[l][2], todo[j][2])
    BY <2>4 DEF InPlace
  <2>6. l = i
    <3>1. ~(l < i) BY <1>1, <2>1, <2>5
    <3>2. i # j BY <2>2
    <3>3. ~(i < l) BY <1>1, <2>1, <2>5
    <3> QED BY <1>1, <2>1, <2>5, <3>1, <3>3
  <2> QED BY <2>2, <2>5, <2>6 DEF a, n
<1>6. F \in [J -> Uses(a, d)] BY <1>5
<1>7. ASSUME NEW j \in J, NEW k \in J, F[j] = F[k] PROVE j = k
  <2>1. n + 1 - (i - j) = n + 1 - (i - k) BY <1>7
  <2> QED BY <1>1, <1>4, <1>5, <2>1
<1>8. IsFiniteSet(Uses(a, d)) BY <1>2, UsesProperties
<1> HIDE DEF J, F
<1>9. Cardinality(J) <= Cardinality(Uses(a, d)) BY <1>6, <1>7, <1>8, Injects
<1> QED BY <1>9 DEF J, s, a, Number

\* A load that fails leaves no claims of the plugin it was about to initialize.
LEMMA FailLedger ==
  ASSUME PluginInv, NEW op \in {"load", "plugin", "depend", "init", "fail"}, NEW x, Doing(op, x),
         UNCHANGED <<inits, list, tail, refs, inited>>,
         NEW i \in DOMAIN todo, todo[i][1] = "init", \A k \in 1 .. i - 1 : todo[k][1] # "init",
         NEW V, LoadTasks \subseteq V, NEW new \in Seq(V), todo' = new \o SubSeq(todo, i + 1, Len(todo)),
         \A k \in 1 .. Len(new) : new[k][1] \in {"unload", "fail"}
  PROVE  Ledger'
<1>1. /\ Settled /\ Ledger /\ todo \in Seq(LoadTasks)
      /\ Descends /\ Aligned /\ InOrder
      /\ 1 \in DOMAIN todo /\ DOMAIN todo = 1 .. Len(todo) /\ Len(todo) \in Nat
      /\ todo[1] = <<op, x>>
  BY LoadDoing
<1>2. refs \in [Modules -> Nat] /\ refs' = refs /\ inited' = inited BY <1>1 DEF Settled
<1>3. todo \in Seq(V) /\ i \in 0 .. Len(todo) BY <1>1, SeqMonotonic
<1>4. Splices(V, todo, i, new, todo') BY <1>3, Spliced
<1>5. PICK a \in Plugins : todo[i] = <<"init", a>>
  <2>1. todo[i] \in LoadTasks BY <1>1
  <2> QED BY <2>1 DEF LoadTasks
<1>6. a \notin inited
  <2>1. IsNext(a)
    <3>1. Op(i) = "init" /\ Arg(i) = a BY <1>5 DEF Op, Arg
    <3> QED BY <1>1, <3>1 DEF InOrder
  <2>2. Place(a) \in Nat /\ a \in ToSet(Contents[FileOf(a)]) BY <1>5, Placed, Filed, ContentsTypes
  <2>3. Place(a) >= Place(a) BY <2>2
  <2>4. refs[a] = 0 BY <2>1, <2>2, <2>3 DEF IsNext
  <2> QED BY <1>1, <1>5, <2>4 DEF Settled
<1>7. ASSUME NEW q PROVE Pending("init", q)' <=> Pending("init", q) /\ q # a
  <2> DEFINE t == <<"init", q>>
  <2>1. ASSUME NEW k \in 1 .. Len(todo'), todo'[k] = t PROVE Pending("init", q) /\ q # a
    <3>1. k > Len(new)
      <4>1. k \in Nat /\ Len(new) \in Nat BY <1>4 DEF Splices
      <4>2. k \in 1 .. Len(new) => todo'[k] = new[k] BY <1>4 DEF Splices
      <4>3. \A c \in {"unload", "fail"} : c # "init" OBVIOUS
      <4>4. t[1] = "init" OBVIOUS
      <4>5. k \notin 1 .. Len(new) BY <2>1, <4>2, <4>3, <4>4
      <4> QED BY <2>1, <4>1, <4>5
    <3> DEFINE j == k - Len(new) + i
    <3>2. j \in i + 1 .. Len(todo) /\ todo[j] = todo'[k] BY <1>4, <3>1 DEF Splices
    <3> HIDE DEF j
    <3>3. j \in 1 .. Len(todo) /\ j # i /\ todo[j] = t BY <1>1, <2>1, <3>2
    <3>4. q # a
      <4>1. todo[j][1] = "init" /\ todo[j][2] = q BY <3>3
      <4> QED BY <1>1, <1>5, <3>3, <4>1, InitOnce
    <3> QED BY <3>3, <3>4 DEF Pending, Contains
  <2>2. ASSUME NEW k \in 1 .. Len(todo), todo[k] = t, q # a PROVE Pending("init", q)'
    <3>1. k # i BY <1>5, <2>2
    <3>2. k \notin 1 .. i - 1 BY <2>2
    <3>3. k \in i + 1 .. Len(todo) BY <1>1, <3>1, <3>2
    <3> DEFINE j == k - i + Len(new)
    <3>4. j \in Len(new) + 1 .. Len(todo') /\ todo'[j] = todo[k] /\ Len(new) \in Nat
      BY <1>4, <3>3 DEF Splices
    <3> HIDE DEF j
    <3>5. j \in 1 .. Len(todo') BY <3>4
    <3>6. todo'[j] = t BY <2>2, <3>4
    <3> QED BY <3>5, <3>6 DEF Pending, Contains
  <2> HIDE DEF t
  <2>3. Pending("init", q) <=> \E k \in 1 .. Len(todo) : todo[k] = t BY DEF Pending, Contains, t
  <2>4. Pending("init", q)' <=> \E k \in 1 .. Len(todo') : todo'[k] = t BY DEF Pending, Contains, t
  <2> QED BY <2>1, <2>2, <2>3, <2>4
<1>8. Counted \in [Plugins -> Nat] /\ Counted' \in [Plugins -> Nat] /\ Counted[a] = Counted'[a] + 1
      /\ \A q \in Plugins : q # a => Counted[q] = Counted'[q]
  <2>1. Pending("init", a)
    <3>1. i \in 1 .. Len(todo) BY <1>1
    <3> QED BY <1>5, <3>1 DEF Pending, Contains
  <2>2. ~Pending("init", a)' BY <1>7
  <2>3. Counted[a] = 1 /\ Counted'[a] = 0 BY <1>2, <1>5, <1>6, <2>1, <2>2, CountedType, CountedTypeNext
  <2>4. \A q \in Plugins : q # a => Counted[q] = Counted'[q] BY <1>2, <1>7, CountedType, CountedTypeNext
  <2> QED BY <1>2, <2>3, <2>4, CountedType, CountedTypeNext
<1>9. ASSUME NEW d \in Plugins
      PROVE  Cardinality(Claims(d, Counted')) + (IF refs'[d] > 0 THEN 1 ELSE 0)
               <= refs'[d] + Number(todo', Expected(d))
  <2> DEFINE S == Expected(d)
  <2>1. Cardinality(Claims(d, Counted)) = Cardinality(Claims(d, Counted')) + Cardinality(Uses(a, d))
    BY <1>5, <1>8, ClaimsAdd
  <2>2. Cardinality(Claims(d, Counted)) + (IF refs[d] > 0 THEN 1 ELSE 0) <= refs[d] + Number(todo, S)
    BY <1>1, <1>2, LedgerOfLoad
  <2>3. Number(SubSeq(todo, 1, i), S) <= Cardinality(Uses(a, d))
    <3>1. todo[1][1] # "ref" BY <1>1
    <3>2. Number(SubSeq(todo, 1, i), Expected(d)) <= Cardinality(Uses(todo[i][2], d))
      BY <1>1, <3>1, FailPrefix
    <3>3. todo[i][2] = a BY <1>5
    <3> QED BY <3>2, <3>3
  <2>4. NumbersSplice(todo, i, new, todo', S) BY <1>3, SplicedNumber
  <2>5. Number(new, S) = 0
    <3>1. DOMAIN new = 1 .. Len(new) BY LenProperties
    <3>2. \A t \in S : t[1] \in {"ref", "depend"} BY DEF Expected
    <3>3. \A k \in DOMAIN new : new[k] \notin S BY <3>1, <3>2
    <3> QED BY <3>3, NumberType
  <2>6. Number(todo', S) + Number(SubSeq(todo, 1, i), S) = Number(todo, S)
        /\ Number(todo', S) \in Nat /\ Number(SubSeq(todo, 1, i), S) \in Nat /\ Number(todo, S) \in Nat
    BY <2>4, <2>5 DEF NumbersSplice
  <2>7. Cardinality(Claims(d, Counted')) \in Nat /\ Cardinality(Uses(a, d)) \in Nat /\ refs[d] \in Nat
    BY <1>2, <1>5, <1>8, ClaimsFinite, UsesProperties, ModuleTypes
  <2> DEFINE one == IF refs[d] > 0 THEN 1 ELSE 0
  <2>8. Cardinality(Claims(d, Counted')) + one <= refs[d] + Number(todo', S)
    <3>1. one \in Nat /\ Cardinality(Claims(d, Counted)) + one <= refs[d] + Number(todo, S) BY <2>2
    <3> HIDE DEF one, S
    <3> QED BY ONLY <2>1, <2>3, <2>6, <2>7, <3>1
  <2> QED BY <1>2, <2>8
<1>10. ASSUME NEW d \in Plugins PROVE Number(todo', {<<"drop", d>>}) = 0
  <2> DEFINE S == {<<"drop", d>>}
  <2>1. NumbersSplice(todo, i, new, todo', S) BY <1>3, SplicedNumber
  <2>2. Number(todo, S) = 0 BY <1>1, LoadTaskKinds
  <2>3. Number(new, S) = 0
    <3>1. DOMAIN new = 1 .. Len(new) BY LenProperties
    <3>2. \A t \in S : t[1] = "drop" OBVIOUS
    <3>3. \A k \in DOMAIN new : new[k] \notin S BY <3>1, <3>2
    <3> QED BY <3>3, NumberType
  <2> QED BY <2>1, <2>2, <2>3 DEF NumbersSplice
<1> QED BY <1>2, <1>9, <1>10, LedgerNext

\* The modules that a failed load of p's file unloads.
Gone(p) == SubSeq(Contents[FileOf(p)], 1, Place(p) - 1)
ToUnload(p) == IF Multi(FileOf(p)) /\ Gone(p) = << >> THEN <<Parent(FileOf(p))>> ELSE Gone(p)

\* The plugins that the cleaning up unloads.
LEMMA GoneProperties ==
  ASSUME NEW p \in Plugins
  PROVE  /\ ToUnload(p) \in Seq(Modules) /\ Len(ToUnload(p)) \in Nat
         /\ \A k, l \in 1 .. Len(ToUnload(p)) : ToUnload(p)[k] = ToUnload(p)[l] => k = l
         /\ ~Shared(p) => ToUnload(p) = << >>
         /\ Shared(p) =>
              \/ \A k \in 1 .. Len(ToUnload(p)) :
                   ToUnload(p)[k] \in Plugins /\ FileOf(ToUnload(p)[k]) = FileOf(p)
              \/ ToUnload(p) = <<Parent(FileOf(p))>> /\ Place(p) = 1
<1> DEFINE f == FileOf(p)
           s == Contents[f]
           n == Place(p) - 1
<1>1. f \in Files /\ s \in Seq(Plugins) /\ Len(s) \in Nat /\ n \in Nat /\ n <= Len(s)
      /\ (~Shared(p) => Len(s) <= 1) /\ n + 1 <= Len(s)
  <2>1. Place(p) \in 1 .. Len(Contents[FileOf(p)]) /\ FileOf(p) \in Files BY Placed, Filed
  <2>2. Contents[FileOf(p)] \in Seq(Plugins) /\ Len(Contents[FileOf(p)]) \in Nat
    BY <2>1, ContentsTypes
  <2>3. ~Shared(p) => ~(Len(Contents[FileOf(p)]) > 1) BY DEF Shared, Multi
  <2> QED BY <2>1, <2>2, <2>3
<1>2. \A k \in 1 .. Len(s) : s[k] \in Plugins /\ FileOf(s[k]) = f /\ Place(s[k]) = k
  BY <1>1, ContentsTypes, PlaceInFile
<1>3. Shared(p) <=> Multi(f) BY DEF Shared
<1>4. Gone(p) = SubSeq(s, 1, n) BY DEF Gone
<1>5. ToUnload(p) = IF Multi(f) /\ Gone(p) = << >> THEN <<Parent(f)>> ELSE Gone(p) BY DEF ToUnload
<1>6. Parent(f) \in Modules \/ ~Multi(f) BY <1>1, ModuleTypes
<1>7. Place(p) = n + 1
  <2>1. Place(p) \in Int BY Placed
  <2> QED BY <2>1
<1> HIDE DEF n, s, f
<1>8. /\ Gone(p) \in Seq(Plugins) /\ Len(Gone(p)) = n
      /\ \A k \in 1 .. n : Gone(p)[k] = s[k]
  <2>1. 1 \in 1 .. Len(s) + 1 /\ n \in 1 - 1 .. Len(s) BY <1>1
  <2>2. Len(SubSeq(s, 1, n)) = n - 1 + 1 /\ \A k \in 1 .. n - 1 + 1 : SubSeq(s, 1, n)[k] = s[1 + k - 1]
    BY <1>1, <2>1, SubSeqProperties
  <2>3. SubSeq(s, 1, n) \in Seq(Plugins) BY <1>1, <2>1, SubSeqProperties
  <2>4. n - 1 + 1 = n /\ \A k \in 1 .. n : 1 + k - 1 = k BY <1>1
  <2> QED BY <1>4, <2>2, <2>3, <2>4
<1>9. Gone(p) = << >> <=> n = 0 BY <1>8, EmptySeq
<1>10. \A k \in 1 .. n : k \in 1 .. Len(s) BY <1>1
<1>11. CASE Multi(f) /\ n = 0
  <2>1. ToUnload(p) = <<Parent(f)>> /\ Parent(f) \in Modules BY <1>5, <1>6, <1>9, <1>11
  <2>2. \A x : Len(<<x>>) = 1 OBVIOUS
  <2>3. Len(ToUnload(p)) = 1 /\ ToUnload(p) \in Seq(Modules) BY <2>1, <2>2
  <2>4. Place(p) = 1 BY <1>7, <1>11
  <2>5. \A k, l \in 1 .. Len(ToUnload(p)) : k = l BY <2>3
  <2> QED BY <1>3, <1>11, <2>1, <2>3, <2>4, <2>5 DEF f
<1>12. CASE ~(Multi(f) /\ n = 0)
  <2>1. ToUnload(p) = Gone(p) BY <1>5, <1>9, <1>12
  <2>2. Gone(p) \in Seq(Modules) BY <1>8, ModuleTypes, SeqMonotonic
  <2>3. \A k \in 1 .. n : Gone(p)[k] \in Plugins /\ FileOf(Gone(p)[k]) = f /\ Place(Gone(p)[k]) = k
    BY <1>2, <1>8, <1>10
  <2>4. ~Shared(p) => n = 0 BY <1>1
  <2>5. Len(ToUnload(p)) = n BY <1>8, <2>1
  <2>6. \A k, l \in 1 .. n : Gone(p)[k] = Gone(p)[l] => k = l BY <2>3
  <2> QED BY <1>1, <1>9, <2>1, <2>2, <2>3, <2>4, <2>5, <2>6 DEF f
<1> QED BY <1>11, <1>12

FailsAt(i, a) ==
  /\ todo[i] = <<"init", a>> /\ \A k \in 1 .. i - 1 : todo[k][1] # "init"
  /\ todo' = Tasks("unload", ToUnload(a)) \o <<<<"fail", FileOf(a)>>>> \o SubSeq(todo, i + 1, Len(todo))

\* What fails: a file that nobody asked for, or a load on the way to an initializer.
LEMMA FailsCases ==
  ASSUME todo \in Seq(LoadTasks), Fails
  PROVE  \/ todo' = << >> /\ \A k \in 1 .. Len(todo) : todo[k][1] # "init"
         \/ \E i \in 1 .. Len(todo) : \E a \in Plugins : FailsAt(i, a)
<1> DEFINE I == {k \in 1 .. Len(todo) : todo[k][1] = "init"}
           i == SelectInSeq(todo, LAMBDA t : t[1] = "init")
<1>1. i = IF I # {} THEN Min(I) ELSE 0 BY DEF SelectInSeq
<1>2. todo' = IF i = 0 THEN << >>
              ELSE Tasks("unload", ToUnload(todo[i][2])) \o <<<<"fail", FileOf(todo[i][2])>>>>
                   \o SubSeq(todo, i + 1, Len(todo))
  BY DEF Fails, ToUnload, Gone
<1>3. Len(todo) \in Nat BY LenProperties
<1> HIDE DEF i
<1>4. CASE I = {}
  <2>1. i = 0 BY <1>1, <1>4
  <2>2. todo' = << >> BY <1>2, <2>1
  <2> QED BY <1>4, <2>2
<1>5. CASE I # {}
  <2>1. i \in I /\ \A k \in I : i <= k
    <3>1. I \in SUBSET Nat OBVIOUS
    <3>2. i = Min(I) BY <1>1, <1>5
    <3> HIDE DEF I
    <3> QED BY <1>5, <3>1, <3>2, SmallestIndex
  <2>2. i \in 1 .. Len(todo) /\ todo[i][1] = "init" BY <2>1
  <2>3. \A k \in 1 .. i - 1 : todo[k][1] # "init" BY <1>3, <2>1
  <2>4. PICK a \in Plugins : todo[i] = <<"init", a>>
    <3>1. todo[i] \in LoadTasks BY <2>2
    <3> QED BY <2>2, <3>1 DEF LoadTasks
  <2>5. i # 0 /\ todo[i][2] = a BY <2>2, <2>4
  <2>6. todo' = Tasks("unload", ToUnload(a)) \o <<<<"fail", FileOf(a)>>>> \o SubSeq(todo, i + 1, Len(todo))
    BY <1>2, <2>5
  <2>7. FailsAt(i, a) BY <2>3, <2>4, <2>6 DEF FailsAt
  <2> QED BY <2>2, <2>7
<1> QED BY <1>4, <1>5

\* No initializer waits: the call returns.
LEMMA FailAloneKeeps ==
  ASSUME PluginInv, NEW op \in {"load", "plugin", "depend", "init", "fail"}, NEW x, Doing(op, x),
         UNCHANGED <<inits, list, tail, refs, inited>>,
         todo' = << >>, \A k \in 1 .. Len(todo) : todo[k][1] # "init"
  PROVE  PluginInv'
<1>1. /\ Settled /\ Counts /\ Ledger /\ todo \in Seq(LoadTasks) /\ Aligned
      /\ (\A q \in Plugins : refs[q] > 0 => q \in inited)
      /\ 1 \in DOMAIN todo /\ DOMAIN todo = 1 .. Len(todo) /\ Len(todo) \in Nat
      /\ todo[1] = <<op, x>> /\ Op(1) = op
  BY LoadDoing
<1>2. refs \in [Modules -> Nat] /\ refs' = refs /\ inited' = inited BY <1>1 DEF Settled
<1>3. Settled' /\ Counts' BY <1>1, SameModules
<1>4. todo' \in Seq(LoadTasks) /\ DOMAIN todo' = {} /\ Len(todo') = 0 BY LoadTaskTypes
<1>5. Counted' = Counted
  <2>1. \A q : ~Pending("init", q)' BY <1>4 DEF Pending, Contains
  <2>2. \A q : ~Pending("init", q) BY DEF Pending, Contains
  <2> QED BY <1>2, <2>1, <2>2, CountedSame
<1>6. Ledger'
  <2>1. ASSUME NEW d \in Plugins
        PROVE  Cardinality(Claims(d, Counted')) + (IF refs'[d] > 0 THEN 1 ELSE 0)
                 <= refs'[d] + Number(todo', Expected(d))
    <3>1. Number(todo', Expected(d)) = 0 BY NothingContained
    <3>2. Number(todo, Expected(d)) = 0
      <4>1. ASSUME NEW j \in DOMAIN todo, todo[j] \in Expected(d) PROVE FALSE
        <5>1. Op(j) \in {"depend", "ref"} BY <4>1 DEF Expected, Op
        <5>2. 1 \in 1 .. j /\ Op(1) # "ref" BY <1>1, <4>1
        <5>3. InPlace(todo, j) BY <1>1, <5>1, <5>2 DEF Aligned
        <5>4. PICK l \in j + 1 .. Len(todo) : todo[l][1] = "init" BY <5>3 DEF InPlace
        <5>5. l \in 1 .. Len(todo) BY <1>1, <4>1, <5>4
        <5> QED BY <5>4, <5>5
      <4>2. \A j \in DOMAIN todo : todo[j] \notin Expected(d) BY <4>1
      <4> QED BY <1>1, <4>2, NumberType
    <3>3. Cardinality(Claims(d, Counted)) + (IF refs[d] > 0 THEN 1 ELSE 0)
            <= refs[d] + Number(todo, Expected(d))
      BY <1>1, <1>2, LedgerOfLoad
    <3> QED BY <1>2, <1>5, <3>1, <3>2, <3>3
  <2> QED BY <1>2, <1>4, <2>1, LedgerOfLoadNext
<1>7. Descends' /\ Outermost' /\ Aligned' /\ Arrives' /\ InOrder'
  BY <1>4 DEF Descends, Outermost, Aligned, Arrives, InOrder
<1> QED BY <1>1, <1>2, <1>3, <1>4, <1>6, <1>7, LoadingKept DEF Loading

\* The plugin that waits is alone in its file: the load that asked for it fails.
LEMMA FailSingleKeeps ==
  ASSUME PluginInv, NEW op \in {"load", "plugin", "depend", "init", "fail"}, NEW x, Doing(op, x),
         UNCHANGED <<inits, list, tail, refs, inited>>,
         NEW i \in 1 .. Len(todo), NEW a \in Plugins, FailsAt(i, a), ~Shared(a)
  PROVE  PluginInv'
<1> DEFINE t == <<"fail", FileOf(a)>>
           new == <<t>>
<1>1. /\ Settled /\ Counts /\ Ledger /\ todo \in Seq(LoadTasks)
      /\ (\A q \in Plugins : refs[q] > 0 => q \in inited)
      /\ Descends /\ Outermost /\ Aligned /\ Arrives /\ InOrder
      /\ 1 \in DOMAIN todo /\ DOMAIN todo = 1 .. Len(todo) /\ Len(todo) \in Nat
      /\ todo[1] = <<op, x>> /\ Op(1) = op
  BY LoadDoing
<1>2. t \in LoadTasks BY Filed, LoadTaskTypes
<1>3. new \in Seq(LoadTasks) /\ Len(new) = 1 /\ new[1] = t
  <2> HIDE DEF t
  <2> QED BY <1>2
<1>4. todo' = new \o SubSeq(todo, i + 1, Len(todo))
  <2>1. Tasks("unload", << >>) = << >> BY DEF Tasks
  <2>2. ToUnload(a) = << >> BY GoneProperties
  <2>3. << >> \o new = new BY <1>3, ConcatEmptySeq
  <2> HIDE DEF new
  <2> QED BY <2>1, <2>2, <2>3 DEF new, FailsAt
<1> HIDE DEF new
<1>5. Splice(i, new) BY <1>1, <1>3, <1>4 DEF Splice
<1>6. \A k \in 1 .. Len(new) : k = 1 /\ new[k][1] = "fail" BY <1>3
<1>7. Ledger'
  <2>1. todo[i][1] = "init" /\ i \in DOMAIN todo /\ \A k \in 1 .. i - 1 : todo[k][1] # "init"
    BY <1>1 DEF FailsAt
  <2>2. \A k \in 1 .. Len(new) : new[k][1] \in {"unload", "fail"} BY <1>6
  <2> QED BY <1>3, <1>4, <2>1, <2>2, FailLedger
<1>8. Settled' /\ Counts' BY <1>1, SameModules
<1>9. Descends'
  <2>1. \A k \in 1 .. Len(new) : \A u : Inside(new[k], u) BY <1>6 DEF Inside
  <2> QED BY <1>1, <1>5, <2>1, DescendsSplice
<1>10. Outermost' BY <1>1, <1>5, <1>6, OutermostSplice
<1>11. Aligned'
  <2>1. \E k \in 1 .. i : Op(k) # "ref" BY <1>1
  <2>2. \A k \in 1 .. Len(new) : new[k][1] \notin {"depend", "ref"} BY <1>6
  <2> QED BY <1>1, <1>5, <2>1, <2>2, AlignedSplice
<1>12. Arrives'
  <2>1. \A c : Brings(new[1], c) /\ 1 \in 1 .. Len(new) BY <1>3 DEF Brings
  <2>2. \A k \in 1 .. Len(new) : new[k][1] # "ref" BY <1>6
  <2>3. inited' = inited OBVIOUS
  <2> QED BY <1>1, <1>5, <2>1, <2>2, <2>3, ArrivesSplice
<1>13. InOrder'
  <2>1. \A q : IsNext(q)' <=> IsNext(q) BY SameModules
  <2>2. \A k \in DOMAIN todo : todo[k][1] \in {"plugin", "init"} => IsNext(todo[k][2])
    BY <1>1 DEF InOrder, Op, Arg
  <2>3. ASSUME NEW q \in Plugins, NEW k \in i + 1 .. Len(todo), todo[k] \in {<<"plugin", q>>, <<"init", q>>}
        PROVE  IsNext(q)
    <3>1. k \in DOMAIN todo BY <1>1, <2>3
    <3> QED BY <2>2, <2>3, <3>1
  <2>4. \A q : \A k \in 1 .. Len(new) : new[k] \notin {<<"plugin", q>>, <<"init", q>>} BY <1>6
  <2> QED BY <1>5, <2>1, <2>3, <2>4, InOrderSplice
<1>14. todo' \in Seq(LoadTasks) BY <1>5, SpliceProperties
<1>15. \A q \in Plugins : refs'[q] > 0 => q \in inited' BY <1>1
<1> QED BY <1>7, <1>8, <1>9, <1>10, <1>11, <1>12, <1>13, <1>14, <1>15, LoadingKept DEF Loading

\* Everything that a call may have to do once it unloads.
Cleanups == UnloadTasks \union {<<"next", NoModule>>} \union ({"fail"} \X Files)

\* The tasks of a call that cleans up and their arguments.
LEMMA CleanupTypes ==
  /\ \A m \in Modules : \A op \in {"unload", "unref", "remove"} : <<op, m>> \in Cleanups
  /\ \A p \in Plugins : <<"drop", p>> \in Cleanups
  /\ \A f \in Files : <<"fail", f>> \in Cleanups
  /\ <<"next", NoModule>> \in Cleanups
  /\ \A t \in Cleanups : /\ t = <<t[1], t[2]>>
                         /\ t[1] \in {"unload", "unref", "remove", "drop", "next", "fail"}
                         /\ t[1] \in {"unload", "unref", "remove"} => t[2] \in Modules
                         /\ t[1] = "drop" => t[2] \in Plugins
                         /\ t[1] = "next" => t[2] = NoModule
                         /\ t[1] = "fail" => t[2] \in Files
  /\ << >> \in Seq(Cleanups) /\ \A t \in Cleanups : <<t>> \in Seq(Cleanups)
BY DEF Cleanups, UnloadTasks, NoModule

\* It shares its file: its predecessors are unloaded, or the parent alone.
LEMMA FailSharedKeeps ==
  ASSUME PluginInv, NEW op \in {"load", "plugin", "depend", "init", "fail"}, NEW x, Doing(op, x),
         UNCHANGED <<inits, list, tail, refs, inited>>,
         NEW i \in 1 .. Len(todo), NEW a \in Plugins, FailsAt(i, a), Shared(a)
  PROVE  PluginInv'
<1> DEFINE t == <<"fail", FileOf(a)>>
           U == ToUnload(a)
           n == Len(U)
           us == Tasks("unload", U)
           new == us \o <<t>>
           V == LoadTasks \union Cleanups
<1>1. /\ Settled /\ Counts /\ Ledger /\ todo \in Seq(LoadTasks)
      /\ (\A q \in Plugins : refs[q] > 0 => q \in inited)
      /\ Outermost /\ InOrder
      /\ 1 \in DOMAIN todo /\ DOMAIN todo = 1 .. Len(todo) /\ Len(todo) \in Nat
      /\ todo[1] = <<op, x>> /\ Op(1) = op
  BY LoadDoing
<1>2. /\ U \in Seq(Modules) /\ n \in Nat
      /\ \A k, l \in 1 .. n : U[k] = U[l] => k = l
      /\ \/ \A k \in 1 .. n : U[k] \in Plugins /\ FileOf(U[k]) = FileOf(a)
         \/ U = <<Parent(FileOf(a))>> /\ Place(a) = 1
  BY GoneProperties
<1>3. t \in Cleanups /\ FileOf(a) \in Files BY Filed, CleanupTypes
<1>4. us \in Seq(Cleanups) /\ Len(us) = n
      /\ \A k \in 1 .. n : us[k] = <<"unload", U[k]>> /\ U[k] \in Modules
  <2>1. \A m \in Modules : <<"unload", m>> \in Cleanups BY CleanupTypes
  <2>2. /\ Tasks("unload", U) \in Seq(Cleanups) /\ Len(Tasks("unload", U)) = Len(U)
        /\ \A k \in 1 .. Len(U) : Tasks("unload", U)[k] = <<"unload", U[k]>> /\ U[k] \in Modules
    <3> HIDE DEF U
    <3> QED BY <1>2, <2>1, Tasked
  <2> QED BY <2>2
<1> HIDE DEF us, U, t
<1>5. /\ new \in Seq(Cleanups) /\ Len(new) = n + 1 /\ DOMAIN new = 1 .. n + 1 /\ new[n + 1] = t
      /\ \A k \in 1 .. n : new[k] = <<"unload", U[k]>> /\ U[k] \in Modules
  <2>1. /\ new \in Seq(Cleanups) /\ Len(new) = Len(us) + 1 /\ DOMAIN new = 1 .. Len(us) + 1
        /\ new[Len(us) + 1] = t /\ \A k \in 1 .. Len(us) : new[k] = us[k]
    BY <1>3, <1>4, Ended
  <2> HIDE DEF new, n
  <2> QED BY <1>4, <2>1
<1> HIDE DEF new, n
<1>6. i = Len(todo)
  <2>1. Op(i) = "init" /\ Arg(i) = a BY DEF Op, Arg, FailsAt
  <2> QED BY <1>1, <2>1 DEF Outermost
<1>7. todo' = new \o SubSeq(todo, i + 1, Len(todo)) BY DEF new, us, t, U, FailsAt
<1>8. todo' = new
  <2>1. SubSeq(todo, i + 1, Len(todo)) = << >>
    <3>1. i + 1 > Len(todo) BY <1>1, <1>6
    <3> QED BY <1>1, <3>1, SubSeqEmpty
  <2>2. new \o << >> = new BY <1>5, ConcatEmptySeq
  <2> QED BY <1>7, <2>1, <2>2
<1>9. \A k \in 1 .. n + 1 : k \in 1 .. n \/ k = n + 1 BY <1>2 DEF n
<1>10. \A k \in 1 .. n + 1 : new[k][1] \in {"unload", "fail"} BY <1>5, <1>9 DEF t
<1>11. Ledger'
  <2>1. todo[i][1] = "init" /\ i \in DOMAIN todo /\ \A k \in 1 .. i - 1 : todo[k][1] # "init"
    BY <1>1 DEF FailsAt
  <2>2. \A k \in 1 .. Len(new) : new[k][1] \in {"unload", "fail"} BY <1>5, <1>10
  <2>3. LoadTasks \subseteq V /\ new \in Seq(V)
    <3>1. Cleanups \subseteq V OBVIOUS
    <3> HIDE DEF V
    <3> QED BY <1>5, <3>1, SeqMonotonic DEF V
  <2> HIDE DEF V
  <2> QED BY <1>7, <2>1, <2>2, <2>3, FailLedger
<1>12. Settled' /\ Counts' BY <1>1, SameModules
<1>13. TypeOK' /\ TailIsLast'
  <2>1. \A m : ~Contains(todo', <<"remove", m>>)
    <3>1. \A k \in 1 .. n + 1 : \A m : new[k] # <<"remove", m>> BY <1>10
    <3> QED BY <1>5, <1>8, <3>1 DEF Contains
  <2> QED BY <1>12, <2>1, SettledKept
<1>14. ASSUME NEW k \in DOMAIN todo', Op(k)' = "unload"
       PROVE  k \in 1 .. n /\ todo'[k] = <<"unload", U[k]>> /\ Arg(k)' = U[k]
  <2>1. k \in 1 .. n + 1 /\ new[k][1] = "unload" BY <1>5, <1>8, <1>14 DEF Op
  <2>2. k # n + 1 BY <1>5, <2>1 DEF t
  <2>3. k \in 1 .. n BY <1>9, <2>1, <2>2
  <2>4. todo'[k] = <<"unload", U[k]>> BY <1>5, <1>8, <2>3
  <2>5. Arg(k)' = todo'[k][2] BY DEF Arg
  <2> QED BY <2>3, <2>4, <2>5
<1>15. ASSUME NEW k \in DOMAIN todo' PROVE Op(k)' \in {"unload", "fail"} /\ (Op(k)' = "fail" => k = Len(todo'))
  <2>1. k \in 1 .. n + 1 BY <1>5, <1>8
  <2>2. Op(k)' = new[k][1] BY <1>8 DEF Op
  <2>3. Op(k)' \in {"unload", "fail"} BY <1>10, <2>1, <2>2
  <2>4. ASSUME Op(k)' = "fail" PROVE k = Len(todo')
    <3>1. k \in 1 .. n => new[k][1] = "unload" BY <1>5
    <3>2. k = n + 1 BY <1>9, <2>1, <2>2, <2>4, <3>1
    <3> QED BY <1>5, <1>8, <3>2
  <2> QED BY <2>3, <2>4
<1>16. \A c \in {"unref", "remove", "drop"} : \A m : ~Pending(c, m)'
  <2>1. ASSUME NEW c \in {"unref", "remove", "drop"}, NEW m, NEW k \in 1 .. Len(todo')
        PROVE  todo'[k] # <<c, m>>
    <3>1. k \in DOMAIN todo' BY <1>5, <1>8
    <3>2. todo'[k][1] \in {"unload", "fail"} BY <1>15, <3>1 DEF Op
    <3>3. <<c, m>>[1] = c /\ c \notin {"unload", "fail"} OBVIOUS
    <3> QED BY <3>2, <3>3
  <2> QED BY <2>1 DEF Pending, Contains
<1>17. UnloadPending'
  <2>1. ASSUME NEW k \in DOMAIN todo', Op(k)' = "unload"
        PROVE  /\ \A l \in DOMAIN todo' : todo'[l] = todo'[k] => l = k
               /\ ~Pending("unref", Arg(k))' /\ ~Pending("remove", Arg(k))'
               /\ Arg(k)' \in Plugins => Unclaimed(Arg(k))'
    <3>1. k \in 1 .. n /\ todo'[k] = <<"unload", U[k]>> /\ Arg(k)' = U[k] BY <1>14, <2>1
    <3>2. ASSUME NEW l \in DOMAIN todo', todo'[l] = todo'[k] PROVE l = k
      <4>1. Op(l)' = "unload" BY <2>1, <3>2 DEF Op
      <4>2. l \in 1 .. n /\ todo'[l] = <<"unload", U[l]>> BY <1>14, <4>1
      <4>3. todo'[l][2] = U[l] /\ todo'[k][2] = U[k] BY <3>1, <4>2
      <4>4. U[l] = U[k] BY <3>2, <4>3
      <4> QED BY <1>2, <3>1, <4>2, <4>4 DEF n
    <3>3. ~Pending("unref", Arg(k))' /\ ~Pending("remove", Arg(k))' BY <1>16, <3>1 DEF Pending
    <3>4. ASSUME U[k] \in Plugins PROVE Unclaimed(Arg(k))'
      <4>1. FileOf(U[k]) = FileOf(a)
        <5>1. CASE U = <<Parent(FileOf(a))>> /\ Place(a) = 1
          <6>1. U[k] = Parent(FileOf(a)) BY <3>1, <5>1 DEF n
          <6> QED BY <1>3, <3>4, <6>1, Parents
        <5> QED BY <1>2, <3>1, <5>1 DEF n
      <4>2. Shared(U[k]) BY <4>1 DEF Shared
      <4>3. \A q \in Plugins : ~Contains(Depends[q], U[k]) BY <3>4, <4>2, DependedOn DEF Depended
      <4>4. \A q \in Plugins : Uses(q, U[k]) = {} BY <4>3, UsesProperties
      <4>5. \A w : Claims(U[k], w) = {} BY <4>4, ClaimsMember
      <4>6. Claims(Arg(k), Counted)' = {} BY <3>1, <4>5 DEF Claims
      <4> QED BY <1>16, <3>1, <4>6 DEF Unclaimed, Pending
    <3> QED BY <3>1, <3>2, <3>3, <3>4
  <2> QED BY <2>1 DEF UnloadPending
<1>18. UnrefPending' /\ RemovePending'
  <2>1. \A k \in DOMAIN todo' : Op(k)' # "unref" /\ Op(k)' # "remove" BY <1>15
  <2> QED BY <2>1 DEF UnrefPending, RemovePending
<1>19. ParentGoes'
  <2>1. ASSUME NEW f \in Files, Multi(f), NEW k \in DOMAIN todo',
               todo'[k] \in {<<"unload", Parent(f)>>, <<"unref", Parent(f)>>}
        PROVE  k = 1 /\ refs'[Parent(f)] = 1
    <3>1. Op(k)' = "unload"
      <4>1. Op(k)' \in {"unload", "unref"} BY <2>1 DEF Op
      <4> QED BY <1>15, <4>1
    <3>2. k \in 1 .. n /\ U[k] = Parent(f)
      <4>1. todo'[k][2] = Parent(f) BY <2>1
      <4>2. k \in 1 .. n /\ todo'[k] = <<"unload", U[k]>> BY <1>14, <3>1
      <4> QED BY <4>1, <4>2
    <3>3. U[k] \notin Plugins BY <3>2, Parents
    <3>4. U = <<Parent(FileOf(a))>> /\ Place(a) = 1 BY <1>2, <3>2, <3>3 DEF n
    <3>5. n = 1 /\ U[1] = Parent(FileOf(a))
      <4>1. \A z : Len(<<z>>) = 1 OBVIOUS
      <4> QED BY <3>4, <4>1 DEF n
    <3>6. k = 1 BY <3>2, <3>5
    <3>7. f = FileOf(a) BY <1>3, <3>2, <3>5, <3>6, Parents
    <3>8. IsNext(a)
      <4>1. i \in DOMAIN todo /\ Op(i) = "init" /\ Arg(i) = a BY <1>1 DEF Op, Arg, FailsAt
      <4> QED BY <1>1, <4>1 DEF InOrder
    <3>9. Counting(f) = {}
      <4>1. ASSUME NEW q \in ToSet(Contents[f]) PROVE refs[q] = 0
        <5>1. q \in Plugins /\ FileOf(q) = FileOf(a) BY <1>3, <3>7, <4>1, ContentsTypes, Filed
        <5>2. Place(q) \in Nat /\ Place(q) >= 1 BY <1>3, <5>1, Placed, ContentsTypes
        <5> QED BY <3>4, <3>7, <3>8, <5>2 DEF IsNext
      <4> QED BY <4>1 DEF Counting
    <3>10. refs[Parent(f)] > 0 BY <3>7, <3>8 DEF IsNext
    <3>11. refs[Parent(f)] = 1 + 0 BY <1>1, <2>1, <3>9, <3>10, FS_EmptySet DEF Counts
    <3> QED BY <3>6, <3>11
  <2> QED BY <2>1 DEF ParentGoes
<1>20. Unloading'
  <2>1. todo' \in Seq(Cleanups) BY <1>5, <1>8
  <2>2. \A k \in DOMAIN todo' : Op(k)' \in {"next", "fail"} => k = Len(todo') BY <1>15
  <2>3. \A q \in Plugins : refs'[q] > 0 /\ q \notin inited' => FALSE BY <1>12 DEF Settled
  <2> QED BY <1>17, <1>18, <1>19, <2>1, <2>2, <2>3 DEF Unloading, Cleanups
<1> QED BY <1>11, <1>12, <1>13, <1>20 DEF PluginInv

\* The load of a file fails (the error paths of loadModule).
LEMMA FailsKeeps ==
  ASSUME PluginInv, NEW op \in {"load", "plugin", "depend", "init", "fail"}, NEW x, Doing(op, x),
         Fails, UNCHANGED <<inits, list, tail, refs, inited>>
  PROVE  PluginInv'
<1>1. todo \in Seq(LoadTasks) BY LoadDoing
<1>2. \/ todo' = << >> /\ \A k \in 1 .. Len(todo) : todo[k][1] # "init"
      \/ \E i \in 1 .. Len(todo) : \E a \in Plugins : FailsAt(i, a)
  BY <1>1, FailsCases
<1> QED BY <1>2, FailAloneKeeps, FailSingleKeeps, FailSharedKeeps

-----------------------------------------------------------------------------
(* What a call that unloads knows.                                         *)

\* All that a step of an unload may assume.
LEMMA UnloadDoing ==
  ASSUME PluginInv, NEW op \in {"unload", "drop", "unref", "remove", "next"}, NEW x, Doing(op, x)
  PROVE  /\ TypeOK /\ Ledger /\ Counts /\ TailIsLast /\ Unloading
         /\ ListOK /\ refs \in [Modules -> Nat] /\ inited \subseteq Plugins
         /\ todo \in Seq(Cleanups) /\ <<op, x>> \in Cleanups
         /\ 1 \in DOMAIN todo /\ DOMAIN todo = 1 .. Len(todo) /\ Len(todo) \in Nat
         /\ todo[1] = <<op, x>> /\ Op(1) = op /\ Arg(1) = x
<1>1. todo # << >> /\ Head(todo) = <<op, x>> BY DEF Doing
<1>2. ASSUME NEW V, todo \in Seq(V)
      PROVE  /\ 1 \in DOMAIN todo /\ DOMAIN todo = 1 .. Len(todo) /\ Len(todo) \in Nat
             /\ todo[1] = <<op, x>> /\ <<op, x>> \in V
  <2>1. Len(todo) \in Nat /\ DOMAIN todo = 1 .. Len(todo) BY <1>2, LenProperties
  <2>2. Len(todo) # 0 /\ Head(todo) = todo[1] /\ Head(todo) \in V
    BY <1>1, <1>2, HeadTailProperties, EmptySeq
  <2> QED BY <1>1, <2>1, <2>2
<1>3. Unloading
  <2>1. ~Loading
    <3>1. SUFFICES ASSUME Loading PROVE FALSE OBVIOUS
    <3>2. todo \in Seq(LoadTasks) BY <3>1 DEF Loading
    <3>3. <<op, x>> \in LoadTasks BY <1>2, <3>2
    <3>4. <<op, x>>[1] = op OBVIOUS
    <3> QED BY <3>3, <3>4, LoadTaskTypes
  <2> QED BY <2>1 DEF PluginInv
<1>4. todo \in Seq(Cleanups) BY <1>3 DEF Unloading, Cleanups
<1>5. TypeOK /\ Ledger /\ Counts /\ TailIsLast BY DEF PluginInv
<1>6. ListOK /\ refs \in [Modules -> Nat] /\ inited \subseteq Plugins BY <1>5 DEF TypeOK, ListOK
<1>7. /\ 1 \in DOMAIN todo /\ DOMAIN todo = 1 .. Len(todo) /\ Len(todo) \in Nat
      /\ todo[1] = <<op, x>> /\ <<op, x>> \in Cleanups
  BY <1>2, <1>4
<1>8. Op(1) = op /\ Arg(1) = x
  <2>1. Op(1) = todo[1][1] /\ Arg(1) = todo[1][2] BY DEF Op, Arg
  <2> QED BY <1>7, <2>1
<1> QED BY <1>3, <1>4, <1>5, <1>6, <1>7, <1>8

\* The first task is replaced.
Replaces(new) ==
  /\ todo \in Seq(Cleanups) /\ 1 \in DOMAIN todo /\ new \in Seq(Cleanups)
  /\ todo' = new \o SubSeq(todo, 1 + 1, Len(todo))

\* The elements of an unloading agenda whose first task is replaced.
LEMMA ReplaceProperties ==
  ASSUME NEW new, Replaces(new)
  PROVE  /\ todo' \in Seq(Cleanups) /\ Len(todo) \in Nat /\ Len(new) \in Nat
         /\ Len(todo') = Len(new) + (Len(todo) - 1)
         /\ DOMAIN todo = 1 .. Len(todo) /\ DOMAIN new = 1 .. Len(new) /\ DOMAIN todo' = 1 .. Len(todo')
         /\ \A i \in 1 .. Len(new) : i \in 1 .. Len(todo') /\ todo'[i] = new[i]
         /\ \A i \in 2 .. Len(todo) : /\ i - 1 + Len(new) \in Len(new) + 1 .. Len(todo')
                                      /\ todo'[i - 1 + Len(new)] = todo[i]
         /\ \A i \in 1 .. Len(todo') : i > Len(new) =>
              i - Len(new) + 1 \in 2 .. Len(todo) /\ todo'[i] = todo[i - Len(new) + 1]
<1>1. todo \in Seq(Cleanups) /\ new \in Seq(Cleanups) /\ todo' = new \o SubSeq(todo, 1 + 1, Len(todo))
      /\ 1 \in DOMAIN todo
  BY DEF Replaces
<1>2. 1 \in 0 .. Len(todo)
  <2>1. DOMAIN todo = 1 .. Len(todo) BY <1>1, LenProperties
  <2> QED BY <1>1, <2>1
<1>3. Splices(Cleanups, todo, 1, new, todo') BY <1>1, <1>2, Spliced
<1>4. 1 + 1 = 2 OBVIOUS
<1> QED BY <1>3, <1>4 DEF Splices

\* Doing a task replaces it.
LEMMA ThenReplaces ==
  ASSUME todo \in Seq(Cleanups), NEW op, NEW x, Doing(op, x), NEW new \in Seq(Cleanups), Then(new)
  PROVE  Replaces(new)
BY ThenSplices DEF Replaces

\* The tasks behind the first are about plugins.
LEMMA BehindProperties ==
  ASSUME Unloading, todo \in Seq(Cleanups), NEW i \in 2 .. Len(todo), NEW y
  PROVE  /\ todo[i] = <<"unload", y>> =>
              /\ y \in Plugins /\ Unclaimed(y) /\ ~Pending("unref", y) /\ ~Pending("remove", y)
              /\ \A j \in 1 .. Len(todo) : todo[j] = <<"unload", y>> => j = i
         /\ todo[i] = <<"unref", y>> =>
              /\ y \in Plugins /\ Unclaimed(y) /\ y \notin inited /\ refs[y] > 0 /\ ~Pending("remove", y)
              /\ \A j \in 1 .. Len(todo) : todo[j] = <<"unref", y>> => j = i
         /\ todo[i] = <<"remove", y>> =>
              /\ i = 2 /\ y \in Plugins /\ y \in listed /\ todo[1][2] \in ParentsOf(y)
              /\ todo[1][1] \in {"unload", "unref", "remove"} /\ todo[1][2] \notin Plugins
<1>1. Len(todo) \in Nat /\ DOMAIN todo = 1 .. Len(todo) BY LenProperties
<1>2. i \in DOMAIN todo /\ i # 1 BY <1>1
<1>3. \A op : todo[i] = <<op, y>> => Op(i) = op /\ Arg(i) = y BY DEF Op, Arg
<1>4. todo[i] \in {<<"unload", y>>, <<"unref", y>>} => y \in Plugins
  <2>1. SUFFICES ASSUME todo[i] \in {<<"unload", y>>, <<"unref", y>>}, y \notin Plugins PROVE FALSE OBVIOUS
  <2>2. todo[i] \in Cleanups BY <1>2
  <2>3. todo[i][1] \in {"unload", "unref"} /\ todo[i][2] = y BY <2>1
  <2>4. y \in Modules BY <2>2, <2>3, CleanupTypes
  <2>5. PICK f \in Files : Multi(f) /\ y = Parent(f) BY <2>1, <2>4, ModuleTypes
  <2>6. ParentGoes BY DEF Unloading
  <2> QED BY <1>2, <2>1, <2>5, <2>6 DEF ParentGoes
<1>5. ASSUME todo[i] = <<"unload", y>>
      PROVE  /\ y \in Plugins /\ Unclaimed(y) /\ ~Pending("unref", y) /\ ~Pending("remove", y)
             /\ \A j \in 1 .. Len(todo) : todo[j] = <<"unload", y>> => j = i
  BY <1>1, <1>2, <1>3, <1>4, <1>5 DEF Unloading, UnloadPending
<1>6. ASSUME todo[i] = <<"unref", y>>
      PROVE  /\ y \in Plugins /\ Unclaimed(y) /\ y \notin inited /\ refs[y] > 0 /\ ~Pending("remove", y)
             /\ \A j \in 1 .. Len(todo) : todo[j] = <<"unref", y>> => j = i
  BY <1>1, <1>2, <1>3, <1>4, <1>6 DEF Unloading, UnrefPending
<1>7. ASSUME todo[i] = <<"remove", y>>
      PROVE  /\ i = 2 /\ y \in Plugins /\ y \in listed /\ todo[1][2] \in ParentsOf(y)
             /\ todo[1][1] \in {"unload", "unref", "remove"} /\ todo[1][2] \notin Plugins
  <2>1. /\ y \in listed /\ i = 2 /\ Arg(2) = y /\ Arg(2) \in Plugins
        /\ Op(1) \in {"unload", "unref", "remove"} /\ Arg(1) \in ParentsOf(Arg(2))
    BY <1>2, <1>3, <1>7 DEF Unloading, RemovePending
  <2>2. Arg(1) \notin Plugins BY <2>1, Filed, Parents
  <2> QED BY <2>1, <2>2 DEF Op, Arg
<1> QED BY <1>5, <1>6, <1>7

-----------------------------------------------------------------------------
(* What a call that unloads keeps: no count grows.                         *)

\* The task that gives back a reference to d.
Dropped(d) == {<<"drop", d>>}

\* A call that unloads expects no counts and initializes nothing.
LEMMA CleanupKinds ==
  ASSUME NEW s \in Seq(Cleanups)
  PROVE  /\ \A x : ~Contains(s, <<"init", x>>)
         /\ \A x : Number(s, Expected(x)) = 0
         /\ \A x : Number(s, Dropped(x)) \in Nat
<1>1. \A i \in DOMAIN s : s[i] \in Cleanups BY LenProperties, ElementOfSeq
<1>2. DOMAIN s = 1 .. Len(s) BY LenProperties
<1>3. \A i \in DOMAIN s : s[i][1] \notin {"init", "ref", "depend"} BY <1>1, CleanupTypes
<1>4. \A x : <<"init", x>>[1] = "init" OBVIOUS
<1>5. \A x : ~Contains(s, <<"init", x>>) BY <1>2, <1>3, <1>4 DEF Contains
<1>6. ASSUME NEW x PROVE Number(s, Expected(x)) = 0
  <2>1. \A t \in Expected(x) : t[1] \in {"ref", "depend"} BY DEF Expected
  <2>2. \A i \in DOMAIN s : s[i] \notin Expected(x) BY <1>3, <2>1
  <2> QED BY <2>2, NumberType
<1> QED BY <1>5, <1>6, NumberType

\* So only what is initialized claims.
LEMMA CountedOfUnload ==
  /\ todo \in Seq(Cleanups) => \A p \in Plugins : Counted[p] = IF p \in inited THEN refs[p] ELSE 0
  /\ todo' \in Seq(Cleanups) => \A p \in Plugins : Counted'[p] = IF p \in inited' THEN refs'[p] ELSE 0
BY CleanupKinds DEF Counted, Pending

\* The ledger of this state.
LEMMA LedgerOfUnload ==
  ASSUME todo \in Seq(Cleanups), refs \in [Modules -> Nat], NEW d \in Plugins, Ledger
  PROVE  /\ Cardinality(Claims(d, Counted)) + Number(todo, Dropped(d))
              + (IF refs[d] > 0 THEN 1 ELSE 0) <= refs[d]
         /\ Cardinality(Claims(d, Counted)) \in Nat /\ Number(todo, Dropped(d)) \in Nat
         /\ refs[d] \in Nat
<1>1. Coming(d) = 0 BY CleanupKinds DEF Coming, Expected
<1>2. Owed(d) = Number(todo, Dropped(d)) BY DEF Owed, Dropped
<1>3. Cardinality(Claims(d, Counted)) + Owed(d) + (IF refs[d] > 0 THEN 1 ELSE 0) <= refs[d] + Coming(d)
  BY DEF Ledger
<1>4. Cardinality(Claims(d, Counted)) \in Nat BY CountedType, ClaimsFinite
<1>5. Number(todo, Dropped(d)) \in Nat BY CleanupKinds
<1>6. refs[d] \in Nat BY ModuleTypes
<1> QED BY <1>1, <1>2, <1>3, <1>4, <1>5, <1>6

\* The ledger of the next state.
LEMMA LedgerOfUnloadNext ==
  ASSUME todo' \in Seq(Cleanups), refs' \in [Modules -> Nat],
         \A d \in Plugins : Cardinality(Claims(d, Counted')) + Number(todo', Dropped(d))
                              + (IF refs'[d] > 0 THEN 1 ELSE 0) <= refs'[d]
  PROVE  Ledger'
<1> SUFFICES ASSUME NEW d \in Plugins
             PROVE  Cardinality(Claims(d, Counted)') + Owed(d)' + (IF refs'[d] > 0 THEN 1 ELSE 0)
                      <= refs'[d] + Coming(d)'
  BY DEF Ledger
<1>1. Owed(d)' = Number(todo', Dropped(d)) BY DEF Owed, Dropped
<1>2. Coming(d)' = 0 BY CleanupKinds DEF Coming, Expected
<1>3. Claims(d, Counted)' = Claims(d, Counted') BY DEF Claims
<1>4. Cardinality(Claims(d, Counted')) \in Nat BY CountedTypeNext, ClaimsFinite
<1>5. Number(todo', Dropped(d)) \in Nat /\ refs'[d] \in Nat BY CleanupKinds, ModuleTypes
<1> QED BY <1>1, <1>2, <1>3, <1>4, <1>5

\* The first task is replaced, and no count grows.
Shrinks(new) ==
  /\ Replaces(new)
  /\ refs \in [Modules -> Nat] /\ refs' \in [Modules -> Nat]
  /\ inited \subseteq Plugins /\ inited' \subseteq inited
  /\ \A m \in Modules : refs'[m] <= refs[m]

\* Claims become fewer.
LEMMA CountedShrinks ==
  ASSUME NEW new, Shrinks(new)
  PROVE  /\ Counted \in [Plugins -> Nat] /\ Counted' \in [Plugins -> Nat]
         /\ \A p \in Plugins : Counted'[p] <= Counted[p]
         /\ \A d : Claims(d, Counted') \subseteq Claims(d, Counted)
         /\ \A d : Cardinality(Claims(d, Counted')) <= Cardinality(Claims(d, Counted))
<1>1. Replaces(new) /\ refs \in [Modules -> Nat] /\ refs' \in [Modules -> Nat]
  BY DEF Shrinks
<1>2. todo \in Seq(Cleanups) /\ todo' \in Seq(Cleanups) BY <1>1, ReplaceProperties DEF Replaces
<1>3. Counted \in [Plugins -> Nat] /\ Counted' \in [Plugins -> Nat]
  BY <1>1, CountedType, CountedTypeNext
<1>4. ASSUME NEW p \in Plugins PROVE Counted'[p] <= Counted[p]
  <2>1. /\ Counted[p] = IF p \in inited THEN refs[p] ELSE 0
        /\ Counted'[p] = IF p \in inited' THEN refs'[p] ELSE 0
    BY <1>2, CountedOfUnload
  <2>2. refs[p] \in Nat /\ refs'[p] \in Nat /\ refs'[p] <= refs[p] /\ inited' \subseteq inited
    BY <1>1, ModuleTypes DEF Shrinks
  <2> QED BY <2>1, <2>2
<1>5. ASSUME NEW d
      PROVE  /\ Claims(d, Counted') \subseteq Claims(d, Counted)
             /\ Cardinality(Claims(d, Counted')) <= Cardinality(Claims(d, Counted))
  BY <1>3, <1>4, ClaimsGrow
<1> QED BY <1>3, <1>4, <1>5

\* What is unclaimed stays so, when no new task drops it.
LEMMA UnclaimedKept ==
  ASSUME NEW new, Shrinks(new), NEW y, Unclaimed(y), \A k \in 1 .. Len(new) : new[k] # <<"drop", y>>
  PROVE  Unclaimed(y)'
<1>1. Claims(y, Counted') = {} BY CountedShrinks DEF Unclaimed
<1>2. Claims(y, Counted)' = Claims(y, Counted') BY DEF Claims
<1>3. Replaces(new) BY DEF Shrinks
<1>4. ~Pending("drop", y)'
  <2>1. SUFFICES ASSUME NEW i \in 1 .. Len(todo'), todo'[i] = <<"drop", y>> PROVE FALSE
    BY DEF Pending, Contains
  <2>2. CASE i <= Len(new)
    <3>1. i \in 1 .. Len(new) BY <1>3, <2>2, ReplaceProperties
    <3> QED BY <1>3, <2>1, <3>1, ReplaceProperties
  <2>3. CASE i > Len(new)
    <3>1. PICK j \in 2 .. Len(todo) : todo'[i] = todo[j] BY <1>3, <2>3, ReplaceProperties
    <3>2. j \in 1 .. Len(todo) OBVIOUS
    <3> QED BY <2>1, <3>1, <3>2 DEF Unclaimed, Pending, Contains
  <2>4. i \in Nat /\ Len(new) \in Nat BY <1>3, ReplaceProperties
  <2> QED BY <2>2, <2>3, <2>4
<1> QED BY <1>1, <1>2, <1>4 DEF Unclaimed

\* A task afterwards is new, or was there behind the first.
LEMMA TaskOrigin ==
  ASSUME NEW new, Replaces(new), NEW i \in 1 .. Len(todo')
  PROVE  \/ i \in 1 .. Len(new) /\ todo'[i] = new[i]
         \/ /\ i > Len(new) /\ i - Len(new) + 1 \in 2 .. Len(todo)
            /\ todo'[i] = todo[i - Len(new) + 1]
<1>1. i \in Nat /\ Len(new) \in Nat BY ReplaceProperties
<1>2. CASE i <= Len(new)
  <2>1. i \in 1 .. Len(new) BY <1>1, <1>2
  <2> QED BY <2>1, ReplaceProperties
<1>3. CASE i > Len(new) BY <1>3, ReplaceProperties
<1> QED BY <1>1, <1>2, <1>3

\* What is pending once the first task is replaced.
LEMMA ReplacedPending ==
  ASSUME NEW new, Replaces(new), NEW op, NEW x
  PROVE  Contains(todo', <<op, x>>) <=> \/ \E k \in 1 .. Len(new) : new[k] = <<op, x>>
                                       \/ \E j \in 2 .. Len(todo) : todo[j] = <<op, x>>
<1>1. ASSUME NEW i \in 1 .. Len(todo'), todo'[i] = <<op, x>>
      PROVE  \/ \E k \in 1 .. Len(new) : new[k] = <<op, x>>
             \/ \E j \in 2 .. Len(todo) : todo[j] = <<op, x>>
  BY <1>1, TaskOrigin
<1>2. ASSUME NEW k \in 1 .. Len(new), new[k] = <<op, x>>
      PROVE  \E i \in 1 .. Len(todo') : todo'[i] = <<op, x>>
  BY <1>2, ReplaceProperties
<1>3. ASSUME NEW j \in 2 .. Len(todo), todo[j] = <<op, x>>
      PROVE  \E i \in 1 .. Len(todo') : todo'[i] = <<op, x>>
  <2>1. /\ j - 1 + Len(new) \in Len(new) + 1 .. Len(todo')
        /\ todo'[j - 1 + Len(new)] = todo[j] /\ Len(new) \in Nat
    BY ReplaceProperties
  <2>2. j - 1 + Len(new) \in 1 .. Len(todo') BY <2>1
  <2> QED BY <1>3, <2>1, <2>2
<1> QED BY <1>1, <1>2, <1>3 DEF Contains

\* The tasks that unload x.
About(x) == {<<"unload", x>>, <<"unref", x>>, <<"remove", x>>}

\* A module to unload stays unclaimed and is in no other task.
LEMMA UnloadPendingKept ==
  ASSUME Unloading, NEW new, Shrinks(new),
         \A y : \A i \in 2 .. Len(todo) : todo[i] = <<"unload", y>> =>
           \A k \in 1 .. Len(new) : new[k] \notin About(y) /\ new[k] # <<"drop", y>>,
         \A y : \A i \in 1 .. Len(new) : new[i] = <<"unload", y>> =>
           /\ \A k \in 1 .. Len(new) : k # i => new[k] \notin About(y)
           /\ \A k \in 2 .. Len(todo) : todo[k] \notin About(y)
           /\ y \in Plugins => Unclaimed(y)'
  PROVE  UnloadPending'
<1>1. Replaces(new) /\ todo \in Seq(Cleanups) BY DEF Shrinks, Replaces
<1>2. /\ Len(new) \in Nat /\ Len(todo) \in Nat /\ DOMAIN todo' = 1 .. Len(todo')
  BY <1>1, ReplaceProperties
<1> SUFFICES ASSUME NEW i \in DOMAIN todo', Op(i)' = "unload"
             PROVE  /\ \A j \in DOMAIN todo' : todo'[j] = todo'[i] => j = i
                    /\ ~Pending("unref", Arg(i))' /\ ~Pending("remove", Arg(i))'
                    /\ Arg(i)' \in Plugins => Unclaimed(Arg(i))'
  BY DEF UnloadPending
<1>3. PICK y : y = todo'[i][2] OBVIOUS
<1>4. todo'[i] = <<"unload", y>> /\ i \in 1 .. Len(todo')
  <2>1. todo'[i] \in Cleanups /\ todo'[i][1] = "unload" BY <1>1, <1>2, ReplaceProperties DEF Op
  <2> QED BY <1>2, <1>3, <2>1, CleanupTypes
<1>5. SUFFICES /\ \A j \in 1 .. Len(todo') : todo'[j] = <<"unload", y>> => j = i
               /\ ~Pending("unref", y)' /\ ~Pending("remove", y)'
               /\ y \in Plugins => Unclaimed(y)'
  <2>1. Arg(i)' = y BY <1>3 DEF Arg
  <2>2. Pending("unref", Arg(i))' <=> Pending("unref", y)' BY <2>1 DEF Pending
  <2>3. Pending("remove", Arg(i))' <=> Pending("remove", y)' BY <2>1 DEF Pending
  <2>4. Unclaimed(Arg(i))' <=> Unclaimed(y)' BY <2>1 DEF Unclaimed, Pending, Claims
  <2> QED BY <1>2, <1>4, <1>5, <2>1, <2>2, <2>3, <2>4
<1>6. CASE i \in 1 .. Len(new) /\ todo'[i] = new[i]
  <2>1. /\ new[i] = <<"unload", y>>
        /\ \A k \in 1 .. Len(new) : k # i => new[k] \notin About(y)
        /\ \A k \in 2 .. Len(todo) : todo[k] \notin About(y)
        /\ y \in Plugins => Unclaimed(y)'
    BY <1>4, <1>6
  <2>2. ASSUME NEW j \in 1 .. Len(todo'), todo'[j] = <<"unload", y>> PROVE j = i
    BY <1>1, <2>1, <2>2, TaskOrigin DEF About
  <2>3. ~Pending("unref", y)' /\ ~Pending("remove", y)'
    <3>1. new[i] # <<"unref", y>> /\ new[i] # <<"remove", y>> BY <2>1
    <3>2. \A k \in 1 .. Len(new) : new[k] # <<"unref", y>> /\ new[k] # <<"remove", y>>
      BY <2>1, <3>1 DEF About
    <3>3. \A k \in 2 .. Len(todo) : todo[k] # <<"unref", y>> /\ todo[k] # <<"remove", y>>
      BY <2>1 DEF About
    <3>4. Contains(todo', <<"unref", y>>) <=> \/ \E k \in 1 .. Len(new) : new[k] = <<"unref", y>>
                                            \/ \E j \in 2 .. Len(todo) : todo[j] = <<"unref", y>>
      BY ONLY <1>1, ReplacedPending
    <3>5. Contains(todo', <<"remove", y>>) <=> \/ \E k \in 1 .. Len(new) : new[k] = <<"remove", y>>
                                            \/ \E j \in 2 .. Len(todo) : todo[j] = <<"remove", y>>
      BY ONLY <1>1, ReplacedPending
    <3> QED BY <3>2, <3>3, <3>4, <3>5 DEF Pending
  <2> QED BY <2>1, <2>2, <2>3
<1>7. ASSUME i > Len(new), NEW h \in 2 .. Len(todo), h = i - Len(new) + 1, todo'[i] = todo[h]
      PROVE  /\ \A j \in 1 .. Len(todo') : todo'[j] = <<"unload", y>> => j = i
             /\ ~Pending("unref", y)' /\ ~Pending("remove", y)'
             /\ y \in Plugins => Unclaimed(y)'
  <2>1. todo[h] = <<"unload", y>> BY <1>4, <1>7
  <2>2. /\ Unclaimed(y) /\ ~Pending("unref", y) /\ ~Pending("remove", y)
        /\ \A j \in 1 .. Len(todo) : todo[j] = <<"unload", y>> => j = h
    BY <1>1, <2>1, BehindProperties
  <2>3. \A k \in 1 .. Len(new) : new[k] \notin About(y) /\ new[k] # <<"drop", y>> BY <2>1
  <2>4. ASSUME NEW j \in 1 .. Len(todo'), todo'[j] = <<"unload", y>> PROVE j = i
    <3>1. /\ j - Len(new) + 1 \in 2 .. Len(todo)
          /\ todo'[j] = todo[j - Len(new) + 1]
      BY <1>1, <2>3, <2>4, TaskOrigin DEF About
    <3>2. j - Len(new) + 1 \in 1 .. Len(todo) BY <3>1
    <3>3. j - Len(new) + 1 = h BY <2>2, <2>4, <3>1, <3>2
    <3> QED BY <1>2, <1>7, <3>3
  <2>5. ~Pending("unref", y)' /\ ~Pending("remove", y)'
    <3>1. \A k \in 2 .. Len(todo) : todo[k] # <<"unref", y>> /\ todo[k] # <<"remove", y>>
      <4>1. \A k \in 2 .. Len(todo) : k \in 1 .. Len(todo) OBVIOUS
      <4> QED BY <2>2, <4>1 DEF Pending, Contains
    <3>2. \A k \in 1 .. Len(new) : new[k] # <<"unref", y>> /\ new[k] # <<"remove", y>> BY <2>3 DEF About
    <3>3. Contains(todo', <<"unref", y>>) <=> \/ \E k \in 1 .. Len(new) : new[k] = <<"unref", y>>
                                            \/ \E j \in 2 .. Len(todo) : todo[j] = <<"unref", y>>
      BY ONLY <1>1, ReplacedPending
    <3>4. Contains(todo', <<"remove", y>>) <=> \/ \E k \in 1 .. Len(new) : new[k] = <<"remove", y>>
                                            \/ \E j \in 2 .. Len(todo) : todo[j] = <<"remove", y>>
      BY ONLY <1>1, ReplacedPending
    <3> QED BY <3>1, <3>2, <3>3, <3>4 DEF Pending
  <2>6. Unclaimed(y)' BY <2>2, <2>3, UnclaimedKept
  <2> QED BY <2>4, <2>5, <2>6
<1> QED BY <1>1, <1>4, <1>6, <1>7, TaskOrigin

\* So does one that is to lose a reference.
LEMMA UnrefPendingKept ==
  ASSUME Unloading, NEW new, Shrinks(new),
         \A y : \A i \in 2 .. Len(todo) : todo[i] = <<"unref", y>> =>
           /\ \A k \in 1 .. Len(new) : new[k] \notin {<<"unref", y>>, <<"remove", y>>, <<"drop", y>>}
           /\ refs'[y] > 0,
         \A y : \A i \in 1 .. Len(new) : new[i] = <<"unref", y>> =>
           /\ \A k \in 1 .. Len(new) : k # i => new[k] \notin About(y)
           /\ \A k \in 2 .. Len(todo) : todo[k] \notin About(y)
           /\ refs'[y] > 0
           /\ y \in Plugins => Unclaimed(y)'
           /\ y \in inited' => i = 1 /\ refs'[y] > 1
  PROVE  UnrefPending'
<1>1. Replaces(new) /\ todo \in Seq(Cleanups) /\ inited' \subseteq inited BY DEF Shrinks, Replaces
<1>2. /\ Len(new) \in Nat /\ Len(todo) \in Nat /\ DOMAIN todo' = 1 .. Len(todo')
  BY <1>1, ReplaceProperties
<1> SUFFICES ASSUME NEW i \in DOMAIN todo', Op(i)' = "unref"
             PROVE  /\ \A j \in DOMAIN todo' : todo'[j] = todo'[i] => j = i
                    /\ ~Pending("remove", Arg(i))'
                    /\ refs'[Arg(i)'] > 0
                    /\ Arg(i)' \in Plugins => Unclaimed(Arg(i))'
                    /\ Arg(i)' \in inited' => i = 1 /\ refs'[Arg(i)'] > 1
  BY DEF UnrefPending
<1>3. PICK y : y = todo'[i][2] OBVIOUS
<1>4. todo'[i] = <<"unref", y>> /\ i \in 1 .. Len(todo')
  <2>1. todo'[i] \in Cleanups /\ todo'[i][1] = "unref" BY <1>1, <1>2, ReplaceProperties DEF Op
  <2> QED BY <1>2, <1>3, <2>1, CleanupTypes
<1>5. SUFFICES /\ \A j \in 1 .. Len(todo') : todo'[j] = <<"unref", y>> => j = i
               /\ ~Pending("remove", y)'
               /\ refs'[y] > 0
               /\ y \in Plugins => Unclaimed(y)'
               /\ y \in inited' => i = 1 /\ refs'[y] > 1
  <2>1. Arg(i)' = y BY <1>3 DEF Arg
  <2>2. Pending("remove", Arg(i))' <=> Pending("remove", y)' BY <2>1 DEF Pending
  <2>3. Unclaimed(Arg(i))' <=> Unclaimed(y)' BY <2>1 DEF Unclaimed, Pending, Claims
  <2> QED BY <1>2, <1>4, <1>5, <2>1, <2>2, <2>3
<1>6. CASE i \in 1 .. Len(new) /\ todo'[i] = new[i]
  <2>1. /\ new[i] = <<"unref", y>>
        /\ \A k \in 1 .. Len(new) : k # i => new[k] \notin About(y)
        /\ \A k \in 2 .. Len(todo) : todo[k] \notin About(y)
        /\ refs'[y] > 0
        /\ y \in Plugins => Unclaimed(y)'
        /\ y \in inited' => i = 1 /\ refs'[y] > 1
    BY <1>4, <1>6
  <2>2. ASSUME NEW j \in 1 .. Len(todo'), todo'[j] = <<"unref", y>> PROVE j = i
    <3>1. \/ j \in 1 .. Len(new) /\ todo'[j] = new[j]
          \/ j - Len(new) + 1 \in 2 .. Len(todo) /\ todo'[j] = todo[j - Len(new) + 1]
      BY ONLY <1>1, <2>2, TaskOrigin
    <3> QED BY ONLY <2>1, <2>2, <3>1 DEF About
  <2>3. ~Pending("remove", y)'
    <3>1. new[i] # <<"remove", y>> BY <2>1
    <3>2. \A k \in 1 .. Len(new) : new[k] # <<"remove", y>> BY <2>1, <3>1 DEF About
    <3>3. \A k \in 2 .. Len(todo) : todo[k] # <<"remove", y>> BY <2>1 DEF About
    <3>4. Contains(todo', <<"remove", y>>) <=> \/ \E k \in 1 .. Len(new) : new[k] = <<"remove", y>>
                                            \/ \E j \in 2 .. Len(todo) : todo[j] = <<"remove", y>>
      BY ONLY <1>1, ReplacedPending
    <3> QED BY <3>2, <3>3, <3>4 DEF Pending
  <2> QED BY <2>1, <2>2, <2>3
<1>7. ASSUME i > Len(new), NEW h \in 2 .. Len(todo), h = i - Len(new) + 1, todo'[i] = todo[h]
      PROVE  /\ \A j \in 1 .. Len(todo') : todo'[j] = <<"unref", y>> => j = i
             /\ ~Pending("remove", y)'
             /\ refs'[y] > 0
             /\ y \in Plugins => Unclaimed(y)'
             /\ y \in inited' => i = 1 /\ refs'[y] > 1
  <2>1. todo[h] = <<"unref", y>> BY <1>4, <1>7
  <2>2. /\ Unclaimed(y) /\ y \notin inited /\ ~Pending("remove", y)
        /\ \A j \in 1 .. Len(todo) : todo[j] = <<"unref", y>> => j = h
    BY <1>1, <2>1, BehindProperties
  <2>3. /\ \A k \in 1 .. Len(new) : new[k] \notin {<<"unref", y>>, <<"remove", y>>, <<"drop", y>>}
        /\ refs'[y] > 0
    BY <2>1
  <2>4. ASSUME NEW j \in 1 .. Len(todo'), todo'[j] = <<"unref", y>> PROVE j = i
    <3>1. /\ j - Len(new) + 1 \in 2 .. Len(todo)
          /\ todo'[j] = todo[j - Len(new) + 1]
      BY <1>1, <2>3, <2>4, TaskOrigin
    <3>2. j - Len(new) + 1 \in 1 .. Len(todo) BY <3>1
    <3>3. j - Len(new) + 1 = h BY <2>2, <2>4, <3>1, <3>2
    <3> QED BY <1>2, <1>7, <3>3
  <2>5. ~Pending("remove", y)'
    <3>1. \A k \in 2 .. Len(todo) : todo[k] # <<"remove", y>>
      <4>1. \A k \in 2 .. Len(todo) : k \in 1 .. Len(todo) OBVIOUS
      <4> QED BY <2>2, <4>1 DEF Pending, Contains
    <3>2. \A k \in 1 .. Len(new) : new[k] # <<"remove", y>> BY <2>3
    <3>3. Contains(todo', <<"remove", y>>) <=> \/ \E k \in 1 .. Len(new) : new[k] = <<"remove", y>>
                                            \/ \E j \in 2 .. Len(todo) : todo[j] = <<"remove", y>>
      BY ONLY <1>1, ReplacedPending
    <3> QED BY <3>1, <3>2, <3>3 DEF Pending
  <2>6. Unclaimed(y)' BY <2>2, <2>3, UnclaimedKept
  <2> QED BY <1>1, <2>2, <2>3, <2>4, <2>5, <2>6
<1>8. \/ i \in 1 .. Len(new) /\ todo'[i] = new[i]
      \/ i > Len(new) /\ i - Len(new) + 1 \in 2 .. Len(todo) /\ todo'[i] = todo[i - Len(new) + 1]
  BY ONLY <1>1, <1>4, TaskOrigin
<1> QED BY <1>6, <1>7, <1>8

\* A module to remove stays listed, and waits for its parent at most.
LEMMA RemovePendingKept ==
  ASSUME Unloading, NEW new, Replaces(new),
         \A y : 2 \in 2 .. Len(todo) /\ todo[2] = <<"remove", y>> =>
           /\ y \in listed'
           /\ \/ Len(new) = 0
              \/ /\ Len(new) = 1 /\ new[1][1] \in {"unload", "unref", "remove"}
                 /\ new[1][2] = todo[1][2],
         \A y : \A i \in 1 .. Len(new) : new[i] = <<"remove", y>> =>
           /\ y \in listed'
           /\ \/ i = 1
              \/ /\ i = 2 /\ y \in Plugins /\ new[1][1] \in {"unload", "unref", "remove"}
                 /\ new[1][2] \in ParentsOf(y)
  PROVE  RemovePending'
<1>1. todo \in Seq(Cleanups) BY DEF Replaces
<1>2. /\ Len(new) \in Nat /\ Len(todo) \in Nat /\ DOMAIN todo' = 1 .. Len(todo')
  BY ReplaceProperties
<1> SUFFICES ASSUME NEW i \in DOMAIN todo', Op(i)' = "remove"
             PROVE  /\ Arg(i)' \in listed'
                    /\ \/ i = 1
                       \/ /\ i = 2 /\ Arg(2)' \in Plugins
                          /\ Op(1)' \in {"unload", "unref", "remove"} /\ Arg(1)' \in ParentsOf(Arg(2)')
  <2>1. \A j : ParentsOf(Arg(j))' = ParentsOf(Arg(j)') BY DEF ParentsOf
  <2> QED BY <2>1 DEF RemovePending
<1>3. PICK y : y = todo'[i][2] OBVIOUS
<1>4. todo'[i] = <<"remove", y>> /\ i \in 1 .. Len(todo') /\ Arg(i)' = y
  <2>1. todo'[i] \in Cleanups /\ todo'[i][1] = "remove" BY <1>2, ReplaceProperties DEF Op
  <2> QED BY <1>2, <1>3, <2>1, CleanupTypes DEF Arg
<1>5. Op(1)' = todo'[1][1] /\ Arg(1)' = todo'[1][2] BY DEF Op, Arg
<1>6. CASE i \in 1 .. Len(new) /\ todo'[i] = new[i]
  <2>1. new[i] = <<"remove", y>> BY <1>4, <1>6
  <2>2. 1 \in 1 .. Len(new) BY <1>2, <1>6
  <2>3. todo'[1] = new[1] BY <2>2, ReplaceProperties
  <2> QED BY <1>4, <1>5, <1>6, <2>1, <2>3
<1>7. ASSUME i > Len(new), NEW h \in 2 .. Len(todo), h = i - Len(new) + 1, todo'[i] = todo[h]
      PROVE  /\ y \in listed'
             /\ \/ i = 1
                \/ /\ i = 2 /\ y \in Plugins
                   /\ todo'[1][1] \in {"unload", "unref", "remove"} /\ todo'[1][2] \in ParentsOf(y)
  <2>1. todo[h] = <<"remove", y>> BY <1>4, <1>7
  <2>2. h = 2 /\ y \in Plugins /\ todo[1][2] \in ParentsOf(y) BY <1>1, <2>1, BehindProperties
  <2>3. 2 \in 2 .. Len(todo) /\ todo[2] = <<"remove", y>> BY <2>1, <2>2
  <2>4. i = Len(new) + 1 BY <1>2, <1>7, <2>2
  <2>5. CASE Len(new) = 0 BY <2>3, <2>4, <2>5
  <2>6. CASE Len(new) # 0
    <3>1. /\ Len(new) = 1 /\ new[1][1] \in {"unload", "unref", "remove"} /\ new[1][2] = todo[1][2]
      BY <2>3, <2>6
    <3>2. 1 \in 1 .. Len(new) BY <3>1
    <3>3. todo'[1] = new[1] BY <3>2, ReplaceProperties
    <3> QED BY <2>2, <2>3, <2>4, <3>1, <3>3
  <2> QED BY <2>5, <2>6
<1>9. Replaces(new) OBVIOUS
<1>8. \/ i \in 1 .. Len(new) /\ todo'[i] = new[i]
      \/ i > Len(new) /\ i - Len(new) + 1 \in 2 .. Len(todo) /\ todo'[i] = todo[i - Len(new) + 1]
  BY ONLY <1>9, <1>4, TaskOrigin
<1> QED BY <1>6, <1>7, <1>8, <1>4, <1>5

\* A parent goes with its last plugin.
LEMMA ParentGoesKept ==
  ASSUME Unloading, NEW new, Replaces(new),
         \A f \in Files : \A i \in 1 .. Len(new) :
           Multi(f) /\ new[i] \in {<<"unload", Parent(f)>>, <<"unref", Parent(f)>>} =>
             i = 1 /\ refs'[Parent(f)] = 1
  PROVE  ParentGoes'
<1>1. todo \in Seq(Cleanups) /\ DOMAIN todo' = 1 .. Len(todo') BY ReplaceProperties DEF Replaces
<1> SUFFICES ASSUME NEW f \in Files, NEW i \in 1 .. Len(todo'), Multi(f),
                    todo'[i] \in {<<"unload", Parent(f)>>, <<"unref", Parent(f)>>}
             PROVE  i = 1 /\ refs'[Parent(f)] = 1
  BY <1>1 DEF ParentGoes
<1>2. ASSUME NEW h \in 2 .. Len(todo), todo'[i] = todo[h] PROVE FALSE
  <2>1. todo[h] = <<"unload", Parent(f)>> \/ todo[h] = <<"unref", Parent(f)>> BY <1>2
  <2>2. Parent(f) \in Plugins BY <1>1, <2>1, BehindProperties
  <2> QED BY <2>2, Parents
<1> QED BY <1>2, TaskOrigin

\* What a step that adds nothing to the counts may assume.
LEMMA UnloadShrinks ==
  ASSUME PluginInv, NEW op \in {"unload", "drop", "unref", "remove", "next"}, NEW x, Doing(op, x),
         NEW new \in Seq(Cleanups), Then(new), refs' \in [Modules -> Nat], inited' \subseteq inited,
         \A m \in Modules : refs'[m] <= refs[m]
  PROVE  Shrinks(new)
<1>1. todo \in Seq(Cleanups) /\ refs \in [Modules -> Nat] /\ inited \subseteq Plugins BY UnloadDoing
<1>2. Replaces(new) BY <1>1, ThenReplaces
<1> QED BY <1>1, <1>2 DEF Shrinks

\* A file's counts are what they were.
LEMMA CountsKept ==
  ASSUME Counts, \A p \in inited' : refs'[p] > 0,
         \A f \in Files : Multi(f) =>
           refs'[Parent(f)] = refs[Parent(f)] /\ \A p \in ToSet(Contents[f]) : refs'[p] = refs[p]
  PROVE  Counts'
<1>1. ASSUME NEW f \in Files, Multi(f)
      PROVE  /\ refs'[Parent(f)] > 0 => refs'[Parent(f)] = 1 + Cardinality(Counting(f)')
             /\ refs'[Parent(f)] = 0 => Counting(f)' = {}
             /\ \A p \in Counting(f)' : refs'[p] = 1
  <2>1. Counting(f)' = Counting(f) BY <1>1 DEF Counting
  <2>2. refs'[Parent(f)] = refs[Parent(f)] BY <1>1
  <2>3. \A p \in Counting(f) : refs'[p] = refs[p] BY <1>1 DEF Counting
  <2>4. /\ refs[Parent(f)] > 0 => refs[Parent(f)] = 1 + Cardinality(Counting(f))
        /\ refs[Parent(f)] = 0 => Counting(f) = {}
        /\ \A p \in Counting(f) : refs[p] = 1
    BY <1>1 DEF Counts
  <2> QED BY <2>1, <2>2, <2>3, <2>4
<1> QED BY <1>1 DEF Counts

\* The types of the agenda and of the modules.
LEMMA UnloadTypesKept ==
  ASSUME TypeOK, TailIsLast, NEW new, Shrinks(new), UNCHANGED <<inits, list, tail>>,
         todo[1][1] \notin {"remove", "next"}, \A p \in inited' : refs'[p] > 0,
         \A m \in Modules : refs'[m] > 0 <=>
           refs[m] > 0 /\ \A k \in 1 .. Len(new) : new[k] # <<"remove", m>>
  PROVE  TypeOK' /\ TailIsLast'
<1>1. Replaces(new) /\ refs' \in [Modules -> Nat] /\ inited' \subseteq inited BY DEF Shrinks
<1>2. ASSUME NEW t, t # todo[1], Contains(todo, t) PROVE \E j \in 2 .. Len(todo) : todo[j] = t
  <2>1. PICK j \in 1 .. Len(todo) : todo[j] = t BY <1>2 DEF Contains
  <2>2. j # 1 BY <1>2, <2>1
  <2>3. j \in 2 .. Len(todo) BY <2>2
  <2> QED BY <2>1, <2>3
<1>3. ASSUME NEW j \in 2 .. Len(todo) PROVE Contains(todo, todo[j])
  <2>1. j \in 1 .. Len(todo) OBVIOUS
  <2> QED BY <2>1 DEF Contains
<1>4. ASSUME NEW m \in Modules
      PROVE  (refs'[m] > 0) = (m \in listed' /\ ~Contains(todo', <<"remove", m>>))
  <2>1. Contains(todo', <<"remove", m>>) <=> \/ \E k \in 1 .. Len(new) : new[k] = <<"remove", m>>
                                             \/ \E j \in 2 .. Len(todo) : todo[j] = <<"remove", m>>
    BY ONLY <1>1, ReplacedPending
  <2>2. (\E j \in 2 .. Len(todo) : todo[j] = <<"remove", m>>) <=> Contains(todo, <<"remove", m>>)
    <3>1. <<"remove", m>> # todo[1]
      <4>1. <<"remove", m>>[1] = "remove" OBVIOUS
      <4> QED BY <4>1
    <3> QED BY <1>2, <1>3, <3>1
  <2>3. refs[m] > 0 <=> m \in listed /\ ~Contains(todo, <<"remove", m>>) BY DEF TypeOK
  <2>4. listed' = listed BY DEF listed
  <2>5. refs'[m] > 0 <=> refs[m] > 0 /\ \A k \in 1 .. Len(new) : new[k] # <<"remove", m>> OBVIOUS
  <2>6. refs'[m] > 0 <=> m \in listed' /\ ~Contains(todo', <<"remove", m>>)
    BY <2>1, <2>2, <2>3, <2>4, <2>5
  <2> QED BY <2>6
<1>5. inited' \subseteq listed' \cap Plugins BY <1>1 DEF TypeOK, listed
<1>6. TypeOK' BY <1>1, <1>4, <1>5 DEF TypeOK
<1>7. TailIsLast'
  <2>1. ASSUME Pending("next", NoModule) PROVE Pending("next", NoModule)'
    <3>1. <<"next", NoModule>> # todo[1]
      <4>1. <<"next", NoModule>>[1] = "next" OBVIOUS
      <4> QED BY <4>1
    <3>2. \E j \in 2 .. Len(todo) : todo[j] = <<"next", NoModule>> BY <1>2, <2>1, <3>1 DEF Pending
    <3>3. Contains(todo', <<"next", NoModule>>)
            <=> \/ \E k \in 1 .. Len(new) : new[k] = <<"next", NoModule>>
                \/ \E j \in 2 .. Len(todo) : todo[j] = <<"next", NoModule>>
      BY ONLY <1>1, ReplacedPending
    <3> QED BY <3>2, <3>3 DEF Pending
  <2> QED BY <2>1 DEF TailIsLast
<1> QED BY <1>6, <1>7

\* The shape of an unload, from what the new tasks are.
LEMMA UnloadingKept ==
  ASSUME Unloading, NEW new, Shrinks(new),
         \A k \in 1 .. Len(new) : new[k][1] \in {"next", "fail"} => k = Len(new) /\ Len(todo) = 1,
         \A p \in Plugins : refs'[p] > 0 /\ p \notin inited' =>
           \/ p \notin inited /\ todo[1] # <<"unref", p>>
           \/ refs'[p] = 1 /\ \E k \in 1 .. Len(new) : new[k] = <<"unref", p>>,
         UnloadPending', UnrefPending', RemovePending', ParentGoes'
  PROVE  Unloading'
<1>1. /\ Replaces(new) /\ refs \in [Modules -> Nat] /\ refs' \in [Modules -> Nat]
      /\ \A m \in Modules : refs'[m] <= refs[m]
  BY DEF Shrinks
<1>2. /\ todo' \in Seq(Cleanups) /\ Len(new) \in Nat /\ Len(todo) \in Nat
      /\ DOMAIN todo' = 1 .. Len(todo') /\ Len(todo') = Len(new) + (Len(todo) - 1)
      /\ DOMAIN todo = 1 .. Len(todo)
  BY <1>1, ReplaceProperties
<1>3. ASSUME NEW i \in DOMAIN todo', Op(i)' \in {"next", "fail"} PROVE i = Len(todo')
  <2>1. Op(i)' = todo'[i][1] BY DEF Op
  <2>2. CASE i \in 1 .. Len(new) /\ todo'[i] = new[i]
    <3>1. new[i][1] \in {"next", "fail"} BY <1>3, <2>1, <2>2
    <3>2. i = Len(new) /\ Len(todo) = 1 BY <2>2, <3>1
    <3>3. Len(todo') = Len(new)
      <4>1. Len(todo') = Len(new) + (Len(todo) - 1) /\ Len(new) \in Nat BY <1>2
      <4>2. Len(todo) = 1 BY <3>2
      <4>3. \A a \in Nat : \A b : b = 1 => a + (b - 1) = a OBVIOUS
      <4> QED BY ONLY <4>1, <4>2, <4>3
    <3> QED BY <3>2, <3>3
  <2>3. ASSUME NEW h \in 2 .. Len(todo), h = i - Len(new) + 1, todo'[i] = todo[h]
        PROVE  i = Len(todo')
    <3>1. h \in DOMAIN todo /\ Op(h) \in {"next", "fail"} BY <1>2, <1>3, <2>1, <2>3 DEF Op
    <3>2. h = Len(todo) BY <3>1 DEF Unloading
    <3> QED BY <1>2, <1>3, <2>3, <3>2
  <2> QED BY <1>1, <1>2, <1>3, <2>2, <2>3, TaskOrigin
<1>4. ASSUME NEW p \in Plugins, refs'[p] > 0, p \notin inited' PROVE refs'[p] = 1 /\ Pending("unref", p)'
  <2>1. Contains(todo', <<"unref", p>>) <=> \/ \E k \in 1 .. Len(new) : new[k] = <<"unref", p>>
                                            \/ \E j \in 2 .. Len(todo) : todo[j] = <<"unref", p>>
    BY ONLY <1>1, ReplacedPending
  <2>2. CASE refs'[p] = 1 /\ \E k \in 1 .. Len(new) : new[k] = <<"unref", p>> BY <2>1, <2>2 DEF Pending
  <2>3. CASE p \notin inited /\ todo[1] # <<"unref", p>>
    <3>1. refs[p] \in Nat /\ refs'[p] \in Nat /\ refs'[p] <= refs[p] BY <1>1, ModuleTypes
    <3>2. refs[p] > 0 BY <1>4, <3>1
    <3>3. refs[p] = 1 /\ Pending("unref", p) BY <2>3, <3>2 DEF Unloading
    <3>4. refs'[p] = 1 BY <1>4, <3>1, <3>3
    <3>5. PICK j \in 1 .. Len(todo) : todo[j] = <<"unref", p>> BY <3>3 DEF Pending, Contains
    <3>6. j \in 2 .. Len(todo) BY <2>3, <3>5
    <3> QED BY <2>1, <3>4, <3>5, <3>6 DEF Pending
  <2> QED BY <1>4, <2>2, <2>3
<1> QED BY <1>2, <1>3, <1>4 DEF Unloading, Cleanups

\* How many references are still to be given back.
LEMMA ReplacedDrops ==
  ASSUME todo \in Seq(Cleanups), NEW op, NEW x, Doing(op, x), NEW new \in Seq(Cleanups), Then(new), NEW d
  PROVE  /\ Number(todo', Dropped(d)) + (IF op = "drop" /\ x = d THEN 1 ELSE 0)
              = Number(todo, Dropped(d)) + Number(new, Dropped(d))
         /\ Number(todo, Dropped(d)) \in Nat /\ Number(todo', Dropped(d)) \in Nat
         /\ Number(new, Dropped(d)) \in Nat
<1>1. <<op, x>> \in Dropped(d) <=> op = "drop" /\ x = d BY DEF Dropped
<1>2. /\ Number(todo', Dropped(d)) + (IF <<op, x>> \in Dropped(d) THEN 1 ELSE 0)
           = Number(todo, Dropped(d)) + Number(new, Dropped(d))
      /\ Number(todo, Dropped(d)) \in Nat /\ Number(todo', Dropped(d)) \in Nat
      /\ Number(new, Dropped(d)) \in Nat
  BY ThenNumber
<1> QED BY <1>1, <1>2

-----------------------------------------------------------------------------
(* The steps of a call that unloads.                                       *)

\* The agendas of one task.
LEMMA OneTask ==
  ASSUME NEW t \in Cleanups
  PROVE  /\ <<t>> \in Seq(Cleanups) /\ Len(<<t>>) = 1 /\ <<t>>[1] = t
         /\ \A k \in 1 .. Len(<<t>>) : k = 1 /\ <<t>>[k] = t
OBVIOUS

\* A task is done and has no successor: the shape stays.
LEMMA NothingNewKept ==
  ASSUME Unloading, Shrinks(<< >>),
         \A y : \A i \in 2 .. Len(todo) : todo[i] = <<"unref", y>> => refs'[y] > 0,
         \A y : 2 \in 2 .. Len(todo) /\ todo[2] = <<"remove", y>> => y \in listed'
  PROVE  UnloadPending' /\ UnrefPending' /\ RemovePending' /\ ParentGoes'
<1> DEFINE new == << >>
<1>1. Replaces(new) BY DEF Shrinks
<1>2. Len(new) = 0 OBVIOUS
<1> HIDE DEF new
<1>3. \A k \in 1 .. Len(new) : FALSE BY <1>2
<1>4. Shrinks(new) BY DEF new
<1>5. UnloadPending' BY <1>3, <1>4, UnloadPendingKept
<1>6. UnrefPending' BY <1>3, <1>4, UnrefPendingKept
<1>7. RemovePending' BY <1>1, <1>2, <1>3, RemovePendingKept
<1>8. ParentGoes' BY <1>1, <1>3, ParentGoesKept
<1> QED BY <1>5, <1>6, <1>7, <1>8

\* The ledger of a step that counts nothing.
LEMMA LedgerSame ==
  ASSUME Ledger, todo \in Seq(Cleanups), NEW op, NEW x, Doing(op, x), NEW new \in Seq(Cleanups), Then(new),
         Shrinks(new), UNCHANGED refs, \A k \in 1 .. Len(new) : \A d : new[k] # <<"drop", d>>
  PROVE  Ledger'
<1>1. refs \in [Modules -> Nat] /\ refs' \in [Modules -> Nat] BY DEF Shrinks
<1>2. todo' \in Seq(Cleanups) BY ReplaceProperties DEF Shrinks
<1>3. ASSUME NEW d \in Plugins
      PROVE  Cardinality(Claims(d, Counted')) + Number(todo', Dropped(d))
               + (IF refs'[d] > 0 THEN 1 ELSE 0) <= refs'[d]
  <2>1. Cardinality(Claims(d, Counted')) <= Cardinality(Claims(d, Counted)) BY CountedShrinks
  <2>2. Cardinality(Claims(d, Counted')) \in Nat BY <1>1, CountedTypeNext, ClaimsFinite
  <2>3. Number(new, Dropped(d)) = 0
    <3>1. DOMAIN new = 1 .. Len(new) BY LenProperties
    <3>2. \A k \in DOMAIN new : new[k] \notin Dropped(d) BY <3>1 DEF Dropped
    <3> QED BY <3>2, NumberType
  <2>4. /\ Number(todo', Dropped(d)) + (IF op = "drop" /\ x = d THEN 1 ELSE 0)
             = Number(todo, Dropped(d)) + Number(new, Dropped(d))
        /\ Number(todo', Dropped(d)) \in Nat /\ Number(todo, Dropped(d)) \in Nat
    BY ReplacedDrops
  <2>5. Number(todo', Dropped(d)) <= Number(todo, Dropped(d)) BY ONLY <2>3, <2>4
  <2>6. /\ Cardinality(Claims(d, Counted)) + Number(todo, Dropped(d))
             + (IF refs[d] > 0 THEN 1 ELSE 0) <= refs[d]
        /\ Cardinality(Claims(d, Counted)) \in Nat /\ refs[d] \in Nat
    BY <1>1, LedgerOfUnload
  <2>7. refs'[d] = refs[d] OBVIOUS
  <2> QED BY ONLY <2>1, <2>2, <2>4, <2>5, <2>6, <2>7
<1> QED BY <1>1, <1>2, <1>3, LedgerOfUnloadNext

\* A step that counts nothing.
LEMMA UncountedKept ==
  ASSUME PluginInv, NEW op \in {"unload", "drop"}, NEW x, Doing(op, x),
         NEW new \in Seq(Cleanups), Then(new), UNCHANGED <<inits, list, tail, refs, inited>>,
         \A k \in 1 .. Len(new) : new[k][1] \in {"unload", "unref"},
         UnloadPending', UnrefPending', RemovePending', ParentGoes'
  PROVE  PluginInv'
<1>1. /\ TypeOK /\ Ledger /\ Counts /\ TailIsLast /\ Unloading
      /\ refs \in [Modules -> Nat] /\ todo \in Seq(Cleanups) /\ todo[1] = <<op, x>>
  BY UnloadDoing
<1>2. todo[1][1] = op BY <1>1
<1>3. refs' \in [Modules -> Nat] /\ \A m \in Modules : refs'[m] = refs[m] /\ refs'[m] <= refs[m] BY <1>1
<1>4. Shrinks(new) BY <1>3, UnloadShrinks
<1>5. \A k \in 1 .. Len(new) : \A m : new[k] # <<"remove", m>> /\ new[k] # <<"drop", m>>
  <2>1. \A m : <<"remove", m>>[1] = "remove" /\ <<"drop", m>>[1] = "drop" OBVIOUS
  <2>2. \A k \in 1 .. Len(new) : new[k][1] # "remove" /\ new[k][1] # "drop" OBVIOUS
  <2> QED BY <2>1, <2>2
<1>6. Counts'
  <2>1. \A p \in inited' : refs'[p] > 0 BY <1>1 DEF Counts
  <2> QED BY <1>1, <2>1, CountsKept
<1>7. TypeOK' /\ TailIsLast'
  <2>1. todo[1][1] \notin {"remove", "next"} BY <1>2
  <2>2. \A p \in inited' : refs'[p] > 0 BY <1>6 DEF Counts
  <2>3. \A m \in Modules : refs'[m] > 0 <=>
           refs[m] > 0 /\ \A k \in 1 .. Len(new) : new[k] # <<"remove", m>>
    BY <1>5
  <2> QED BY <1>1, <1>4, <2>1, <2>2, <2>3, UnloadTypesKept
<1>8. Ledger'
  <2>1. \A k \in 1 .. Len(new) : \A d : new[k] # <<"drop", d>> BY <1>5
  <2> QED BY <1>1, <1>4, <2>1, LedgerSame
<1>9. Unloading'
  <2>1. \A k \in 1 .. Len(new) : new[k][1] \notin {"next", "fail"} OBVIOUS
  <2>2. \A p \in Plugins : refs'[p] > 0 /\ p \notin inited' =>
           \/ p \notin inited /\ todo[1] # <<"unref", p>>
           \/ refs'[p] = 1 /\ \E k \in 1 .. Len(new) : new[k] = <<"unref", p>>
    <3>1. \A p : <<"unref", p>>[1] = "unref" OBVIOUS
    <3>2. todo[1][1] # "unref" BY <1>2
    <3> QED BY <3>1, <3>2
  <2> QED BY <1>1, <1>4, <2>1, <2>2, UnloadingKept
<1> QED BY <1>6, <1>7, <1>8, <1>9 DEF PluginInv

\* Nothing is found, or the finalizer fails.
LEMMA NothingDoneKept ==
  ASSUME PluginInv, NEW op \in {"unload", "drop"}, NEW x, Doing(op, x),
         Then(<< >>), UNCHANGED <<inits, list, tail, refs, inited>>
  PROVE  PluginInv'
<1>1. Unloading /\ todo \in Seq(Cleanups) /\ refs \in [Modules -> Nat] BY UnloadDoing
<1>2. << >> \in Seq(Cleanups) BY CleanupTypes
<1>3. Shrinks(<< >>)
  <2>1. refs' \in [Modules -> Nat] /\ \A m \in Modules : refs'[m] <= refs[m] BY <1>1
  <2> QED BY <1>2, <2>1, UnloadShrinks
<1>4. \A y : \A i \in 2 .. Len(todo) : todo[i] = <<"unref", y>> => refs'[y] > 0
  BY <1>1, BehindProperties
<1>5. \A y : 2 \in 2 .. Len(todo) /\ todo[2] = <<"remove", y>> => y \in listed'
  <2>1. listed' = listed BY DEF listed
  <2> QED BY <1>1, <2>1, BehindProperties
<1>6. UnloadPending' /\ UnrefPending' /\ RemovePending' /\ ParentGoes'
  BY <1>1, <1>3, <1>4, <1>5, NothingNewKept
<1>7. \A k \in 1 .. Len(<< >>) : FALSE OBVIOUS
<1> QED BY <1>2, <1>6, <1>7, UncountedKept

\* The first task of an unload and those behind it are about different modules.
LEMMA UnloadHead ==
  ASSUME PluginInv, NEW m \in Modules, Doing("unload", m)
  PROVE  /\ \A j \in 2 .. Len(todo) : todo[j] \notin About(m)
         /\ m \in Plugins => Unclaimed(m)
         /\ m \notin Plugins => refs[m] = 1
         /\ Found(m) => refs[m] > 0
         /\ Found(m) /\ m \in Plugins /\ m \notin inited => FALSE
<1>1. /\ TypeOK /\ Counts /\ Unloading /\ ListOK /\ refs \in [Modules -> Nat]
      /\ 1 \in DOMAIN todo /\ DOMAIN todo = 1 .. Len(todo)
      /\ todo[1] = <<"unload", m>> /\ Op(1) = "unload" /\ Arg(1) = m
  BY UnloadDoing
<1>2. /\ \A j \in DOMAIN todo : todo[j] = todo[1] => j = 1
      /\ ~Pending("unref", m) /\ ~Pending("remove", m)
      /\ m \in Plugins => Unclaimed(m)
  BY <1>1 DEF Unloading, UnloadPending
<1>3. ASSUME NEW j \in 2 .. Len(todo) PROVE todo[j] \notin About(m)
  <2>1. j \in 1 .. Len(todo) /\ j # 1 OBVIOUS
  <2>2. todo[j] # <<"unload", m>> BY <1>1, <1>2, <2>1
  <2>3. todo[j] # <<"unref", m>> /\ todo[j] # <<"remove", m>> BY <1>2, <2>1 DEF Pending, Contains
  <2> QED BY <2>2, <2>3 DEF About
<1>4. ASSUME m \notin Plugins PROVE refs[m] = 1
  <2>1. PICK f \in Files : Multi(f) /\ m = Parent(f) BY <1>4, ModuleTypes
  <2> QED BY <1>1, <2>1 DEF Unloading, ParentGoes
<1>5. Found(m) => refs[m] > 0
  <2>1. Found(m) => m \in listed BY <1>1, WalkProperties
  <2>2. ~Contains(todo, <<"remove", m>>) BY <1>2 DEF Pending
  <2>3. (refs[m] > 0) = (m \in listed /\ ~Contains(todo, <<"remove", m>>)) BY <1>1 DEF TypeOK
  <2> QED BY <2>1, <2>2, <2>3
<1>6. Found(m) /\ m \in Plugins /\ m \notin inited => FALSE BY <1>1, <1>2, <1>5 DEF Unloading
<1> QED BY <1>2, <1>3, <1>4, <1>5, <1>6

\* What an initialized plugin depends on is claimed.
LEMMA Claimed ==
  ASSUME todo \in Seq(Cleanups), refs \in [Modules -> Nat], NEW p \in Plugins, p \in inited, refs[p] > 0,
         NEW d, Contains(Depends[p], d)
  PROVE  Claims(d, Counted) # {}
<1>1. Counted[p] = refs[p] /\ refs[p] \in Nat BY CountedOfUnload, ModuleTypes
<1>2. Uses(p, d) # {} BY UsesProperties
<1>3. PICK i \in Uses(p, d) : TRUE BY <1>2
<1>4. 1 \in 1 .. Counted[p] BY <1>1
<1>5. <<<<p, i>>, 1>> \in Claims(d, Counted) BY <1>3, <1>4, ClaimsMember
<1> QED BY <1>5

\* A reference is about to be given back.
LEMMA UnloadUnrefKeeps ==
  ASSUME PluginInv, NEW m \in Modules, Doing("unload", m), m \notin Plugins \/ (Found(m) /\ refs[m] # 1),
         Then(<<<<"unref", m>>>>), UNCHANGED <<inits, list, tail, refs, inited>>
  PROVE  PluginInv'
<1> DEFINE t == <<"unref", m>>
           new == <<t>>
<1>1. /\ Unloading /\ refs \in [Modules -> Nat] /\ inited \subseteq Plugins
      /\ todo \in Seq(Cleanups) /\ todo[1] = <<"unload", m>> /\ Len(todo) \in Nat
  BY UnloadDoing
<1>2. /\ \A j \in 2 .. Len(todo) : todo[j] \notin About(m)
      /\ m \in Plugins => Unclaimed(m)
      /\ refs[m] > 0 /\ (m \notin Plugins => refs[m] = 1)
      /\ (m \in Plugins => refs[m] # 1)
  <2>1. m \notin Plugins => refs[m] = 1 BY UnloadHead
  <2> QED BY <2>1, UnloadHead
<1>3. t \in Cleanups BY CleanupTypes
<1>4. /\ new \in Seq(Cleanups) /\ Len(new) = 1 /\ new[1] = t
      /\ \A k \in 1 .. Len(new) : k = 1 /\ new[k] = t
  BY <1>3, OneTask
<1>5. Then(new) OBVIOUS
<1> HIDE DEF new
<1>6. Shrinks(new)
  <2>1. refs' \in [Modules -> Nat] /\ \A c \in Modules : refs'[c] <= refs[c] BY <1>1
  <2> QED BY <1>4, <1>5, <2>1, UnloadShrinks
<1>7. Replaces(new) BY <1>6 DEF Shrinks
<1>8. \A y : /\ t \in About(y) => y = m
             /\ t # <<"unload", y>> /\ t # <<"remove", y>> /\ t # <<"drop", y>>
             /\ t = <<"unref", y>> => y = m
  BY DEF About
<1>9. t[1] = "unref" /\ t[2] = m OBVIOUS
<1> HIDE DEF t
<1>10. UnloadPending'
  <2>1. ASSUME NEW y, NEW i \in 2 .. Len(todo), todo[i] = <<"unload", y>>
        PROVE  \A k \in 1 .. Len(new) : new[k] \notin About(y) /\ new[k] # <<"drop", y>>
    <3>1. y # m BY <1>2, <2>1 DEF About
    <3> QED BY <1>4, <1>8, <3>1
  <2>2. \A y : \A i \in 1 .. Len(new) : new[i] # <<"unload", y>> BY <1>4, <1>8
  <2> QED BY <1>1, <1>6, <2>1, <2>2, UnloadPendingKept
<1>11. UnrefPending'
  <2>1. ASSUME NEW y, NEW i \in 2 .. Len(todo), todo[i] = <<"unref", y>>
        PROVE  /\ \A k \in 1 .. Len(new) : new[k] \notin {<<"unref", y>>, <<"remove", y>>, <<"drop", y>>}
               /\ refs'[y] > 0
    <3>1. y # m BY <1>2, <2>1 DEF About
    <3>2. refs[y] > 0 BY <1>1, <2>1, BehindProperties
    <3> QED BY <1>4, <1>8, <3>1, <3>2
  <2>2. ASSUME NEW y, NEW i \in 1 .. Len(new), new[i] = <<"unref", y>>
        PROVE  /\ \A k \in 1 .. Len(new) : k # i => new[k] \notin About(y)
               /\ \A k \in 2 .. Len(todo) : todo[k] \notin About(y)
               /\ refs'[y] > 0
               /\ y \in Plugins => Unclaimed(y)'
               /\ y \in inited' => i = 1 /\ refs'[y] > 1
    <3>1. i = 1 /\ y = m BY <1>4, <1>8, <2>2
    <3>2. refs'[y] = refs[m] /\ refs[m] \in Nat /\ (y \in inited' => y \in Plugins) BY <1>1, <3>1
    <3>3. ASSUME y \in Plugins PROVE Unclaimed(y)'
      <4>1. Unclaimed(y) BY <1>2, <3>1, <3>3
      <4>2. \A k \in 1 .. Len(new) : new[k] # <<"drop", y>> BY <1>4, <1>8
      <4> QED BY <1>6, <4>1, <4>2, UnclaimedKept
    <3>4. refs'[y] > 0 /\ (y \in inited' => refs'[y] > 1) BY <1>2, <3>1, <3>2
    <3> QED BY <1>2, <1>4, <3>1, <3>3, <3>4
  <2> QED BY <1>1, <1>6, <2>1, <2>2, UnrefPendingKept
<1>12. RemovePending'
  <2>1. ASSUME NEW y, 2 \in 2 .. Len(todo), todo[2] = <<"remove", y>>
        PROVE  /\ y \in listed'
               /\ \/ Len(new) = 0
                  \/ /\ Len(new) = 1 /\ new[1][1] \in {"unload", "unref", "remove"}
                     /\ new[1][2] = todo[1][2]
    <3>1. y \in listed BY <1>1, <2>1, BehindProperties
    <3>2. todo[1][2] = m BY <1>1
    <3> QED BY <1>4, <1>9, <3>1, <3>2 DEF listed
  <2>2. \A y : \A i \in 1 .. Len(new) : new[i] # <<"remove", y>> BY <1>4, <1>8
  <2> QED BY <1>1, <1>7, <2>1, <2>2, RemovePendingKept
<1>13. ParentGoes'
  <2>1. ASSUME NEW f \in Files, NEW i \in 1 .. Len(new), Multi(f),
               new[i] \in {<<"unload", Parent(f)>>, <<"unref", Parent(f)>>}
        PROVE  i = 1 /\ refs'[Parent(f)] = 1
    <3>1. i = 1 /\ Parent(f) = m BY <1>4, <1>8, <2>1
    <3>2. m \notin Plugins BY <3>1, Parents
    <3> QED BY <1>2, <3>1, <3>2
  <2> QED BY <1>1, <1>7, <2>1, ParentGoesKept
<1>14. \A k \in 1 .. Len(new) : new[k][1] \in {"unload", "unref"} BY <1>4, <1>9
<1> QED BY <1>4, <1>5, <1>10, <1>11, <1>12, <1>13, <1>14, UncountedKept

\* What a plugin that is finalized depends on is about to be given back.
FinalTasks(m) == Tasks("drop", Depends[m]) \o <<<<"unref", m>>>>

\* The tasks that follow a finalizer: one for each dependency, then the reference.
LEMMA FinalTaskProperties ==
  ASSUME NEW m \in Plugins
  PROVE  /\ FinalTasks(m) \in Seq(Cleanups) /\ Len(FinalTasks(m)) = Len(Depends[m]) + 1
         /\ Len(Depends[m]) \in Nat
         /\ FinalTasks(m)[Len(Depends[m]) + 1] = <<"unref", m>>
         /\ \A k \in 1 .. Len(Depends[m]) : FinalTasks(m)[k] = <<"drop", Depends[m][k]>>
         /\ \A k \in 1 .. Len(FinalTasks(m)) :
              k \in 1 .. Len(Depends[m]) \/ k = Len(Depends[m]) + 1
         /\ \A d : Number(FinalTasks(m), Dropped(d)) = Cardinality(Uses(m, d))
<1> DEFINE us == Tasks("drop", Depends[m])
           t == <<"unref", m>>
<1>1. Depends[m] \in Seq(Plugins) /\ Len(Depends[m]) \in Nat BY DependsTypes
<1>2. \A p \in Plugins : <<"drop", p>> \in Cleanups BY CleanupTypes
<1>3. /\ us \in Seq(Cleanups) /\ Len(us) = Len(Depends[m])
      /\ \A k \in 1 .. Len(Depends[m]) : us[k] = <<"drop", Depends[m][k]>>
  <2> DEFINE V == Cleanups
             xs == Depends[m]
  <2>1. xs \in Seq(Plugins) /\ \A x \in Plugins : <<"drop", x>> \in V BY <1>1, <1>2
  <2> HIDE DEF V, xs
  <2>2. /\ Tasks("drop", xs) \in Seq(V) /\ Len(Tasks("drop", xs)) = Len(xs)
        /\ \A i \in 1 .. Len(xs) : Tasks("drop", xs)[i] = <<"drop", xs[i]>>
    BY <2>1, Tasked
  <2> QED BY <2>2 DEF V, xs
<1>4. t \in Cleanups BY CleanupTypes, ModuleTypes
<1>5. FinalTasks(m) = us \o <<t>> BY DEF FinalTasks
<1>6. ASSUME NEW d PROVE Number(FinalTasks(m), Dropped(d)) = Cardinality(Uses(m, d))
  <2>1. \A x : <<"drop", x>> \in Dropped(d) <=> x = d BY DEF Dropped
  <2>2. Number(us, Dropped(d)) = Cardinality(Uses(m, d)) BY <2>1, NumberTasks
  <2>3. t \notin Dropped(d) BY DEF Dropped
  <2>4. Number(<<t>>, Dropped(d)) = 0 BY <2>3, NumberOne
  <2>5. <<t>> \in Seq(Cleanups) BY <1>4
  <2>6. Number(us \o <<t>>, Dropped(d)) = Number(us, Dropped(d)) + Number(<<t>>, Dropped(d))
    BY <1>3, <2>5, NumberConcat
  <2>7. Cardinality(Uses(m, d)) \in Nat BY UsesProperties
  <2> QED BY <1>5, <2>2, <2>4, <2>6, <2>7
<1> HIDE DEF us
<1>7. /\ us \o <<t>> \in Seq(Cleanups) /\ Len(us \o <<t>>) = Len(us) + 1
      /\ (us \o <<t>>)[Len(us) + 1] = t /\ \A k \in 1 .. Len(us) : (us \o <<t>>)[k] = us[k]
  BY <1>3, <1>4, Ended
<1> HIDE DEF t
<1>8. \A k \in 1 .. Len(FinalTasks(m)) :
        k \in 1 .. Len(Depends[m]) \/ k = Len(Depends[m]) + 1
  BY <1>1, <1>3, <1>5, <1>7
<1> QED BY <1>1, <1>3, <1>5, <1>6, <1>7, <1>8 DEF t

\* unloadModule, after the finalizer: nobody depends on the plugin.
LEMMA FinalizedKeeps ==
  ASSUME PluginInv, DependsInited, NEW m \in Plugins, Doing("unload", m), Found(m), refs[m] = 1,
         Then(FinalTasks(m)), inited' = inited \ {m}, UNCHANGED <<inits, list, tail, refs>>
  PROVE  PluginInv' /\ DependsInited'
<1> DEFINE new == FinalTasks(m)
           n == Len(Depends[m])
<1>1. /\ TypeOK /\ Ledger /\ Counts /\ TailIsLast /\ Unloading
      /\ refs \in [Modules -> Nat] /\ inited \subseteq Plugins
      /\ todo \in Seq(Cleanups) /\ todo[1] = <<"unload", m>> /\ Len(todo) \in Nat
  BY ModuleTypes, UnloadDoing
<1>2. /\ \A j \in 2 .. Len(todo) : todo[j] \notin About(m)
      /\ Unclaimed(m) /\ m \in inited
  BY ModuleTypes, UnloadHead
<1>3. todo[1][1] = "unload" /\ todo[1][2] = m /\ \A p : todo[1] # <<"unref", p>>
  <2>1. todo[1][1] = "unload" /\ todo[1][2] = m BY <1>1
  <2>2. \A p : <<"unref", p>>[1] = "unref" OBVIOUS
  <2> QED BY <2>1, <2>2
<1>4. /\ new \in Seq(Cleanups) /\ Len(new) = n + 1 /\ n \in Nat
      /\ new[n + 1] = <<"unref", m>>
      /\ \A k \in 1 .. n : new[k] = <<"drop", Depends[m][k]>>
      /\ \A k \in 1 .. Len(new) : k \in 1 .. n \/ k = n + 1
      /\ \A d : Number(new, Dropped(d)) = Cardinality(Uses(m, d))
  BY FinalTaskProperties
<1>5. Then(new) OBVIOUS
<1> HIDE DEF new
<1>6. Shrinks(new)
  <2>1. /\ refs' \in [Modules -> Nat] /\ inited' \subseteq inited
        /\ \A c \in Modules : refs'[c] <= refs[c]
    BY <1>1
  <2> QED BY <1>4, <1>5, <2>1, UnloadShrinks
<1>7. Replaces(new) BY <1>6 DEF Shrinks
\* The last of the new tasks, and the others.
<1>8. ASSUME NEW k \in 1 .. Len(new)
      PROVE  \/ k = n + 1 /\ new[k] = <<"unref", m>>
             \/ /\ k \in 1 .. n /\ new[k] = <<"drop", Depends[m][k]>>
                /\ new[k][1] = "drop" /\ Contains(Depends[m], Depends[m][k])
  <2>1. CASE k = n + 1 BY <1>4, <2>1
  <2>2. CASE k \in 1 .. n
    <3>1. Contains(Depends[m], Depends[m][k]) BY <2>2, DependsTypes
    <3>2. new[k] = <<"drop", Depends[m][k]>> BY <1>4, <2>2
    <3>3. new[k][1] = "drop" BY <3>2
    <3> QED BY <2>2, <3>1, <3>2, <3>3
  <2> QED BY <1>4, <2>1, <2>2
<1>9. ASSUME NEW y, NEW k \in 1 .. Len(new)
      PROVE  /\ new[k] # <<"unload", y>> /\ new[k] # <<"remove", y>>
             /\ new[k] = <<"unref", y>> => y = m /\ k = n + 1
             /\ new[k] \in About(y) => y = m /\ k = n + 1
             /\ new[k] = <<"drop", y>> => Contains(Depends[m], y)
  <2>1. /\ <<"unref", m>> # <<"unload", y>> /\ <<"unref", m>> # <<"remove", y>>
        /\ <<"unref", m>> # <<"drop", y>> /\ (<<"unref", m>> = <<"unref", y>> => y = m)
    OBVIOUS
  <2>2. \A d : /\ <<"drop", d>> # <<"unload", y>> /\ <<"drop", d>> # <<"remove", y>>
               /\ <<"drop", d>> # <<"unref", y>> /\ (<<"drop", d>> = <<"drop", y>> => d = y)
    OBVIOUS
  <2>3. CASE k = n + 1 /\ new[k] = <<"unref", m>> BY <2>1, <2>3 DEF About
  <2>4. CASE new[k] = <<"drop", Depends[m][k]>> /\ Contains(Depends[m], Depends[m][k])
    BY <2>2, <2>4 DEF About
  <2> QED BY <1>8, <2>3, <2>4
<1> HIDE DEF n
<1>10. refs[m] > 0 /\ \A y : Contains(Depends[m], y) => Claims(y, Counted) # {}
  <2>1. refs[m] > 0 OBVIOUS
  <2> QED BY <1>1, <1>2, <2>1, Claimed
<1>11. ~Contains(Depends[m], m) BY RankProperties
<1>12. UnloadPending'
  <2>1. ASSUME NEW y, NEW i \in 2 .. Len(todo), todo[i] = <<"unload", y>>
        PROVE  \A k \in 1 .. Len(new) : new[k] \notin About(y) /\ new[k] # <<"drop", y>>
    <3>1. y # m BY <1>2, <2>1 DEF About
    <3>2. Unclaimed(y) BY <1>1, <2>1, BehindProperties
    <3>3. ~Contains(Depends[m], y) BY <1>10, <3>2 DEF Unclaimed
    <3> QED BY <1>9, <3>1, <3>3
  <2>2. \A y : \A i \in 1 .. Len(new) : new[i] # <<"unload", y>> BY <1>9
  <2> QED BY <1>1, <1>6, <2>1, <2>2, UnloadPendingKept
<1>13. UnrefPending'
  <2>1. ASSUME NEW y, NEW i \in 2 .. Len(todo), todo[i] = <<"unref", y>>
        PROVE  /\ \A k \in 1 .. Len(new) : new[k] \notin {<<"unref", y>>, <<"remove", y>>, <<"drop", y>>}
               /\ refs'[y] > 0
    <3>1. y # m BY <1>2, <2>1 DEF About
    <3>2. refs[y] > 0 /\ Unclaimed(y) BY <1>1, <2>1, BehindProperties
    <3>3. ~Contains(Depends[m], y) BY <1>10, <3>2 DEF Unclaimed
    <3> QED BY <1>9, <3>1, <3>2, <3>3
  <2>2. ASSUME NEW y, NEW i \in 1 .. Len(new), new[i] = <<"unref", y>>
        PROVE  /\ \A k \in 1 .. Len(new) : k # i => new[k] \notin About(y)
               /\ \A k \in 2 .. Len(todo) : todo[k] \notin About(y)
               /\ refs'[y] > 0
               /\ y \in Plugins => Unclaimed(y)'
               /\ y \in inited' => i = 1 /\ refs'[y] > 1
    <3>1. y = m /\ i = n + 1 BY <1>9, <2>2
    <3>2. Unclaimed(m)'
      <4>1. \A k \in 1 .. Len(new) : new[k] # <<"drop", m>> BY <1>9, <1>11
      <4> QED BY <1>2, <1>6, <4>1, UnclaimedKept
    <3>3. \A k \in 1 .. Len(new) : k # i => new[k] \notin About(y) BY <1>9, <3>1
    <3>4. refs'[y] > 0 /\ y \notin inited' BY <1>10, <3>1
    <3>5. Unclaimed(y)' BY <3>1, <3>2
    <3> QED BY <1>2, <3>1, <3>3, <3>4, <3>5
  <2> QED BY <1>1, <1>6, <2>1, <2>2, UnrefPendingKept
<1>14. RemovePending'
  <2>1. ASSUME NEW y, 2 \in 2 .. Len(todo), todo[2] = <<"remove", y>> PROVE FALSE
    <3>1. todo[1][2] \notin Plugins BY <1>1, <2>1, BehindProperties
    <3> QED BY <1>3, <3>1
  <2>2. \A y : \A i \in 1 .. Len(new) : new[i] # <<"remove", y>> BY <1>9
  <2> QED BY <1>1, <1>7, <2>1, <2>2, RemovePendingKept
<1>15. ParentGoes'
  <2>1. ASSUME NEW f \in Files, NEW i \in 1 .. Len(new), Multi(f),
               new[i] \in {<<"unload", Parent(f)>>, <<"unref", Parent(f)>>}
        PROVE  FALSE
    <3>1. Parent(f) = m BY <1>9, <2>1
    <3> QED BY <3>1, Parents
  <2> QED BY <1>1, <1>7, <2>1, ParentGoesKept
<1>16. Counts'
  <2>1. \A p \in inited' : refs'[p] > 0 BY <1>1 DEF Counts
  <2> QED BY <1>1, <2>1, CountsKept
<1>17. TypeOK' /\ TailIsLast'
  <2>1. todo[1][1] \notin {"remove", "next"} BY <1>3
  <2>2. \A p \in inited' : refs'[p] > 0 BY <1>16 DEF Counts
  <2>3. \A c \in Modules : refs'[c] > 0 <=>
           refs[c] > 0 /\ \A k \in 1 .. Len(new) : new[k] # <<"remove", c>>
    BY <1>9
  <2> QED BY <1>1, <1>6, <2>1, <2>2, <2>3, UnloadTypesKept
<1>18. Ledger'
  <2>1. todo' \in Seq(Cleanups) /\ refs' \in [Modules -> Nat] BY <1>1, <1>7, ReplaceProperties
  <2>2. ASSUME NEW d \in Plugins
        PROVE  Cardinality(Claims(d, Counted')) + Number(todo', Dropped(d))
                 + (IF refs'[d] > 0 THEN 1 ELSE 0) <= refs'[d]
    <3>1. Counted \in [Plugins -> Nat] /\ Counted' \in [Plugins -> Nat] BY <1>6, CountedShrinks
    <3>2. Counted[m] = Counted'[m] + 1
      <4>1. Counted[m] = 1 /\ Counted'[m] = 0 BY <1>1, <1>2, <2>1, CountedOfUnload
      <4> QED BY <4>1
    <3>3. \A p \in Plugins : m # p => Counted[p] = Counted'[p] BY <1>1, <2>1, CountedOfUnload
    <3>4. Cardinality(Claims(d, Counted)) = Cardinality(Claims(d, Counted')) + Cardinality(Uses(m, d))
      BY <3>1, <3>2, <3>3, ClaimsAdd
    <3>5. Cardinality(Claims(d, Counted')) \in Nat BY <3>1, ClaimsFinite
    <3>6. /\ Number(todo', Dropped(d)) + (IF "unload" = "drop" /\ m = d THEN 1 ELSE 0)
               = Number(todo, Dropped(d)) + Number(new, Dropped(d))
          /\ Number(todo', Dropped(d)) \in Nat /\ Number(todo, Dropped(d)) \in Nat
      BY <1>1, <1>4, <1>5, ReplacedDrops
    <3>7. Number(new, Dropped(d)) = Cardinality(Uses(m, d)) /\ Cardinality(Uses(m, d)) \in Nat
      BY <1>4, UsesProperties
    <3>8. /\ Cardinality(Claims(d, Counted)) + Number(todo, Dropped(d))
               + (IF refs[d] > 0 THEN 1 ELSE 0) <= refs[d]
          /\ refs[d] \in Nat
      BY <1>1, LedgerOfUnload
    <3>9. refs'[d] = refs[d] OBVIOUS
    <3>10. Number(todo', Dropped(d)) = Number(todo, Dropped(d)) + Cardinality(Uses(m, d))
      BY <3>6, <3>7
    <3> QED BY ONLY <3>4, <3>5, <3>6, <3>7, <3>8, <3>9, <3>10
  <2> QED BY <2>1, <2>2, LedgerOfUnloadNext
<1>19. Unloading'
  <2>1. \A k \in 1 .. Len(new) : new[k][1] \notin {"next", "fail"}
    <3>1. <<"unref", m>>[1] = "unref" OBVIOUS
    <3> QED BY <1>8, <3>1
  <2>2. ASSUME NEW p \in Plugins, refs'[p] > 0, p \notin inited'
        PROVE  \/ p \notin inited /\ todo[1] # <<"unref", p>>
               \/ refs'[p] = 1 /\ \E k \in 1 .. Len(new) : new[k] = <<"unref", p>>
    <3>1. CASE p = m
      <4>1. n + 1 \in 1 .. Len(new) BY <1>4 DEF n
      <4> QED BY <1>4, <3>1, <4>1
    <3>2. CASE p # m BY <1>3, <2>2, <3>2
    <3> QED BY <3>1, <3>2
  <2> QED BY <1>1, <1>6, <1>12, <1>13, <1>14, <1>15, <2>1, <2>2, UnloadingKept
<1>20. DependsInited'
  <2>1. ASSUME NEW p \in inited', NEW d \in Plugins, Contains(Depends[p], d) PROVE d \in inited'
    <3>1. p \in inited /\ p \in Plugins BY <1>1
    <3>2. d \in inited BY <2>1, <3>1 DEF DependsInited
    <3>3. refs[p] > 0 BY <1>1, <3>1 DEF Counts
    <3>4. Claims(d, Counted) # {} BY <1>1, <2>1, <3>1, <3>3, Claimed
    <3>5. d # m BY <1>2, <3>4 DEF Unclaimed
    <3> QED BY <3>2, <3>5
  <2> QED BY <2>1 DEF DependsInited
<1> QED BY <1>16, <1>17, <1>18, <1>19, <1>20 DEF PluginInv

\* Steps that initialize and finalize nothing.
LEMMA SameInited ==
  ASSUME DependsInited, UNCHANGED inited PROVE DependsInited'
BY DEF DependsInited

\* unloadModule, in all its cases.
LEMMA UnloadModuleKeeps ==
  ASSUME PluginInv, DependsInited, NEW m \in Modules, UnloadModule(m)
  PROVE  PluginInv' /\ DependsInited'
<1>1. Doing("unload", m) /\ UNCHANGED <<inits, list, tail, refs>> BY DEF UnloadModule
<1>2. CASE m \in Plugins /\ ~Found(m)
  <2>1. Then(<< >>) /\ UNCHANGED inited BY <1>2 DEF UnloadModule
  <2>2. PluginInv' BY <1>1, <2>1, NothingDoneKept
  <2> QED BY <2>1, <2>2, SameInited
<1>3. CASE ~(m \in Plugins /\ ~Found(m)) /\ (m \notin Plugins \/ refs[m] # 1)
  <2>1. Then(<<<<"unref", m>>>>) /\ UNCHANGED inited BY <1>3 DEF UnloadModule
  <2>2. PluginInv' BY <1>1, <1>3, <2>1, UnloadUnrefKeeps
  <2> QED BY <2>1, <2>2, SameInited
<1>4. CASE m \in Plugins /\ Found(m) /\ refs[m] = 1
  <2>1. inited' = inited \ {m} /\ Then(FinalTasks(m)) BY <1>4 DEF UnloadModule, FinalTasks
  <2> QED BY <1>1, <1>4, <2>1, FinalizedKeeps
<1> QED BY <1>2, <1>3, <1>4

\* unloadModule, for a finalizer that fails.
LEMMA FiniFailsKeeps ==
  ASSUME PluginInv, NEW p \in Plugins, FiniFails(p)
  PROVE  PluginInv'
<1>1. Doing("unload", p) /\ Then(<< >>) /\ UNCHANGED <<inits, list, tail, refs, inited>>
  BY DEF FiniFails
<1> QED BY <1>1, NothingDoneKept

\* A plugin with one reference is not claimed.
LEMMA UnclaimedNext ==
  ASSUME todo' \in Seq(Cleanups), refs' \in [Modules -> Nat], NEW d \in Plugins, refs'[d] = 1,
         Cardinality(Claims(d, Counted')) + Number(todo', Dropped(d)) + 1 <= 1
  PROVE  Unclaimed(d)'
<1>1. IsFiniteSet(Claims(d, Counted')) /\ Cardinality(Claims(d, Counted')) \in Nat
  BY CountedTypeNext, ClaimsFinite
<1>2. Number(todo', Dropped(d)) \in Nat BY CleanupKinds
<1>3. Cardinality(Claims(d, Counted')) = 0 /\ Number(todo', Dropped(d)) = 0 BY <1>1, <1>2
<1>4. Claims(d, Counted') = {} BY <1>1, <1>3, FS_EmptySet
<1>5. Claims(d, Counted)' = Claims(d, Counted') BY DEF Claims
<1>6. ~Contains(todo', <<"drop", d>>)
  <2>1. SUFFICES ASSUME NEW i \in 1 .. Len(todo'), todo'[i] = <<"drop", d>> PROVE FALSE BY DEF Contains
  <2>2. i \in DOMAIN todo' /\ todo'[i] \in Dropped(d) BY <2>1, LenProperties DEF Dropped
  <2>3. \E j \in DOMAIN todo' : todo'[j] \in Dropped(d) BY <2>2
  <2>4. Number(todo', Dropped(d)) >= 1 BY <2>3, NumberType
  <2> QED BY <1>3, <2>4
<1> QED BY <1>4, <1>5, <1>6 DEF Unclaimed, Pending

\* What is about to lose a reference of a dependent has one of its own.
LEMMA DropHead ==
  ASSUME PluginInv, NEW d \in Plugins, Doing("drop", d)
  PROVE  /\ refs[d] \in Nat /\ refs[d] > 1 /\ d \in inited /\ Pending("drop", d)
         /\ \A f \in Files : Multi(f) => d \notin ToSet(Contents[f]) /\ d # Parent(f)
<1>1. /\ Ledger /\ Counts /\ Unloading /\ refs \in [Modules -> Nat]
      /\ todo \in Seq(Cleanups) /\ 1 \in DOMAIN todo /\ todo[1] = <<"drop", d>>
      /\ DOMAIN todo = 1 .. Len(todo)
  BY UnloadDoing
<1>2. Number(todo, Dropped(d)) >= 1
  <2>1. todo[1] \in Dropped(d) BY <1>1 DEF Dropped
  <2> QED BY <1>1, <2>1, NumberType
<1>3. refs[d] \in Nat /\ refs[d] > 1
  <2>1. /\ Cardinality(Claims(d, Counted)) + Number(todo, Dropped(d))
             + (IF refs[d] > 0 THEN 1 ELSE 0) <= refs[d]
        /\ Cardinality(Claims(d, Counted)) \in Nat /\ Number(todo, Dropped(d)) \in Nat
        /\ refs[d] \in Nat
    BY <1>1, LedgerOfUnload
  <2> QED BY ONLY <1>2, <2>1
<1>4. d \in inited BY <1>1, <1>3 DEF Unloading
<1>5. ASSUME NEW f \in Files, Multi(f) PROVE d \notin ToSet(Contents[f]) /\ d # Parent(f)
  <2>1. d \in ToSet(Contents[f]) => d \in Counting(f) BY <1>3 DEF Counting
  <2>2. d \in Counting(f) => refs[d] = 1 BY <1>1, <1>5 DEF Counts
  <2> QED BY <1>3, <2>1, <2>2, Parents
<1>6. Pending("drop", d) BY <1>1 DEF Pending, Contains
<1> QED BY <1>3, <1>4, <1>5, <1>6

\* unloadModuleDepends: a dependency loses a reference, and goes with the last claim.
LEMMA UnloadDependKeeps ==
  ASSUME PluginInv, DependsInited, NEW d \in Plugins, UnloadDepend(d)
  PROVE  PluginInv' /\ DependsInited'
<1>1. Doing("drop", d) /\ UNCHANGED <<inits, list, tail, inited>> BY DEF UnloadDepend
<1>2. DependsInited' BY <1>1, SameInited
<1>3. CASE ~Found(d)
  <2>1. Then(<< >>) /\ UNCHANGED refs BY <1>3 DEF UnloadDepend
  <2>2. PluginInv' BY <1>1, <2>1, NothingDoneKept
  <2> QED BY <1>2, <2>2
<1>4. CASE Found(d)
  <2> DEFINE new == IF refs'[d] = 1 THEN <<<<"unload", d>>>> ELSE << >>
  <2>1. refs' = [refs EXCEPT ![d] = @ - 1] /\ Then(new) BY <1>4 DEF UnloadDepend
  <2>2. /\ TypeOK /\ Ledger /\ Counts /\ TailIsLast /\ Unloading
        /\ refs \in [Modules -> Nat] /\ inited \subseteq Plugins
        /\ todo \in Seq(Cleanups) /\ todo[1] = <<"drop", d>> /\ Len(todo) \in Nat
    BY <1>1, UnloadDoing
  <2>3. /\ refs[d] \in Nat /\ refs[d] > 1 /\ d \in inited /\ Pending("drop", d)
        /\ \A f \in Files : Multi(f) => d \notin ToSet(Contents[f]) /\ d # Parent(f)
    BY <1>1, DropHead
  <2>4. todo[1][1] = "drop" /\ \A p : todo[1] # <<"unref", p>>
    <3>1. todo[1][1] = "drop" BY <2>2
    <3>2. \A p : <<"unref", p>>[1] = "unref" OBVIOUS
    <3> QED BY <3>1, <3>2
  <2>5. d \in Modules /\ refs'[d] = refs[d] - 1 /\ refs' \in [Modules -> Nat]
        /\ \A m \in Modules : m # d => refs'[m] = refs[m]
    BY <2>1, <2>2, <2>3, ModuleTypes
  <2>6. refs'[d] \in Nat /\ refs'[d] > 0 /\ \A m \in Modules : refs'[m] <= refs[m]
    BY <2>2, <2>3, <2>5
  <2>7. /\ new \in Seq(Cleanups)
        /\ \A k \in 1 .. Len(new) : k = 1 /\ new[k] = <<"unload", d>> /\ refs'[d] = 1 /\ Len(new) = 1
    <3>1. << >> \in Seq(Cleanups) /\ \A k \in 1 .. Len(<< >>) : FALSE BY CleanupTypes
    <3>2. <<"unload", d>> \in Cleanups BY <2>5, CleanupTypes
    <3>3. CASE refs'[d] = 1
      <4>1. new = <<<<"unload", d>>>> BY <3>3
      <4> HIDE DEF new
      <4> QED BY <3>2, <3>3, <4>1, OneTask
    <3>4. CASE refs'[d] # 1
      <4>1. new = << >> BY <3>4
      <4> HIDE DEF new
      <4> QED BY <3>1, <4>1
    <3> QED BY <3>3, <3>4
  <2> HIDE DEF new
  <2>8. Shrinks(new) BY <1>1, <2>1, <2>5, <2>6, <2>7, UnloadShrinks
  <2>9. Replaces(new) /\ todo' \in Seq(Cleanups) BY <2>8, ReplaceProperties DEF Shrinks
  <2>10. ASSUME NEW k \in 1 .. Len(new), NEW y
         PROVE  /\ new[k] # <<"unref", y>> /\ new[k] # <<"remove", y>> /\ new[k] # <<"drop", y>>
                /\ new[k] \in About(y) => y = d /\ new[k] = <<"unload", y>>
                /\ new[k] = <<"unload", y>> => y = d /\ refs'[d] = 1
                /\ new[k][1] = "unload"
    <3>1. new[k] = <<"unload", d>> /\ refs'[d] = 1 BY <2>7
    <3>2. new[k][1] = "unload" BY <3>1
    <3>3. /\ new[k] # <<"unref", y>> /\ new[k] # <<"remove", y>> /\ new[k] # <<"drop", y>>
          /\ new[k] = <<"unload", y>> => y = d
      BY <3>1
    <3> QED BY <3>1, <3>2, <3>3 DEF About
  <2>11. ASSUME NEW c \in Plugins
         PROVE  Cardinality(Claims(c, Counted')) + Number(todo', Dropped(c))
                  + (IF refs'[c] > 0 THEN 1 ELSE 0) <= refs'[c]
    <3>1. Cardinality(Claims(c, Counted')) <= Cardinality(Claims(c, Counted)) BY <2>8, CountedShrinks
    <3>2. Cardinality(Claims(c, Counted')) \in Nat BY <2>5, CountedTypeNext, ClaimsFinite
    <3>3. Number(new, Dropped(c)) = 0
      <4>1. DOMAIN new = 1 .. Len(new) BY <2>7, LenProperties
      <4>2. \A k \in DOMAIN new : new[k] \notin Dropped(c) BY <2>10, <4>1 DEF Dropped
      <4> QED BY <2>7, <4>2, NumberType
    <3>4. /\ Number(todo', Dropped(c)) + (IF "drop" = "drop" /\ d = c THEN 1 ELSE 0)
               = Number(todo, Dropped(c)) + Number(new, Dropped(c))
          /\ Number(todo', Dropped(c)) \in Nat /\ Number(todo, Dropped(c)) \in Nat
      BY <1>1, <2>1, <2>2, <2>7, ReplacedDrops
    <3>5. /\ Cardinality(Claims(c, Counted)) + Number(todo, Dropped(c))
               + (IF refs[c] > 0 THEN 1 ELSE 0) <= refs[c]
          /\ Cardinality(Claims(c, Counted)) \in Nat /\ refs[c] \in Nat
      BY <2>2, LedgerOfUnload
    <3>6. CASE c = d
      <4>1. Number(todo', Dropped(c)) = Number(todo, Dropped(c)) - 1 BY <3>3, <3>4, <3>6
      <4>2. refs'[c] = refs[c] - 1 /\ refs'[c] > 0 /\ refs[c] > 0 BY <2>3, <2>5, <2>6, <3>6
      <4> QED BY ONLY <3>1, <3>2, <3>4, <3>5, <4>1, <4>2
    <3>7. CASE c # d
      <4>1. Number(todo', Dropped(c)) = Number(todo, Dropped(c)) BY <3>3, <3>4, <3>7
      <4>2. refs'[c] = refs[c] BY <2>5, <3>7, ModuleTypes
      <4> QED BY ONLY <3>1, <3>2, <3>4, <3>5, <4>1, <4>2
    <3> QED BY <3>6, <3>7
  <2>12. Ledger' BY <2>5, <2>9, <2>11, LedgerOfUnloadNext
  <2>13. ASSUME NEW k \in 2 .. Len(todo)
         PROVE  todo[k] \notin About(d) /\ \A y : todo[k] # <<"remove", y>>
    <3>1. ~Unclaimed(d) BY <2>3 DEF Unclaimed
    <3>2. \A y : todo[k] # <<"remove", y>> BY <2>2, <2>4, BehindProperties
    <3>3. todo[k] # <<"unload", d>> /\ todo[k] # <<"unref", d>> BY <2>2, <3>1, BehindProperties
    <3> QED BY <3>2, <3>3 DEF About
  <2>14. UnloadPending'
    <3>1. ASSUME NEW y, NEW i \in 2 .. Len(todo), todo[i] = <<"unload", y>>
          PROVE  \A k \in 1 .. Len(new) : new[k] \notin About(y) /\ new[k] # <<"drop", y>>
      <4>1. y # d BY <2>13, <3>1 DEF About
      <4> QED BY <2>10, <4>1
    <3>2. ASSUME NEW y, NEW i \in 1 .. Len(new), new[i] = <<"unload", y>>
          PROVE  /\ \A k \in 1 .. Len(new) : k # i => new[k] \notin About(y)
                 /\ \A k \in 2 .. Len(todo) : todo[k] \notin About(y)
                 /\ y \in Plugins => Unclaimed(y)'
      <4>1. y = d /\ refs'[d] = 1 BY <2>10, <3>2
      <4>2. \A k \in 1 .. Len(new) : k = i BY <2>7
      <4>3. Unclaimed(d)'
        <5>1. Cardinality(Claims(d, Counted')) + Number(todo', Dropped(d))
                + (IF refs'[d] > 0 THEN 1 ELSE 0) <= refs'[d]
          BY <2>11
        <5>2. Cardinality(Claims(d, Counted')) + Number(todo', Dropped(d)) + 1 <= 1 BY <4>1, <5>1
        <5> QED BY <2>5, <2>9, <4>1, <5>2, UnclaimedNext
      <4>4. Unclaimed(y)' BY <4>1, <4>3
      <4> QED BY <2>13, <4>1, <4>2, <4>4
    <3> QED BY <2>2, <2>8, <3>1, <3>2, UnloadPendingKept
  <2>15. UnrefPending'
    <3>1. ASSUME NEW y, NEW i \in 2 .. Len(todo), todo[i] = <<"unref", y>>
          PROVE  /\ \A k \in 1 .. Len(new) : new[k] \notin {<<"unref", y>>, <<"remove", y>>, <<"drop", y>>}
                 /\ refs'[y] > 0
      <4>1. y # d BY <2>13, <3>1 DEF About
      <4>2. refs[y] > 0 /\ y \in Modules BY <2>2, <3>1, BehindProperties, ModuleTypes
      <4> QED BY <2>5, <2>10, <4>1, <4>2
    <3>2. \A y : \A i \in 1 .. Len(new) : new[i] # <<"unref", y>> BY <2>10
    <3> QED BY <2>2, <2>8, <3>1, <3>2, UnrefPendingKept
  <2>16. RemovePending'
    <3>1. \A y : \A i \in 1 .. Len(new) : new[i] # <<"remove", y>> BY <2>10
    <3>2. \A y : ~(2 \in 2 .. Len(todo) /\ todo[2] = <<"remove", y>>) BY <2>13
    <3> QED BY <2>2, <2>9, <3>1, <3>2, RemovePendingKept
  <2>17. ParentGoes'
    <3>1. ASSUME NEW f \in Files, NEW i \in 1 .. Len(new), Multi(f),
                 new[i] \in {<<"unload", Parent(f)>>, <<"unref", Parent(f)>>}
          PROVE  FALSE
      <4>1. Parent(f) = d BY <2>10, <3>1
      <4> QED BY <4>1, Parents
    <3> QED BY <2>2, <2>9, <3>1, ParentGoesKept
  <2>18. Counts'
    <3>1. \A p \in inited' : refs'[p] > 0
      <4>1. \A p \in inited : p \in Modules /\ refs[p] > 0 BY <2>2, ModuleTypes DEF Counts
      <4> QED BY <1>1, <2>5, <2>6, <4>1
    <3>2. ASSUME NEW f \in Files, Multi(f)
          PROVE  refs'[Parent(f)] = refs[Parent(f)] /\ \A p \in ToSet(Contents[f]) : refs'[p] = refs[p]
      BY <2>3, <2>5, <3>2, ModuleTypes, ContentsTypes
    <3> QED BY <2>2, <3>1, <3>2, CountsKept
  <2>19. TypeOK' /\ TailIsLast'
    <3>1. todo[1][1] \notin {"remove", "next"} BY <2>4
    <3>2. \A p \in inited' : refs'[p] > 0 BY <2>18 DEF Counts
    <3>3. ASSUME NEW c \in Modules
          PROVE  refs'[c] > 0 <=> refs[c] > 0 /\ \A k \in 1 .. Len(new) : new[k] # <<"remove", c>>
      <4>1. refs'[c] > 0 <=> refs[c] > 0 BY <2>3, <2>5, <2>6
      <4> QED BY <2>10, <4>1
    <3> QED BY <1>1, <2>2, <2>8, <3>1, <3>2, <3>3, UnloadTypesKept
  <2>20. Unloading'
    <3>1. \A k \in 1 .. Len(new) : new[k][1] \notin {"next", "fail"} BY <2>10
    <3>2. \A p \in Plugins : refs'[p] > 0 /\ p \notin inited' =>
           \/ p \notin inited /\ todo[1] # <<"unref", p>>
           \/ refs'[p] = 1 /\ \E k \in 1 .. Len(new) : new[k] = <<"unref", p>>
      BY <1>1, <2>4
    <3> QED BY <2>2, <2>8, <2>14, <2>15, <2>16, <2>17, <3>1, <3>2, UnloadingKept
  <2>21. PluginInv' BY <2>12, <2>18, <2>19, <2>20 DEF PluginInv
  <2> QED BY <1>2, <2>21
<1> QED BY <1>3, <1>4

\* The module that loses a reference is unclaimed, and keeps one while it is initialized.
LEMMA UnrefHead ==
  ASSUME PluginInv, NEW m \in Modules, Doing("unref", m)
  PROVE  /\ \A j \in 2 .. Len(todo) : todo[j] \notin About(m)
         /\ refs[m] \in Nat /\ refs[m] > 0
         /\ m \in Plugins => Unclaimed(m)
         /\ m \in inited => refs[m] > 1
         /\ refs[m] # 1 => m \in Plugins /\ m \in inited
<1>1. /\ Unloading /\ refs \in [Modules -> Nat] /\ todo \in Seq(Cleanups)
      /\ 1 \in DOMAIN todo /\ DOMAIN todo = 1 .. Len(todo)
      /\ todo[1] = <<"unref", m>> /\ Op(1) = "unref" /\ Arg(1) = m
  BY UnloadDoing
<1>2. /\ \A j \in DOMAIN todo : todo[j] = todo[1] => j = 1
      /\ ~Pending("remove", m)
      /\ refs[m] > 0
      /\ m \in Plugins => Unclaimed(m)
      /\ m \in inited => refs[m] > 1
  BY <1>1 DEF Unloading, UnrefPending
<1>3. Pending("unref", m) BY <1>1 DEF Pending, Contains
<1>4. ASSUME NEW j \in 2 .. Len(todo) PROVE todo[j] \notin About(m)
  <2>1. j \in 1 .. Len(todo) /\ j # 1 OBVIOUS
  <2>2. todo[j] # <<"unload", m>> BY <1>1, <1>3, BehindProperties
  <2>3. todo[j] # <<"unref", m>> BY <1>1, <1>2, <2>1
  <2>4. todo[j] # <<"remove", m>> BY <1>2, <2>1 DEF Pending, Contains
  <2> QED BY <2>2, <2>3, <2>4 DEF About
<1>5. ASSUME refs[m] # 1 PROVE m \in Plugins /\ m \in inited
  <2>1. m \in Plugins
    <3>1. SUFFICES ASSUME m \notin Plugins PROVE FALSE OBVIOUS
    <3>2. PICK f \in Files : Multi(f) /\ m = Parent(f) BY <3>1, ModuleTypes
    <3> QED BY <1>1, <1>5, <3>2 DEF Unloading, ParentGoes
  <2> QED BY <1>1, <1>2, <1>5, <2>1 DEF Unloading
<1> QED BY <1>1, <1>2, <1>4, <1>5

\* A plugin that loses one of several references.
LEMMA UnrefSomeKeeps ==
  ASSUME PluginInv, NEW m \in Modules, Doing("unref", m), refs[m] # 1,
         refs' = [refs EXCEPT ![m] = @ - 1], Then(<< >>), UNCHANGED <<inits, list, tail, inited>>
  PROVE  PluginInv'
<1>1. /\ TypeOK /\ Ledger /\ Counts /\ TailIsLast /\ Unloading
      /\ refs \in [Modules -> Nat] /\ inited \subseteq Plugins
      /\ todo \in Seq(Cleanups) /\ todo[1] = <<"unref", m>> /\ Len(todo) \in Nat
  BY UnloadDoing
<1>2. /\ refs[m] \in Nat /\ refs[m] > 1 /\ m \in Plugins /\ m \in inited /\ Unclaimed(m)
      /\ \A j \in 2 .. Len(todo) : todo[j] \notin About(m)
  BY UnrefHead
<1>3. refs'[m] = refs[m] - 1 /\ refs' \in [Modules -> Nat] /\ \A c \in Modules : c # m => refs'[c] = refs[c]
  BY <1>1, <1>2
<1>4. refs'[m] \in Nat /\ refs'[m] > 0 /\ \A c \in Modules : refs'[c] <= refs[c] BY <1>1, <1>2, <1>3
<1>5. << >> \in Seq(Cleanups) BY CleanupTypes
<1>6. Shrinks(<< >>) BY <1>3, <1>4, <1>5, UnloadShrinks
<1>7. \A k \in 1 .. Len(<< >>) : FALSE OBVIOUS
<1>8. UnloadPending' /\ UnrefPending' /\ RemovePending' /\ ParentGoes'
  <2>1. \A y : \A i \in 2 .. Len(todo) : todo[i] = <<"unref", y>> => refs'[y] > 0
    BY <1>1, <1>3, <1>4, BehindProperties, ModuleTypes
  <2>2. \A y : 2 \in 2 .. Len(todo) /\ todo[2] = <<"remove", y>> => y \in listed'
    <3>1. listed' = listed BY DEF listed
    <3> QED BY <1>1, <3>1, BehindProperties
  <2> QED BY <1>1, <1>6, <2>1, <2>2, NothingNewKept
<1>9. Counts'
  <2>1. \A p \in inited' : refs'[p] > 0
    <3>1. \A p \in inited : p \in Modules /\ refs[p] > 0 BY <1>1, ModuleTypes DEF Counts
    <3> QED BY <1>3, <1>4, <3>1
  <2>2. ASSUME NEW f \in Files, Multi(f)
        PROVE  refs'[Parent(f)] = refs[Parent(f)] /\ \A p \in ToSet(Contents[f]) : refs'[p] = refs[p]
    <3>1. m \in ToSet(Contents[f]) => m \in Counting(f) BY <1>2 DEF Counting
    <3>2. m \in Counting(f) => refs[m] = 1 BY <1>1, <2>2 DEF Counts
    <3>3. m \notin ToSet(Contents[f]) /\ m # Parent(f) BY <1>2, <3>1, <3>2, Parents
    <3> QED BY <1>3, <2>2, <3>3, ModuleTypes, ContentsTypes
  <2> QED BY <1>1, <2>1, <2>2, CountsKept
<1>10. TypeOK' /\ TailIsLast'
  <2>1. todo[1][1] \notin {"remove", "next"}
    <3>1. todo[1][1] = "unref" BY <1>1
    <3> QED BY <3>1
  <2>2. \A p \in inited' : refs'[p] > 0 BY <1>9 DEF Counts
  <2>3. ASSUME NEW c \in Modules
        PROVE  refs'[c] > 0 <=> refs[c] > 0 /\ \A k \in 1 .. Len(<< >>) : << >>[k] # <<"remove", c>>
    <3>1. refs'[c] > 0 <=> refs[c] > 0 BY <1>2, <1>3, <1>4
    <3> QED BY <1>7, <3>1
  <2> QED BY <1>1, <1>6, <2>1, <2>2, <2>3, UnloadTypesKept
<1>11. Ledger'
  <2>1. todo' \in Seq(Cleanups) BY <1>6, ReplaceProperties DEF Shrinks
  <2>2. ASSUME NEW d \in Plugins
        PROVE  Cardinality(Claims(d, Counted')) + Number(todo', Dropped(d))
                 + (IF refs'[d] > 0 THEN 1 ELSE 0) <= refs'[d]
    <3>1. /\ Cardinality(Claims(d, Counted')) <= Cardinality(Claims(d, Counted))
          /\ Claims(d, Counted') \subseteq Claims(d, Counted)
      BY <1>6, CountedShrinks
    <3>2. Cardinality(Claims(d, Counted')) \in Nat BY <1>3, CountedTypeNext, ClaimsFinite
    <3>3. Number(<< >>, Dropped(d)) = 0 BY NothingContained
    <3>4. /\ Number(todo', Dropped(d)) + (IF "unref" = "drop" /\ m = d THEN 1 ELSE 0)
               = Number(todo, Dropped(d)) + Number(<< >>, Dropped(d))
          /\ Number(todo', Dropped(d)) \in Nat /\ Number(todo, Dropped(d)) \in Nat
      BY <1>1, <1>5, ReplacedDrops
    <3>5. Number(todo', Dropped(d)) = Number(todo, Dropped(d)) BY <3>3, <3>4
    <3>6. CASE d = m
      <4>1. Cardinality(Claims(d, Counted')) = 0
        <5>1. Claims(d, Counted') = {} BY <1>2, <3>1, <3>6 DEF Unclaimed
        <5> QED BY <5>1, FS_EmptySet
      <4>2. Number(todo, Dropped(d)) = 0
        <5>1. DOMAIN todo = 1 .. Len(todo) BY <1>1, LenProperties
        <5>2. \A k \in DOMAIN todo : todo[k] \notin Dropped(d)
          BY <1>2, <3>6, <5>1 DEF Unclaimed, Pending, Contains, Dropped
        <5> QED BY <1>1, <5>2, NumberType
      <4> QED BY <1>4, <3>5, <3>6, <4>1, <4>2
    <3>7. CASE d # m
      <4>1. /\ Cardinality(Claims(d, Counted)) + Number(todo, Dropped(d))
                 + (IF refs[d] > 0 THEN 1 ELSE 0) <= refs[d]
            /\ Cardinality(Claims(d, Counted)) \in Nat /\ refs[d] \in Nat
        BY <1>1, LedgerOfUnload
      <4>2. refs'[d] = refs[d] BY <1>3, <3>7, ModuleTypes
      <4> QED BY ONLY <3>1, <3>2, <3>4, <3>5, <4>1, <4>2
    <3> QED BY <3>6, <3>7
  <2> QED BY <1>3, <2>1, <2>2, LedgerOfUnloadNext
<1>12. Unloading'
  <2>1. ASSUME NEW p \in Plugins, refs'[p] > 0, p \notin inited'
        PROVE  p \notin inited /\ todo[1] # <<"unref", p>>
    <3>1. p # m BY <1>2, <2>1
    <3>2. <<"unref", m>> # <<"unref", p>> BY <3>1
    <3> QED BY <1>1, <2>1, <3>2
  <2> QED BY <1>1, <1>6, <1>7, <1>8, <2>1, UnloadingKept
<1> QED BY <1>9, <1>10, <1>11, <1>12 DEF PluginInv

\* The last reference of a module, which counts in its parent.
LEMMA UnrefLastCounts ==
  ASSUME Counts, refs \in [Modules -> Nat], inited \subseteq Plugins,
         NEW m \in Modules, refs[m] = 1, m \notin inited, UNCHANGED inited,
         refs' = [x \in Modules |-> IF x \in {m} \union ParentsOf(m) THEN refs[x] - 1 ELSE refs[x]]
  PROVE  /\ Counts' /\ refs' \in [Modules -> Nat] /\ refs'[m] = 0
         /\ \A p \in Plugins : p # m => refs'[p] = refs[p]
         /\ \A c \in Modules : refs'[c] <= refs[c]
         /\ \A c \in Modules : c # m => (refs'[c] > 0 <=> refs[c] > 0)
<1>1. m \notin ParentsOf(m)
  <2>1. CASE m \in Plugins BY <2>1, Filed, Parents
  <2>2. CASE m \notin Plugins
    <3>1. PICK f \in Files : m = Parent(f) BY <2>2, ModuleTypes
    <3> QED BY <3>1, Parents
  <2> QED BY <2>1, <2>2
<1>2. \A p \in Plugins : p \notin ParentsOf(m)
  <2>1. CASE m \in Plugins BY <2>1, Filed, Parents
  <2>2. CASE m \notin Plugins
    <3>1. PICK f \in Files : m = Parent(f) BY <2>2, ModuleTypes
    <3> QED BY <3>1, Parents
  <2> QED BY <2>1, <2>2
<1>3. \A c \in Modules : refs[c] \in Nat /\ refs'[c] = IF c = m \/ c \in ParentsOf(m) THEN refs[c] - 1 ELSE refs[c]
  OBVIOUS
<1>4. refs'[m] = 0 BY <1>3
<1>5. \A p \in Plugins : p # m => refs'[p] = refs[p] BY <1>2, <1>3, ModuleTypes
<1>6. \A p \in inited' : refs'[p] > 0 BY <1>5 DEF Counts
<1>7. CASE m \notin Plugins
  <2>1. PICK g \in Files : Multi(g) /\ m = Parent(g) BY <1>7, ModuleTypes
  <2>2. ParentsOf(m) = {} BY <2>1, Parents
  <2>3. \A c \in Modules : c # m => refs'[c] = refs[c] BY <1>3, <2>2
  <2>4. refs' \in [Modules -> Nat] /\ \A c \in Modules : refs'[c] <= refs[c]
    <3>1. \A c \in Modules : refs'[c] \in Nat /\ refs'[c] <= refs[c] BY <1>3, <1>4, <2>3
    <3> QED BY <3>1
  <2>5. ASSUME NEW f \in Files, Multi(f)
        PROVE  /\ refs'[Parent(f)] > 0 => refs'[Parent(f)] = 1 + Cardinality(Counting(f)')
               /\ refs'[Parent(f)] = 0 => Counting(f)' = {}
               /\ \A p \in Counting(f)' : refs'[p] = 1
    <3>1. /\ refs[Parent(f)] > 0 => refs[Parent(f)] = 1 + Cardinality(Counting(f))
          /\ refs[Parent(f)] = 0 => Counting(f) = {}
          /\ \A p \in Counting(f) : refs[p] = 1
      BY <2>5 DEF Counts
    <3>2. \A p \in ToSet(Contents[f]) : refs'[p] = refs[p] BY <1>5, <1>7, ContentsTypes
    <3>3. Counting(f)' = Counting(f) BY <3>2 DEF Counting
    <3>4. \A p \in Counting(f) : refs'[p] = refs[p] BY <3>2 DEF Counting
    <3>5. CASE f = g
      <4>1. refs[Parent(f)] = 1 BY <2>1, <3>5
      <4>2. IsFiniteSet(Counting(f))
        <5>1. Counting(f) \subseteq ToSet(Contents[f]) BY DEF Counting
        <5> QED BY <5>1, ContentsTypes, FS_Subset
      <4>3. Cardinality(Counting(f)) = 0
        <5>1. Cardinality(Counting(f)) \in Nat BY <4>2, FS_CardinalityType
        <5> QED BY <3>1, <4>1, <5>1
      <4>4. Counting(f) = {} BY <4>2, <4>3, FS_EmptySet
      <4>5. refs'[Parent(f)] = 0 BY <1>4, <2>1, <3>5
      <4> QED BY <3>3, <4>4, <4>5
    <3>6. CASE f # g
      <4>1. Parent(f) # m /\ Parent(f) \in Modules BY <2>1, <2>5, <3>6, Parents, ModuleTypes
      <4>2. refs'[Parent(f)] = refs[Parent(f)] BY <2>3, <4>1
      <4> QED BY <3>1, <3>3, <3>4, <4>2
    <3> QED BY <3>5, <3>6
  <2>6. Counts' BY <1>6, <2>5 DEF Counts
  <2> QED BY <1>4, <1>5, <2>3, <2>4, <2>6
<1>8. CASE m \in Plugins /\ ~Shared(m)
  <2>1. ParentsOf(m) = {} BY <1>8, Parents
  <2>2. \A c \in Modules : c # m => refs'[c] = refs[c] BY <1>3, <2>1
  <2>3. refs' \in [Modules -> Nat] /\ \A c \in Modules : refs'[c] <= refs[c]
    <3>1. \A c \in Modules : refs'[c] \in Nat /\ refs'[c] <= refs[c] BY <1>3, <1>4, <2>2
    <3> QED BY <3>1
  <2>4. ASSUME NEW f \in Files, Multi(f)
        PROVE  refs'[Parent(f)] = refs[Parent(f)] /\ \A p \in ToSet(Contents[f]) : refs'[p] = refs[p]
    <3>1. m \notin ToSet(Contents[f])
      <4>1. m \in ToSet(Contents[f]) => f = FileOf(m) BY <1>8, Filed
      <4> QED BY <1>8, <2>4, <4>1 DEF Shared
    <3>2. m # Parent(f) BY <1>8, Parents
    <3> QED BY <2>2, <2>4, <3>1, <3>2, ModuleTypes, ContentsTypes
  <2>5. Counts' BY <1>6, <2>4, CountsKept
  <2> QED BY <1>4, <1>5, <2>2, <2>3, <2>5
<1>9. CASE m \in Plugins /\ Shared(m)
  <2> DEFINE g == FileOf(m)
             P == Parent(g)
  <2>1. /\ g \in Files /\ Multi(g) /\ m \in ToSet(Contents[g]) /\ ParentsOf(m) = {P}
        /\ P \in Modules /\ P # m /\ P \notin Plugins
    BY <1>9, Filed, Parents, ModuleTypes DEF Shared
  <2> HIDE DEF P, g
  <2>2. \A c \in Modules : c # m /\ c # P => refs'[c] = refs[c] BY <1>3, <2>1
  <2>3. m \in Counting(g) BY <2>1 DEF Counting
  <2>4. IsFiniteSet(Counting(g)) /\ Cardinality(Counting(g)) \in Nat
    <3>1. Counting(g) \subseteq ToSet(Contents[g]) BY DEF Counting
    <3> QED BY <2>1, <3>1, ContentsTypes, FS_Subset, FS_CardinalityType
  <2>5. refs[P] = 1 + Cardinality(Counting(g))
    <3>1. refs[P] = 0 => Counting(g) = {} BY <2>1 DEF Counts, P
    <3>2. refs[P] > 0 => refs[P] = 1 + Cardinality(Counting(g)) BY <2>1 DEF Counts, P
    <3>3. refs[P] \in Nat BY <1>3, <2>1
    <3> QED BY <2>3, <3>1, <3>2, <3>3
  <2>6. Counting(g)' = Counting(g) \ {m}
    <3>1. \A p \in ToSet(Contents[g]) : p # m => refs'[p] = refs[p] BY <1>5, <2>1, ContentsTypes
    <3>2. ~(refs'[m] > 0) BY <1>4
    <3> QED BY <3>1, <3>2 DEF Counting
  <2>7. Cardinality(Counting(g) \ {m}) = Cardinality(Counting(g)) - 1 /\ Cardinality(Counting(g)) > 0
    <3>1. Cardinality(Counting(g) \ {m}) = Cardinality(Counting(g)) - 1 BY <2>3, <2>4, FS_RemoveElement
    <3>2. Cardinality(Counting(g)) # 0 BY <2>3, <2>4, FS_EmptySet
    <3> QED BY <2>4, <3>1, <3>2
  <2>8. refs'[P] = refs[P] - 1 BY <1>3, <2>1
  <2>9. refs'[P] \in Nat /\ refs'[P] > 0 /\ refs[P] > 0 /\ refs'[P] = 1 + Cardinality(Counting(g)')
    BY <2>4, <2>5, <2>6, <2>7, <2>8
  <2>10. refs' \in [Modules -> Nat] /\ \A c \in Modules : refs'[c] <= refs[c]
    <3>1. \A c \in Modules : refs'[c] \in Nat /\ refs'[c] <= refs[c]
      BY <1>3, <1>4, <2>1, <2>2, <2>8, <2>9
    <3> QED BY <3>1
  <2>11. \A c \in Modules : c # m => (refs'[c] > 0 <=> refs[c] > 0) BY <2>2, <2>9
  <2>12. ASSUME NEW f \in Files, Multi(f)
         PROVE  /\ refs'[Parent(f)] > 0 => refs'[Parent(f)] = 1 + Cardinality(Counting(f)')
                /\ refs'[Parent(f)] = 0 => Counting(f)' = {}
                /\ \A p \in Counting(f)' : refs'[p] = 1
    <3>1. /\ refs[Parent(f)] > 0 => refs[Parent(f)] = 1 + Cardinality(Counting(f))
          /\ refs[Parent(f)] = 0 => Counting(f) = {}
          /\ \A p \in Counting(f) : refs[p] = 1
      BY <2>12 DEF Counts
    <3>2. CASE f = g
      <4>1. \A p \in Counting(g) \ {m} : refs'[p] = refs[p] BY <1>5, <2>1, ContentsTypes DEF Counting
      <4>2. refs'[Parent(f)] = 1 + Cardinality(Counting(f)') /\ refs'[Parent(f)] # 0
        BY <2>9, <3>2 DEF P
      <4> QED BY <2>6, <3>1, <3>2, <4>1, <4>2
    <3>3. CASE f # g
      <4>1. m \notin ToSet(Contents[f]) BY <1>9, <3>3, Filed DEF g
      <4>2. \A p \in ToSet(Contents[f]) : refs'[p] = refs[p] BY <1>5, <4>1, ContentsTypes
      <4>3. Counting(f)' = Counting(f) BY <4>2 DEF Counting
      <4>4. \A p \in Counting(f) : refs'[p] = refs[p] BY <4>2 DEF Counting
      <4>5. Parent(f) # m /\ Parent(f) # P /\ Parent(f) \in Modules
        BY <1>9, <2>1, <2>12, <3>3, Parents, ModuleTypes DEF P
      <4>6. refs'[Parent(f)] = refs[Parent(f)] BY <2>2, <4>5
      <4> QED BY <3>1, <4>3, <4>4, <4>6
    <3> QED BY <3>2, <3>3
  <2>13. Counts' BY <1>6, <2>12 DEF Counts
  <2> QED BY <1>4, <1>5, <2>10, <2>11, <2>13
<1> QED BY <1>7, <1>8, <1>9

\* What follows the last reference: the module is removed, after its parent
\* has gone if this was the last plugin of its file.
LastTasks(m, more) == IF more THEN <<<<"unload", Parent(FileOf(m))>>, <<"remove", m>>>> ELSE <<<<"remove", m>>>>

\* The tasks that follow a module's last reference.
LEMMA LastTaskProperties ==
  ASSUME NEW m \in Modules, NEW more \in BOOLEAN, more => m \in Plugins /\ Shared(m)
  PROVE  /\ LastTasks(m, more) \in Seq(Cleanups)
         /\ \A k \in 1 .. Len(LastTasks(m, more)) :
              \/ LastTasks(m, more)[k] = <<"remove", m>> /\ (k = 1 \/ (k = 2 /\ more))
              \/ k = 1 /\ more /\ LastTasks(m, more)[k] = <<"unload", Parent(FileOf(m))>>
         /\ more => LastTasks(m, more)[1] = <<"unload", Parent(FileOf(m))>>
         /\ \E k \in 1 .. Len(LastTasks(m, more)) : LastTasks(m, more)[k] = <<"remove", m>>
         /\ ~more => Len(LastTasks(m, more)) = 1 /\ LastTasks(m, more)[1] = <<"remove", m>>
<1> DEFINE r == <<"remove", m>>
           u == <<"unload", Parent(FileOf(m))>>
<1>1. r \in Cleanups BY CleanupTypes
<1>2. CASE more
  <2>1. Parent(FileOf(m)) \in Modules BY <1>2, Filed, ModuleTypes DEF Shared
  <2>2. u \in Cleanups BY <2>1, CleanupTypes
  <2>3. LastTasks(m, more) = <<u, r>> BY <1>2 DEF LastTasks
  <2> HIDE DEF r, u
  <2>4. /\ <<u, r>> \in Seq(Cleanups) /\ Len(<<u, r>>) = 2 /\ <<u, r>>[1] = u /\ <<u, r>>[2] = r
        /\ 2 \in 1 .. 2 /\ \A k \in 1 .. 2 : k = 1 \/ k = 2
    BY <1>1, <2>2
  <2> QED BY <1>2, <2>3, <2>4 DEF r, u
<1>3. CASE ~more
  <2>1. LastTasks(m, more) = <<r>> BY <1>3 DEF LastTasks
  <2> HIDE DEF r, u
  <2>2. /\ <<r>> \in Seq(Cleanups) /\ Len(<<r>>) = 1 /\ <<r>>[1] = r
        /\ 1 \in 1 .. 1 /\ \A k \in 1 .. 1 : k = 1
    BY <1>1
  <2> QED BY <1>3, <2>1, <2>2 DEF r, u
<1> QED BY <1>2, <1>3

\* unrefModule, for the last reference.
LEMMA UnrefLastKeeps ==
  ASSUME PluginInv, NEW m \in Modules, Doing("unref", m), refs[m] = 1,
         refs' = [x \in Modules |-> IF x \in {m} \union ParentsOf(m) THEN refs[x] - 1 ELSE refs[x]],
         NEW more \in BOOLEAN, Then(LastTasks(m, more)), more <=> \E x \in ParentsOf(m) : refs'[x] = 1,
         UNCHANGED <<inits, list, tail, inited>>
  PROVE  PluginInv'
<1> DEFINE new == LastTasks(m, more)
           P == Parent(FileOf(m))
<1>1. /\ TypeOK /\ Ledger /\ Counts /\ TailIsLast /\ Unloading
      /\ refs \in [Modules -> Nat] /\ inited \subseteq Plugins
      /\ todo \in Seq(Cleanups) /\ todo[1] = <<"unref", m>> /\ Len(todo) \in Nat
  BY UnloadDoing
<1>2. /\ refs[m] > 0 /\ m \notin inited /\ (m \in Plugins => Unclaimed(m))
      /\ \A j \in 2 .. Len(todo) : todo[j] \notin About(m)
  BY UnrefHead
<1>3. /\ Counts' /\ refs' \in [Modules -> Nat] /\ refs'[m] = 0
      /\ \A p \in Plugins : p # m => refs'[p] = refs[p]
      /\ \A c \in Modules : refs'[c] <= refs[c]
      /\ \A c \in Modules : c # m => (refs'[c] > 0 <=> refs[c] > 0)
  BY <1>1, <1>2, UnrefLastCounts
<1>4. more => /\ m \in Plugins /\ Shared(m) /\ ParentsOf(m) = {P} /\ refs'[P] = 1 /\ P # m
              /\ P \notin Plugins
  <2>1. SUFFICES ASSUME more
                 PROVE  /\ m \in Plugins /\ Shared(m) /\ ParentsOf(m) = {P} /\ refs'[P] = 1 /\ P # m
                        /\ P \notin Plugins
    OBVIOUS
  <2>2. PICK x \in ParentsOf(m) : refs'[x] = 1 BY <2>1
  <2>3. m \in Plugins
    <3>1. SUFFICES ASSUME m \notin Plugins PROVE FALSE OBVIOUS
    <3>2. PICK f \in Files : m = Parent(f) BY <3>1, ModuleTypes
    <3> QED BY <2>2, <3>2, Parents
  <2>4. Shared(m) /\ ParentsOf(m) = {P} BY <2>2, <2>3, Parents
  <2>5. P \notin Plugins BY <2>3, Filed, Parents
  <2> QED BY <2>2, <2>3, <2>4, <2>5
<1>5. /\ new \in Seq(Cleanups)
      /\ \A k \in 1 .. Len(new) :
           \/ new[k] = <<"remove", m>> /\ (k = 1 \/ (k = 2 /\ more))
           \/ k = 1 /\ more /\ new[k] = <<"unload", P>>
      /\ more => new[1] = <<"unload", P>>
      /\ \E k \in 1 .. Len(new) : new[k] = <<"remove", m>>
      /\ ~more => Len(new) = 1 /\ new[1] = <<"remove", m>>
  BY <1>4, LastTaskProperties
<1>6. Then(new) OBVIOUS
<1> HIDE DEF new, P
<1>7. Shrinks(new) BY <1>3, <1>5, <1>6, UnloadShrinks
<1>8. Replaces(new) BY <1>7 DEF Shrinks
<1>9. ASSUME NEW y, NEW k \in 1 .. Len(new)
      PROVE  /\ new[k] # <<"unref", y>> /\ new[k] # <<"drop", y>>
             /\ new[k] = <<"unload", y>> => k = 1 /\ more /\ y = P
             /\ new[k] = <<"remove", y>> => y = m /\ (k = 1 \/ (k = 2 /\ more))
             /\ new[k] \in About(y) => (y = m /\ new[k] = <<"remove", m>>) \/ (more /\ y = P /\ new[k] = <<"unload", P>>)
             /\ new[k][1] \in {"unload", "remove"}
  <2>1. CASE new[k] = <<"remove", m>> /\ (k = 1 \/ (k = 2 /\ more))
    <3>1. /\ <<"remove", m>> # <<"unref", y>> /\ <<"remove", m>> # <<"drop", y>>
          /\ <<"remove", m>> # <<"unload", y>> /\ (<<"remove", m>> = <<"remove", y>> => y = m)
          /\ <<"remove", m>>[1] = "remove"
      OBVIOUS
    <3> QED BY <2>1, <3>1 DEF About
  <2>2. CASE k = 1 /\ more /\ new[k] = <<"unload", P>>
    <3>1. /\ <<"unload", P>> # <<"unref", y>> /\ <<"unload", P>> # <<"drop", y>>
          /\ <<"unload", P>> # <<"remove", y>> /\ (<<"unload", P>> = <<"unload", y>> => y = P)
          /\ <<"unload", P>>[1] = "unload"
      OBVIOUS
    <3> QED BY <2>2, <3>1 DEF About
  <2> QED BY <1>5, <2>1, <2>2
<1>10. todo[1][1] = "unref" /\ todo[1][2] = m BY <1>1
<1>11. UnloadPending'
  <2>1. ASSUME NEW y, NEW i \in 2 .. Len(todo), todo[i] = <<"unload", y>>
        PROVE  \A k \in 1 .. Len(new) : new[k] \notin About(y) /\ new[k] # <<"drop", y>>
    <3>1. y # m BY <1>2, <2>1 DEF About
    <3>2. y \in Plugins BY <1>1, <2>1, BehindProperties
    <3>3. ~(more /\ y = P) BY <1>4, <3>2
    <3> QED BY <1>9, <3>1, <3>3
  <2>2. ASSUME NEW y, NEW i \in 1 .. Len(new), new[i] = <<"unload", y>>
        PROVE  /\ \A k \in 1 .. Len(new) : k # i => new[k] \notin About(y)
               /\ \A k \in 2 .. Len(todo) : todo[k] \notin About(y)
               /\ y \in Plugins => Unclaimed(y)'
    <3>1. i = 1 /\ more /\ y = P BY <1>9, <2>2
    <3>2. y \notin Plugins /\ y # m BY <1>4, <3>1
    <3>3. ASSUME NEW k \in 1 .. Len(new), k # i PROVE new[k] \notin About(y)
      <4>1. ~(k = 1) BY <3>1, <3>3
      <4>2. new[k] = <<"remove", m>> BY <1>5, <4>1
      <4>3. new[k] # <<"unload", P>> BY <4>2
      <4> QED BY <1>9, <3>2, <4>3
    <3>4. ASSUME NEW k \in 2 .. Len(todo) PROVE todo[k] \notin About(y)
      BY <1>1, <3>2, BehindProperties DEF About
    <3> QED BY <3>2, <3>3, <3>4
  <2> QED BY <1>1, <1>7, <2>1, <2>2, UnloadPendingKept
<1>12. UnrefPending'
  <2>1. ASSUME NEW y, NEW i \in 2 .. Len(todo), todo[i] = <<"unref", y>>
        PROVE  /\ \A k \in 1 .. Len(new) : new[k] \notin {<<"unref", y>>, <<"remove", y>>, <<"drop", y>>}
               /\ refs'[y] > 0
    <3>1. y # m BY <1>2, <2>1 DEF About
    <3>2. refs[y] > 0 /\ y \in Plugins BY <1>1, <2>1, BehindProperties
    <3>3. \A k \in 1 .. Len(new) : new[k] \notin {<<"unref", y>>, <<"remove", y>>, <<"drop", y>>}
      BY <1>9, <3>1
    <3> QED BY <1>3, <3>1, <3>2, <3>3
  <2>2. \A y : \A i \in 1 .. Len(new) : new[i] # <<"unref", y>> BY <1>9
  <2> QED BY <1>1, <1>7, <2>1, <2>2, UnrefPendingKept
<1>13. RemovePending'
  <2>1. ASSUME NEW y, 2 \in 2 .. Len(todo), todo[2] = <<"remove", y>>
        PROVE  /\ y \in listed'
               /\ \/ Len(new) = 0
                  \/ /\ Len(new) = 1 /\ new[1][1] \in {"unload", "unref", "remove"}
                     /\ new[1][2] = todo[1][2]
    <3>1. y \in listed /\ todo[1][2] \notin Plugins BY <1>1, <2>1, BehindProperties
    <3>2. ~more BY <1>4, <1>10, <3>1
    <3>3. Len(new) = 1 /\ new[1] = <<"remove", m>> BY <1>5, <3>2
    <3>4. new[1][1] = "remove" /\ new[1][2] = m BY <3>3
    <3> QED BY <1>10, <3>1, <3>3, <3>4 DEF listed
  <2>2. ASSUME NEW y, NEW i \in 1 .. Len(new), new[i] = <<"remove", y>>
        PROVE  /\ y \in listed'
               /\ \/ i = 1
                  \/ /\ i = 2 /\ y \in Plugins /\ new[1][1] \in {"unload", "unref", "remove"}
                     /\ new[1][2] \in ParentsOf(y)
    <3>1. y = m /\ (i = 1 \/ (i = 2 /\ more)) BY <1>9, <2>2
    <3>2. m \in listed BY <1>1, <1>2 DEF TypeOK
    <3>3. ASSUME more PROVE y \in Plugins /\ new[1][1] = "unload" /\ new[1][2] \in ParentsOf(y)
      <4>1. new[1] = <<"unload", P>> BY <1>5, <3>3
      <4>2. new[1][1] = "unload" /\ new[1][2] = P BY <4>1
      <4> QED BY <1>4, <3>1, <3>3, <4>2
    <3> QED BY <3>1, <3>2, <3>3 DEF listed
  <2> QED BY <1>1, <1>8, <2>1, <2>2, RemovePendingKept
<1>14. ParentGoes'
  <2>1. ASSUME NEW f \in Files, NEW i \in 1 .. Len(new), Multi(f),
               new[i] \in {<<"unload", Parent(f)>>, <<"unref", Parent(f)>>}
        PROVE  i = 1 /\ refs'[Parent(f)] = 1
    <3>1. i = 1 /\ more /\ Parent(f) = P BY <1>9, <2>1
    <3> QED BY <1>4, <3>1
  <2> QED BY <1>1, <1>8, <2>1, ParentGoesKept
<1>15. TypeOK' /\ TailIsLast'
  <2>1. todo[1][1] \notin {"remove", "next"} BY <1>10
  <2>2. \A p \in inited' : refs'[p] > 0 BY <1>3 DEF Counts
  <2>3. ASSUME NEW c \in Modules
        PROVE  refs'[c] > 0 <=> refs[c] > 0 /\ \A k \in 1 .. Len(new) : new[k] # <<"remove", c>>
    <3>1. CASE c = m BY <1>3, <1>5, <3>1
    <3>2. CASE c # m
      <4>1. \A k \in 1 .. Len(new) : new[k] # <<"remove", c>> BY <1>9, <3>2
      <4> QED BY <1>3, <3>2, <4>1
    <3> QED BY <3>1, <3>2
  <2> QED BY <1>1, <1>7, <2>1, <2>2, <2>3, UnloadTypesKept
<1>16. Ledger'
  <2>1. todo' \in Seq(Cleanups) BY <1>8, ReplaceProperties
  <2>2. ASSUME NEW d \in Plugins
        PROVE  Cardinality(Claims(d, Counted')) + Number(todo', Dropped(d))
                 + (IF refs'[d] > 0 THEN 1 ELSE 0) <= refs'[d]
    <3>1. /\ Cardinality(Claims(d, Counted')) <= Cardinality(Claims(d, Counted))
          /\ Claims(d, Counted') \subseteq Claims(d, Counted)
      BY <1>7, CountedShrinks
    <3>2. Cardinality(Claims(d, Counted')) \in Nat BY <1>3, CountedTypeNext, ClaimsFinite
    <3>3. Number(new, Dropped(d)) = 0
      <4>1. DOMAIN new = 1 .. Len(new) BY <1>5, LenProperties
      <4>2. \A k \in DOMAIN new : new[k] \notin Dropped(d) BY <1>9, <4>1 DEF Dropped
      <4> QED BY <1>5, <4>2, NumberType
    <3>4. /\ Number(todo', Dropped(d)) + (IF "unref" = "drop" /\ m = d THEN 1 ELSE 0)
               = Number(todo, Dropped(d)) + Number(new, Dropped(d))
          /\ Number(todo', Dropped(d)) \in Nat /\ Number(todo, Dropped(d)) \in Nat
      BY <1>1, <1>5, <1>6, ReplacedDrops
    <3>5. Number(todo', Dropped(d)) = Number(todo, Dropped(d)) BY <3>3, <3>4
    <3>6. CASE d = m
      <4>1. Cardinality(Claims(d, Counted')) = 0
        <5>1. Claims(d, Counted') = {} BY <1>2, <3>1, <3>6 DEF Unclaimed
        <5> QED BY <5>1, FS_EmptySet
      <4>2. Number(todo, Dropped(d)) = 0
        <5>1. DOMAIN todo = 1 .. Len(todo) BY <1>1, LenProperties
        <5>2. \A k \in DOMAIN todo : todo[k] \notin Dropped(d)
          BY <1>2, <3>6, <5>1 DEF Unclaimed, Pending, Contains, Dropped
        <5> QED BY <1>1, <5>2, NumberType
      <4> QED BY <1>3, <3>5, <3>6, <4>1, <4>2
    <3>7. CASE d # m
      <4>1. /\ Cardinality(Claims(d, Counted)) + Number(todo, Dropped(d))
                 + (IF refs[d] > 0 THEN 1 ELSE 0) <= refs[d]
            /\ Cardinality(Claims(d, Counted)) \in Nat /\ refs[d] \in Nat
        BY <1>1, LedgerOfUnload
      <4>2. refs'[d] = refs[d] BY <1>3, <3>7
      <4> QED BY ONLY <3>1, <3>2, <3>4, <3>5, <4>1, <4>2
    <3> QED BY <3>6, <3>7
  <2> QED BY <1>3, <2>1, <2>2, LedgerOfUnloadNext
<1>17. Unloading'
  <2>1. \A k \in 1 .. Len(new) : new[k][1] \notin {"next", "fail"} BY <1>9
  <2>2. ASSUME NEW p \in Plugins, refs'[p] > 0, p \notin inited'
        PROVE  p \notin inited /\ todo[1] # <<"unref", p>>
    <3>1. p # m BY <1>3, <2>2
    <3>2. <<"unref", m>> # <<"unref", p>> BY <3>1
    <3> QED BY <1>1, <2>2, <3>2
  <2> QED BY <1>1, <1>7, <1>11, <1>12, <1>13, <1>14, <2>1, <2>2, UnloadingKept
<1> QED BY <1>3, <1>15, <1>16, <1>17 DEF PluginInv

\* unrefModule, in both cases.
LEMMA UnrefKeeps ==
  ASSUME PluginInv, DependsInited, NEW m \in Modules, Unref(m)
  PROVE  PluginInv' /\ DependsInited'
<1> DEFINE more == \E x \in ParentsOf(m) : refs'[x] = 1
<1>1. Doing("unref", m) /\ UNCHANGED <<inits, list, tail, inited>> BY DEF Unref
<1>2. DependsInited' BY <1>1, SameInited
<1>3. refs \in [Modules -> Nat] BY <1>1, UnloadDoing
<1>4. CASE refs[m] = 1
  <2>1. refs' = [x \in Modules |-> IF x \in {m} \union ParentsOf(m) THEN refs[x] - 1 ELSE refs[x]]
    BY <1>4 DEF Unref
  <2>2. Then(LastTasks(m, more)) BY <1>4 DEF Unref, LastTasks
  <2>3. PICK b \in BOOLEAN : b <=> more OBVIOUS
  <2>4. Then(LastTasks(m, b)) BY <2>2, <2>3 DEF LastTasks
  <2>5. PluginInv' BY <1>1, <1>4, <2>1, <2>3, <2>4, UnrefLastKeeps
  <2> QED BY <1>2, <2>5
<1>5. CASE refs[m] # 1
  <2>1. Then(<< >>) BY <1>5 DEF Unref
  <2>2. refs' = [x \in Modules |-> IF x \in {m} THEN refs[x] - 1 ELSE refs[x]] BY <1>5 DEF Unref
  <2>3. refs' = [refs EXCEPT ![m] = @ - 1] BY <1>3, <2>2
  <2>4. PluginInv' BY <1>1, <1>5, <2>1, <2>3, UnrefSomeKeeps
  <2> QED BY <1>2, <2>4
<1> QED BY <1>4, <1>5

\* The node leaves the list: it was counted no more.
LEMMA RemoveModuleKeeps ==
  ASSUME PluginInv, DependsInited, NEW m \in Modules, RemoveModule(m)
  PROVE  PluginInv' /\ DependsInited'
<1>1. Doing("remove", m) /\ Then(<< >>) /\ ListRemove(m) /\ UNCHANGED <<inits, refs, inited>>
  BY DEF RemoveModule
<1>2. /\ TypeOK /\ Ledger /\ Counts /\ TailIsLast /\ Unloading
      /\ ListOK /\ refs \in [Modules -> Nat] /\ inited \subseteq Plugins
      /\ todo \in Seq(Cleanups) /\ 1 \in DOMAIN todo /\ DOMAIN todo = 1 .. Len(todo)
      /\ todo[1] = <<"remove", m>> /\ Op(1) = "remove" /\ Arg(1) = m
  BY <1>1, UnloadDoing
<1>3. todo[1][1] = "remove" /\ todo[1][2] = m BY <1>2
<1>4. m \in listed BY <1>2 DEF Unloading, RemovePending
<1>5. Contains(todo, <<"remove", m>>) BY <1>2 DEF Contains
<1>6. ~(refs[m] > 0) BY <1>2, <1>5 DEF TypeOK
<1>7. m \notin inited BY <1>2, <1>6 DEF Counts
<1>8. ListOK' /\ listed' = listed \ {m} /\ (tail = Last(list) => list' = << >> \/ tail' = Last(list'))
  BY <1>1, <1>2, <1>4, RemoveKeeps
<1>9. << >> \in Seq(Cleanups) BY CleanupTypes
<1>10. Shrinks(<< >>)
  <2>1. refs' \in [Modules -> Nat] /\ \A c \in Modules : refs'[c] <= refs[c] BY <1>1, <1>2
  <2> QED BY <1>1, <1>9, <2>1, UnloadShrinks
<1>11. \A t : t # <<"remove", m>> => (Contains(todo', t) <=> Contains(todo, t))
  <2>1. \A t : t # <<"remove", m>> =>
          (Contains(todo', t) <=> Contains(todo, t) \/ Contains(<< >>, t))
    BY <1>1, <1>2, <1>9, ThenPending
  <2>2. \A t : ~Contains(<< >>, t) BY NothingContained
  <2> QED BY <2>1, <2>2
<1>12. UnloadPending' /\ UnrefPending' /\ RemovePending' /\ ParentGoes'
  <2>1. \A y : \A i \in 2 .. Len(todo) : todo[i] = <<"unref", y>> => refs'[y] > 0
    BY <1>1, <1>2, BehindProperties
  <2>2. ASSUME NEW y, 2 \in 2 .. Len(todo), todo[2] = <<"remove", y>> PROVE y \in listed'
    <3>1. y \in listed /\ y \in Plugins /\ todo[1][2] \notin Plugins BY <1>2, <2>2, BehindProperties
    <3> QED BY <1>3, <1>8, <3>1
  <2> QED BY <1>2, <1>10, <2>1, <2>2, NothingNewKept
<1>13. Counts'
  <2>1. \A p \in inited' : refs'[p] > 0 BY <1>1, <1>2 DEF Counts
  <2> QED BY <1>1, <1>2, <2>1, CountsKept
<1>14. TypeOK'
  <2>1. ASSUME NEW c \in Modules
        PROVE  (refs'[c] > 0) = (c \in listed' /\ ~Contains(todo', <<"remove", c>>))
    <3>1. CASE c = m
      <4>1. ~(refs'[c] > 0) /\ c \notin listed' BY <1>1, <1>6, <1>8, <3>1
      <4> QED BY <4>1
    <3>2. CASE c # m
      <4>1. <<"remove", c>> # <<"remove", m>> BY <3>2
      <4>2. Contains(todo', <<"remove", c>>) <=> Contains(todo, <<"remove", c>>) BY <1>11, <4>1
      <4>3. refs[c] > 0 <=> c \in listed /\ ~Contains(todo, <<"remove", c>>) BY <1>2 DEF TypeOK
      <4>4. refs'[c] > 0 <=> c \in listed' /\ ~Contains(todo', <<"remove", c>>)
        BY <1>1, <1>8, <3>2, <4>2, <4>3
      <4> QED BY <4>4
    <3> QED BY <3>1, <3>2
  <2>2. inited' \subseteq listed' \cap Plugins BY <1>1, <1>2, <1>7, <1>8 DEF TypeOK
  <2>3. inits' \in 0 .. MaxInits BY <1>1, <1>2 DEF TypeOK
  <2> QED BY <1>1, <1>2, <1>8, <2>1, <2>2, <2>3 DEF TypeOK, ListOK
<1>15. TailIsLast'
  <2>1. ASSUME Pending("next", NoModule) PROVE Pending("next", NoModule)'
    <3>1. <<"next", NoModule>> # <<"remove", m>> OBVIOUS
    <3> QED BY <1>11, <2>1, <3>1 DEF Pending
  <2>2. list # << >> BY <1>2, <1>4, ListTypes
  <2> QED BY <1>2, <1>8, <2>1, <2>2 DEF TailIsLast
<1>16. \A k \in 1 .. Len(<< >>) : FALSE OBVIOUS
<1>17. Ledger' BY <1>1, <1>2, <1>9, <1>10, <1>16, LedgerSame
<1>18. Unloading'
  <2>1. \A p : todo[1] # <<"unref", p>>
    <3>1. \A p : <<"unref", p>>[1] = "unref" OBVIOUS
    <3> QED BY <1>3, <3>1
  <2>2. \A p \in Plugins : p \notin inited' => p \notin inited /\ todo[1] # <<"unref", p>>
    BY <1>1, <2>1
  <2> QED BY <1>2, <1>10, <1>12, <1>16, <2>2, UnloadingKept
<1>19. DependsInited' BY <1>1, SameInited
<1> QED BY <1>13, <1>14, <1>15, <1>17, <1>18, <1>19 DEF PluginInv

\* A plugin that has the fewest references of all is not claimed: who claims it
\* claims once for each of its own references.
LEMMA FewestUnclaimed ==
  ASSUME Ledger, Counts, ListOK, refs \in [Modules -> Nat], todo \in Seq(Cleanups), inited \subseteq listed,
         NEW h \in Plugins, refs[h] > 0, \A m \in listed : refs[h] <= refs[m]
  PROVE  Claims(h, Counted) = {}
<1>1. /\ Cardinality(Claims(h, Counted)) + Number(todo, Dropped(h))
           + (IF refs[h] > 0 THEN 1 ELSE 0) <= refs[h]
      /\ Cardinality(Claims(h, Counted)) \in Nat /\ Number(todo, Dropped(h)) \in Nat
      /\ refs[h] \in Nat
  BY LedgerOfUnload
<1>2. Counted \in [Plugins -> Nat] /\ IsFiniteSet(Claims(h, Counted)) BY CountedType, ClaimsFinite
<1> SUFFICES ASSUME NEW p \in Plugins, NEW i \in Uses(p, h), NEW k \in 1 .. Counted[p] PROVE FALSE
  BY ClaimsMember
<1>3. Counted[p] \in Nat /\ Counted[p] > 0 BY <1>2
<1>4. p \in inited /\ Counted[p] = refs[p] BY <1>3, CountedOfUnload
<1>5. refs[h] <= Counted[p] BY <1>4
<1> DEFINE S == 1 .. Counted[p]
           T == Claims(h, Counted)
           F == [j \in S |-> <<<<p, i>>, j>>]
<1>6. F \in [S -> T] BY ClaimsMember
<1>7. \A a, b \in S : F[a] = F[b] => a = b
  <2>1. ASSUME NEW a \in S, NEW b \in S, F[a] = F[b] PROVE a = b
    <3>1. F[a][2] = a /\ F[b][2] = b OBVIOUS
    <3> QED BY <2>1, <3>1
  <2> QED BY <2>1
<1>8. Cardinality(S) = Counted[p]
  <2>1. PICK c \in Nat : c = Counted[p] BY <1>3
  <2>2. Cardinality(1 .. c) = IF 1 > c THEN 0 ELSE c - 1 + 1 BY FS_Interval
  <2>3. c > 0 BY <1>3, <2>1
  <2> QED BY <2>1, <2>2, <2>3
<1> HIDE DEF S, T, F
<1>9. Cardinality(S) <= Cardinality(T) BY <1>2, <1>6, <1>7, Injects DEF T
<1>10. Counted[p] <= Cardinality(Claims(h, Counted)) BY <1>8, <1>9 DEF T
<1> QED BY ONLY <1>1, <1>3, <1>5, <1>10

\* A parent that has the fewest references of all has no plugin.
LEMMA FewestParent ==
  ASSUME Counts, refs \in [Modules -> Nat], NEW f \in Files, Multi(f), refs[Parent(f)] > 0,
         \A m \in Modules : refs[m] > 0 => refs[Parent(f)] <= refs[m]
  PROVE  refs[Parent(f)] = 1
<1>1. refs[Parent(f)] = 1 + Cardinality(Counting(f)) /\ \A p \in Counting(f) : refs[p] = 1 BY DEF Counts
<1>2. IsFiniteSet(Counting(f))
  <2>1. Counting(f) \subseteq ToSet(Contents[f]) BY DEF Counting
  <2> QED BY <2>1, ContentsTypes, FS_Subset
<1>3. Cardinality(Counting(f)) \in Nat BY <1>2, FS_CardinalityType
<1>4. Counting(f) = {}
  <2>1. SUFFICES ASSUME NEW p \in Counting(f) PROVE FALSE OBVIOUS
  <2>2. p \in Modules BY ContentsTypes, ModuleTypes DEF Counting
  <2>3. refs[Parent(f)] <= 1 BY <1>1, <2>2
  <2>4. Cardinality(Counting(f)) # 0 BY <1>2, FS_EmptySet
  <2> QED BY <1>1, <1>3, <2>3, <2>4
<1>5. Cardinality(Counting(f)) = 0 BY <1>4, FS_EmptySet
<1> QED BY <1>1, <1>5

\* XPR_PluginUnloadAll: what has the fewest references is claimed by nobody.
LEMMA UnloadNextKeeps ==
  ASSUME PluginInv, DependsInited, UnloadNext
  PROVE  PluginInv' /\ DependsInited'
<1> DEFINE h == Head(Sorted)
           u == <<"unload", h>>
           t == <<"next", NoModule>>
           new == IF list = << >> THEN << >> ELSE <<u, t>>
<1>1. Doing("next", NoModule) /\ list' = Sorted /\ UNCHANGED <<inits, tail, refs, inited>>
  BY DEF UnloadNext
<1>2. /\ TypeOK /\ Ledger /\ Counts /\ TailIsLast /\ Unloading
      /\ ListOK /\ refs \in [Modules -> Nat] /\ inited \subseteq Plugins
      /\ todo \in Seq(Cleanups) /\ 1 \in DOMAIN todo /\ DOMAIN todo = 1 .. Len(todo) /\ Len(todo) \in Nat
      /\ todo[1] = t /\ Op(1) = "next"
  BY <1>1, UnloadDoing
<1>3. Len(todo) = 1 /\ todo = <<t>>
  <2>1. Len(todo) = 1 BY <1>2 DEF Unloading
  <2> QED BY <1>2, <2>1, OneLong
<1>4. /\ Sorted \in Seq(Modules) /\ IsInjective(Sorted) /\ ToSet(Sorted) = listed
      /\ list # << >> => /\ Sorted # << >> /\ Head(Sorted) \in listed
                         /\ \A m \in listed : refs[Head(Sorted)] <= refs[m]
  <2>1. \A m \in listed : refs[m] \in Nat BY <1>2, ListTypes
  <2> QED BY <1>2, <2>1, SortedProperties
<1>5. listed' = listed /\ ListOK' /\ listed \subseteq Modules
  BY <1>1, <1>2, <1>4, ListTypes DEF ListOK, listed
<1>6. \A m \in Modules : refs[m] > 0 <=> m \in listed
  <2>1. \A m : ~Contains(todo, <<"remove", m>>) BY <1>3, NothingContained
  <2> QED BY <1>2, <2>1 DEF TypeOK
<1>7. list # << >> => /\ h \in listed /\ h \in Modules /\ refs[h] > 0 /\ (\A m \in listed : refs[h] <= refs[m])
                      /\ h \in Plugins => Claims(h, Counted) = {}
  <2>1. SUFFICES ASSUME list # << >>
                 PROVE  /\ h \in listed /\ h \in Modules /\ refs[h] > 0 /\ (\A m \in listed : refs[h] <= refs[m])
                        /\ h \in Plugins => Claims(h, Counted) = {}
    OBVIOUS
  <2>2. h \in listed /\ h \in Modules /\ (\A m \in listed : refs[h] <= refs[m]) BY <1>4, <1>5, <2>1
  <2> HIDE DEF h
  <2>3. refs[h] > 0 BY <1>6, <2>2
  <2>4. inited \subseteq listed BY <1>2 DEF TypeOK
  <2> QED BY <1>2, <2>2, <2>3, <2>4, FewestUnclaimed
<1> HIDE DEF h
<1>8. /\ new \in Seq(Cleanups) /\ Then(new) /\ todo' = new
      /\ \A k \in 1 .. Len(new) : /\ list # << >> /\ Len(new) = 2
                                  /\ \/ k = 1 /\ new[k] = u
                                     \/ k = 2 /\ new[k] = t
      /\ list # << >> => new = <<u, t>>
  <2>1. todo' = new
    <3>1. todo' = IF list = << >> THEN << >> ELSE <<<<"unload", Head(list')>>>> \o todo
      BY DEF UnloadNext
    <3>2. Head(list') = h BY <1>1 DEF h
    <3>3. <<u>> \o <<t>> = <<u, t>>
      <4> HIDE DEF u, t
      <4>1. <<u>> \in Seq({u, t}) /\ Len(<<u>>) = 1 /\ <<u>>[1] = u OBVIOUS
      <4>2. /\ <<u>> \o <<t>> \in Seq({u, t}) /\ Len(<<u>> \o <<t>>) = 2
            /\ (<<u>> \o <<t>>)[2] = t /\ (<<u>> \o <<t>>)[1] = u
        BY <4>1, Ended
      <4> QED BY <4>2, TwoLong
    <3> QED BY <1>3, <3>1, <3>2, <3>3
  <2>2. t \in Cleanups /\ (list # << >> => u \in Cleanups) BY <1>7, CleanupTypes
  <2> HIDE DEF u, t
  <2>3. CASE list = << >>
    <3>1. new = << >> BY <2>3
    <3>2. Tail(todo) = << >> BY <1>3
    <3>3. << >> \o << >> = << >> BY ConcatEmptySeq
    <3>4. << >> \in Seq(Cleanups) /\ \A k \in 1 .. Len(<< >>) : FALSE BY CleanupTypes
    <3> QED BY <2>1, <2>3, <3>1, <3>2, <3>3, <3>4 DEF Then
  <2>4. CASE list # << >>
    <3>1. new = <<u, t>> BY <2>4
    <3>2. Tail(todo) = << >> BY <1>3
    <3>3. /\ <<u, t>> \in Seq(Cleanups) /\ Len(<<u, t>>) = 2 /\ <<u, t>>[1] = u /\ <<u, t>>[2] = t
          /\ \A k \in 1 .. 2 : k = 1 \/ k = 2
      BY <2>2, <2>4
    <3>4. <<u, t>> \o << >> = <<u, t>> BY <3>3, ConcatEmptySeq
    <3> QED BY <2>1, <2>4, <3>1, <3>2, <3>3, <3>4 DEF Then
  <2> QED BY <2>3, <2>4
<1> HIDE DEF new
<1>9. Shrinks(new)
  <2>1. refs' \in [Modules -> Nat] /\ \A c \in Modules : refs'[c] <= refs[c] BY <1>1, <1>2
  <2> QED BY <1>1, <1>8, <2>1, UnloadShrinks
<1>10. Replaces(new) BY <1>9 DEF Shrinks
<1>11. ~(2 \in 2 .. Len(todo)) /\ \A i \in 2 .. Len(todo) : FALSE BY <1>3
<1>12. ASSUME NEW y, NEW k \in 1 .. Len(new)
       PROVE  /\ new[k] # <<"unref", y>> /\ new[k] # <<"drop", y>> /\ new[k] # <<"remove", y>>
              /\ new[k] = <<"unload", y>> => k = 1 /\ y = h /\ list # << >>
              /\ k # 1 => new[k] \notin About(y)
  <2>1. /\ u # <<"unref", y>> /\ u # <<"drop", y>> /\ u # <<"remove", y>>
        /\ (u = <<"unload", y>> => y = h)
    OBVIOUS
  <2>2. /\ t # <<"unref", y>> /\ t # <<"drop", y>> /\ t # <<"remove", y>> /\ t # <<"unload", y>>
    OBVIOUS
  <2> HIDE DEF u, t
  <2>3. list # << >> /\ ((k = 1 /\ new[k] = u) \/ (k = 2 /\ new[k] = t)) BY <1>8
  <2> QED BY <2>1, <2>2, <2>3 DEF About
<1>13. UnloadPending'
  <2>1. ASSUME NEW y, NEW i \in 1 .. Len(new), new[i] = <<"unload", y>>
        PROVE  /\ \A k \in 1 .. Len(new) : k # i => new[k] \notin About(y)
               /\ \A k \in 2 .. Len(todo) : todo[k] \notin About(y)
               /\ y \in Plugins => Unclaimed(y)'
    <3>1. i = 1 /\ y = h /\ list # << >> BY <1>12, <2>1
    <3>2. ASSUME y \in Plugins PROVE Unclaimed(y)'
      <4>1. Claims(y, Counted) = {} BY <1>7, <3>1, <3>2
      <4>2. ~Pending("drop", y)
        <5>1. <<"drop", y>> # t OBVIOUS
        <5> QED BY <1>3, <5>1, NothingContained DEF Pending
      <4>3. Unclaimed(y) BY <4>1, <4>2 DEF Unclaimed
      <4> QED BY <1>9, <1>12, <4>3, UnclaimedKept
    <3> QED BY <1>11, <1>12, <3>1, <3>2
  <2> QED BY <1>2, <1>9, <1>11, <2>1, UnloadPendingKept
<1>14. UnrefPending' BY <1>2, <1>9, <1>11, <1>12, UnrefPendingKept
<1>15. RemovePending' BY <1>2, <1>10, <1>11, <1>12, RemovePendingKept
<1>16. ParentGoes'
  <2>1. ASSUME NEW f \in Files, NEW i \in 1 .. Len(new), Multi(f),
               new[i] \in {<<"unload", Parent(f)>>, <<"unref", Parent(f)>>}
        PROVE  i = 1 /\ refs'[Parent(f)] = 1
    <3>1. i = 1 /\ Parent(f) = h /\ list # << >> BY <1>12, <2>1
    <3>2. refs[Parent(f)] > 0 /\ \A m \in Modules : refs[m] > 0 => refs[Parent(f)] <= refs[m]
      BY <1>6, <1>7, <3>1
    <3>3. refs[Parent(f)] = 1 BY <1>2, <2>1, <3>2, FewestParent
    <3> QED BY <1>1, <3>1, <3>3
  <2> QED BY <1>2, <1>10, <2>1, ParentGoesKept
<1>17. Counts'
  <2>1. \A p \in inited' : refs'[p] > 0 BY <1>1, <1>2 DEF Counts
  <2> QED BY <1>1, <1>2, <2>1, CountsKept
<1>18. TypeOK'
  <2>1. ASSUME NEW c \in Modules
        PROVE  (refs'[c] > 0) = (c \in listed' /\ ~Contains(todo', <<"remove", c>>))
    <3>1. DOMAIN new = 1 .. Len(new) BY <1>8, LenProperties
    <3>2. ~Contains(todo', <<"remove", c>>) BY <1>8, <1>12 DEF Contains
    <3>3. refs'[c] > 0 <=> c \in listed' BY <1>1, <1>5, <1>6
    <3> QED BY <3>2, <3>3
  <2>2. inited' \subseteq listed' \cap Plugins BY <1>1, <1>2, <1>5 DEF TypeOK
  <2> QED BY <1>1, <1>2, <1>5, <2>1, <2>2 DEF TypeOK, ListOK
<1>19. TailIsLast'
  <2>1. CASE list = << >>
    <3>1. listed = {} BY <1>2, <2>1, ListTypes
    <3>2. Sorted = << >>
      <4>1. Len(Sorted) \in Nat /\ DOMAIN Sorted = 1 .. Len(Sorted) BY <1>4, LenProperties
      <4>2. \A i \in DOMAIN Sorted : FALSE BY <1>4, <3>1 DEF ToSet
      <4>3. Len(Sorted) = 0
        <5>1. ~(1 \in 1 .. Len(Sorted)) BY <4>1, <4>2
        <5> QED BY <4>1, <5>1
      <4> QED BY <1>4, <4>3, EmptySeq
    <3> QED BY <1>1, <3>2 DEF TailIsLast
  <2>2. CASE list # << >>
    <3>1. todo' = <<u, t>> BY <1>8, <2>2
    <3>2. Contains(<<u, t>>, t)
      <4> HIDE DEF u, t
      <4>1. Len(<<u, t>>) = 2 /\ <<u, t>>[2] = t /\ 2 \in 1 .. 2 OBVIOUS
      <4> QED BY <4>1 DEF Contains
    <3>3. Pending("next", NoModule)' BY <3>1, <3>2 DEF Pending
    <3> QED BY <3>3 DEF TailIsLast
  <2> QED BY <2>1, <2>2
<1>20. Ledger' BY <1>1, <1>2, <1>8, <1>9, <1>12, LedgerSame
<1>21. Unloading'
  <2>1. ASSUME NEW k \in 1 .. Len(new), new[k][1] \in {"next", "fail"} PROVE k = Len(new) /\ Len(todo) = 1
    <3>1. u[1] = "unload" OBVIOUS
    <3> HIDE DEF u, t
    <3> QED BY <1>3, <1>8, <2>1, <3>1
  <2>2. \A p \in Plugins : p \notin inited' => p \notin inited /\ todo[1] # <<"unref", p>>
    <3>1. \A p : t # <<"unref", p>> OBVIOUS
    <3> QED BY <1>1, <1>2, <3>1
  <2> QED BY <1>2, <1>9, <1>13, <1>14, <1>15, <1>16, <2>1, <2>2, UnloadingKept
<1>22. DependsInited' BY <1>1, SameInited
<1> QED BY <1>17, <1>18, <1>19, <1>20, <1>21, <1>22 DEF PluginInv

-----------------------------------------------------------------------------
(* The calls.                                                              *)

\* Between calls the counts cover the claims.
LEMMA Idle ==
  ASSUME PluginInv, todo = << >>
  PROVE  /\ Settled /\ Counts
         /\ \A p \in Plugins : refs[p] > 0 <=> p \in inited
         /\ \A d \in Plugins : /\ Cardinality(Claims(d, Counted)) + (IF refs[d] > 0 THEN 1 ELSE 0) <= refs[d]
                               /\ Cardinality(Claims(d, Counted)) \in Nat /\ refs[d] \in Nat
         /\ \A p \in Plugins : Counted[p] = IF p \in inited THEN refs[p] ELSE 0
<1>1. TypeOK /\ Ledger /\ Counts /\ TailIsLast /\ (Loading \/ Unloading) BY DEF PluginInv
<1>2. \A op, x : ~Pending(op, x) BY NothingContained DEF Pending
<1>3. ListOK /\ refs \in [Modules -> Nat] /\ inited \subseteq Plugins BY <1>1 DEF TypeOK, ListOK
<1>4. \A m \in Modules : refs[m] > 0 <=> m \in listed
  <2>1. \A m : ~Contains(todo, <<"remove", m>>) BY NothingContained
  <2> QED BY <1>1, <2>1 DEF TypeOK
<1>5. \A p \in Plugins : refs[p] > 0 <=> p \in inited
  <2>1. \A p \in Plugins : refs[p] > 0 => p \in inited BY <1>1, <1>2 DEF Loading, Unloading
  <2> QED BY <1>1, <2>1 DEF Counts
<1>6. list = << >> \/ tail = Last(list) BY <1>1, <1>2 DEF TailIsLast
<1>7. Settled BY <1>1, <1>3, <1>4, <1>5, <1>6 DEF Settled, TypeOK
<1>8. todo \in Seq(LoadTasks) BY LoadTaskTypes
<1>9. ASSUME NEW d \in Plugins
      PROVE  /\ Cardinality(Claims(d, Counted)) + (IF refs[d] > 0 THEN 1 ELSE 0) <= refs[d]
             /\ Cardinality(Claims(d, Counted)) \in Nat /\ refs[d] \in Nat
  <2>1. /\ Cardinality(Claims(d, Counted)) + (IF refs[d] > 0 THEN 1 ELSE 0)
             <= refs[d] + Number(todo, Expected(d))
        /\ Cardinality(Claims(d, Counted)) \in Nat
    BY <1>1, <1>3, <1>8, LedgerOfLoad
  <2>2. Number(todo, Expected(d)) = 0 BY NothingContained
  <2>3. refs[d] \in Nat BY <1>3, ModuleTypes
  <2> QED BY <2>1, <2>2, <2>3
<1>10. \A p \in Plugins : Counted[p] = IF p \in inited THEN refs[p] ELSE 0 BY <1>2 DEF Counted
<1> QED BY <1>1, <1>5, <1>7, <1>9, <1>10

\* A call starts, or none is at work: nothing is counted yet.
LEMMA StartKept ==
  ASSUME PluginInv, todo = << >>, UNCHANGED <<list, refs, inited>>,
         list' = << >> \/ tail' = tail, inits' \in 0 .. MaxInits,
         \A op \in {"init", "remove", "drop"} : \A x : ~Contains(todo', <<op, x>>),
         \A d : Number(todo', Expected(d)) = 0 /\ Number(todo', Dropped(d)) = 0
  PROVE  /\ Settled' /\ Counts' /\ Ledger' /\ TypeOK' /\ TailIsLast'
         /\ \A p \in Plugins : refs'[p] > 0 <=> p \in inited'
         /\ \A d \in Plugins : Claims(d, Counted') = Claims(d, Counted)
<1>1. /\ Settled /\ Counts
      /\ \A p \in Plugins : refs[p] > 0 <=> p \in inited
      /\ \A d \in Plugins : /\ Cardinality(Claims(d, Counted)) + (IF refs[d] > 0 THEN 1 ELSE 0) <= refs[d]
                            /\ Cardinality(Claims(d, Counted)) \in Nat /\ refs[d] \in Nat
  BY Idle
<1>2. Settled' BY <1>1 DEF Settled, ListOK, listed
<1>3. Counts'
  <2>1. \A p \in inited' : refs'[p] > 0 BY <1>1 DEF Counts
  <2> QED BY <1>1, <2>1, CountsKept
<1>4. TypeOK' /\ TailIsLast' BY <1>2, SettledKept
<1>5. Counted' = Counted
  <2>1. \A p : ~Pending("init", p) BY NothingContained DEF Pending
  <2>2. \A p : ~Pending("init", p)' BY DEF Pending
  <2>3. \A p \in Plugins : /\ p \in inited' <=> p \in inited
                           /\ refs'[p] = refs[p]
                           /\ Pending("init", p)' <=> Pending("init", p)
    BY <2>1, <2>2
  <2> QED BY <2>3, CountedSame
<1>6. Ledger'
  <2>1. refs' \in [Modules -> Nat] BY <1>2 DEF Settled
  <2>2. \A d \in Plugins : Cardinality(Claims(d, Counted')) + (IF refs'[d] > 0 THEN 1 ELSE 0)
                             <= refs'[d] + Number(todo', Expected(d))
    BY <1>1, <1>5
  <2>3. \A d \in Plugins : Number(todo', {<<"drop", d>>}) = 0 BY DEF Dropped
  <2> QED BY <2>1, <2>2, <2>3, LedgerNext
<1> QED BY <1>1, <1>2, <1>3, <1>4, <1>5, <1>6

\* No call is at work.
LEMMA StillIdle ==
  ASSUME PluginInv, todo = << >>, UNCHANGED <<list, refs, inited, todo>>,
         list' = << >> \/ tail' = tail, inits' \in 0 .. MaxInits
  PROVE  PluginInv'
<1>1. /\ \A t : ~Contains(todo', t)
      /\ \A S : Number(todo', S) = 0
  BY NothingContained
<1>2. /\ Settled' /\ Counts' /\ Ledger'
      /\ \A p \in Plugins : refs'[p] > 0 <=> p \in inited'
  BY <1>1, StartKept
<1>3. Loading'
  <2>1. todo' \in Seq(LoadTasks) BY LoadTaskTypes
  <2>2. \A i \in DOMAIN todo' : FALSE OBVIOUS
  <2> QED BY <1>2, <2>1, <2>2 DEF Loading, Descends, Outermost, Aligned, Arrives, InOrder
<1> QED BY <1>2, <1>3, LoadingKept

\* XPR_PluginLoad starts.
LEMMA LoadKeeps ==
  ASSUME PluginInv, NEW f \in Files, Load(f)
  PROVE  PluginInv'
<1> DEFINE t == <<"load", f>>
<1>1. todo = << >> /\ todo' = <<t>> /\ UNCHANGED <<inits, list, tail, refs, inited>> BY DEF Load
<1>2. Settled BY <1>1, Idle
<1>3. t[1] = "load" /\ t[2] = f /\ t \in LoadTasks /\ <<t>> \in Seq(LoadTasks) BY LoadTaskTypes
<1>4. \A op \in {"init", "remove", "drop"} : \A x : ~Contains(todo', <<op, x>>)
  <2>1. \A op \in {"init", "remove", "drop"} : \A x : <<op, x>> # t OBVIOUS
  <2> QED BY <1>1, <2>1, NothingContained
<1>5. \A d : Number(todo', Expected(d)) = 0 /\ Number(todo', Dropped(d)) = 0
  <2>1. \A d : t \notin Expected(d) /\ t \notin Dropped(d) BY DEF Expected, Dropped
  <2> QED BY <1>1, <2>1, NumberOne
<1>6. /\ Settled' /\ Counts' /\ Ledger'
      /\ \A p \in Plugins : refs'[p] > 0 <=> p \in inited'
  <2>1. inits' \in 0 .. MaxInits BY <1>1, <1>2 DEF Settled
  <2> QED BY <1>1, <1>4, <1>5, <2>1, StartKept
<1>7. Descends' /\ Outermost' /\ Aligned' /\ Arrives' BY <1>1, <1>3, AloneKept
<1>8. InOrder'
  <2> HIDE DEF t
  <2>1. DOMAIN todo' = {1} /\ todo'[1] = t BY <1>1
  <2> QED BY <1>3, <2>1 DEF InOrder, Op
<1>9. todo' \in Seq(LoadTasks) BY <1>1, <1>3
<1>10. Loading' BY <1>6, <1>7, <1>8, <1>9 DEF Loading
<1> QED BY <1>6, <1>10, LoadingKept

\* XPR_PluginUnload and XPR_PluginUnloadAll start.
LEMMA UnloadCallKeeps ==
  ASSUME PluginInv, todo = << >>, NEW t, todo' = <<t>>, UNCHANGED <<inits, list, tail, refs, inited>>,
         \/ t = <<"next", NoModule>>
         \/ \E p \in Plugins : t = <<"unload", p>> /\ \A q \in inited : ~Contains(Depends[q], p)
  PROVE  PluginInv'
<1>1. /\ Settled
      /\ \A p \in Plugins : Counted[p] = IF p \in inited THEN refs[p] ELSE 0
  BY Idle
<1>2. t \in Cleanups /\ t[1] \in {"next", "unload"}
  <2>1. CASE t = <<"next", NoModule>> BY <2>1, CleanupTypes
  <2>2. ASSUME NEW p \in Plugins, t = <<"unload", p>> PROVE t \in Cleanups /\ t[1] \in {"next", "unload"}
    BY <2>2, CleanupTypes, ModuleTypes
  <2> QED BY <2>1, <2>2
<1>3. /\ <<t>> \in Seq(Cleanups) /\ DOMAIN todo' = {1} /\ todo'[1] = t /\ Len(todo') = 1
      /\ Op(1)' = t[1] /\ Arg(1)' = t[2]
  <2>1. <<t>> \in Seq(Cleanups) BY <1>2, CleanupTypes
  <2>2. DOMAIN todo' = {1} /\ todo'[1] = t /\ Len(todo') = 1 OBVIOUS
  <2> QED BY <2>1, <2>2 DEF Op, Arg
<1>4. \A op \in {"init", "remove", "drop", "unref"} : \A x : <<op, x>> # t
  <2>1. \A op \in {"init", "remove", "drop", "unref"} : \A x : <<op, x>>[1] = op OBVIOUS
  <2>2. \A op \in {"init", "remove", "drop", "unref"} : op # t[1] BY <1>2
  <2> QED BY <2>1, <2>2
<1>5. \A op \in {"init", "remove", "drop", "unref"} : \A x : ~Contains(todo', <<op, x>>)
  BY <1>4, NothingContained
<1>6. \A d : Number(todo', Expected(d)) = 0 /\ Number(todo', Dropped(d)) = 0
  <2>1. \A d : t \notin Expected(d) /\ t \notin Dropped(d) BY <1>2 DEF Expected, Dropped
  <2> QED BY <2>1, NumberOne
<1>7. /\ Counts' /\ Ledger' /\ TypeOK' /\ TailIsLast'
      /\ \A p \in Plugins : refs'[p] > 0 <=> p \in inited'
      /\ \A d \in Plugins : Claims(d, Counted') = Claims(d, Counted)
  <2>1. inits' \in 0 .. MaxInits BY <1>1 DEF Settled
  <2> QED BY <1>5, <1>6, <2>1, StartKept
<1>8. UnloadPending'
  <2>1. ASSUME Op(1)' = "unload"
        PROVE  /\ ~Pending("unref", Arg(1))' /\ ~Pending("remove", Arg(1))'
               /\ Arg(1)' \in Plugins => Unclaimed(Arg(1))'
    <3>1. t[1] = "unload" BY <1>3, <2>1
    <3>2. PICK p \in Plugins : t = <<"unload", p>> /\ \A q \in inited : ~Contains(Depends[q], p)
      BY <3>1
    <3>3. Arg(1)' = p BY <1>3, <3>2
    <3>4. Claims(p, Counted) = {}
      <4>1. SUFFICES ASSUME NEW q \in Plugins, NEW i \in Uses(q, p), NEW k \in 1 .. Counted[q] PROVE FALSE
        BY ClaimsMember
      <4>2. q \in inited
        <5>1. SUFFICES ASSUME q \notin inited PROVE FALSE OBVIOUS
        <5>2. Counted[q] = 0 BY <1>1, <5>1
        <5> QED BY <5>2
      <4>3. Contains(Depends[q], p) BY UsesProperties
      <4> QED BY <3>2, <4>2, <4>3
    <3>5. Claims(p, Counted') = {} BY <1>7, <3>4
    <3>6. Claims(Arg(1), Counted)' = {} BY <3>3, <3>5 DEF Claims
    <3> QED BY <1>5, <3>3, <3>6 DEF Unclaimed, Pending
  <2> QED BY <1>3, <2>1 DEF UnloadPending
<1>9. UnrefPending' /\ RemovePending' BY <1>2, <1>3 DEF UnrefPending, RemovePending
<1>10. ParentGoes'
  <2>1. ASSUME NEW f \in Files, t \in {<<"unload", Parent(f)>>, <<"unref", Parent(f)>>} PROVE FALSE
    <3>1. t[1] \in {"unload", "unref"} /\ t[2] = Parent(f) BY <2>1
    <3>2. t[1] = "unload" BY <1>2, <3>1
    <3>3. PICK p \in Plugins : t = <<"unload", p>> BY <3>2
    <3>4. t[2] = p BY <3>3
    <3> QED BY <3>1, <3>4, Parents
  <2> QED BY <1>3, <2>1 DEF ParentGoes
<1>11. Unloading'
  <2>1. \A i \in DOMAIN todo' : i = Len(todo') BY <1>3
  <2> QED BY <1>3, <1>7, <1>8, <1>9, <1>10, <2>1 DEF Unloading, Cleanups
<1> QED BY <1>7, <1>11 DEF PluginInv

\* All calls of a careful application.
LEMMA CallKeeps ==
  ASSUME Careful, PluginInv, DependsInited, Call
  PROVE  PluginInv' /\ DependsInited'
<1>1. CASE PluginInit
  <2>1. todo = << >> /\ inits < MaxInits /\ inits' = inits + 1 /\ UNCHANGED <<list, tail, refs, inited, todo>>
    BY <1>1 DEF PluginInit
  <2>2. inits \in 0 .. MaxInits BY <2>1, Idle DEF Settled
  <2>3. inits' \in 0 .. MaxInits BY <2>1, <2>2, PluginConstants
  <2> QED BY <2>1, <2>3, StillIdle, SameInited
<1>2. CASE PluginFini
  <2>1. todo = << >> /\ inits > 0 /\ inits' = inits - 1 /\ UNCHANGED <<list, refs, inited, todo>>
        /\ (list' = << >> \/ tail' = tail)
    BY <1>2 DEF PluginFini
  <2>2. inits \in 0 .. MaxInits BY <2>1, Idle DEF Settled
  <2>3. inits' \in 0 .. MaxInits BY <2>1, <2>2, PluginConstants
  <2> QED BY <2>1, <2>3, StillIdle, SameInited
<1>3. CASE UnloadAll
  <2>1. todo = << >> /\ todo' = <<<<"next", NoModule>>>> /\ UNCHANGED <<inits, list, tail, refs, inited>>
    BY <1>3 DEF UnloadAll
  <2> QED BY <2>1, UnloadCallKeeps, SameInited
<1>4. ASSUME NEW p \in Plugins, Unload(p) PROVE PluginInv' /\ DependsInited'
  <2>1. /\ todo = << >> /\ todo' = <<<<"unload", p>>>> /\ UNCHANGED <<inits, list, tail, refs, inited>>
        /\ \A q \in inited : ~Contains(Depends[q], p)
    BY <1>4 DEF Unload, Unneeded
  <2> QED BY <2>1, UnloadCallKeeps, SameInited
<1>5. ASSUME NEW f \in Files, Load(f) PROVE PluginInv' /\ DependsInited'
  <2>1. UNCHANGED inited BY <1>5 DEF Load
  <2> QED BY <1>5, <2>1, LoadKeeps, SameInited
<1> QED BY <1>1, <1>2, <1>3, <1>4, <1>5 DEF Call

-----------------------------------------------------------------------------
(* Every step.                                                             *)

\* A step that fails a load.
LEMMA FailedKeeps ==
  ASSUME PluginInv, DependsInited, NEW op \in {"load", "plugin", "depend", "init", "fail"}, NEW x,
         Doing(op, x), Fails, UNCHANGED <<inits, list, tail, refs, inited>>
  PROVE  PluginInv' /\ DependsInited'
<1>1. PluginInv' BY FailsKeeps
<1> QED BY <1>1, SameInited

\* loadModule, at a file.
LEMMA LoadFileKeeps ==
  ASSUME PluginInv, DependsInited, NEW f \in Files, LoadFile(f)
  PROVE  PluginInv' /\ DependsInited'
<1>1. Doing("load", f) /\ UNCHANGED <<inits, inited>> BY DEF LoadFile
<1>2. DependsInited' BY <1>1, SameInited
<1>3. CASE IsLibraryLoaded(f) /\ Then(<< >>) /\ UNCHANGED <<list, tail, refs>>
  BY <1>1, <1>2, <1>3, FileLoadedKeeps
<1>4. CASE Fails /\ UNCHANGED <<list, tail, refs>> BY <1>1, <1>4, FailedKeeps
<1>5. CASE /\ ~IsLibraryLoaded(f) /\ Then(<<<<"plugin", Contents[f][1]>>>>)
           /\ IF Multi(f)
                THEN ListAppend(Parent(f), [refs EXCEPT ![Parent(f)] = 1])
                ELSE UNCHANGED <<list, tail, refs>>
  <2>1. CASE Multi(f) BY <1>1, <1>2, <1>5, <2>1, SharedFileKeeps
  <2>2. CASE ~Multi(f) BY <1>1, <1>2, <1>5, <2>2, SingleFileKeeps
  <2> QED BY <2>1, <2>2
<1> QED BY <1>3, <1>4, <1>5 DEF LoadFile

\* loadModuleDepends, in all its cases.
LEMMA LoadDependKeeps ==
  ASSUME PluginInv, DependsInited, NEW d \in Plugins, LoadDepend(d)
  PROVE  PluginInv' /\ DependsInited'
<1>1. Doing("depend", d) /\ UNCHANGED <<inits, list, tail, refs, inited>> BY DEF LoadDepend
<1>2. DependsInited' BY <1>1, SameInited
<1>3. CASE Found(d) /\ Then(<<<<"ref", d>>>>) BY <1>1, <1>2, <1>3, DependFoundKeeps
<1>4. CASE d \in Files /\ Then(<<<<"load", d>>, <<"ref", d>>>>)
  BY <1>1, <1>2, <1>4, DependAbsentKeeps
<1>5. CASE Fails BY <1>1, <1>5, FailedKeeps
<1> QED BY <1>3, <1>4, <1>5 DEF LoadDepend

\* All steps of a load.
LEMMA LoadStepKeeps ==
  ASSUME PluginInv, DependsInited, LoadStep
  PROVE  PluginInv' /\ DependsInited'
<1>1. ASSUME NEW f \in Files, LoadFile(f) PROVE PluginInv' /\ DependsInited'
  BY <1>1, LoadFileKeeps
<1>2. ASSUME NEW f \in Files, GiveUp(f) PROVE PluginInv' /\ DependsInited'
  BY <1>2, FailedKeeps DEF GiveUp
<1>3. ASSUME NEW p \in Plugins, LoadPlugin(p) PROVE PluginInv' /\ DependsInited'
  <2>1. UNCHANGED inited BY <1>3 DEF LoadPlugin
  <2> QED BY <1>3, <2>1, LoadPluginKeeps, SameInited
<1>4. ASSUME NEW d \in Plugins, LoadDepend(d) PROVE PluginInv' /\ DependsInited'
  BY <1>4, LoadDependKeeps
<1>5. ASSUME NEW d \in Plugins, RefModuleRecursive(d) PROVE PluginInv' /\ DependsInited'
  <2>1. UNCHANGED inited BY <1>5 DEF RefModuleRecursive
  <2> QED BY <1>5, <2>1, RefModuleKeeps, SameInited
<1>6. ASSUME NEW p \in Plugins, InitPlugin(p) PROVE PluginInv' /\ DependsInited'
  BY <1>6, InitPluginKeeps
<1>7. ASSUME NEW p \in Plugins, InitFails(p) PROVE PluginInv' /\ DependsInited'
  BY <1>7, FailedKeeps DEF InitFails
<1> QED BY <1>1, <1>2, <1>3, <1>4, <1>5, <1>6, <1>7 DEF LoadStep

\* All steps of an unload.
LEMMA UnloadStepKeeps ==
  ASSUME PluginInv, DependsInited, UnloadStep \/ Busy
  PROVE  PluginInv' /\ DependsInited'
<1>1. ASSUME NEW m \in Modules, UnloadModule(m) PROVE PluginInv' /\ DependsInited'
  BY <1>1, UnloadModuleKeeps
<1>2. ASSUME NEW m \in Modules, Unref(m) PROVE PluginInv' /\ DependsInited'
  BY <1>2, UnrefKeeps
<1>3. ASSUME NEW m \in Modules, RemoveModule(m) PROVE PluginInv' /\ DependsInited'
  BY <1>3, RemoveModuleKeeps
<1>4. ASSUME NEW d \in Plugins, UnloadDepend(d) PROVE PluginInv' /\ DependsInited'
  BY <1>4, UnloadDependKeeps
<1>5. ASSUME NEW p \in Plugins, FiniFails(p) PROVE PluginInv' /\ DependsInited'
  <2>1. UNCHANGED inited BY <1>5 DEF FiniFails
  <2> QED BY <1>5, <2>1, FiniFailsKeeps, SameInited
<1> QED BY <1>1, <1>2, <1>3, <1>4, <1>5, UnloadNextKeeps DEF UnloadStep, Unloads, Busy

\* A step that changes nothing.
LEMMA StutterKeeps ==
  ASSUME PluginInv, DependsInited, UNCHANGED vars
  PROVE  PluginInv' /\ DependsInited'
<1>1. UNCHANGED <<inits, list, tail, refs, inited, todo>> BY DEF vars
<1>2. listed' = listed BY <1>1 DEF listed
<1>3. /\ \A op, x : Pending(op, x)' <=> Pending(op, x)
      /\ \A i : Op(i)' = Op(i) /\ Arg(i)' = Arg(i)
  BY <1>1 DEF Pending, Op, Arg
<1>4. Counted' = Counted BY <1>1, <1>3 DEF Counted, Pending
<1>5. TypeOK' <=> TypeOK BY <1>1, <1>2 DEF TypeOK
<1>6. Ledger' <=> Ledger BY <1>1, <1>4 DEF Ledger, Claims, Owed, Coming, Number
<1>7. Counts' <=> Counts BY <1>1 DEF Counts, Counting
<1>8. TailIsLast' <=> TailIsLast BY <1>1 DEF TailIsLast, Pending
<1>9. Loading' <=> Loading
  <2>1. Descends' <=> Descends BY <1>1 DEF Descends
  <2>2. Outermost' <=> Outermost BY <1>1 DEF Outermost, Op, Arg
  <2>3. Aligned' <=> Aligned BY <1>1 DEF Aligned, Op, Arg
  <2>4. Arrives' <=> Arrives BY <1>1 DEF Arrives, Op, Arg
  <2>5. InOrder' <=> InOrder BY <1>1 DEF InOrder, IsNext, Op, Arg
  <2> QED BY <1>1, <2>1, <2>2, <2>3, <2>4, <2>5 DEF Loading
<1>10. Unloading' <=> Unloading
  <2>1. \A p : Claims(p, Counted)' = Claims(p, Counted) BY <1>4 DEF Claims
  <2>2. UnloadPending' <=> UnloadPending BY <1>1, <1>4 DEF UnloadPending, Op, Arg, Pending, Unclaimed, Claims
  <2>3. UnrefPending' <=> UnrefPending BY <1>1, <1>4 DEF UnrefPending, Op, Arg, Pending, Unclaimed, Claims
  <2>4. RemovePending' <=> RemovePending BY <1>1, <1>2 DEF RemovePending, Op, Arg
  <2>5. ParentGoes' <=> ParentGoes BY <1>1 DEF ParentGoes
  <2> QED BY <1>1, <2>2, <2>3, <2>4, <2>5 DEF Unloading, Op, Pending
<1> QED BY <1>1, <1>5, <1>6, <1>7, <1>8, <1>9, <1>10, SameInited DEF PluginInv

\* No plugin is loaded at first.
LEMMA InvariantStarts ==
  ASSUME Init PROVE PluginInv /\ DependsInited
<1>1. /\ inits = 0 /\ list = << >> /\ tail = NoModule /\ todo = << >> /\ inited = {}
      /\ refs = [m \in Modules |-> 0] /\ refs \in [Modules -> Nat]
  BY DEF Init
<1>2. /\ \A t : ~Contains(todo, t)
      /\ \A S : Number(todo, S) = 0
  BY <1>1, NothingContained
<1>3. ListOK /\ listed = {} BY <1>1 DEF ListOK, listed, IsInjective, ToSet
<1>4. TypeOK BY <1>1, <1>2, <1>3, PluginConstants DEF TypeOK, ListOK
<1>5. Counts
  <2>1. \A f \in Files : Counting(f) = {}
    <3>1. \A f \in Files : ToSet(Contents[f]) \subseteq Plugins BY ContentsTypes
    <3> QED BY <1>1, <3>1, ModuleTypes DEF Counting
  <2> QED BY <1>1, <2>1, ModuleTypes DEF Counts
<1>6. TailIsLast BY <1>1 DEF TailIsLast
<1>7. Ledger
  <2> SUFFICES ASSUME NEW d \in Plugins
               PROVE  Cardinality(Claims(d, Counted)) + Owed(d) + (IF refs[d] > 0 THEN 1 ELSE 0)
                        <= refs[d] + Coming(d)
    BY DEF Ledger
  <2>1. Owed(d) = 0 /\ Coming(d) = 0 BY <1>2 DEF Owed, Coming
  <2>2. refs[d] = 0 BY <1>1, ModuleTypes
  <2>3. \A p \in Plugins : Counted[p] = 0 BY <1>1, <1>2 DEF Counted, Pending
  <2>4. Claims(d, Counted) = {} BY <2>3, ClaimsMember
  <2>5. Cardinality(Claims(d, Counted)) = 0 BY <2>4, FS_EmptySet
  <2> QED BY <2>1, <2>2, <2>5
<1>8. Loading
  <2>1. todo \in Seq(LoadTasks) BY <1>1, LoadTaskTypes
  <2>2. \A i \in DOMAIN todo : FALSE BY <1>1
  <2>3. \A p \in Plugins : ~(refs[p] > 0) BY <1>1, ModuleTypes
  <2> QED BY <2>1, <2>2, <2>3 DEF Loading, Descends, Outermost, Aligned, Arrives, InOrder
<1>9. DependsInited BY <1>1 DEF DependsInited
<1> QED BY <1>4, <1>5, <1>6, <1>7, <1>8, <1>9 DEF PluginInv

\* The invariant is inductive.
LEMMA InvariantKept ==
  ASSUME Careful, PluginInv, DependsInited, [Next]_vars
  PROVE  PluginInv' /\ DependsInited'
BY CallKeeps, LoadStepKeeps, UnloadStepKeeps, StutterKeeps DEF Next

-----------------------------------------------------------------------------
(* The theorems.                                                           *)

\* Both parts together: neither is inductive alone.
LEMMA Invariant == ASSUME Careful PROVE Spec => [](PluginInv /\ DependsInited)
<1>1. Init => PluginInv /\ DependsInited BY InvariantStarts
<1>2. PluginInv /\ DependsInited /\ [Next]_vars => (PluginInv /\ DependsInited)' BY InvariantKept
<1> QED BY <1>1, <1>2, PTL DEF Spec

\* Types, the ledger of counts and claims, and the shape of the agenda hold
\* in every state of a load, of an unload, and of the cleaning up after a
\* load that failed (loadModule, unloadModule), when the application unloads
\* only what no plugin needs.
THEOREM PluginInvariantHolds == ASSUME Careful PROVE Spec => []PluginInv
BY Invariant, PTL

\* If the application unloads only what no initialized plugin depends on, the
\* code does so too: loading, cleaning up after loads that failed, dropping
\* dependencies and unloading everything never finalize a plugin before those
\* that depend on it (loadModuleDepends, unloadModuleDepends).
THEOREM DependenciesStay == ASSUME Careful PROVE Spec => []DependsInited
BY Invariant, PTL

\* Between calls, and before XPR_PluginUnloadAll sorts, a plugin has a
\* reference of its own and all those of the plugins that depend on it
\* (refModuleRecursive), when the application unloads only what no plugin needs.
THEOREM CountsCover == ASSUME Careful PROVE Spec => []CountCoversDependents
<1>1. ASSUME PluginInv PROVE CountCoversDependents
  <2> DEFINE w == [p \in Plugins |-> IF p \in inited THEN refs[p] ELSE 0]
  <2>1. inited \subseteq Plugins /\ \A d \in inited : refs[d] > 0
    BY <1>1 DEF PluginInv, TypeOK, Counts
  <2>2. ASSUME todo = << >> \/ Doing("next", NoModule), NEW d \in inited
        PROVE  refs[d] > Cardinality(Claims(d, w))
    <3>1. /\ \A p \in Plugins : Counted[p] = IF p \in inited THEN refs[p] ELSE 0
          /\ Cardinality(Claims(d, Counted)) + 1 <= refs[d]
          /\ Cardinality(Claims(d, Counted)) \in Nat /\ refs[d] \in Nat
      <4>1. CASE todo = << >> BY <1>1, <2>1, <4>1, Idle
      <4>2. CASE Doing("next", NoModule)
        <5>1. todo \in Seq(Cleanups) /\ refs \in [Modules -> Nat] /\ Ledger
          BY <1>1, <4>2, UnloadDoing
        <5>2. /\ Cardinality(Claims(d, Counted)) + Number(todo, Dropped(d))
                   + (IF refs[d] > 0 THEN 1 ELSE 0) <= refs[d]
              /\ Cardinality(Claims(d, Counted)) \in Nat /\ Number(todo, Dropped(d)) \in Nat
              /\ refs[d] \in Nat
          BY <2>1, <5>1, LedgerOfUnload
        <5> QED BY <2>1, <5>1, <5>2, CountedOfUnload
      <4> QED BY <2>2, <4>1, <4>2
    <3>2. Counted = w BY <3>1 DEF Counted
    <3> QED BY <3>1, <3>2
  <2> QED BY <2>2 DEF CountCoversDependents
<1> QED BY <1>1, Invariant, PTL

\* Where no plugin of a shared file is depended on (PluginUsage), its parent is
\* listed as long as one of its plugins is initialized: neither a load that
\* fails half-way nor a busy finalizer closes the library under it
\* (unloadModule).
THEOREM LibraryStaysOpen ==
  ASSUME Careful, \A p \in Plugins : Depended(p) => ~Shared(p)
  PROVE  Spec => []LibraryOpen
<1>1. ASSUME PluginInv, NEW p \in inited PROVE ParentsOf(p) \subseteq listed
  <2> DEFINE f == FileOf(p)
  <2>1. /\ inited \subseteq Plugins /\ refs \in [Modules -> Nat] /\ Counts
        /\ \A m \in Modules : refs[m] > 0 => m \in listed
    BY <1>1 DEF PluginInv, TypeOK
  <2>2. p \in Plugins /\ refs[p] > 0 BY <2>1 DEF Counts
  <2>3. f \in Files /\ p \in ToSet(Contents[f]) BY <2>2, Filed
  <2>4. CASE Shared(p)
    <3>1. Multi(f) /\ Parent(f) \in Modules BY <2>3, <2>4, ModuleTypes DEF Shared
    <3>2. refs[Parent(f)] \in Nat /\ refs[Parent(f)] # 0
      BY <2>1, <2>2, <2>3, <3>1 DEF Counts, Counting
    <3>3. Parent(f) \in listed BY <2>1, <3>1, <3>2
    <3> QED BY <2>2, <3>3, <2>4, Parents
  <2>5. CASE ~Shared(p) BY <2>2, <2>5, Parents
  <2> QED BY <2>4, <2>5
<1>2. PluginInv => LibraryOpen BY <1>1 DEF LibraryOpen
<1> QED BY <1>2, Invariant, PTL
===============================================================================
