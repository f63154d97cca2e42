---------------------------- MODULE TimerQueueProofs ----------------------------
(***************************************************************************)
(* The timer queue, for any number of threads, timers and intervals: no    *)
(* timer is lost or listed twice, only a call of the running callback can  *)
(* unlist the timer the pass goes on with, and the thread never waits too  *)
(* long.                                                                   *)
(*                                                                         *)
(* Lists(taken) is kept by every operation, whatever is taken off to run;  *)
(* the callers' lemmas tell what is.                                       *)
(***************************************************************************)
EXTENDS TimerQueue, SequenceTheorems, WellFoundedInduction, TLAPS

-----------------------------------------------------------------------------
(* The lists of xpr_list.c.                                                *)

Contents == [Timers -> [id : Ids \union {NoId, SingleId}, interval : Intervals \union {0},
                        expire : -Overdue .. Latest, flags : SUBSET Flags]]

\* Sorted as nodeCompare sorts; T holds the expire fields.
Ordered(s, T) == \A i, j \in 1 .. Len(s) : i <= j => T[s[i]].expire <= T[s[j]].expire

LEMMA LatestIsLongest == Latest \in Intervals /\ Latest \in Nat \ {0}
                         /\ \A i \in Intervals : i <= Latest
BY TimerUsage DEF Latest

LEMMA SmallestIndex ==
  ASSUME NEW S \in SUBSET Nat, S # {} PROVE Min(S) \in S /\ \A k \in S : Min(S) <= k
<1>1. IsWellFoundedOn(OpToRel(<, Nat), Nat) BY NatLessThanWellFounded
<1>2. PICK m \in S : \A k \in S : ~(<<k, m>> \in OpToRel(<, Nat)) BY <1>1, WFMin
<1>3. ASSUME NEW k \in S PROVE m <= k
  <2>1. k < m => <<k, m>> \in OpToRel(<, Nat) BY DEF OpToRel
  <2>2. ~(k < m) BY <1>2, <2>1, Zenon
  <2>3. k \in Nat /\ m \in Nat OBVIOUS
  <2> QED BY <2>2, <2>3
<1> QED BY <1>3 DEF Min

LEMMA InsertAtProperties ==
  ASSUME NEW s \in Seq(Timers), NEW t \in Timers, NEW i \in 1 .. Len(s)
  PROVE  LET r == InsertAt(s, i, t) IN
         /\ r \in Seq(Timers) /\ Len(r) = Len(s) + 1
         /\ \A k \in 1 .. Len(s) + 1 :
              r[k] = IF k < i THEN s[k] ELSE IF k = i THEN t ELSE s[k - 1]
BY DEF InsertAt

LEMMA RemoveAtProperties ==
  ASSUME NEW s \in Seq(Timers), NEW i \in 1 .. Len(s)
  PROVE  LET r == RemoveAt(s, i) IN
         /\ r \in Seq(Timers) /\ Len(r) = Len(s) - 1
         /\ \A k \in 1 .. Len(s) - 1 : r[k] = IF k < i THEN s[k] ELSE s[k + 1]
<1> DEFINE a == SubSeq(s, 1, i - 1)
           b == SubSeq(s, i + 1, Len(s))
<1>1. a \in Seq(Timers) /\ Len(a) = i - 1 /\ \A k \in 1 .. i - 1 : a[k] = s[k]
  OBVIOUS
<1>2. b \in Seq(Timers) /\ Len(b) = Len(s) - i /\ \A k \in 1 .. Len(s) - i : b[k] = s[k + i]
  OBVIOUS
<1>3. RemoveAt(s, i) = a \o b BY DEF RemoveAt
<1> HIDE DEF a, b
<1>4. /\ a \o b \in Seq(Timers) /\ Len(a \o b) = Len(a) + Len(b)
      /\ \A k \in 1 .. Len(a) + Len(b) :
           (a \o b)[k] = IF k <= Len(a) THEN a[k] ELSE b[k - Len(a)]
  BY <1>1, <1>2, ConcatProperties
<1>6. Len(s) \in Nat /\ Len(a) + Len(b) = Len(s) - 1 BY <1>1, <1>2
<1>5. ASSUME NEW k \in 1 .. Len(s) - 1 PROVE (a \o b)[k] = IF k < i THEN s[k] ELSE s[k + 1]
  <2>1. CASE k < i BY <1>1, <1>4, <1>6, <2>1
  <2>2. CASE ~(k < i)
    <3>1. (a \o b)[k] = b[k - (i - 1)] BY <1>1, <1>4, <1>6, <2>2
    <3>2. k - (i - 1) \in 1 .. Len(s) - i /\ k - (i - 1) + i = k + 1 BY <2>2
    <3> QED BY <1>2, <2>2, <3>1, <3>2
  <2> QED BY <2>1, <2>2
<1> QED BY <1>3, <1>4, <1>5, <1>6

\* Taking a timer off a list takes this one and leaves the others in order.
LEMMA RemoveProperties ==
  ASSUME NEW s \in Seq(Timers), IsInjective(s), NEW t \in ToSet(s)
  PROVE  /\ RemoveFirst(s, t) \in Seq(Timers) /\ IsInjective(RemoveFirst(s, t))
         /\ ToSet(RemoveFirst(s, t)) = ToSet(s) \ {t}
         /\ \A T \in Contents : Ordered(s, T) => Ordered(RemoveFirst(s, t), T)
<1> DEFINE Is(v) == v = t
           at == {j \in 1 .. Len(s) : s[j] = t}
           i == Min(at)
           r == RemoveAt(s, i)
<1>1. at # {} /\ at \subseteq 1 .. Len(s) BY DEF ToSet
<1>2. i \in 1 .. Len(s) /\ s[i] = t
  <2>1. at \in SUBSET Nat /\ at # {} BY <1>1
  <2> HIDE DEF at
  <2>2. i \in at BY <2>1, SmallestIndex
  <2> QED BY <2>2 DEF at
<1>3. SelectInSeq(s, LAMBDA v : v = t) = i BY <1>1 DEF SelectInSeq
<1>4. RemoveFirst(s, t) = r BY <1>2, <1>3 DEF RemoveFirst
<1> HIDE DEF i
<1>5. /\ r \in Seq(Timers) /\ Len(r) = Len(s) - 1
      /\ \A k \in 1 .. Len(s) - 1 : r[k] = IF k < i THEN s[k] ELSE s[k + 1]
  BY <1>2, RemoveAtProperties
<1> HIDE DEF r
<1>6. Len(s) \in Nat /\ DOMAIN s = 1 .. Len(s) /\ DOMAIN r = 1 .. Len(r) BY <1>5
<1>7. \A j, k \in 1 .. Len(s) : s[j] = s[k] => j = k BY <1>6 DEF IsInjective
<1>8. IsInjective(r) BY <1>2, <1>5, <1>6, <1>7 DEF IsInjective
<1>9. ASSUME NEW k \in 1 .. Len(r) PROVE r[k] \in ToSet(s) \ {t}
  <2>1. CASE k < i
    <3>1. k \in 1 .. Len(s) /\ r[k] = s[k] /\ k # i BY <1>2, <1>5, <1>6, <2>1
    <3>2. s[k] # t BY <1>2, <1>7, <3>1
    <3> QED BY <1>6, <3>1, <3>2 DEF ToSet
  <2>2. CASE ~(k < i)
    <3>1. k + 1 \in 1 .. Len(s) /\ r[k] = s[k + 1] /\ k + 1 # i BY <1>2, <1>5, <1>6, <2>2
    <3>2. s[k + 1] # t BY <1>2, <1>7, <3>1
    <3> QED BY <1>6, <3>1, <3>2 DEF ToSet
  <2> QED BY <2>1, <2>2
<1>10. ASSUME NEW k \in 1 .. Len(s), s[k] # t PROVE s[k] \in ToSet(r)
  <2>1. CASE k < i
    <3>1. k \in 1 .. Len(r) /\ r[k] = s[k] BY <1>2, <1>5, <1>6, <2>1
    <3> QED BY <1>6, <3>1 DEF ToSet
  <2>2. CASE k > i
    <3>1. k - 1 \in 1 .. Len(r) /\ r[k - 1] = s[k] BY <1>2, <1>5, <1>6, <2>2
    <3> QED BY <1>6, <3>1 DEF ToSet
  <2> QED BY <1>2, <1>10, <2>1, <2>2
<1>11. ToSet(r) = ToSet(s) \ {t}
  <2>1. ToSet(r) \subseteq ToSet(s) \ {t} BY <1>6, <1>9 DEF ToSet
  <2>2. ToSet(s) \ {t} \subseteq ToSet(r) BY <1>6, <1>10 DEF ToSet
  <2> QED BY <2>1, <2>2
<1>12. ASSUME NEW T \in Contents, Ordered(s, T) PROVE Ordered(r, T)
  <2> SUFFICES ASSUME NEW j \in 1 .. Len(r), NEW k \in 1 .. Len(r), j <= k
               PROVE  T[r[j]].expire <= T[r[k]].expire
    BY DEF Ordered
  <2> DEFINE jj == IF j < i THEN j ELSE j + 1
             kk == IF k < i THEN k ELSE k + 1
  <2>1. /\ jj \in 1 .. Len(s) /\ kk \in 1 .. Len(s) /\ jj <= kk
        /\ r[j] = s[jj] /\ r[k] = s[kk]
    BY <1>2, <1>5, <1>6
  <2> QED BY <1>12, <2>1 DEF Ordered
<1> QED BY <1>4, <1>5, <1>8, <1>11, <1>12

\* A timer that is put on the list is there once, and the list stays sorted.
LEMMA InsertProperties ==
  ASSUME NEW s \in Seq(Timers), IsInjective(s), NEW t \in Timers \ ToSet(s),
         NEW T \in Contents, Ordered(s, T)
  PROVE  /\ Inserted(s, t, T) \in Seq(Timers) /\ IsInjective(Inserted(s, t, T))
         /\ ToSet(Inserted(s, t, T)) = ToSet(s) \union {t}
         /\ Ordered(Inserted(s, t, T), T)
<1> DEFINE Follows(u) == T[u].expire > T[t].expire
           later == {j \in 1 .. Len(s) : Follows(s[j])}
           r == Inserted(s, t, T)
<1>1. Len(s) \in Nat /\ DOMAIN s = 1 .. Len(s) /\ \A k \in 1 .. Len(s) : s[k] \in Timers
  OBVIOUS
<1>2. PICK i \in 1 .. Len(s) + 1 :
        /\ r \in Seq(Timers) /\ Len(r) = Len(s) + 1
        /\ \A k \in 1 .. Len(s) + 1 :
             r[k] = IF k < i THEN s[k] ELSE IF k = i THEN t ELSE s[k - 1]
        /\ \A k \in 1 .. Len(s) : k < i => ~Follows(s[k])
        /\ i <= Len(s) => Follows(s[i])
  <2> HIDE DEF Follows
  <2>3. /\ later \in SUBSET Nat /\ later \subseteq 1 .. Len(s)
        /\ \A k \in 1 .. Len(s) : k \in later <=> Follows(s[k])
    BY <1>1
  <2>4. SelectInSeq(s, Follows) = IF later # {} THEN Min(later) ELSE 0
    BY DEF SelectInSeq
  <2>5. r = IF later = {} THEN Append(s, t) ELSE InsertAt(s, Min(later), t)
    <3>1. CASE later = {} BY <2>4, <3>1 DEF Inserted, Follows
    <3>2. CASE later # {}
      <4>1. Min(later) # 0 BY <2>3, <3>2, SmallestIndex
      <4> QED BY <2>4, <3>2, <4>1 DEF Inserted, Follows
    <3> QED BY <3>1, <3>2
  <2> HIDE DEF r, later
  <2>1. CASE later = {}
    <3>2. r = Append(s, t) BY <2>1, <2>5
    <3>3. /\ Append(s, t) \in Seq(Timers) /\ Len(Append(s, t)) = Len(s) + 1
          /\ Append(s, t)[Len(s) + 1] = t
          /\ \A k \in 1 .. Len(s) : Append(s, t)[k] = s[k]
      BY AppendProperties
    <3>4. \A k \in 1 .. Len(s) : ~Follows(s[k]) BY <2>1, <2>3
    <3> WITNESS Len(s) + 1 \in 1 .. Len(s) + 1
    <3> QED BY <1>1, <3>2, <3>3, <3>4
  <2>2. CASE later # {}
    <3> DEFINE m == Min(later)
    <3>1. m \in later /\ \A k \in later : m <= k BY <2>2, <2>3, SmallestIndex
    <3>3. r = InsertAt(s, m, t) BY <2>2, <2>5
    <3> HIDE DEF m
    <3>4. m \in 1 .. Len(s) /\ Follows(s[m]) /\ \A k \in 1 .. Len(s) : k < m => ~Follows(s[k])
      <4>1. m \in 1 .. Len(s) /\ Follows(s[m]) BY <2>3, <3>1
      <4>2. ASSUME NEW k \in 1 .. Len(s), k < m PROVE k \notin later
        BY <3>1, <4>1, <4>2
      <4> QED BY <2>3, <4>1, <4>2
    <3>5. /\ r \in Seq(Timers) /\ Len(r) = Len(s) + 1
          /\ \A k \in 1 .. Len(s) + 1 :
               r[k] = IF k < m THEN s[k] ELSE IF k = m THEN t ELSE s[k - 1]
      BY <3>3, <3>4, InsertAtProperties
    <3>6. m \in 1 .. Len(s) + 1 BY <1>1, <3>4
    <3> WITNESS m \in 1 .. Len(s) + 1
    <3> QED BY <3>4, <3>5
  <2> QED BY <2>1, <2>2
<1> HIDE DEF r
<1>3. DOMAIN r = 1 .. Len(r) /\ r[i] = t BY <1>1, <1>2
<1>4. \A k \in 1 .. Len(s) : s[k] # t BY <1>1 DEF ToSet
<1>5. IsInjective(r)
  <2> SUFFICES ASSUME NEW j \in 1 .. Len(r), NEW k \in 1 .. Len(r), r[j] = r[k], j < k
               PROVE  FALSE
    BY <1>1, <1>2, <1>3 DEF IsInjective
  <2>1. \A a, b \in 1 .. Len(s) : s[a] = s[b] => a = b BY <1>1 DEF IsInjective
  <2>2. CASE j = i BY <1>1, <1>2, <1>4, <2>2
  <2>3. CASE k = i BY <1>1, <1>2, <1>4, <2>3
  <2>4. CASE j # i /\ k # i
    <3> DEFINE jj == IF j < i THEN j ELSE j - 1
               kk == IF k < i THEN k ELSE k - 1
    <3>1. /\ jj \in 1 .. Len(s) /\ kk \in 1 .. Len(s) /\ jj # kk
          /\ r[j] = s[jj] /\ r[k] = s[kk]
      BY <1>1, <1>2, <2>4
    <3> QED BY <2>1, <3>1
  <2> QED BY <2>2, <2>3, <2>4
<1>6. ToSet(r) = ToSet(s) \union {t}
  <2>1. ASSUME NEW k \in 1 .. Len(r) PROVE r[k] \in ToSet(s) \union {t}
    BY <1>1, <1>2 DEF ToSet
  <2>2. ASSUME NEW k \in 1 .. Len(s) PROVE s[k] \in ToSet(r)
    <3>1. CASE k < i BY <1>1, <1>2, <1>3, <3>1 DEF ToSet
    <3>2. CASE k >= i
      <4>1. k + 1 \in 1 .. Len(r) /\ r[k + 1] = s[k] BY <1>1, <1>2, <3>2
      <4> QED BY <1>3, <4>1 DEF ToSet
    <3> QED BY <1>1, <3>1, <3>2
  <2>3. t \in ToSet(r) BY <1>1, <1>2, <1>3 DEF ToSet
  <2>4. ToSet(r) \subseteq ToSet(s) \union {t} BY <1>3, <2>1 DEF ToSet
  <2>5. ToSet(s) \subseteq ToSet(r) BY <1>1, <2>2 DEF ToSet
  <2> QED BY <2>3, <2>4, <2>5
<1>7. Ordered(r, T)
  <2> SUFFICES ASSUME NEW j \in 1 .. Len(r), NEW k \in 1 .. Len(r), j <= k
               PROVE  T[r[j]].expire <= T[r[k]].expire
    BY DEF Ordered
  <2> DEFINE E(u) == T[u].expire
  <2>1. \A u \in Timers : E(u) \in Int BY DEF Contents
  <2>2. \A a, b \in 1 .. Len(s) : a <= b => E(s[a]) <= E(s[b]) BY DEF Ordered
  <2>3. \A a \in 1 .. Len(s) : IF a < i THEN E(s[a]) <= E(t) ELSE E(t) <= E(s[a])
    <3> SUFFICES ASSUME NEW a \in 1 .. Len(s)
                 PROVE  IF a < i THEN E(s[a]) <= E(t) ELSE E(t) <= E(s[a])
      OBVIOUS
    <3>1. CASE a < i BY <1>1, <1>2, <2>1, <3>1
    <3>2. CASE a >= i
      <4>1. i \in 1 .. Len(s) /\ E(s[i]) > E(t) BY <1>1, <1>2, <3>2
      <4>2. E(s[i]) <= E(s[a]) BY <2>2, <3>2, <4>1
      <4>3. E(s[i]) \in Int /\ E(s[a]) \in Int /\ E(t) \in Int BY <1>1, <2>1, <4>1
      <4> HIDE DEF E
      <4> QED BY <3>2, <4>1, <4>2, <4>3
    <3> QED BY <3>1, <3>2
  <2>4. E(t) \in Int /\ \A a \in 1 .. Len(s) : E(s[a]) \in Int BY <1>1, <2>1
  <2> HIDE DEF E
  <2>5. E(r[j]) <= E(r[k])
    <3>1. CASE j = k BY <1>1, <1>2, <2>4, <3>1
    <3>2. CASE j < k /\ k < i BY <1>1, <1>2, <2>2, <3>2
    <3>3. CASE j < k /\ k = i BY <1>1, <1>2, <2>3, <3>3
    <3>4. CASE j < k /\ j < i /\ k > i BY <1>1, <1>2, <2>2, <3>4
    <3>5. CASE j < k /\ j = i BY <1>1, <1>2, <2>3, <3>5
    <3>6. CASE j < k /\ j > i
      <4>1. /\ j - 1 \in 1 .. Len(s) /\ k - 1 \in 1 .. Len(s) /\ j - 1 <= k - 1
            /\ r[j] = s[j - 1] /\ r[k] = s[k - 1]
        BY <1>1, <1>2, <3>6
      <4> QED BY <2>2, <4>1
    <3> QED BY <3>1, <3>2, <3>3, <3>4, <3>5, <3>6
  <2> QED BY <2>5 DEF E
<1> QED BY <1>2, <1>5, <1>6, <1>7 DEF r
-----------------------------------------------------------------------------
(* The inductive invariant.                                                *)

Taken == IF Running THEN {cur} ELSE {}

\* Each timer of the queue is on one list or among those taken off to run.
Lists(taken) ==
  /\ timer \in Contents /\ active \in Seq(Timers) /\ suspended \subseteq Timers
  /\ IsInjective(active) /\ ToSet(active) \cap suspended = {}
  /\ Listed \cap taken = {} /\ Live = Listed \union taken
  /\ Ordered(active, timer)

LoopType ==
  /\ exitLoop \in BOOLEAN /\ signalled \in BOOLEAN
  /\ queue \in {"creating", "up", "closing", "gone"}
  /\ pc \in {"start", "test", "lock", "waiting", "inspect", "exec",
             "callback", "returning", "astray", "done"}
  /\ cur \in Timers \union {NoTimer} /\ next \in Timers \union {NoTimer}
DeadlineType == deadline \in -Overdue .. Never

CallType == call \in [Users -> [op : {"none", "remove", "resume", "suspend", "terminate"},
                                t : Timers \union {NoTimer},
                                id : Ids \union {NoId, SingleId},
                                flags : SUBSET Flags]]

\* The pass is at a listed timer, and the next one is listed until the callback
\* calls the queue.
CurListed == pc = "inspect" => cur = NoTimer \/ cur \in ToSet(active)
PassInv == /\ CurListed
           /\ Running => cur \in Timers
           /\ pc \in {"exec", "callback"} => next = NoTimer \/ next \in ToSet(active)

\* A call that has begun is about a timer.
CallInv == \A u \in Users : call[u].op # "none" => call[u].t \in Timers

QueueInv == Lists(Taken) /\ LoopType /\ DeadlineType /\ CallType /\ PassInv /\ CallInv

-----------------------------------------------------------------------------
(* What the operations of the queue do to its lists.                       *)

LEMMA ListTypes ==
  ASSUME NEW taken, Lists(taken)
  PROVE  /\ ToSet(active) \subseteq Timers /\ Listed \subseteq Timers
         /\ \A u \in Timers : timer[u].id \in Ids \union {NoId, SingleId}
                              /\ timer[u].expire \in -Overdue .. Latest
                              /\ timer[u].interval \in Intervals \union {0}
                              /\ timer[u].flags \in SUBSET Flags
BY DEF Lists, Listed, ToSet, Contents

LEMMA FreedType == \A T \in Contents : \A t \in Timers : [T EXCEPT ![t] = Freed] \in Contents
<1>1. 0 \in -Overdue .. Latest BY LatestIsLongest, TimerUsage
<1> QED BY <1>1 DEF Contents, Freed

LEMMA IntervalFits == \A n \in Intervals \union {0} : n \in -Overdue .. Latest
<1> SUFFICES ASSUME NEW n \in Intervals \union {0} PROVE n \in -Overdue .. Latest OBVIOUS
<1>1. n \in Nat /\ Latest \in Nat /\ Overdue \in Nat BY LatestIsLongest, TimerUsage
<1>2. n <= Latest BY <1>1, LatestIsLongest
<1> QED BY <1>1, <1>2

LEMMA OrderedSame ==
  ASSUME NEW s \in Seq(Timers), NEW T, NEW V, Ordered(s, T),
         \A u \in ToSet(s) : V[u].expire = T[u].expire
  PROVE  Ordered(s, V)
BY DEF Ordered, ToSet

LEMMA NotRemoved ==
  ASSUME NEW s \in Seq(Timers), NEW t, t \notin ToSet(s) PROVE RemoveFirst(s, t) = s
<1>1. ~ \E i \in 1 .. Len(s) : s[i] = t BY DEF ToSet
<1> QED BY <1>1 DEF RemoveFirst

LEMMA WithFlagsKeeps ==
  ASSUME timer \in Contents, NEW t \in Timers, NEW f \in SUBSET Flags
  PROVE  /\ WithFlags(t, f) \in Contents
         /\ \A u \in Timers : /\ WithFlags(t, f)[u].id = timer[u].id
                              /\ WithFlags(t, f)[u].expire = timer[u].expire
BY DEF WithFlags, Contents

\* Every call changes the timers' contents as one of these three does.
LEMMA AddKeeps ==
  ASSUME NEW taken, Lists(taken), NEW t \in Timers \ Live,
         NEW r \in NewTimers \union SingleShots, AddOne(t, r)
  PROVE  /\ Lists(taken)' /\ ToSet(active) \subseteq ToSet(active')
         /\ Listed' = Listed \union {t}
<1>1. /\ r.id \in Ids \union {SingleId} /\ r.flags \subseteq Flags
      /\ r \in [id : Ids \union {NoId, SingleId}, interval : Intervals \union {0},
                expire : -Overdue .. Latest, flags : SUBSET Flags]
  <2>1. PICK i \in Ids \union {SingleId}, n \in Intervals, f \in SUBSET Flags :
              r = NewTimer(i, n, f)
    BY DEF NewTimers, SingleShots, UnusedIds, Flags
  <2>2. n \in -Overdue .. Latest BY LatestIsLongest, TimerUsage
  <2> QED BY <2>1, <2>2 DEF NewTimer
<1>2. timer' \in Contents /\ timer'[t] = r /\ \A u \in Timers \ {t} : timer'[u] = timer[u]
  BY <1>1 DEF AddOne, Lists, Contents
<1>3. t \notin Listed /\ t \notin taken /\ t \notin ToSet(active) /\ t \notin suspended
  BY DEF Lists, Listed
<1>4. Live' = Live \union {t} BY <1>1, <1>2, TimerUsage DEF Live
<1>5. Ordered(active, timer')
  <2>1. \A u \in ToSet(active) : timer'[u].expire = timer[u].expire BY <1>2, <1>3, ListTypes
  <2> QED BY <2>1, OrderedSame DEF Lists
<1>6. CASE "ENABLED" \in r.flags
  <2>1. /\ active' \in Seq(Timers) /\ IsInjective(active')
        /\ ToSet(active') = ToSet(active) \union {t} /\ Ordered(active', timer')
    <3>1. active' = Inserted(active, t, timer') BY <1>6 DEF AddOne
    <3>2. active \in Seq(Timers) /\ IsInjective(active) /\ t \in Timers \ ToSet(active)
      BY <1>3 DEF Lists
    <3> QED BY <1>2, <1>5, <3>1, <3>2, InsertProperties
  <2>2. suspended' = suspended BY <1>6 DEF AddOne
  <2>3. Listed' = Listed \union {t} BY <2>1, <2>2 DEF Listed
  <2>4. Lists(taken)' BY <1>2, <1>3, <1>4, <2>1, <2>2, <2>3 DEF Lists
  <2> QED BY <2>1, <2>3, <2>4
<1>7. CASE "ENABLED" \notin r.flags
  <2>1. suspended' = suspended \union {t} /\ active' = active BY <1>7 DEF AddOne
  <2>2. Listed' = Listed \union {t} BY <2>1 DEF Listed
  <2>3. Lists(taken)' BY <1>2, <1>3, <1>4, <1>5, <2>1, <2>2 DEF Lists
  <2> QED BY <2>1, <2>2, <2>3
<1> QED BY <1>6, <1>7

LEMMA RemoveKeeps ==
  ASSUME NEW taken, Lists(taken), NEW t \in Listed,
         active' = RemoveFirst(active, t),
         suspended' = IF t \in ToSet(active) THEN suspended ELSE suspended \ {t},
         timer' = [timer EXCEPT ![t] = Freed]
  PROVE  Lists(taken)' /\ Listed' = Listed \ {t}
<1>1. t \in Timers /\ t \notin taken BY ListTypes DEF Lists
<1>2. timer' \in Contents /\ timer'[t] = Freed /\ \A u \in Timers \ {t} : timer'[u] = timer[u]
  BY <1>1, FreedType DEF Lists, Contents
<1>3. Live' = Live \ {t} BY <1>1, <1>2 DEF Live, Freed
<1>4. /\ active' \in Seq(Timers) /\ IsInjective(active')
      /\ ToSet(active') = ToSet(active) \ {t} /\ Ordered(active', timer)
  <2>1. CASE t \in ToSet(active) BY <2>1, RemoveProperties DEF Lists
  <2>2. CASE t \notin ToSet(active) BY <2>2, NotRemoved DEF Lists
  <2> QED BY <2>1, <2>2
<1>5. Ordered(active', timer')
  <2>1. \A u \in ToSet(active') : timer'[u].expire = timer[u].expire BY <1>2, <1>4, ListTypes
  <2> QED BY <1>4, <2>1, OrderedSame
<1>6. Listed' = Listed \ {t} /\ suspended' \subseteq suspended
  BY <1>4 DEF Listed, Lists
<1> QED BY <1>1, <1>2, <1>3, <1>4, <1>5, <1>6 DEF Lists

LEMMA SuspendKeeps ==
  ASSUME NEW taken, Lists(taken), NEW t \in ToSet(active), NEW f \in SUBSET Flags,
         timer' = WithFlags(t, f), active' = RemoveFirst(active, t),
         suspended' = suspended \union {t}
  PROVE  Lists(taken)' /\ Listed' = Listed
<1>1. t \in Timers BY ListTypes
<1>2. timer' \in Contents /\ \A u \in Timers : /\ timer'[u].id = timer[u].id
                                               /\ timer'[u].expire = timer[u].expire
  BY <1>1, WithFlagsKeeps DEF Lists
<1>3. /\ active' \in Seq(Timers) /\ IsInjective(active')
      /\ ToSet(active') = ToSet(active) \ {t} /\ Ordered(active', timer)
  BY RemoveProperties DEF Lists
<1>4. Ordered(active', timer')
  <2>1. \A u \in ToSet(active') : timer'[u].expire = timer[u].expire BY <1>2, <1>3, ListTypes
  <2> QED BY <1>3, <2>1, OrderedSame
<1>5. Live' = Live BY <1>2 DEF Live
<1>6. Listed' = Listed BY <1>3 DEF Listed
<1> QED BY <1>1, <1>2, <1>3, <1>4, <1>5, <1>6 DEF Lists

LEMMA ResumeKeeps ==
  ASSUME NEW taken, Lists(taken), NEW t \in suspended, NEW f \in SUBSET Flags,
         timer' = WithFlags(t, f), active' = Inserted(active, t, timer),
         suspended' = suspended \ {t}
  PROVE  Lists(taken)' /\ Listed' = Listed /\ ToSet(active) \subseteq ToSet(active')
<1>1. t \in Timers /\ t \notin ToSet(active) BY DEF Lists
<1>2. timer' \in Contents /\ \A u \in Timers : /\ timer'[u].id = timer[u].id
                                               /\ timer'[u].expire = timer[u].expire
  BY <1>1, WithFlagsKeeps DEF Lists
<1>3. /\ active' \in Seq(Timers) /\ IsInjective(active')
      /\ ToSet(active') = ToSet(active) \union {t} /\ Ordered(active', timer)
  BY <1>1, InsertProperties DEF Lists
<1>4. Ordered(active', timer')
  <2>1. \A u \in ToSet(active') : timer'[u].expire = timer[u].expire
    BY <1>1, <1>2, <1>3, ListTypes
  <2> QED BY <1>3, <2>1, OrderedSame
<1>5. Live' = Live BY <1>2 DEF Live
<1>6. Listed' = Listed BY <1>3 DEF Listed
<1> QED BY <1>1, <1>2, <1>3, <1>4, <1>5, <1>6 DEF Lists

\* Contents that differ in nothing the lists depend on.
LEMMA SameKeeps ==
  ASSUME NEW taken, Lists(taken), UNCHANGED <<active, suspended>>, timer' \in Contents,
         \A u \in Timers : timer'[u].id = timer[u].id /\ timer'[u].expire = timer[u].expire
  PROVE  Lists(taken)'
<1>1. Live' = Live /\ Listed' = Listed BY DEF Live, Listed
<1>2. Ordered(active', timer')
  <2>1. \A u \in ToSet(active) : timer'[u].expire = timer[u].expire BY ListTypes
  <2> QED BY <2>1, OrderedSame DEF Lists
<1> QED BY <1>1, <1>2 DEF Lists

\* A call that takes the lock signals the thread or changes no list.
LEMMA PerformKeeps ==
  ASSUME NEW taken, Lists(taken), NEW op, NEW t, NEW done, Perform(op, t, done)
  PROVE  /\ Lists(taken)' /\ Listed' \subseteq Listed
         /\ op = "resume" => ToSet(active) \subseteq ToSet(active')
         /\ Signal \/ UNCHANGED <<listVars, signalled>>
<1>1. CASE UNCHANGED listVars /\ (Signal \/ UNCHANGED signalled)
  BY <1>1 DEF listVars, Lists, Listed, Live
<1>2. CASE op = "remove" /\ t \in Listed /\ RemoveTimer(t, done)
  BY <1>2, RemoveKeeps DEF RemoveTimer
<1>3. CASE op = "resume" /\ t \in suspended /\ ResumeTimer(t, done)
  <2>1. timer[t].flags \union {"ENABLED"} \in SUBSET Flags
    BY <1>3, ListTypes DEF Flags, Lists
  <2> QED BY <1>3, <2>1, ResumeKeeps DEF ResumeTimer
<1>4. CASE op = "suspend" /\ t \in ToSet(active) /\ SuspendTimer(t, done)
  <2>1. timer[t].flags \ {"ENABLED"} \in SUBSET Flags BY <1>4, ListTypes
  <2> QED BY <1>4, <2>1, SuspendKeeps DEF SuspendTimer
<1> QED BY <1>1, <1>2, <1>3, <1>4 DEF Perform, RemoveTimer, ResumeTimer, SuspendTimer, listVars

LEMMA NextIsListed ==
  ASSUME NEW s \in Seq(Timers), IsInjective(s), NEW t \in Timers
  PROVE  NextOf(s, t) = NoTimer \/ NextOf(s, t) \in ToSet(s) \ {t}
<1> DEFINE S == {i \in DOMAIN s : i > 1 /\ s[i - 1] = t}
<1>1. CASE S = {} BY <1>1 DEF NextOf
<1>2. CASE S # {}
  <2> DEFINE i == CHOOSE i \in S : TRUE
  <2>1. i \in S BY <1>2
  <2>2. NextOf(s, t) = s[i] BY <1>2 DEF NextOf
  <2> HIDE DEF i
  <2>3. i \in DOMAIN s /\ i - 1 \in DOMAIN s /\ i # i - 1 /\ s[i - 1] = t BY <2>1
  <2>4. s[i] # t BY <2>3 DEF IsInjective
  <2> QED BY <2>2, <2>3, <2>4 DEF ToSet
<1> QED BY <1>1, <1>2

-----------------------------------------------------------------------------
(* Every step keeps each timer in one place.                               *)

LEMMA NothingTaken == ~Running => Taken = {}
BY DEF Taken

LEMMA ListsNext ==
  ASSUME QueueInv, [Next]_vars PROVE Lists(Taken)'
<1> USE DEF listVars, loopVars
<1>1. ASSUME NEW u \in Users, AddTimer(u) \/ SingleShot(u) PROVE Lists(Taken)'
  <2>1. Taken = {} /\ Taken' = {}
    BY <1>1 DEF AddTimer, SingleShot, LockFree, InPass, Taken, Running
  <2>2. PICK t \in Timers \ Live, r \in NewTimers \union SingleShots : AddOne(t, r)
    BY <1>1 DEF AddTimer, SingleShot
  <2>3. Lists({})' BY <2>1, <2>2, AddKeeps DEF QueueInv
  <2> QED BY <2>1, <2>3
<1>2. ASSUME NEW u \in Users, ListCall(u) PROVE Lists(Taken)'
  <2>1. Taken = {} /\ Taken' = {} BY <1>2 DEF ListCall, LockFree, InPass, Taken, Running
  <2>2. Lists({})' BY <1>2, <2>1, PerformKeeps DEF QueueInv, ListCall
  <2> QED BY <2>1, <2>2
<1>3. ASSUME NEW u \in Users, SetInterval(u) \/ TerminateWrite(u) PROVE Lists(Taken)'
  <2>1. PICK taken : taken = Taken OBVIOUS
  <2>2. Lists(taken) /\ UNCHANGED <<active, suspended, pc, cur>>
    BY <1>3, <2>1 DEF QueueInv, SetInterval, TerminateWrite
  <2>3. /\ timer' \in Contents
        /\ \A t \in Timers : timer'[t].id = timer[t].id /\ timer'[t].expire = timer[t].expire
    <3>1. CASE SetInterval(u)
      <4>1. PICK t \in Timers, n \in Intervals :
              timer' = [timer EXCEPT ![t] = [id |-> timer[t].id, interval |-> n,
                                            expire |-> timer[t].expire, flags |-> timer[t].flags]]
        BY <3>1 DEF SetInterval, Live
      <4> QED BY <2>2, <4>1, ListTypes DEF Lists, Contents
    <3>2. CASE TerminateWrite(u)
      <4>1. /\ call[u].t \in Timers /\ call[u].flags \union {"TERMINATE"} \in SUBSET Flags
        BY <3>2 DEF TerminateWrite, QueueInv, CallInv, CallType, Flags
      <4> QED BY <2>2, <3>2, <4>1, WithFlagsKeeps DEF TerminateWrite, Lists
    <3> QED BY <1>3, <3>1, <3>2
  <2>4. Lists(taken)' BY <2>2, <2>3, SameKeeps
  <2>5. Taken' = taken BY <2>1, <2>2 DEF Taken, Running
  <2> QED BY <2>4, <2>5
<1>4. CASE DestroyEnds
  <2>1. Taken = {} /\ Taken' = {} BY <1>4 DEF DestroyEnds, Taken, Running
  <2>2. /\ active' = << >> /\ suspended' = {} /\ Lists({})
        /\ timer' = [t \in Timers |-> IF t \in Listed THEN Freed ELSE timer[t]]
    BY <1>4, <2>1 DEF DestroyEnds, QueueInv
  <2>3. timer' \in Contents
    <3>1. 0 \in -Overdue .. Latest BY LatestIsLongest, TimerUsage
    <3> QED BY <2>2, <3>1 DEF Lists, Contents, Freed
  <2>4. Live' = {} BY <2>2 DEF Lists, Live, Freed
  <2>5. Listed' = {} BY <2>2 DEF Listed, ToSet
  <2>6. Lists({})' BY <2>2, <2>3, <2>4, <2>5 DEF Lists, IsInjective, Ordered, ToSet
  <2> QED BY <2>1, <2>6
<1>5. CASE Inspect
  <2>1. /\ cur \in ToSet(active) /\ cur \in Timers /\ Lists({})
        /\ active' = RemoveFirst(active, cur) /\ timer' = timer
    <3>1. Lists({}) BY <1>5, NothingTaken DEF Inspect, Running, QueueInv
    <3>2. cur \in ToSet(active) BY <1>5 DEF Inspect, QueueInv, PassInv, CurListed
    <3> QED BY <1>5, <3>1, <3>2, ListTypes DEF Inspect
  <2>2. /\ active' \in Seq(Timers) /\ IsInjective(active')
        /\ ToSet(active') = ToSet(active) \ {cur} /\ Ordered(active', timer')
    BY <2>1, RemoveProperties DEF Lists
  <2>3. cur \notin suspended /\ Live' = Live /\ cur \in Listed BY <2>1 DEF Lists, Live, Listed
  <2>4. CASE "ENABLED" \in timer[cur].flags
    <3>1. Taken' = {cur} /\ suspended' = suspended BY <1>5, <2>4 DEF Inspect, Taken, Running
    <3>2. Listed' = Listed \ {cur} BY <2>2, <2>3, <3>1 DEF Listed
    <3> QED BY <2>1, <2>2, <2>3, <3>1, <3>2 DEF Lists
  <2>5. CASE "ENABLED" \notin timer[cur].flags
    <3>1. Taken' = {} /\ suspended' = suspended \union {cur}
      BY <1>5, <2>5 DEF Inspect, Taken, Running
    <3>2. Listed' = Listed BY <2>2, <2>3, <3>1, <2>1 DEF Listed
    <3> QED BY <2>1, <2>2, <2>3, <3>1, <3>2 DEF Lists
  <2> QED BY <2>4, <2>5
<1>6. CASE Exec
  <2>1. Lists({cur}) /\ cur \in Timers
    BY <1>6 DEF Exec, QueueInv, PassInv, Taken, Running
  <2>2. UNCHANGED <<active, suspended>> /\ Listed' = Listed BY <1>6 DEF Exec, Listed
  <2>3. CASE "TERMINATE" \in timer[cur].flags
    <3>1. timer' = [timer EXCEPT ![cur] = Freed] /\ Taken' = {}
      BY <1>6, <2>3 DEF Exec, Free, GoOn, Taken, Running
    <3>2. timer' \in Contents BY <2>1, <3>1, FreedType DEF Lists
    <3>3. Live' = Live \ {cur} BY <2>1, <3>1 DEF Live, Lists, Contents, Freed
    <3>4. Ordered(active', timer')
      <4>1. \A t \in ToSet(active) : timer'[t].expire = timer[t].expire
        <5>1. cur \notin ToSet(active) BY <2>1 DEF Lists, Listed
        <5> QED BY <3>1, <5>1, <2>1, ListTypes DEF Lists, Contents
      <4> QED BY <2>1, <2>2, <4>1, OrderedSame DEF Lists
    <3> QED BY <2>1, <2>2, <3>1, <3>2, <3>3, <3>4 DEF Lists
  <2>4. CASE "TERMINATE" \notin timer[cur].flags
    <3>1. Taken' = {cur} /\ UNCHANGED timer BY <1>6, <2>4 DEF Exec, Taken, Running
    <3>2. Live' = Live BY <3>1 DEF Live
    <3> QED BY <2>1, <2>2, <3>1, <3>2 DEF Lists
  <2> QED BY <2>3, <2>4
<1>7. CASE CallbackCall
  <2>1. PICK taken : taken = {cur} OBVIOUS
  <2>2. Lists(taken) /\ Taken' = taken BY <1>7, <2>1 DEF CallbackCall, QueueInv, Taken, Running
  <2>3. Lists(taken)' BY <1>7, <2>2, AddKeeps, PerformKeeps DEF CallbackCall
  <2> QED BY <2>2, <2>3
<1>8. CASE CallbackReturns
  <2>1. /\ Lists({cur}) /\ cur \in Timers /\ cur \notin Listed /\ cur \in Live /\ Taken' = {}
    BY <1>8 DEF CallbackReturns, GoOn, QueueInv, PassInv, Taken, Running, Lists
  <2>2. cur \notin ToSet(active) /\ cur \notin suspended BY <2>1 DEF Listed
  <2> DEFINE again == [timer EXCEPT ![cur] =
                         [id |-> timer[cur].id, interval |-> timer[cur].interval,
                          expire |-> timer[cur].interval, flags |-> timer[cur].flags]]
  <2>3. CASE timer' = again /\ active' = Inserted(active, cur, again) /\ UNCHANGED suspended
    <3>1. /\ again \in Contents /\ again[cur].id = timer[cur].id
          /\ \A t \in Timers \ {cur} : again[t] = timer[t]
      <4>1. timer[cur].interval \in -Overdue .. Latest
        <5>1. timer[cur].interval \in Intervals \union {0} BY <2>1, ListTypes
        <5> QED BY <5>1, IntervalFits
      <4> QED BY <2>1, <4>1, ListTypes DEF Lists, Contents
    <3>2. Ordered(active, again)
      <4>1. \A t \in ToSet(active) : again[t].expire = timer[t].expire
        BY <2>1, <2>2, <3>1, ListTypes
      <4> QED BY <2>1, <4>1, OrderedSame DEF Lists
    <3> HIDE DEF again
    <3>3. /\ active' \in Seq(Timers) /\ IsInjective(active')
          /\ ToSet(active') = ToSet(active) \union {cur} /\ Ordered(active', timer')
      BY <2>1, <2>2, <2>3, <3>1, <3>2, InsertProperties DEF Lists
    <3>4. Live' = Live /\ Listed' = Listed \union {cur}
      BY <2>1, <2>3, <3>1, <3>3 DEF Live, Listed
    <3> QED BY <2>1, <2>2, <2>3, <3>1, <3>3, <3>4 DEF Lists
  <2>4. CASE suspended' = suspended \union {cur} /\ UNCHANGED <<timer, active>>
    <3>1. Live' = Live /\ Listed' = Listed \union {cur} BY <2>4 DEF Live, Listed
    <3> QED BY <2>1, <2>2, <2>4, <3>1 DEF Lists
  <2>5. CASE timer' = [timer EXCEPT ![cur] = Freed] /\ UNCHANGED <<active, suspended>>
    <3>1. timer' \in Contents BY <2>1, <2>5, FreedType DEF Lists
    <3>2. Live' = Live \ {cur} /\ Listed' = Listed
      BY <2>1, <2>5 DEF Live, Lists, Contents, Freed, Listed
    <3>3. Ordered(active', timer')
      <4>1. \A t \in ToSet(active) : timer'[t].expire = timer[t].expire
        BY <2>1, <2>2, <2>5, ListTypes DEF Lists, Contents
      <4> QED BY <2>1, <2>5, <4>1, OrderedSame DEF Lists
    <3> QED BY <2>1, <2>5, <3>1, <3>2, <3>3 DEF Lists
  <2> QED BY <1>8, <2>3, <2>4, <2>5 DEF CallbackReturns, Free
<1>9. CASE Tick
  <2>1. PICK taken : taken = Taken OBVIOUS
  <2>2. Lists(taken) /\ Taken' = taken /\ UNCHANGED <<active, suspended>>
    BY <1>9, <2>1 DEF Tick, QueueInv, Taken, Running
  <2>3. /\ timer' \in Contents
        /\ \A t \in Timers : timer'[t].id = timer[t].id
        /\ \A t \in Live : timer'[t].expire = Later(timer[t].expire)
    <3>1. \A t \in Timers : Later(timer[t].expire) \in -Overdue .. Latest
      BY <2>2, ListTypes, LatestIsLongest, TimerUsage DEF Later
    <3>2. 0 \in -Overdue .. Latest BY LatestIsLongest, TimerUsage
    <3> QED BY <1>9, <2>2, <3>1, <3>2, ListTypes DEF Tick, Live, Freed, Lists, Contents
  <2>4. Live' = Live /\ Listed' = Listed BY <2>2, <2>3 DEF Live, Listed
  <2>5. Ordered(active', timer')
    <3> SUFFICES ASSUME NEW i \in 1 .. Len(active), NEW j \in 1 .. Len(active), i <= j
                 PROVE  timer'[active[i]].expire <= timer'[active[j]].expire
      BY <2>2 DEF Ordered
    <3>1. active[i] \in Live /\ active[j] \in Live
      BY <2>2 DEF Lists, Listed, ToSet
    <3>2. timer[active[i]].expire <= timer[active[j]].expire BY <2>2 DEF Lists, Ordered
    <3>3. timer[active[i]].expire \in Int /\ timer[active[j]].expire \in Int /\ Overdue \in Nat
      BY <2>2, <3>1, ListTypes, LatestIsLongest, TimerUsage DEF Live
    <3>4. \A a, b \in Int : a <= b => Later(a) <= Later(b) BY <3>3 DEF Later
    <3> QED BY <2>3, <3>1, <3>2, <3>3, <3>4
  <2>6. Lists(taken)' BY <2>2, <2>3, <2>4, <2>5 DEF Lists
  <2> QED BY <2>2, <2>6
<1>10. CASE UNCHANGED listVars /\ Taken' = Taken
  BY <1>10 DEF QueueInv, Lists, Listed, Live
<1>11. ASSUME NEW u \in Users,
              FindId(u) \/ CallWith(u) \/ EnableOrDisable(u) \/ TerminateRead(u)
       PROVE  UNCHANGED listVars /\ Taken' = Taken
  BY <1>11 DEF FindId, CallWith, EnableOrDisable, TerminateRead, Taken, Running
<1>12. CASE \/ CreateReturns \/ DestroyBegins \/ Start \/ Test \/ Wait \/ Wake
            \/ SpuriousWake \/ PassEnds \/ Over \/ UNCHANGED vars
  <2>1. UNCHANGED listVars /\ Taken' = Taken
    BY <1>12 DEF CreateReturns, DestroyBegins, Start, Test, Wait, Wake, SpuriousWake, WakeUp,
                 PassEnds, Over, vars, LoopOnly, Taken, Running
  <2> QED BY <1>10, <2>1
<1> QED BY <1>1, <1>2, <1>3, <1>4, <1>5, <1>6, <1>7, <1>8, <1>9, <1>10, <1>11, <1>12
    DEF Next, UserStep, LoopStep

-----------------------------------------------------------------------------
(* The other parts of the invariant.                                       *)

LEMMA LoopTypeNext == ASSUME QueueInv, [Next]_vars PROVE LoopType'
<1> USE DEF listVars, loopVars, QueueInv, LoopType
<1>1. ASSUME NEW u \in Users, UserStep(u) PROVE LoopType'
  <2>1. CASE ListCall(u)
    <3>1. Signal \/ UNCHANGED signalled
      BY <2>1 DEF ListCall, Perform, RemoveTimer, ResumeTimer, SuspendTimer
    <3> QED BY <2>1, <3>1 DEF ListCall, Signal
  <2>2. CASE AddTimer(u) \/ SingleShot(u)
    <3>1. Signal /\ UNCHANGED <<exitLoop, queue, loopVars>>
      BY <2>2 DEF AddTimer, SingleShot, AddOne
    <3> QED BY <3>1 DEF Signal
  <2>3. CASE FindId(u) \/ CallWith(u) \/ EnableOrDisable(u) \/ SetInterval(u)
             \/ TerminateRead(u) \/ TerminateWrite(u)
    BY <2>3 DEF FindId, CallWith, EnableOrDisable, SetInterval, TerminateRead, TerminateWrite
  <2> QED BY <1>1, <2>1, <2>2, <2>3 DEF UserStep
<1>2. CASE CallbackCall
  <2>1. Signal \/ UNCHANGED signalled
    BY <1>2 DEF CallbackCall, AddOne, Perform, RemoveTimer, ResumeTimer, SuspendTimer
  <2> QED BY <1>2, <2>1 DEF CallbackCall, Signal
<1>3. CASE Inspect
  <2>1. cur \in Timers /\ NextOf(active, cur) \in Timers \union {NoTimer}
    <3>1. cur \in Timers BY <1>3 DEF Inspect
    <3> QED BY <3>1, NextIsListed, ListTypes DEF Lists
  <2> QED BY <1>3, <2>1 DEF Inspect
<1>4. CASE Wake \/ SpuriousWake
  <2>1. First(active) \in Timers \union {NoTimer}
    <3>1. active \in Seq(Timers) BY DEF Lists
    <3> QED BY <3>1 DEF First
  <2> QED BY <1>4, <2>1 DEF Wake, SpuriousWake, WakeUp, LoopOnly
<1>5. CASE \/ CreateReturns \/ DestroyEnds \/ Start \/ Test \/ Wait
           \/ PassEnds \/ Exec \/ CallbackReturns \/ Tick \/ Over \/ UNCHANGED vars
  BY <1>5 DEF CreateReturns, DestroyEnds, Start, Test, Wait, PassEnds, Exec,
              CallbackReturns, GoOn, Tick, Over, vars, LoopOnly
<1>6. CASE DestroyBegins BY <1>6 DEF DestroyBegins, Signal
<1> QED BY <1>1, <1>2, <1>3, <1>4, <1>5, <1>6 DEF Next, LoopStep

LEMMA DeadlineTypeNext == ASSUME QueueInv, [Next]_vars PROVE DeadlineType'
<1>1. Overdue \in Nat /\ Latest \in Nat /\ Never = Latest + 1 /\ deadline \in -Overdue .. Never
  BY TimerUsage, LatestIsLongest DEF Never, QueueInv, DeadlineType
<1>2. CASE UNCHANGED deadline BY <1>2 DEF QueueInv, DeadlineType
<1>3. CASE deadline' = Never BY <1>1, <1>3 DEF DeadlineType
<1>4. CASE Wait
  <2>1. CASE active = << >> BY <1>3, <1>4, <2>1 DEF Wait
  <2>2. CASE active # << >>
    <3>1. Head(active) \in Timers BY <2>2 DEF QueueInv, Lists
    <3>2. timer[Head(active)].expire \in -Overdue .. Latest BY <3>1, ListTypes DEF QueueInv
    <3>3. deadline' = timer[Head(active)].expire BY <1>4, <2>2 DEF Wait
    <3> QED BY <1>1, <3>2, <3>3 DEF DeadlineType
  <2> QED BY <2>1, <2>2
<1>5. CASE Tick
  <2>1. deadline' = IF deadline = Never THEN Never ELSE Later(deadline) BY <1>5 DEF Tick
  <2> QED BY <1>1, <2>1 DEF DeadlineType, Later
<1> QED BY <1>2, <1>3, <1>4, <1>5
    DEF Next, UserStep, LoopStep, AddTimer, SingleShot, FindId, CallWith, EnableOrDisable,
        SetInterval, TerminateRead, TerminateWrite, ListCall, CreateReturns, DestroyBegins,
        DestroyEnds, Start, Test, Wake, SpuriousWake, WakeUp, PassEnds, Inspect, Exec,
        CallbackReturns, CallbackCall, Over, vars, loopVars

\* A step ends calls, or begins one, or leaves them alone.
Ended(users) == call' = [v \in Users |-> IF v \in users THEN NoCall ELSE call[v]]

LEMMA CallsNext == ASSUME QueueInv, [Next]_vars PROVE CallType' /\ CallInv'
<1> USE DEF QueueInv, CallType, CallInv, Ended
<1>1. NoCall \in [op : {"none", "remove", "resume", "suspend", "terminate"},
                  t : Timers \union {NoTimer}, id : Ids \union {NoId, SingleId},
                  flags : SUBSET Flags] /\ NoCall.op = "none"
  BY DEF NoCall
<1>2. CASE UNCHANGED call BY <1>2
<1>3. CASE \E ended \in SUBSET Users : Ended(ended)
  BY <1>1, <1>3
<1>4. ASSUME NEW u \in Users, NEW op \in {"remove", "resume", "suspend", "terminate"},
             NEW t \in Timers, NEW id \in Ids \union {NoId, SingleId}, Begin(u, op, t, id)
      PROVE  CallType' /\ CallInv'
  <2>1. timer[t].flags \in SUBSET Flags BY <1>4, ListTypes
  <2> QED BY <1>4, <2>1 DEF Begin
<1>5. ASSUME NEW op, NEW t, NEW done \in SUBSET Users, Perform(op, t, done)
      PROVE  \E ended \in SUBSET Users : Ended(ended)
  <2>1. Terminating(t) \subseteq Users BY DEF Terminating
  <2>2. CASE Return(done, t)
    <3>1. PICK lost \in SUBSET Terminating(t) :
            call' = [v \in Users |-> IF v \in done \union lost THEN NoCall ELSE call[v]]
      BY <2>2 DEF Return
    <3>2. done \union lost \in SUBSET Users BY <2>1, <3>1
    <3> QED BY <3>1, <3>2
  <2>3. CASE call' = [v \in Users |-> IF v \in done THEN NoCall ELSE call[v]] BY <2>3
  <2> QED BY <1>5, <2>2, <2>3 DEF Perform, RemoveTimer, ResumeTimer, SuspendTimer
<1>6. ASSUME NEW u \in Users, FindId(u) \/ CallWith(u) \/ EnableOrDisable(u) \/ TerminateRead(u)
      PROVE  CallType' /\ CallInv'
  <2>1. Listed \subseteq Timers /\ Live \subseteq Timers
        /\ \A t \in Timers : timer[t].id \in Ids \union {NoId, SingleId}
    BY ListTypes DEF Live
  <2> QED BY <1>4, <1>6, <2>1 DEF FindId, CallWith, EnableOrDisable, TerminateRead
<1>7. ASSUME NEW u \in Users, ListCall(u) PROVE CallType' /\ CallInv'
  <2>1. Perform(call[u].op, call[u].t, {u}) BY <1>7 DEF ListCall
  <2>2. \E ended \in SUBSET Users : Ended(ended)
    BY <1>5, <2>1
  <2> QED BY <1>3, <2>2
<1>8. CASE CallbackCall
  <2>1. UNCHANGED call \/ \E op, t : Perform(op, t, {})
    BY <1>8 DEF CallbackCall
  <2> QED BY <1>2, <1>3, <1>5, <2>1
<1>9. ASSUME NEW u \in Users, TerminateWrite(u) PROVE CallType' /\ CallInv'
  BY <1>1, <1>9 DEF TerminateWrite
<1> QED BY <1>2, <1>6, <1>7, <1>8, <1>9
    DEF Next, UserStep, LoopStep, AddTimer, SingleShot, SetInterval, CreateReturns,
        DestroyBegins, DestroyEnds, Start, Test, Wait, Wake, SpuriousWake, WakeUp, PassEnds,
        Inspect, Exec, CallbackReturns, Tick, Over, vars, LoopOnly

\* A timer that timerExec sets to expire anew is on no list.
LEMMA AgainFits ==
  ASSUME QueueInv, CallbackReturns
  PROVE  LET again == [timer EXCEPT ![cur] =
                 [id |-> timer[cur].id, interval |-> timer[cur].interval,
                  expire |-> timer[cur].interval, flags |-> timer[cur].flags]]
         IN  again \in Contents /\ Ordered(active, again)
<1> DEFINE again == [timer EXCEPT ![cur] =
                 [id |-> timer[cur].id, interval |-> timer[cur].interval,
                  expire |-> timer[cur].interval, flags |-> timer[cur].flags]]
<1>1. cur \in Timers /\ Lists({cur}) /\ cur \notin ToSet(active)
  BY DEF QueueInv, PassInv, CallbackReturns, Taken, Running, Lists, Listed
<1>2. again \in Contents /\ \A t \in Timers \ {cur} : again[t] = timer[t]
  <2>1. timer[cur].interval \in -Overdue .. Latest BY <1>1, ListTypes, IntervalFits
  <2> QED BY <1>1, <2>1, ListTypes DEF Lists, Contents
<1>3. Ordered(active, again)
  <2>1. \A t \in ToSet(active) : again[t].expire = timer[t].expire
    BY <1>1, <1>2, ListTypes
  <2> QED BY <1>1, <2>1, OrderedSame DEF Lists
<1> QED BY <1>2, <1>3

LEMMA PassNext ==
  ASSUME QueueInv, [Next]_vars PROVE PassInv'
<1> USE DEF QueueInv, PassInv, CurListed, Running
<1>1. CASE Inspect
  <2>1. cur \in ToSet(active) /\ cur \in Timers /\ active \in Seq(Timers) /\ IsInjective(active)
        /\ active' = RemoveFirst(active, cur)
    BY <1>1, ListTypes DEF Inspect, Lists
  <2>2. ToSet(active') = ToSet(active) \ {cur} BY <2>1, RemoveProperties
  <2>3. NextOf(active, cur) = NoTimer \/ NextOf(active, cur) \in ToSet(active')
    BY <2>1, <2>2, NextIsListed
  <2> QED BY <1>1, <2>1, <2>3 DEF Inspect
<1>2. CASE Exec BY <1>2 DEF Exec, GoOn
<1>3. CASE CallbackCall BY <1>3 DEF CallbackCall
<1>4. CASE CallbackReturns
  <2>1. cur \in Timers /\ Lists({cur})
    BY <1>4 DEF CallbackReturns, Taken
  <2>2. ToSet(active) \subseteq ToSet(active')
    <3>1. CASE UNCHANGED active BY <3>1
    <3>2. CASE active' = Inserted(active, cur, [timer EXCEPT ![cur] =
                 [id |-> timer[cur].id, interval |-> timer[cur].interval,
                  expire |-> timer[cur].interval, flags |-> timer[cur].flags]])
      <4> DEFINE again == [timer EXCEPT ![cur] =
                 [id |-> timer[cur].id, interval |-> timer[cur].interval,
                  expire |-> timer[cur].interval, flags |-> timer[cur].flags]]
      <4>1. again \in Contents /\ Ordered(active, again) BY <1>4, AgainFits
      <4>2. cur \notin ToSet(active) BY <2>1 DEF Lists, Listed
      <4> HIDE DEF again
      <4>4. active' = Inserted(active, cur, again) BY <3>2 DEF again
      <4>5. ToSet(active') = ToSet(active) \union {cur}
        BY <2>1, <4>1, <4>2, <4>4, InsertProperties DEF Lists
      <4> QED BY <4>5
    <3> QED BY <1>4, <3>1, <3>2 DEF CallbackReturns
  <2> QED BY <1>4, <2>1, <2>2 DEF CallbackReturns, GoOn
<1>5. CASE Wake \/ SpuriousWake
  <2>1. First(active) = NoTimer \/ First(active) \in ToSet(active)
    <3>1. active \in Seq(Timers) BY DEF Lists
    <3>2. CASE active # << >>
      <4>1. 1 \in DOMAIN active /\ Head(active) = active[1] BY <3>1, <3>2
      <4> QED BY <4>1 DEF First, ToSet
    <3> QED BY <3>2 DEF First
  <2> QED BY <1>5, <2>1 DEF Wake, SpuriousWake, WakeUp, LoopOnly, listVars
<1>6. ASSUME NEW u \in Users, AddTimer(u) \/ SingleShot(u) \/ ListCall(u) PROVE PassInv'
  BY <1>6 DEF AddTimer, SingleShot, ListCall, LockFree, InPass, loopVars
<1>7. CASE DestroyBegins \/ DestroyEnds \/ Start \/ Test \/ Wait \/ PassEnds
  BY <1>7 DEF DestroyBegins, DestroyEnds, Start, Test, Wait, PassEnds, LockFree, InPass, LoopOnly,
              loopVars, listVars
<1>8. CASE UNCHANGED <<pc, cur, next, active>> BY <1>8
<1> QED BY <1>1, <1>2, <1>3, <1>4, <1>5, <1>6, <1>7, <1>8
    DEF Next, UserStep, LoopStep, FindId, CallWith, EnableOrDisable, SetInterval,
        TerminateRead, TerminateWrite, CreateReturns, Tick, Over, vars, loopVars, listVars

LEMMA NextStaysNext ==
  ASSUME QueueInv, [Next]_vars, Running, next \in ToSet(active), next \notin ToSet(active')
  PROVE  pc = "callback" /\ pc' = "returning"
<1>1. active' # active OBVIOUS
<1>2. CASE CallbackCall BY <1>2 DEF CallbackCall
<1>3. CASE CallbackReturns
  <2>1. \E T \in Contents : /\ active' = Inserted(active, cur, T)
                             /\ Ordered(active, T)
    <3> DEFINE again == [timer EXCEPT ![cur] =
                 [id |-> timer[cur].id, interval |-> timer[cur].interval,
                  expire |-> timer[cur].interval, flags |-> timer[cur].flags]]
    <3>1. active' = Inserted(active, cur, again) BY <1>1, <1>3 DEF CallbackReturns
    <3>2. again \in Contents /\ Ordered(active, again) BY <1>3, AgainFits
    <3> QED BY <3>1, <3>2
  <2>2. active \in Seq(Timers) /\ IsInjective(active) /\ cur \in Timers \ ToSet(active)
    BY DEF QueueInv, PassInv, Lists, Taken, Listed
  <2>3. ToSet(active) \subseteq ToSet(active') BY <2>1, <2>2, InsertProperties
  <2> QED BY <2>3
<1>4. ASSUME NEW u \in Users, UserStep(u) PROVE FALSE
  BY <1>1, <1>4
     DEF UserStep, AddTimer, SingleShot, FindId, CallWith, EnableOrDisable, SetInterval,
         TerminateRead, ListCall, TerminateWrite, LockFree, InPass, Running, listVars
<1> QED BY <1>1, <1>2, <1>3, <1>4
    DEF Next, LoopStep, CreateReturns, DestroyBegins, DestroyEnds, Start, Test, Wait, Wake,
        SpuriousWake, WakeUp, PassEnds, Inspect, Exec, Tick, Over, vars, LoopOnly, listVars,
        Running

LEMMA OversleepNext ==
  ASSUME QueueInv, NoOversleep, [Next]_vars
  PROVE  NoOversleep'
<1> USE DEF QueueInv, NoOversleep
<1>1. ASSUME NEW u \in Users, AddTimer(u) \/ SingleShot(u) PROVE NoOversleep'
  BY <1>1 DEF AddTimer, SingleShot, AddOne, Signal, loopVars
<1>2. ASSUME NEW u \in Users, ListCall(u) PROVE NoOversleep'
  <2>1. PICK taken : taken = Taken OBVIOUS
  <2>2. Signal \/ UNCHANGED <<listVars, signalled>> BY <1>2, <2>1, PerformKeeps DEF ListCall
  <2> QED BY <1>2, <2>2 DEF ListCall, Signal, loopVars, listVars
<1>3. ASSUME NEW u \in Users, SetInterval(u) \/ TerminateWrite(u) PROVE NoOversleep'
  <2>1. \A t \in Timers : timer'[t].expire = timer[t].expire
    BY <1>3 DEF SetInterval, TerminateWrite, WithFlags, Lists, Contents
  <2>2. UNCHANGED <<active, pc, deadline, signalled>>
    BY <1>3 DEF SetInterval, TerminateWrite, loopVars
  <2> QED BY <2>1, <2>2, ListTypes
<1>4. CASE Wait
  <2>1. active \in Seq(Timers) /\ UNCHANGED <<active, timer>>
    BY <1>4 DEF Wait, LoopOnly, listVars, Lists
  <2>2. ASSUME NEW t \in ToSet(active) PROVE deadline' <= timer[t].expire
    <3>1. PICK i \in 1 .. Len(active) : active[i] = t BY <2>1 DEF ToSet
    <3>2. active # << >> /\ Head(active) = active[1] /\ 1 \in 1 .. Len(active) /\ 1 <= i
      BY <2>1, <3>1
    <3>3. timer[active[1]].expire <= timer[active[i]].expire BY <3>2 DEF Lists, Ordered
    <3> QED BY <1>4, <3>1, <3>2, <3>3 DEF Wait
  <2> QED BY <2>1, <2>2
<1>5. CASE Tick
  <2> SUFFICES ASSUME pc = "waiting", ~signalled, NEW t \in ToSet(active)
               PROVE  deadline' <= timer'[t].expire
    BY <1>5 DEF Tick
  <2>1. t \in Live /\ t \in Timers BY ListTypes DEF Lists, Listed
  <2>2. timer'[t].expire = Later(timer[t].expire) BY <1>5, <2>1 DEF Tick
  <2>3. /\ deadline \in Int /\ Latest \in Int /\ Overdue \in Int /\ timer[t].expire \in Int
        /\ timer[t].expire <= Latest
    BY <2>1, ListTypes, LatestIsLongest, TimerUsage DEF DeadlineType, Never
  <2>4. deadline <= timer[t].expire OBVIOUS
  <2>5. deadline # Never BY <2>3, <2>4 DEF Never
  <2>6. deadline' = Later(deadline) BY <1>5, <2>5 DEF Tick
  <2>7. \A a, b \in Int : a <= b => Later(a) <= Later(b) BY <2>3 DEF Later
  <2> QED BY <2>2, <2>3, <2>4, <2>6, <2>7
<1>6. CASE \/ DestroyBegins \/ DestroyEnds \/ Start \/ Test \/ Wake \/ SpuriousWake
           \/ PassEnds \/ Inspect \/ Exec \/ CallbackReturns \/ CallbackCall
  BY <1>6 DEF DestroyBegins, Signal, DestroyEnds, Start, Test, Wake, SpuriousWake, WakeUp,
              PassEnds, Inspect, Exec, CallbackReturns, CallbackCall, GoOn, LoopOnly,
              loopVars, listVars
<1>7. CASE UNCHANGED <<pc, deadline, signalled, active, timer>> BY <1>7
<1> QED BY <1>1, <1>2, <1>3, <1>4, <1>5, <1>6, <1>7
    DEF Next, UserStep, LoopStep, FindId, CallWith, EnableOrDisable, TerminateRead,
        CreateReturns, Over, vars, loopVars, listVars

LEMMA SingleShotNext ==
  ASSUME QueueInv, [Next]_vars, NEW t \in Live \ Listed, "SINGLESHOT" \in timer[t].flags
  PROVE  t \notin Listed'
<1> USE DEF QueueInv
<1>1. t = cur /\ Running /\ Lists({cur}) /\ t \notin ToSet(active) /\ t \notin suspended
  BY DEF Lists, Taken, Listed
<1>2. CASE UNCHANGED <<active, suspended>> BY <1>2 DEF Listed
<1>3. ASSUME NEW u \in Users, UserStep(u) PROVE t \notin Listed'
  BY <1>1, <1>2, <1>3
     DEF UserStep, AddTimer, SingleShot, FindId, CallWith, EnableOrDisable, SetInterval,
         TerminateRead, ListCall, TerminateWrite, LockFree, InPass, Running, listVars
<1>4. CASE CallbackCall
  <2>1. PICK taken : taken = {cur} OBVIOUS
  <2>2. Lists(taken) BY <1>1, <2>1
  <2>3. ASSUME NEW s \in Timers \ Live, NEW r \in NewTimers \union SingleShots, AddOne(s, r)
        PROVE  t \notin Listed'
    BY <2>2, <2>3, AddKeeps
  <2>4. ASSUME NEW op, NEW s, Perform(op, s, {}) PROVE t \notin Listed'
    BY <2>2, <2>4, PerformKeeps
  <2> QED BY <1>4, <2>3, <2>4 DEF CallbackCall
<1>5. CASE CallbackReturns
  <2>1. \A ret : AfterCallback(ret) = "TERMINATE" BY <1>1 DEF AfterCallback
  <2> QED BY <1>2, <1>5, <2>1 DEF CallbackReturns
<1>6. CASE DestroyEnds BY <1>6, <1>1 DEF DestroyEnds, Running
<1> QED BY <1>1, <1>2, <1>3, <1>4, <1>5, <1>6
    DEF Next, LoopStep, CreateReturns, DestroyBegins, Start, Test, Wait, Wake, SpuriousWake,
        WakeUp, PassEnds, Inspect, Exec, Tick, Over, vars, LoopOnly, listVars, Running

-----------------------------------------------------------------------------
(* The theorems.                                                           *)

LEMMA QueueInit == Init => QueueInv /\ NoOversleep
<1> SUFFICES ASSUME Init PROVE QueueInv /\ NoOversleep OBVIOUS
<1> USE DEF Init
<1>1. Lists(Taken)
  <2>1. timer \in Contents
    <3>1. 0 \in -Overdue .. Latest BY LatestIsLongest, TimerUsage
    <3> QED BY <3>1 DEF Contents, Freed
  <2>2. Taken = {} /\ Listed = {} /\ Live = {}
    BY DEF Taken, Running, Listed, ToSet, Live, Freed
  <2> QED BY <2>1, <2>2 DEF Lists, IsInjective, Ordered, ToSet
<1>2. LoopType BY DEF LoopType
<1>3. DeadlineType BY LatestIsLongest, TimerUsage DEF DeadlineType, Never
<1>4. CallType /\ CallInv BY DEF CallType, CallInv, NoCall
<1>5. PassInv /\ NoOversleep BY DEF PassInv, CurListed, Running, NoOversleep
<1> QED BY <1>1, <1>2, <1>3, <1>4, <1>5 DEF QueueInv

\* Spec without its fairness, which says nothing about single steps.
Safe == Init /\ [][Next]_vars

LEMMA QueueInvariant == Safe => [](QueueInv /\ NoOversleep)
<1>1. QueueInv /\ NoOversleep /\ [Next]_vars => (QueueInv /\ NoOversleep)'
  BY ListsNext, LoopTypeNext, DeadlineTypeNext, CallsNext, PassNext, OversleepNext DEF QueueInv
<1> QED BY <1>1, QueueInit, PTL DEF Safe

LEMMA SpecIsSafe == Spec => Safe
BY PTL DEF Spec, Safe

(* Whatever threads and callbacks do, the queue's state stays well-formed    *)
(* until the pass is led astray.                                             *)
THEOREM TimerTypeOK == Spec => []TypeOK
<1>1. QueueInv => TypeOK
  BY DEF QueueInv, TypeOK, Lists, Contents, LoopType, DeadlineType, CallType
<1> QED BY <1>1, QueueInvariant, SpecIsSafe, PTL

(* XPR_TimerQueueAdd to XPR_TimerQueueSuspend and timerQueueLoop lose no     *)
(* timer, list none twice and keep none that was freed, whatever callbacks   *)
(* call, until one removes or suspends the timer the pass goes on with.      *)
THEOREM TimersStayOnOneList == Spec => []OneList
<1>1. QueueInv => OneList BY DEF QueueInv, OneList, Lists, Taken, Running
<1> QED BY <1>1, QueueInvariant, SpecIsSafe, PTL

(* From the choice of nextTimer to its use only the running callback's own   *)
(* calls take it off activeTimers: the lock keeps every other thread away.   *)
THEOREM OnlyCallbacksMislead == Spec => NextStays
<1>1. QueueInv /\ [Next]_vars => [Running /\ next \in ToSet(active) /\ next \notin ToSet(active')
                                    => pc = "callback" /\ pc' = "returning"]_vars
  BY NextStaysNext
<1> QED BY <1>1, QueueInvariant, SpecIsSafe, PTL DEF Safe, NextStays

(* timerQueueLoop never waits past the earliest timer unless a signal is on  *)
(* its way.                                                                  *)
THEOREM NeverOversleeps == Spec => []NoOversleep
<1> QED BY QueueInvariant, SpecIsSafe, PTL

(* A single shot timer that timerExec runs is on no list ever again.         *)
THEOREM SingleShotStaysOff == Spec => SingleShotOnce
<1>1. QueueInv /\ [Next]_vars => [\A t \in Live \ Listed :
                       "SINGLESHOT" \in timer[t].flags => t \notin Listed']_vars
  BY SingleShotNext
<1> QED BY <1>1, QueueInvariant, SpecIsSafe, PTL DEF Safe, SingleShotOnce
=================================================================================
