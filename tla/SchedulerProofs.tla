-------------------------- MODULE SchedulerProofs --------------------------
(***************************************************************************)
(* New orders are placed clear of what runs, in the order of their stages  *)
(* and as early as possible, for any machines, recipes and orders.         *)
(***************************************************************************)
EXTENDS Scheduler, FiniteSetTheorems, NaturalsInduction, TLAPS

\* What the code knows of a machine's row.
IsMachine(m) == m.from \in Nat /\ m.to \in Nat /\ m.changeover \in Nat

\* An instant is a midnight and an hour of the day.
LEMMA Hours ==
  ASSUME NEW t \in Nat
  PROVE  /\ Hour(t) \in 0 .. Day - 1 /\ Midnight(t) \in Nat
         /\ t = Midnight(t) + Hour(t)
  BY DayAssumption DEF Hour, Midnight

\* The hour of an instant, from its day.
LEMMA HourOf ==
  ASSUME NEW d \in Nat, NEW h \in 0 .. Day - 1
  PROVE  Hour(d * Day + h) = h
  BY DayAssumption, Z3 DEF Hour

\* Midnights come in order, a day apart.
LEMMA Midnights ==
  ASSUME NEW s \in Nat, NEW t \in Nat, s <= t
  PROVE  Midnight(s) = Midnight(t) \/ Midnight(s) + Day <= Midnight(t)
<1>1. PICK c \in Nat : Midnight(s) = c * Day
  BY DayAssumption DEF Hour, Midnight
<1>2. PICK d \in Nat : Midnight(t) = d * Day
  BY DayAssumption DEF Hour, Midnight
<1>3. CASE d < c
  <2>1. c * Day >= (d + 1) * Day
    BY <1>3, DayAssumption
  <2>2. Midnight(s) >= Midnight(t) + Day
    BY <1>1, <1>2, <2>1, DayAssumption
  <2>3. Midnight(s) <= s /\ t < Midnight(t) + Day
    BY Hours, DayAssumption
  <2>4. Midnight(s) \in Nat /\ Midnight(t) \in Nat /\ Day \in Nat
    BY Hours, DayAssumption
  <2> QED
    BY <2>2, <2>3, <2>4
<1>4. CASE d = c
  BY <1>1, <1>2, <1>4
<1>5. CASE d > c
  <2>1. d * Day >= (c + 1) * Day
    BY <1>5, DayAssumption
  <2> QED
    BY <1>1, <1>2, <2>1, DayAssumption
<1> QED
  BY <1>3, <1>4, <1>5

\* The hour of an instant some hours after a midnight.
LEMMA HourAfter ==
  ASSUME NEW t \in Nat, NEW h \in 0 .. Day - 1
  PROVE  /\ Hour(Midnight(t) + h) = h /\ Midnight(Midnight(t) + h) = Midnight(t)
         /\ Hour(Midnight(t) + Day + h) = h
         /\ Midnight(Midnight(t) + Day + h) = Midnight(t) + Day
<1>0. PICK d \in Nat : Midnight(t) = d * Day
  BY DayAssumption DEF Hour, Midnight
<1>1. Hour(Midnight(t) + h) = h
  BY <1>0, HourOf
<1>2. Hour(Midnight(t) + Day + h) = h
  <2>1. (d + 1) * Day + h = Midnight(t) + Day + h
    BY <1>0, DayAssumption
  <2> QED
    BY <2>1, HourOf
<1> QED
  BY <1>1, <1>2, Hours, DayAssumption DEF Midnight

\* _advance_to_working_window goes to the first instant, now or later, within the window.
LEMMA AdvanceIsFirst ==
  ASSUME NEW m, IsMachine(m), NEW c \in Nat
  PROVE  /\ AdvanceToWindow(c, m) \in Nat /\ c <= AdvanceToWindow(c, m)
         /\ m.from < m.to /\ m.to <= Day =>
              m.from <= Hour(AdvanceToWindow(c, m)) /\ Hour(AdvanceToWindow(c, m)) < m.to
         /\ \A t \in Nat : c <= t /\ m.from <= Hour(t) /\ Hour(t) < m.to
              => AdvanceToWindow(c, m) <= t
<1> DEFINE a == AdvanceToWindow(c, m)
<1>0. /\ m.from \in Nat /\ m.to \in Nat /\ Day \in Nat /\ Day > 0
      /\ Hour(c) \in 0 .. Day - 1 /\ Midnight(c) \in Nat /\ c = Midnight(c) + Hour(c)
  BY Hours, DayAssumption DEF IsMachine
<1>1. a \in Nat /\ c <= a
  BY <1>0 DEF AdvanceToWindow
<1>2. ASSUME m.from < m.to, m.to <= Day
      PROVE  m.from <= Hour(a) /\ Hour(a) < m.to
  <2>1. m.from \in 0 .. Day - 1
    BY <1>0, <1>2
  <2> QED
    BY <1>0, <1>2, <2>1, HourAfter DEF AdvanceToWindow
<1>3. ASSUME NEW t \in Nat, c <= t, m.from <= Hour(t), Hour(t) < m.to
      PROVE  a <= t
  <2>1. /\ Hour(t) \in 0 .. Day - 1 /\ Midnight(t) \in Nat /\ t = Midnight(t) + Hour(t)
        /\ Midnight(c) = Midnight(t) \/ Midnight(c) + Day <= Midnight(t)
    BY <1>3, Hours, Midnights
  <2> QED
    BY <1>0, <1>3, <2>1 DEF AdvanceToWindow
<1> QED
  BY <1>1, <1>2, <1>3

\* find_earliest_start goes to the first instant, from its candidate on, at which the job fits.
LEMMA EarliestIsFirst ==
  ASSUME NEW m, IsMachine(m), NEW d \in Nat, NEW c \in Nat
  PROVE  /\ EarliestFrom(m, d, c) \in Nat /\ c <= EarliestFrom(m, d, c)
         /\ m.from < m.to /\ ~Unplaceable(m) => Fits(m, d, EarliestFrom(m, d, c))
         /\ \A t \in Nat : c <= t /\ Fits(m, d, t) => EarliestFrom(m, d, c) <= t
<1> DEFINE a == AdvanceToWindow(c, m)
           e == EarliestFrom(m, d, c)
<1>0. /\ m.from \in Nat /\ m.to \in Nat /\ Day \in Nat /\ Day > 0
      /\ a \in Nat /\ c <= a
      /\ Hour(a) \in 0 .. Day - 1 /\ Midnight(a) \in Nat /\ a = Midnight(a) + Hour(a)
  <2>1. a \in Nat /\ c <= a
    BY AdvanceIsFirst
  <2> HIDE DEF a
  <2> QED
    BY <2>1, Hours, DayAssumption DEF IsMachine
<1>1. e \in Nat /\ c <= e
  BY <1>0 DEF EarliestFrom
<1>2. ASSUME m.from < m.to, ~Unplaceable(m)
      PROVE  Fits(m, d, e)
  <2>1. CASE AllDay(m)
    BY <2>1 DEF Fits
  <2>2. CASE ~AllDay(m)
    <3>1. m.to < Day /\ m.from \in 0 .. Day - 1
      BY <1>0, <1>2, <2>2 DEF Unplaceable
    <3>2. m.from <= Hour(a) /\ Hour(a) < m.to
      BY <1>0, <1>2, <3>1, AdvanceIsFirst
    <3>3. Hour(Midnight(a) + Day + m.from) = m.from
      BY <1>0, <3>1, HourAfter
    <3>4. CASE d >= Length(m) \/ Hour(a) + d <= m.to
      BY <2>2, <3>2, <3>4 DEF Fits, EarliestFrom
    <3>5. CASE ~(d >= Length(m) \/ Hour(a) + d <= m.to)
      <4>1. e = Midnight(a) + Day + m.from
        BY <2>2, <3>5 DEF EarliestFrom
      <4>2. m.from + d <= m.to
        BY <1>0, <3>5 DEF Length
      <4> HIDE DEF e
      <4> QED
        BY <1>0, <1>2, <3>3, <4>1, <4>2 DEF Fits
    <3> QED
      BY <3>4, <3>5
  <2> QED
    BY <2>1, <2>2
<1>3. ASSUME NEW t \in Nat, c <= t, Fits(m, d, t)
      PROVE  e <= t
  <2>1. CASE AllDay(m)
    BY <1>3, <2>1 DEF EarliestFrom
  <2>2. CASE ~AllDay(m)
    <3>1. m.from <= Hour(t) /\ Hour(t) < m.to /\ (d >= Length(m) \/ Hour(t) + d <= m.to)
      BY <1>3, <2>2 DEF Fits
    <3>2. a <= t
      BY <1>3, <3>1, AdvanceIsFirst
    <3>3. /\ Hour(t) \in 0 .. Day - 1 /\ Midnight(t) \in Nat /\ t = Midnight(t) + Hour(t)
          /\ Midnight(a) = Midnight(t) \/ Midnight(a) + Day <= Midnight(t)
      BY <1>0, <3>2, Hours, Midnights
    <3> HIDE DEF a
    <3> QED
      BY <1>0, <2>2, <3>1, <3>2, <3>3 DEF EarliestFrom, a
  <2> QED
    BY <2>1, <2>2
<1> QED
  BY <1>1, <1>2, <1>3
-----------------------------------------------------------------------------
(***************************************************************************)
(* Least and greatest numbers, and ranks.                                  *)
(***************************************************************************)
\* A finite set of numbers has a least: descent along its initial segments.
LEMMA LeastOfFinite ==
  ASSUME NEW T \in SUBSET Nat, T # {}, IsFiniteSet(T)
  PROVE  \E x \in T : \A y \in T : x <= y
<1>1. IsWellFoundedOn(StrictSubsetOrdering(T), SUBSET T)
  BY FS_StrictSubsetOrderingWellFounded, FS_FiniteSubsetsOfFinite
<1> DEFINE Below == {{y \in T : y < x} : x \in T}
<1>2. PICK B \in Below : \A C \in Below : <<C, B>> \notin StrictSubsetOrdering(T)
  <2>1. Below \subseteq SUBSET T /\ Below # {}
    OBVIOUS
  <2> HIDE DEF Below
  <2> QED
    BY <1>1, <2>1, WFMin
<1>3. PICK x \in T : B = {y \in T : y < x}
  BY <1>2
<1> HIDE DEF Below
<1>4. SUFFICES ASSUME NEW y \in T, y < x PROVE FALSE
  OBVIOUS
<1>5. {z \in T : z < y} \in Below
  BY DEF Below
<1>6. \A z \in T : z < y => z < x
  BY <1>4
<1>7. ~(y < y)
  OBVIOUS
<1>8. {z \in T : z < y} \subseteq B /\ y \in B /\ y \notin {z \in T : z < y}
  BY <1>3, <1>4, <1>6, <1>7, Zenon
<1>9. <<{z \in T : z < y}, B>> \in StrictSubsetOrdering(T)
  BY <1>3, <1>8 DEF StrictSubsetOrdering
<1> QED
  BY <1>2, <1>5, <1>9

\* A set of numbers has a least.
LEMMA LeastOf ==
  ASSUME NEW T \in SUBSET Nat, T # {}
  PROVE  Min(T) \in T /\ \A n \in T : Min(T) <= n
<1>1. PICK b \in T : TRUE
  OBVIOUS
<1> DEFINE U == {n \in T : n <= b}
<1>2. IsFiniteSet(U)
  BY FS_BoundedSetOfNaturals
<1>3. PICK x \in U : \A y \in U : x <= y
  BY <1>2, LeastOfFinite
<1>4. \A n \in T : x <= n
  BY <1>3
<1> QED
  BY <1>3, <1>4 DEF Min

\* A finite set of numbers has a greatest.
LEMMA GreatestOf ==
  ASSUME NEW T \in SUBSET Nat, T # {}, IsFiniteSet(T)
  PROVE  Max(T) \in T /\ \A y \in T : y <= Max(T)
<1>1. IsWellFoundedOn(StrictSubsetOrdering(T), SUBSET T)
  BY FS_StrictSubsetOrderingWellFounded, FS_FiniteSubsetsOfFinite
<1> DEFINE Above == {{y \in T : y > x} : x \in T}
<1>2. PICK B \in Above : \A C \in Above : <<C, B>> \notin StrictSubsetOrdering(T)
  <2>1. Above \subseteq SUBSET T /\ Above # {}
    OBVIOUS
  <2> HIDE DEF Above
  <2> QED
    BY <1>1, <2>1, WFMin
<1>3. PICK x \in T : B = {y \in T : y > x}
  BY <1>2
<1> HIDE DEF Above
<1>4. ASSUME NEW y \in T, y > x PROVE FALSE
  <2>1. {z \in T : z > y} \in Above
    BY DEF Above
  <2>2. \A z \in T : z > y => z > x
    BY <1>4
  <2>3. ~(y > y)
    OBVIOUS
  <2>4. {z \in T : z > y} \subseteq B /\ y \in B /\ y \notin {z \in T : z > y}
    BY <1>3, <1>4, <2>2, <2>3, Zenon
  <2>5. <<{z \in T : z > y}, B>> \in StrictSubsetOrdering(T)
    BY <1>3, <2>4 DEF StrictSubsetOrdering
  <2> QED
    BY <1>2, <2>1, <2>5
<1>5. \A y \in T : x >= y
  BY <1>4
<1>6. \E m \in T : \A y \in T : m >= y
  BY <1>5
<1>7. Max(T) \in T /\ \A y \in T : Max(T) >= y
  BY <1>6, Zenon DEF Max
<1> QED
  BY <1>7

\* A strict order of a set, as a set of pairs.
IsOrder(R, S) ==
  /\ \A i \in S : <<i, i>> \notin R
  /\ \A i, j \in S : i # j => <<i, j>> \in R \/ <<j, i>> \in R
  /\ \A i, j, k \in S : <<i, j>> \in R /\ <<j, k>> \in R => <<i, k>> \in R
RankIn(i, R, S) == Cardinality({j \in S : <<j, i>> \in R}) + 1

\* Ranks are numbered from 1 without gaps or ties.
LEMMA Ranks ==
  ASSUME NEW S, IsFiniteSet(S), NEW R, IsOrder(R, S)
  PROVE  /\ \A i, j \in S : RankIn(i, R, S) = RankIn(j, R, S) => i = j
         /\ \A r \in 1 .. Cardinality(S) : \E i \in S : RankIn(i, R, S) = r
<1> DEFINE Under(i) == {j \in S : <<j, i>> \in R}
           n == Cardinality(S)
           f == [i \in S |-> RankIn(i, R, S)]
<1>1. n \in Nat
  BY FS_CardinalityType
<1>2. ASSUME NEW i \in S
      PROVE  IsFiniteSet(Under(i)) /\ Cardinality(Under(i)) \in 0 .. n - 1
  <2>1. Under(i) \subseteq S \ {i}
    BY DEF IsOrder
  <2>2. IsFiniteSet(S \ {i}) /\ Cardinality(S \ {i}) = n - 1
    BY FS_RemoveElement
  <2> HIDE DEF Under
  <2>3. IsFiniteSet(Under(i)) /\ Cardinality(Under(i)) <= n - 1
    BY <2>1, <2>2, FS_Subset
  <2> QED
    BY <1>1, <2>3, FS_CardinalityType
<1>3. ASSUME NEW i \in S, NEW j \in S, <<i, j>> \in R
      PROVE  RankIn(i, R, S) # RankIn(j, R, S)
  <2>1. Under(i) \subseteq Under(j) /\ i \in Under(j) /\ i \notin Under(i)
    BY <1>3 DEF IsOrder
  <2> HIDE DEF Under
  <2>2. Cardinality(Under(i)) # Cardinality(Under(j))
    BY <1>2, <2>1, FS_Subset
  <2>3. Cardinality(Under(i)) \in Nat /\ Cardinality(Under(j)) \in Nat
    BY <1>2, FS_CardinalityType
  <2> QED
    BY <2>2, <2>3 DEF RankIn, Under
<1>4. \A i, j \in S : RankIn(i, R, S) = RankIn(j, R, S) => i = j
  BY <1>3 DEF IsOrder
<1>5. f \in [S -> 1 .. n]
  <2>1. ASSUME NEW i \in S PROVE RankIn(i, R, S) \in 1 .. n
    <3>1. RankIn(i, R, S) = Cardinality(Under(i)) + 1
      BY DEF RankIn
    <3> HIDE DEF Under
    <3> QED
      BY <1>1, <1>2, <3>1
  <2> QED
    BY <2>1
<1>6. f \in Injection(S, 1 .. n)
  <2>1. \A a, b \in S : f[a] = f[b] => a = b
    BY <1>4
  <2> HIDE DEF f
  <2> QED
    BY <1>5, <2>1 DEF Injection, IsInjective
<1>7. IsFiniteSet(1 .. n) /\ Cardinality(1 .. n) = n
  BY <1>1, FS_Interval
<1>8. f \in Surjection(S, 1 .. n)
  <2> HIDE DEF f
  <2> QED
    BY <1>6, <1>7, FS_Injection
<1>9. \A r \in 1 .. n : \E i \in S : f[i] = r
  BY <1>8 DEF Surjection
<1> QED
  BY <1>4, <1>9

\* There is a best member.
LEMMA BestOf ==
  ASSUME NEW S, IsFiniteSet(S), S # {}, NEW R, IsOrder(R, S)
  PROVE  \E i \in S : \A j \in S \ {i} : <<i, j>> \in R
<1>1. Cardinality(S) \in Nat \ {0}
  BY FS_CardinalityType, FS_EmptySet
<1>2. PICK i \in S : RankIn(i, R, S) = 1
  BY <1>1, Ranks
<1> DEFINE U == {j \in S : <<j, i>> \in R}
<1>3. Cardinality(U) = 0 /\ IsFiniteSet(U)
  <2>1. IsFiniteSet(U)
    BY FS_Subset
  <2>2. Cardinality(U) \in Nat /\ Cardinality(U) + 1 = 1
    <3>1. Cardinality(U) + 1 = 1
      BY <1>2 DEF RankIn
    <3> HIDE DEF U
    <3> QED
      BY <2>1, <3>1, FS_CardinalityType
  <2> HIDE DEF U
  <2> QED
    BY <2>1, <2>2
<1>4. U = {}
  <2> HIDE DEF U
  <2> QED
    BY <1>3, FS_EmptySet
<1> QED
  BY <1>4 DEF IsOrder

\* A recursion over 1 .. n, whose steps G stay in a set V, has a solution.
IsRecursion(n, V, base, G) == n \in Nat /\ base \in V /\ G \in [1 .. n -> [V -> V]]
IsSolution(f, n, V, base, G) ==
  f \in [0 .. n -> V] /\ f[0] = base /\ \A k \in 1 .. n : f[k] = G[k][f[k - 1]]
LEMMA Recursion ==
  ASSUME NEW n, NEW V, NEW base, NEW G, IsRecursion(n, V, base, G)
  PROVE  \E f : IsSolution(f, n, V, base, G)
<1>0. n \in Nat /\ base \in V /\ G \in [1 .. n -> [V -> V]]
  BY DEF IsRecursion
<1> DEFINE Solves(f, m) == /\ f \in [0 .. m -> V] /\ f[0] = base
                           /\ \A k \in 1 .. m : f[k] = G[k][f[k - 1]]
           Bad == {m \in 0 .. n : ~\E f : Solves(f, m)}
<1>a. ASSUME Bad = {} PROVE \E f : IsSolution(f, n, V, base, G)
  <2>1. n \notin Bad /\ n \in 0 .. n
    <3> HIDE DEF Bad
    <3> QED
      BY <1>0, <1>a
  <2>2. \E f : Solves(f, n)
    BY <2>1
  <2> QED
    BY <2>2 DEF IsSolution
<1>1. SUFFICES ASSUME Bad # {} PROVE FALSE
  BY <1>a, Zenon
<1>2. PICK m \in Bad : \A l \in Bad : m <= l
  <2>1. Bad \subseteq Nat
    BY <1>0
  <2> HIDE DEF Bad
  <2> QED
    BY <1>1, <2>1, LeastOf
<1>3. m # 0
  <2>1. Solves([k \in 0 .. 0 |-> base], 0)
    BY <1>0
  <2> QED
    BY <1>2, <2>1
<1>4. m \in 1 .. n /\ m - 1 \in 0 .. n /\ m - 1 \notin Bad
  <2>1. m \in 0 .. n
    BY <1>2
  <2> HIDE DEF Bad
  <2>2. m \in 1 .. n /\ m - 1 \in 0 .. n /\ ~(m <= m - 1)
    BY <1>0, <1>3, <2>1
  <2> QED
    BY <1>2, <2>2
<1>5. PICK f : Solves(f, m - 1)
  BY <1>4
<1> DEFINE g == [k \in 0 .. m |-> IF k = m THEN G[m][f[m - 1]] ELSE f[k]]
<1>6. Solves(g, m)
  <2>1. f[m - 1] \in V
    BY <1>0, <1>4, <1>5
  <2>2. G[m][f[m - 1]] \in V
    BY <1>0, <1>4, <2>1
  <2>3. g \in [0 .. m -> V]
    BY <1>0, <1>4, <1>5, <2>2
  <2>4. g[0] = base
    BY <1>0, <1>4, <1>5
  <2>5. ASSUME NEW k \in 1 .. m PROVE g[k] = G[k][g[k - 1]]
    BY <1>0, <1>4, <1>5
  <2> QED
    BY <2>3, <2>4, <2>5
<1> QED
  BY <1>2, <1>6

\* What each step keeps holds of every step.
LEMMA Stepwise ==
  ASSUME NEW n \in Nat, NEW g, NEW W, g[0] \in W[0],
         \A k \in 1 .. n : g[k - 1] \in W[k - 1] => g[k] \in W[k]
  PROVE  \A k \in 0 .. n : g[k] \in W[k]
<1> DEFINE Bad == {m \in 0 .. n : g[m] \notin W[m]}
<1>1. SUFFICES ASSUME Bad # {} PROVE FALSE
  OBVIOUS
<1>2. PICK m \in Bad : \A l \in Bad : m <= l
  <2>1. Bad \subseteq Nat
    OBVIOUS
  <2> HIDE DEF Bad
  <2> QED
    BY <1>1, <2>1, LeastOf
<1>3. m \in 1 .. n /\ m - 1 \in 0 .. n /\ m - 1 \notin Bad
  BY <1>2
<1> QED
  BY <1>2, <1>3
-----------------------------------------------------------------------------
(***************************************************************************)
(* Stages.                                                                 *)
(***************************************************************************)
StageType == [id : STRING \ {"pkg"}, group : STRING, deps : SUBSET STRING]

\* Stages are out only once, after those they depend on.
InOrder(out, stages) ==
  /\ out \in Seq(StageType)
  /\ \A k \in 1 .. Len(out) :
       /\ \E j \in DOMAIN stages : out[k] = stages[j]
       /\ \A l \in 1 .. Len(out) : out[k].id = out[l].id => k = l
       /\ \A d \in out[k].deps : \E l \in 1 .. k - 1 : out[l].id = d

\* The next stage goes after those it depends on, and only once.
LEMMA NextInOrder ==
  ASSUME NEW stages \in Seq(StageType), NEW out, InOrder(out, stages)
  PROVE  InOrder(WithNext(out, stages), stages)
<1> DEFINE ready == {k \in DOMAIN stages : /\ stages[k].id \notin Ids(out)
                                           /\ stages[k].deps \subseteq Ids(out)}
<1>1. CASE ready = {}
  BY <1>1 DEF WithNext
<1>2. CASE ready # {}
  <2>1. Min(ready) \in ready
    <3>1. ready \in SUBSET Nat
      OBVIOUS
    <3> HIDE DEF ready
    <3> QED
      BY <1>2, <3>1, LeastOf
  <2>2. PICK m, s : m = Min(ready) /\ s = stages[m]
    OBVIOUS
  <2>3. s \in StageType /\ s.id \notin Ids(out) /\ s.deps \subseteq Ids(out)
        /\ \E j \in DOMAIN stages : s = stages[j]
    <3>1. m \in DOMAIN stages /\ stages[m].id \notin Ids(out) /\ stages[m].deps \subseteq Ids(out)
      BY <2>1, <2>2
    <3> HIDE DEF ready
    <3> QED
      BY <2>2, <3>1
  <2>4. WithNext(out, stages) = Append(out, s)
    BY <1>2, <2>2 DEF WithNext
  <2>5. PICK new : new = Append(out, s)
    OBVIOUS
  <2>6. /\ new \in Seq(StageType) /\ Len(new) = Len(out) + 1 /\ Len(out) \in Nat
        /\ \A k \in 1 .. Len(out) : new[k] = out[k]
        /\ new[Len(out) + 1] = s
    BY <2>3, <2>5 DEF InOrder
  <2>7. /\ \A k \in 1 .. Len(out) : out[k].id # s.id
        /\ \A d \in s.deps : \E l \in 1 .. Len(out) : out[l].id = d
    BY <2>3 DEF Ids, InOrder
  <2>8. ASSUME NEW k \in 1 .. Len(new)
        PROVE  /\ \E j \in DOMAIN stages : new[k] = stages[j]
               /\ \A l \in 1 .. Len(new) : new[k].id = new[l].id => k = l
               /\ \A d \in new[k].deps : \E l \in 1 .. k - 1 : new[l].id = d
    <3>1. CASE k = Len(out) + 1
      <4>1. new[k] = s /\ \A l \in 1 .. Len(new) : l = Len(out) + 1 \/ l \in 1 .. Len(out)
        BY <2>6, <3>1
      <4>2. \A l \in 1 .. Len(new) : new[k].id = new[l].id => k = l
        BY <2>6, <2>7, <3>1, <4>1
      <4>3. \A d \in s.deps : \E l \in 1 .. k - 1 : new[l].id = d
        BY <2>6, <2>7, <3>1
      <4> QED
        BY <2>3, <4>1, <4>2, <4>3
    <3>2. CASE k \in 1 .. Len(out)
      <4>1. new[k] = out[k] /\ out[k].id # s.id
        BY <2>6, <2>7, <3>2
      <4>2. \A l \in 1 .. Len(new) : new[k].id = new[l].id => k = l
        BY <2>6, <3>2, <4>1 DEF InOrder
      <4>3. \A d \in out[k].deps : \E l \in 1 .. k - 1 : new[l].id = d
        <5>1. \A d \in out[k].deps : \E l \in 1 .. k - 1 : out[l].id = d
          BY <3>2 DEF InOrder
        <5> QED
          BY <2>6, <3>2, <5>1
      <4> QED
        BY <3>2, <4>1, <4>2, <4>3 DEF InOrder
    <3> QED
      BY <2>6, <3>1, <3>2
  <2>9. WithNext(out, stages) = new
    BY <2>4, <2>5
  <2>10. new \in Seq(StageType)
    BY <2>6
  <2> HIDE DEF ready
  <2>11. InOrder(new, stages)
    BY <2>8, <2>10 DEF InOrder
  <2> QED
    BY <2>9, <2>11
<1> QED
  BY <1>1, <1>2

\* _topological_order puts out stages in order.
LEMMA TopologicalOrderRight ==
  ASSUME NEW stages \in Seq(StageType)
  PROVE  InOrder(TopologicalOrder(stages), stages)
<1> DEFINE n == Len(stages)
           V == {out \in Seq(StageType) : InOrder(out, stages)}
           G == [k \in 1 .. n |-> [out \in V |-> WithNext(out, stages)]]
           Def(g) == [k \in 0 .. n |-> IF k = 0 THEN <<>> ELSE WithNext(g[k - 1], stages)]
<1>1. n \in Nat /\ <<>> \in V
  BY DEF InOrder
<1>2. G \in [1 .. n -> [V -> V]]
  <2>1. \A out \in V : WithNext(out, stages) \in V
    BY NextInOrder DEF InOrder
  <2> QED
    BY <2>1
<1>3. PICK f : IsSolution(f, n, V, <<>>, G)
  <2> HIDE DEF n, V, G
  <2> QED
    BY <1>1, <1>2, Recursion DEF IsRecursion
<1>4. ASSUME NEW k \in 1 .. n PROVE f[k] = WithNext(f[k - 1], stages)
  <2>1. k - 1 \in 0 .. n
    BY <1>1
  <2>2. f[k - 1] \in V
    <3> HIDE DEF V, n
    <3> QED
      BY <1>3, <2>1 DEF IsSolution
  <2>3. G[k][f[k - 1]] = WithNext(f[k - 1], stages)
    BY <2>2
  <2> HIDE DEF G
  <2> QED
    BY <1>3, <2>3 DEF IsSolution
<1>5. f = Def(f)
  BY <1>1, <1>3, <1>4 DEF IsSolution
<1>6. PICK g : g = CHOOSE h : h = Def(h)
  OBVIOUS
<1>7. g = Def(g)
  <2> HIDE DEF Def
  <2> QED
    BY <1>5, <1>6
<1>8. TopologicalOrder(stages) = g[n]
  BY <1>6 DEF TopologicalOrder
<1>9. \A k \in 0 .. n : g[k] \in [j \in 0 .. n |-> V][k]
  <2>1. g[0] = <<>>
    BY <1>1, <1>7
  <2>2. ASSUME NEW k \in 1 .. n, g[k - 1] \in V PROVE g[k] \in V
    <3>1. g[k] = WithNext(g[k - 1], stages)
      BY <1>1, <1>7
    <3> HIDE DEF n
    <3> QED
      BY <2>2, <3>1, NextInOrder, InOrder(WithNext(g[k - 1], stages), stages) DEF InOrder
  <2> DEFINE W == [j \in 0 .. n |-> V]
  <2>3. g[0] \in W[0] /\ \A k \in 1 .. n : g[k - 1] \in W[k - 1] => g[k] \in W[k]
    <3> HIDE DEF V
    <3> QED
      BY <1>1, <2>1, <2>2
  <2> HIDE DEF W
  <2>4. \A k \in 0 .. n : g[k] \in W[k]
    BY <1>1, <2>3, Stepwise
  <2> QED
    BY <2>4 DEF W
<1> QED
  BY <1>1, <1>8, <1>9
-----------------------------------------------------------------------------
(***************************************************************************)
(* Shares.                                                                 *)
(***************************************************************************)
\* Sums of whole numbers.
LEMMA TotalRight ==
  ASSUME NEW w \in Seq(Int)
  PROVE  /\ Total(w) \in Int
         /\ (\A k \in 1 .. Len(w) : w[k] >= 1) => Total(w) >= Len(w)
         /\ (\A k \in 1 .. Len(w) : w[k] = 0) => Total(w) = 0
<1> DEFINE n == Len(w)
           G == [k \in 1 .. n |-> [x \in Int |-> x + w[k]]]
           Def(g) == [k \in 0 .. n |-> IF k = 0 THEN 0 ELSE g[k - 1] + w[k]]
<1>1. n \in Nat
  OBVIOUS
<1>2. G \in [1 .. n -> [Int -> Int]]
  OBVIOUS
<1>3. PICK f : IsSolution(f, n, Int, 0, G)
  <2> HIDE DEF n, G
  <2>1. IsRecursion(n, Int, 0, G)
    BY <1>1, <1>2 DEF IsRecursion
  <2> QED
    BY <2>1, Recursion, Zenon
<1>4. ASSUME NEW k \in 1 .. n PROVE f[k] = f[k - 1] + w[k]
  <2>1. k - 1 \in 0 .. n
    BY <1>1
  <2>2. f[k - 1] \in Int
    <3> HIDE DEF n
    <3> QED
      BY <1>3, <2>1 DEF IsSolution
  <2>3. G[k][f[k - 1]] = f[k - 1] + w[k]
    BY <2>2
  <2> HIDE DEF G
  <2> QED
    BY <1>3, <2>3 DEF IsSolution
<1>5. f = Def(f)
  BY <1>1, <1>3, <1>4 DEF IsSolution
<1>6. PICK g : g = CHOOSE h : h = Def(h)
  OBVIOUS
<1>7. g = Def(g)
  <2> HIDE DEF Def
  <2> QED
    BY <1>5, <1>6
<1>8. Total(w) = g[n]
  BY <1>6 DEF Total
<1>9. g[0] = 0 /\ \A k \in 1 .. n : g[k] = g[k - 1] + w[k]
  BY <1>1, <1>7
<1> DEFINE W == [k \in 0 .. n |->
                   {x \in Int : /\ (\A l \in 1 .. n : w[l] >= 1) => x >= k
                                /\ (\A l \in 1 .. n : w[l] = 0) => x = 0}]
<1>10. g[0] \in W[0]
  BY <1>1, <1>9
<1>11. ASSUME NEW k \in 1 .. n, g[k - 1] \in W[k - 1] PROVE g[k] \in W[k]
  <2>1. k \in 0 .. n /\ k - 1 \in 0 .. n /\ w[k] \in Int
    BY <1>1
  <2>2. /\ g[k - 1] \in Int
        /\ (\A l \in 1 .. n : w[l] >= 1) => g[k - 1] >= k - 1
        /\ (\A l \in 1 .. n : w[l] = 0) => g[k - 1] = 0
    BY <1>11, <2>1
  <2> QED
    BY <1>9, <2>1, <2>2
<1>12. g[n] \in W[n]
  <2> HIDE DEF W, n
  <2>1. \A k \in 0 .. n : g[k] \in W[k]
    BY <1>1, <1>10, <1>11, Stepwise
  <2> QED
    BY <1>1, <2>1
<1> QED
  BY <1>1, <1>8, <1>12

\* Rounding down leaves nobody less than nothing.
LEMMA FlooredRight ==
  ASSUME NEW w \in Seq(Nat \ {0}), Len(w) > 0, NEW total \in Nat
  PROVE  /\ Floored(total, w) \in Seq(Int) /\ DOMAIN Floored(total, w) = 1 .. Len(w)
         /\ \A n \in 1 .. Len(w) : Floored(total, w)[n] \in Nat
<1>1. w \in Seq(Int) /\ \A k \in 1 .. Len(w) : w[k] >= 1
  OBVIOUS
<1>2. Total(w) \in Nat \ {0}
  BY <1>1, TotalRight
<1>3. PICK c : c = Total(w) * RoundTo
  OBVIOUS
<1>4. c \in Nat \ {0}
  BY <1>2, <1>3, SchedulerAssumption
<1>5. ASSUME NEW n \in 1 .. Len(w) PROVE Floored(total, w)[n] \in Nat
  <2>1. PICK b : b = w[n] * total
    OBVIOUS
  <2>2. b \in Nat
    BY <2>1
  <2>3. b \div c \in Nat
    BY <1>4, <2>2
  <2>4. (b \div c) * RoundTo \in Nat
    BY <2>3, SchedulerAssumption
  <2> QED
    BY <1>3, <2>1, <2>4 DEF Floored
<1>6. PICK floored : floored = Floored(total, w)
  OBVIOUS
<1>7. floored = [n \in 1 .. Len(w) |-> floored[n]]
  BY <1>6 DEF Floored
<1>8. \A n \in 1 .. Len(w) : floored[n] \in Nat
  BY <1>5, <1>6
<1>9. floored \in Seq(Int) /\ DOMAIN floored = 1 .. Len(w)
  BY <1>7, <1>8
<1> QED
  BY <1>6, <1>8, <1>9

\* Someone comes first when those with more come first, ties by number.
LEMMA Foremost ==
  ASSUME NEW N \in SUBSET Nat, IsFiniteSet(N), N # {}, NEW a \in [N -> Int], NEW b \in [N -> Int]
  PROVE  \E n \in N : \A l \in N \ {n} :
           \/ a[n] > a[l]
           \/ a[n] = a[l] /\ (b[n] > b[l] \/ (b[n] = b[l] /\ n < l))
<1> DEFINE Ahead(n, l) == \/ a[n] > a[l]
                          \/ a[n] = a[l] /\ (b[n] > b[l] \/ (b[n] = b[l] /\ n < l))
           R == {p \in N \X N : Ahead(p[1], p[2])}
<1>1. \A n, l \in N : <<n, l>> \in R <=> Ahead(n, l)
  OBVIOUS
<1> HIDE DEF R
<1>2. /\ \A i \in N : ~Ahead(i, i)
      /\ \A i, j \in N : i # j => Ahead(i, j) \/ Ahead(j, i)
      /\ \A i, j, k \in N : Ahead(i, j) /\ Ahead(j, k) => Ahead(i, k)
  OBVIOUS
<1> HIDE DEF Ahead
<1>3. IsOrder(R, N)
  BY <1>1, <1>2 DEF IsOrder
<1>4. \E n \in N : \A l \in N \ {n} : <<n, l>> \in R
  BY <1>3, BestOf
<1> QED
  BY <1>1, <1>4 DEF Ahead

\* _proportional_chunks hands out whole numbers, and something to someone.
LEMMA SharesRight ==
  ASSUME NEW w \in Seq(Nat \ {0}), Len(w) > 0, NEW total \in Nat \ {0}
  PROVE  /\ Shares(total, w) \in [DOMAIN w -> Int]
         /\ \E n \in DOMAIN w : Shares(total, w)[n] > 0
<1>1. PICK N : N = DOMAIN w
  OBVIOUS
<1>a. N = 1 .. Len(w) /\ Len(w) \in Nat
  BY <1>1
<1>b. N # {} /\ N \in SUBSET Nat /\ IsFiniteSet(N)
  <2>1. 1 \in N /\ N \in SUBSET Nat
    BY <1>a
  <2>2. IsFiniteSet(1 .. Len(w))
    BY <1>a, FS_Interval
  <2> QED
    BY <1>a, <2>1, <2>2
<1>c. \A n \in N : w[n] \in Nat
  BY <1>a
<1>2. PICK floored : floored = Floored(total, w)
  OBVIOUS
<1>3. floored \in Seq(Int) /\ DOMAIN floored = N /\ \A n \in N : floored[n] \in Nat
  BY <1>a, <1>2, FlooredRight
<1>4. PICK left : left = total - Total(floored)
  OBVIOUS
<1>5. left \in Int /\ ((\A n \in N : floored[n] = 0) => left = total)
  <2>1. Len(floored) = Len(w)
    BY <1>3, <1>a
  <2>2. Total(floored) \in Int /\ ((\A n \in N : floored[n] = 0) => Total(floored) = 0)
    BY <1>3, <1>a, <2>1, TotalRight
  <2> QED
    BY <1>4, <2>2
<1>d. Total(w) \in Int
  <2>1. w \in Seq(Int)
    OBVIOUS
  <2> QED
    BY <2>1, TotalRight
<1> DEFINE Lost(n) == w[n] * total - floored[n] * Total(w)
           Prior(n, l) == \/ Lost(n) > Lost(l)
                          \/ Lost(n) = Lost(l) /\ (w[n] > w[l] \/ (w[n] = w[l] /\ n < l))
           bumped == {n \in N : Cardinality({l \in N : Prior(l, n)}) < left \div RoundTo}
           Heavy(n) == \A l \in N : w[n] > w[l] \/ (w[n] = w[l] /\ n <= l)
           heaviest == CHOOSE n \in N : Heavy(n)
           Up(n) == IF n \in bumped THEN RoundTo ELSE 0
           Rest(n) == IF n = heaviest THEN left % RoundTo ELSE 0
<1>6. RoundTo \in Nat /\ RoundTo > 0 /\ left % RoundTo \in Nat /\ left \div RoundTo \in Int
  BY <1>5, SchedulerAssumption
<1>s. PICK share : share = Shares(total, w)
  OBVIOUS
<1>7. share = [n \in N |-> floored[n] + Up(n) + Rest(n)]
  BY <1>1, <1>2, <1>4, <1>s DEF Shares
<1> DEFINE W == [n \in N |-> w[n]]
<1>e. W \in [N -> Int]
  BY <1>c
<1>f. \E n \in N : Heavy(n)
  <2>1. [n \in N |-> 0] \in [N -> Int]
    OBVIOUS
  <2>2. PICK n \in N : \A l \in N \ {n} : W[n] > W[l] \/ (W[n] = W[l] /\ n < l)
    <3> HIDE DEF W
    <3> QED
      BY <1>b, <1>e, <2>1, Foremost
  <2> QED
    BY <1>b, <1>c, <2>2
<1>g. \A n \in N : Lost(n) \in Int
  <2>1. \A a, b, c, d \in Int : a * b - c * d \in Int
    OBVIOUS
  <2> QED
    BY <1>3, <1>c, <1>d, <2>1
<1> HIDE DEF Lost
<1>h. \E n \in N : \A l \in N : ~Prior(l, n)
  <2> DEFINE A == [n \in N |-> Lost(n)]
  <2>1. A \in [N -> Int]
    BY <1>g
  <2>2. PICK n \in N : \A l \in N \ {n} :
           \/ A[n] > A[l]
           \/ A[n] = A[l] /\ (W[n] > W[l] \/ (W[n] = W[l] /\ n < l))
    <3> HIDE DEF A, W
    <3> QED
      BY <1>b, <1>e, <2>1, Foremost
  <2>3. \A l \in N \ {n} : Prior(n, l)
    BY <2>2
  <2>4. ASSUME NEW l \in N PROVE ~Prior(l, n)
    <3>1. Lost(l) \in Int /\ Lost(n) \in Int /\ w[l] \in Nat /\ w[n] \in Nat /\ l \in Nat /\ n \in Nat
      BY <1>b, <1>c, <1>g
    <3> QED
      BY <2>3, <3>1
  <2> QED
    BY <2>4
<1> HIDE DEF bumped, heaviest, Heavy, Prior, W
<1>8. \A n \in N : Up(n) \in Nat /\ Rest(n) \in Nat
  BY <1>6
<1>i. ASSUME left % RoundTo > 0 PROVE heaviest \in N /\ Rest(heaviest) > 0
  BY <1>f, <1>i DEF heaviest
<1>j. ASSUME left \div RoundTo >= 1 PROVE \E n \in N : Up(n) > 0
  <2>1. PICK n \in N : {l \in N : Prior(l, n)} = {}
    BY <1>h
  <2>2. Cardinality({l \in N : Prior(l, n)}) = 0
    BY <2>1, FS_EmptySet
  <2>3. n \in bumped
    BY <1>6, <1>j, <2>2 DEF bumped
  <2> QED
    BY <1>6, <2>3
<1> HIDE DEF Up, Rest
<1>9. share \in [N -> Int]
  BY <1>3, <1>7, <1>8
<1> DEFINE Some(n) == share[n] > 0
<1>10. /\ \A n \in N : floored[n] > 0 => Some(n)
       /\ \A n \in N : Up(n) > 0 => Some(n)
       /\ \A n \in N : Rest(n) > 0 => Some(n)
  <2>1. ASSUME NEW n \in N, floored[n] > 0 \/ Up(n) > 0 \/ Rest(n) > 0 PROVE Some(n)
    <3>1. share[n] = floored[n] + Up(n) + Rest(n)
      BY <1>7
    <3>2. floored[n] \in Nat /\ Up(n) \in Nat /\ Rest(n) \in Nat
      BY <1>3, <1>8
    <3> QED
      BY <2>1, <3>1, <3>2
  <2> HIDE DEF Some
  <2> QED
    BY <2>1
<1>14. \E n \in N : Some(n)
  <2> HIDE DEF Some
  <2>1. CASE \E n \in N : floored[n] > 0
    BY <1>10, <2>1
  <2>2. CASE \A n \in N : floored[n] = 0
    <3>1. left = total
      BY <1>5, <2>2
    <3>2. CASE left % RoundTo > 0
      BY <1>10, <1>i, <3>2
    <3>3. CASE left % RoundTo = 0
      <4>1. left \div RoundTo >= 1
        BY <1>6, <3>1, <3>3
      <4> QED
        BY <1>10, <1>j, <4>1
    <3> QED
      BY <1>6, <3>2, <3>3
  <2>3. (\E n \in N : floored[n] > 0) \/ (\A n \in N : floored[n] = 0)
    BY <1>3
  <2> QED
    BY <2>1, <2>2, <2>3
<1> QED
  BY <1>1, <1>9, <1>14, <1>s
-----------------------------------------------------------------------------
(***************************************************************************)
(* What an order asks for.                                                 *)
(***************************************************************************)
SpecType == [id : STRING \cup {"pkg"}, group : STRING, items : Nat \ {0}, deps : SUBSET STRING,
             quantity : Nat \ {0}]
SliceType == [group : STRING, quantity : Nat \ {0}, items : Nat \ {0}]

\* The stages of an order are its recipe's, in order.
LEMMA StagesRight ==
  ASSUME NEW o \in DOMAIN Orders
  PROVE  /\ InOrder(Stages[o], Recipes[Orders[o].recipe].stages)
         /\ \A k \in DOMAIN Stages[o] : Stages[o][k] \in StageType
         /\ Len(Stages[o]) \in Nat /\ DOMAIN Stages[o] = 1 .. Len(Stages[o])
<1>1. Recipes[Orders[o].recipe].stages \in Seq(StageType)
  BY SchedulerAssumption DEF StageType
<1>2. InOrder(Stages[o], Recipes[Orders[o].recipe].stages)
  BY <1>1, TopologicalOrderRight DEF Stages
<1>3. Stages[o] \in Seq(StageType)
  BY <1>2 DEF InOrder
<1> QED
  BY <1>2, <1>3

\* _build_stage_specs: recipe stages with what is left of their dependencies, then
\* packaging, which depends on the terminal ones.
LEMMA SpecsRight ==
  ASSUME NEW o \in DOMAIN Orders
  PROVE  /\ LastStage(o) \in Nat
         /\ \A k \in DOMAIN StageSpecs[o] :
              k \in 1 .. LastStage(o) /\ StageSpecs[o][k] \in SpecType
         /\ \A k \in Kept(o) :
              /\ k \in DOMAIN Stages[o] /\ k \in DOMAIN StageSpecs[o]
              /\ StageSpecs[o][k].id = Stages[o][k].id
              /\ StageSpecs[o][k].id # "pkg"
              /\ StageSpecs[o][k].deps = Stages[o][k].deps \cap KeptIds(o)
         /\ \A k \in DOMAIN StageSpecs[o] \ Kept(o) :
              /\ k > Len(Stages[o])
              /\ StageSpecs[o][k].id = "pkg" /\ StageSpecs[o][k].deps = Terminal(o)
<1> DEFINE n == Len(Stages[o])
           slice == n + 1 .. LastStage(o)
           specs == StageSpecs[o]
           Of(k) == Orders[o].slices[k - n]
<1>1. /\ Orders[o].quantity \in Nat \ {0}
      /\ Orders[o].slices \in Seq(SliceType)
  BY SchedulerAssumption DEF SliceType
<1>a. PICK slices : slices = Orders[o].slices
  OBVIOUS
<1>b. Len(slices) \in Nat /\ \A k \in 1 .. Len(slices) :
        slices[k] \in SliceType
  BY <1>1, <1>a
<1>2. n \in Nat /\ DOMAIN Stages[o] = 1 .. n /\ LastStage(o) = n + Len(slices)
      /\ LastStage(o) \in Nat
  <2>1. n \in Nat /\ DOMAIN Stages[o] = 1 .. n
    BY StagesRight
  <2>2. LastStage(o) = n + Len(slices)
    BY <1>a DEF LastStage
  <2> HIDE DEF n
  <2> QED
    BY <1>b, <2>1, <2>2
<1> HIDE DEF n
<1>3. specs = SpecsOf(o)
  BY DEF StageSpecs
<1>4. DOMAIN specs = Kept(o) \cup slice
  BY <1>3 DEF SpecsOf, n
<1>5. Kept(o) \subseteq 1 .. n
  BY <1>2 DEF Kept
<1>6. KeptIds(o) \subseteq STRING /\ Terminal(o) \subseteq STRING
  <2>1. \A k \in Kept(o) : Stages[o][k].id \in STRING
    BY <1>2, <1>5, StagesRight DEF StageType
  <2> QED
    BY <2>1 DEF KeptIds, Terminal
<1>7. ASSUME NEW k \in Kept(o)
      PROVE  /\ specs[k] = [id |-> Stages[o][k].id, group |-> Stages[o][k].group, items |-> 1,
                            deps |-> Stages[o][k].deps \cap KeptIds(o),
                            quantity |-> Orders[o].quantity]
             /\ specs[k] \in SpecType /\ specs[k].id # "pkg"
  <2>1. k \notin slice
    BY <1>2, <1>5
  <2>2. specs[k] = [id |-> Stages[o][k].id, group |-> Stages[o][k].group, items |-> 1,
                    deps |-> Stages[o][k].deps \cap KeptIds(o),
                    quantity |-> Orders[o].quantity]
    BY <1>3, <2>1 DEF SpecsOf, n
  <2>3. Stages[o][k] \in StageType
    BY <1>2, <1>5, StagesRight
  <2>4. /\ Stages[o][k].id \in STRING \ {"pkg"} /\ Stages[o][k].group \in STRING
        /\ Stages[o][k].deps \subseteq STRING
    BY <2>3 DEF StageType
  <2> HIDE DEF specs
  <2> QED
    BY <1>1, <1>6, <2>2, <2>4 DEF SpecType
<1>8. ASSUME NEW k \in slice
      PROVE  specs[k] \in SpecType /\ specs[k].id = "pkg" /\ specs[k].deps = Terminal(o)
  <2>1. specs[k] = [id |-> "pkg", group |-> Of(k).group, items |-> Of(k).items,
                    deps |-> Terminal(o), quantity |-> Of(k).quantity]
    BY <1>3 DEF SpecsOf, n
  <2>2. k - n \in 1 .. Len(slices)
    BY <1>b, <1>2
  <2>3. Of(k) \in SliceType
    BY <1>a, <1>b, <2>2
  <2>4. PICK p : p = Of(k)
    OBVIOUS
  <2> HIDE DEF specs, Of, slice
  <2>5. /\ p.group \in STRING /\ p.items \in Nat \ {0} /\ p.quantity \in Nat \ {0}
    BY <2>3, <2>4 DEF SliceType
  <2>6. specs[k] = [id |-> "pkg", group |-> p.group, items |-> p.items,
                    deps |-> Terminal(o), quantity |-> p.quantity]
    BY <2>1, <2>4
  <2>7. specs[k] \in SpecType /\ specs[k].id = "pkg" /\ specs[k].deps = Terminal(o)
    <3>1. "pkg" \in STRING \cup {"pkg"} /\ Terminal(o) \in SUBSET STRING
      BY <1>6
    <3>2. specs[k].id = "pkg" /\ specs[k].deps = Terminal(o)
      BY <2>6
    <3>3. [id |-> "pkg", group |-> p.group, items |-> p.items,
           deps |-> Terminal(o), quantity |-> p.quantity] \in SpecType
      BY <2>5, <3>1 DEF SpecType
    <3> QED
      BY <2>6, <3>2, <3>3
  <2> QED
    BY <2>7
<1> HIDE DEF specs
<1>9. \A k \in DOMAIN specs \ Kept(o) : k \in slice
  BY <1>4
<1>10. \A k \in slice : k > n /\ k \in 1 .. LastStage(o)
  BY <1>2
<1>11. \A k \in Kept(o) : k \in 1 .. LastStage(o)
  BY <1>1, <1>2, <1>5
<1>12. \A k \in Kept(o) : /\ k \in DOMAIN Stages[o] /\ k \in DOMAIN specs
                          /\ specs[k].id = Stages[o][k].id /\ specs[k].id # "pkg"
                          /\ specs[k].deps = Stages[o][k].deps \cap KeptIds(o)
  BY <1>2, <1>4, <1>5, <1>7
<1>13. \A k \in DOMAIN specs \ Kept(o) :
         k > n /\ specs[k].id = "pkg" /\ specs[k].deps = Terminal(o)
  <2> HIDE DEF slice, Of
  <2> QED
    BY <1>8, <1>9, <1>10
<1>14. \A k \in DOMAIN specs : k \in 1 .. LastStage(o) /\ specs[k] \in SpecType
  BY <1>4, <1>7, <1>8, <1>10, <1>11
<1> QED
  BY <1>2, <1>12, <1>13, <1>14 DEF specs, n
-----------------------------------------------------------------------------
(***************************************************************************)
(* Candidates.                                                             *)
(***************************************************************************)
MachineType == [group : STRING, from : Nat, to : Nat, changeover : Nat, rate : Nat,
                last : Int, dual : BOOLEAN, max_job : Nat \cup {None},
                above_mg : Int \cup {None}]

\* The rows of the Capacity Engine board.
LEMMA MachinesRight ==
  /\ IsFiniteSet(Rows) /\ Rows \subseteq Nat
  /\ \A i \in Rows : Machines[i] \in MachineType /\ IsMachine(Machines[i])
<1>1. Machines \in Seq(MachineType)
  BY SchedulerAssumption DEF MachineType
<1>2. Rows = 1 .. Len(Machines) /\ Len(Machines) \in Nat
  BY <1>1 DEF Rows
<1>3. ASSUME NEW i \in Rows PROVE Machines[i] \in MachineType
  BY <1>1, <1>2
<1>4. ASSUME NEW i \in Rows PROVE IsMachine(Machines[i])
  BY <1>3 DEF MachineType, IsMachine
<1> QED
  BY <1>2, <1>3, <1>4, FS_Interval

\* eligible_machines: the machines that must run the order, or else all that
\* may.
LEMMA EligibleRight ==
  ASSUME NEW o \in DOMAIN Orders, NEW group
  PROVE  /\ Eligible(o, group) \subseteq {i \in Rows : MayRun(i, o, group)}
         /\ IsFiniteSet(Eligible(o, group))
         /\ \A i \in Eligible(o, group) :
              /\ Machines[i].rate \in Nat \ {0}
              /\ (\E j \in Rows : MustRun(j, o, group)) => MustRun(i, o, group)
              /\ \A j \in Rows : MayRun(j, o, group)
                                   /\ (MustRun(i, o, group) => MustRun(j, o, group))
                   => j \in Eligible(o, group)
<1> DEFINE may == {i \in Rows : MayRun(i, o, group)}
           must == {i \in Rows : MustRun(i, o, group)}
<1>1. Orders[o].dual \in BOOLEAN
  BY SchedulerAssumption
<1>2. ASSUME NEW i \in Rows
      PROVE  MayRun(i, o, group) <=>
               /\ Machines[i].group = group /\ Available(i)
               /\ Machines[i].dual = Orders[o].dual
               /\ Orders[o].dual \/ FitsSize(i, o)
  BY DEF MayRun, Available
<1>3. Eligible(o, group) = IF must # {} THEN must ELSE may
  BY <1>2 DEF Eligible, MustRun
<1>4. must \subseteq may
  BY DEF MustRun
<1>5. ASSUME NEW i \in may PROVE Machines[i].rate \in Nat \ {0}
  <2>1. Machines[i].rate \in Nat /\ Machines[i].rate > 0
    BY MachinesRight DEF MayRun, MachineType
  <2> QED
    BY <2>1
<1> HIDE DEF may, must
<1>6. Eligible(o, group) \subseteq may
  BY <1>3, <1>4
<1>7. may \subseteq Rows
  BY DEF may
<1>8. IsFiniteSet(Eligible(o, group))
  BY <1>6, <1>7, MachinesRight, FS_Subset
<1>9. ASSUME NEW i \in Eligible(o, group)
      PROVE  /\ (\E j \in Rows : MustRun(j, o, group)) => MustRun(i, o, group)
             /\ \A j \in Rows : MayRun(j, o, group)
                                  /\ (MustRun(i, o, group) => MustRun(j, o, group))
                  => j \in Eligible(o, group)
  BY <1>3 DEF may, must
<1> QED
  BY <1>5, <1>6, <1>8, <1>9 DEF may

\* The order of routing has no ties.
LEMMA PreferredIsOrder ==
  ASSUME NEW o \in DOMAIN Orders, NEW group
  PROVE  LET S == Eligible(o, group) IN
         /\ \A i \in S : ~Preferred(o, i, i)
         /\ \A i, j \in S : i # j => Preferred(o, i, j) \/ Preferred(o, j, i)
         /\ \A i, j, k \in S : Preferred(o, i, j) /\ Preferred(o, j, k) => Preferred(o, i, k)
<1> DEFINE S == Eligible(o, group)
           ByName == Orders[o].dual \/ \E j \in Rows : MustRun(j, o, group)
<1>1. S \subseteq Rows /\ S \subseteq Nat
  BY EligibleRight, MachinesRight
<1>2. \A i \in S : Machines[i].last \in Int
  BY <1>1, MachinesRight DEF MachineType
<1>3. ASSUME NEW i \in S
      PROVE  (Orders[o].dual \/ Forced(i, o)) <=> ByName
  <2>1. MayRun(i, o, group) /\ i \in Rows
    BY EligibleRight
  <2>2. ByName => Orders[o].dual \/ MustRun(i, o, group)
    BY EligibleRight
  <2> QED
    BY <2>1, <2>2 DEF MustRun
<1> HIDE DEF S, ByName
<1>4. CASE ByName
  <2>1. \A i, j \in S : Preferred(o, i, j) <=> i < j
    BY <1>3, <1>4 DEF Preferred
  <2> QED
    BY <1>1, <2>1 DEF S
<1>5. CASE ~ByName
  <2> DEFINE Small(i) == Machines[i].max_job # None
             Idle(i) == Machines[i].last
  <2>1. ASSUME NEW i \in S, NEW j \in S
        PROVE  Preferred(o, i, j) <=>
                 \/ Small(i) /\ ~Small(j)
                 \/ /\ Small(i) <=> Small(j)
                    /\ Idle(i) < Idle(j) \/ (Idle(i) = Idle(j) /\ i < j)
    BY <1>3, <1>5 DEF Preferred, RoundRobin
  <2>2. \A i \in S : Idle(i) \in Int
    BY <1>2
  <2> HIDE DEF Small, Idle
  <2> QED
    BY <1>1, <2>1, <2>2 DEF S
<1> QED
  BY <1>4, <1>5
-----------------------------------------------------------------------------
(***************************************************************************)
(* Starts.                                                                 *)
(***************************************************************************)
ChunkType == [stage : Nat, machine : Rows, quantity : Nat \ {0}, start : Nat, end : Nat]

\* The board and the plan so far.
Board == slots \subseteq SlotType /\ IsFiniteSet(slots) /\ clock \in Nat
IsPlan(plan) == plan \subseteq ChunkType /\ IsFiniteSet(plan)

\* t is late enough for a stage that waits until `allowed', on machine i.
Late(t, i, plan, allowed) ==
  /\ t >= clock /\ t >= allowed
  /\ \A s \in slots : s.machine = i /\ Active(s) => t >= s.end + Machines[i].changeover
  /\ \A c \in plan : c.machine = i => t >= c.end + Machines[i].changeover

\* The image of a finite set is finite.
LEMMA ImageFinite ==
  ASSUME NEW S, IsFiniteSet(S), NEW f
  PROVE  IsFiniteSet({f[x] : x \in S})
<1> DEFINE T == {f[x] : x \in S}
           g == [x \in S |-> f[x]]
<1>1. g \in Surjection(S, T)
  BY DEF Surjection
<1>2. IsFiniteSet(T)
  <2> HIDE DEF g, T
  <2> QED
    BY <1>1, FS_Surjection
<1> QED
  BY <1>2

\* Rounded up, a quantity of zero or more takes zero or more steps.
LEMMA CeilingRight ==
  ASSUME NEW q \in Nat, NEW r \in Nat \ {0}
  PROVE  (q + r - 1) \div r \in Nat
  OBVIOUS

\* _duration_hours of a machine that works.
LEMMA DurationRight ==
  ASSUME NEW i \in Rows, Machines[i].rate \in Nat \ {0}, NEW spec \in SpecType, NEW q \in Nat
  PROVE  Duration(i, spec, q) \in Nat
<1>1. Machines[i].rate * spec.items \in Nat \ {0}
  <2>1. PICK r, n : r = Machines[i].rate /\ n = spec.items
    OBVIOUS
  <2>2. r \in Nat \ {0} /\ n \in Nat \ {0}
    BY <2>1 DEF SpecType
  <2>3. r * n \in Nat \ {0}
    BY <2>2
  <2> QED
    BY <2>1, <2>3
<1>2. \A r \in Nat \ {0} : (q + r - 1) \div r \in Nat
  BY CeilingRight
<1> QED
  BY <1>1, <1>2 DEF Duration

\* A start is the first instant that is late enough and fits.
LEMMA StartRight ==
  ASSUME Board, NEW i \in Rows, Machines[i].rate \in Nat \ {0}, NEW spec \in SpecType,
         NEW q \in Nat, NEW plan, IsPlan(plan), NEW allowed \in Nat
  PROVE  LET t == Start(i, spec, q, plan, allowed)
             d == Duration(i, spec, q)
             m == Machines[i] IN
         /\ t \in Nat /\ d \in Nat /\ Late(t, i, plan, allowed)
         /\ m.from < m.to /\ ~Unplaceable(m) => Fits(m, d, t)
         /\ \A u \in Nat : Late(u, i, plan, allowed) /\ Fits(m, d, u) => t <= u
<1> DEFINE m == Machines[i]
           d == Duration(i, spec, q)
           there == {s \in slots : s.machine = i /\ Active(s)} \cup {c \in plan : c.machine = i}
           tails == {e + m.changeover : e \in Ends(i, plan)}
           floor == {clock, allowed} \cup tails
           t == Start(i, spec, q, plan, allowed)
<1>1. m.changeover \in Nat /\ IsMachine(m)
  BY MachinesRight DEF MachineType
<1>2. d \in Nat
  BY DurationRight
<1>3. clock \in Nat /\ slots \subseteq SlotType /\ plan \subseteq ChunkType
  BY DEF Board, IsPlan
<1>4. \A s \in there : s.end \in Nat
  BY <1>3 DEF SlotType, ChunkType
<1>5. IsFiniteSet(there)
  <2>1. IsFiniteSet({s \in slots : s.machine = i /\ Active(s)})
    BY FS_Subset DEF Board
  <2>2. IsFiniteSet({c \in plan : c.machine = i})
    BY FS_Subset DEF IsPlan
  <2> QED
    BY <2>1, <2>2, FS_Union
<1>6. tails = {s.end + m.changeover : s \in there}
  BY DEF Ends
<1> HIDE DEF m, there, tails
<1>7. tails \subseteq Nat /\ IsFiniteSet(tails)
  <2> DEFINE f == [s \in there |-> s.end + m.changeover]
  <2>1. tails = {f[s] : s \in there}
    BY <1>6
  <2> HIDE DEF f
  <2>2. IsFiniteSet(tails)
    BY <1>5, <2>1, ImageFinite
  <2> QED
    BY <1>1, <1>4, <1>6, <2>2
<1>8. floor \in SUBSET Nat /\ floor # {} /\ IsFiniteSet(floor)
  <2>1. IsFiniteSet({clock, allowed})
    <3>1. IsFiniteSet({clock} \cup {allowed})
      BY FS_Singleton, FS_AddElement
    <3>2. {clock, allowed} = {clock} \cup {allowed}
      OBVIOUS
    <3> QED
      BY <3>1, <3>2
  <2>2. IsFiniteSet(floor)
    BY <1>7, <2>1, FS_Union
  <2> QED
    BY <1>3, <1>7, <2>2
<1>9. t = EarliestFrom(m, d, Max(floor))
  BY DEF Start, FindEarliestStart, m, tails
<1> HIDE DEF floor, d, t
<1>10. Max(floor) \in floor /\ \A y \in floor : y <= Max(floor)
  BY <1>8, GreatestOf
<1>11. ASSUME NEW u \in Nat
       PROVE  Max(floor) <= u <=> \A y \in floor : y <= u
  <2>1. PICK max : max = Max(floor)
    OBVIOUS
  <2>2. max \in Nat /\ \A y \in floor : y \in Nat /\ y <= max
    BY <1>8, <1>10, <2>1
  <2>3. max \in floor
    BY <1>10, <2>1
  <2> QED
    BY <2>1, <2>2, <2>3
<1>12. ASSUME NEW u \in Nat
       PROVE  Late(u, i, plan, allowed) <=> Max(floor) <= u
  <2>1. (\A y \in floor : y <= u) <=>
          /\ clock <= u /\ allowed <= u
          /\ \A s \in there : s.end + m.changeover <= u
    BY <1>6 DEF floor
  <2>2. (\A s \in there : s.end + m.changeover <= u) <=>
          /\ \A s \in slots : s.machine = i /\ Active(s) => s.end + m.changeover <= u
          /\ \A c \in plan : c.machine = i => c.end + m.changeover <= u
    BY DEF there
  <2>3. Late(u, i, plan, allowed) <=>
          /\ clock <= u /\ allowed <= u
          /\ \A s \in slots : s.machine = i /\ Active(s) => s.end + m.changeover <= u
          /\ \A c \in plan : c.machine = i => c.end + m.changeover <= u
    BY DEF Late, m
  <2> QED
    BY <1>11, <2>1, <2>2, <2>3
<1>13. Max(floor) \in Nat
  BY <1>8, <1>10
<1>14. /\ t \in Nat /\ Max(floor) <= t
       /\ m.from < m.to /\ ~Unplaceable(m) => Fits(m, d, t)
       /\ \A u \in Nat : Max(floor) <= u /\ Fits(m, d, u) => t <= u
  BY <1>1, <1>2, <1>9, <1>13, EarliestIsFirst
<1> QED
  BY <1>2, <1>12, <1>14 DEF m, d, t
-----------------------------------------------------------------------------
(***************************************************************************)
(* The chunks of a stage.                                                  *)
(***************************************************************************)
LEMMA AllowedRight ==
  ASSUME Board, NEW plan, IsPlan(plan), NEW spec, NEW specs
  PROVE  LET a == Allowed(spec, specs, plan) IN
         /\ a \in Nat
         /\ \A u \in Nat : a <= u <=>
              /\ clock <= u
              /\ \A c \in plan : specs[c.stage].id \in spec.deps => c.end <= u
<1> DEFINE before == {c \in plan : specs[c.stage].id \in spec.deps}
           ends == {c.end : c \in before}
           floor == {clock} \cup ends
<1>1. clock \in Nat /\ before \subseteq ChunkType
  BY DEF Board, IsPlan
<1>2. IsFiniteSet(before)
  BY FS_Subset DEF IsPlan
<1> HIDE DEF before
<1>3. ends \subseteq Nat /\ IsFiniteSet(ends)
  <2> DEFINE f == [c \in before |-> c.end]
  <2>1. ends = {f[c] : c \in before}
    OBVIOUS
  <2>2. \A c \in before : c.end \in Nat
    BY <1>1 DEF ChunkType
  <2>3. ends \subseteq Nat
    BY <2>2
  <2> HIDE DEF f, ends
  <2>4. IsFiniteSet(ends)
    BY <1>2, <2>1, ImageFinite
  <2> QED
    BY <2>3, <2>4
<1>4. floor \in SUBSET Nat /\ floor # {} /\ IsFiniteSet(floor)
  <2> HIDE DEF ends
  <2>1. IsFiniteSet(floor)
    BY <1>3, FS_Singleton, FS_Union
  <2> QED
    BY <1>1, <1>3, <2>1
<1>5. PICK a : a = Max(floor)
  OBVIOUS
<1>6. a \in Nat /\ a \in floor /\ \A y \in floor : y \in Nat /\ y <= a
  <2> HIDE DEF floor
  <2> QED
    BY <1>4, <1>5, GreatestOf
<1>7. a = Allowed(spec, specs, plan)
  BY <1>5 DEF Allowed, before
<1>8. ASSUME NEW u \in Nat
      PROVE  a <= u <=> clock <= u /\ \A c \in before : c.end <= u
  <2>1. a <= u <=> \A y \in floor : y <= u
    <3> HIDE DEF floor
    <3> QED
      BY <1>6
  <2>2. (\A y \in floor : y <= u) <=> clock <= u /\ \A c \in before : c.end <= u
    OBVIOUS
  <2> QED
    BY <2>1, <2>2
<1> QED
  BY <1>6, <1>7, <1>8 DEF before

Splits(k, o) ==
  /\ StageSpecs[o][k].group \in Packaging
  /\ Cardinality(Eligible(o, StageSpecs[o][k].group)) >= 2
  /\ StageSpecs[o][k].quantity >= SplitMin

\* A chunk of stage k, planned after `plan', on a machine that is eligible ...
IsChunk(c, k, o, plan) ==
  LET spec == StageSpecs[o][k] IN
  /\ c.machine \in Eligible(o, spec.group) /\ c.quantity \in Nat \ {0}
  /\ c = Chunk(k, c.machine, spec, c.quantity, plan, Allowed(spec, StageSpecs[o], plan))

\* ... and, unless the stage is split, can start it first.
IsFirst(c, k, o, plan) ==
  LET spec == StageSpecs[o][k]
      Whole(i) == Start(i, spec, spec.quantity, plan, Allowed(spec, StageSpecs[o], plan)) IN
  /\ c.quantity = spec.quantity
  /\ \A i \in Eligible(o, spec.group) : Whole(c.machine) <= Whole(i)

AreChunks(D, k, o, plan) ==
  /\ IsFiniteSet(D) /\ D # {}
  /\ \A c \in D : IsChunk(c, k, o, plan) /\ (Splits(k, o) \/ IsFirst(c, k, o, plan))
  /\ \A c, d \in D : c.machine = d.machine => c = d

\* The fields of a chunk.
LEMMA ChunkRight ==
  ASSUME NEW k, NEW i, NEW spec, NEW q, NEW plan, NEW allowed, NEW c,
         c = Chunk(k, i, spec, q, plan, allowed)
  PROVE  /\ c.stage = k /\ c.machine = i /\ c.quantity = q
         /\ c.start = Start(i, spec, q, plan, allowed)
         /\ c.end = c.start + Duration(i, spec, q)
  BY DEF Chunk

\* _place_on_single_machine takes the one that can start first.
LEMMA SingleRight ==
  ASSUME Board, NEW o \in DOMAIN Orders, NEW k \in DOMAIN StageSpecs[o],
         NEW plan, IsPlan(plan), Eligible(o, StageSpecs[o][k].group) # {}, ~Splits(k, o)
  PROVE  AreChunks(ChunksOf(k, StageSpecs[o], o, plan), k, o, plan)
<1> DEFINE spec == StageSpecs[o][k]
           S == Eligible(o, spec.group)
           allowed == Allowed(spec, StageSpecs[o], plan)
           Whole(i) == Start(i, spec, spec.quantity, plan, allowed)
           R == {p \in S \X S : \/ Whole(p[1]) < Whole(p[2])
                                \/ Whole(p[1]) = Whole(p[2]) /\ Preferred(o, p[1], p[2])}
           D == SingleChunk(k, o, spec, S, plan, allowed)
<1>1. ChunksOf(k, StageSpecs[o], o, plan) = D
  BY DEF ChunksOf, Splits
<1>2. spec \in SpecType /\ spec.quantity \in Nat \ {0}
  BY SpecsRight DEF SpecType
<1>3. allowed \in Nat
  BY AllowedRight
<1>4. S \subseteq Rows /\ IsFiniteSet(S) /\ \A i \in S : Machines[i].rate \in Nat \ {0}
  BY EligibleRight
<1>5. ASSUME NEW i \in S PROVE Whole(i) \in Nat
  <2> HIDE DEF spec, S, allowed
  <2> QED
    BY <1>2, <1>3, <1>4, StartRight
<1>6. /\ \A i \in S : ~Preferred(o, i, i)
      /\ \A i, j \in S : i # j => Preferred(o, i, j) \/ Preferred(o, j, i)
      /\ \A i, j, l \in S : Preferred(o, i, j) /\ Preferred(o, j, l) => Preferred(o, i, l)
  BY PreferredIsOrder
<1>7. \A i, j \in S : <<i, j>> \in R <=>
        Whole(i) < Whole(j) \/ (Whole(i) = Whole(j) /\ Preferred(o, i, j))
  OBVIOUS
<1>8. S # {}
  OBVIOUS
<1> HIDE DEF S, R, Whole
<1>9. IsOrder(R, S)
  BY <1>5, <1>6, <1>7 DEF IsOrder
<1>10. \E i \in S : \A j \in S \ {i} :
         Whole(i) < Whole(j) \/ (Whole(i) = Whole(j) /\ Preferred(o, i, j))
  <2>1. PICK i \in S : \A j \in S \ {i} : <<i, j>> \in R
    BY <1>4, <1>8, <1>9, BestOf
  <2>2. \A j \in S \ {i} :
          Whole(i) < Whole(j) \/ (Whole(i) = Whole(j) /\ Preferred(o, i, j))
    BY <1>7, <2>1
  <2> QED
    BY <2>2
<1>11. PICK best : best = CHOOSE i \in S : \A j \in S \ {i} :
                     Whole(i) < Whole(j) \/ (Whole(i) = Whole(j) /\ Preferred(o, i, j))
  OBVIOUS
<1>12. best \in S /\ \A j \in S \ {best} :
         Whole(best) < Whole(j) \/ (Whole(best) = Whole(j) /\ Preferred(o, best, j))
  BY <1>10, <1>11, Zenon
<1>13. \A j \in S : Whole(best) <= Whole(j)
  BY <1>5, <1>12
<1>14. PICK c : c = Chunk(k, best, spec, spec.quantity, plan, allowed)
  OBVIOUS
<1>15. D = {c}
  BY <1>11, <1>14 DEF SingleChunk, Whole
<1>16. c.machine = best /\ c.quantity = spec.quantity
  BY <1>14, ChunkRight
<1>17. IsChunk(c, k, o, plan)
  BY <1>2, <1>12, <1>14, <1>16 DEF IsChunk, S
<1>18. IsFirst(c, k, o, plan)
  BY <1>13, <1>16 DEF IsFirst, Whole, S
<1>19. IsFiniteSet({c}) /\ {c} # {}
  BY FS_Singleton
<1> QED
  BY <1>1, <1>15, <1>17, <1>18, <1>19 DEF AreChunks

\* _split_stage_across_machines gives each machine it chooses one chunk at most, and
\* someone something.
LEMMA SplitRight ==
  ASSUME Board, NEW o \in DOMAIN Orders, NEW k \in DOMAIN StageSpecs[o],
         NEW plan, IsPlan(plan), Eligible(o, StageSpecs[o][k].group) # {}, Splits(k, o)
  PROVE  AreChunks(ChunksOf(k, StageSpecs[o], o, plan), k, o, plan)
<1> DEFINE spec == StageSpecs[o][k]
           S == Eligible(o, spec.group)
           allowed == Allowed(spec, StageSpecs[o], plan)
           Whole(i) == Start(i, spec, spec.quantity, plan, allowed)
           Sooner(i, j) == Whole(i) < Whole(j) \/ (Whole(i) = Whole(j) /\ i < j)
           R == {p \in S \X S : Sooner(p[1], p[2])}
           n == Min({Cardinality(S), SplitMax})
           Rank(i) == Cardinality({j \in S : Sooner(j, i)}) + 1
           chosen == [r \in 1 .. n |-> CHOOSE i \in S : Rank(i) = r]
           rates == [r \in 1 .. n |-> Machines[chosen[r]].rate]
           share == Shares(spec.quantity, rates)
           D == SplitChunks(k, spec, S, plan, allowed)
<1>1. ChunksOf(k, StageSpecs[o], o, plan) = D
  BY DEF ChunksOf, Splits
<1>2. spec \in SpecType /\ spec.quantity \in Nat \ {0}
  BY SpecsRight DEF SpecType
<1>3. allowed \in Nat
  BY AllowedRight
<1>4. /\ S \subseteq Rows /\ S \subseteq Nat /\ IsFiniteSet(S)
      /\ \A i \in S : Machines[i].rate \in Nat \ {0}
  BY EligibleRight, MachinesRight
<1>5. ASSUME NEW i \in S PROVE Whole(i) \in Nat
  <2> HIDE DEF spec, S, allowed
  <2> QED
    BY <1>2, <1>3, <1>4, StartRight
<1>6. \A i, j \in S : <<i, j>> \in R <=> Sooner(i, j)
  OBVIOUS
<1>7. S # {}
  OBVIOUS
<1>8. D = {Chunk(k, chosen[r], spec, share[r], plan, allowed) : r \in Used(share)}
  BY DEF SplitChunks
<1> HIDE DEF S, Whole
<1>9. IsOrder(R, S)
  <2> HIDE DEF R
  <2> QED
    BY <1>4, <1>5, <1>6 DEF IsOrder
<1>10. ASSUME NEW i \in S PROVE Rank(i) = RankIn(i, R, S)
  <2>1. {j \in S : Sooner(j, i)} = {j \in S : <<j, i>> \in R}
    BY <1>6
  <2> QED
    BY <2>1 DEF RankIn
<1>11. Cardinality(S) \in Nat \ {0}
  BY <1>4, <1>7, FS_CardinalityType, FS_EmptySet
<1>12. n \in Nat \ {0} /\ n <= Cardinality(S)
  <2>1. {Cardinality(S), SplitMax} \in SUBSET Nat /\ 0 \notin {Cardinality(S), SplitMax}
    BY <1>11, SchedulerAssumption
  <2> QED
    BY <2>1, LeastOf
<1> HIDE DEF R, Rank, n
<1>13. ASSUME NEW r \in 1 .. n
       PROVE  chosen[r] \in S /\ Rank(chosen[r]) = r
  <2>1. r \in 1 .. Cardinality(S)
    BY <1>11, <1>12
  <2>2. \E i \in S : RankIn(i, R, S) = r
    BY <1>4, <1>9, <2>1, Ranks
  <2>3. \E i \in S : Rank(i) = r
    BY <1>10, <2>2
  <2> QED
    BY <2>3
<1>14. DOMAIN chosen = 1 .. n
  OBVIOUS
<1> HIDE DEF chosen
<1>15. rates \in Seq(Nat \ {0}) /\ Len(rates) = n /\ DOMAIN rates = 1 .. n
  <2>1. \A r \in 1 .. n : Machines[chosen[r]].rate \in Nat \ {0}
    BY <1>4, <1>13
  <2>2. rates \in [1 .. n -> Nat \ {0}]
    BY <2>1
  <2> HIDE DEF rates
  <2> QED
    BY <1>12, <2>2
<1> HIDE DEF rates
<1>16. share \in [1 .. n -> Int] /\ \E r \in 1 .. n : share[r] > 0
  <2>1. PICK q : q = spec.quantity
    OBVIOUS
  <2>2. q \in Nat \ {0} /\ Len(rates) > 0 /\ share = Shares(q, rates)
    BY <1>2, <1>12, <1>15, <2>1
  <2> HIDE DEF share
  <2> QED
    BY <1>15, <2>2, SharesRight
<1> HIDE DEF share
<1> DEFINE U == Used(share)
           Of(r) == Chunk(k, chosen[r], spec, share[r], plan, allowed)
<1>17. U \subseteq 1 .. n /\ \A r \in U : share[r] \in Nat \ {0}
  BY <1>16 DEF Used
<1>18. IsFiniteSet(D)
  <2>1. IsFiniteSet(U)
    BY <1>12, <1>17, FS_Interval, FS_Subset
  <2> DEFINE f == [r \in U |-> Of(r)]
  <2>2. D = {f[r] : r \in U}
    BY <1>8
  <2> HIDE DEF f, U, D
  <2> QED
    BY <2>1, <2>2, ImageFinite
<1>19. ASSUME NEW c \in D
       PROVE  IsChunk(c, k, o, plan) /\ \E r \in U : c = Of(r) /\ c.machine = chosen[r]
  <2>1. PICK r \in U : c = Of(r)
    BY <1>8
  <2>2. c.machine = chosen[r] /\ c.quantity = share[r]
    BY <2>1, ChunkRight
  <2>3. chosen[r] \in S /\ share[r] \in Nat \ {0}
    BY <1>13, <1>17
  <2> QED
    BY <2>1, <2>2, <2>3 DEF IsChunk, S
<1>20. ASSUME NEW c \in D, NEW d \in D, c.machine = d.machine PROVE c = d
  <2>1. PICK r \in U : c = Of(r) /\ c.machine = chosen[r]
    BY <1>19
  <2>2. PICK s \in U : d = Of(s) /\ d.machine = chosen[s]
    BY <1>19
  <2>3. r = s
    BY <1>13, <1>17, <1>20, <2>1, <2>2
  <2> QED
    BY <2>1, <2>2, <2>3
<1>21. D # {}
  <2>1. PICK r \in 1 .. n : share[r] > 0
    BY <1>16
  <2>2. r \in U
    BY <1>16, <2>1 DEF Used
  <2> QED
    BY <1>8, <2>2
<1> HIDE DEF D, U, Of
<1> QED
  BY <1>1, <1>18, <1>19, <1>20, <1>21 DEF AreChunks
-----------------------------------------------------------------------------
(***************************************************************************)
(* Plans.                                                                  *)
(***************************************************************************)
HasMachines(o) == \A k \in DOMAIN StageSpecs[o] : Eligible(o, StageSpecs[o][k].group) # {}

Before(P, k) == {c \in P : c.stage < k}

\* A plan of the stages up to k: every chunk is what its stage makes of those
\* of the stages before it.
IsPlanOf(P, o, k) ==
  /\ IsPlan(P)
  /\ \A c \in P :
       /\ c.stage \in 1 .. k /\ c.stage \in DOMAIN StageSpecs[o]
       /\ IsChunk(c, c.stage, o, Before(P, c.stage))
       /\ Splits(c.stage, o) \/ IsFirst(c, c.stage, o, Before(P, c.stage))
  /\ \A c, d \in P : c.stage = d.stage /\ c.machine = d.machine => c = d
  /\ \A j \in DOMAIN StageSpecs[o] : j \in 1 .. k => \E c \in P : c.stage = j

\* A chunk of a stage has the type, and the number, that it should.
LEMMA ChunkTyped ==
  ASSUME Board, NEW o \in DOMAIN Orders, NEW k \in DOMAIN StageSpecs[o],
         NEW plan, IsPlan(plan), NEW c, IsChunk(c, k, o, plan)
  PROVE  c \in ChunkType /\ c.stage = k
<1> DEFINE spec == StageSpecs[o][k]
           allowed == Allowed(spec, StageSpecs[o], plan)
<1>1. spec \in SpecType /\ k \in Nat
  BY SpecsRight
<1>2. allowed \in Nat
  BY AllowedRight
<1>3. PICK i, q : /\ i \in Eligible(o, spec.group) /\ q \in Nat \ {0}
                  /\ c = Chunk(k, i, spec, q, plan, allowed)
  BY DEF IsChunk
<1>4. i \in Rows /\ Machines[i].rate \in Nat \ {0}
  BY <1>3, EligibleRight
<1>5. PICK t, d : t = Start(i, spec, q, plan, allowed) /\ d = Duration(i, spec, q)
  OBVIOUS
<1> HIDE DEF spec, allowed
<1>6. t \in Nat /\ d \in Nat
  BY <1>1, <1>2, <1>3, <1>4, <1>5, StartRight
<1>7. c = [stage |-> k, machine |-> i, quantity |-> q, start |-> t, end |-> t + d]
  BY <1>3, <1>5 DEF Chunk
<1>8. t + d \in Nat
  BY <1>6
<1> QED
  BY <1>1, <1>3, <1>4, <1>6, <1>7, <1>8 DEF ChunkType

\* Split or not, a stage with candidates gets chunks, one a machine.
LEMMA ChunksRight ==
  ASSUME Board, NEW o \in DOMAIN Orders, HasMachines(o), NEW k \in DOMAIN StageSpecs[o],
         NEW plan, IsPlan(plan)
  PROVE  /\ AreChunks(ChunksOf(k, StageSpecs[o], o, plan), k, o, plan)
         /\ ChunksOf(k, StageSpecs[o], o, plan) \subseteq ChunkType
<1>1. AreChunks(ChunksOf(k, StageSpecs[o], o, plan), k, o, plan)
  BY SingleRight, SplitRight DEF HasMachines
<1> QED
  BY <1>1, ChunkTyped DEF AreChunks

\* What a stage adds to a plan.
With(P, o, k) ==
  P \cup (IF k \in DOMAIN StageSpecs[o] THEN ChunksOf(k, StageSpecs[o], o, P) ELSE {})

\* The stages up to k - 1 and the chunks of stage k are a plan of the stages up to k.
LEMMA WithRight ==
  ASSUME Board, NEW o \in DOMAIN Orders, HasMachines(o), NEW k \in 1 .. LastStage(o),
         NEW P, IsPlanOf(P, o, k - 1)
  PROVE  IsPlanOf(With(P, o, k), o, k)
<1>0. LastStage(o) \in Nat
  BY SpecsRight
<1>1. CASE k \notin DOMAIN StageSpecs[o]
  <2>1. With(P, o, k) = P
    BY <1>1 DEF With
  <2>2. \A n \in 1 .. k - 1 : n \in 1 .. k
    BY <1>0
  <2>3. \A n \in 1 .. k : n = k \/ n \in 1 .. k - 1
    BY <1>0
  <2> QED
    BY <1>1, <2>1, <2>2, <2>3 DEF IsPlanOf
<1>2. CASE k \in DOMAIN StageSpecs[o]
  <2>1. PICK D : D = ChunksOf(k, StageSpecs[o], o, P)
    OBVIOUS
  <2>2. AreChunks(D, k, o, P) /\ D \subseteq ChunkType /\ IsPlan(P)
    BY <1>2, <2>1, ChunksRight DEF IsPlanOf
  <2>3. PICK Q : Q = P \cup D
    OBVIOUS
  <2>4. With(P, o, k) = Q
    BY <1>2, <2>1, <2>3 DEF With
  <2>5. IsPlan(Q)
    BY <2>2, <2>3, FS_Union DEF IsPlan, AreChunks
  <2>6. \A c \in D : c.stage = k
    BY <1>2, <2>2, ChunkTyped DEF AreChunks
  <2>7. \A c \in P : c.stage \in 1 .. k - 1
    BY DEF IsPlanOf
  <2>8. \A c \in P : c.stage \in 1 .. k /\ Before(Q, c.stage) = Before(P, c.stage)
    <3>1. ASSUME NEW c \in P, NEW d \in Q, d.stage < c.stage PROVE d \in P
      BY <1>0, <2>3, <2>6, <2>7, <3>1
    <3>2. \A c \in P : c.stage \in 1 .. k
      BY <1>0, <2>7
    <3> QED
      BY <2>3, <3>1, <3>2 DEF Before
  <2>9. Before(Q, k) = P
    <3>1. \A c \in P : c.stage < k
      BY <1>0, <2>7
    <3>2. \A c \in D : ~(c.stage < k)
      BY <1>0, <2>6
    <3> QED
      BY <2>3, <3>1, <3>2 DEF Before
  <2>10. ASSUME NEW c \in Q
         PROVE  /\ c.stage \in 1 .. k /\ c.stage \in DOMAIN StageSpecs[o]
                /\ IsChunk(c, c.stage, o, Before(Q, c.stage))
                /\ Splits(c.stage, o) \/ IsFirst(c, c.stage, o, Before(Q, c.stage))
    <3>1. CASE c \in P
      BY <2>8, <3>1 DEF IsPlanOf
    <3>2. CASE c \in D
      <4>1. c.stage = k /\ Before(Q, c.stage) = P /\ k \in 1 .. k
        BY <1>0, <2>6, <2>9, <3>2
      <4>2. IsChunk(c, k, o, P) /\ (Splits(k, o) \/ IsFirst(c, k, o, P))
        BY <2>2, <3>2 DEF AreChunks
      <4> QED
        BY <1>2, <4>1, <4>2
    <3> QED
      BY <2>3, <3>1, <3>2
  <2>11. ASSUME NEW c \in Q, NEW d \in Q, c.stage = d.stage, c.machine = d.machine
         PROVE  c = d
    <3>1. (c \in P /\ d \in P) \/ (c \in D /\ d \in D)
      BY <1>0, <2>3, <2>6, <2>7, <2>11
    <3> QED
      BY <2>2, <2>11, <3>1 DEF IsPlanOf, AreChunks
  <2>12. ASSUME NEW j \in DOMAIN StageSpecs[o], j \in 1 .. k
         PROVE  \E c \in Q : c.stage = j
    <3>1. CASE j = k
      <4>1. D # {}
        BY <2>2 DEF AreChunks
      <4> QED
        BY <2>3, <2>6, <3>1, <4>1
    <3>2. CASE j # k
      <4>1. j \in 1 .. k - 1
        BY <1>0, <2>12, <3>2
      <4>2. \E c \in P : c.stage = j
        BY <2>12, <4>1 DEF IsPlanOf
      <4> QED
        BY <2>3, <4>2
    <3> QED
      BY <3>1, <3>2
  <2> QED
    BY <2>4, <2>5, <2>10, <2>11, <2>12 DEF IsPlanOf
<1> QED
  BY <1>1, <1>2

\* _place_stages makes a plan of all stages.
LEMMA PlaceStagesRight ==
  ASSUME Board, NEW o \in DOMAIN Orders, HasMachines(o)
  PROVE  IsPlanOf(PlaceStages(o), o, LastStage(o))
<1> DEFINE n == LastStage(o)
           V == {P \in SUBSET ChunkType : IsFiniteSet(P)}
           G == [k \in 1 .. n |-> [P \in V |-> With(P, o, k)]]
           Def(g) == [k \in 0 .. n |-> IF k = 0 THEN {} ELSE With(g[k - 1], o, k)]
<1>1. n \in Nat /\ {} \in V
  BY SpecsRight, FS_EmptySet
<1>2. G \in [1 .. n -> [V -> V]]
  <2>1. ASSUME NEW k \in 1 .. n, NEW P \in V PROVE With(P, o, k) \in V
    <3>1. CASE k \notin DOMAIN StageSpecs[o]
      BY <3>1 DEF With
    <3>2. CASE k \in DOMAIN StageSpecs[o]
      <4>1. PICK D : D = ChunksOf(k, StageSpecs[o], o, P)
        OBVIOUS
      <4>2. IsFiniteSet(D) /\ D \subseteq ChunkType
        BY <3>2, <4>1, ChunksRight DEF AreChunks, IsPlan
      <4>3. With(P, o, k) = P \cup D
        BY <3>2, <4>1 DEF With
      <4> QED
        BY <4>2, <4>3, FS_Union
    <3> QED
      BY <3>1, <3>2
  <2> HIDE DEF V, n
  <2> QED
    BY <2>1
<1>3. PICK f : IsSolution(f, n, V, {}, G)
  <2> HIDE DEF n, V, G
  <2> QED
    BY <1>1, <1>2, Recursion DEF IsRecursion
<1>4. ASSUME NEW k \in 1 .. n PROVE f[k] = With(f[k - 1], o, k)
  <2>1. k - 1 \in 0 .. n
    BY <1>1
  <2>2. f[k - 1] \in V
    <3> HIDE DEF V, n
    <3> QED
      BY <1>3, <2>1 DEF IsSolution
  <2>3. G[k][f[k - 1]] = With(f[k - 1], o, k)
    BY <2>2
  <2> HIDE DEF G
  <2> QED
    BY <1>3, <2>3 DEF IsSolution
<1>5. f = Def(f)
  <2> HIDE DEF V, n
  <2> QED
    BY <1>1, <1>3, <1>4 DEF IsSolution
<1>6. PICK g : g = CHOOSE h : h = Def(h)
  OBVIOUS
<1>7. g = Def(g)
  <2> HIDE DEF Def
  <2> QED
    BY <1>5, <1>6
<1>8. PlaceStages(o) = g[n]
  BY <1>6 DEF PlaceStages, With
<1>9. g[0] = {} /\ \A k \in 1 .. n : g[k] = With(g[k - 1], o, k)
  <2> HIDE DEF n
  <2> QED
    BY <1>1, <1>7
<1> DEFINE W == [k \in 0 .. n |-> {P \in V : IsPlanOf(P, o, k)}]
<1>10. \A k \in 0 .. n : \A P : IsPlanOf(P, o, k) => P \in W[k]
  BY DEF IsPlanOf, IsPlan
<1>11. g[0] \in W[0]
  <2>1. IsPlanOf({}, o, 0)
    BY FS_EmptySet DEF IsPlanOf, IsPlan
  <2> HIDE DEF W, n
  <2> QED
    BY <1>1, <1>9, <1>10, <2>1
<1>12. ASSUME NEW k \in 1 .. n, g[k - 1] \in W[k - 1] PROVE g[k] \in W[k]
  <2>1. k - 1 \in 0 .. n /\ k \in 0 .. n
    BY <1>1
  <2>2. IsPlanOf(g[k - 1], o, k - 1)
    BY <1>12, <2>1
  <2>3. IsPlanOf(With(g[k - 1], o, k), o, k)
    BY <2>2, WithRight
  <2> HIDE DEF W
  <2> QED
    BY <1>9, <1>10, <2>1, <2>3
<1>13. g[n] \in W[n]
  <2> HIDE DEF W, n
  <2>1. \A k \in 0 .. n : g[k] \in W[k]
    BY <1>1, <1>11, <1>12, Stepwise
  <2> QED
    BY <1>1, <2>1
<1> QED
  BY <1>1, <1>8, <1>13
-----------------------------------------------------------------------------
(***************************************************************************)
(* What a plan says of each of its chunks.                                 *)
(***************************************************************************)
LEMMA ChunkFacts ==
  ASSUME Board, NEW o \in DOMAIN Orders, NEW n, NEW P, IsPlanOf(P, o, n), NEW c \in P
  PROVE  LET spec == StageSpecs[o][c.stage]
             before == Before(P, c.stage)
             m == Machines[c.machine]
             d == Duration(c.machine, spec, c.quantity)
             allowed == Allowed(spec, StageSpecs[o], before) IN
         /\ c.stage \in DOMAIN StageSpecs[o] /\ c.stage \in Nat
         /\ c.machine \in Eligible(o, spec.group)
         /\ c.quantity \in Nat \ {0} /\ c.start \in Nat /\ d \in Nat /\ c.end = c.start + d
         /\ Late(c.start, c.machine, before, allowed)
         /\ m.from < m.to /\ ~Unplaceable(m) => Fits(m, d, c.start)
         /\ \A u \in Nat : Late(u, c.machine, before, allowed) /\ Fits(m, d, u)
              => c.start <= u
<1> DEFINE k == c.stage
           i == c.machine
           q == c.quantity
           spec == StageSpecs[o][k]
           before == Before(P, k)
           allowed == Allowed(spec, StageSpecs[o], before)
<1>1. k \in DOMAIN StageSpecs[o] /\ k \in Nat /\ IsChunk(c, k, o, before)
  <2>1. k \in 1 .. n /\ k \in DOMAIN StageSpecs[o] /\ IsChunk(c, k, o, before)
    BY DEF IsPlanOf
  <2> QED
    BY <2>1, SpecsRight
<1>2. IsPlan(before)
  <2>1. before \subseteq P
    BY DEF Before
  <2> HIDE DEF before
  <2> QED
    BY <2>1, FS_Subset DEF IsPlanOf, IsPlan
<1>3. spec \in SpecType
  BY <1>1, SpecsRight
<1> HIDE DEF before, k
<1>4. allowed \in Nat
  BY <1>2, AllowedRight
<1>5. /\ i \in Eligible(o, spec.group) /\ q \in Nat \ {0}
      /\ c = Chunk(k, i, spec, q, before, allowed)
  BY <1>1 DEF IsChunk
<1>6. i \in Rows /\ Machines[i].rate \in Nat \ {0}
  BY <1>5, EligibleRight
<1> HIDE DEF allowed, i, q, spec
<1>7. c.start = Start(i, spec, q, before, allowed) /\ c.end = c.start + Duration(i, spec, q)
  BY <1>5, ChunkRight
<1>8. q \in Nat
  BY <1>5
<1>9. /\ c.start \in Nat /\ Duration(i, spec, q) \in Nat
      /\ Late(c.start, i, before, allowed)
      /\ Machines[i].from < Machines[i].to /\ ~Unplaceable(Machines[i])
           => Fits(Machines[i], Duration(i, spec, q), c.start)
      /\ \A u \in Nat : Late(u, i, before, allowed)
                          /\ Fits(Machines[i], Duration(i, spec, q), u) => c.start <= u
  BY <1>2, <1>3, <1>4, <1>6, <1>7, <1>8, StartRight
<1> QED
  BY <1>1, <1>5, <1>7, <1>9 DEF k, i, q, spec, before, allowed

\* A chunk waits for those of the stages before it that its stage depends on.
LEMMA Waits ==
  ASSUME Board, NEW o \in DOMAIN Orders, NEW n, NEW P, IsPlanOf(P, o, n),
         NEW c \in P, NEW d \in P, d.stage < c.stage,
         StageSpecs[o][d.stage].id \in StageSpecs[o][c.stage].deps
  PROVE  d.end <= c.start
<1> DEFINE spec == StageSpecs[o][c.stage]
           before == Before(P, c.stage)
           allowed == Allowed(spec, StageSpecs[o], before)
<1>1. c.start \in Nat /\ allowed <= c.start
  BY ChunkFacts DEF Late
<1>2. d \in before
  BY DEF Before
<1>3. IsPlan(before)
  <2>1. before \subseteq P
    BY DEF Before
  <2> HIDE DEF before
  <2> QED
    BY <2>1, FS_Subset DEF IsPlanOf, IsPlan
<1>4. StageSpecs[o][d.stage].id \in spec.deps
  OBVIOUS
<1> HIDE DEF before, spec
<1>5. \A e \in before : StageSpecs[o][e.stage].id \in spec.deps => e.end <= c.start
  BY <1>1, <1>3, AllowedRight
<1> QED
  BY <1>2, <1>4, <1>5
-----------------------------------------------------------------------------
(***************************************************************************)
(* Stages in order.                                                        *)
(***************************************************************************)
IdOf(k, o) == StageSpecs[o][k].id

\* A stage that another depends on comes before it.
LEMMA DependencyFirst ==
  ASSUME NEW o \in DOMAIN Orders, NEW k \in Kept(o), NEW j \in DOMAIN StageSpecs[o],
         IdOf(j, o) \in Stages[o][k].deps
  PROVE  j \in Kept(o) /\ j < k /\ IdOf(j, o) \in StageSpecs[o][k].deps
<1>1. k \in 1 .. Len(Stages[o]) /\ k \in Nat
  BY SpecsRight, StagesRight
<1>2. PICK l \in 1 .. k - 1 : Stages[o][l].id = IdOf(j, o)
  BY <1>1, StagesRight DEF InOrder
<1>3. l \in 1 .. Len(Stages[o]) /\ l < k
  BY <1>1, StagesRight
<1>4. IdOf(j, o) # "pkg"
  <2>1. Stages[o][l] \in StageType
    BY <1>3, StagesRight
  <2> QED
    BY <1>2, <2>1 DEF StageType
<1>5. j \in Kept(o)
  BY <1>4, SpecsRight DEF IdOf
<1>6. j \in 1 .. Len(Stages[o]) /\ Stages[o][j].id = Stages[o][l].id
  BY <1>2, <1>5, SpecsRight, StagesRight DEF IdOf
<1>7. j = l
  BY <1>3, <1>6, StagesRight DEF InOrder
<1>8. IdOf(j, o) \in KeptIds(o)
  BY <1>5, SpecsRight DEF IdOf, KeptIds
<1> QED
  BY <1>3, <1>5, <1>7, <1>8, SpecsRight

\* The chunks of a stage of the recipe wait for those of the stages that the
\* recipe says it depends on.
LEMMA RecipeInOrder ==
  ASSUME Board, NEW o \in DOMAIN Orders, NEW n, NEW P, IsPlanOf(P, o, n),
         NEW c \in P, NEW d \in P, IdOf(c.stage, o) # "pkg",
         NEW k \in DOMAIN Recipes[Orders[o].recipe].stages,
         Recipes[Orders[o].recipe].stages[k].id = IdOf(c.stage, o),
         IdOf(d.stage, o) \in Recipes[Orders[o].recipe].stages[k].deps
  PROVE  d.end <= c.start
<1> DEFINE stages == Recipes[Orders[o].recipe].stages
<1>1. c.stage \in DOMAIN StageSpecs[o] /\ d.stage \in DOMAIN StageSpecs[o]
  BY ChunkFacts
<1>2. c.stage \in Kept(o)
  BY <1>1, SpecsRight DEF IdOf
<1>3. c.stage \in 1 .. Len(Stages[o]) /\ Stages[o][c.stage].id = IdOf(c.stage, o)
  BY <1>2, SpecsRight, StagesRight DEF IdOf
<1>4. PICK j \in DOMAIN stages : Stages[o][c.stage] = stages[j]
  BY <1>3, StagesRight DEF InOrder
<1>5. Orders[o].recipe \in DOMAIN Recipes
  BY SchedulerAssumption
<1>6. j = k
  BY <1>3, <1>4, <1>5, SchedulerAssumption
<1>7. d.stage < c.stage /\ IdOf(d.stage, o) \in StageSpecs[o][c.stage].deps
  BY <1>1, <1>2, <1>4, <1>6, DependencyFirst
<1> QED
  BY <1>7, Waits DEF IdOf

\* Packaging waits for the whole recipe: of the stages with a chunk that ends no
\* earlier than d, the last has none that depends on it.
LEMMA PackagingLast ==
  ASSUME Board, NEW o \in DOMAIN Orders, NEW P, IsPlanOf(P, o, LastStage(o)),
         NEW c \in P, NEW d \in P, IdOf(c.stage, o) = "pkg", IdOf(d.stage, o) # "pkg"
  PROVE  d.end <= c.start
<1> DEFINE After(k) == k \in Kept(o) /\ \E e \in P : e.stage = k /\ d.end <= e.end
           T == {k \in Kept(o) : After(k)}
<1>1. /\ c.stage \in DOMAIN StageSpecs[o] \ Kept(o)
      /\ d.stage \in Kept(o) /\ d.end \in Nat /\ c.start \in Nat
  <2>1. /\ c.stage \in DOMAIN StageSpecs[o] /\ d.stage \in DOMAIN StageSpecs[o]
        /\ c.start \in Nat
    BY ChunkFacts
  <2>2. d.end \in Nat
    BY DEF IsPlanOf, IsPlan, ChunkType
  <2> QED
    BY <2>1, <2>2, SpecsRight DEF IdOf
<1>2. Len(Stages[o]) \in Nat /\ Kept(o) \subseteq 1 .. Len(Stages[o])
  BY StagesRight DEF Kept
<1>3. T \in SUBSET Nat /\ T # {} /\ IsFiniteSet(T)
  <2>1. T \subseteq 1 .. Len(Stages[o]) /\ IsFiniteSet(1 .. Len(Stages[o]))
    BY <1>2, FS_Interval
  <2>2. IsFiniteSet(T)
    <3> HIDE DEF T
    <3> QED
      BY <2>1, FS_Subset
  <2> QED
    BY <1>1, <1>2, <2>2
<1>4. PICK k \in T : \A y \in T : y <= k
  <2> HIDE DEF T
  <2> QED
    BY <1>3, GreatestOf
<1>5. PICK e \in P : e.stage = k /\ d.end <= e.end
  BY <1>4
<1>6. k \in Kept(o) /\ k \in DOMAIN StageSpecs[o] /\ k \in Nat /\ k <= Len(Stages[o])
  BY <1>2, <1>4, SpecsRight
<1>7. IdOf(k, o) = Stages[o][k].id /\ e.end \in Nat
  <2>1. e.end \in Nat
    BY DEF IsPlanOf, IsPlan, ChunkType
  <2> QED
    BY <1>6, <2>1, SpecsRight DEF IdOf
<1>8. ASSUME NEW j \in Kept(o), IdOf(k, o) \in Stages[o][j].deps PROVE FALSE
  <2>1. k < j /\ IdOf(k, o) \in StageSpecs[o][j].deps
    BY <1>6, <1>8, DependencyFirst
  <2>2. j \in DOMAIN StageSpecs[o] /\ j \in 1 .. LastStage(o)
    BY SpecsRight
  <2>3. PICK f \in P : f.stage = j
    BY <2>2 DEF IsPlanOf
  <2>4. e.end <= f.start
    BY <1>5, <2>1, <2>3, Waits DEF IdOf
  <2>5. PICK len \in Nat : f.start \in Nat /\ f.end = f.start + len
    BY ChunkFacts
  <2>6. d.end <= f.end
    BY <1>1, <1>5, <1>7, <2>4, <2>5
  <2>7. j \in T
    BY <2>3, <2>6
  <2>8. j <= k /\ j \in Nat
    BY <1>2, <1>4, <2>7
  <2> QED
    BY <1>6, <2>1, <2>8
<1>9. IdOf(k, o) \in Terminal(o)
  BY <1>6, <1>7, <1>8 DEF Terminal, KeptIds
<1>10. c.stage > Len(Stages[o]) /\ StageSpecs[o][c.stage].deps = Terminal(o)
  BY <1>1, SpecsRight
<1>11. e.stage < c.stage
  <2>1. c.stage \in Nat
    BY ChunkFacts
  <2> QED
    BY <1>2, <1>5, <1>6, <1>10, <2>1
<1>12. e.end <= c.start
  BY <1>5, <1>9, <1>10, <1>11, Waits DEF IdOf
<1> QED
  BY <1>1, <1>5, <1>7, <1>12
-----------------------------------------------------------------------------
(***************************************************************************)
(* The inductive invariant: orders on the board wait no longer, so what a  *)
(* plan adds is told from what was there.                                  *)
(***************************************************************************)
IInv ==
  /\ TypeOK
  /\ IsFiniteSet(slots)
  /\ \A s \in slots : s.order \notin waiting

SlotOf(c, o) ==
  [stage |-> c.stage, machine |-> c.machine, quantity |-> c.quantity,
   start |-> c.start, end |-> c.end, order |-> o, status |-> "Queued"]
SlotsOf(P, o) == {SlotOf(c, o) : c \in P}

\* The board as the lemmas on plans want it.
LEMMA IInvBoard ==
  ASSUME IInv
  PROVE  Board /\ waiting \subseteq DOMAIN Orders
BY SchedulerAssumption DEF IInv, TypeOK, Board

\* An order that is placed gets a whole plan, on machines that can be placed on.
LEMMA PlanRight ==
  ASSUME IInv, NEW o \in waiting, Plan(o) # {}
  PROVE  /\ o \in DOMAIN Orders /\ IsPlanOf(Plan(o), o, LastStage(o))
         /\ \A k \in DOMAIN StageSpecs[o] : \A i \in Eligible(o, StageSpecs[o][k].group) :
              ~Unplaceable(Machines[i])
<1>1. o \in DOMAIN Orders /\ Board
  BY IInvBoard
<1>2. ~Raises(o) /\ Plan(o) = PlaceStages(o)
  BY DEF Plan
<1>3. \A k \in DOMAIN StageSpecs[o] :
        LET S == Eligible(o, StageSpecs[o][k].group) IN
        S # {} /\ \A i \in S : ~Unplaceable(Machines[i])
  BY <1>2 DEF Raises, Routable
<1>4. HasMachines(o)
  BY <1>3 DEF HasMachines
<1> QED
  BY <1>1, <1>2, <1>3, <1>4, PlaceStagesRight

\* A plan becomes finitely many slots.
LEMMA SlotsRight ==
  ASSUME NEW o \in DOMAIN Orders, NEW P, IsPlan(P)
  PROVE  SlotsOf(P, o) \subseteq SlotType /\ IsFiniteSet(SlotsOf(P, o))
<1>1. ASSUME NEW c \in P PROVE SlotOf(c, o) \in SlotType
  BY DEF IsPlan, ChunkType, SlotOf, SlotType, Statuses
<1> DEFINE f == [c \in P |-> SlotOf(c, o)]
<1>2. SlotsOf(P, o) = {f[c] : c \in P}
  BY DEF SlotsOf
<1> HIDE DEF f
<1>3. IsFiniteSet(SlotsOf(P, o))
  BY <1>2, ImageFinite DEF IsPlan
<1> QED
  BY <1>1, <1>3 DEF SlotsOf

\* Placing an order either adds its plan or refuses it.
LEMMA PlaceAdds ==
  ASSUME NEW o, Place(o)
  PROVE  \/ Plan(o) # {} /\ slots' = slots \cup SlotsOf(Plan(o), o) /\ refused' = refused
         \/ slots' = slots /\ refused' = refused \cup {o}
BY DEF Place, SlotsOf, SlotOf

\* The board is empty at first, and all orders wait.
LEMMA IInvInit == Init => IInv
<1> SUFFICES ASSUME Init PROVE IInv
  OBVIOUS
<1> QED
  BY SchedulerAssumption, FS_EmptySet DEF Init, IInv, TypeOK

\* What is placed waits no longer.
LEMMA PlaceKeeps ==
  ASSUME IInv, NEW o \in waiting, Place(o)
  PROVE  IInv'
<1>1. /\ waiting' = waiting \ {o} /\ down' = down /\ clock' = clock /\ edits' = edits
  BY DEF Place
<1>2. o \in DOMAIN Orders
  BY IInvBoard
<1>3. CASE Plan(o) # {} /\ slots' = slots \cup SlotsOf(Plan(o), o) /\ refused' = refused
  <2>1. PICK N : N = SlotsOf(Plan(o), o)
    OBVIOUS
  <2>2. N \subseteq SlotType /\ IsFiniteSet(N)
    <3>1. IsPlan(Plan(o))
      BY <1>3, PlanRight DEF IsPlanOf
    <3> QED
      BY <1>2, <2>1, <3>1, SlotsRight
  <2>3. \A s \in N : s.order = o
    BY <2>1 DEF SlotsOf, SlotOf
  <2>4. slots' = slots \cup N
    BY <1>3, <2>1
  <2>5. IsFiniteSet(slots')
    BY <2>2, <2>4, FS_Union DEF IInv
  <2>6. \A s \in slots' : s.order \notin waiting'
    BY <1>1, <2>3, <2>4 DEF IInv
  <2>7. TypeOK'
    BY <1>1, <1>3, <2>2, <2>4 DEF IInv, TypeOK
  <2> QED
    BY <2>5, <2>6, <2>7 DEF IInv
<1>4. CASE slots' = slots /\ refused' = refused \cup {o}
  BY <1>1, <1>2, <1>4 DEF IInv, TypeOK
<1> QED
  BY <1>3, <1>4, PlaceAdds

\* A slot that is changed keeps its order.
LEMMA EditKeeps ==
  ASSUME IInv, NEW s \in slots, Edit(s)
  PROVE  IInv'
<1>1. /\ edits < MaxEdits /\ edits' = edits + 1
      /\ down' = down /\ clock' = clock /\ waiting' = waiting /\ refused' = refused
  BY DEF Edit
<1>2. PICK t : /\ slots' = (slots \ {s}) \cup {t}
               /\ \/ \E st \in Statuses : t = [s EXCEPT !.status = st]
                  \/ t = [s EXCEPT !.start = @ + 1, !.end = @ + 1]
  BY DEF Edit
<1>3. s \in SlotType
  BY DEF IInv, TypeOK
<1>4. t \in SlotType /\ t.order = s.order
  <2>1. CASE \E st \in Statuses : t = [s EXCEPT !.status = st]
    BY <1>3, <2>1 DEF SlotType
  <2>2. CASE t = [s EXCEPT !.start = @ + 1, !.end = @ + 1]
    <3>1. PICK b, e : b = s.start + 1 /\ e = s.end + 1
      OBVIOUS
    <3>2. b \in Nat /\ e \in Nat
      BY <1>3, <3>1 DEF SlotType
    <3>3. t = [s EXCEPT !.start = b, !.end = e]
      BY <2>2, <3>1
    <3> QED
      BY <1>3, <3>2, <3>3 DEF SlotType
  <2> QED
    BY <1>2, <2>1, <2>2
<1>5. IsFiniteSet(slots')
  <2>1. IsFiniteSet(slots \ {s})
    BY FS_Subset DEF IInv
  <2> QED
    BY <1>2, <2>1, FS_AddElement
<1>6. \A r \in slots' : r.order \notin waiting'
  BY <1>1, <1>2, <1>4 DEF IInv
<1>7. slots' \subseteq SlotType
  BY <1>2, <1>4 DEF IInv, TypeOK
<1>8. edits' \in 0 .. MaxEdits
  BY <1>1, SchedulerAssumption DEF IInv, TypeOK
<1>9. TypeOK'
  BY <1>1, <1>7, <1>8 DEF IInv, TypeOK
<1> QED
  BY <1>5, <1>6, <1>9 DEF IInv

\* Every step keeps the invariant.
LEMMA IInvNext == IInv /\ [Next]_vars => IInv'
<1> SUFFICES ASSUME IInv, [Next]_vars PROVE IInv'
  OBVIOUS
<1>1. CASE Tick
  <2>1. clock' \in 0 .. MaxTime
    BY <1>1, SchedulerAssumption DEF Tick, IInv, TypeOK
  <2> QED
    BY <1>1, <2>1 DEF Tick, IInv, TypeOK
<1>2. ASSUME NEW o \in waiting, Place(o) PROVE IInv'
  BY <1>2, PlaceKeeps
<1>3. ASSUME NEW s \in slots, Edit(s) PROVE IInv'
  BY <1>3, EditKeeps
<1>4. ASSUME NEW i \in Rows, Toggle(i) PROVE IInv'
  <2>1. down' \subseteq Rows
    BY <1>4 DEF Toggle, IInv, TypeOK
  <2>2. edits' \in 0 .. MaxEdits
    BY <1>4, SchedulerAssumption DEF Toggle, IInv, TypeOK
  <2> QED
    BY <1>4, <2>1, <2>2 DEF Toggle, IInv, TypeOK
<1>5. CASE UNCHANGED vars
  BY <1>5 DEF vars, IInv, TypeOK
<1> QED
  BY <1>1, <1>2, <1>3, <1>4, <1>5 DEF Next

\* The inductive invariant holds of every reachable board.
THEOREM Invariance == Spec => []IInv
BY IInvInit, IInvNext, PTL DEF Spec

\* For any machines, recipes and orders, slots have a machine, times and a
\* positive quantity, and no order is lost.
THEOREM TypeCorrect == Spec => []TypeOK
<1>1. IInv => TypeOK
  BY DEF IInv
<1> QED
  BY <1>1, Invariance, PTL
-----------------------------------------------------------------------------
(***************************************************************************)
(* What a step adds to the board.                                          *)
(***************************************************************************)
\* Whatever is new on the board is the plan of one order.
LEMMA Added ==
  ASSUME IInv, [Next]_vars, New # {}
  PROVE  \E o \in waiting : Plan(o) # {} /\ New = SlotsOf(Plan(o), o)
<1>1. waiting' # waiting
  BY DEF New
<1>2. PICK o \in waiting : Place(o)
  BY <1>1 DEF Next, vars, Tick, Edit, Toggle
<1>3. New = slots' \ slots
  BY <1>1 DEF New
<1>4. slots' # slots
  BY <1>3
<1>5. Plan(o) # {} /\ slots' = slots \cup SlotsOf(Plan(o), o)
  BY <1>2, <1>4, PlaceAdds
<1>6. \A s \in SlotsOf(Plan(o), o) : s \notin slots
  BY DEF SlotsOf, SlotOf, IInv
<1>7. New = SlotsOf(Plan(o), o)
  BY <1>3, <1>5, <1>6
<1> QED
  BY <1>5, <1>7

\* The fields of a slot made from a chunk.
LEMMA SlotFields ==
  ASSUME NEW c, NEW o
  PROVE  LET s == SlotOf(c, o) IN
         /\ s.stage = c.stage /\ s.machine = c.machine /\ s.quantity = c.quantity
         /\ s.start = c.start /\ s.end = c.end /\ s.order = o
         /\ SpecOf(s) = StageSpecs[o][c.stage] /\ SpecOf(s).id = IdOf(c.stage, o)
BY DEF SlotOf, SpecOf, IdOf

\* Chunks keep clear of the board and of each other.
LEMMA ChunksClear ==
  ASSUME Board, NEW o \in DOMAIN Orders, NEW n, NEW P, IsPlanOf(P, o, n), NEW c \in P
  PROVE  /\ \A s \in slots : s.machine = c.machine /\ Active(s)
              => c.start >= s.end + Machines[c.machine].changeover
         /\ \A d \in P : d.machine = c.machine /\ d # c =>
              \/ c.start >= d.end + Machines[c.machine].changeover
              \/ d.start >= c.end + Machines[c.machine].changeover
<1>1. ASSUME NEW d \in P, NEW e \in P, e.machine = d.machine, e.stage < d.stage
      PROVE  d.start >= e.end + Machines[d.machine].changeover
  <2>1. e \in Before(P, d.stage)
    BY <1>1 DEF Before
  <2> QED
    BY <1>1, <2>1, ChunkFacts DEF Late
<1>2. ASSUME NEW d \in P, d.machine = c.machine, d # c
      PROVE  d.stage < c.stage \/ c.stage < d.stage
  <2>1. c.stage # d.stage
    BY <1>2 DEF IsPlanOf
  <2>2. c.stage \in Nat /\ d.stage \in Nat
    BY ChunkFacts
  <2> QED
    BY <2>1, <2>2
<1>3. \A s \in slots : s.machine = c.machine /\ Active(s)
        => c.start >= s.end + Machines[c.machine].changeover
  BY ChunkFacts DEF Late
<1>4. ASSUME NEW d \in P, d.machine = c.machine, d # c
      PROVE  \/ c.start >= d.end + Machines[c.machine].changeover
             \/ d.start >= c.end + Machines[c.machine].changeover
  <2>1. CASE d.stage < c.stage
    BY <1>1, <1>4, <2>1
  <2>2. CASE c.stage < d.stage
    BY <1>1, <1>4, <2>2
  <2> QED
    BY <1>2, <1>4, <2>1, <2>2
<1> QED
  BY <1>3, <1>4

\* Whatever is planned goes after every slot in flight on its machine, and the
\* slots of one plan keep clear of each other: no machine is booked twice.
THEOREM KeepsClearAlways == Spec => KeepsClear
<1> DEFINE Clear(n, s) ==
             s # n /\ s.machine = n.machine /\ Active(s) =>
               \/ n.start >= s.end + Machines[n.machine].changeover
               \/ s \in New /\ s.start >= n.end + Machines[n.machine].changeover
<1>1. ASSUME IInv, [Next]_vars, NEW n \in New, NEW s \in slots \cup New
      PROVE  Clear(n, s)
  <2>1. New # {}
    OBVIOUS
  <2>2. PICK o \in waiting : Plan(o) # {} /\ New = SlotsOf(Plan(o), o)
    BY <1>1, <2>1, Added
  <2>3. PICK P : P = Plan(o)
    OBVIOUS
  <2>4. Board /\ o \in DOMAIN Orders /\ IsPlanOf(P, o, LastStage(o))
    BY <1>1, <2>2, <2>3, PlanRight, IInvBoard
  <2>5. PICK c \in P : n = SlotOf(c, o)
    BY <2>2, <2>3 DEF SlotsOf
  <2>6. n.machine = c.machine /\ n.start = c.start /\ n.end = c.end
    BY <2>5, SlotFields
  <2>7. CASE s \in slots
    BY <2>4, <2>6, <2>7, ChunksClear
  <2>8. CASE s \in New
    <3>1. PICK d \in P : s = SlotOf(d, o)
      BY <2>2, <2>3, <2>8 DEF SlotsOf
    <3>2. s.machine = d.machine /\ s.start = d.start /\ s.end = d.end
      BY <3>1, SlotFields
    <3>3. s # n => d # c
      BY <2>5, <3>1
    <3>4. d.machine = c.machine /\ d # c =>
            \/ c.start >= d.end + Machines[c.machine].changeover
            \/ d.start >= c.end + Machines[c.machine].changeover
      BY <2>4, ChunksClear
    <3> QED
      BY <2>6, <2>8, <3>2, <3>3, <3>4
  <2> QED
    BY <2>7, <2>8
<1>2. IInv /\ [Next]_vars => [\A n \in New, s \in slots \cup New : Clear(n, s)]_vars
  <2> HIDE DEF Clear
  <2> QED
    BY <1>1
<1> QED
  BY <1>2, Invariance, PTL DEF Spec, KeepsClear

\* No stage starts before all of those it depends on have ended, chunk by
\* chunk, and packaging not before the whole recipe.
THEOREM StagesInOrderAlways == Spec => StagesInOrder
<1> DEFINE Ordered(n, s) ==
             /\ SpecOf(n).id = "pkg" => SpecOf(s).id = "pkg" \/ n.start >= s.end
             /\ SpecOf(n).id # "pkg" =>
                  LET stages == Recipes[Orders[n.order].recipe].stages IN
                  (\E k \in DOMAIN stages : /\ stages[k].id = SpecOf(n).id
                                            /\ SpecOf(s).id \in stages[k].deps)
                    => n.start >= s.end
<1>1. ASSUME IInv, [Next]_vars, NEW n \in New, NEW s \in New
      PROVE  Ordered(n, s)
  <2>1. New # {}
    OBVIOUS
  <2>2. PICK o \in waiting : Plan(o) # {} /\ New = SlotsOf(Plan(o), o)
    BY <1>1, <2>1, Added
  <2>3. PICK P : P = Plan(o)
    OBVIOUS
  <2>4. Board /\ o \in DOMAIN Orders /\ IsPlanOf(P, o, LastStage(o))
    BY <1>1, <2>2, <2>3, PlanRight, IInvBoard
  <2>5. PICK c \in P, d \in P : n = SlotOf(c, o) /\ s = SlotOf(d, o)
    BY <2>2, <2>3 DEF SlotsOf
  <2>6. /\ n.start = c.start /\ s.end = d.end /\ n.order = o
        /\ SpecOf(n).id = IdOf(c.stage, o) /\ SpecOf(s).id = IdOf(d.stage, o)
    BY <2>5, SlotFields
  <2>7. c.start \in Nat /\ d.end \in Nat
    BY <2>4 DEF IsPlanOf, IsPlan, ChunkType
  <2>8. IdOf(c.stage, o) = "pkg" => IdOf(d.stage, o) = "pkg" \/ d.end <= c.start
    BY <2>4, PackagingLast
  <2>9. ASSUME IdOf(c.stage, o) # "pkg",
               NEW k \in DOMAIN Recipes[Orders[o].recipe].stages,
               Recipes[Orders[o].recipe].stages[k].id = IdOf(c.stage, o),
               IdOf(d.stage, o) \in Recipes[Orders[o].recipe].stages[k].deps
        PROVE  d.end <= c.start
    BY <2>4, <2>9, RecipeInOrder
  <2> QED
    BY <2>6, <2>7, <2>8, <2>9
<1>2. IInv /\ [Next]_vars => [\A n, s \in New : Ordered(n, s)]_vars
  <2> HIDE DEF Ordered
  <2> QED
    BY <1>1
<1> QED
  BY <1>2, Invariance, PTL DEF Spec, StagesInOrder
-----------------------------------------------------------------------------
(***************************************************************************)
(* Starts are as early as can be.                                          *)
(***************************************************************************)
\* Windows end after they begin, on the same day: the code knows no others (a
\* window over midnight is never inside itself).
Windows == \A i \in Rows : Machines[i].from < Machines[i].to

\* A chunk starts no later than it could on its machine, nor, if its stage is
\* not split, than on another machine that is eligible.
LEMMA ChunkFirst ==
  ASSUME Board, NEW o \in DOMAIN Orders, NEW n, NEW P, IsPlanOf(P, o, n), NEW c \in P,
         NEW i \in Eligible(o, StageSpecs[o][c.stage].group),
         i = c.machine \/ ~Splits(c.stage, o),
         NEW t \in Nat,
         Late(t, i, Before(P, c.stage),
              Allowed(StageSpecs[o][c.stage], StageSpecs[o], Before(P, c.stage))),
         Fits(Machines[i], Duration(i, StageSpecs[o][c.stage], c.quantity), t)
  PROVE  c.start <= t
<1> DEFINE spec == StageSpecs[o][c.stage]
           before == Before(P, c.stage)
           allowed == Allowed(spec, StageSpecs[o], before)
<1>1. CASE i = c.machine
  BY <1>1, ChunkFacts
<1>2. CASE ~Splits(c.stage, o)
  <2>1. IsFirst(c, c.stage, o, before) /\ IsChunk(c, c.stage, o, before)
    BY <1>2 DEF IsPlanOf
  <2>2. IsPlan(before)
    <3>1. before \subseteq P
      BY DEF Before
    <3> HIDE DEF before
    <3> QED
      BY <3>1, FS_Subset DEF IsPlanOf, IsPlan
  <2>3. spec \in SpecType /\ c.quantity \in Nat
    BY ChunkFacts, SpecsRight
  <2>4. i \in Rows /\ Machines[i].rate \in Nat \ {0}
    BY EligibleRight
  <2>5. Late(t, i, before, allowed) /\ Fits(Machines[i], Duration(i, spec, c.quantity), t)
    OBVIOUS
  <2>6. c.quantity = spec.quantity
    BY <2>1 DEF IsFirst
  <2>7. c.start = Start(c.machine, spec, spec.quantity, before, allowed)
    <3>1. c = Chunk(c.stage, c.machine, spec, c.quantity, before, allowed)
      BY <2>1 DEF IsChunk
    <3> HIDE DEF spec, before, allowed
    <3> QED
      BY <2>6, <3>1, ChunkRight
  <2>8. Start(c.machine, spec, spec.quantity, before, allowed)
          <= Start(i, spec, spec.quantity, before, allowed)
    BY <2>1 DEF IsFirst
  <2>9. c.start \in Nat
    BY ChunkFacts
  <2>10. allowed \in Nat
    BY <2>2, AllowedRight
  <2> HIDE DEF spec, before, allowed
  <2>11. /\ Start(i, spec, spec.quantity, before, allowed) \in Nat
         /\ Start(i, spec, spec.quantity, before, allowed) <= t
    BY <2>2, <2>3, <2>4, <2>5, <2>6, <2>10, StartRight
  <2> QED
    BY <2>7, <2>8, <2>9, <2>11
<1> QED
  BY <1>1, <1>2

\* A stage that the code splits is one that the property calls split.
LEMMA SplitsIsSplit ==
  ASSUME NEW o \in DOMAIN Orders, NEW c, c.stage \in DOMAIN StageSpecs[o], Splits(c.stage, o)
  PROVE  Split(SlotOf(c, o))
<1> DEFINE spec == StageSpecs[o][c.stage]
           may == {i \in Rows : MayRun(i, o, spec.group)}
           S == Eligible(o, spec.group)
<1>1. S \subseteq may /\ may \subseteq Rows
  BY EligibleRight
<1>2. Cardinality(S) >= 2
  BY DEF Splits
<1>3. SpecOf(SlotOf(c, o)) = spec /\ SlotOf(c, o).order = o
  BY SlotFields
<1>4. spec.group \in Packaging /\ spec.quantity >= SplitMin
  BY DEF Splits
<1> HIDE DEF S, may
<1>5. IsFiniteSet(may)
  BY <1>1, MachinesRight, FS_Subset
<1>6. IsFiniteSet(S) /\ Cardinality(S) <= Cardinality(may)
  BY <1>1, <1>5, FS_Subset
<1>7. Cardinality(S) \in Nat /\ Cardinality(may) \in Nat
  BY <1>5, <1>6, FS_CardinalityType
<1>8. Cardinality(may) >= 2
  BY <1>2, <1>6, <1>7
<1> QED
  BY <1>3, <1>4, <1>8 DEF Split, may

\* Each chunk is on a machine that may run the order (and on one that must, if
\* there is one), inside its window, and could not start earlier: not on that
\* machine, and unless the stage is split not on any other that the rules allow.
THEOREM AsEarlyAsPossibleAlways ==
  ASSUME Windows
  PROVE  Spec => AsEarlyAsPossible
<1> DEFINE Well(n) ==
             Allows(n) /\ Fits(Machines[n.machine], n.end - n.start, n.start)
           Free(n, i, t) ==
             /\ t < n.start /\ FreeFrom(n, i, t)
             /\ IF Split(n) THEN i = n.machine ELSE
                  /\ MayRun(i, n.order, SpecOf(n).group)
                  /\ MustRun(n.machine, n.order, SpecOf(n).group) =>
                       MustRun(i, n.order, SpecOf(n).group)
           Early(n, i, t) ==
             Free(n, i, t) => ~Fits(Machines[i], Duration(i, SpecOf(n), n.quantity), t)
<1>1. ASSUME IInv, [Next]_vars, NEW n \in New
      PROVE  /\ Well(n)
             /\ \A i \in Rows, t \in 0 .. 4 * Day : Early(n, i, t)
  <2>1. New # {}
    OBVIOUS
  <2>2. PICK o \in waiting : Plan(o) # {} /\ New = SlotsOf(Plan(o), o)
    BY <1>1, <2>1, Added
  <2>3. PICK P : P = Plan(o)
    OBVIOUS
  <2>4. Board /\ o \in DOMAIN Orders /\ IsPlanOf(P, o, LastStage(o))
    BY <1>1, <2>2, <2>3, PlanRight, IInvBoard
  <2>5. PICK c \in P : n = SlotOf(c, o)
    BY <2>2, <2>3 DEF SlotsOf
  <2>6. /\ n.stage = c.stage /\ n.machine = c.machine /\ n.quantity = c.quantity
        /\ n.start = c.start /\ n.end = c.end /\ n.order = o
        /\ SpecOf(n) = StageSpecs[o][c.stage]
    BY <2>5, SlotFields
  <2> DEFINE spec == StageSpecs[o][c.stage]
             before == Before(P, c.stage)
             allowed == Allowed(spec, StageSpecs[o], before)
             d == Duration(c.machine, spec, c.quantity)
             m == Machines[c.machine]
  <2>7. /\ c.stage \in DOMAIN StageSpecs[o] /\ c.machine \in Eligible(o, spec.group)
        /\ c.start \in Nat /\ d \in Nat /\ c.end = c.start + d
        /\ m.from < m.to /\ ~Unplaceable(m) => Fits(m, d, c.start)
    BY <2>4, ChunkFacts
  <2>8. Well(n)
    <3>1. c.machine \in Rows /\ MayRun(c.machine, o, spec.group)
          /\ ((\E j \in Rows : MustRun(j, o, spec.group)) => MustRun(c.machine, o, spec.group))
      BY <2>4, <2>7, EligibleRight
    <3>2. ~Unplaceable(m)
      BY <1>1, <2>2, <2>7, PlanRight
    <3>3. m.from < m.to
      BY <3>1 DEF Windows
    <3>4. c.end - c.start = d
      BY <2>7
    <3>5. Fits(m, c.end - c.start, c.start)
      BY <2>7, <3>2, <3>3, <3>4
    <3>6. Allows(n)
      BY <2>6, <3>1 DEF Allows
    <3> QED
      BY <2>6, <3>5, <3>6
  <2>9. ASSUME NEW i \in Rows, NEW t \in 0 .. 4 * Day, Free(n, i, t),
               Fits(Machines[i], Duration(i, SpecOf(n), n.quantity), t)
        PROVE  FALSE
    <3>1. t \in Nat /\ t < c.start /\ FreeFrom(n, i, t)
      BY <2>6, <2>9, DayAssumption
    <3>2. \A e \in before : SlotOf(e, o) \in New /\ SlotOf(e, o).stage < n.stage
      BY <2>2, <2>3, <2>6, SlotFields DEF Before, SlotsOf
    <3>3. \A e \in before :
            /\ e.machine = i => t >= e.end + Machines[i].changeover
            /\ StageSpecs[o][e.stage].id \in spec.deps => t >= e.end
      BY <2>6, <3>1, <3>2, SlotFields DEF FreeFrom
    <3>4. /\ t >= clock
          /\ \A s \in slots : s.machine = i /\ Active(s) => t >= s.end + Machines[i].changeover
      BY <3>1 DEF FreeFrom
    <3>5. IsPlan(before)
      <4>1. before \subseteq P
        BY DEF Before
      <4> HIDE DEF before
      <4> QED
        BY <2>4, <4>1, FS_Subset DEF IsPlanOf, IsPlan
    <3>6. allowed <= t
      <4>1. clock \in Nat /\ \A e \in before : e.end \in Nat
        BY <2>4, <3>5 DEF Board, IsPlan, ChunkType
      <4>2. clock <= t /\ \A e \in before : StageSpecs[o][e.stage].id \in spec.deps => e.end <= t
        BY <3>1, <3>3, <3>4, <4>1
      <4> HIDE DEF before, spec
      <4> QED
        BY <2>4, <3>1, <3>5, <4>2, AllowedRight
    <3>7. allowed \in Nat
      <4> HIDE DEF before, spec
      <4> QED
        BY <2>4, <3>5, AllowedRight
    <3>8. Late(t, i, before, allowed)
      <4>1. t >= allowed
        BY <3>1, <3>6, <3>7
      <4> QED
        BY <3>3, <3>4, <4>1 DEF Late
    <3>9. i \in Eligible(o, spec.group) /\ (i = c.machine \/ ~Splits(c.stage, o))
      <4>1. CASE Split(n)
        BY <2>6, <2>7, <2>9, <4>1
      <4>2. CASE ~Split(n)
        <5>1. ~Splits(c.stage, o)
          BY <2>4, <2>5, <2>7, <4>2, SplitsIsSplit
        <5>2. MayRun(i, o, spec.group)
              /\ (MustRun(c.machine, o, spec.group) => MustRun(i, o, spec.group))
          BY <2>6, <2>9, <4>2
        <5>3. i \in Eligible(o, spec.group)
          BY <2>4, <2>7, <5>2, EligibleRight
        <5> QED
          BY <5>1, <5>3
      <4> QED
        BY <4>1, <4>2
    <3>10. Fits(Machines[i], Duration(i, spec, c.quantity), t)
      BY <2>6, <2>9
    <3>11. c.start <= t
      BY <2>4, <3>1, <3>8, <3>9, <3>10, ChunkFirst
    <3> QED
      BY <2>7, <3>1, <3>11
  <2>10. ASSUME NEW i \in Rows, NEW t \in 0 .. 4 * Day PROVE Early(n, i, t)
    <3> HIDE DEF Free
    <3> QED
      BY <2>9
  <2> QED
    BY <2>8, <2>10
<1>2. IInv /\ [Next]_vars =>
        [/\ \A n \in New : Well(n)
         /\ \A n \in New, i \in Rows, t \in 0 .. 4 * Day : Early(n, i, t)]_vars
  <2> HIDE DEF Well, Early
  <2> QED
    BY <1>1
<1>3. Spec => [][/\ \A n \in New : Well(n)
                 /\ \A n \in New, i \in Rows, t \in 0 .. 4 * Day : Early(n, i, t)]_vars
  BY <1>2, Invariance, PTL DEF Spec
<1> QED
  BY <1>3 DEF AsEarlyAsPossible
=============================================================================
