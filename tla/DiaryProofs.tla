------------------------------ MODULE DiaryProofs ------------------------------
(***************************************************************************)
(* Proofs about the diary, for any mobeds, requests, days, gehs, lengths   *)
(* of a month and of a year, counts and horizons: a slot is taken once, an *)
(* occurrence is written once, a repeat has the dates that it was asked to *)
(* have, a delete that nobody disturbed goes through and a family's        *)
(* removal keeps what was performed.                                       *)
(***************************************************************************)
EXTENDS Diary, Counting, SequenceTheorems

-----------------------------------------------------------------------------
(***************************************************************************)
(* Numbers: sets in order, and the earliest of some ceremonies.            *)
(***************************************************************************)

\* Numbers in order: f lists the n numbers of S.
InOrder(f, n, S) == f \in [1 .. n -> S] /\ \A k, m \in 1 .. n : k < m => f[k] < f[m]

\* Finitely many numbers can be put in order.
LEMMA OrderExists ==
    ASSUME NEW N \in Nat
    PROVE  \A S \in SUBSET Nat : IsFiniteSet(S) /\ Cardinality(S) = N => \E f : InOrder(f, N, S)
<1> DEFINE T == {n \in 0 .. N :
        \A S \in SUBSET Nat : IsFiniteSet(S) /\ Cardinality(S) = n => \E f : InOrder(f, n, S)}
<1>1. 0 \in T
  <2>1. ASSUME NEW S \in SUBSET Nat PROVE InOrder([k \in 1 .. 0 |-> 0], 0, S)
    BY DEF InOrder
  <2> QED
    BY <2>1, SMTT(30)
<1>2. ASSUME NEW n \in 0 .. N, n # 0, n - 1 \in T PROVE n \in T
  <2> SUFFICES ASSUME NEW S \in SUBSET Nat, IsFiniteSet(S), Cardinality(S) = n
               PROVE  \E f : InOrder(f, n, S)
    OBVIOUS
  <2>1. PICK m \in S : \A k \in S : k <= m
    <3>1. S # {}
      BY <1>2, FS_EmptySet
    <3> QED
      BY <3>1, GreatestNat
  <2>2. IsFiniteSet(S \ {m}) /\ Cardinality(S \ {m}) = n - 1 /\ S \ {m} \in SUBSET Nat
    BY <1>2, <2>1, FS_RemoveElement
  <2>3. PICK f : InOrder(f, n - 1, S \ {m})
    BY <1>2, <2>2
  <2> DEFINE g == [k \in 1 .. n |-> IF k = n THEN m ELSE f[k]]
  <2>4. \A k \in 1 .. n : k # n => k \in 1 .. n - 1 /\ g[k] = f[k] /\ f[k] \in S \ {m}
    BY <1>2, <2>3 DEF InOrder
  <2>5. g[n] = m /\ g \in [1 .. n -> S]
    BY <1>2, <2>1, <2>4
  <2>6. ASSUME NEW k \in 1 .. n, NEW l \in 1 .. n, k < l PROVE g[k] < g[l]
    <3> HIDE DEF g
    <3>1. k # n /\ k \in 1 .. n - 1 /\ g[k] = f[k] /\ f[k] \in S \ {m}
      BY <1>2, <2>4, <2>6
    <3>2. CASE l = n
      <4>1. g[l] = m /\ f[k] <= m /\ f[k] # m
        BY <2>1, <2>5, <3>1, <3>2
      <4>2. f[k] \in Nat /\ m \in Nat
        BY <2>1, <3>1
      <4> QED
        BY <3>1, <4>1, <4>2
    <3>3. CASE l # n
      BY <2>3, <2>4, <2>6, <3>1, <3>3 DEF InOrder
    <3> QED
      BY <3>2, <3>3
  <2>7. InOrder(g, n, S)
    <3> HIDE DEF g
    <3> QED
      BY <2>5, <2>6 DEF InOrder
  <2> QED
    BY <2>7
<1>3. N \in T
  <2> HIDE DEF T
  <2>1. \A n \in 0 .. N : n \in T
    BY <1>1, <1>2, CountingUp
  <2> QED
    BY <2>1
<1> QED
  BY <1>3

\* So Ascending puts them in order, and leaves none out.
LEMMA AscendingIs ==
    ASSUME NEW S \in SUBSET Nat, IsFiniteSet(S)
    PROVE  /\ Cardinality(S) \in Nat
           /\ InOrder(Ascending(S), Cardinality(S), S)
           /\ \A s \in S : \E n \in 1 .. Cardinality(S) : Ascending(S)[n] = s
<1> DEFINE N == Cardinality(S)
           F == Ascending(S)
<1>1. N \in Nat
  BY FS_CardinalityType
<1>2. \E f : InOrder(f, N, S)
  <2> HIDE DEF N
  <2>1. N = Cardinality(S)
    BY DEF N
  <2> QED
    BY <1>1, <2>1, OrderExists
<1>3. InOrder(F, N, S)
  <2>1. PICK f : InOrder(f, N, S)
    BY <1>2
  <2>2. f \in [1 .. N -> S] /\ \A k, m \in DOMAIN f : k < m => f[k] < f[m]
    BY <2>1 DEF InOrder
  <2>3. F \in [1 .. N -> S] /\ \A k, m \in DOMAIN F : k < m => F[k] < F[m]
    BY <2>2 DEF Ascending
  <2> HIDE DEF F
  <2> QED
    BY <2>3 DEF InOrder
<1>4. \A s \in S : \E n \in 1 .. N : F[n] = s
  <2> HIDE DEF F
  <2>1. F \in Injection(1 .. N, S)
    <3> SUFFICES ASSUME NEW k \in 1 .. N, NEW m \in 1 .. N, k # m PROVE F[k] # F[m]
      BY <1>3 DEF Injection, IsInjective, InOrder
    <3>1. F[k] \in Nat /\ F[m] \in Nat
      BY <1>3 DEF InOrder
    <3>2. k < m \/ m < k
      BY <1>1
    <3> QED
      BY <1>3, <3>1, <3>2 DEF InOrder
  <2>2. Cardinality(1 .. N) = N
    BY <1>1, FS_Interval
  <2>3. F \in Surjection(1 .. N, S)
    BY <2>1, <2>2, FS_Injection
  <2> QED
    BY <2>3 DEF Surjection
<1> QED
  BY <1>1, <1>3, <1>4
-----------------------------------------------------------------------------
(***************************************************************************)
(* The invariant.                                                          *)
(***************************************************************************)

EventRow ==
    [live : BOOLEAN, by : Mobed, family : Family, rule : Nat, for : Nat, settled : BOOLEAN,
     day : Nat, at : At, roj : 0 .. Rojs - 1, month : Nat, when : Nat]
RuleRow ==
    [live : BOOLEAN, active : BOOLEAN, source : Nat, pattern : Pattern, until : Nat,
     end : Nat \cup {NoEnd}, count : Counts, start : Nat]

\* A repeat's source is one of its ceremonies, and every ceremony's repeat exists.
Sane(ev, ru) ==
    /\ ev \in Seq(EventRow) /\ ru \in Seq(RuleRow)
    /\ \A i \in DOMAIN ev : ev[i].rule \in 0 .. Len(ru)
    /\ \A r \in DOMAIN ru : ru[r].source \in DOMAIN ev /\ ev[ru[r].source].rule = r

\* The foreign keys both ways: what is there points at what is there.
Linked(ev, ru) ==
    /\ \A r \in DOMAIN ru : ru[r].live => ev[ru[r].source].live
    /\ \A i \in DOMAIN ev : ev[i].live /\ ev[i].rule # 0 => ru[ev[i].rule].live

\* What a request that read before it writes still knows rightly.
AddAsked(a) ==
    /\ a.by \in Mobed /\ a.day \in Nat /\ a.at \in At /\ a.family \in Family
    /\ a.repeat \in {Once} \cup Repeat
TopUpAsked(a, ev, ru) ==
    /\ a.rule \in DOMAIN ru /\ a.row \in RuleRow /\ a.through \in Nat
    /\ a.row.source \in DOMAIN ev /\ ev[a.row.source].rule = a.rule
EditAsked(a, ev) == a.event \in DOMAIN ev /\ a.had \in EventRow /\ a.new \in EventRow
DeleteAsked(a, ev) ==
    /\ a.event \in DOMAIN ev /\ a.future \in BOOLEAN
    /\ a.victims \in SUBSET DOMAIN ev /\ a.survivors \in SUBSET DOMAIN ev
    /\ a.victims # {} /\ a.victims \cap a.survivors = {}
    /\ \A v \in a.victims \cup a.survivors : ev[v].rule = ev[a.event].rule
    /\ ev[a.event].rule # 0 =>
        /\ a.row \in RuleRow /\ a.row.live
        /\ a.row.source \in DOMAIN ev /\ ev[a.row.source].rule = ev[a.event].rule
Asked(a, ev, ru) ==
    \/ a = Idle
    \/ a.op = "add" /\ AddAsked(a)
    \/ a.op = "topup" /\ TopUpAsked(a, ev, ru)
    \/ a.op = "edit" /\ EditAsked(a, ev)
    \/ a.op = "delete" /\ DeleteAsked(a, ev)

DiaryTypes ==
    /\ kind \in {"machi", "booking"} /\ now \in Nat
    /\ Sane(events, rules) /\ Linked(events, rules)
    /\ calls = [c \in Call |-> calls[c]] /\ \A c \in Call : Asked(calls[c], events, rules)

\* The unique index, and what it is worth: a ceremony's columns agree, unless
\* an edit moved it after another had.
Fits(e) == e.roj = RojOf(e.day) /\ e.month = MonthOf(e.day) /\ e.when = Instant(e.day, e.at)
Indexed == kind = "machi" => \A i, j \in Live : i # j => KeyOf(events[i]) # KeyOf(events[j])
Fitting ==
    /\ \A i \in DOMAIN events \ torn : Fits(events[i])
    /\ \A c \in Call : calls[c].op = "edit" => Fits(calls[c].new)
SlotInv == Indexed /\ Fitting

\* An event's repeat stays as its top-up read it, and has no other top-up.
Held ==
    kind = "booking" => \A c \in Call : calls[c].op = "topup" =>
        /\ calls[c].row = rules[calls[c].rule]
        /\ \A b \in Call : b # c => ~(calls[b].op = "topup" /\ calls[b].rule = calls[c].rule)
\* The dates of a repeat are no later than its marker.
Behind ==
    \A i \in DOMAIN events : events[i].rule # 0 /\ ~(kind = "machi" /\ events[i].rule \in raced)
        => events[i].for <= rules[events[i].rule].until
DateInv == Held /\ Behind /\ OccurrenceOnce
-----------------------------------------------------------------------------
(***************************************************************************)
(* The dates of a repeat, and their rows.                                  *)
(***************************************************************************)

\* A day is its Roj and its month.
LEMMA DayIsItsKey ==
    ASSUME NEW d \in Nat
    PROVE  /\ RojOf(d) \in 0 .. Rojs - 1 /\ MonthOf(d) \in Nat
           /\ d = MonthOf(d) * Rojs + RojOf(d)
<1> Rojs \in Nat /\ Rojs > 0
  BY DiaryAssumption
<1> QED
  BY DEF RojOf, MonthOf

\* A product is a number, and one more of a factor is one more of the other.
LEMMA Products ==
    ASSUME NEW a \in Nat, NEW b \in Nat
    PROVE  a * b \in Nat /\ (a + 1) * b = a * b + b
OBVIOUS

\* A later row is a larger number of whole rows.
LEMMA RowsOver == ASSUME NEW a \in Nat, NEW b \in Nat, NEW s \in Nat, a < b PROVE a * s + s <= b * s
<1>1. PICK k \in Nat : b = (a + 1) + k
  <2>1. b - (a + 1) \in Nat
    OBVIOUS
  <2> QED
    BY <2>1
<1>2. b * s = (a + 1) * s + k * s
  BY <1>1
<1>3. k * s \in Nat /\ (a + 1) * s = a * s + s /\ a * s \in Nat /\ b * s \in Nat
  BY Products
<1> QED
  BY <1>2, <1>3

\* A ceremony as it is written is a row whose columns agree.
LEMMA RowTyped ==
    ASSUME NEW by \in Mobed, NEW day \in Nat, NEW at \in At, NEW family \in Family, NEW r \in Nat
    PROVE  /\ Row(by, day, at, family, r) \in EventRow
           /\ Fits(Row(by, day, at, family, r))
<1>1. Instant(day, at) \in Nat
  <2>1. Gehs \in Nat /\ at \in Nat /\ at >= 1 /\ day * Gehs \in Nat
    BY DiaryAssumption, Products DEF At
  <2> QED
    BY <2>1 DEF Instant
<1>2. RojOf(day) \in 0 .. Rojs - 1 /\ MonthOf(day) \in Nat
  BY DayIsItsKey
<1> QED
  BY <1>1, <1>2 DEF Row, EventRow, Fits

\* A step of a repeat is a month at least.
LEMMA StepIs == ASSUME NEW pattern \in Pattern PROVE StepOf(pattern) \in Nat \ {0}
BY DiaryAssumption DEF StepOf, Pattern

\* The k-th date after a marker.
Nth(until, roj, pattern, k) == DayAt(MonthOf(until) + k * StepOf(pattern), roj)

\* Dates are numbers, go up, and come after their marker.
LEMMA NthUp ==
    ASSUME NEW until \in Nat, NEW roj \in Nat, NEW pattern \in Pattern, NEW k \in Nat \ {0}
    PROVE  Nth(until, roj, pattern, k) \in Nat /\ until < Nth(until, roj, pattern, k)
<1> DEFINE m == MonthOf(until)
           s == StepOf(pattern)
<1>1. m \in Nat /\ s \in Nat \ {0} /\ Rojs \in Nat \ {0} /\ until < m * Rojs + Rojs
  <2>1. m \in Nat /\ s \in Nat \ {0} /\ Rojs \in Nat \ {0}
    BY DayIsItsKey, StepIs, DiaryAssumption
  <2>2. until = m * Rojs + RojOf(until) /\ RojOf(until) \in 0 .. Rojs - 1
    BY DayIsItsKey
  <2>3. m * Rojs \in Nat
    BY <2>1, Products
  <2> HIDE DEF m, s
  <2> QED
    BY <2>1, <2>2, <2>3
<1>2. k * s \in Nat /\ k * s >= 1
  <2> HIDE DEF s, m
  <2>1. k - 1 \in Nat /\ k = (k - 1) + 1
    OBVIOUS
  <2>2. (k - 1) * s \in Nat /\ ((k - 1) + 1) * s = (k - 1) * s + s
    BY <1>1, <2>1, Products
  <2> QED
    BY <1>1, <2>1, <2>2
<1>3. m + k * s \in Nat /\ m < m + k * s
  <2> HIDE DEF m
  <2> QED
    BY <1>1, <1>2
<1>4. m * Rojs + Rojs <= (m + k * s) * Rojs /\ (m + k * s) * Rojs \in Nat
  <2> DEFINE n == m + k * s
  <2> HIDE DEF m, s, n
  <2>1. m \in Nat /\ n \in Nat /\ Rojs \in Nat /\ m < n
    BY <1>1, <1>3 DEF n
  <2>2. m * Rojs + Rojs <= n * Rojs /\ n * Rojs \in Nat
    BY <2>1, RowsOver, Products
  <2> QED
    BY <2>2 DEF n
<1>5. Nth(until, roj, pattern, k) = (m + k * s) * Rojs + roj
  BY DEF Nth, DayAt
<1> DEFINE x == (m + k * s) * Rojs
<1>6. x \in Nat /\ m * Rojs \in Nat /\ m * Rojs + Rojs <= x /\ Nth(until, roj, pattern, k) = x + roj
  <2> HIDE DEF m, s
  <2> QED
    BY <1>1, <1>4, <1>5, Products
<1> HIDE DEF x, m
<1> QED
  BY <1>1, <1>6

\* What a generator tries are finitely many days, all after its marker.
LEMMA TriesAre ==
    ASSUME NEW until \in Nat, NEW roj \in Nat, NEW pattern \in Pattern, NEW through \in Nat
    PROVE  /\ Tries(until, roj, pattern, through) \in SUBSET Nat
           /\ IsFiniteSet(Tries(until, roj, pattern, through))
           /\ \A d \in Tries(until, roj, pattern, through) : until < d
<1> DEFINE on(k) == Nth(until, roj, pattern, k)
           K == {n \in 1 .. MaxPeriods : n = 1 \/ on(n - 1) < through}
           D == {on(k) : k \in K}
<1>1. Tries(until, roj, pattern, through) = IF until >= through THEN {} ELSE D
  BY DEF Tries, Nth
<1>2. MaxPeriods \in Nat
  BY DiaryAssumption
<1>3. \A k \in K : on(k) \in Nat /\ until < on(k)
  <2> SUFFICES ASSUME NEW k \in K PROVE on(k) \in Nat /\ until < on(k)
    OBVIOUS
  <2>1. k \in Nat \ {0}
    BY <1>2
  <2> QED
    BY <2>1, NthUp
<1>4. IsFiniteSet(D)
  <2>1. IsFiniteSet(K)
    <3>1. K \in SUBSET (1 .. MaxPeriods)
      OBVIOUS
    <3>2. IsFiniteSet(1 .. MaxPeriods)
      BY <1>2, FS_Interval
    <3> HIDE DEF K
    <3> QED
      BY <3>1, <3>2, FS_Subset
  <2>2. [k \in K |-> on(k)] \in Surjection(K, D)
    <3> HIDE DEF K
    <3> QED
      BY DEF Surjection
  <2> HIDE DEF K, D
  <2> QED
    BY <2>1, <2>2, FS_Surjection
<1>5. D \in SUBSET Nat /\ \A d \in D : until < d
  <2> HIDE DEF K, on
  <2> QED
    BY <1>3
<1> HIDE DEF D
<1> QED
  BY <1>1, <1>4, <1>5, FS_EmptySet

\* The furthest of them.
LEMMA FurthestIs ==
    ASSUME NEW days \in SUBSET Nat, IsFiniteSet(days), NEW else \in Nat, \A d \in days : else < d
    PROVE  /\ Furthest(days, else) \in Nat /\ else <= Furthest(days, else)
           /\ \A d \in days : d <= Furthest(days, else)
           /\ days # {} => Furthest(days, else) \in days
           /\ days = {} => Furthest(days, else) = else
<1>1. CASE days = {}
  BY <1>1 DEF Furthest
<1>2. CASE days # {}
  <2>1. PICK g \in days : \A x \in days : x <= g
    BY <1>2, GreatestNat
  <2>2. Furthest(days, else) = CHOOSE d \in days : \A x \in days : x <= d
    BY <1>2 DEF Furthest
  <2>3. Furthest(days, else) \in days /\ \A x \in days : x <= Furthest(days, else)
    BY <2>1, <2>2
  <2>4. else < Furthest(days, else) /\ Furthest(days, else) \in Nat
    BY <2>3
  <2> QED
    BY <1>2, <2>3, <2>4
<1> QED
  BY <1>1, <1>2

\* Rows of one repeat, in the order of their dates, that are free to be written.
Alike(new, r, by, at) ==
    /\ new \in Seq(EventRow)
    /\ \A n \in 1 .. Len(new) :
         /\ new[n].live /\ new[n].rule = r /\ new[n].by = by /\ new[n].at = at
         /\ new[n].for = new[n].day /\ Fits(new[n])
         /\ kind = "machi" => Unique(new[n], Live)
    /\ \A m, n \in 1 .. Len(new) : m < n => new[m].day < new[n].day

\* What a generator writes: those of the days that are free.
LEMMA RepeatsAre ==
    ASSUME NEW src \in EventRow, NEW r \in Nat, NEW days \in SUBSET Nat, IsFiniteSet(days), NEW seen
    PROVE  LET new == Repeats(src, r, days, seen)
           IN  /\ Alike(new, r, src.by, src.at)
               /\ \A n \in 1 .. Len(new) : new[n].day \in days
               /\ \A d \in days : Free(Row(src.by, d, src.at, src.family, r), seen)
                      => \E n \in 1 .. Len(new) : new[n].for = d
<1> DEFINE like(d) == Row(src.by, d, src.at, src.family, r)
           free == {d \in days : Free(like(d), seen)}
           N == Cardinality(free)
           got == Ascending(free)
           new == Repeats(src, r, days, seen)
<1>1. free \in SUBSET Nat /\ free \subseteq days /\ IsFiniteSet(free)
  <2>1. free \in SUBSET days
    OBVIOUS
  <2> HIDE DEF free
  <2> QED
    BY <2>1, FS_Subset
<1>2. N \in Nat /\ InOrder(got, N, free) /\ \A s \in free : \E n \in 1 .. N : got[n] = s
  <2> HIDE DEF free
  <2> QED
    BY <1>1, AscendingIs
<1>3. new = [n \in 1 .. N |-> like(got[n])]
  <2>1. DOMAIN got = 1 .. N
    <3> HIDE DEF got, N, free
    <3> QED
      BY <1>2 DEF InOrder
  <2> QED
    BY <2>1 DEF Repeats
<1>4. \A d \in Nat : like(d) \in EventRow /\ Fits(like(d))
  <2>1. src.by \in Mobed /\ src.at \in At /\ src.family \in Family
    BY DEF EventRow
  <2> QED
    BY <2>1, RowTyped
<1>5. \A d \in Nat : /\ like(d).live /\ like(d).rule = r /\ like(d).by = src.by /\ like(d).at = src.at
                     /\ like(d).for = d /\ like(d).day = d
  BY DEF Row
<1>6. \A d \in free : kind = "machi" => Unique(like(d), Live)
  BY DEF Free
<1>7. \A n \in 1 .. N : got[n] \in free /\ got[n] \in Nat
  <2> HIDE DEF free, got, N
  <2> QED
    BY <1>1, <1>2 DEF InOrder
<1>8. \A m, n \in 1 .. N : m < n => got[m] < got[n]
  <2> HIDE DEF free, got, N
  <2> QED
    BY <1>2 DEF InOrder
<1>9. new \in Seq(EventRow) /\ Len(new) = N /\ \A n \in 1 .. N : new[n] = like(got[n])
  <2>1. \A n \in 1 .. N : like(got[n]) \in EventRow
    <3> HIDE DEF like, got, N, free
    <3> QED
      BY <1>4, <1>7
  <2> HIDE DEF like, got, N, free, new
  <2> QED
    BY <1>2, <1>3, <2>1
<1>a. Alike(new, r, src.by, src.at)
  <2> HIDE DEF like, got, N, free, new
  <2>1. ASSUME NEW n \in 1 .. Len(new)
        PROVE  /\ new[n].live /\ new[n].rule = r /\ new[n].by = src.by /\ new[n].at = src.at
               /\ new[n].for = new[n].day /\ Fits(new[n])
               /\ kind = "machi" => Unique(new[n], Live)
    <3>1. new[n] = like(got[n]) /\ got[n] \in free /\ got[n] \in Nat
      BY <1>7, <1>9, <2>1
    <3> QED
      BY <1>4, <1>5, <1>6, <3>1
  <2>2. ASSUME NEW m \in 1 .. Len(new), NEW n \in 1 .. Len(new), m < n PROVE new[m].day < new[n].day
    <3>1. new[m].day = got[m] /\ new[n].day = got[n] /\ got[m] < got[n]
      BY <1>5, <1>7, <1>8, <1>9, <2>2
    <3> QED
      BY <3>1
  <2> QED
    BY <1>9, <2>1, <2>2 DEF Alike
<1>b. \A n \in 1 .. Len(new) : new[n].day \in days
  <2> HIDE DEF like, got, N, new
  <2> QED
    BY <1>1, <1>5, <1>7, <1>9
<1>c. ASSUME NEW d \in days, Free(like(d), seen) PROVE \E n \in 1 .. Len(new) : new[n].for = d
  <2>1. d \in free /\ d \in Nat
    BY <1>c
  <2> HIDE DEF like, got, N, free, new
  <2>2. PICK n \in 1 .. N : got[n] = d
    BY <1>2, <2>1
  <2>3. new[n] = like(d)
    BY <1>9, <2>2
  <2> QED
    BY <1>5, <1>9, <2>1, <2>2, <2>3
<1> QED
  BY <1>a, <1>b, <1>c

-----------------------------------------------------------------------------
(***************************************************************************)
(* Steps that add rows: of one repeat, or a ceremony by itself.            *)
(***************************************************************************)

\* The rows in new are added, and the others stay.
Grows(new) ==
    /\ events' \in Seq(EventRow) /\ Len(events') = Len(events) + Len(new)
    /\ \A i \in DOMAIN events : i \in DOMAIN events' /\ events'[i] = events[i]
    /\ \A n \in 1 .. Len(new) : Len(events) + n \in DOMAIN events' /\ events'[Len(events) + n] = new[n]
    /\ \A i \in DOMAIN events' : i \in DOMAIN events \/ \E n \in 1 .. Len(new) : i = Len(events) + n

\* Putting rows at the end adds them.
LEMMA ConcatGrows ==
    ASSUME events \in Seq(EventRow), NEW new \in Seq(EventRow), events' = events \o new
    PROVE  Grows(new)
<1>1. /\ Len(events) \in Nat /\ Len(new) \in Nat /\ DOMAIN events = 1 .. Len(events)
  BY LenProperties
<1>2. /\ events' \in Seq(EventRow) /\ Len(events') = Len(events) + Len(new)
      /\ \A i \in 1 .. Len(events) + Len(new) :
           events'[i] = IF i <= Len(events) THEN events[i] ELSE new[i - Len(events)]
  BY ConcatProperties
<1>3. DOMAIN events' = 1 .. Len(events) + Len(new)
  BY <1>2, LenProperties
<1>4. ASSUME NEW i \in DOMAIN events' PROVE i \in DOMAIN events \/ \E n \in 1 .. Len(new) : i = Len(events) + n
  <2>1. CASE i <= Len(events)
    BY <1>1, <1>3, <1>4, <2>1
  <2>2. CASE ~(i <= Len(events))
    <3>1. i - Len(events) \in 1 .. Len(new) /\ i = Len(events) + (i - Len(events))
      BY <1>1, <1>3, <1>4, <2>2
    <3> QED
      BY <3>1
  <2> QED
    BY <2>1, <2>2
<1>5. ASSUME NEW n \in 1 .. Len(new)
      PROVE  Len(events) + n \in DOMAIN events' /\ events'[Len(events) + n] = new[n]
  <2>1. Len(events) + n \in 1 .. Len(events) + Len(new) /\ ~(Len(events) + n <= Len(events))
        /\ Len(events) + n - Len(events) = n
    BY <1>1
  <2> QED
    BY <1>2, <1>3, <2>1
<1>6. \A i \in DOMAIN events : i \in DOMAIN events' /\ events'[i] = events[i]
  BY <1>1, <1>2, <1>3
<1> QED
  BY <1>2, <1>4, <1>5, <1>6 DEF Grows

\* One row more, on an earlier day, is still one repeat.
LEMMA AlikeWithSource ==
    ASSUME NEW src \in EventRow, NEW r, NEW rest, Alike(rest, r, src.by, src.at),
           src.live, src.rule = r, src.for = src.day, Fits(src), kind = "machi" => Unique(src, Live),
           \A n \in 1 .. Len(rest) : src.day < rest[n].day
    PROVE  /\ Alike(<<src>> \o rest, r, src.by, src.at)
           /\ Len(<<src>> \o rest) = Len(rest) + 1
           /\ (<<src>> \o rest)[1] = src
           /\ \A n \in 1 .. Len(rest) : (<<src>> \o rest)[n + 1] = rest[n]
           /\ \A n \in 1 .. Len(rest) + 1 : n = 1 \/ \E k \in 1 .. Len(rest) : n = k + 1
<1> DEFINE all == <<src>> \o rest
<1>1. <<src>> \in Seq(EventRow) /\ Len(<<src>>) = 1 /\ <<src>>[1] = src
  OBVIOUS
<1>2. rest \in Seq(EventRow) /\ Len(rest) \in Nat
  BY LenProperties DEF Alike
<1>3. /\ all \in Seq(EventRow) /\ Len(all) = 1 + Len(rest)
      /\ \A i \in 1 .. 1 + Len(rest) : all[i] = IF i <= 1 THEN <<src>>[i] ELSE rest[i - 1]
  <2> HIDE DEF all
  <2> QED
    BY <1>1, <1>2, ConcatProperties DEF all
<1>4. all[1] = src /\ \A n \in 1 .. Len(rest) : all[n + 1] = rest[n]
  <2> HIDE DEF all
  <2>1. all[1] = src
    BY <1>1, <1>2, <1>3
  <2>2. ASSUME NEW n \in 1 .. Len(rest) PROVE all[n + 1] = rest[n]
    <3>1. n + 1 \in 1 .. 1 + Len(rest) /\ ~(n + 1 <= 1) /\ (n + 1) - 1 = n
      BY <1>2
    <3> QED
      BY <1>3, <3>1
  <2> QED
    BY <2>1, <2>2
<1>5. \A n \in 1 .. Len(rest) + 1 : n = 1 \/ \E k \in 1 .. Len(rest) : n = k + 1
  <2> SUFFICES ASSUME NEW n \in 1 .. Len(rest) + 1, n # 1 PROVE \E k \in 1 .. Len(rest) : n = k + 1
    OBVIOUS
  <2>1. n - 1 \in 1 .. Len(rest) /\ n = (n - 1) + 1
    BY <1>2
  <2> QED
    BY <2>1
<1> HIDE DEF all
<1>6. ASSUME NEW n \in 1 .. Len(all)
      PROVE  /\ all[n].live /\ all[n].rule = r /\ all[n].by = src.by /\ all[n].at = src.at
             /\ all[n].for = all[n].day /\ Fits(all[n])
             /\ kind = "machi" => Unique(all[n], Live)
  <2>1. n = 1 \/ \E k \in 1 .. Len(rest) : n = k + 1
    BY <1>2, <1>3, <1>5
  <2> QED
    BY <1>4, <2>1 DEF Alike
<1>7. ASSUME NEW m \in 1 .. Len(all), NEW n \in 1 .. Len(all), m < n PROVE all[m].day < all[n].day
  <2>1. n # 1
    BY <1>2, <1>3, <1>7
  <2>2. PICK k \in 1 .. Len(rest) : n = k + 1
    BY <1>2, <1>3, <1>5, <2>1
  <2>3. CASE m = 1
    BY <1>4, <2>2, <2>3
  <2>4. CASE m # 1
    <3>1. PICK l \in 1 .. Len(rest) : m = l + 1
      BY <1>2, <1>3, <1>5, <2>4
    <3>2. l < k
      BY <1>2, <1>7, <2>2, <3>1
    <3> QED
      BY <1>4, <2>2, <3>1, <3>2 DEF Alike
  <2> QED
    BY <2>3, <2>4
<1> QED
  BY <1>2, <1>3, <1>4, <1>5, <1>6, <1>7 DEF Alike, all

\* Only the marker of a rule is moved.
LEMMA MarkerMoves ==
    ASSUME NEW rule \in RuleRow, NEW u \in Nat
    PROVE  LET full == [rule EXCEPT !.until = u]
           IN  /\ full \in RuleRow /\ full.until = u /\ full.source = rule.source /\ full.live = rule.live
               /\ full.end = rule.end /\ full.count = rule.count /\ full.start = rule.start
               /\ full.pattern = rule.pattern
BY DEF RuleRow

\* The dates of rows.
Dates(new) == {new[n].for : n \in 1 .. Len(new)}

\* A generator ran from a marker: it wrote the dates N, which for an event are
\* all that it tried, and its marker is the last of those.
Ran(until, pattern, end, N, u) ==
    \E roj \in 0 .. Rojs - 1, through \in Nat :
        LET days == Tries(until, roj, pattern, Reach(through, end))
        IN  u = Furthest(days, until) /\ N \in SUBSET days /\ (kind = "booking" => N = days)

\* The dates that are free, of an event all.
LEMMA FreeDates ==
    ASSUME NEW src \in EventRow, NEW r \in Nat, NEW days \in SUBSET Nat, IsFiniteSet(days), NEW seen
    PROVE  LET new == Repeats(src, r, days, seen)
           IN  Dates(new) \in SUBSET days /\ (kind = "booking" => Dates(new) = days)
<1> DEFINE new == Repeats(src, r, days, seen)
<1>1. /\ Alike(new, r, src.by, src.at)
      /\ \A n \in 1 .. Len(new) : new[n].day \in days
      /\ \A d \in days : Free(Row(src.by, d, src.at, src.family, r), seen)
             => \E n \in 1 .. Len(new) : new[n].for = d
  BY RepeatsAre
<1> HIDE DEF new
<1>2. \A n \in 1 .. Len(new) : new[n].for \in days
  BY <1>1 DEF Alike
<1>3. ASSUME kind = "booking", NEW d \in days PROVE d \in Dates(new)
  <2>1. Free(Row(src.by, d, src.at, src.family, r), seen)
    BY <1>3 DEF Free
  <2> QED
    BY <1>1, <2>1 DEF Dates
<1>4. Dates(new) \in SUBSET days
  BY <1>2 DEF Dates
<1> QED
  BY <1>3, <1>4 DEF new

\* A rule that is added with the rows it has so far.
AddsRepeat(new, rule) ==
    /\ rule \in RuleRow /\ rule.live /\ rule.source = Len(events) + 1
    /\ rules' = Append(rules, rule)
    /\ Len(new) >= 1 /\ \A n \in 1 .. Len(new) : new[n].for <= rule.until
    /\ rule.end = LastOf(rule.start, rule.pattern, rule.count)
    /\ \E N : Dates(new) = {rule.start} \cup N
              /\ Ran(rule.start, rule.pattern, rule.end, N, rule.until)

\* Adding writes nothing, one ceremony, or a repeat with its first dates.
LEMMA AddGrows ==
    ASSUME DiaryTypes, NEW c \in Call, Add(c)
    PROVE  \/ events' = events /\ rules' = rules
           \/ rules' = rules /\ \E new, by, at : Alike(new, 0, by, at) /\ Len(new) = 1 /\ Grows(new)
           \/ \E new, by, at, rule :
                Alike(new, Len(rules) + 1, by, at) /\ Grows(new) /\ AddsRepeat(new, rule)
<1> DEFINE a == calls[c]
<1>1. a.op = "add" /\ AddAsked(a)
  BY DEF Add, DiaryTypes, Asked, Idle
<1>2. events \in Seq(EventRow) /\ rules \in Seq(RuleRow) /\ Len(events) \in Nat /\ Len(rules) \in Nat
  BY LenProperties DEF DiaryTypes, Sane
<1> SUFFICES ASSUME Free(Row(a.by, a.day, a.at, a.family, 0), a.seen)
             PROVE  \/ rules' = rules /\ \E new, by, at : Alike(new, 0, by, at) /\ Len(new) = 1 /\ Grows(new)
                    \/ \E new, by, at, rule :
                         Alike(new, Len(rules) + 1, by, at) /\ Grows(new) /\ AddsRepeat(new, rule)
  BY DEF Add
<1>3. CASE a.repeat = Once
  <2> DEFINE src == Row(a.by, a.day, a.at, a.family, 0)
  <2>1. events' = Append(events, src) /\ rules' = rules
    BY <1>3 DEF Add
  <2>2. src \in EventRow /\ Fits(src)
    BY <1>1, RowTyped DEF AddAsked
  <2>3. src.live /\ src.rule = 0 /\ src.for = src.day
    BY DEF Row
  <2>4. kind = "machi" => Unique(src, Live)
    BY DEF Free
  <2> HIDE DEF src
  <2>5. Alike(<<src>>, 0, src.by, src.at)
    BY <2>2, <2>3, <2>4 DEF Alike
  <2>6. <<src>> \in Seq(EventRow) /\ events' = events \o <<src>> /\ Len(<<src>>) = 1
    BY <1>2, <2>1, <2>2
  <2>7. Grows(<<src>>)
    BY <1>2, <2>6, ConcatGrows
  <2> QED
    BY <2>1, <2>5, <2>6, <2>7
<1>4. CASE a.repeat # Once
  <2> DEFINE r == Len(rules) + 1
             src == Row(a.by, a.day, a.at, a.family, r)
             rule == NewRule(Len(events) + 1, a)
             through == DayAt(MonthOf(a.day) + Horizon * StepOf(rule.pattern), RojOf(a.day))
             days == Tries(a.day, RojOf(a.day), rule.pattern, Reach(through, rule.end))
             rest == Repeats(src, r, days, a.seen)
             new == <<src>> \o rest
             full == [rule EXCEPT !.until = Furthest(days, a.day)]
  <2>1. events' = Append(events, src) \o rest /\ rules' = Append(rules, full)
    BY <1>4 DEF Add
  <2>2. a.repeat \in Repeat /\ a.day \in Nat /\ a.by \in Mobed /\ a.at \in At /\ a.family \in Family
    BY <1>1, <1>4 DEF AddAsked
  <2>3. a.repeat.pattern \in Pattern /\ a.repeat.count \in Counts /\ a.repeat.count \in Nat
    BY <2>2, DiaryAssumption DEF Repeat
  <2>4. StepOf(a.repeat.pattern) \in Nat /\ RojOf(a.day) \in Nat /\ MonthOf(a.day) \in Nat
    BY <2>2, <2>3, StepIs, DayIsItsKey
  <2>5. \A m, j \in Nat : DayAt(m, j) \in Nat
    BY Products, DiaryAssumption DEF DayAt
  <2>6. rule.pattern = a.repeat.pattern /\ rule.live /\ rule.source = Len(events) + 1
        /\ rule.count = a.repeat.count /\ rule.start = a.day
        /\ rule.end = LastOf(a.day, a.repeat.pattern, a.repeat.count)
    BY DEF NewRule
  <2>7. rule.end \in Nat \cup {NoEnd}
    <3>1. a.repeat.count # 0 => (a.repeat.count - 1) * StepOf(a.repeat.pattern) \in Nat
      BY <2>3, <2>4, Products
    <3>2. a.repeat.count # 0
            => MonthOf(a.day) + (a.repeat.count - 1) * StepOf(a.repeat.pattern) \in Nat
      BY <2>4, <3>1
    <3> HIDE DEF rule
    <3> QED
      BY <2>4, <2>5, <2>6, <3>2 DEF LastOf
  <2>8. through \in Nat
    <3>1. MonthOf(a.day) + Horizon * StepOf(rule.pattern) \in Nat
      BY <2>4, <2>6, Products, DiaryAssumption
    <3> QED
      BY <2>4, <2>5, <3>1
  <2>9. Reach(through, rule.end) \in Nat
    <3> HIDE DEF rule, through
    <3> QED
      BY <2>7, <2>8 DEF Reach, NoEnd
  <2>a. days \in SUBSET Nat /\ IsFiniteSet(days) /\ \A d \in days : a.day < d
    <3> HIDE DEF rule, through
    <3> QED
      BY <2>2, <2>3, <2>4, <2>6, <2>9, TriesAre
  <2>b. /\ Furthest(days, a.day) \in Nat /\ a.day <= Furthest(days, a.day)
        /\ \A d \in days : d <= Furthest(days, a.day)
    <3> HIDE DEF days
    <3> QED
      BY <2>2, <2>a, FurthestIs
  <2>c. r \in Nat /\ src \in EventRow /\ Fits(src)
    BY <1>2, <2>2, RowTyped
  <2>d. src.live /\ src.rule = r /\ src.for = src.day /\ src.day = a.day
    BY DEF Row
  <2>e. kind = "machi" => Unique(src, Live)
    <3>1. KeyOf(src) = KeyOf(Row(a.by, a.day, a.at, a.family, 0))
      BY DEF Row, KeyOf
    <3> QED
      BY <3>1 DEF Free, Unique
  <2>f. Alike(rest, r, src.by, src.at) /\ \A n \in 1 .. Len(rest) : rest[n].day \in days
    <3> HIDE DEF src, r, days
    <3> QED
      BY <2>a, <2>c, RepeatsAre
  <2>g. \A n \in 1 .. Len(rest) : src.day < rest[n].day
    <3> HIDE DEF src, rest, days
    <3> QED
      BY <2>a, <2>d, <2>f
  <2>h. /\ Alike(new, r, src.by, src.at) /\ Len(new) = Len(rest) + 1
        /\ new[1] = src /\ \A n \in 1 .. Len(rest) : new[n + 1] = rest[n]
        /\ \A n \in 1 .. Len(rest) + 1 : n = 1 \/ \E k \in 1 .. Len(rest) : n = k + 1
    <3> HIDE DEF src, rest, r
    <3> QED
      BY <2>c, <2>d, <2>e, <2>f, <2>g, AlikeWithSource
  <2>i. rest \in Seq(EventRow) /\ Len(rest) \in Nat
    <3> HIDE DEF rest, days, src
    <3>1. rest \in Seq(EventRow)
      BY <2>f DEF Alike
    <3> QED
      BY <3>1, LenProperties
  <2>j. events' = events \o new
    <3> HIDE DEF src, rest
    <3>1. <<src>> \in Seq(EventRow) /\ Append(events, src) = events \o <<src>>
      BY <1>2, <2>c
    <3> QED
      BY <1>2, <2>1, <2>i, <3>1, ConcatAssociative
  <2>k. Grows(new)
    <3> HIDE DEF new
    <3>1. new \in Seq(EventRow)
      BY <2>h DEF Alike
    <3> QED
      BY <1>2, <2>j, <3>1, ConcatGrows
  <2>l. /\ full \in RuleRow /\ full.live /\ full.source = Len(events) + 1
        /\ full.until = Furthest(days, a.day) /\ full.end = rule.end /\ full.count = rule.count
        /\ full.start = rule.start /\ full.pattern = rule.pattern
    <3>1. rule \in RuleRow
      <4> DEFINE e == LastOf(a.day, a.repeat.pattern, a.repeat.count)
      <4>1. rule = [live |-> TRUE, active |-> TRUE, source |-> Len(events) + 1, pattern |-> a.repeat.pattern,
                    until |-> a.day, end |-> e, count |-> a.repeat.count, start |-> a.day]
        BY DEF NewRule
      <4>2. e \in Nat \cup {NoEnd}
        BY <2>6, <2>7
      <4> HIDE DEF rule, e
      <4> QED
        BY <1>2, <2>2, <2>3, <4>1, <4>2 DEF RuleRow
    <3> HIDE DEF rule, days
    <3> QED
      BY <2>6, <2>b, <3>1, MarkerMoves
  <2>m. \A n \in 1 .. Len(new) : new[n].for <= full.until
    <3> SUFFICES ASSUME NEW n \in 1 .. Len(new) PROVE new[n].for <= full.until
      OBVIOUS
    <3> HIDE DEF new, full, rest, src, days
    <3>1. CASE n = 1
      BY <2>b, <2>d, <2>h, <2>l, <3>1
    <3>2. CASE n # 1
      <4>1. PICK k \in 1 .. Len(rest) : n = k + 1
        BY <2>h, <3>2
      <4>2. new[n] = rest[k] /\ rest[k].day \in days /\ rest[k].for = rest[k].day
        BY <2>f, <2>h, <4>1 DEF Alike
      <4> QED
        BY <2>b, <2>l, <4>2
    <3> QED
      BY <3>1, <3>2
  <2>n. Dates(rest) \in SUBSET days /\ (kind = "booking" => Dates(rest) = days)
    <3> HIDE DEF src, r, days
    <3> QED
      BY <2>a, <2>c, FreeDates
  <2>o. Dates(new) = {a.day} \cup Dates(rest)
    <3> HIDE DEF new, full, rest, src, days
    <3>1. ASSUME NEW n \in 1 .. Len(new) PROVE new[n].for \in {a.day} \cup Dates(rest)
      <4>1. CASE n = 1
        BY <2>d, <2>h, <4>1
      <4>2. CASE n # 1
        <5>1. PICK k \in 1 .. Len(rest) : n = k + 1
          BY <2>h, <4>2
        <5> QED
          BY <2>h, <5>1 DEF Dates
      <4> QED
        BY <4>1, <4>2
    <3>2. ASSUME NEW k \in 1 .. Len(rest) PROVE rest[k].for \in Dates(new)
      <4>1. k + 1 \in 1 .. Len(new) /\ new[k + 1] = rest[k]
        BY <2>h, <2>i
      <4> QED
        BY <4>1 DEF Dates
    <3>3. a.day \in Dates(new)
      <4>1. 1 \in 1 .. Len(new) /\ new[1].for = a.day
        BY <2>d, <2>h, <2>i
      <4> QED
        BY <4>1 DEF Dates
    <3> QED
      BY <3>1, <3>2, <3>3 DEF Dates
  <2>p. Ran(a.day, rule.pattern, rule.end, Dates(rest), Furthest(days, a.day))
    <3>1. RojOf(a.day) \in 0 .. Rojs - 1
      BY <2>2, DayIsItsKey
    <3>2. days = Tries(a.day, RojOf(a.day), rule.pattern, Reach(through, rule.end))
      OBVIOUS
    <3> HIDE DEF rest, rule, through, days
    <3> QED
      BY <2>8, <2>n, <3>1, <3>2 DEF Ran
  <2>q. AddsRepeat(new, full)
    <3> HIDE DEF new, full, rest, rule, days
    <3>1. full.start = a.day /\ full.end = LastOf(full.start, full.pattern, full.count)
      BY <2>6, <2>l
    <3>2. \E N : Dates(new) = {full.start} \cup N
                 /\ Ran(full.start, full.pattern, full.end, N, full.until)
      BY <2>l, <2>o, <2>p, <3>1
    <3> QED
      BY <2>1, <2>h, <2>i, <2>l, <2>m, <3>1, <3>2, SMTT(30) DEF AddsRepeat
  <2> HIDE DEF new, full, src, rest
  <2> QED
    BY <2>h, <2>k, <2>q
<1> QED
  BY <1>3, <1>4

\* The dates that a top-up adds are after the marker it read, which it moves to
\* the last that it tried.
ToppedUp(r, row, new, u) ==
    /\ rules[r].live /\ u \in Nat /\ row.until <= u
    /\ rules' = [rules EXCEPT ![r].until = u]
    /\ \A n \in 1 .. Len(new) : row.until < new[n].for /\ new[n].for <= u
    /\ Ran(row.until, row.pattern, row.end, Dates(new), u)

\* A top-up writes nothing, stops its rule, or adds rows like its source.
LEMMA TopUpGrows ==
    ASSUME DiaryTypes, NEW c \in Call, TopUp(c)
    PROVE  \/ events' = events /\ rules' = rules
           \/ events' = events /\ rules' = [rules EXCEPT ![calls[c].rule].active = FALSE]
           \/ \E new, by, at, u :
                /\ Alike(new, calls[c].rule, by, at) /\ Grows(new)
                /\ ToppedUp(calls[c].rule, calls[c].row, new, u)
<1> DEFINE t == calls[c]
           r == t.rule
           src == events[t.row.source]
           days == Tries(t.row.until, src.roj, t.row.pattern, Reach(t.through, t.row.end))
           new == Repeats(src, r, days, t.seen)
           u == Furthest(days, t.row.until)
<1>1. t.op = "topup" /\ TopUpAsked(t, events, rules)
  BY SMTT(30) DEF TopUp, DiaryTypes, Asked, Idle
<1>2. events \in Seq(EventRow) /\ rules \in Seq(RuleRow) /\ Len(rules) \in Nat
  BY LenProperties DEF DiaryTypes, Sane
<1>3. src \in EventRow /\ r \in Nat /\ t.row \in RuleRow /\ t.through \in Nat
  BY <1>1, <1>2, ElementOfSeq, LenProperties DEF TopUpAsked
<1>4. src.roj \in 0 .. Rojs - 1 /\ src.roj \in Nat
  <2> HIDE DEF src
  <2>1. src.roj \in 0 .. Rojs - 1 /\ Rojs \in Nat
    BY <1>3, DiaryAssumption DEF EventRow
  <2> QED
    BY <2>1
<1>5. t.row.until \in Nat /\ t.row.pattern \in Pattern /\ t.row.end \in Nat \cup {NoEnd}
  BY <1>3 DEF RuleRow
<1>6. Reach(t.through, t.row.end) \in Nat
  BY <1>3, <1>5 DEF Reach, NoEnd
<1>7. days \in SUBSET Nat /\ IsFiniteSet(days) /\ \A d \in days : t.row.until < d
  <2> HIDE DEF src
  <2> QED
    BY <1>4, <1>5, <1>6, TriesAre
<1>8. u \in Nat /\ t.row.until <= u /\ \A d \in days : d <= u
  <2> HIDE DEF days
  <2> QED
    BY <1>5, <1>7, FurthestIs
<1>9. CASE rules[r].live /\ src.live
  <2>1. events' = events \o new /\ rules' = [rules EXCEPT ![r].until = u]
    BY <1>9 DEF TopUp
  <2>2. Alike(new, r, src.by, src.at) /\ \A n \in 1 .. Len(new) : new[n].day \in days
    <3> HIDE DEF src, days, r
    <3> QED
      BY <1>3, <1>7, RepeatsAre
  <2>3. Grows(new)
    <3> HIDE DEF new
    <3>1. new \in Seq(EventRow)
      BY <2>2 DEF Alike
    <3> QED
      BY <1>2, <2>1, <3>1, ConcatGrows
  <2>4. \A n \in 1 .. Len(new) : t.row.until < new[n].for /\ new[n].for <= u
    <3> HIDE DEF new, days, src, u
    <3> QED
      BY <1>7, <1>8, <2>2 DEF Alike
  <2>5. Dates(new) \in SUBSET days /\ (kind = "booking" => Dates(new) = days)
    <3> HIDE DEF src, days, r
    <3> QED
      BY <1>3, <1>7, FreeDates
  <2>6. Ran(t.row.until, t.row.pattern, t.row.end, Dates(new), u)
    <3>1. days = Tries(t.row.until, src.roj, t.row.pattern, Reach(t.through, t.row.end))
          /\ u = Furthest(days, t.row.until)
      OBVIOUS
    <3> HIDE DEF new, u, days, src
    <3> QED
      BY <1>3, <1>4, <2>5, <3>1 DEF Ran
  <2>7. ToppedUp(r, t.row, new, u)
    <3> HIDE DEF new, u, days, src
    <3> QED
      BY <1>8, <1>9, <2>1, <2>4, <2>6 DEF ToppedUp
  <2> HIDE DEF new, src, u
  <2> QED
    BY <2>2, <2>3, <2>7
<1>a. CASE ~rules[r].live
  BY <1>a DEF TopUp
<1>b. CASE rules[r].live /\ ~src.live
  BY <1>b DEF TopUp
<1> QED
  BY <1>9, <1>a, <1>b
-----------------------------------------------------------------------------
(***************************************************************************)
(* Rows and their repeats: what steps leave of them.                       *)
(***************************************************************************)

\* Rows are only added, and a ceremony keeps its repeat.
Later(ev, ru, ev2, ru2) ==
    /\ DOMAIN ev \subseteq DOMAIN ev2 /\ DOMAIN ru \subseteq DOMAIN ru2
    /\ \A i \in DOMAIN ev : ev2[i].rule = ev[i].rule

\* What a request knows stays true.
LEMMA AskedStays ==
    ASSUME NEW a, NEW ev, NEW ru, NEW ev2, NEW ru2, Asked(a, ev, ru), Later(ev, ru, ev2, ru2)
    PROVE  Asked(a, ev2, ru2)
<1>1. ASSUME TopUpAsked(a, ev, ru) PROVE TopUpAsked(a, ev2, ru2)
  BY <1>1 DEF TopUpAsked, Later
<1>2. ASSUME EditAsked(a, ev) PROVE EditAsked(a, ev2)
  BY <1>2 DEF EditAsked, Later
<1>3. ASSUME DeleteAsked(a, ev) PROVE DeleteAsked(a, ev2)
  <2>1. \A i \in DOMAIN ev : i \in DOMAIN ev2 /\ ev2[i].rule = ev[i].rule
    BY DEF Later
  <2> QED
    BY <1>3, <2>1 DEF DeleteAsked
<1> QED
  BY <1>1, <1>2, <1>3 DEF Asked

\* A request that ends has nothing to know.
LEMMA FinishedAsks ==
    ASSUME DiaryTypes, NEW c \in Call, Finish(c), Later(events, rules, events', rules'),
           Sane(events', rules'), Linked(events', rules')
    PROVE  DiaryTypes'
<1>1. kind' = kind /\ now' = now /\ calls' = [calls EXCEPT ![c] = Idle]
  BY DEF Finish
<1>2. calls = [b \in Call |-> calls[b]] /\ \A b \in Call : Asked(calls[b], events, rules)
  BY DEF DiaryTypes
<1>3. calls' = [b \in Call |-> calls'[b]] /\ \A b \in Call : calls'[b] = calls[b] \/ calls'[b] = Idle
  BY <1>1, <1>2
<1>4. ASSUME NEW b \in Call PROVE Asked(calls'[b], events', rules')
  <2>1. Asked(calls[b], events', rules')
    BY <1>2, AskedStays
  <2>2. Asked(Idle, events', rules')
    BY DEF Asked
  <2> QED
    BY <1>3, <2>1, <2>2
<1> QED
  BY <1>1, <1>3, <1>4 DEF DiaryTypes

\* Rows of a repeat are added, and its rule or no rule is written.
LEMMA GrowsIsSane ==
    ASSUME Sane(events, rules), Linked(events, rules), NEW new, NEW by, NEW at, NEW r \in Nat,
           Alike(new, r, by, at), Grows(new),
           rules' \in Seq(RuleRow), r \in 0 .. Len(rules'), Len(rules) <= Len(rules'),
           r # 0 => rules'[r].live,
           \A q \in DOMAIN rules' :
                \/ /\ q = r /\ rules'[q].source = Len(events) + 1 /\ Len(new) >= 1
                \/ /\ q \in DOMAIN rules /\ rules'[q].source = rules[q].source
                   /\ rules'[q].live = rules[q].live
    PROVE  Sane(events', rules') /\ Linked(events', rules') /\ Later(events, rules, events', rules')
<1>1. /\ events \in Seq(EventRow) /\ rules \in Seq(RuleRow) /\ Len(events) \in Nat /\ Len(rules) \in Nat
      /\ Len(rules') \in Nat /\ DOMAIN events = 1 .. Len(events) /\ DOMAIN rules = 1 .. Len(rules)
      /\ DOMAIN rules' = 1 .. Len(rules')
  BY LenProperties DEF Sane
<1>2. /\ events' \in Seq(EventRow)
      /\ \A i \in DOMAIN events : i \in DOMAIN events' /\ events'[i] = events[i]
      /\ \A n \in 1 .. Len(new) : Len(events) + n \in DOMAIN events' /\ events'[Len(events) + n] = new[n]
      /\ \A i \in DOMAIN events' : i \in DOMAIN events \/ \E n \in 1 .. Len(new) : i = Len(events) + n
  BY DEF Grows
<1>3. \A n \in 1 .. Len(new) : new[n].live /\ new[n].rule = r
  BY DEF Alike
<1>4. \A i \in DOMAIN events' :
        \/ i \in DOMAIN events /\ events'[i] = events[i]
        \/ events'[i].live /\ events'[i].rule = r
  BY <1>2, <1>3, SMTT(30)
<1>5. ASSUME NEW i \in DOMAIN events'
      PROVE  events'[i].rule \in 0 .. Len(rules')
  BY <1>1, <1>4 DEF Sane
<1>6. ASSUME NEW q \in DOMAIN rules'
      PROVE  /\ rules'[q].source \in DOMAIN events' /\ events'[rules'[q].source].rule = q
             /\ rules'[q].live => events'[rules'[q].source].live
  <2>1. CASE q = r /\ rules'[q].source = Len(events) + 1 /\ Len(new) >= 1
    <3>1. 1 \in 1 .. Len(new)
      <4>1. Len(new) \in Nat
        BY LenProperties DEF Alike
      <4> QED
        BY <2>1, <4>1
    <3> QED
      BY <1>2, <1>3, <2>1, <3>1
  <2>2. CASE /\ q \in DOMAIN rules /\ rules'[q].source = rules[q].source
             /\ rules'[q].live = rules[q].live
    BY <1>2, <2>2 DEF Sane, Linked
  <2> QED
    BY <2>1, <2>2
<1>7. ASSUME NEW i \in DOMAIN events', events'[i].live, events'[i].rule # 0
      PROVE  rules'[events'[i].rule].live
  <2>1. CASE events'[i].rule = r
    BY <1>7, <2>1
  <2>2. CASE events'[i].rule # r
    <3>1. i \in DOMAIN events /\ events'[i] = events[i]
      BY <1>4, <2>2
    <3>2. events[i].rule \in DOMAIN rules /\ rules[events[i].rule].live
      BY <1>1, <1>7, <3>1 DEF Sane, Linked
    <3>3. events[i].rule \in DOMAIN rules'
      BY <1>1, <3>2
    <3> QED
      BY <2>2, <3>1, <3>2, <3>3
  <2> QED
    BY <2>1, <2>2
<1>8. Later(events, rules, events', rules')
  BY <1>1, <1>2 DEF Later
<1> QED
  BY <1>2, <1>5, <1>6, <1>7, <1>8 DEF Sane, Linked
-----------------------------------------------------------------------------
(***************************************************************************)
(* Steps that take rows away.                                              *)
(***************************************************************************)

\* A ceremony keeps all but whether it is there, and does not come back.
Kept(old, row) ==
    /\ row.by = old.by /\ row.rule = old.rule /\ row.for = old.for
    /\ TimeOf(row) = TimeOf(old) /\ (row.live => old.live)
Cut(ev, ev2) == DOMAIN ev2 = DOMAIN ev /\ \A i \in DOMAIN ev : Kept(ev[i], ev2[i])

\* A rule keeps its dates, and only those of Q are written at all.
DatesOf(row) == <<row.until, row.end, row.count, row.start, row.pattern>>
Steered(ru, ru2, Q) ==
    /\ DOMAIN ru2 = DOMAIN ru
    /\ \A q \in DOMAIN ru : DatesOf(ru2[q]) = DatesOf(ru[q]) /\ (q \in Q \/ ru2[q] = ru[q])

\* Cutting twice is cutting.
LEMMA CutTwice ==
    ASSUME NEW ev, NEW ev1, NEW ev2, Cut(ev, ev1), Cut(ev1, ev2)
    PROVE  Cut(ev, ev2)
BY DEF Cut, Kept
\* Rules that are steered twice are steered.
LEMMA SteeredTwice ==
    ASSUME NEW Q, NEW P, NEW ru, NEW ru1, NEW ru2, Steered(ru, ru1, Q), Steered(ru1, ru2, P), P \subseteq Q
    PROVE  Steered(ru, ru2, Q)
BY DEF Steered

\* Without some rows.
LEMMA WithoutIs ==
    ASSUME NEW ev \in Seq(EventRow), NEW victims
    PROVE  /\ Without(ev, victims) \in Seq(EventRow) /\ Cut(ev, Without(ev, victims))
           /\ \A i \in DOMAIN ev : Without(ev, victims)[i].live <=> ev[i].live /\ i \notin victims
<1> DEFINE left == Without(ev, victims)
<1>1. Len(ev) \in Nat /\ DOMAIN ev = 1 .. Len(ev) /\ \A i \in DOMAIN ev : ev[i] \in EventRow
  BY LenProperties, ElementOfSeq
<1>2. left = [i \in 1 .. Len(ev) |-> left[i]]
  BY <1>1 DEF Without
<1>3. ASSUME NEW i \in DOMAIN ev
      PROVE  /\ left[i] \in EventRow /\ Kept(ev[i], left[i])
             /\ left[i].live <=> ev[i].live /\ i \notin victims
  <2>1. left[i] = IF i \in victims THEN [ev[i] EXCEPT !.live = FALSE] ELSE ev[i]
    BY DEF Without
  <2> HIDE DEF left
  <2>2. CASE i \in victims
    <3>1. PICK row \in EventRow : row = ev[i]
      BY <1>1
    <3>2. left[i] = [row EXCEPT !.live = FALSE]
      BY <2>1, <2>2, <3>1
    <3>3. [row EXCEPT !.live = FALSE] \in EventRow /\ [row EXCEPT !.live = FALSE].live = FALSE
          /\ Kept(row, [row EXCEPT !.live = FALSE])
      BY DEF EventRow, Kept, TimeOf
    <3> QED
      BY <2>2, <3>1, <3>2, <3>3
  <2>3. CASE i \notin victims
    BY <1>1, <2>1, <2>3 DEF Kept
  <2> QED
    BY <2>2, <2>3
<1> HIDE DEF left
<1>4. left \in Seq(EventRow) /\ DOMAIN left = DOMAIN ev
  BY <1>1, <1>2, <1>3
<1> QED
  BY <1>3, <1>4 DEF Cut, left

\* Ceremonies without a repeat are taken away.
LEMMA CutAlone ==
    ASSUME NEW ev, NEW ru, Sane(ev, ru), Linked(ev, ru),
           NEW victims \in SUBSET DOMAIN ev, \A v \in victims : ev[v].rule = 0
    PROVE  Sane(Without(ev, victims), ru) /\ Linked(Without(ev, victims), ru)
<1> DEFINE left == Without(ev, victims)
<1>1. /\ left \in Seq(EventRow) /\ Cut(ev, left)
      /\ \A i \in DOMAIN ev : left[i].live <=> ev[i].live /\ i \notin victims
  BY WithoutIs DEF Sane
<1> HIDE DEF left
<1>2. DOMAIN left = DOMAIN ev /\ \A i \in DOMAIN ev : left[i].rule = ev[i].rule
  BY <1>1 DEF Cut, Kept
<1>3. DOMAIN ru = 1 .. Len(ru) /\ Len(ru) \in Nat
  BY LenProperties DEF Sane
<1>4. \A r \in DOMAIN ru : ru[r].source \in DOMAIN ev /\ ru[r].source \notin victims
  BY <1>3 DEF Sane
<1>5. Sane(left, ru)
  BY <1>1, <1>2 DEF Sane
<1>6. Linked(left, ru)
  BY <1>1, <1>2, <1>4 DEF Linked
<1> QED
  BY <1>5, <1>6 DEF left

\* Ceremonies of a repeat are taken away, and its rule points at one that stays
\* or goes with the last.
LEMMA CutIsSane ==
    ASSUME NEW ev, NEW ru, Sane(ev, ru), Linked(ev, ru),
           NEW r \in DOMAIN ru, NEW row \in RuleRow,
           NEW victims \in SUBSET DOMAIN ev, \A v \in victims : ev[v].rule = r,
           row.source \in DOMAIN ev, ev[row.source].rule = r,
           row.live => row.source \notin victims /\ ev[row.source].live,
           ~row.live => \A i \in DOMAIN ev \ victims : ~(ev[i].live /\ ev[i].rule = r)
    PROVE  /\ Sane(Without(ev, victims), [ru EXCEPT ![r] = row])
           /\ Linked(Without(ev, victims), [ru EXCEPT ![r] = row])
<1> DEFINE left == Without(ev, victims)
           ru2 == [ru EXCEPT ![r] = row]
<1>1. /\ left \in Seq(EventRow) /\ Cut(ev, left)
      /\ \A i \in DOMAIN ev : left[i].live <=> ev[i].live /\ i \notin victims
  BY WithoutIs DEF Sane
<1> HIDE DEF left
<1>2. DOMAIN left = DOMAIN ev /\ \A i \in DOMAIN ev : left[i].rule = ev[i].rule
  BY <1>1 DEF Cut, Kept
<1>3. ru \in Seq(RuleRow) /\ DOMAIN ru = 1 .. Len(ru) /\ Len(ru) \in Nat
  BY LenProperties DEF Sane
<1>4. /\ ru2 \in Seq(RuleRow) /\ Len(ru2) = Len(ru) /\ DOMAIN ru2 = DOMAIN ru /\ ru2[r] = row
      /\ \A q \in DOMAIN ru : q # r => ru2[q] = ru[q]
  BY <1>3
<1> HIDE DEF ru2
<1>5. Sane(left, ru2)
  <2>1. \A i \in DOMAIN left : left[i].rule \in 0 .. Len(ru2)
    BY <1>2, <1>4 DEF Sane
  <2>2. ASSUME NEW q \in DOMAIN ru2
        PROVE  ru2[q].source \in DOMAIN left /\ left[ru2[q].source].rule = q
    <3>1. ru2[q].source \in DOMAIN ev /\ ev[ru2[q].source].rule = q
      BY <1>4, <2>2 DEF Sane
    <3> QED
      BY <1>2, <3>1
  <2> QED
    BY <1>1, <1>4, <2>1, <2>2 DEF Sane
<1>6. ASSUME NEW q \in DOMAIN ru2, ru2[q].live PROVE left[ru2[q].source].live
  <2>1. CASE q = r
    BY <1>1, <1>4, <1>6, <2>1
  <2>2. CASE q # r
    <3>1. ru2[q] = ru[q] /\ ru[q].source \in DOMAIN ev /\ ev[ru[q].source].rule = q /\ ev[ru[q].source].live
      BY <1>4, <1>6, <2>2 DEF Sane, Linked
    <3>2. ru[q].source \notin victims
      BY <2>2, <3>1
    <3> QED
      BY <1>1, <3>1, <3>2
  <2> QED
    BY <2>1, <2>2
<1>7. ASSUME NEW i \in DOMAIN left, left[i].live, left[i].rule # 0 PROVE ru2[left[i].rule].live
  <2>1. i \in DOMAIN ev /\ ev[i].live /\ i \notin victims /\ left[i].rule = ev[i].rule
    BY <1>1, <1>2, <1>7
  <2>2. CASE ev[i].rule = r
    BY <1>4, <2>1, <2>2
  <2>3. CASE ev[i].rule # r
    <3>1. ev[i].rule \in DOMAIN ru
      BY <1>3, <1>7, <2>1 DEF Sane
    <3> QED
      BY <1>4, <1>7, <2>1, <2>3, <3>1 DEF Linked
  <2> QED
    BY <2>2, <2>3
<1>8. Linked(left, ru2)
  BY <1>6, <1>7 DEF Linked
<1> QED
  BY <1>5, <1>8 DEF left, ru2

\* Some ceremony is the earliest, by its order and then its id.
LEMMA EarliestIs ==
    ASSUME NEW ev \in Seq(EventRow), NEW ids \in SUBSET DOMAIN ev, ids # {}
    PROVE  Earliest(ev, ids) \in ids
<1>1. DOMAIN ev \subseteq Nat /\ \A i \in DOMAIN ev : OrderOf(ev[i]) \in Nat
  <2>1. DOMAIN ev = 1 .. Len(ev) /\ Len(ev) \in Nat
    BY LenProperties
  <2>2. ASSUME NEW i \in DOMAIN ev PROVE OrderOf(ev[i]) \in Nat
    <3>1. ev[i] \in EventRow
      BY <2>1, ElementOfSeq
    <3> QED
      BY <3>1 DEF EventRow, OrderOf
  <2> QED
    BY <2>1, <2>2
<1> DEFINE times == {OrderOf(ev[i]) : i \in ids}
<1>2. PICK m \in times : \A x \in times : m <= x
  <2>1. times \in SUBSET Nat /\ times # {}
    BY <1>1
  <2> HIDE DEF times
  <2> QED
    BY <2>1, LeastNat
<1> DEFINE first == {i \in ids : OrderOf(ev[i]) = m}
<1>3. PICK i \in first : \A j \in first : i <= j
  <2>1. first \in SUBSET Nat /\ first # {}
    BY <1>1, <1>2
  <2> HIDE DEF first
  <2> QED
    BY <2>1, LeastNat
<1>4. i \in ids /\ \A j \in ids : OrderOf(ev[i]) < OrderOf(ev[j])
                                  \/ (OrderOf(ev[i]) = OrderOf(ev[j]) /\ i <= j)
  <2> SUFFICES ASSUME NEW j \in ids
               PROVE  OrderOf(ev[i]) < OrderOf(ev[j]) \/ (OrderOf(ev[i]) = OrderOf(ev[j]) /\ i <= j)
    BY <1>3
  <2>1. OrderOf(ev[i]) = m /\ m <= OrderOf(ev[j]) /\ m \in Nat /\ OrderOf(ev[j]) \in Nat
    BY <1>1, <1>2, <1>3
  <2>2. OrderOf(ev[j]) = m => i <= j
    BY <1>3
  <2> QED
    BY <2>1, <2>2
<1> QED
  BY <1>4 DEF Earliest

\* A rule as a delete leaves it, in one line.
LEMMA RepointedIs ==
    ASSUME NEW ev, NEW row \in RuleRow, NEW d,
           NEW new, new = Repointed(ev, row, d)
    PROVE  /\ row.source \notin d.victims => new.live = row.live /\ new.source = row.source
           /\ row.source \in d.victims /\ d.survivors = {} => ~new.live /\ new.source = row.source
           /\ row.source \in d.victims /\ d.survivors # {}
                => new.live = row.live /\ new.source = Earliest(ev, d.survivors)
           /\ new.live \in BOOLEAN /\ new.active \in BOOLEAN /\ DatesOf(new) = DatesOf(row)
BY DEF Repointed, RuleRow, DatesOf

\* The columns that it changes, written over the current ones.
LEMMA OverIs ==
    ASSUME NEW current \in RuleRow, NEW row \in RuleRow, NEW new,
           new.live \in BOOLEAN, new.active \in BOOLEAN, new.source \in Nat,
           NEW next, next = Over(current, row, new)
    PROVE  next \in RuleRow
BY DEF Over, RuleRow
\* Nor does it change what a rule says of its dates.
LEMMA OverDates ==
    ASSUME NEW current \in RuleRow, NEW row \in RuleRow, NEW new, NEW next, next = Over(current, row, new)
    PROVE  DatesOf(next) = DatesOf(current)
BY DEF Over, RuleRow, DatesOf
\* Its source is the one that was written, if one was.
LEMMA OverSource ==
    ASSUME NEW current \in RuleRow, NEW row \in RuleRow, NEW new, NEW next, next = Over(current, row, new)
    PROVE  /\ new.source = row.source => next.source = current.source
           /\ new.source # row.source => next.source = new.source
BY DEF Over, RuleRow
\* And it is gone once it was deleted.
LEMMA OverLive ==
    ASSUME NEW current \in RuleRow, NEW row \in RuleRow, NEW new, NEW next, next = Over(current, row, new)
    PROVE  next.live = (current.live /\ new.live)
BY DEF Over, RuleRow

\* Writing no column changes nothing.
LEMMA OverNothing ==
    ASSUME NEW current \in RuleRow, NEW row \in RuleRow, row.live = TRUE
    PROVE  Over(current, row, row) = current
<1>1. Over(current, row, row)
        = [current EXCEPT !.live = current.live, !.active = current.active, !.source = current.source]
  BY DEF Over, RuleRow
<1> QED
  BY <1>1 DEF RuleRow

\* A delete takes rows away and points their rule at one that stays.
LEMMA DeleteCuts ==
    ASSUME DiaryTypes, NEW c \in Call, Delete(c)
    PROVE  /\ Sane(events', rules') /\ Linked(events', rules')
           /\ Cut(events, events') /\ Steered(rules, rules', {r \in DOMAIN rules : ~Locked(r)})
<1> DEFINE ask == calls[c]
           r == events[ask.event].rule
           wrote == Repointed(events, ask.row, ask)
           after == Over(rules[r], ask.row, wrote)
<1>1. ask.op = "delete" /\ DeleteAsked(ask, events)
  BY DEF Delete, DiaryTypes, Asked, Idle
<1>2. Sane(events, rules) /\ Linked(events, rules) /\ events \in Seq(EventRow) /\ rules \in Seq(RuleRow)
      /\ DOMAIN rules = 1 .. Len(rules)
  BY LenProperties DEF DiaryTypes, Sane
<1>3. CASE events' = events /\ rules' = rules
  BY <1>2, <1>3 DEF Cut, Kept, Steered
<1>4. CASE r = 0 /\ events' = Without(events, ask.victims) /\ rules' = rules
  <2>1. ask.victims \in SUBSET DOMAIN events /\ \A v \in ask.victims : events[v].rule = 0
    BY <1>1, <1>4 DEF DeleteAsked
  <2>2. Sane(events', rules') /\ Linked(events', rules')
    BY <1>2, <1>4, <2>1, CutAlone
  <2>3. Cut(events, events')
    BY <1>2, <1>4, WithoutIs
  <2> QED
    BY <1>4, <2>2, <2>3 DEF Steered
<1>5. CASE /\ r # 0 /\ (wrote # ask.row => ~Locked(r)) /\ ~Refused(events, rules, ask, r, wrote)
           /\ events' = Without(events, ask.victims)
           /\ rules' = [rules EXCEPT ![r] = after]
  <2>1. r \in DOMAIN rules /\ rules[r] \in RuleRow
    <3>1. r \in DOMAIN rules
      BY <1>1, <1>2, <1>5 DEF Sane, DeleteAsked
    <3> QED
      BY <1>2, <3>1, ElementOfSeq
  <2>2. ask.row \in RuleRow /\ ask.row.live /\ ask.row.source \in DOMAIN events /\ events[ask.row.source].rule = r
    BY <1>1, <1>5 DEF DeleteAsked
  <2>3. ask.survivors # {} => Earliest(events, ask.survivors) \in ask.survivors
    BY <1>1, <1>2, EarliestIs DEF DeleteAsked
  <2>4. wrote.live \in BOOLEAN /\ wrote.active \in BOOLEAN /\ wrote.source \in DOMAIN events
        /\ events[wrote.source].rule = r
    <3>1. ask.row \in RuleRow
      BY <2>2
    <3>2. \A s \in ask.survivors : s \in DOMAIN events /\ events[s].rule = r
      BY <1>1 DEF DeleteAsked
    <3> HIDE DEF wrote, ask, r
    <3>3. wrote.live \in BOOLEAN /\ wrote.active \in BOOLEAN
      BY <3>1, RepointedIs DEF wrote
    <3>4. wrote.source = ask.row.source \/ (ask.survivors # {} /\ wrote.source = Earliest(events, ask.survivors))
      <4>1. /\ ask.row.source \notin ask.victims => wrote.source = ask.row.source
            /\ ask.row.source \in ask.victims /\ ask.survivors = {} => wrote.source = ask.row.source
            /\ ask.row.source \in ask.victims /\ ask.survivors # {}
                 => wrote.source = Earliest(events, ask.survivors)
        BY <3>1, RepointedIs DEF wrote
      <4> QED
        BY <4>1
    <3> QED
      BY <2>2, <2>3, <3>2, <3>3, <3>4
  <2>5. /\ after \in RuleRow /\ DatesOf(after) = DatesOf(rules[r])
        /\ after.live <=> rules[r].live /\ wrote.live
        /\ after.source = IF wrote.source = ask.row.source THEN rules[r].source ELSE wrote.source
        /\ wrote = ask.row => after = rules[r]
    <3>1. wrote.source \in Nat
      BY <1>2, <2>4, LenProperties
    <3>2. ask.row \in RuleRow /\ rules[r] \in RuleRow
      BY <2>1, <2>2
    <3> HIDE DEF wrote, ask, r, after
    <3>3. /\ after \in RuleRow /\ DatesOf(after) = DatesOf(rules[r])
          /\ after.live <=> rules[r].live /\ wrote.live
          /\ after.source = IF wrote.source = ask.row.source THEN rules[r].source ELSE wrote.source
          /\ wrote = ask.row /\ ask.row.live => after = rules[r]
      <4>1. after = Over(rules[r], ask.row, wrote)
        BY DEF after
      <4>2. wrote.live \in BOOLEAN /\ wrote.active \in BOOLEAN
        BY <2>4
      <4>3. after \in RuleRow /\ DatesOf(after) = DatesOf(rules[r])
        <5>1. DatesOf(after) = DatesOf(rules[r])
          BY <3>2, <4>1, OverDates
        <5>2. after \in RuleRow
          BY <3>1, <3>2, <4>1, <4>2, OverIs
        <5> QED
          BY <5>1, <5>2
      <4>4. after.source = IF wrote.source = ask.row.source THEN rules[r].source ELSE wrote.source
        <5>1. wrote.source = ask.row.source => after.source = rules[r].source
          BY <3>2, <4>1, OverSource
        <5>2. wrote.source # ask.row.source => after.source = wrote.source
          BY <3>2, <4>1, OverSource
        <5> QED
          BY <5>1, <5>2
      <4>5. after.live <=> rules[r].live /\ wrote.live
        <5>1. after.live = (rules[r].live /\ wrote.live)
          BY <3>2, <4>1, OverLive
        <5> QED
          BY <5>1
      <4>6. wrote = ask.row /\ ask.row.live => after = rules[r]
        <5>1. ask.row.live = TRUE /\ wrote = ask.row => after = rules[r]
          BY <3>2, <4>1, OverNothing
        <5> QED
          BY <3>2, <5>1 DEF RuleRow
      <4> QED
        BY <4>3, <4>4, <4>5, <4>6
    <3> QED
      BY <2>2, <3>3
  <2>6. after.source \in DOMAIN events /\ events[after.source].rule = r
    <3> HIDE DEF wrote, ask, r, after
    <3> QED
      BY <1>2, <2>1, <2>4, <2>5 DEF Sane
  <2>7. after.live => after.source \notin ask.victims /\ events[after.source].live
    BY <1>5 DEF Refused
  <2>8. ~after.live => \A i \in DOMAIN events \ ask.victims : ~(events[i].live /\ events[i].rule = r)
    BY <1>5 DEF Refused
  <2>9. ask.victims \in SUBSET DOMAIN events /\ \A v \in ask.victims : events[v].rule = r
    BY <1>1 DEF DeleteAsked
  <2> HIDE DEF after, wrote, ask, r
  <2>a. Sane(events', rules') /\ Linked(events', rules')
    BY <1>2, <1>5, <2>1, <2>5, <2>6, <2>7, <2>8, <2>9, CutIsSane
  <2>b. Cut(events, events')
    BY <1>2, <1>5, WithoutIs
  <2>c. Steered(rules, rules', {q \in DOMAIN rules : ~Locked(q)})
    <3>1. rules' = [rules EXCEPT ![r] = after] /\ (Locked(r) => after = rules[r])
      BY <1>5, <2>5
    <3>2. DOMAIN rules' = DOMAIN rules /\ rules'[r] = after /\ \A q \in DOMAIN rules : q # r => rules'[q] = rules[q]
      BY <1>5, <2>1
    <3> QED
      BY <2>5, <3>1, <3>2 DEF Steered
  <2> QED
    BY <2>a, <2>b, <2>c
<1>6. \/ events' = events /\ rules' = rules
      \/ r = 0 /\ events' = Without(events, ask.victims) /\ rules' = rules
      \/ /\ r # 0 /\ (wrote # ask.row => ~Locked(r)) /\ ~Refused(events, rules, ask, r, wrote)
         /\ events' = Without(events, ask.victims)
         /\ rules' = [rules EXCEPT ![r] = after]
  BY DEF Delete
<1> QED
  BY <1>3, <1>4, <1>5, <1>6
-----------------------------------------------------------------------------
(***************************************************************************)
(* A family's removal: one delete after another.                           *)
(***************************************************************************)

\* A ceremony of the same repeat, no earlier than ceremony i.
NoEarlier(ev, k, i) == ev[i].rule # 0 /\ ev[k].rule = ev[i].rule /\ OrderOf(ev[k]) >= OrderOf(ev[i])

\* A delete of a ceremony and the later ones of its repeat takes no others.
LEMMA DeleteLaterCuts ==
    ASSUME NEW s, Sane(s.events, s.rules), Linked(s.events, s.rules),
           NEW i \in DOMAIN s.events, NEW t, t = DeleteLater(s, i)
    PROVE  /\ Sane(t.events, t.rules) /\ Linked(t.events, t.rules)
           /\ Cut(s.events, t.events) /\ Steered(s.rules, t.rules, {s.events[i].rule})
           /\ \A k \in DOMAIN s.events :
                s.events[k].live => t.events[k].live \/ k = i \/ NoEarlier(s.events, k, i)
<1> DEFINE ev == s.events
           ru == s.rules
           ask == DeleteOf(ev, ru, i, TRUE)
           r == ev[i].rule
           after == Repointed(ev, ru[r], ask)
<1>1. /\ ev \in Seq(EventRow) /\ ru \in Seq(RuleRow) /\ r \in 0 .. Len(ru) /\ DOMAIN ru = 1 .. Len(ru)
      /\ Len(ru) \in Nat
  BY LenProperties DEF Sane
<1>2. CASE t = s
  BY <1>2 DEF Cut, Kept, Steered
<1> SUFFICES ASSUME ev[i].live, t # s
             PROVE  /\ Sane(t.events, t.rules) /\ Linked(t.events, t.rules)
                    /\ Cut(ev, t.events) /\ Steered(ru, t.rules, {r})
                    /\ \A k \in DOMAIN ev : ev[k].live => t.events[k].live \/ k = i \/ NoEarlier(ev, k, i)
  BY <1>2 DEF DeleteLater
<1>3. /\ t.events = Without(ev, ask.victims)
      /\ t.rules = IF r = 0 THEN ru ELSE [ru EXCEPT ![r] = after]
  BY DEF DeleteLater
<1>4. ask.victims = Victims(ev, i, TRUE) /\ ask.survivors = Survivors(ev, i, ask.victims)
  BY DEF DeleteOf
<1>5. /\ Cut(ev, t.events)
      /\ \A k \in DOMAIN ev : t.events[k].live <=> ev[k].live /\ k \notin ask.victims
  <2> HIDE DEF ask, ev
  <2> QED
    BY <1>1, <1>3, WithoutIs
<1>6. CASE r = 0
  <2>1. ask.victims = {i} /\ t.rules = ru
    BY <1>3, <1>4, <1>6 DEF Victims
  <2> HIDE DEF ask
  <2>2. Sane(t.events, t.rules) /\ Linked(t.events, t.rules)
    BY <1>3, <1>6, <2>1, CutAlone
  <2> QED
    BY <1>5, <2>1, <2>2 DEF Steered
<1>7. CASE r # 0
  <2>1. ask.victims = {j \in DOMAIN ev : ev[j].live /\ ev[j].rule = r /\ OrderOf(ev[j]) >= OrderOf(ev[i])}
    BY <1>4, <1>7 DEF Victims
  <2>2. ask.survivors = {j \in DOMAIN ev : ev[j].live /\ ev[j].rule = r} \ ask.victims
    BY <1>4, <1>7 DEF Survivors
  <2>3. r \in DOMAIN ru /\ t.rules = [ru EXCEPT ![r] = after]
    BY <1>1, <1>3, <1>7
  <2>4. PICK row \in RuleRow : row = ru[r]
    BY <1>1, <2>3, ElementOfSeq
  <2>5. row.live /\ row.source \in DOMAIN ev /\ ev[row.source].rule = r /\ ev[row.source].live
    BY <1>7, <2>3, <2>4 DEF Sane, Linked
  <2> HIDE DEF ask
  <2>6. ask.survivors # {} => Earliest(ev, ask.survivors) \in ask.survivors
    BY <1>1, <2>2, EarliestIs
  <2>7. /\ row.source \notin ask.victims => after.live = row.live /\ after.source = row.source
        /\ row.source \in ask.victims /\ ask.survivors = {} => ~after.live /\ after.source = row.source
        /\ row.source \in ask.victims /\ ask.survivors # {}
             => after.live = row.live /\ after.source = Earliest(ev, ask.survivors)
    BY <2>4 DEF Repointed, RuleRow
  <2>8. DatesOf(after) = DatesOf(row)
    BY <2>4 DEF Repointed, RuleRow, DatesOf
  <2>9. after.source \in DOMAIN ev /\ ev[after.source].rule = r
    <3> HIDE DEF after, r, ev
    <3> QED
      BY <2>2, <2>5, <2>6, <2>7
  <2>a. after \in RuleRow
    <3>1. after.source \in Nat
      BY <1>1, <2>9, LenProperties
    <3>2. after = [row EXCEPT !.live = after.live, !.active = after.active, !.source = after.source]
      BY <2>4 DEF Repointed, RuleRow
    <3>3. after.live \in BOOLEAN /\ after.active \in BOOLEAN
      BY <2>4 DEF Repointed, RuleRow
    <3> HIDE DEF after
    <3> QED
      BY <3>1, <3>2, <3>3 DEF RuleRow
  <2>b. after.live => after.source \notin ask.victims /\ ev[after.source].live
    <3> HIDE DEF after, r
    <3> QED
      BY <2>2, <2>5, <2>6, <2>7
  <2>c. ~after.live => \A k \in DOMAIN ev \ ask.victims : ~(ev[k].live /\ ev[k].rule = r)
    <3> HIDE DEF after, r
    <3>1. ~after.live => ask.survivors = {}
      BY <2>5, <2>7
    <3> QED
      BY <2>2, <3>1
  <2>d. ask.victims \in SUBSET DOMAIN ev /\ \A v \in ask.victims : ev[v].rule = r
    BY <2>1
  <2> HIDE DEF after, r
  <2>e. Sane(t.events, t.rules) /\ Linked(t.events, t.rules)
    BY <1>3, <2>3, <2>9, <2>a, <2>b, <2>c, <2>d, CutIsSane
  <2>f. Steered(ru, t.rules, {r})
    <3>1. DOMAIN t.rules = DOMAIN ru /\ t.rules[r] = after /\ \A q \in DOMAIN ru : q # r => t.rules[q] = ru[q]
      BY <1>1, <2>3
    <3> QED
      BY <2>4, <2>8, <3>1 DEF Steered
  <2>g. \A k \in ask.victims : NoEarlier(ev, k, i)
    BY <1>7, <2>1 DEF NoEarlier, r
  <2> QED
    BY <1>5, <2>e, <2>f, <2>g DEF r
<1> QED
  BY <1>6, <1>7

\* g is what is left after each of the first n deletes.
Left(order, g, n) ==
    g = [k \in 0 .. n |-> IF k = 0 THEN [events |-> events, rules |-> rules]
                          ELSE DeleteLater(g[k - 1], order[k])]

\* There is such a g: the removal gets through its list.
LEMMA LeftExists == ASSUME NEW order, NEW N \in Nat PROVE \E g : Left(order, g, N)
<1> DEFINE T == {n \in 0 .. N : \E g : Left(order, g, n)}
           start == [events |-> events, rules |-> rules]
<1>1. 0 \in T
  <2>1. Left(order, [k \in 0 .. 0 |-> start], 0)
    BY DEF Left
  <2> QED
    BY <2>1
<1>2. ASSUME NEW n \in 0 .. N, n # 0, n - 1 \in T PROVE n \in T
  <2>1. PICK g : Left(order, g, n - 1)
    BY <1>2
  <2> DEFINE h == [k \in 0 .. n |-> IF k = n THEN DeleteLater(g[n - 1], order[n]) ELSE g[k]]
  <2>2. ASSUME NEW k \in 0 .. n PROVE h[k] = IF k = 0 THEN start ELSE DeleteLater(h[k - 1], order[k])
    <3>1. CASE k = n
      <4>1. h[n - 1] = g[n - 1] /\ h[n] = DeleteLater(g[n - 1], order[n])
        BY <1>2
      <4> HIDE DEF h, start
      <4> QED
        BY <1>2, <3>1, <4>1
    <3>2. CASE k # n
      <4>1. k \in 0 .. n - 1 /\ (k # 0 => k - 1 \in 0 .. n /\ k - 1 # n)
        BY <1>2, <3>2
      <4>2. g[k] = IF k = 0 THEN start ELSE DeleteLater(g[k - 1], order[k])
        BY <2>1, <4>1 DEF Left
      <4>3. h[k] = g[k] /\ (k # 0 => h[k - 1] = g[k - 1])
        BY <3>2, <4>1
      <4> HIDE DEF h, start
      <4> QED
        BY <4>2, <4>3
    <3> QED
      BY <3>1, <3>2
  <2>3. h = [k \in 0 .. n |-> h[k]]
    OBVIOUS
  <2>4. Left(order, h, n)
    <3> HIDE DEF h
    <3> QED
      BY <2>2, <2>3 DEF Left
  <2> QED
    BY <1>2, <2>4
<1>3. \A n \in 0 .. N : n \in T
  <2> HIDE DEF T
  <2> QED
    BY <1>1, <1>2, CountingUp
<1> QED
  BY <1>3

\* And LeftAfter is its end.
LEMMA LeftAfterIs ==
    ASSUME NEW order, Len(order) \in Nat
    PROVE  \E g : Left(order, g, Len(order)) /\ LeftAfter(order) = g[Len(order)]
<1> DEFINE G == CHOOSE g : Left(order, g, Len(order))
<1>1. Left(order, G, Len(order))
  BY LeftExists
<1>2. LeftAfter(order) = G[Len(order)]
  BY DEF LeftAfter, Left
<1> QED
  BY <1>1, <1>2

\* A removal takes away the family's upcoming ceremonies and later ones of their
\* repeats, keeps rows and rules joined, and leaves the rules of others alone.
LEMMA RemovalCuts ==
    ASSUME DiaryTypes, NEW who \in Mobed, NEW family \in Family, RemoveFamily(who, family)
    PROVE  /\ Sane(events', rules') /\ Linked(events', rules')
           /\ Cut(events, events') /\ Steered(rules, rules', {r \in DOMAIN rules : ~Locked(r)})
           /\ \A k \in Live : events'[k].live
                \/ \E i \in Upcoming(who, family) : k = i \/ NoEarlier(events, k, i)
<1> DEFINE ids == Upcoming(who, family)
           Q == {events[i].rule : i \in ids}
<1>1. ids \subseteq DOMAIN events /\ Sane(events, rules) /\ Linked(events, rules)
  BY DEF Upcoming, Live, DiaryTypes
<1>2. PICK order \in Orders(ids) : events' = LeftAfter(order).events /\ rules' = LeftAfter(order).rules
  BY DEF RemoveFamily
<1> DEFINE N == Len(order)
<1>3. N \in Nat /\ \A n \in 1 .. N : order[n] \in ids
  <2>1. IsFiniteSet(ids)
    <3>1. DOMAIN events = 1 .. Len(events) /\ Len(events) \in Nat
      BY <1>1, LenProperties DEF Sane
    <3>2. IsFiniteSet(1 .. Len(events))
      BY <3>1, FS_Interval
    <3> HIDE DEF ids
    <3> QED
      BY <1>1, <3>1, <3>2, FS_Subset
  <2>2. Cardinality(ids) \in Nat
    <3> HIDE DEF ids
    <3> QED
      BY <2>1, FS_CardinalityType
  <2>3. order \in [1 .. Cardinality(ids) -> ids]
    BY <1>2 DEF Orders
  <2> HIDE DEF ids
  <2> QED
    BY <2>2, <2>3
<1>4. PICK g : Left(order, g, N) /\ LeftAfter(order) = g[N]
  BY <1>3, LeftAfterIs
<1> DEFINE Gone(k) == \E i \in ids : k = i \/ NoEarlier(events, k, i)
           Rightly(s) ==
             /\ Sane(s.events, s.rules) /\ Linked(s.events, s.rules)
             /\ Cut(events, s.events) /\ Steered(rules, s.rules, Q)
             /\ \A k \in DOMAIN events : events[k].live => s.events[k].live \/ Gone(k)
           T == {n \in 0 .. N : Rightly(g[n])}
<1>5. 0 \in T
  <2>1. g[0] = [events |-> events, rules |-> rules]
    BY <1>3, <1>4 DEF Left
  <2>2. g[0].events = events /\ g[0].rules = rules
    BY <2>1
  <2>3. Cut(events, events) /\ Steered(rules, rules, Q)
    BY DEF Cut, Kept, Steered
  <2>4. Rightly(g[0])
    <3> HIDE DEF Gone, Q
    <3> QED
      BY <1>1, <2>2, <2>3
  <2> HIDE DEF Rightly
  <2> QED
    BY <1>3, <2>4
<1>6. ASSUME NEW n \in 0 .. N, n # 0, n - 1 \in T PROVE n \in T
  <2> PICK s : s = g[n - 1]
    OBVIOUS
  <2> PICK t : t = g[n]
    OBVIOUS
  <2> PICK i \in ids : i = order[n]
    BY <1>3, <1>6
  <2>1. t = DeleteLater(s, i)
    <3>1. n \in 0 .. N /\ g[n] = DeleteLater(g[n - 1], order[n])
      BY <1>4, <1>6 DEF Left
    <3> QED
      BY <3>1
  <2>2. Rightly(s)
    <3> HIDE DEF Rightly
    <3> QED
      BY <1>6
  <2>3. i \in DOMAIN events /\ DOMAIN s.events = DOMAIN events /\ s.events[i].rule = events[i].rule
    BY <1>1, <2>2 DEF Cut, Kept
  <2>4. /\ Sane(t.events, t.rules) /\ Linked(t.events, t.rules)
        /\ Cut(s.events, t.events) /\ Steered(s.rules, t.rules, {events[i].rule})
        /\ \A k \in DOMAIN s.events :
             s.events[k].live => t.events[k].live \/ k = i \/ NoEarlier(s.events, k, i)
    <3> HIDE DEF ids, Gone
    <3> QED
      BY <2>1, <2>2, <2>3, DeleteLaterCuts
  <2>5. Cut(events, t.events)
    <3> HIDE DEF ids, Gone
    <3> QED
      BY <2>2, <2>4, CutTwice
  <2>6. Steered(rules, t.rules, Q)
    <3>1. {events[i].rule} \subseteq Q
      OBVIOUS
    <3> HIDE DEF ids, Gone, Q
    <3> QED
      BY <2>2, <2>4, <3>1, SteeredTwice
  <2>7. ASSUME NEW k \in DOMAIN events, events[k].live PROVE t.events[k].live \/ Gone(k)
    <3>1. s.events[k].live \/ Gone(k)
      <4> HIDE DEF Gone, ids, Q
      <4> QED
        BY <2>2, <2>7
    <3>2. ASSUME NoEarlier(s.events, k, i) PROVE Gone(k)
      <4>1. Kept(events[k], s.events[k]) /\ Kept(events[i], s.events[i])
        <5> HIDE DEF Gone, ids, Q
        <5> QED
          BY <2>2, <2>3 DEF Cut
      <4>2. OrderOf(s.events[k]) = OrderOf(events[k]) /\ OrderOf(s.events[i]) = OrderOf(events[i])
        BY <4>1 DEF Kept, TimeOf, OrderOf
      <4>3. NoEarlier(events, k, i)
        BY <3>2, <4>1, <4>2 DEF NoEarlier, Kept
      <4> QED
        BY <4>3
    <3>3. Gone(k) \/ t.events[k].live \/ k = i \/ NoEarlier(s.events, k, i)
      <4> HIDE DEF Gone, ids, Q
      <4> QED
        BY <2>3, <2>4, <3>1
    <3> QED
      BY <3>2, <3>3
  <2>8. Rightly(t)
    <3> HIDE DEF ids, Gone, Q
    <3> QED
      BY <2>4, <2>5, <2>6, <2>7
  <2> HIDE DEF Rightly
  <2> QED
    BY <1>6, <2>8
<1>7. N \in T
  <2> HIDE DEF T
  <2>1. \A n \in 0 .. N : n \in T
    BY <1>3, <1>5, <1>6, CountingUp
  <2> QED
    BY <1>3, <2>1
<1>8. PICK s : s = g[N]
  OBVIOUS
<1>9. Rightly(s) /\ events' = s.events /\ rules' = s.rules
  <2> HIDE DEF Rightly
  <2> QED
    BY <1>2, <1>4, <1>7, <1>8
<1>a. Steered(rules, rules', {r \in DOMAIN rules : ~Locked(r)})
  <2>1. \A r \in Q : ~Locked(r)
    BY DEF RemoveFamily
  <2>2. Steered(rules, rules', Q)
    <3> HIDE DEF ids, Gone, Q
    <3> QED
      BY <1>9
  <2> HIDE DEF Q, Gone, ids
  <2> QED
    BY <2>1, <2>2 DEF Steered
<1>b. /\ Sane(events', rules') /\ Linked(events', rules') /\ Cut(events, events')
      /\ \A k \in DOMAIN events : events[k].live => events'[k].live \/ Gone(k)
  <2> HIDE DEF ids, Gone, Q
  <2> QED
    BY <1>9
<1> QED
  BY <1>a, <1>b DEF Live
-----------------------------------------------------------------------------
(***************************************************************************)
(* The steps that write over rows, and the requests: types and links.      *)
(***************************************************************************)

\* An edited ceremony is a row still, of the same mobed, repeat and date.
LEMMA EditedRow ==
    ASSUME NEW row \in EventRow, NEW had \in EventRow, NEW new \in EventRow,
           NEW e, e.had = had, e.new = new, NEW x, x = Renamed(row, e) \/ x = Moved(row, e)
    PROVE  /\ x \in EventRow
           /\ x.live = row.live /\ x.by = row.by /\ x.rule = row.rule /\ x.for = row.for
           /\ x.settled = row.settled
<1>1. Renamed(row, e) = [row EXCEPT !.family = Field(row, e, "family")]
  BY DEF Renamed
<1>2. Field(row, e, "family") \in Family /\ Field(row, e, "roj") \in 0 .. Rojs - 1
      /\ Field(row, e, "month") \in Nat /\ Field(row, e, "when") \in Nat
      /\ TimeField(row, e, "day") \in Nat /\ TimeField(row, e, "at") \in At
  BY DEF Field, TimeField, EventRow
<1>3. CASE x = Renamed(row, e)
  BY <1>1, <1>2, <1>3 DEF EventRow
<1>4. CASE x = Moved(row, e)
  <2>1. x = [row EXCEPT !.family = Field(row, e, "family"), !.day = TimeField(row, e, "day"),
                !.at = TimeField(row, e, "at"), !.roj = Field(row, e, "roj"),
                !.month = Field(row, e, "month"), !.when = Field(row, e, "when")]
    BY <1>1, <1>4 DEF Moved, EventRow
  <2> QED
    BY <1>2, <2>1 DEF EventRow
<1> QED
  BY <1>3, <1>4

\* The columns that are written are those of the form; the others stay.
LEMMA RenamedStays ==
    ASSUME NEW row \in EventRow, NEW e, NEW x, x = Renamed(row, e)
    PROVE  TimeOf(x) = TimeOf(row)
BY DEF Renamed, TimeOf, EventRow
\* Column by column, the row of a machi that was moved.
LEMMA MovedIs ==
    ASSUME NEW row \in EventRow, NEW e, NEW x, x = Moved(row, e)
    PROVE  /\ x.day = TimeField(row, e, "day") /\ x.at = TimeField(row, e, "at")
           /\ x.roj = Field(row, e, "roj") /\ x.month = Field(row, e, "month")
           /\ x.when = Field(row, e, "when")
BY DEF Moved, Renamed, EventRow

\* An edit writes one row, or none.
LEMMA EditIs ==
    ASSUME DiaryTypes, NEW c \in Call, Edit(c)
    PROVE  LET e == calls[c]
               i == e.event
           IN  /\ i \in DOMAIN events /\ events[i] \in EventRow /\ rules' = rules
               /\ e.op = "edit" /\ e.had \in EventRow /\ e.new \in EventRow
               /\ \/ events' = events
                  \/ \E x \in EventRow :
                       /\ x = Renamed(events[i], e) \/ x = Moved(events[i], e)
                       /\ events' = [events EXCEPT ![i] = x]
<1> DEFINE e == calls[c]
           i == e.event
<1>1. e.op = "edit" /\ EditAsked(e, events) /\ rules' = rules
  BY DEF Edit, DiaryTypes, Asked, Idle
<1>2. i \in DOMAIN events /\ e.had \in EventRow /\ e.new \in EventRow
  BY <1>1 DEF EditAsked
<1>3. events[i] \in EventRow
  BY <1>2, ElementOfSeq, LenProperties DEF DiaryTypes, Sane
<1>4. \A x : x = Renamed(events[i], e) \/ x = Moved(events[i], e) => x \in EventRow
  <2> HIDE DEF e
  <2> QED
    BY <1>2, <1>3, EditedRow
<1>5. \/ events' = events
      \/ events' = [events EXCEPT ![i] = Moved(events[i], e)]
      \/ events' = [events EXCEPT ![i] = Renamed(events[i], e)]
  BY DEF Edit
<1> HIDE DEF e
<1> QED
  BY <1>1, <1>2, <1>3, <1>4, <1>5 DEF e

\* Rows are written over, and keep their repeat and whether they are there.
LEMMA RewritesIsSane ==
    ASSUME Sane(events, rules), Linked(events, rules), rules' = rules,
           events' \in Seq(EventRow), DOMAIN events' = DOMAIN events,
           \A i \in DOMAIN events : events'[i].rule = events[i].rule /\ events'[i].live = events[i].live
    PROVE  Sane(events', rules') /\ Linked(events', rules') /\ Later(events, rules, events', rules')
<1>1. Sane(events', rules')
  BY DEF Sane
<1>2. Linked(events', rules')
  BY DEF Linked, Sane
<1>3. Later(events, rules, events', rules')
  BY DEF Later
<1> QED
  BY <1>1, <1>2, <1>3

\* What is cut is later.
LEMMA CutIsLater ==
    ASSUME NEW ev, NEW ru, NEW ev2, NEW ru2, NEW Q, Cut(ev, ev2), Steered(ru, ru2, Q)
    PROVE  Later(ev, ru, ev2, ru2)
BY DEF Cut, Kept, Steered, Later

\* Each step keeps rows and rules joined.
LEMMA StepIsSane ==
    ASSUME DiaryTypes, DiaryNext
    PROVE  Sane(events', rules') /\ Linked(events', rules') /\ Later(events, rules, events', rules')
<1>1. Sane(events, rules) /\ Linked(events, rules)
  BY DEF DiaryTypes
<1>2. /\ events \in Seq(EventRow) /\ rules \in Seq(RuleRow) /\ Len(events) \in Nat /\ Len(rules) \in Nat
      /\ DOMAIN events = 1 .. Len(events) /\ DOMAIN rules = 1 .. Len(rules)
  BY <1>1, LenProperties DEF Sane
<1>3. CASE UNCHANGED <<events, rules>>
  BY <1>1, <1>3 DEF Later
<1>4. ASSUME NEW c \in Call, Add(c)
      PROVE  Sane(events', rules') /\ Linked(events', rules') /\ Later(events, rules, events', rules')
  <2>1. CASE events' = events /\ rules' = rules
    BY <1>3, <2>1
  <2>2. ASSUME rules' = rules, NEW new, NEW by, NEW at, Alike(new, 0, by, at), Grows(new)
        PROVE  Sane(events', rules') /\ Linked(events', rules') /\ Later(events, rules, events', rules')
    <3>1. \A q \in DOMAIN rules' : q \in DOMAIN rules /\ rules'[q].source = rules[q].source
                                   /\ rules'[q].live = rules[q].live
      BY <2>2
    <3>2. rules' \in Seq(RuleRow) /\ 0 \in 0 .. Len(rules') /\ Len(rules) <= Len(rules')
      BY <1>2, <2>2
    <3> QED
      BY <1>1, <2>2, <3>1, <3>2, GrowsIsSane
  <2>3. ASSUME NEW new, NEW by, NEW at, NEW rule, Alike(new, Len(rules) + 1, by, at), Grows(new),
               AddsRepeat(new, rule)
        PROVE  Sane(events', rules') /\ Linked(events', rules') /\ Later(events, rules, events', rules')
    <3> DEFINE r == Len(rules) + 1
    <3>1. rule \in RuleRow /\ rule.live /\ rule.source = Len(events) + 1 /\ rules' = Append(rules, rule)
          /\ Len(new) >= 1
      BY <2>3 DEF AddsRepeat
    <3>2. /\ rules' \in Seq(RuleRow) /\ Len(rules') = r /\ rules'[r] = rule
          /\ \A q \in DOMAIN rules : rules'[q] = rules[q]
      BY <1>2, <3>1, AppendProperties
    <3>3. DOMAIN rules' = 1 .. r
      BY <3>2, LenProperties
    <3>4. \A q \in DOMAIN rules' : q = r \/ q \in DOMAIN rules
      BY <1>2, <3>3
    <3>5. r \in Nat /\ r \in 0 .. Len(rules') /\ Len(rules) <= Len(rules')
      BY <1>2, <3>2
    <3> HIDE DEF r
    <3>6. Alike(new, r, by, at)
      BY <2>3 DEF r
    <3> QED
      BY <1>1, <2>3, <3>1, <3>2, <3>4, <3>5, <3>6, GrowsIsSane
  <2> QED
    BY <1>4, <2>1, <2>2, <2>3, AddGrows
<1>5. ASSUME NEW c \in Call, TopUp(c)
      PROVE  Sane(events', rules') /\ Linked(events', rules') /\ Later(events, rules, events', rules')
  <2> DEFINE r == calls[c].rule
  <2>1. r \in DOMAIN rules /\ rules[r] \in RuleRow
    <3>1. r \in DOMAIN rules
      BY <1>5, SMTT(30) DEF TopUp, DiaryTypes, Asked, Idle, TopUpAsked
    <3> QED
      BY <1>2, <3>1, ElementOfSeq
  <2>2. CASE events' = events /\ rules' = rules
    BY <1>3, <2>2
  <2>3. CASE events' = events /\ rules' = [rules EXCEPT ![r].active = FALSE]
    <3> PICK rule \in RuleRow : rule = rules[r]
      BY <2>1
    <3>1. [rule EXCEPT !.active = FALSE] \in RuleRow
          /\ [rule EXCEPT !.active = FALSE].source = rule.source
          /\ [rule EXCEPT !.active = FALSE].live = rule.live
      BY DEF RuleRow
    <3>2. rules' = [rules EXCEPT ![r] = [rule EXCEPT !.active = FALSE]]
      BY <2>3
    <3> HIDE DEF r
    <3>3. /\ rules' \in Seq(RuleRow) /\ Len(rules') = Len(rules) /\ DOMAIN rules' = DOMAIN rules
          /\ rules'[r] = [rule EXCEPT !.active = FALSE]
          /\ \A q \in DOMAIN rules : q # r => rules'[q] = rules[q]
      BY <1>2, <2>1, <3>1, <3>2
    <3>4. \A q \in DOMAIN rules : rules'[q].source = rules[q].source /\ rules'[q].live = rules[q].live
      BY <3>1, <3>3
    <3>5. Sane(events', rules')
      BY <1>1, <2>3, <3>3, <3>4 DEF Sane
    <3>6. Linked(events', rules')
      <4>1. \A i \in DOMAIN events : events[i].rule # 0 => events[i].rule \in DOMAIN rules
        BY <1>1, <1>2 DEF Sane
      <4> QED
        BY <1>1, <2>3, <3>3, <3>4, <4>1 DEF Linked
    <3>7. Later(events, rules, events', rules')
      BY <2>3, <3>3 DEF Later
    <3> QED
      BY <3>5, <3>6, <3>7
  <2>4. ASSUME NEW new, NEW by, NEW at, NEW u, Alike(new, r, by, at), Grows(new),
               ToppedUp(r, calls[c].row, new, u)
        PROVE  Sane(events', rules') /\ Linked(events', rules') /\ Later(events, rules, events', rules')
    <3>1. rules[r].live /\ u \in Nat /\ rules' = [rules EXCEPT ![r].until = u]
      BY <2>4 DEF ToppedUp
    <3> PICK rule \in RuleRow : rule = rules[r]
      BY <2>1
    <3>2. [rule EXCEPT !.until = u] \in RuleRow
          /\ [rule EXCEPT !.until = u].source = rule.source /\ [rule EXCEPT !.until = u].live = rule.live
      BY <3>1, MarkerMoves
    <3>3. rules' = [rules EXCEPT ![r] = [rule EXCEPT !.until = u]]
      BY <3>1
    <3> HIDE DEF r
    <3>4. /\ rules' \in Seq(RuleRow) /\ Len(rules') = Len(rules) /\ DOMAIN rules' = DOMAIN rules
          /\ rules'[r] = [rule EXCEPT !.until = u]
          /\ \A q \in DOMAIN rules : q # r => rules'[q] = rules[q]
      BY <1>2, <2>1, <3>2, <3>3
    <3>5. \A q \in DOMAIN rules : rules'[q].source = rules[q].source /\ rules'[q].live = rules[q].live
      BY <3>2, <3>4
    <3>6. r \in Nat /\ r \in 0 .. Len(rules') /\ rules'[r].live /\ Len(rules) <= Len(rules')
      BY <1>2, <2>1, <3>1, <3>4, <3>5
    <3> QED
      BY <1>1, <2>4, <3>4, <3>5, <3>6, GrowsIsSane
  <2> HIDE DEF r
  <2> QED
    BY <1>5, <2>2, <2>3, <2>4, TopUpGrows DEF r
<1>6. ASSUME NEW c \in Call, Edit(c)
      PROVE  Sane(events', rules') /\ Linked(events', rules') /\ Later(events, rules, events', rules')
  <2> DEFINE e == calls[c]
             i == e.event
  <2>1. /\ i \in DOMAIN events /\ events[i] \in EventRow /\ rules' = rules
        /\ e.had \in EventRow /\ e.new \in EventRow
        /\ \/ events' = events
           \/ \E x \in EventRow :
                /\ x = Renamed(events[i], e) \/ x = Moved(events[i], e)
                /\ events' = [events EXCEPT ![i] = x]
    BY <1>6, EditIs
  <2> HIDE DEF e, i
  <2>2. CASE events' = events
    BY <1>3, <2>1, <2>2
  <2>3. ASSUME NEW x \in EventRow, x = Renamed(events[i], e) \/ x = Moved(events[i], e),
               events' = [events EXCEPT ![i] = x]
        PROVE  Sane(events', rules') /\ Linked(events', rules') /\ Later(events, rules, events', rules')
    <3>1. x.live = events[i].live /\ x.rule = events[i].rule
      BY <2>1, <2>3, EditedRow
    <3>2. /\ events' \in Seq(EventRow) /\ DOMAIN events' = DOMAIN events /\ events'[i] = x
          /\ \A k \in DOMAIN events : k # i => events'[k] = events[k]
      BY <1>2, <2>1, <2>3
    <3> QED
      BY <1>1, <2>1, <3>1, <3>2, RewritesIsSane
  <2> QED
    BY <2>1, <2>2, <2>3
<1>7. ASSUME NEW i \in Live, Settle(i)
      PROVE  Sane(events', rules') /\ Linked(events', rules') /\ Later(events, rules, events', rules')
  <2>1. i \in DOMAIN events /\ rules' = rules /\ events' = [events EXCEPT ![i].settled = TRUE]
    BY <1>7 DEF Live, Settle
  <2> PICK row \in EventRow : row = events[i]
    BY <1>2, <2>1, ElementOfSeq
  <2>2. [row EXCEPT !.settled = TRUE] \in EventRow /\ [row EXCEPT !.settled = TRUE].rule = row.rule
        /\ [row EXCEPT !.settled = TRUE].live = row.live
    BY DEF EventRow
  <2>3. events' = [events EXCEPT ![i] = [row EXCEPT !.settled = TRUE]]
    BY <2>1
  <2>4. /\ events' \in Seq(EventRow) /\ DOMAIN events' = DOMAIN events
        /\ events'[i] = [row EXCEPT !.settled = TRUE]
        /\ \A k \in DOMAIN events : k # i => events'[k] = events[k]
    BY <1>2, <2>1, <2>2, <2>3
  <2> QED
    BY <1>1, <2>1, <2>2, <2>4, RewritesIsSane
<1>8. ASSUME NEW c \in Call, Delete(c)
      PROVE  Sane(events', rules') /\ Linked(events', rules') /\ Later(events, rules, events', rules')
  BY <1>8, DeleteCuts, CutIsLater
<1>9. ASSUME NEW who \in Mobed, NEW family \in Family, RemoveFamily(who, family)
      PROVE  Sane(events', rules') /\ Linked(events', rules') /\ Later(events, rules, events', rules')
  BY <1>9, RemovalCuts, CutIsLater
<1>a. ASSUME NEW c \in Call, NEW call, Begin(c, call) PROVE UNCHANGED <<events, rules>>
  BY <1>a DEF Begin
<1>b. CASE Tick
  BY <1>3, <1>b DEF Tick
<1> QED
  BY <1>3, <1>4, <1>5, <1>6, <1>7, <1>8, <1>9, <1>a, <1>b, ZenonT(60)
     DEF DiaryNext, AskAdd, AskTopUp, AskEdit, AskDelete

\* A request that begins knows what it read.
LEMMA BegunAsks ==
    ASSUME DiaryTypes, NEW c \in Call, NEW call, Begin(c, call), Asked(call, events, rules)
    PROVE  DiaryTypes'
<1>1. UNCHANGED <<kind, events, rules, now>> /\ calls' = [calls EXCEPT ![c] = call]
  BY DEF Begin
<1>2. calls = [b \in Call |-> calls[b]] /\ \A b \in Call : Asked(calls[b], events, rules)
  BY DEF DiaryTypes
<1>3. calls' = [b \in Call |-> calls'[b]] /\ \A b \in Call : calls'[b] = calls[b] \/ calls'[b] = call
  BY <1>1, <1>2
<1>4. \A b \in Call : Asked(calls'[b], events', rules')
  <2>1. \A b \in Call : Asked(calls'[b], events, rules)
    BY <1>2, <1>3
  <2> QED
    BY <1>1, <2>1
<1> QED
  BY <1>1, <1>3, <1>4 DEF DiaryTypes

\* A delete that begins reads victims of one repeat, and its rule.
LEMMA DeleteKnows ==
    ASSUME DiaryTypes, NEW i \in Live, NEW future \in BOOLEAN
    PROVE  Asked(DeleteOf(events, rules, i, future), events, rules)
<1> DEFINE ask == DeleteOf(events, rules, i, future)
           r == events[i].rule
<1>1. i \in DOMAIN events /\ events[i].live /\ Sane(events, rules) /\ Linked(events, rules)
  BY DEF Live, DiaryTypes
<1>2. ask.op = "delete" /\ ask.event = i /\ ask.future = future /\ ask.victims = Victims(events, i, future)
      /\ ask.survivors = Survivors(events, i, ask.victims)
      /\ ask.row = IF r = 0 THEN Idle ELSE rules[r]
  BY DEF DeleteOf
<1>3. OrderOf(events[i]) \in Nat
  <2>1. events[i] \in EventRow
    BY <1>1, ElementOfSeq, LenProperties DEF Sane
  <2> QED
    BY <2>1 DEF EventRow, OrderOf
<1>4. /\ Victims(events, i, future) \in SUBSET DOMAIN events /\ i \in Victims(events, i, future)
      /\ \A v \in Victims(events, i, future) : events[v].rule = r
  BY <1>1, <1>3 DEF Victims
<1>5. /\ Survivors(events, i, ask.victims) \in SUBSET DOMAIN events
      /\ Survivors(events, i, ask.victims) \cap ask.victims = {}
      /\ \A v \in Survivors(events, i, ask.victims) : events[v].rule = r
  BY DEF Survivors
<1>6. r # 0 => rules[r] \in RuleRow /\ rules[r].live /\ rules[r].source \in DOMAIN events
               /\ events[rules[r].source].rule = r
  <2> SUFFICES ASSUME r # 0
               PROVE  rules[r] \in RuleRow /\ rules[r].live /\ rules[r].source \in DOMAIN events
                      /\ events[rules[r].source].rule = r
    OBVIOUS
  <2>1. r \in DOMAIN rules /\ rules \in Seq(RuleRow)
    BY <1>1, LenProperties DEF Sane
  <2>2. rules[r] \in RuleRow
    BY <2>1, ElementOfSeq, LenProperties
  <2> QED
    BY <1>1, <2>1, <2>2 DEF Sane, Linked
<1> HIDE DEF ask
<1>7. DeleteAsked(ask, events)
  BY <1>1, <1>2, <1>4, <1>5, <1>6 DEF DeleteAsked
<1> QED
  BY <1>2, <1>7 DEF Asked, ask

\* The type invariant is kept.
LEMMA TypesStay == ASSUME DiaryTypes, DiaryNext PROVE DiaryTypes'
<1>1. Sane(events', rules') /\ Linked(events', rules') /\ Later(events, rules, events', rules')
  BY StepIsSane
<1>2. /\ events \in Seq(EventRow) /\ rules \in Seq(RuleRow) /\ Len(events) \in Nat /\ Len(rules) \in Nat
      /\ DOMAIN events = 1 .. Len(events) /\ DOMAIN rules = 1 .. Len(rules)
      /\ Sane(events, rules)
  BY LenProperties DEF DiaryTypes, Sane
<1>3. ASSUME NEW c \in Call, Add(c) \/ TopUp(c) \/ Edit(c) \/ Delete(c) PROVE DiaryTypes'
  <2>1. Finish(c)
    BY <1>3 DEF Add, TopUp, Edit, Delete
  <2> QED
    BY <1>1, <2>1, FinishedAsks
<1>4. ASSUME NEW c \in Call, NEW by \in Mobed, NEW day \in Days, NEW at \in At, NEW family \in Family,
             NEW repeat \in {Once} \cup Repeat, AskAdd(c, by, day, at, family, repeat)
      PROVE  DiaryTypes'
  <2> DEFINE call == [op |-> "add", by |-> by, day |-> day, at |-> at, family |-> family,
                      repeat |-> repeat, seen |-> SlotsOf(by)]
  <2>1. Asked(call, events, rules)
    <3>1. day \in Nat
      BY DiaryAssumption
    <3> QED
      BY <3>1 DEF Asked, AddAsked
  <2>2. Begin(c, call)
    BY <1>4 DEF AskAdd
  <2> HIDE DEF call
  <2> QED
    BY <2>1, <2>2, BegunAsks
<1>5. ASSUME NEW c \in Call, NEW who \in Mobed, NEW r \in DOMAIN rules, NEW through \in Throughs,
             AskTopUp(c, who, r, through)
      PROVE  DiaryTypes'
  <2> DEFINE call == [op |-> "topup", rule |-> r, row |-> rules[r], through |-> through,
                      seen |-> SlotsOf(events[rules[r].source].by)]
  <2>1. rules[r] \in RuleRow /\ through \in Nat
    BY <1>2, ElementOfSeq, DiaryAssumption
  <2>2. TopUpAsked(call, events, rules)
    BY <1>2, <2>1 DEF TopUpAsked, Sane
  <2>3. call.op = "topup" /\ Begin(c, call)
    BY <1>5 DEF AskTopUp
  <2> HIDE DEF call
  <2>4. Asked(call, events, rules)
    BY <2>2, <2>3 DEF Asked
  <2> QED
    BY <2>3, <2>4, BegunAsks
<1>6. ASSUME NEW c \in Call, NEW who \in Mobed, NEW i \in Live, NEW day \in Days, NEW at \in At,
             NEW family \in Family, AskEdit(c, who, i, day, at, family)
      PROVE  DiaryTypes'
  <2>1. PICK row \in EventRow : row = events[i]
    BY <1>2, ElementOfSeq DEF Live
  <2> DEFINE new == [row EXCEPT !.family = family, !.day = day, !.at = at,
                       !.roj = RojOf(day), !.month = MonthOf(day), !.when = Instant(day, at)]
             call == [op |-> "edit", event |-> i, had |-> row, new |-> new, seen |-> SlotsOf(row.by)]
  <2>2. new \in EventRow
    <3>1. day \in Nat
      BY DiaryAssumption
    <3>2. RojOf(day) \in 0 .. Rojs - 1 /\ MonthOf(day) \in Nat
      BY <3>1, DayIsItsKey
    <3>3. Instant(day, at) \in Nat
      <4>1. Gehs \in Nat /\ at \in Nat /\ at >= 1 /\ day * Gehs \in Nat
        BY <3>1, DiaryAssumption, Products DEF At
      <4> QED
        BY <4>1 DEF Instant
    <3> QED
      BY <3>1, <3>2, <3>3 DEF EventRow
  <2>3. Begin(c, call)
    BY <1>6, <2>1 DEF AskEdit
  <2> HIDE DEF new
  <2>4. Asked(call, events, rules)
    BY <2>2 DEF Asked, EditAsked, Live
  <2> HIDE DEF call
  <2> QED
    BY <2>3, <2>4, BegunAsks
<1>7. ASSUME NEW c \in Call, NEW who \in Mobed, NEW i \in Live, NEW future \in BOOLEAN,
             AskDelete(c, who, i, future)
      PROVE  DiaryTypes'
  BY <1>7, DeleteKnows, BegunAsks DEF AskDelete
<1>8. ASSUME kind' = kind, now' \in Nat, calls' = calls PROVE DiaryTypes'
  <2>1. \A c \in Call : Asked(calls[c], events', rules')
    BY <1>1, AskedStays DEF DiaryTypes
  <2> QED
    BY <1>1, <1>8, <2>1 DEF DiaryTypes
<1>9. ASSUME NEW i \in Live, Settle(i) PROVE DiaryTypes'
  BY <1>8, <1>9 DEF Settle, DiaryTypes
<1>a. ASSUME NEW who \in Mobed, NEW family \in Family, RemoveFamily(who, family) PROVE DiaryTypes'
  BY <1>8, <1>a DEF RemoveFamily, DiaryTypes
<1>b. CASE Tick
  BY <1>8, <1>b DEF Tick, DiaryTypes
<1> QED
  BY <1>3, <1>4, <1>5, <1>6, <1>7, <1>9, <1>a, <1>b DEF DiaryNext

\* It holds at the start.
LEMMA TypesBegin == ASSUME DiaryInit PROVE DiaryTypes
<1>1. /\ events = <<>> /\ rules = <<>> /\ calls = [c \in Call |-> Idle]
      /\ kind \in {"machi", "booking"} /\ now \in Nat
  BY DiaryAssumption DEF DiaryInit
<1>2. Sane(events, rules) /\ Linked(events, rules)
  BY <1>1 DEF Sane, Linked
<1>3. calls = [c \in Call |-> calls[c]] /\ \A c \in Call : Asked(calls[c], events, rules)
  BY <1>1 DEF Asked
<1> QED
  BY <1>1, <1>2, <1>3 DEF DiaryTypes

\* Rows are what they should be, a repeat's source is one of its ceremonies,
\* and the foreign keys both ways hold, whatever the requests.
THEOREM RowsStayJoined == DiarySpec => []DiaryTypes
<1>1. DiaryInit => DiaryTypes
  BY TypesBegin
<1>2. DiaryTypes /\ [DiaryNext]_dVars => DiaryTypes'
  <2> SUFFICES ASSUME DiaryTypes, [DiaryNext]_dVars PROVE DiaryTypes'
    OBVIOUS
  <2>1. CASE DiaryNext
    BY <2>1, TypesStay
  <2>2. CASE UNCHANGED dVars
    BY <2>2 DEF dVars, DiaryTypes
  <2> QED
    BY <2>1, <2>2
<1> QED
  BY <1>1, <1>2, PTL DEF DiarySpec
-----------------------------------------------------------------------------
(***************************************************************************)
(* Slots: the index keeps the keys apart, and a key is its day.            *)
(***************************************************************************)

\* Rows that are added where they are free have keys of their own.
LEMMA GrowsIndexed ==
    ASSUME DiaryTypes, Indexed, kind' = kind, NEW new, NEW r, NEW by, NEW at, Alike(new, r, by, at), Grows(new)
    PROVE  Indexed'
<1> SUFFICES ASSUME kind = "machi", NEW i \in Live', NEW j \in Live', i # j
             PROVE  KeyOf(events'[i]) # KeyOf(events'[j])
  BY DEF Indexed
<1>1. \A k \in Live' : \/ k \in Live /\ events'[k] = events[k]
                       \/ \E n \in 1 .. Len(new) : k = Len(events) + n /\ events'[k] = new[n]
  BY DEF Live, Grows
<1>2. ASSUME NEW k \in Live, NEW n \in 1 .. Len(new) PROVE KeyOf(events[k]) # KeyOf(new[n])
  <2>1. Unique(new[n], Live)
    BY DEF Alike
  <2> QED
    BY <2>1 DEF Unique, Keys
<1>3. ASSUME NEW m \in 1 .. Len(new), NEW n \in 1 .. Len(new), m # n PROVE KeyOf(new[m]) # KeyOf(new[n])
  <2>1. Len(new) \in Nat /\ new[m] \in EventRow /\ new[n] \in EventRow
    BY ElementOfSeq, LenProperties DEF Alike
  <2>2. new[m].day \in Nat /\ new[n].day \in Nat
    BY <2>1 DEF EventRow
  <2>3. m < n \/ n < m
    BY <1>3, <2>1
  <2>4. new[m].day # new[n].day
    BY <2>2, <2>3 DEF Alike
  <2>5. Fits(new[m]) /\ Fits(new[n])
    BY DEF Alike
  <2>6. <<RojOf(new[m].day), MonthOf(new[m].day)>> # <<RojOf(new[n].day), MonthOf(new[n].day)>>
    <3>1. new[m].day = MonthOf(new[m].day) * Rojs + RojOf(new[m].day)
          /\ new[n].day = MonthOf(new[n].day) * Rojs + RojOf(new[n].day)
      BY <2>2, DayIsItsKey
    <3> QED
      BY <2>4, <3>1
  <2> QED
    BY <2>5, <2>6 DEF Fits, KeyOf
<1>4. CASE i \in Live /\ events'[i] = events[i]
  <2>1. CASE j \in Live /\ events'[j] = events[j]
    BY <1>4, <2>1 DEF Indexed
  <2>2. CASE \E n \in 1 .. Len(new) : j = Len(events) + n /\ events'[j] = new[n]
    BY <1>2, <1>4, <2>2
  <2> QED
    BY <1>1, <2>1, <2>2
<1>5. CASE \E n \in 1 .. Len(new) : i = Len(events) + n /\ events'[i] = new[n]
  <2>1. PICK n \in 1 .. Len(new) : i = Len(events) + n /\ events'[i] = new[n]
    BY <1>5
  <2>2. CASE j \in Live /\ events'[j] = events[j]
    BY <1>2, <2>1, <2>2
  <2>3. ASSUME NEW m \in 1 .. Len(new), j = Len(events) + m, events'[j] = new[m]
        PROVE  KeyOf(events'[i]) # KeyOf(events'[j])
    <3>1. m # n
      BY <2>1, <2>3
    <3> QED
      BY <1>3, <2>1, <2>3, <3>1
  <2> QED
    BY <1>1, <2>2, <2>3
<1> QED
  BY <1>1, <1>4, <1>5

\* And their columns agree.
LEMMA GrowsFitting ==
    ASSUME Fitting, torn' = torn, NEW new, NEW r, NEW by, NEW at, Alike(new, r, by, at), Grows(new),
           NEW c \in Call, Finish(c)
    PROVE  Fitting'
<1>1. \A i \in DOMAIN events' \ torn' : Fits(events'[i])
  BY DEF Fitting, Grows, Alike
<1>2. \A b \in Call : calls'[b].op = "edit" => calls'[b] = calls[b]
  <2>1. calls' = [calls EXCEPT ![c] = Idle]
    BY DEF Finish
  <2>2. Idle.op # "edit"
    BY DEF Idle
  <2> QED
    BY <2>1, <2>2
<1>3. \A b \in Call : calls'[b].op = "edit" => Fits(calls'[b].new)
  BY <1>2 DEF Fitting
<1> QED
  BY <1>1, <1>3 DEF Fitting

\* Taking rows away takes keys away.
LEMMA CutIndexed ==
    ASSUME SlotInv, kind' = kind, torn' = torn, Cut(events, events'),
           \A b \in Call : calls'[b].op = "edit" => calls'[b] = calls[b]
    PROVE  SlotInv'
<1>1. \A i \in DOMAIN events : Kept(events[i], events'[i])
  BY DEF Cut
<1>2. \A i \in DOMAIN events : KeyOf(events'[i]) = KeyOf(events[i]) /\ (Fits(events[i]) => Fits(events'[i]))
  BY <1>1 DEF Kept, TimeOf, KeyOf, Fits
<1>3. Live' \subseteq Live
  BY <1>1 DEF Cut, Kept, Live
<1>4. Indexed'
  BY <1>2, <1>3 DEF SlotInv, Indexed, Live
<1>5. Fitting'
  <2>1. \A i \in DOMAIN events' \ torn' : Fits(events'[i])
    BY <1>2 DEF SlotInv, Fitting, Cut
  <2>2. \A b \in Call : calls'[b].op = "edit" => Fits(calls'[b].new)
    BY DEF SlotInv, Fitting
  <2> QED
    BY <2>1, <2>2 DEF Fitting
<1> QED
  BY <1>4, <1>5 DEF SlotInv

\* What is not torn is moved as the form has it.
LEMMA MovedFits ==
    ASSUME kind = "machi" \/ kind = "booking",
           NEW row \in EventRow, NEW e, e.had \in EventRow, e.new \in EventRow,
           TimeOf(row) = TimeOf(e.had), Fits(e.new), NEW x, x = Moved(row, e)
    PROVE  TimeOf(x) = TimeOf(e.new)
<1>1. /\ row.day = e.had.day /\ row.at = e.had.at /\ row.roj = e.had.roj
      /\ row.month = e.had.month /\ row.when = e.had.when
  BY DEF TimeOf
<1>2. x.day = TimeField(row, e, "day") /\ x.at = TimeField(row, e, "at")
      /\ x.roj = Field(row, e, "roj") /\ x.month = Field(row, e, "month") /\ x.when = Field(row, e, "when")
  BY MovedIs
<1>3. /\ TimeField(row, e, "day") = e.new.day /\ TimeField(row, e, "at") = e.new.at
      /\ Field(row, e, "roj") = e.new.roj /\ Field(row, e, "month") = e.new.month
      /\ Field(row, e, "when") = e.new.when
  BY <1>1 DEF Field, TimeField
<1> QED
  BY <1>2, <1>3 DEF TimeOf

\* An edit moves a machi to a key of its own, or not at all.
LEMMA EditSlots ==
    ASSUME DiaryTypes, SlotInv, NEW c \in Call, Edit(c)
    PROVE  SlotInv'
<1> DEFINE e == calls[c]
           i == e.event
<1>1. /\ i \in DOMAIN events /\ events[i] \in EventRow
      /\ e.op = "edit" /\ e.had \in EventRow /\ e.new \in EventRow
  BY EditIs
<1>2. kind' = kind /\ calls' = [calls EXCEPT ![c] = Idle]
  BY DEF Edit, Finish
<1>3. \A b \in Call : calls'[b].op = "edit" => calls'[b] = calls[b]
  <2>1. Idle.op # "edit"
    BY DEF Idle
  <2> QED
    BY <1>2, <2>1
<1>4. Fits(e.new)
  BY <1>1 DEF SlotInv, Fitting
<1>5. CASE events' = events /\ torn' = torn
  <2>1. Cut(events, events')
    BY <1>5 DEF Cut, Kept
  <2> QED
    BY <1>2, <1>3, <1>5, <2>1, CutIndexed
<1>6. CASE events' = [events EXCEPT ![i] = Renamed(events[i], e)] /\ torn' = torn
  <2> PICK x : x = Renamed(events[i], e)
    OBVIOUS
  <2> HIDE DEF e
  <2>1. x.live = events[i].live /\ x.by = events[i].by /\ x.rule = events[i].rule /\ x.for = events[i].for
        /\ TimeOf(x) = TimeOf(events[i])
    BY <1>1, EditedRow, RenamedStays
  <2>2. Cut(events, events')
    <3>1. DOMAIN events' = DOMAIN events /\ events'[i] = x /\ \A k \in DOMAIN events : k # i => events'[k] = events[k]
      BY <1>1, <1>6
    <3> QED
      BY <2>1, <3>1 DEF Cut, Kept
  <2> QED
    BY <1>2, <1>3, <1>6, <2>2, CutIndexed
<1>7. CASE /\ ToMove(e) /\ ~SlotRefused(e)
           /\ events' = [events EXCEPT ![i] = Moved(events[i], e)]
           /\ torn' = IF TimeOf(events[i]) # TimeOf(e.had) THEN torn \cup {i} ELSE torn
  <2> PICK x : x = Moved(events[i], e)
    OBVIOUS
  <2>1. kind = "machi" => Unique(x, Live \ {i})
    BY <1>7 DEF SlotRefused
  <2> HIDE DEF e
  <2>2. x.live = events[i].live /\ x \in EventRow
    BY <1>1, EditedRow
  <2>3. DOMAIN events' = DOMAIN events /\ events'[i] = x /\ \A k \in DOMAIN events : k # i => events'[k] = events[k]
    BY <1>1, <1>7
  <2>4. Live' = Live
    BY <2>2, <2>3 DEF Live
  <2>5. Indexed'
    <3> SUFFICES ASSUME kind = "machi", NEW k \in Live, NEW l \in Live, k # l
                 PROVE  KeyOf(events'[k]) # KeyOf(events'[l])
      BY <1>2, <2>4 DEF Indexed
    <3>1. \A m \in Live : m # i => KeyOf(events'[m]) = KeyOf(events[m]) /\ KeyOf(events[m]) # KeyOf(x)
      BY <2>1, <2>3 DEF Unique, Keys, Live
    <3> QED
      BY <2>3, <3>1 DEF SlotInv, Indexed
  <2>6. i \notin torn' => Fits(x)
    <3> SUFFICES ASSUME i \notin torn' PROVE Fits(x)
      OBVIOUS
    <3>1. TimeOf(events[i]) = TimeOf(e.had)
      BY <1>7
    <3>2. TimeOf(x) = TimeOf(e.new)
      BY <1>1, <1>4, <3>1, MovedFits DEF DiaryTypes
    <3> QED
      BY <1>4, <3>2 DEF TimeOf, Fits
  <2>7. Fitting'
    <3>1. \A k \in DOMAIN events' \ torn' : Fits(events'[k])
      <4>1. torn \subseteq torn'
        BY <1>7
      <4> QED
        BY <2>3, <2>6, <4>1 DEF SlotInv, Fitting
    <3>2. \A b \in Call : calls'[b].op = "edit" => Fits(calls'[b].new)
      BY <1>3 DEF SlotInv, Fitting
    <3> QED
      BY <3>1, <3>2 DEF Fitting
  <2> QED
    BY <2>5, <2>7 DEF SlotInv
<1>8. \/ events' = events /\ torn' = torn
      \/ events' = [events EXCEPT ![i] = Renamed(events[i], e)] /\ torn' = torn
      \/ /\ ToMove(e) /\ ~SlotRefused(e)
         /\ events' = [events EXCEPT ![i] = Moved(events[i], e)]
         /\ torn' = IF TimeOf(events[i]) # TimeOf(e.had) THEN torn \cup {i} ELSE torn
  BY DEF Edit
<1> QED
  BY <1>5, <1>6, <1>7, <1>8

\* What an edit is to make of a ceremony has columns that agree.
LEMMA AskedFits ==
    ASSUME SlotInv, UNCHANGED <<kind, events, torn>>,
           \A b \in Call : calls'[b].op = "edit" => calls'[b] = calls[b] \/ Fits(calls'[b].new)
    PROVE  SlotInv'
<1>1. Indexed'
  BY DEF SlotInv, Indexed, Live
<1>2. Fitting'
  BY DEF SlotInv, Fitting
<1> QED
  BY <1>1, <1>2 DEF SlotInv

\* Beginning anything but an edit adds no columns to write.
LEMMA BegunFits ==
    ASSUME SlotInv, NEW c \in Call, NEW call, Begin(c, call), call.op = "edit" => Fits(call.new),
           calls = [b \in Call |-> calls[b]]
    PROVE  SlotInv'
<1>1. \A b \in Call : calls'[b] = calls[b] \/ calls'[b] = call
  BY DEF Begin
<1>2. UNCHANGED <<kind, events, torn>>
  BY DEF Begin
<1> QED
  BY <1>1, <1>2, AskedFits

\* The slots' invariant is kept.
LEMMA SlotsStay == ASSUME DiaryTypes, SlotInv, DiaryNext PROVE SlotInv'
<1> calls = [b \in Call |-> calls[b]] /\ events \in Seq(EventRow) /\ DOMAIN events = 1 .. Len(events)
    /\ Sane(events, rules)
  BY LenProperties DEF DiaryTypes, Sane
<1>1. ASSUME NEW c \in Call, Finish(c)
      PROVE  \A b \in Call : calls'[b].op = "edit" => calls'[b] = calls[b]
  <2>1. calls' = [calls EXCEPT ![c] = Idle] /\ Idle.op # "edit"
    BY <1>1 DEF Finish, Idle
  <2> QED
    BY <2>1
<1>2. ASSUME NEW c \in Call, Finish(c), torn' = torn, events' = events PROVE SlotInv'
  <2>1. kind' = kind
    BY <1>2 DEF Finish
  <2> QED
    BY <1>1, <1>2, <2>1, AskedFits
<1>3. ASSUME NEW c \in Call, Finish(c), torn' = torn,
             NEW new, NEW r, NEW by, NEW at, Alike(new, r, by, at), Grows(new)
      PROVE  SlotInv'
  <2>1. kind' = kind
    BY <1>3 DEF Finish
  <2>2. Indexed'
    BY <1>3, <2>1, GrowsIndexed DEF SlotInv
  <2>3. Fitting'
    BY <1>3, GrowsFitting DEF SlotInv
  <2> QED
    BY <2>2, <2>3 DEF SlotInv
<1>4. ASSUME NEW c \in Call, Add(c) PROVE SlotInv'
  <2>1. Finish(c) /\ torn' = torn
    BY <1>4 DEF Add
  <2> QED
    BY <1>2, <1>3, <1>4, <2>1, AddGrows
<1>5. ASSUME NEW c \in Call, TopUp(c) PROVE SlotInv'
  <2>1. Finish(c) /\ torn' = torn
    BY <1>5 DEF TopUp
  <2> QED
    BY <1>2, <1>3, <1>5, <2>1, TopUpGrows
<1>6. ASSUME NEW c \in Call, Edit(c) PROVE SlotInv'
  BY <1>6, EditSlots
<1>7. ASSUME NEW c \in Call, Delete(c) PROVE SlotInv'
  <2>1. Finish(c) /\ torn' = torn /\ kind' = kind
    BY <1>7 DEF Delete, Finish
  <2> QED
    BY <1>1, <1>7, <2>1, DeleteCuts, CutIndexed
<1>8. ASSUME NEW who \in Mobed, NEW family \in Family, RemoveFamily(who, family) PROVE SlotInv'
  <2>1. UNCHANGED <<kind, torn, calls>>
    BY <1>8 DEF RemoveFamily
  <2> QED
    BY <1>8, <2>1, RemovalCuts, CutIndexed
<1>9. ASSUME NEW i \in Live, Settle(i) PROVE SlotInv'
  <2>1. i \in DOMAIN events /\ events' = [events EXCEPT ![i].settled = TRUE] /\ UNCHANGED <<kind, torn, calls>>
    BY <1>9 DEF Live, Settle
  <2> PICK row \in EventRow : row = events[i]
    BY <2>1, ElementOfSeq
  <2>2. Kept(row, [row EXCEPT !.settled = TRUE])
    BY DEF EventRow, Kept, TimeOf
  <2>3. Cut(events, events')
    <3>1. DOMAIN events' = DOMAIN events /\ events'[i] = [row EXCEPT !.settled = TRUE]
          /\ \A k \in DOMAIN events : k # i => events'[k] = events[k]
      BY <2>1
    <3>2. \A k \in DOMAIN events : Kept(events[k], events[k])
      BY DEF Kept
    <3> QED
      BY <2>2, <3>1, <3>2 DEF Cut
  <2> QED
    BY <2>1, <2>3, CutIndexed
<1>a. ASSUME NEW c \in Call, NEW by \in Mobed, NEW day \in Days, NEW at \in At, NEW family \in Family,
             NEW repeat \in {Once} \cup Repeat, AskAdd(c, by, day, at, family, repeat)
      PROVE  SlotInv'
  <2> PICK call : Begin(c, call) /\ call.op = "add"
    BY <1>a DEF AskAdd
  <2> QED
    BY BegunFits
<1>b. ASSUME NEW c \in Call, NEW who \in Mobed, NEW r \in DOMAIN rules, NEW through \in Throughs,
             AskTopUp(c, who, r, through)
      PROVE  SlotInv'
  <2> PICK call : Begin(c, call) /\ call.op = "topup"
    BY <1>b DEF AskTopUp
  <2> QED
    BY BegunFits
<1>c. ASSUME NEW c \in Call, NEW who \in Mobed, NEW i \in Live, NEW future \in BOOLEAN,
             AskDelete(c, who, i, future)
      PROVE  SlotInv'
  <2> PICK call : Begin(c, call) /\ call.op = "delete"
    BY <1>c DEF AskDelete, DeleteOf
  <2> QED
    BY BegunFits
<1>d. ASSUME NEW c \in Call, NEW who \in Mobed, NEW i \in Live, NEW day \in Days, NEW at \in At,
             NEW family \in Family, AskEdit(c, who, i, day, at, family)
      PROVE  SlotInv'
  <2> PICK row \in EventRow : row = events[i]
    BY ElementOfSeq DEF Live
  <2> DEFINE new == [row EXCEPT !.family = family, !.day = day, !.at = at,
                       !.roj = RojOf(day), !.month = MonthOf(day), !.when = Instant(day, at)]
             call == [op |-> "edit", event |-> i, had |-> row, new |-> new, seen |-> SlotsOf(row.by)]
  <2>1. Begin(c, call)
    BY <1>d DEF AskEdit
  <2>2. Fits(new)
    BY DEF Fits, EventRow
  <2>3. call.new = new
    OBVIOUS
  <2> HIDE DEF call, new
  <2> QED
    BY <2>1, <2>2, <2>3, BegunFits
<1>e. CASE Tick
  <2>1. UNCHANGED <<kind, events, torn, calls>>
    BY <1>e DEF Tick
  <2> QED
    BY <2>1, AskedFits
<1> QED
  BY <1>4, <1>5, <1>6, <1>7, <1>8, <1>9, <1>a, <1>b, <1>c, <1>d, <1>e DEF DiaryNext

\* Two machis of one mobed in one slot would have one key.
LEMMA KeysMakeSlots == ASSUME DiaryTypes, SlotInv PROVE SlotsExclusive
<1> SUFFICES ASSUME kind = "machi", NEW i \in Live \ torn, NEW j \in Live \ torn, i < j,
                    events[i].by = events[j].by,
                    <<events[i].day, events[i].at>> = <<events[j].day, events[j].at>>
             PROVE  FALSE
  BY DEF SlotsExclusive
<1>1. Fits(events[i]) /\ Fits(events[j]) /\ i # j
  <2>1. i \in Nat /\ j \in Nat
    BY LenProperties DEF Live, DiaryTypes, Sane
  <2> QED
    BY <2>1 DEF SlotInv, Fitting, Live
<1>2. KeyOf(events[i]) = KeyOf(events[j])
  BY <1>1 DEF KeyOf, Fits
<1> QED
  BY <1>1, <1>2 DEF SlotInv, Indexed

\* So the invariant of the slots holds always.
LEMMA SlotsHold == DiarySpec => []SlotInv
<1>1. DiaryInit => SlotInv
  BY DEF DiaryInit, SlotInv, Indexed, Fitting, Live, Idle
<1>2. DiaryTypes /\ SlotInv /\ [DiaryNext]_dVars => SlotInv'
  <2> SUFFICES ASSUME DiaryTypes, SlotInv, [DiaryNext]_dVars PROVE SlotInv'
    OBVIOUS
  <2>1. CASE DiaryNext
    BY <2>1, SlotsStay
  <2>2. CASE UNCHANGED dVars
    BY <2>2, AskedFits DEF dVars
  <2> QED
    BY <2>1, <2>2
<1> QED
  BY <1>1, <1>2, RowsStayJoined, PTL DEF DiarySpec

\* No mobed's slot is taken twice, whatever two requests saw before they wrote:
\* the unique index is on Roj and month, a slot is a day, and the columns agree
\* of every machi that no overlapped edit moved.
THEOREM SlotsStayExclusive == DiarySpec => []SlotsExclusive
<1>1. DiaryTypes /\ SlotInv => SlotsExclusive
  BY KeysMakeSlots
<1> QED
  BY <1>1, RowsStayJoined, SlotsHold, PTL
-----------------------------------------------------------------------------
(***************************************************************************)
(* Deletes: one that nobody disturbed goes through, and a family's removal *)
(* keeps what was performed.                                               *)
(***************************************************************************)

\* A delete that finds its rule and its series as it read them is not refused.
LEMMA CalmIsNotRefused ==
    ASSUME DiaryTypes, NEW c \in Call, calls[c].op = "delete",
           NEW r, r = events[calls[c].event].rule, r # 0,
           rules[r] = calls[c].row, SeriesOf(r) = calls[c].victims \cup calls[c].survivors
    PROVE  ~Refused(events, rules, calls[c], r, Repointed(events, calls[c].row, calls[c]))
<1> DEFINE ask == calls[c]
           wrote == Repointed(events, ask.row, ask)
           after == Over(rules[r], ask.row, wrote)
<1>1. DeleteAsked(ask, events) /\ Sane(events, rules) /\ Linked(events, rules)
  BY DEF DiaryTypes, Asked, Idle
<1>2. r \in DOMAIN rules /\ ask.row \in RuleRow
  BY <1>1, LenProperties DEF DeleteAsked, Sane
<1> PICK row \in RuleRow : row = ask.row
  BY <1>2
<1>3. /\ row.live /\ rules[r] = row /\ row.source \in DOMAIN events /\ events[row.source].rule = r
      /\ events[row.source].live
  BY <1>1, <1>2 DEF DeleteAsked, Linked
<1>4. /\ \A v \in ask.victims \cup ask.survivors : v \in DOMAIN events /\ events[v].live
      /\ \A i \in DOMAIN events : events[i].live /\ events[i].rule = r => i \in ask.victims \cup ask.survivors
      /\ ask.victims \cap ask.survivors = {}
  BY <1>1 DEF SeriesOf, Live, DeleteAsked
<1>5. ask.survivors # {} => Earliest(events, ask.survivors) \in ask.survivors
  BY <1>1, EarliestIs DEF DeleteAsked, Sane
<1>6. wrote = Repointed(events, row, ask)
  OBVIOUS
<1>7. /\ row.source \notin ask.victims => wrote.live = row.live /\ wrote.source = row.source
      /\ row.source \in ask.victims /\ ask.survivors = {} => ~wrote.live /\ wrote.source = row.source
      /\ row.source \in ask.victims /\ ask.survivors # {}
           => wrote.live = row.live /\ wrote.source = Earliest(events, ask.survivors)
  <2> HIDE DEF wrote, ask
  <2> QED
    BY <1>6 DEF Repointed, RuleRow
<1>8. after.live = (row.live /\ wrote.live)
  <2>1. after = Over(row, row, wrote)
    BY <1>3
  <2> HIDE DEF after, wrote
  <2> QED
    BY <2>1, OverLive
<1>9. after.source = wrote.source
  <2>1. after = Over(row, row, wrote)
    BY <1>3
  <2> HIDE DEF after, wrote
  <2>2. wrote.source = row.source => after.source = row.source
    BY <2>1, OverSource
  <2>3. wrote.source # row.source => after.source = wrote.source
    BY <2>1, OverSource
  <2> QED
    BY <2>2, <2>3
<1> HIDE DEF wrote, after, ask
<1>a. ~(wrote # ask.row /\ wrote.live /\ ~rules[r].live)
  BY <1>3
<1>b. ~(~wrote.live /\ \E v \in ask.victims : ask.victims = {v} /\ ~events[v].live)
  BY <1>4
<1>c. ~(~after.live /\ \E i \in DOMAIN events \ ask.victims : events[i].live /\ events[i].rule = r)
  <2>1. ~after.live => ~wrote.live
    BY <1>3, <1>8
  <2>2. ~wrote.live => ask.survivors = {}
    BY <1>3, <1>7
  <2> QED
    BY <1>4, <2>1, <2>2
<1>d. ~(after.live /\ (after.source \in ask.victims \/ ~events[after.source].live))
  <2>1. after.live => wrote.live
    BY <1>8
  <2> QED
    BY <1>3, <1>4, <1>5, <1>7, <1>9, <2>1
<1> QED
  BY <1>a, <1>b, <1>c, <1>d DEF Refused, wrote, after, ask

\* The foreign keys that a repeat and its ceremonies hold on each other never
\* refuse a delete that nothing overlapped: the rule is pointed at another
\* ceremony, or goes, before its source does.
THEOREM DeletesAlwaysGoThrough == DiarySpec => []DeletesGoThrough
<1>1. DiaryInit => DeletesGoThrough
  BY DEF DiaryInit, DeletesGoThrough
<1>2. DiaryTypes /\ DeletesGoThrough /\ [DiaryNext]_dVars => DeletesGoThrough'
  <2> SUFFICES ASSUME DiaryTypes, ~failed, [DiaryNext]_dVars PROVE ~failed'
    BY DEF DeletesGoThrough
  <2>1. ASSUME NEW c \in Call, Delete(c) PROVE ~failed'
    <3> DEFINE r == events[calls[c].event].rule
               calm == rules[r] = calls[c].row /\ SeriesOf(r) = calls[c].victims \cup calls[c].survivors
    <3>1. calls[c].op = "delete"
      BY <2>1 DEF Delete
    <3>2. \/ failed' = failed
          \/ /\ r # 0 /\ Refused(events, rules, calls[c], r, Repointed(events, calls[c].row, calls[c]))
             /\ failed' = (failed \/ calm)
      BY <2>1 DEF Delete
    <3>3. CASE failed' = failed
      BY <3>3
    <3>4. CASE /\ r # 0 /\ Refused(events, rules, calls[c], r, Repointed(events, calls[c].row, calls[c]))
               /\ failed' = (failed \/ calm)
      <4>1. ~calm
        BY <3>1, <3>4, CalmIsNotRefused
      <4> HIDE DEF calm
      <4> QED
        BY <3>4, <4>1
    <3> QED
      BY <3>2, <3>3, <3>4
  <2>2. CASE failed' = failed
    BY <2>2
  <2>3. ASSUME NEW c \in Call, Add(c) \/ TopUp(c) \/ Edit(c) PROVE failed' = failed
    BY <2>3 DEF Add, TopUp, Edit
  <2>4. ASSUME NEW c \in Call, NEW call, Begin(c, call) PROVE failed' = failed
    BY <2>4 DEF Begin
  <2>5. ASSUME NEW i \in Live, Settle(i) PROVE failed' = failed
    BY <2>5 DEF Settle
  <2>6. ASSUME NEW who \in Mobed, NEW family \in Family, RemoveFamily(who, family) PROVE failed' = failed
    BY <2>6 DEF RemoveFamily
  <2>7. CASE Tick
    BY <2>7 DEF Tick
  <2>8. CASE UNCHANGED dVars
    BY <2>8 DEF dVars
  <2> QED
    BY <2>1, <2>2, <2>3, <2>4, <2>5, <2>6, <2>7, <2>8, ZenonT(60)
       DEF DiaryNext, AskAdd, AskTopUp, AskEdit, AskDelete
<1> QED
  BY <1>1, <1>2, RowsStayJoined, PTL DEF DiarySpec

\* A ceremony of today or before, and one that is still to come and no later by
\* its day, are both of today.
LEMMA SameDay ==
    ASSUME NEW d \in Nat, NEW e \in Nat, NEW x \in At, NEW y \in At, NEW t \in Nat,
           Instant(d, x) <= t, Instant(e, y) > t, d >= e
    PROVE  d = t \div Gehs
<1> DEFINE q == t \div Gehs
<1>1. Gehs \in Nat /\ Gehs > 0 /\ x \in 1 .. Gehs /\ y \in 1 .. Gehs
  BY DiaryAssumption DEF At
<1>2. q \in Nat /\ q * Gehs <= t /\ t < q * Gehs + Gehs
  <2>1. q \in Nat /\ t = Gehs * q + (t % Gehs) /\ t % Gehs \in 0 .. Gehs - 1
    BY <1>1
  <2>2. Gehs * q = q * Gehs /\ q * Gehs \in Nat
    BY <1>1, <2>1, Products
  <2> HIDE DEF q
  <2> QED
    BY <1>1, <2>1, <2>2
<1> HIDE DEF q
<1>3. /\ d * Gehs \in Nat /\ e * Gehs \in Nat /\ q * Gehs \in Nat
      /\ Instant(d, x) = d * Gehs + x - 1 /\ Instant(e, y) = e * Gehs + y - 1
  BY <1>1, <1>2, Products DEF Instant
<1>4. d * Gehs <= t /\ t < e * Gehs + Gehs
  BY <1>1, <1>3
<1>5. ~(q < d)
  <2>1. q < d => q * Gehs + Gehs <= d * Gehs
    BY <1>1, <1>2, RowsOver
  <2> QED
    BY <1>1, <1>2, <1>3, <1>4, <2>1
<1>6. ~(e < q)
  <2>1. e < q => e * Gehs + Gehs <= q * Gehs
    BY <1>1, <1>2, RowsOver
  <2> QED
    BY <1>1, <1>2, <1>3, <1>4, <2>1
<1> QED
  BY <1>2, <1>5, <1>6 DEF q

\* What was performed stays, but for machis of today and torn series.
LEMMA RemovalKeeps ==
    ASSUME DiaryTypes, SlotInv, NEW who \in Mobed, NEW family \in Family, RemoveFamily(who, family),
           NEW k \in Live, events[k].when <= now, ~events'[k].live
    PROVE  kind = "machi" /\ (events[k].day = now \div Gehs \/ SeriesOf(events[k].rule) \cap torn # {})
<1>1. PICK i \in Upcoming(who, family) : k = i \/ NoEarlier(events, k, i)
  BY RemovalCuts
<1>2. k \in DOMAIN events /\ i \in Live /\ i \in DOMAIN events /\ events[i].when > now /\ now \in Nat
  BY DEF Upcoming, Live, DiaryTypes
<1>3. events[k] \in EventRow /\ events[i] \in EventRow
  BY <1>2, ElementOfSeq, LenProperties DEF DiaryTypes, Sane
<1>4. /\ events[k].when \in Nat /\ events[i].when \in Nat /\ events[k].day \in Nat /\ events[i].day \in Nat
      /\ events[k].at \in At /\ events[i].at \in At
  BY <1>3 DEF EventRow
<1>5. NoEarlier(events, k, i)
  <2>1. k # i
    BY <1>2, <1>4
  <2> QED
    BY <1>1, <2>1
<1>6. kind = "machi"
  <2>1. CASE kind = "booking"
    <3>1. events[k].when >= events[i].when
      BY <1>5, <2>1 DEF NoEarlier, OrderOf
    <3> QED
      BY <1>2, <1>4, <3>1
  <2> QED
    BY <2>1 DEF DiaryTypes
<1>7. ASSUME SeriesOf(events[k].rule) \cap torn = {} PROVE events[k].day = now \div Gehs
  <2>1. k \notin torn /\ i \notin torn
    BY <1>2, <1>5, <1>7 DEF NoEarlier, SeriesOf
  <2>2. events[k].when = Instant(events[k].day, events[k].at)
        /\ events[i].when = Instant(events[i].day, events[i].at)
    BY <1>2, <2>1 DEF SlotInv, Fitting, Fits
  <2>3. events[k].day >= events[i].day
    BY <1>5, <1>6 DEF NoEarlier, OrderOf
  <2> QED
    BY <1>2, <1>4, <2>2, <2>3, SameDay
<1> QED
  BY <1>6, <1>7

\* A family's removal keeps what was performed, but for a machi of today with
\* an upcoming one of its series, or of a series that two edits tore.
THEOREM HistoryIsKept == DiarySpec => HistoryKept
<1> DEFINE Keeps == \A who \in Mobed, family \in Family : RemoveFamily(who, family) =>
               \A i \in Live : events[i].when <= now =>
                   \/ events'[i].live
                   \/ /\ kind = "machi"
                      /\ events[i].day = now \div Gehs \/ SeriesOf(events[i].rule) \cap torn # {}
<1>1. DiaryTypes /\ SlotInv => Keeps
  BY RemovalKeeps
<1>2. DiaryTypes /\ SlotInv => [Keeps]_dVars
  <2> HIDE DEF Keeps
  <2> QED
    BY <1>1
<1>3. HistoryKept <=> [][Keeps]_dVars
  BY DEF HistoryKept
<1> HIDE DEF Keeps
<1> QED
  BY <1>2, <1>3, RowsStayJoined, SlotsHold, PTL
-----------------------------------------------------------------------------
(***************************************************************************)
(* Dates: a repeat's dates are written once.                               *)
(***************************************************************************)

\* The rules that top-ups of events are about stay as they were read.
LEMMA HeldStays ==
    ASSUME Held, kind' = kind,
           \A b \in Call : calls'[b].op = "topup"
               => calls'[b] = calls[b] /\ (kind = "booking" => rules'[calls[b].rule] = rules[calls[b].rule])
    PROVE  Held'
BY DEF Held

\* Steps that keep each ceremony's repeat and date, and each repeat's marker.
LEMMA DatesKept ==
    ASSUME DiaryTypes, Behind, OccurrenceOnce, kind' = kind, raced \subseteq raced',
           DOMAIN events' = DOMAIN events,
           \A i \in DOMAIN events : events'[i].rule = events[i].rule /\ events'[i].for = events[i].for,
           \A q \in DOMAIN rules : rules'[q].until = rules[q].until
    PROVE  Behind' /\ OccurrenceOnce'
<1>1. \A i \in DOMAIN events : events[i].rule # 0 => events[i].rule \in DOMAIN rules
  BY LenProperties DEF DiaryTypes, Sane
<1>2. Behind'
  BY <1>1 DEF Behind
<1>3. OccurrenceOnce'
  BY DEF OccurrenceOnce
<1> QED
  BY <1>2, <1>3

\* Rows that are added after all others of their repeat, and before its marker.
LEMMA GrowsDates ==
    ASSUME DiaryTypes, Behind, OccurrenceOnce, kind' = kind, raced \subseteq raced',
           NEW new, NEW r \in Nat, NEW by, NEW at, Alike(new, r, by, at), Grows(new),
           \A q \in DOMAIN rules : q # r => rules'[q].until = rules[q].until,
           r # 0 /\ ~(kind = "machi" /\ r \in raced') =>
               /\ \A n \in 1 .. Len(new) : new[n].for <= rules'[r].until
               /\ \A i \in DOMAIN events : events[i].rule = r =>
                    /\ events[i].for <= rules'[r].until
                    /\ \A n \in 1 .. Len(new) : events[i].for < new[n].for
    PROVE  Behind' /\ OccurrenceOnce'
<1>1. /\ DOMAIN events = 1 .. Len(events) /\ Len(events) \in Nat /\ Len(new) \in Nat
      /\ \A i \in DOMAIN events : events[i].for \in Nat
      /\ \A n \in 1 .. Len(new) : new[n].for \in Nat
  <2>1. /\ DOMAIN events = 1 .. Len(events) /\ Len(events) \in Nat /\ Len(new) \in Nat
        /\ \A i \in DOMAIN events : events[i] \in EventRow
        /\ \A n \in 1 .. Len(new) : new[n] \in EventRow
    BY LenProperties, ElementOfSeq DEF DiaryTypes, Sane, Alike
  <2> QED
    BY <2>1 DEF EventRow
<1>2. \A i \in DOMAIN events : events[i].rule # 0 => events[i].rule \in DOMAIN rules
  BY LenProperties DEF DiaryTypes, Sane
<1>3. \A i \in DOMAIN events' : \/ i \in DOMAIN events /\ events'[i] = events[i]
                                \/ \E n \in 1 .. Len(new) : i = Len(events) + n /\ events'[i] = new[n]
  BY DEF Grows
<1>4. \A n \in 1 .. Len(new) : new[n].rule = r /\ new[n].for = new[n].day
  BY DEF Alike
<1>5. Behind'
  <2> SUFFICES ASSUME NEW i \in DOMAIN events', events'[i].rule # 0,
                      ~(kind = "machi" /\ events'[i].rule \in raced')
               PROVE  events'[i].for <= rules'[events'[i].rule].until
    BY DEF Behind
  <2>1. CASE i \in DOMAIN events /\ events'[i] = events[i]
    <3>1. CASE events[i].rule = r
      BY <2>1, <3>1
    <3>2. CASE events[i].rule # r
      <4>1. (events[i].rule \in DOMAIN rules /\ events[i].rule \notin raced) \/ kind # "machi"
        BY <1>2, <2>1
      <4>2. events[i].for <= rules[events[i].rule].until
        BY <2>1, <4>1 DEF Behind
      <4> QED
        BY <1>2, <2>1, <3>2, <4>2
    <3> QED
      BY <3>1, <3>2
  <2>2. CASE \E n \in 1 .. Len(new) : i = Len(events) + n /\ events'[i] = new[n]
    BY <1>4, <2>2
  <2> QED
    BY <1>3, <2>1, <2>2
<1>6. OccurrenceOnce'
  <2> SUFFICES ASSUME NEW i \in DOMAIN events', NEW j \in DOMAIN events', i < j,
                      events'[i].rule # 0, events'[i].rule = events'[j].rule,
                      ~(kind = "machi" /\ events'[i].rule \in raced')
               PROVE  events'[i].for # events'[j].for
    BY DEF OccurrenceOnce
  <2>1. CASE j \in DOMAIN events /\ events'[j] = events[j]
    <3>1. i \in DOMAIN events /\ events'[i] = events[i]
      BY <1>1, <1>3, <2>1
    <3> QED
      BY <2>1, <3>1 DEF OccurrenceOnce
  <2>2. ASSUME NEW n \in 1 .. Len(new), j = Len(events) + n, events'[j] = new[n]
        PROVE  events'[i].for # events'[j].for
    <3>1. CASE i \in DOMAIN events /\ events'[i] = events[i]
      <4>1. events[i].rule = r /\ r # 0
        BY <1>4, <2>2, <3>1
      <4>2. events[i].for < new[n].for
        BY <2>2, <3>1, <4>1
      <4> QED
        BY <1>1, <2>2, <3>1, <4>2
    <3>2. ASSUME NEW m \in 1 .. Len(new), i = Len(events) + m, events'[i] = new[m]
          PROVE  events'[i].for # events'[j].for
      <4>1. m < n
        BY <1>1, <2>2, <3>2
      <4>2. new[m].day < new[n].day
        BY <4>1 DEF Alike
      <4> QED
        BY <1>1, <1>4, <2>2, <3>2, <4>2
    <3> QED
      BY <1>3, <3>1, <3>2
  <2> QED
    BY <1>3, <2>1, <2>2
<1> QED
  BY <1>5, <1>6

\* What is cut and steered keeps the dates and what top-ups of events hold.
LEMMA CutDates ==
    ASSUME DiaryTypes, DateInv, kind' = kind, raced' = raced, Cut(events, events'),
           Steered(rules, rules', {r \in DOMAIN rules : ~Locked(r)}),
           \A b \in Call : calls'[b].op = "topup" => calls'[b] = calls[b]
    PROVE  DateInv'
<1>1. \A i \in DOMAIN events : events'[i].rule = events[i].rule /\ events'[i].for = events[i].for
  BY DEF Cut, Kept
<1>2. \A q \in DOMAIN rules : rules'[q].until = rules[q].until
  BY DEF Steered, DatesOf
<1>3. Behind' /\ OccurrenceOnce'
  BY <1>1, <1>2, DatesKept DEF DateInv, Cut
<1>4. ASSUME NEW b \in Call, calls[b].op = "topup", kind = "booking"
      PROVE  rules'[calls[b].rule] = rules[calls[b].rule]
  <2>1. calls[b].rule \in DOMAIN rules
    BY <1>4 DEF DiaryTypes, Asked, TopUpAsked, Idle
  <2>2. Locked(calls[b].rule)
    BY <1>4 DEF Locked
  <2> QED
    BY <2>1, <2>2 DEF Steered
<1>5. Held'
  BY <1>4, HeldStays DEF DateInv
<1> QED
  BY <1>3, <1>5 DEF DateInv

\* Nothing is written, and no top-up begins.
LEMMA StillDates ==
    ASSUME DiaryTypes, DateInv, UNCHANGED <<kind, events, rules, raced>>,
           \A b \in Call : calls'[b].op = "topup" => calls'[b] = calls[b]
    PROVE  DateInv'
<1>1. Behind' /\ OccurrenceOnce'
  BY DatesKept DEF DateInv
<1>2. Held'
  BY HeldStays DEF DateInv
<1> QED
  BY <1>1, <1>2 DEF DateInv

\* A repeat that is added has no dates yet.
LEMMA AddDates == ASSUME DiaryTypes, DateInv, NEW c \in Call, Add(c) PROVE DateInv'
<1>1. kind' = kind /\ raced' = raced /\ calls' = [calls EXCEPT ![c] = Idle]
  BY DEF Add, Finish
<1>2. \A b \in Call : calls'[b].op = "topup" => calls'[b] = calls[b]
  <2>1. Idle.op # "topup"
    BY DEF Idle
  <2> QED
    BY <1>1, <2>1
<1>3. /\ rules \in Seq(RuleRow) /\ Len(rules) \in Nat /\ DOMAIN rules = 1 .. Len(rules)
      /\ \A i \in DOMAIN events : events[i].rule \in 0 .. Len(rules)
  BY LenProperties DEF DiaryTypes, Sane
<1>4. CASE events' = events /\ rules' = rules
  BY <1>1, <1>2, <1>4, StillDates
<1>5. ASSUME rules' = rules, NEW new, NEW by, NEW at, Alike(new, 0, by, at), Grows(new) PROVE DateInv'
  <2>1. Behind' /\ OccurrenceOnce'
    BY <1>1, <1>5, GrowsDates DEF DateInv
  <2>2. Held'
    BY <1>1, <1>2, <1>5, HeldStays DEF DateInv
  <2> QED
    BY <2>1, <2>2 DEF DateInv
<1>6. ASSUME NEW new, NEW by, NEW at, NEW rule, Alike(new, Len(rules) + 1, by, at), Grows(new),
             AddsRepeat(new, rule)
      PROVE  DateInv'
  <2> DEFINE r == Len(rules) + 1
  <2>1. /\ rule \in RuleRow /\ rules' = Append(rules, rule)
        /\ \A n \in 1 .. Len(new) : new[n].for <= rule.until
    BY <1>6 DEF AddsRepeat
  <2>2. rules'[r] = rule /\ \A q \in DOMAIN rules : q # r /\ rules'[q] = rules[q]
    BY <1>3, <2>1, AppendProperties
  <2>3. r \in Nat /\ \A i \in DOMAIN events : events[i].rule # r
    BY <1>3
  <2> HIDE DEF r
  <2>4. Alike(new, r, by, at)
    BY <1>6 DEF r
  <2>5. Behind' /\ OccurrenceOnce'
    BY <1>1, <1>6, <2>1, <2>2, <2>3, <2>4, GrowsDates DEF DateInv
  <2>6. \A b \in Call : calls[b].op = "topup" => calls[b].rule \in DOMAIN rules
    BY DEF DiaryTypes, Asked, TopUpAsked, Idle
  <2>7. Held'
    BY <1>1, <1>2, <2>2, <2>6, HeldStays DEF DateInv
  <2> QED
    BY <2>5, <2>7 DEF DateInv
<1> QED
  BY <1>4, <1>5, <1>6, AddGrows

\* A top-up writes dates that are later than all that its repeat has.
LEMMA TopUpDates == ASSUME DiaryTypes, DateInv, NEW c \in Call, TopUp(c) PROVE DateInv'
<1> DEFINE ask == calls[c]
           r == ask.rule
<1>1. /\ kind' = kind /\ calls' = [calls EXCEPT ![c] = Idle] /\ ask.op = "topup"
      /\ raced' = IF rules[r] = ask.row THEN raced ELSE raced \cup {r}
  BY DEF TopUp, Finish
<1>2. raced \subseteq raced' /\ (r \notin raced' => rules[r] = ask.row)
  BY <1>1
<1>3. \A b \in Call : calls'[b].op = "topup" => calls'[b] = calls[b] /\ b # c
  <2>1. Idle.op # "topup"
    BY DEF Idle
  <2> QED
    BY <1>1, <2>1 DEF DiaryTypes
<1>4. TopUpAsked(ask, events, rules)
  BY <1>1 DEF DiaryTypes, Asked, Idle
<1>5. r \in DOMAIN rules /\ r \in Nat /\ rules \in Seq(RuleRow) /\ rules[r] \in RuleRow
  BY <1>4, LenProperties, ElementOfSeq DEF TopUpAsked, DiaryTypes, Sane
<1>6. kind = "booking" => /\ rules[r] = ask.row
                          /\ \A b \in Call : calls'[b].op = "topup" => calls[b].rule # r
  BY <1>1, <1>3 DEF DateInv, Held
<1>7. ~(kind = "machi" /\ r \in raced') => rules[r] = ask.row
  BY <1>2, <1>6 DEF DiaryTypes
<1>8. ASSUME \A q \in DOMAIN rules : q # r => rules'[q] = rules[q] PROVE Held'
  <2>1. \A b \in Call : calls'[b].op = "topup" => calls[b].rule \in DOMAIN rules
    BY <1>3 DEF DiaryTypes, Asked, TopUpAsked, Idle
  <2>2. \A b \in Call : calls'[b].op = "topup"
          => calls'[b] = calls[b] /\ (kind = "booking" => rules'[calls[b].rule] = rules[calls[b].rule])
    BY <1>3, <1>6, <1>8, <2>1
  <2> QED
    BY <1>1, <2>2, HeldStays DEF DateInv
<1> HIDE DEF ask, r
<1>9. CASE events' = events /\ rules' = rules
  <2>1. Behind' /\ OccurrenceOnce'
    BY <1>1, <1>2, <1>9, DatesKept DEF DateInv
  <2> QED
    BY <1>8, <1>9, <2>1 DEF DateInv
<1>a. CASE events' = events /\ rules' = [rules EXCEPT ![r].active = FALSE]
  <2> PICK rule \in RuleRow : rule = rules[r]
    BY <1>5
  <2>1. [rule EXCEPT !.active = FALSE].until = rule.until
    BY DEF RuleRow
  <2>2. rules' = [rules EXCEPT ![r] = [rule EXCEPT !.active = FALSE]]
    BY <1>a
  <2>3. rules'[r] = [rule EXCEPT !.active = FALSE] /\ \A q \in DOMAIN rules : q # r => rules'[q] = rules[q]
    BY <1>5, <2>2
  <2>4. Behind' /\ OccurrenceOnce'
    BY <1>1, <1>2, <1>a, <2>1, <2>3, DatesKept DEF DateInv
  <2> QED
    BY <1>8, <2>3, <2>4 DEF DateInv
<1>b. ASSUME NEW new, NEW by, NEW at, NEW u, Alike(new, r, by, at), Grows(new),
             ToppedUp(r, ask.row, new, u)
      PROVE  DateInv'
  <2>1. /\ rules' = [rules EXCEPT ![r].until = u] /\ u \in Nat /\ ask.row.until <= u
        /\ \A n \in 1 .. Len(new) : ask.row.until < new[n].for /\ new[n].for <= u
    BY <1>b DEF ToppedUp
  <2>2. rules'[r].until = u /\ \A q \in DOMAIN rules : q # r => rules'[q] = rules[q]
    <3> PICK rule \in RuleRow : rule = rules[r]
      BY <1>5
    <3>1. [rule EXCEPT !.until = u].until = u
      BY DEF RuleRow
    <3>2. rules' = [rules EXCEPT ![r] = [rule EXCEPT !.until = u]]
      BY <2>1
    <3> QED
      BY <1>5, <3>1, <3>2
  <2>3. ASSUME r # 0, ~(kind = "machi" /\ r \in raced')
        PROVE  \A i \in DOMAIN events : events[i].rule = r =>
                 /\ events[i].for <= u
                 /\ \A n \in 1 .. Len(new) : events[i].for < new[n].for
    <3> SUFFICES ASSUME NEW i \in DOMAIN events, events[i].rule = r
                 PROVE  events[i].for <= u /\ \A n \in 1 .. Len(new) : events[i].for < new[n].for
      OBVIOUS
    <3>1. rules[r] = ask.row /\ ask.row.until \in Nat
      BY <1>5, <1>7, <2>3 DEF RuleRow
    <3>2. ~(kind = "machi" /\ r \in raced)
      BY <1>2, <2>3
    <3>3. events[i].for <= ask.row.until
      BY <2>3, <3>1, <3>2 DEF DateInv, Behind
    <3>4. events[i].for \in Nat /\ \A n \in 1 .. Len(new) : new[n].for \in Nat
      <4>1. events[i] \in EventRow /\ \A n \in 1 .. Len(new) : new[n] \in EventRow
        BY <1>b, LenProperties, ElementOfSeq DEF DiaryTypes, Sane, Alike
      <4> QED
        BY <4>1 DEF EventRow
    <3> QED
      BY <2>1, <3>1, <3>3, <3>4
  <2>4. Behind' /\ OccurrenceOnce'
    BY <1>1, <1>2, <1>5, <1>b, <2>1, <2>2, <2>3, GrowsDates DEF DateInv
  <2> QED
    BY <1>8, <2>2, <2>4 DEF DateInv
<1> QED
  BY <1>9, <1>a, <1>b, TopUpGrows DEF ask, r

\* An edit writes neither the date nor the repeat of a ceremony.
LEMMA EditKeeps ==
    ASSUME DiaryTypes, NEW c \in Call, Edit(c)
    PROVE  /\ rules' = rules /\ DOMAIN events' = DOMAIN events
           /\ \A k \in DOMAIN events : events'[k].rule = events[k].rule /\ events'[k].for = events[k].for
<1> DEFINE e == calls[c]
           i == e.event
<1>1. /\ i \in DOMAIN events /\ events[i] \in EventRow /\ rules' = rules
      /\ e.had \in EventRow /\ e.new \in EventRow
      /\ \/ events' = events
         \/ \E x \in EventRow :
              /\ x = Renamed(events[i], e) \/ x = Moved(events[i], e)
              /\ events' = [events EXCEPT ![i] = x]
  BY EditIs
<1>2. events \in Seq(EventRow)
  BY DEF DiaryTypes, Sane
<1> HIDE DEF e, i
<1>3. CASE events' = events
  BY <1>1, <1>3
<1>4. ASSUME NEW x \in EventRow, x = Renamed(events[i], e) \/ x = Moved(events[i], e),
             events' = [events EXCEPT ![i] = x]
      PROVE  DOMAIN events' = DOMAIN events
             /\ \A k \in DOMAIN events : events'[k].rule = events[k].rule /\ events'[k].for = events[k].for
  <2>1. x.rule = events[i].rule /\ x.for = events[i].for
    BY <1>1, <1>4, EditedRow
  <2>2. DOMAIN events' = DOMAIN events /\ events'[i] = x
        /\ \A k \in DOMAIN events : k # i => events'[k] = events[k]
    BY <1>1, <1>2, <1>4
  <2> QED
    BY <2>1, <2>2
<1> QED
  BY <1>1, <1>3, <1>4

\* The dates' invariant is kept.
LEMMA DatesStay == ASSUME DiaryTypes, DateInv, DiaryNext PROVE DateInv'
<1> calls = [b \in Call |-> calls[b]] /\ events \in Seq(EventRow) /\ DOMAIN events = 1 .. Len(events)
  BY LenProperties DEF DiaryTypes, Sane
<1>1. ASSUME NEW c \in Call, Finish(c)
      PROVE  kind' = kind /\ \A b \in Call : calls'[b].op = "topup" => calls'[b] = calls[b]
  <2>1. calls' = [calls EXCEPT ![c] = Idle] /\ Idle.op # "topup"
    BY <1>1 DEF Finish, Idle
  <2> QED
    BY <1>1, <2>1 DEF Finish
<1>2. ASSUME NEW c \in Call, Edit(c) PROVE DateInv'
  <2>1. raced' = raced /\ Finish(c)
    BY <1>2 DEF Edit
  <2>2. /\ rules' = rules /\ DOMAIN events' = DOMAIN events
        /\ \A k \in DOMAIN events : events'[k].rule = events[k].rule /\ events'[k].for = events[k].for
    BY <1>2, EditKeeps
  <2>3. Behind' /\ OccurrenceOnce'
    BY <1>1, <2>1, <2>2, DatesKept DEF DateInv
  <2>4. Held'
    BY <1>1, <2>1, <2>2, HeldStays DEF DateInv
  <2> QED
    BY <2>3, <2>4 DEF DateInv
<1>3. ASSUME NEW c \in Call, Delete(c) PROVE DateInv'
  <2>1. Finish(c) /\ raced' = raced
    BY <1>3 DEF Delete
  <2> QED
    BY <1>1, <1>3, <2>1, DeleteCuts, CutDates
<1>4. ASSUME NEW who \in Mobed, NEW family \in Family, RemoveFamily(who, family) PROVE DateInv'
  <2>1. UNCHANGED <<kind, raced, calls>>
    BY <1>4 DEF RemoveFamily
  <2> QED
    BY <1>4, <2>1, RemovalCuts, CutDates
<1>5. ASSUME NEW i \in Live, Settle(i) PROVE DateInv'
  <2>1. i \in DOMAIN events /\ events' = [events EXCEPT ![i].settled = TRUE]
        /\ UNCHANGED <<kind, raced, calls, rules>>
    BY <1>5 DEF Live, Settle
  <2> PICK row \in EventRow : row = events[i]
    BY <2>1, ElementOfSeq
  <2>2. Kept(row, [row EXCEPT !.settled = TRUE])
    BY DEF EventRow, Kept, TimeOf
  <2>3. Cut(events, events')
    <3>1. DOMAIN events' = DOMAIN events /\ events'[i] = [row EXCEPT !.settled = TRUE]
          /\ \A k \in DOMAIN events : k # i => events'[k] = events[k]
      BY <2>1
    <3>2. \A k \in DOMAIN events : Kept(events[k], events[k])
      BY DEF Kept
    <3> QED
      BY <2>2, <3>1, <3>2 DEF Cut
  <2>4. Steered(rules, rules', {r \in DOMAIN rules : ~Locked(r)})
    BY <2>1 DEF Steered
  <2> QED
    BY <2>1, <2>3, <2>4, CutDates
<1>6. ASSUME NEW c \in Call, NEW call, Begin(c, call), call.op # "topup" PROVE DateInv'
  <2>1. UNCHANGED <<kind, events, rules, raced>> /\ calls' = [calls EXCEPT ![c] = call]
    BY <1>6 DEF Begin
  <2> QED
    BY <1>6, <2>1, StillDates
<1>7. ASSUME NEW c \in Call, NEW who \in Mobed, NEW r \in DOMAIN rules, NEW through \in Throughs,
             AskTopUp(c, who, r, through)
      PROVE  DateInv'
  <2> DEFINE call == [op |-> "topup", rule |-> r, row |-> rules[r], through |-> through,
                      seen |-> SlotsOf(events[rules[r].source].by)]
  <2>1. Begin(c, call) /\ ~Locked(r) /\ call.op = "topup" /\ call.rule = r /\ call.row = rules[r]
    BY <1>7 DEF AskTopUp
  <2>2. UNCHANGED <<kind, events, rules, raced>> /\ calls' = [calls EXCEPT ![c] = call]
    BY <2>1 DEF Begin
  <2>3. Behind' /\ OccurrenceOnce'
    BY <2>2, DatesKept DEF DateInv
  <2>4. kind = "booking" => \A b \in Call : ~(calls[b].op = "topup" /\ calls[b].rule = r)
    BY <2>1 DEF Locked
  <2> HIDE DEF call
  <2>5. calls'[c] = call /\ \A b \in Call : b # c => calls'[b] = calls[b]
    BY <2>2
  <2>6. Held'
    <3> SUFFICES ASSUME kind = "booking", NEW b \in Call, calls'[b].op = "topup"
                 PROVE  /\ calls'[b].row = rules[calls'[b].rule]
                        /\ \A a \in Call : a # b => ~(calls'[a].op = "topup" /\ calls'[a].rule = calls'[b].rule)
      BY <2>2 DEF Held
    <3>1. CASE b = c
      BY <2>1, <2>4, <2>5, <3>1
    <3>2. CASE b # c
      <4>1. calls'[b] = calls[b] /\ calls[b].rule # r
        BY <2>4, <2>5, <3>2
      <4> QED
        BY <2>1, <2>5, <4>1 DEF DateInv, Held
    <3> QED
      BY <3>1, <3>2
  <2> QED
    BY <2>3, <2>6 DEF DateInv
<1>8. CASE Tick
  <2>1. UNCHANGED <<kind, events, rules, raced, calls>>
    BY <1>8 DEF Tick
  <2> QED
    BY <2>1, StillDates
<1>9. ASSUME NEW c \in Call, NEW by \in Mobed, NEW day \in Days, NEW at \in At, NEW family \in Family,
             NEW repeat \in {Once} \cup Repeat, AskAdd(c, by, day, at, family, repeat)
      PROVE  DateInv'
  <2> PICK call : Begin(c, call) /\ call.op = "add"
    BY <1>9 DEF AskAdd
  <2> QED
    BY <1>6
<1>a. ASSUME NEW c \in Call, NEW who \in Mobed, NEW i \in Live, NEW day \in Days, NEW at \in At,
             NEW family \in Family, AskEdit(c, who, i, day, at, family)
      PROVE  DateInv'
  <2> PICK call : Begin(c, call) /\ call.op = "edit"
    BY <1>a DEF AskEdit
  <2> QED
    BY <1>6
<1>b. ASSUME NEW c \in Call, NEW who \in Mobed, NEW i \in Live, NEW future \in BOOLEAN,
             AskDelete(c, who, i, future)
      PROVE  DateInv'
  <2> PICK call : Begin(c, call) /\ call.op = "delete"
    BY <1>b DEF AskDelete, DeleteOf
  <2> QED
    BY <1>6
<1> QED
  BY <1>2, <1>3, <1>4, <1>5, <1>7, <1>8, <1>9, <1>a, <1>b, AddDates, TopUpDates DEF DiaryNext

\* So it holds always.
LEMMA DatesHold == DiarySpec => []DateInv
<1>1. DiaryInit => DateInv
  BY DEF DiaryInit, DateInv, Held, Behind, OccurrenceOnce, Idle
<1>2. DiaryTypes /\ DateInv /\ [DiaryNext]_dVars => DateInv'
  <2> SUFFICES ASSUME DiaryTypes, DateInv, [DiaryNext]_dVars PROVE DateInv'
    OBVIOUS
  <2>1. CASE DiaryNext
    BY <2>1, DatesStay
  <2>2. CASE UNCHANGED dVars
    BY <2>2, StillDates DEF dVars
  <2> QED
    BY <2>1, <2>2
<1> QED
  BY <1>1, <1>2, RowsStayJoined, PTL DEF DiarySpec

\* A date of a repeat is written once, deleted or not: of an event always, as a
\* top-up's lock keeps its rule as it was read; of a machi as long as no
\* top-ups of its repeat overlapped.
THEOREM OccurrencesAreWrittenOnce == DiarySpec => []OccurrenceOnce
<1>1. DateInv => OccurrenceOnce
  BY DEF DateInv
<1> QED
  BY <1>1, DatesHold, PTL
-----------------------------------------------------------------------------
(***************************************************************************)
(* Counts: the dates of a repeat, month by month.                          *)
(***************************************************************************)

\* A month and a Roj are one day.
LEMMA DayAtIs ==
    ASSUME NEW m \in Nat, NEW j \in 0 .. Rojs - 1
    PROVE  DayAt(m, j) \in Nat /\ MonthOf(DayAt(m, j)) = m /\ RojOf(DayAt(m, j)) = j
<1> DEFINE d == DayAt(m, j)
           M == MonthOf(d)
           J == RojOf(d)
<1>1. Rojs \in Nat \ {0} /\ m * Rojs \in Nat /\ d = m * Rojs + j /\ d \in Nat
  BY DiaryAssumption, Products DEF DayAt
<1>2. M \in Nat /\ J \in 0 .. Rojs - 1 /\ d = M * Rojs + J /\ M * Rojs \in Nat
  BY <1>1, DayIsItsKey, Products
<1> HIDE DEF d, M, J
<1>3. ~(M < m)
  <2>1. M < m => M * Rojs + Rojs <= m * Rojs
    BY <1>1, <1>2, RowsOver
  <2> QED
    BY <1>1, <1>2, <2>1
<1>4. ~(m < M)
  <2>1. m < M => m * Rojs + Rojs <= M * Rojs
    BY <1>1, <1>2, RowsOver
  <2> QED
    BY <1>1, <1>2, <2>1
<1>5. M = m
  BY <1>2, <1>3, <1>4
<1>6. J = j
  BY <1>1, <1>2, <1>5
<1> QED
  BY <1>1, <1>5, <1>6 DEF d, M, J

\* Later days are in later months, or the same.
LEMMA MonthsInOrder == ASSUME NEW d \in Nat, NEW e \in Nat, d <= e PROVE MonthOf(d) <= MonthOf(e)
<1> DEFINE M == MonthOf(d)
           N == MonthOf(e)
<1>1. /\ Rojs \in Nat \ {0} /\ M \in Nat /\ N \in Nat /\ M * Rojs \in Nat /\ N * Rojs \in Nat
      /\ d = M * Rojs + RojOf(d) /\ RojOf(d) \in 0 .. Rojs - 1
      /\ e = N * Rojs + RojOf(e) /\ RojOf(e) \in 0 .. Rojs - 1
  BY DiaryAssumption, DayIsItsKey, Products
<1> HIDE DEF M, N
<1>2. ~(N < M)
  <2>1. N < M => N * Rojs + Rojs <= M * Rojs
    BY <1>1, RowsOver
  <2> QED
    BY <1>1, <2>1
<1> QED
  BY <1>1, <1>2 DEF M, N

\* On one Roj, later months are later days.
LEMMA DaysInOrder ==
    ASSUME NEW d \in Nat, NEW e \in Nat, RojOf(d) = RojOf(e), MonthOf(d) <= MonthOf(e)
    PROVE  d <= e /\ (MonthOf(d) = MonthOf(e) => d = e)
<1> DEFINE M == MonthOf(d)
           N == MonthOf(e)
<1>1. /\ Rojs \in Nat \ {0} /\ M \in Nat /\ N \in Nat /\ M * Rojs \in Nat /\ N * Rojs \in Nat
      /\ d = M * Rojs + RojOf(d) /\ RojOf(d) \in 0 .. Rojs - 1
      /\ e = N * Rojs + RojOf(e)
  BY DiaryAssumption, DayIsItsKey, Products
<1>2. M <= N /\ RojOf(d) = RojOf(e)
  OBVIOUS
<1> HIDE DEF M, N
<1>3. M < N => M * Rojs + Rojs <= N * Rojs
  BY <1>1, RowsOver
<1>4. M = N => d = e
  BY <1>1, <1>2
<1>5. d <= e
  BY <1>1, <1>2, <1>3, <1>4
<1> QED
  BY <1>4, <1>5 DEF M, N

\* Multiples are in the order of their factors.
LEMMA StepsInOrder ==
    ASSUME NEW s \in Nat \ {0}, NEW k \in Nat, NEW l \in Nat, NEW m \in Nat, m + k * s <= m + l * s
    PROVE  k <= l
<1>1. k * s \in Nat /\ l * s \in Nat
  BY Products
<1>2. l < k => l * s + s <= k * s
  BY RowsOver
<1> QED
  BY <1>1, <1>2

\* A multiple leaves no remainder, and what leaves none is a multiple.
LEMMA Multiples ==
    ASSUME NEW s \in Nat \ {0}, NEW x \in Nat
    PROVE  x % s = 0 <=> \E k \in Nat : x = k * s
<1> DEFINE q == x \div s
           rest == x % s
<1>1. q \in Nat /\ x = s * q + rest /\ rest \in 0 .. s - 1
  <2> s \in Nat /\ s > 0
    OBVIOUS
  <2> QED
    OBVIOUS
<1>2. x = q * s + rest /\ q * s \in Nat /\ rest \in Nat /\ rest < s
  <2> HIDE DEF q, rest
  <2>1. s * q = q * s
    BY <1>1
  <2>2. q * s \in Nat
    BY <1>1, Products
  <2>3. rest \in Nat /\ rest < s
    BY <1>1
  <2>4. x = q * s + rest
    <3> PICK y : y = s * q
      OBVIOUS
    <3> QED
      BY <1>1, <2>1
  <2> QED
    BY <2>2, <2>3, <2>4
<1> HIDE DEF q, rest
<1>3. ASSUME x % s = 0 PROVE \E k \in Nat : x = k * s
  <2>1. rest = 0
    BY <1>3 DEF rest
  <2>2. PICK y \in Nat : y = q * s
    BY <1>2
  <2>3. x = y
    BY <1>2, <2>1, <2>2
  <2> QED
    BY <1>1, <2>2, <2>3
<1>4. ASSUME NEW k \in Nat, x = k * s PROVE x % s = 0
  <2>1. k * s \in Nat
    BY Products
  <2>2. ~(q < k)
    <3>1. q < k => q * s + s <= k * s
      BY <1>1, RowsOver
    <3> QED
      BY <1>1, <1>2, <1>4, <2>1, <3>1
  <2>3. ~(k < q)
    <3>1. k < q => k * s + s <= q * s
      BY <1>1, RowsOver
    <3> QED
      BY <1>1, <1>2, <1>4, <2>1, <3>1
  <2>4. q = k
    BY <1>1, <2>2, <2>3
  <2> QED
    BY <1>1, <1>2, <1>4, <2>1, <2>4 DEF rest
<1> QED
  BY <1>3, <1>4

\* The k-th date after a marker is k steps on.
LEMMA NthIs ==
    ASSUME NEW until \in Nat, NEW roj \in 0 .. Rojs - 1, NEW pattern \in Pattern, NEW k \in Nat
    PROVE  LET d == Nth(until, roj, pattern, k)
           IN  d \in Nat /\ RojOf(d) = roj /\ MonthOf(d) = MonthOf(until) + k * StepOf(pattern)
<1>1. StepOf(pattern) \in Nat /\ MonthOf(until) \in Nat
  BY StepIs, DayIsItsKey
<1>2. MonthOf(until) + k * StepOf(pattern) \in Nat
  BY <1>1, Products
<1> QED
  BY <1>2, DayAtIs DEF Nth

\* A date that is tried is a number of steps on, and the one before it, if any,
\* did not reach the day that was asked for.
LEMMA TriedIs ==
    ASSUME NEW until \in Nat, NEW roj \in 0 .. Rojs - 1, NEW pattern \in Pattern, NEW through \in Nat,
           NEW d \in Tries(until, roj, pattern, through)
    PROVE  /\ until < through /\ d \in Nat /\ RojOf(d) = roj
           /\ \E k \in 1 .. MaxPeriods :
                /\ d = Nth(until, roj, pattern, k) /\ MonthOf(d) = MonthOf(until) + k * StepOf(pattern)
                /\ k = 1 \/ Nth(until, roj, pattern, k - 1) < through
<1>1. ~(until >= through)
      /\ d \in {Nth(until, roj, pattern, k) :
                  k \in {n \in 1 .. MaxPeriods : n = 1 \/ Nth(until, roj, pattern, n - 1) < through}}
  BY DEF Tries, Nth
<1>2. PICK k \in 1 .. MaxPeriods :
        d = Nth(until, roj, pattern, k) /\ (k = 1 \/ Nth(until, roj, pattern, k - 1) < through)
  BY <1>1
<1>3. k \in Nat
  BY DiaryAssumption
<1>4. d \in Nat /\ RojOf(d) = roj /\ MonthOf(d) = MonthOf(until) + k * StepOf(pattern)
  BY <1>2, <1>3, NthIs
<1> QED
  BY <1>1, <1>2, <1>4

\* And every such date is tried.
LEMMA Tried ==
    ASSUME NEW until \in Nat, NEW roj \in 0 .. Rojs - 1, NEW pattern \in Pattern, NEW through \in Nat,
           until < through, NEW k \in 1 .. MaxPeriods, k = 1 \/ Nth(until, roj, pattern, k - 1) < through
    PROVE  Nth(until, roj, pattern, k) \in Tries(until, roj, pattern, through)
BY DEF Tries, Nth
-----------------------------------------------------------------------------
\* The months of a repeat, counted from its start.
OnStep(row, m) == \E k \in Nat : m = MonthOf(row.start) + k * StepOf(row.pattern)

\* The dates D of a repeat are right by its rule: they begin with its start, go
\* month by month up to the marker, and where the marker passed the month of the
\* last date, that date is not among them.
DatesRight(row, D) ==
    /\ row.end = LastOf(row.start, row.pattern, row.count)
    /\ D \in SUBSET Nat /\ row.start \in D
    /\ \A d \in D : d <= row.until /\ OnStep(row, MonthOf(d))
    /\ OnStep(row, MonthOf(row.until))
    /\ row.count # 0 =>
        /\ MonthOf(row.until) <= MonthOf(row.end) + StepOf(row.pattern)
        /\ MonthOf(row.until) > MonthOf(row.end) => row.end \notin D

\* None is missing, as long as they are on one Roj.
OnOneRoj(D) == \A d, e \in D : RojOf(d) = RojOf(e)
AllDates(row) ==
    {d \in row.start .. row.until :
        RojOf(d) = RojOf(row.start) /\ (MonthOf(d) - MonthOf(row.start)) % StepOf(row.pattern) = 0}
Whole(row, D) == row.until \in D /\ (OnOneRoj(D) => D = AllDates(row))
CountInv ==
    /\ \A r \in DOMAIN rules : (kind = "machi" /\ r \in raced) \/ DatesRight(rules[r], SeriesDates(r))
    /\ kind = "booking" => \A r \in DOMAIN rules : Whole(rules[r], SeriesDates(r))

\* Some steps after a month of the repeat is a month of the repeat.
LEMMA StepsAdd ==
    ASSUME NEW row \in RuleRow, NEW m, OnStep(row, m), NEW k \in Nat
    PROVE  OnStep(row, m + k * StepOf(row.pattern))
<1> DEFINE s == StepOf(row.pattern)
           M == MonthOf(row.start)
<1>1. s \in Nat /\ M \in Nat
  BY StepIs, DayIsItsKey DEF RuleRow
<1>2. PICK l \in Nat : m = M + l * s
  BY DEF OnStep
<1> HIDE DEF s, M
<1>3. l * s \in Nat /\ k * s \in Nat /\ (l + k) * s = l * s + k * s
  BY <1>1, Products
<1>4. m + k * s = M + (l + k) * s /\ l + k \in Nat
  BY <1>1, <1>2, <1>3
<1> QED
  BY <1>4 DEF OnStep, s, M

\* What a generator tried: dates after its marker, on one Roj and no further
\* than the first that reaches a day; the last of them is the new marker.
RanOver(until, pattern, end, N, u, roj, reach, days) ==
    /\ days = Tries(until, roj, pattern, reach) /\ (end # NoEnd => reach <= end)
    /\ N \in SUBSET days /\ (kind = "booking" => N = days)
    /\ u \in Nat /\ until <= u /\ \A d \in days : until < d /\ d <= u
    /\ (days # {} => u \in days) /\ (days = {} => u = until)

\* A run of a generator is such.
LEMMA RanIs ==
    ASSUME NEW until \in Nat, NEW pattern \in Pattern, NEW end \in Nat \cup {NoEnd}, NEW N, NEW u,
           Ran(until, pattern, end, N, u)
    PROVE  \E roj \in 0 .. Rojs - 1, reach \in Nat, days \in SUBSET Nat :
             RanOver(until, pattern, end, N, u, roj, reach, days)
<1>1. PICK roj \in 0 .. Rojs - 1, through \in Nat :
        LET days == Tries(until, roj, pattern, Reach(through, end))
        IN  u = Furthest(days, until) /\ N \in SUBSET days /\ (kind = "booking" => N = days)
  BY DEF Ran
<1> DEFINE reach == Reach(through, end)
           days == Tries(until, roj, pattern, reach)
<1>2. reach \in Nat /\ (end # NoEnd => reach <= end)
  BY DEF Reach, NoEnd
<1>3. roj \in Nat
  BY DiaryAssumption
<1>4. days \in SUBSET Nat /\ IsFiniteSet(days) /\ \A d \in days : until < d
  <2> HIDE DEF reach
  <2> QED
    BY <1>2, <1>3, TriesAre
<1>5. u = Furthest(days, until) /\ N \in SUBSET days /\ (kind = "booking" => N = days)
  BY <1>1
<1> HIDE DEF days, reach
<1>6. /\ u \in Nat /\ until <= u /\ \A d \in days : d <= u
      /\ (days # {} => u \in days) /\ (days = {} => u = until)
  BY <1>4, <1>5, FurthestIs
<1>7. days = Tries(until, roj, pattern, reach)
  BY DEF days
<1>8. RanOver(until, pattern, end, N, u, roj, reach, days)
  BY <1>2, <1>4, <1>5, <1>6, <1>7 DEF RanOver
<1> QED
  BY <1>2, <1>4, <1>8

\* Fewer steps on is no later.
LEMMA NthUpTo ==
    ASSUME NEW until \in Nat, NEW roj \in 0 .. Rojs - 1, NEW pattern \in Pattern,
           NEW k \in Nat, NEW l \in Nat, k <= l
    PROVE  Nth(until, roj, pattern, k) <= Nth(until, roj, pattern, l)
<1> DEFINE s == StepOf(pattern)
           U == MonthOf(until)
<1> PICK d, e : d = Nth(until, roj, pattern, k) /\ e = Nth(until, roj, pattern, l)
  OBVIOUS
<1>1. /\ d \in Nat /\ RojOf(d) = roj /\ MonthOf(d) = U + k * s
      /\ e \in Nat /\ RojOf(e) = roj /\ MonthOf(e) = U + l * s
  BY NthIs
<1>2. s \in Nat /\ U \in Nat
  BY StepIs, DayIsItsKey
<1> HIDE DEF s, U
<1>3. k * s \in Nat /\ l * s \in Nat /\ (k < l => k * s + s <= l * s) /\ (k = l => k * s = l * s)
  BY <1>2, Products, RowsOver
<1>4. U + k * s <= U + l * s
  BY <1>2, <1>3
<1>5. d <= e
  BY <1>1, <1>4, DaysInOrder
<1> QED
  BY <1>5

\* A generator keeps the dates of its repeat right.
LEMMA RanRight ==
    ASSUME NEW row \in RuleRow, NEW D, DatesRight(row, D), NEW N, NEW full \in RuleRow,
           Ran(row.until, row.pattern, row.end, N, full.until),
           full.end = row.end, full.count = row.count, full.start = row.start,
           full.pattern = row.pattern
    PROVE  DatesRight(full, D \cup N)
<1> DEFINE u == full.until
           s == StepOf(row.pattern)
           until == row.until
           end == row.end
           F == MonthOf(end)
           U == MonthOf(until)
<1>1. /\ until \in Nat /\ row.pattern \in Pattern /\ end \in Nat \cup {NoEnd} /\ row.start \in Nat
      /\ row.count \in Nat /\ s \in Nat \ {0} /\ U \in Nat
  BY StepIs, DayIsItsKey, DiaryAssumption DEF RuleRow
<1> PICK roj \in 0 .. Rojs - 1, reach \in Nat, days \in SUBSET Nat :
        RanOver(until, row.pattern, end, N, u, roj, reach, days)
  <2> HIDE DEF s, F, U
  <2> QED
    BY <1>1, RanIs
<1>2. /\ days = Tries(until, roj, row.pattern, reach) /\ (end # NoEnd => reach <= end)
      /\ N \in SUBSET days /\ (kind = "booking" => N = days)
      /\ u \in Nat /\ until <= u /\ \A d \in days : until < d /\ d <= u
      /\ (days # {} => u \in days) /\ (days = {} => u = until)
  <2> HIDE DEF s, F, U
  <2> QED
    BY DEF RanOver
<1>3. /\ end = LastOf(row.start, row.pattern, row.count)
      /\ D \in SUBSET Nat /\ row.start \in D
      /\ \A d \in D : d <= until /\ OnStep(row, MonthOf(d))
      /\ OnStep(row, U)
      /\ row.count # 0 => U <= F + s /\ (U > F => end \notin D)
  BY DEF DatesRight
<1>4. row.count # 0 => end \in Nat /\ F \in Nat
  <2>1. ASSUME row.count # 0 PROVE end \in Nat
    <3>1. /\ end = DayAt(MonthOf(row.start) + (row.count - 1) * s, RojOf(row.start))
          /\ MonthOf(row.start) \in Nat /\ row.count - 1 \in Nat
          /\ RojOf(row.start) \in 0 .. Rojs - 1
      BY <1>1, <1>3, <2>1, DayIsItsKey DEF LastOf
    <3>2. MonthOf(row.start) + (row.count - 1) * s \in Nat
      BY <1>1, <3>1, Products
    <3> QED
      BY <3>1, <3>2, DayAtIs
  <2> QED
    BY <2>1, DayIsItsKey
<1> HIDE DEF u, s, until, end, F, U
<1>5. ASSUME NEW d \in days
      PROVE  /\ until < reach /\ d \in Nat /\ RojOf(d) = roj /\ MonthOf(d) \in Nat
             /\ \E k \in 1 .. MaxPeriods :
                  /\ d = Nth(until, roj, row.pattern, k) /\ MonthOf(d) = U + k * s
                  /\ k = 1 \/ Nth(until, roj, row.pattern, k - 1) < reach
  <2>1. d \in Tries(until, roj, row.pattern, reach)
    BY <1>2
  <2>2. /\ until < reach /\ d \in Nat /\ RojOf(d) = roj
        /\ \E k \in 1 .. MaxPeriods :
             /\ d = Nth(until, roj, row.pattern, k)
             /\ MonthOf(d) = MonthOf(until) + k * StepOf(row.pattern)
             /\ k = 1 \/ Nth(until, roj, row.pattern, k - 1) < reach
    BY <1>1, <2>1, TriedIs
  <2>3. MonthOf(d) \in Nat
    BY <2>2, DayIsItsKey
  <2> QED
    BY <2>2, <2>3 DEF s, U
<1>6. MaxPeriods \in Nat
  BY DiaryAssumption
<1>7. ASSUME NEW d \in days PROVE OnStep(row, MonthOf(d))
  <2>1. PICK k \in 1 .. MaxPeriods : MonthOf(d) = U + k * s
    BY <1>5
  <2> QED
    BY <1>3, <1>6, <2>1, StepsAdd DEF s
<1>8. \A d \in D \cup N : d <= u /\ OnStep(row, MonthOf(d))
  <2>1. ASSUME NEW d \in D PROVE d <= u
    BY <1>1, <1>2, <1>3
  <2> QED
    BY <1>2, <1>3, <1>7, <2>1
<1>9. OnStep(row, MonthOf(u))
  <2>1. CASE days = {}
    BY <1>2, <1>3, <2>1 DEF U
  <2>2. CASE days # {}
    BY <1>2, <1>7, <2>2
  <2> QED
    BY <2>1, <2>2
<1>a. ASSUME row.count # 0, u # until
      PROVE  /\ MonthOf(u) <= F + s
             /\ MonthOf(u) > F => end \notin D \cup N
  <2>1. u \in days /\ end \in Nat /\ F \in Nat /\ reach <= end
    BY <1>2, <1>4, <1>a DEF NoEnd
  <2>2. PICK k \in 1 .. MaxPeriods :
          /\ MonthOf(u) = U + k * s
          /\ k = 1 \/ Nth(until, roj, row.pattern, k - 1) < reach
    BY <1>5, <2>1
  <2>3. until < reach /\ MonthOf(u) \in Nat
    BY <1>5, <2>1
  <2>4. k \in Nat /\ k # 0 /\ k - 1 \in Nat
    BY <1>6
  <2>5. k * s \in Nat /\ (k - 1) * s \in Nat /\ k * s = (k - 1) * s + s
    <3>1. k = (k - 1) + 1
      BY <2>4
    <3> QED
      BY <1>1, <2>4, <3>1, Products
  <2>6. U + (k - 1) * s <= F
    <3>1. CASE k = 1
      <4>1. U <= F
        BY <1>1, <2>1, <2>3, <3>1, MonthsInOrder DEF U, F
      <4>2. (k - 1) * s = 0
        BY <1>1, <3>1
      <4> QED
        BY <1>1, <2>1, <4>1, <4>2
    <3>2. CASE k # 1
      <4> PICK d : d = Nth(until, roj, row.pattern, k - 1)
        OBVIOUS
      <4>1. d \in Nat /\ MonthOf(d) = U + (k - 1) * s
        BY <1>1, <2>4, NthIs DEF U, s
      <4>2. d <= end
        BY <2>1, <2>2, <3>2, <4>1
      <4> QED
        BY <2>1, <4>1, <4>2, MonthsInOrder DEF F
    <3> QED
      BY <3>1, <3>2
  <2>7. MonthOf(u) <= F + s
    BY <1>1, <2>1, <2>2, <2>5, <2>6
  <2>8. end \notin D
    BY <1>1, <1>3, <2>1, <2>3
  <2>9. ASSUME MonthOf(u) > F, end \in days PROVE FALSE
    <3>1. PICK l \in 1 .. MaxPeriods : end = Nth(until, roj, row.pattern, l) /\ F = U + l * s
      BY <1>5, <2>9 DEF F
    <3>2. l \in Nat /\ l # 0 /\ l * s \in Nat
      BY <1>1, <1>6, Products
    <3>3. ~(k <= l)
      <4>1. k < l => k * s + s <= l * s
        BY <1>1, <2>4, <3>2, RowsOver
      <4>2. k = l \/ k < l \/ ~(k <= l)
        BY <2>4, <3>2
      <4> QED
        BY <1>1, <2>1, <2>2, <2>3, <2>5, <2>9, <3>1, <3>2, <4>1, <4>2
    <3>4. l <= k - 1 /\ k # 1
      BY <2>4, <3>2, <3>3
    <3>5. end <= Nth(until, roj, row.pattern, k - 1)
      BY <1>1, <2>4, <3>1, <3>2, <3>4, NthUpTo
    <3>6. Nth(until, roj, row.pattern, k - 1) < reach
      BY <2>2, <3>4
    <3>7. Nth(until, roj, row.pattern, k - 1) \in Nat
      BY <1>1, <2>4, NthIs
    <3> PICK d \in Nat : d = Nth(until, roj, row.pattern, k - 1)
      BY <3>7
    <3> QED
      BY <2>1, <3>5, <3>6
  <2> QED
    BY <1>2, <2>7, <2>8, <2>9
<1>b. ASSUME row.count # 0, u = until
      PROVE  /\ MonthOf(u) <= F + s
             /\ MonthOf(u) > F => end \notin D \cup N
  <2>1. N = {}
    <3> SUFFICES ASSUME NEW d \in N PROVE FALSE
      OBVIOUS
    <3>1. d \in days /\ d \in Nat /\ until < d /\ d <= u
      BY <1>2
    <3> QED
      BY <1>1, <1>b, <3>1
  <2> QED
    BY <1>3, <1>b, <2>1 DEF U
<1>c. full.count # 0 => /\ MonthOf(full.until) <= MonthOf(full.end) + StepOf(full.pattern)
                        /\ MonthOf(full.until) > MonthOf(full.end) => full.end \notin D \cup N
  BY <1>a, <1>b DEF u, F, end, s
<1>d. D \cup N \in SUBSET Nat /\ full.start \in D \cup N
  BY <1>2, <1>3
<1>e. full.end = LastOf(full.start, full.pattern, full.count)
  BY <1>3 DEF end
<1>f. /\ \A d \in D \cup N : d <= full.until /\ OnStep(full, MonthOf(d))
      /\ OnStep(full, MonthOf(full.until))
  BY <1>8, <1>9 DEF OnStep, u
<1> QED
  BY <1>c, <1>d, <1>e, <1>f DEF DatesRight

\* The dates of a repeat, counted from its start.
LEMMA AllDatesAre ==
    ASSUME NEW row \in RuleRow, NEW d \in Nat
    PROVE  d \in AllDates(row) <=> /\ row.start <= d /\ d <= row.until
                                   /\ RojOf(d) = RojOf(row.start) /\ OnStep(row, MonthOf(d))
<1> DEFINE s == StepOf(row.pattern)
           M == MonthOf(row.start)
           m == MonthOf(d)
<1>1. row.start \in Nat /\ row.until \in Nat /\ s \in Nat \ {0} /\ M \in Nat /\ m \in Nat
  BY StepIs, DayIsItsKey DEF RuleRow
<1>2. ASSUME row.start <= d PROVE (m - M) % s = 0 <=> OnStep(row, m)
  <2>1. M <= m
    BY <1>1, <1>2, MonthsInOrder
  <2> HIDE DEF s, M, m
  <2>2. m - M \in Nat
    BY <1>1, <2>1
  <2>3. (m - M) % s = 0 <=> \E k \in Nat : m - M = k * s
    BY <1>1, <2>2, Multiples
  <2>4. \A k \in Nat : k * s \in Nat
    BY <1>1, Products
  <2>5. \A k \in Nat : m - M = k * s <=> m = M + k * s
    BY <1>1, <2>4
  <2> QED
    BY <2>3, <2>5 DEF OnStep, s, M
<1> QED
  BY <1>1, <1>2 DEF AllDates

\* A generator leaves none out, where none of its dates is refused.
LEMMA RanWhole ==
    ASSUME NEW row \in RuleRow, NEW D, DatesRight(row, D), Whole(row, D), kind = "booking",
           NEW N, NEW full \in RuleRow, Ran(row.until, row.pattern, row.end, N, full.until),
           full.end = row.end, full.count = row.count, full.start = row.start,
           full.pattern = row.pattern
    PROVE  Whole(full, D \cup N)
<1> DEFINE u == full.until
           s == StepOf(row.pattern)
           until == row.until
           U == MonthOf(until)
           M == MonthOf(row.start)
<1>1. /\ until \in Nat /\ row.pattern \in Pattern /\ row.end \in Nat \cup {NoEnd} /\ row.start \in Nat
      /\ s \in Nat \ {0} /\ U \in Nat /\ M \in Nat /\ MaxPeriods \in Nat
  BY StepIs, DayIsItsKey, DiaryAssumption DEF RuleRow
<1> PICK roj \in 0 .. Rojs - 1, reach \in Nat, days \in SUBSET Nat :
        RanOver(until, row.pattern, row.end, N, u, roj, reach, days)
  <2> HIDE DEF s, U, M
  <2> QED
    BY <1>1, RanIs
<1>2. /\ days = Tries(until, roj, row.pattern, reach) /\ N = days
      /\ u \in Nat /\ until <= u /\ \A d \in days : until < d /\ d <= u
      /\ (days # {} => u \in days) /\ (days = {} => u = until)
  <2> HIDE DEF s, U, M
  <2> QED
    BY DEF RanOver
<1>3. DatesRight(full, D \cup N)
  BY RanRight
<1>4. /\ D \in SUBSET Nat /\ row.start \in D /\ \A d \in D : d <= until
      /\ \A d \in D \cup N : OnStep(full, MonthOf(d)) /\ d \in Nat
      /\ OnStep(row, U) /\ until \in D
  BY <1>3 DEF DatesRight, Whole
<1>5. \A m : OnStep(full, m) <=> OnStep(row, m)
  BY DEF OnStep
<1>6. row.start <= until
  BY <1>4
<1>7. u \in D \cup N
  BY <1>2, <1>4
<1>8. ASSUME OnOneRoj(D \cup N) PROVE D \cup N = AllDates(full)
  <2>1. D = AllDates(row) /\ \A d \in D \cup N : RojOf(d) = RojOf(row.start)
    BY <1>4, <1>8 DEF Whole, OnOneRoj
  <2>2. ASSUME NEW d \in D \cup N PROVE d \in AllDates(full)
    <3>1. d \in Nat /\ OnStep(full, MonthOf(d)) /\ RojOf(d) = RojOf(row.start)
      BY <1>4, <2>1
    <3>2. row.start <= d
      <4>1. CASE d \in D
        BY <2>1, <3>1, <4>1, AllDatesAre
      <4>2. CASE d \in N
        BY <1>1, <1>2, <1>6, <3>1, <4>2
      <4> QED
        BY <4>1, <4>2
    <3>3. d <= u
      <4>1. CASE d \in D
        BY <1>1, <1>2, <1>4, <3>1, <4>1
      <4>2. CASE d \in N
        BY <1>2, <4>2
      <4> QED
        BY <4>1, <4>2
    <3> QED
      BY <3>1, <3>2, <3>3, AllDatesAre
  <2>3. ASSUME NEW d \in AllDates(full) PROVE d \in D \cup N
    <3>1. d \in Nat
      BY <1>1, <1>2 DEF AllDates
    <3>2. row.start <= d /\ d <= u /\ RojOf(d) = RojOf(row.start) /\ OnStep(row, MonthOf(d))
      BY <1>5, <2>3, <3>1, AllDatesAre
    <3>3. CASE d <= until
      BY <2>1, <3>1, <3>2, <3>3, AllDatesAre
    <3>4. CASE ~(d <= until)
      <4>1. u \in days
        BY <1>1, <1>2, <3>1, <3>2, <3>4
      <4>2. /\ until < reach /\ RojOf(u) = roj
            /\ \E k \in 1 .. MaxPeriods :
                 /\ u = Nth(until, roj, row.pattern, k)
                 /\ MonthOf(u) = MonthOf(until) + k * StepOf(row.pattern)
                 /\ k = 1 \/ Nth(until, roj, row.pattern, k - 1) < reach
        BY <1>1, <1>2, <4>1, TriedIs
      <4>3. PICK far \in 1 .. MaxPeriods :
              /\ MonthOf(u) = U + far * s
              /\ far = 1 \/ Nth(until, roj, row.pattern, far - 1) < reach
        BY <4>2
      <4>4. RojOf(d) = roj /\ RojOf(until) = roj
        BY <1>2, <1>4, <2>1, <3>2, <4>1, <4>2
      <4>5. ~(MonthOf(d) <= U)
        BY <1>1, <3>1, <3>4, <4>4, DaysInOrder
      <4>6. PICK k \in Nat, k0 \in Nat : MonthOf(d) = M + k * s /\ U = M + k0 * s
        BY <1>4, <3>2 DEF OnStep
      <4> HIDE DEF s, U, M, u, until
      <4>7. k * s \in Nat /\ k0 * s \in Nat
        BY <1>1, Products
      <4>8. k0 < k
        <5>1. k < k0 => k * s + s <= k0 * s
          BY <1>1, RowsOver
        <5>2. k = k0 => k * s = k0 * s
          OBVIOUS
        <5> QED
          BY <1>1, <4>5, <4>6, <4>7, <5>1, <5>2
      <4> PICK j : j = k - k0
        OBVIOUS
      <4>9. j \in Nat /\ j # 0 /\ j - 1 \in Nat /\ k = k0 + j
        BY <4>8
      <4>a. MonthOf(d) = U + j * s /\ j * s \in Nat
        <5>1. j * s \in Nat /\ k * s = k0 * s + j * s
          BY <1>1, <4>9, Products
        <5> QED
          BY <1>1, <4>6, <4>7, <5>1
      <4>b. d = Nth(until, roj, row.pattern, j)
        <5> PICK e : e = Nth(until, roj, row.pattern, j)
          OBVIOUS
        <5>1. e \in Nat /\ RojOf(e) = roj /\ MonthOf(e) = U + j * s
          BY <1>1, <4>9, NthIs DEF U, s
        <5>2. MonthOf(d) <= MonthOf(e) /\ MonthOf(d) = MonthOf(e) /\ RojOf(d) = RojOf(e)
          BY <1>1, <4>4, <4>a, <5>1
        <5>3. d = e
          BY <3>1, <5>1, <5>2, DaysInOrder
        <5> QED
          BY <5>3
      <4>c. far \in Nat /\ far - 1 \in Nat
        BY <1>1
      <4>d. j <= far
        <5>1. MonthOf(d) <= MonthOf(u)
          BY <1>2, <3>1, <3>2, MonthsInOrder
        <5>2. U + j * s <= U + far * s
          BY <4>3, <4>a, <5>1
        <5> QED
          BY <1>1, <4>9, <4>c, <5>2, StepsInOrder
      <4>e. j = 1 \/ Nth(until, roj, row.pattern, j - 1) < reach
        <5> SUFFICES ASSUME j # 1 PROVE Nth(until, roj, row.pattern, j - 1) < reach
          OBVIOUS
        <5> PICK a, b : a = Nth(until, roj, row.pattern, j - 1) /\ b = Nth(until, roj, row.pattern, far - 1)
          OBVIOUS
        <5>1. b \in Nat /\ b < reach
          <6>1. far # 1 /\ b < reach
            BY <4>3, <4>9, <4>c, <4>d
          <6>2. b \in Nat /\ RojOf(b) = roj
            BY <1>1, <4>c, NthIs
          <6> QED
            BY <6>1, <6>2
        <5>2. a <= b
          BY <1>1, <4>9, <4>c, <4>d, NthUpTo
        <5>3. a \in Nat
          BY <1>1, <4>9, NthIs
        <5> QED
          BY <5>1, <5>2, <5>3
      <4>f. j \in 1 .. MaxPeriods
        BY <1>1, <4>9, <4>d
      <4>g. d \in Tries(until, roj, row.pattern, reach)
        BY <1>1, <4>2, <4>b, <4>e, <4>f, Tried
      <4> QED
        BY <1>2, <4>g
    <3> QED
      BY <3>3, <3>4
  <2> QED
    BY <2>2, <2>3
<1> QED
  BY <1>7, <1>8 DEF Whole

\* The numbers up to n are n + 1.
LEMMA UpTo == ASSUME NEW n \in Nat PROVE IsFiniteSet(0 .. n) /\ Cardinality(0 .. n) = n + 1
<1>1. IsFiniteSet(0 .. n) /\ Cardinality(0 .. n) = IF 0 > n THEN 0 ELSE n - 0 + 1
  BY FS_Interval
<1> QED
  BY <1>1

\* Right dates on one Roj are no more than they were asked to be.
LEMMA CountBounds ==
    ASSUME NEW row \in RuleRow, NEW D, DatesRight(row, D), OnOneRoj(D), row.count # 0
    PROVE  Cardinality(D) <= row.count
<1> DEFINE s == StepOf(row.pattern)
           M == MonthOf(row.start)
           U == MonthOf(row.until)
           F == MonthOf(row.end)
           c == row.count
           on(k) == DayAt(M + k * s, RojOf(row.start))
           K == IF U > F THEN (0 .. c) \ {c - 1} ELSE 0 .. c - 1
           E == {on(k) : k \in K}
<1>1. /\ row.until \in Nat /\ row.start \in Nat /\ c \in Nat /\ c # 0 /\ c - 1 \in Nat
      /\ s \in Nat \ {0} /\ M \in Nat /\ U \in Nat /\ RojOf(row.start) \in 0 .. Rojs - 1
  <2>1. row.until \in Nat /\ row.start \in Nat /\ c \in Nat /\ row.pattern \in Pattern
    BY DiaryAssumption DEF RuleRow
  <2>2. c # 0 /\ c - 1 \in Nat
    BY <2>1
  <2> QED
    BY <2>1, <2>2, StepIs, DayIsItsKey
<1>2. /\ row.end = LastOf(row.start, row.pattern, row.count)
      /\ D \in SUBSET Nat /\ row.start \in D
      /\ \A d \in D : d <= row.until /\ OnStep(row, MonthOf(d)) /\ RojOf(d) = RojOf(row.start)
      /\ U <= F + s /\ (U > F => row.end \notin D)
  BY DEF DatesRight, OnOneRoj
<1> HIDE DEF s, M, U, F, c
<1>3. \A k \in Nat : k * s \in Nat /\ M + k * s \in Nat /\ on(k) \in Nat
                     /\ RojOf(on(k)) = RojOf(row.start) /\ MonthOf(on(k)) = M + k * s
  <2> SUFFICES ASSUME NEW k \in Nat
               PROVE  k * s \in Nat /\ M + k * s \in Nat /\ on(k) \in Nat
                      /\ RojOf(on(k)) = RojOf(row.start) /\ MonthOf(on(k)) = M + k * s
    OBVIOUS
  <2>1. k * s \in Nat /\ M + k * s \in Nat
    BY <1>1, Products
  <2> QED
    BY <1>1, <2>1, DayAtIs
<1>4. row.end = on(c - 1) /\ F = M + (c - 1) * s /\ row.end \in Nat
  <2>1. row.end = on(c - 1)
    BY <1>1, <1>2 DEF LastOf, s, M, c
  <2> QED
    BY <1>1, <1>3, <2>1 DEF F
<1>5. c * s = (c - 1) * s + s /\ c * s \in Nat /\ (c - 1) * s \in Nat
  <2>1. c = (c - 1) + 1
    BY <1>1
  <2> QED
    BY <1>1, <2>1, Products
<1>6. ASSUME NEW d \in D PROVE \E k \in K : d = on(k)
  <2>1. d \in Nat /\ d <= row.until /\ RojOf(d) = RojOf(row.start)
    BY <1>2
  <2>2. PICK k \in Nat : MonthOf(d) = M + k * s
    BY <1>2 DEF OnStep, s, M
  <2>3. d = on(k)
    <3> PICK e : e = on(k)
      OBVIOUS
    <3>1. e \in Nat /\ RojOf(e) = RojOf(d) /\ MonthOf(e) = MonthOf(d)
      BY <1>3, <2>1, <2>2
    <3>2. MonthOf(e) \in Nat /\ MonthOf(d) <= MonthOf(e)
      BY <3>1, DayIsItsKey
    <3>3. d = e
      BY <2>1, <3>1, <3>2, DaysInOrder
    <3> QED
      BY <3>3
  <2>4. M + k * s <= U
    BY <1>1, <2>1, <2>2, MonthsInOrder DEF U
  <2>5. CASE U > F
    <3>1. U <= M + c * s
      BY <1>1, <1>2, <1>4, <1>5
    <3>2. M + k * s <= M + c * s
      BY <1>1, <1>3, <1>5, <2>4, <3>1
    <3>3. k <= c
      BY <1>1, <3>2, StepsInOrder
    <3>4. k # c - 1
      BY <1>2, <1>4, <2>3, <2>5
    <3> QED
      BY <1>1, <2>3, <2>5, <3>3, <3>4
  <2>6. CASE ~(U > F)
    <3>1. M + k * s <= M + (c - 1) * s
      BY <1>1, <1>3, <1>4, <1>5, <2>4, <2>6
    <3>2. k <= c - 1
      BY <1>1, <3>1, StepsInOrder
    <3> QED
      BY <1>1, <2>3, <2>6, <3>2
  <2> QED
    BY <2>5, <2>6
<1>7. IsFiniteSet(K) /\ Cardinality(K) = c
  <2> HIDE DEF K, E, on
  <2> PICK b \in Nat : b = c - 1
    BY <1>1
  <2>1. IsFiniteSet(0 .. b) /\ Cardinality(0 .. b) = b + 1
    BY UpTo
  <2>2. IsFiniteSet(0 .. c) /\ Cardinality(0 .. c) = c + 1
    BY <1>1, UpTo
  <2>4. c = b + 1 /\ b \in 0 .. c /\ c - 1 = b
    BY <1>1
  <2>3. IsFiniteSet((0 .. c) \ {c - 1}) /\ Cardinality((0 .. c) \ {c - 1}) = c
    <3>1. IsFiniteSet((0 .. c) \ {b}) /\ Cardinality((0 .. c) \ {b}) = Cardinality(0 .. c) - 1
      BY <2>2, <2>4, FS_RemoveElement
    <3> QED
      BY <1>1, <2>2, <2>4, <3>1
  <2> QED
    BY <2>1, <2>3, <2>4 DEF K
<1>8. [k \in K |-> on(k)] \in Surjection(K, E)
  <2> HIDE DEF K
  <2> QED
    BY DEF Surjection
<1>9. IsFiniteSet(E) /\ Cardinality(E) <= c
  <2> HIDE DEF K, E
  <2> QED
    BY <1>7, <1>8, FS_Surjection
<1>a. D \in SUBSET E
  <2> HIDE DEF K, on
  <2> QED
    BY <1>6
<1>b. IsFiniteSet(D) /\ Cardinality(D) <= Cardinality(E)
  <2> HIDE DEF K, E
  <2> QED
    BY <1>9, <1>a, FS_Subset
<1>c. Cardinality(D) \in Nat /\ Cardinality(E) \in Nat
  <2> HIDE DEF K, E
  <2> QED
    BY <1>9, <1>b, FS_CardinalityType
<1> HIDE DEF E, K
<1> QED
  BY <1>1, <1>9, <1>b, <1>c DEF c

\* What a rule says of its dates is all that matters for them.
LEMMA SameDates ==
    ASSUME NEW row, NEW row2, DatesOf(row2) = DatesOf(row), NEW D
    PROVE  /\ DatesRight(row, D) => DatesRight(row2, D)
           /\ Whole(row, D) => Whole(row2, D)
<1>1. /\ row2.until = row.until /\ row2.end = row.end /\ row2.count = row.count
      /\ row2.start = row.start /\ row2.pattern = row.pattern
  BY DEF DatesOf
<1>2. \A m : OnStep(row2, m) <=> OnStep(row, m)
  BY <1>1 DEF OnStep
<1>3. DatesRight(row, D) => DatesRight(row2, D)
  BY <1>1, <1>2 DEF DatesRight
<1>4. AllDates(row2) = AllDates(row)
  BY <1>1 DEF AllDates
<1>5. Whole(row, D) => Whole(row2, D)
  BY <1>1, <1>4 DEF Whole
<1> QED
  BY <1>3, <1>5

\* Steps that write no date.
LEMMA CountsKept ==
    ASSUME CountInv, kind' = kind, raced \subseteq raced',
           DOMAIN events' = DOMAIN events, DOMAIN rules' = DOMAIN rules,
           \A i \in DOMAIN events : events'[i].rule = events[i].rule /\ events'[i].for = events[i].for,
           \A q \in DOMAIN rules : DatesOf(rules'[q]) = DatesOf(rules[q])
    PROVE  CountInv'
<1>1. ASSUME NEW r PROVE SeriesDates(r)' = SeriesDates(r)
  <2>1. {j \in DOMAIN events' : events'[j].rule = r} = {j \in DOMAIN events : events[j].rule = r}
    OBVIOUS
  <2>2. SeriesDates(r)' = {events'[i].for : i \in {j \in DOMAIN events : events[j].rule = r}}
    BY <2>1 DEF SeriesDates
  <2> QED
    BY <2>2 DEF SeriesDates
<1>2. ASSUME NEW r \in DOMAIN rules', ~(kind' = "machi" /\ r \in raced')
      PROVE  DatesRight(rules'[r], SeriesDates(r)')
  <2>1. DatesRight(rules[r], SeriesDates(r))
    BY <1>2 DEF CountInv
  <2>2. DatesOf(rules'[r]) = DatesOf(rules[r])
    BY <1>2
  <2> QED
    BY <1>1, <2>1, <2>2, SameDates
<1>3. ASSUME kind' = "booking", NEW r \in DOMAIN rules' PROVE Whole(rules'[r], SeriesDates(r)')
  <2>1. Whole(rules[r], SeriesDates(r))
    BY <1>3 DEF CountInv
  <2>2. DatesOf(rules'[r]) = DatesOf(rules[r])
    BY <1>3
  <2> QED
    BY <1>1, <2>1, <2>2, SameDates
<1>4. (\A r \in DOMAIN rules : (kind = "machi" /\ r \in raced) \/ DatesRight(rules[r], SeriesDates(r)))'
  BY <1>2
<1>5. (kind = "booking" => \A r \in DOMAIN rules : Whole(rules[r], SeriesDates(r)))'
  BY <1>3
<1> QED
  BY <1>4, <1>5 DEF CountInv

\* The rows that are added bring their dates to their repeat.
LEMMA SeriesGrow ==
    ASSUME NEW new, NEW r, NEW by, NEW at, Alike(new, r, by, at), Grows(new), NEW q
    PROVE  SeriesDates(q)' = IF q = r THEN SeriesDates(q) \cup Dates(new) ELSE SeriesDates(q)
<1>1. \A n \in 1 .. Len(new) : new[n].rule = r
  BY DEF Alike
<1>2. ASSUME NEW i \in DOMAIN events', events'[i].rule = q
      PROVE  \/ i \in DOMAIN events /\ events[i].rule = q /\ events'[i].for = events[i].for
             \/ q = r /\ events'[i].for \in Dates(new)
  BY <1>1, <1>2, SMTT(30) DEF Grows, Dates
<1>3. ASSUME NEW i \in DOMAIN events, events[i].rule = q
      PROVE  events[i].for \in SeriesDates(q)'
  <2>1. i \in DOMAIN events' /\ events'[i].rule = q /\ events'[i].for = events[i].for
    BY <1>3 DEF Grows
  <2> QED
    BY <2>1 DEF SeriesDates
<1>4. ASSUME q = r, NEW n \in 1 .. Len(new) PROVE new[n].for \in SeriesDates(q)'
  <2> PICK i : i = Len(events) + n
    OBVIOUS
  <2>1. i \in DOMAIN events' /\ events'[i] = new[n] /\ events'[i].rule = q
    BY <1>1, <1>4 DEF Grows
  <2> QED
    BY <2>1 DEF SeriesDates
<1>5. \A d \in SeriesDates(q)' : d \in SeriesDates(q) \/ (q = r /\ d \in Dates(new))
  BY <1>2 DEF SeriesDates
<1>6. \A d \in SeriesDates(q) : d \in SeriesDates(q)'
  BY <1>3 DEF SeriesDates
<1>7. q = r => \A d \in Dates(new) : d \in SeriesDates(q)'
  BY <1>4 DEF Dates
<1> QED
  BY <1>5, <1>6, <1>7

\* Steps that add dates to one repeat.
LEMMA CountsGrow ==
    ASSUME CountInv, kind' = kind, raced \subseteq raced',
           NEW new, NEW r, NEW by, NEW at, Alike(new, r, by, at), Grows(new),
           \A q \in DOMAIN rules' : q # r => q \in DOMAIN rules /\ rules'[q] = rules[q],
           r \in DOMAIN rules' /\ ~(kind = "machi" /\ r \in raced') =>
               /\ DatesRight(rules'[r], SeriesDates(r) \cup Dates(new))
               /\ kind = "booking" => Whole(rules'[r], SeriesDates(r) \cup Dates(new)),
           kind \in {"machi", "booking"}
    PROVE  CountInv'
<1>1. ASSUME NEW q \in DOMAIN rules', ~(kind' = "machi" /\ q \in raced')
      PROVE  DatesRight(rules'[q], SeriesDates(q)')
             /\ (kind' = "booking" => Whole(rules'[q], SeriesDates(q)'))
  <2>1. CASE q = r
    BY <1>1, <2>1, SeriesGrow
  <2>2. CASE q # r
    <3>1. SeriesDates(q)' = SeriesDates(q) /\ q \in DOMAIN rules /\ rules'[q] = rules[q]
      BY <1>1, <2>2, SeriesGrow
    <3> QED
      BY <1>1, <3>1 DEF CountInv
  <2> QED
    BY <2>1, <2>2
<1>2. (\A q \in DOMAIN rules : (kind = "machi" /\ q \in raced) \/ DatesRight(rules[q], SeriesDates(q)))'
  BY <1>1
<1>3. (kind = "booking" => \A q \in DOMAIN rules : Whole(rules[q], SeriesDates(q)))'
  BY <1>1
<1> QED
  BY <1>2, <1>3 DEF CountInv

\* Its first date is right for a repeat that has no other.
LEMMA FirstIsRight ==
    ASSUME NEW row \in RuleRow, row.until = row.start, row.end = LastOf(row.start, row.pattern, row.count)
    PROVE  DatesRight(row, {row.start})
<1> DEFINE s == StepOf(row.pattern)
           M == MonthOf(row.start)
           F == MonthOf(row.end)
<1>1. /\ row.start \in Nat /\ row.count \in Nat /\ row.count # 1 /\ s \in Nat /\ M \in Nat
      /\ RojOf(row.start) \in 0 .. Rojs - 1
  <2>1. row.start \in Nat /\ row.pattern \in Pattern /\ row.count \in Nat /\ row.count # 1
    BY DiaryAssumption DEF RuleRow
  <2> QED
    BY <2>1, StepIs, DayIsItsKey
<1>2. OnStep(row, M)
  <2>1. 0 \in Nat /\ M = M + 0 * s
    BY <1>1
  <2> QED
    BY <2>1 DEF OnStep
<1>3. ASSUME row.count # 0 PROVE M <= F
  <2>1. row.count - 1 \in Nat
    BY <1>1, <1>3
  <2>2. (row.count - 1) * s \in Nat
    BY <1>1, <2>1, Products
  <2>3. M + (row.count - 1) * s \in Nat
    BY <1>1, <2>2
  <2>4. row.end = DayAt(M + (row.count - 1) * s, RojOf(row.start))
    BY <1>3 DEF LastOf
  <2>5. F = M + (row.count - 1) * s
    BY <1>1, <2>3, <2>4, DayAtIs
  <2> HIDE DEF s, M, F
  <2> QED
    BY <1>1, <2>2, <2>5
<1>4. row.count # 0 => F \in Nat /\ ~(M > F) /\ M <= F + s
  <2>1. ASSUME row.count # 0 PROVE F \in Nat
    <3>1. row.end \in Nat
      <4>1. row.count - 1 \in Nat
        BY <1>1, <2>1
      <4>2. M + (row.count - 1) * s \in Nat
        BY <1>1, <4>1, Products
      <4>3. row.end = DayAt(M + (row.count - 1) * s, RojOf(row.start))
        BY <2>1 DEF LastOf
      <4> QED
        BY <1>1, <4>2, <4>3, DayAtIs
    <3> QED
      BY <3>1, DayIsItsKey
  <2> HIDE DEF s, M, F
  <2> QED
    BY <1>1, <1>3, <2>1
<1> QED
  BY <1>1, <1>2, <1>4 DEF DatesRight

\* And all that it is to have.
LEMMA FirstIsWhole ==
    ASSUME NEW row \in RuleRow, row.until = row.start
    PROVE  Whole(row, {row.start})
<1>1. row.start \in Nat /\ OnStep(row, MonthOf(row.start))
  <2>1. row.start \in Nat /\ StepOf(row.pattern) \in Nat /\ MonthOf(row.start) \in Nat
    BY StepIs, DayIsItsKey DEF RuleRow
  <2>2. 0 \in Nat /\ MonthOf(row.start) = MonthOf(row.start) + 0 * StepOf(row.pattern)
    BY <2>1
  <2> QED
    BY <2>1, <2>2 DEF OnStep
<1>2. row.start \in AllDates(row)
  BY <1>1, AllDatesAre
<1>3. ASSUME NEW d \in AllDates(row) PROVE d = row.start
  BY <1>1 DEF AllDates
<1> QED
  BY <1>2, <1>3 DEF Whole

\* A repeat begins with its first date, and goes on from there.
LEMMA AddCounts == ASSUME DiaryTypes, CountInv, NEW c \in Call, Add(c) PROVE CountInv'
<1>1. kind' = kind /\ raced' = raced /\ kind \in {"machi", "booking"}
  BY DEF Add, Finish, DiaryTypes
<1>2. /\ rules \in Seq(RuleRow) /\ Len(rules) \in Nat /\ DOMAIN rules = 1 .. Len(rules)
      /\ \A i \in DOMAIN events : events[i].rule \in 0 .. Len(rules)
  BY LenProperties DEF DiaryTypes, Sane
<1>3. CASE events' = events /\ rules' = rules
  BY <1>1, <1>3, CountsKept
<1>4. ASSUME rules' = rules, NEW new, NEW by, NEW at, Alike(new, 0, by, at), Grows(new) PROVE CountInv'
  <2>1. 0 \notin DOMAIN rules'
    BY <1>2, <1>4
  <2> QED
    BY <1>1, <1>4, <2>1, CountsGrow
<1>5. ASSUME NEW new, NEW by, NEW at, NEW rule, Alike(new, Len(rules) + 1, by, at), Grows(new),
             AddsRepeat(new, rule)
      PROVE  CountInv'
  <2> PICK r \in Nat : r = Len(rules) + 1
    BY <1>2
  <2>1. /\ rule \in RuleRow /\ rules' = Append(rules, rule)
        /\ rule.end = LastOf(rule.start, rule.pattern, rule.count)
    BY <1>5 DEF AddsRepeat
  <2>2. /\ rules'[r] = rule /\ \A q \in DOMAIN rules : q # r /\ rules'[q] = rules[q]
        /\ \A q \in DOMAIN rules' : q = r \/ q \in DOMAIN rules
    <3>1. rules' \in Seq(RuleRow) /\ Len(rules') = Len(rules) + 1
      BY <1>2, <2>1, AppendProperties
    <3>2. DOMAIN rules' = 1 .. Len(rules) + 1
      BY <3>1, LenProperties
    <3> QED
      BY <1>2, <2>1, <3>2, AppendProperties
  <2>3. SeriesDates(r) = {}
    <3>1. {j \in DOMAIN events : events[j].rule = r} = {}
      BY <1>2
    <3> QED
      BY <3>1 DEF SeriesDates
  <2>4. PICK N : Dates(new) = {rule.start} \cup N
                 /\ Ran(rule.start, rule.pattern, rule.end, N, rule.until)
    BY <1>5 DEF AddsRepeat
  <2>5. rule.start \in Nat /\ rule.pattern \in Pattern /\ rule.count \in Nat
        /\ StepOf(rule.pattern) \in Nat
    BY <2>1, StepIs, DiaryAssumption DEF RuleRow
  <2> PICK first : first = [rule EXCEPT !.until = rule.start]
    OBVIOUS
  <2>6. /\ first \in RuleRow /\ first.until = rule.start /\ first.end = rule.end
        /\ first.count = rule.count /\ first.start = rule.start /\ first.pattern = rule.pattern
    BY <2>1, <2>5, MarkerMoves
  <2>7. DatesRight(first, {rule.start})
    BY <2>1, <2>5, <2>6, FirstIsRight
  <2>8. DatesRight(rule, {rule.start} \cup N)
    BY <2>1, <2>4, <2>6, <2>7, RanRight
  <2>9. ASSUME kind = "booking" PROVE Whole(rule, {rule.start} \cup N)
    <3>1. Whole(first, {rule.start})
      BY <2>5, <2>6, FirstIsWhole
    <3> QED
      BY <2>1, <2>4, <2>6, <2>7, <2>9, <3>1, RanWhole
  <2>a. SeriesDates(r) \cup Dates(new) = {rule.start} \cup N
    BY <2>3, <2>4
  <2>b. Alike(new, r, by, at)
    BY <1>5
  <2> QED
    BY <1>1, <1>5, <2>2, <2>8, <2>9, <2>a, <2>b, CountsGrow
<1> QED
  BY <1>3, <1>4, <1>5, AddGrows

\* A top-up goes on from where its repeat is.
LEMMA TopUpCounts == ASSUME DiaryTypes, DateInv, CountInv, NEW c \in Call, TopUp(c) PROVE CountInv'
<1> DEFINE ask == calls[c]
           r == ask.rule
<1>1. /\ kind' = kind /\ ask.op = "topup" /\ kind \in {"machi", "booking"}
      /\ raced' = IF rules[r] = ask.row THEN raced ELSE raced \cup {r}
  BY DEF TopUp, Finish, DiaryTypes
<1>2. raced \subseteq raced' /\ (r \notin raced' => rules[r] = ask.row)
  BY <1>1
<1>3. TopUpAsked(ask, events, rules)
  BY <1>1 DEF DiaryTypes, Asked, Idle
<1>4. r \in DOMAIN rules /\ rules \in Seq(RuleRow) /\ rules[r] \in RuleRow
  BY <1>3, LenProperties, ElementOfSeq DEF TopUpAsked, DiaryTypes, Sane
<1>5. kind = "booking" => rules[r] = ask.row
  BY <1>1 DEF DateInv, Held
<1>6. ~(kind = "machi" /\ r \in raced') => rules[r] = ask.row
  BY <1>1, <1>2, <1>5
<1> HIDE DEF ask, r
<1> PICK row \in RuleRow : row = rules[r]
  BY <1>4
<1>7. CASE events' = events /\ rules' = rules
  BY <1>1, <1>2, <1>7, CountsKept
<1>8. CASE events' = events /\ rules' = [rules EXCEPT ![r].active = FALSE]
  <2>1. DatesOf([row EXCEPT !.active = FALSE]) = DatesOf(row)
    BY DEF RuleRow, DatesOf
  <2>2. rules' = [rules EXCEPT ![r] = [row EXCEPT !.active = FALSE]]
    BY <1>8
  <2>3. DOMAIN rules' = DOMAIN rules /\ \A q \in DOMAIN rules : DatesOf(rules'[q]) = DatesOf(rules[q])
    BY <1>4, <2>1, <2>2
  <2> QED
    BY <1>1, <1>2, <1>8, <2>3, CountsKept
<1>9. ASSUME NEW new, NEW by, NEW at, NEW u, Alike(new, r, by, at), Grows(new),
             ToppedUp(r, ask.row, new, u)
      PROVE  CountInv'
  <2>1. /\ rules' = [rules EXCEPT ![r].until = u] /\ u \in Nat
        /\ Ran(ask.row.until, ask.row.pattern, ask.row.end, Dates(new), u)
    BY <1>9 DEF ToppedUp
  <2> PICK full : full = [row EXCEPT !.until = u]
    OBVIOUS
  <2>2. /\ full \in RuleRow /\ full.until = u /\ full.end = row.end /\ full.count = row.count
        /\ full.start = row.start /\ full.pattern = row.pattern
    BY <2>1, MarkerMoves
  <2>3. DOMAIN rules' = DOMAIN rules /\ rules'[r] = full
        /\ \A q \in DOMAIN rules : q # r => rules'[q] = rules[q]
    <3>1. rules' = [rules EXCEPT ![r] = full]
      BY <2>1
    <3> QED
      BY <1>4, <3>1
  <2>4. ASSUME ~(kind = "machi" /\ r \in raced')
        PROVE  /\ DatesRight(full, SeriesDates(r) \cup Dates(new))
               /\ kind = "booking" => Whole(full, SeriesDates(r) \cup Dates(new))
    <3>1. ask.row = row /\ Ran(row.until, row.pattern, row.end, Dates(new), full.until)
      BY <1>6, <2>1, <2>2, <2>4
    <3>2. DatesRight(row, SeriesDates(r)) /\ (kind = "booking" => Whole(row, SeriesDates(r)))
      BY <1>2, <1>4, <2>4 DEF CountInv
    <3>3. DatesRight(full, SeriesDates(r) \cup Dates(new))
      BY <2>2, <3>1, <3>2, RanRight
    <3>4. kind = "booking" => Whole(full, SeriesDates(r) \cup Dates(new))
      BY <2>2, <3>1, <3>2, RanWhole
    <3> QED
      BY <3>3, <3>4
  <2>5. \A q \in DOMAIN rules' : q # r => q \in DOMAIN rules /\ rules'[q] = rules[q]
    BY <2>3
  <2>6. ~(kind = "machi" /\ r \in raced') =>
          /\ DatesRight(rules'[r], SeriesDates(r) \cup Dates(new))
          /\ kind = "booking" => Whole(rules'[r], SeriesDates(r) \cup Dates(new))
    BY <2>3, <2>4
  <2> QED
    BY <1>1, <1>2, <1>9, <2>5, <2>6, CountsGrow
<1> QED
  BY <1>7, <1>8, <1>9, TopUpGrows DEF ask, r

\* The counts are kept.
LEMMA CountsStay == ASSUME DiaryTypes, DateInv, CountInv, DiaryNext PROVE CountInv'
<1>1. ASSUME UNCHANGED <<kind, events, rules, raced>> PROVE CountInv'
  BY <1>1, CountsKept
<1>2. ASSUME Cut(events, events'), Steered(rules, rules', {r \in DOMAIN rules : ~Locked(r)}),
             kind' = kind, raced' = raced
      PROVE  CountInv'
  <2>1. DOMAIN events' = DOMAIN events /\ DOMAIN rules' = DOMAIN rules
        /\ \A i \in DOMAIN events : events'[i].rule = events[i].rule /\ events'[i].for = events[i].for
    BY <1>2 DEF Cut, Kept, Steered
  <2>2. \A q \in DOMAIN rules : DatesOf(rules'[q]) = DatesOf(rules[q])
    BY <1>2 DEF Steered
  <2> QED
    BY <1>2, <2>1, <2>2, CountsKept
<1>3. ASSUME NEW c \in Call, Edit(c) PROVE CountInv'
  <2>1. kind' = kind /\ raced' = raced
    BY <1>3 DEF Edit, Finish
  <2>2. /\ rules' = rules /\ DOMAIN events' = DOMAIN events
        /\ \A k \in DOMAIN events : events'[k].rule = events[k].rule /\ events'[k].for = events[k].for
    BY <1>3, EditKeeps
  <2> QED
    BY <2>1, <2>2, CountsKept
<1>4. ASSUME NEW c \in Call, Delete(c) PROVE CountInv'
  <2>1. kind' = kind /\ raced' = raced
    BY <1>4 DEF Delete, Finish
  <2> QED
    BY <1>2, <1>4, <2>1, DeleteCuts
<1>5. ASSUME NEW who \in Mobed, NEW family \in Family, RemoveFamily(who, family) PROVE CountInv'
  <2>1. kind' = kind /\ raced' = raced
    BY <1>5 DEF RemoveFamily
  <2> QED
    BY <1>2, <1>5, <2>1, RemovalCuts
<1>6. ASSUME NEW i \in Live, Settle(i) PROVE CountInv'
  <2>1. i \in DOMAIN events /\ events' = [events EXCEPT ![i].settled = TRUE]
        /\ UNCHANGED <<kind, raced, rules>> /\ events \in Seq(EventRow)
    BY <1>6 DEF Live, Settle, DiaryTypes, Sane
  <2> PICK row \in EventRow : row = events[i]
    BY <2>1, ElementOfSeq
  <2>2. [row EXCEPT !.settled = TRUE].rule = row.rule /\ [row EXCEPT !.settled = TRUE].for = row.for
    BY DEF EventRow
  <2>3. DOMAIN events' = DOMAIN events /\ events'[i] = [row EXCEPT !.settled = TRUE]
        /\ \A k \in DOMAIN events : k # i => events'[k] = events[k]
    BY <2>1
  <2> QED
    BY <2>1, <2>2, <2>3, CountsKept
<1>7. ASSUME NEW c \in Call, NEW call, Begin(c, call) PROVE CountInv'
  BY <1>1, <1>7 DEF Begin
<1>8. CASE Tick
  BY <1>1, <1>8 DEF Tick
<1>9. ASSUME NEW c \in Call, NEW who \in Mobed, NEW r \in DOMAIN rules, NEW through \in Throughs,
             AskTopUp(c, who, r, through)
      PROVE  CountInv'
  BY <1>7, <1>9 DEF AskTopUp
<1> QED
  BY <1>3, <1>4, <1>5, <1>6, <1>7, <1>8, <1>9, AddCounts, TopUpCounts, ZenonT(60)
     DEF DiaryNext, AskAdd, AskEdit, AskDelete

\* So they hold always.
LEMMA CountsHold == DiarySpec => []CountInv
<1>1. DiaryInit => CountInv
  BY DEF DiaryInit, CountInv
<1>2. DiaryTypes /\ DateInv /\ CountInv /\ [DiaryNext]_dVars => CountInv'
  <2> SUFFICES ASSUME DiaryTypes, DateInv, CountInv, [DiaryNext]_dVars PROVE CountInv'
    OBVIOUS
  <2>1. CASE DiaryNext
    BY <2>1, CountsStay
  <2>2. CASE UNCHANGED dVars
    BY <2>2, CountsKept DEF dVars
  <2> QED
    BY <2>1, <2>2
<1> QED
  BY <1>1, <1>2, RowsStayJoined, DatesHold, PTL DEF DiarySpec

\* A repeat that was asked to run a number of times never has more dates, by
\* whatever windows its calendar was read, as long as it kept to one Roj and no
\* two top-ups of it overlapped.
THEOREM RepeatsRunTheirCount == DiarySpec => []RunsItsCount
<1>1. DiaryTypes /\ CountInv => RunsItsCount
  <2> SUFFICES ASSUME DiaryTypes, CountInv, NEW r \in DOMAIN rules,
                      rules[r].count # 0, OneRoj(r), r \notin raced
               PROVE  Cardinality(SeriesDates(r)) <= rules[r].count
    BY DEF RunsItsCount
  <2>1. rules[r] \in RuleRow
    BY ElementOfSeq, LenProperties DEF DiaryTypes, Sane
  <2>2. DatesRight(rules[r], SeriesDates(r)) /\ OnOneRoj(SeriesDates(r))
    BY DEF CountInv, OneRoj, OnOneRoj
  <2> QED
    BY <2>1, <2>2, CountBounds
<1> QED
  BY <1>1, RowsStayJoined, CountsHold, PTL

\* A repeating event has every date up to where it was generated and none
\* beyond, as long as it kept to one Roj: reading the calendar in any windows
\* leaves no gap.
THEOREM NoDateIsMissing == DiarySpec => []NoneMissing
<1>1. CountInv => NoneMissing
  <2> SUFFICES ASSUME CountInv, kind = "booking", NEW r \in DOMAIN rules, OneRoj(r)
               PROVE  SeriesDates(r) = AllDates(rules[r])
    BY DEF NoneMissing, AllDates
  <2> QED
    BY DEF CountInv, Whole, OneRoj, OnOneRoj
<1> QED
  BY <1>1, CountsHold, PTL
=============================================================================
