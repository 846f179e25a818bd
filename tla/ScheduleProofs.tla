---------------------------- MODULE ScheduleProofs ----------------------------
(***************************************************************************)
(* What is kept of a memorial's schedule, for every death, choice and delay: *)
(* names mean one day each, Jashan falls on anniversaries alone, what the form *)
(* shows as over is left out, and the days are those the family's words mean. *)
(***************************************************************************)
EXTENDS CalendarProofs

\* A death that is entered, and what a family chose.
DeathFields == {"system", "from", "year", "mah", "roj"}
ChoiceFields == {"opening", "named", "months", "years", "parabs", "parabYears", "parabCount",
                 "birthday", "birthdayYears", "fravardin"}
DeathGiven(a) ==
    /\ DeathFields \subseteq DOMAIN a
    /\ a.system \in System /\ a.year \in Nat /\ a.mah \in 1 .. 13 /\ a.roj \in 1 .. 30
    /\ Exists(a.system, a.year, a.mah, a.roj)
    /\ a.from \in Nat
\* Entered no earlier than the death, and not too late for its series.
InReach(a) == a.from # NoDay => DeathDay(a) <= a.from /\ a.from <= DeathDay(a) + SeriesLimit * 30
ChoiceMade(a) ==
    /\ ChoiceFields \subseteq DOMAIN a
    /\ a.opening \in Opening /\ a.named \in SUBSET NamedDays /\ a.months \in Nat /\ a.years \in Nat
    /\ a.parabs \in {"none", "all", "fravardin_tir"} /\ a.parabYears \in Nat /\ a.parabCount \in Nat
    /\ a.birthday \in {<<>>} \cup ((1 .. 30) \X (1 .. 12)) /\ a.birthdayYears \in Nat
    /\ a.fravardin \in Nat
Memorial(a) == DeathGiven(a) /\ ChoiceMade(a)
AskInv ==
    /\ Entered => Memorial(ask) /\ InReach(ask)
    /\ ~Entered => ask = NoAsk \/ (DeathGiven(ask) /\ InReach(ask) /\ DOMAIN ask = DeathFields)

\* Years since the first of the era are after the first day of Gregorian count.
LEMMA DaysAreCounted ==
    ASSUME NEW s \in System, NEW y \in Nat, NEW m \in Int, NEW r \in Int, m \in 1 .. 13, r \in 1 .. 30
    PROVE  ParsiToGregorian(y, s, m, r) \in Int /\ 1000 < ParsiToGregorian(y, s, m, r)
<1>1. NewYearDay(s, y) \in Int /\ 1000 < NewYearDay(s, y)
  <2>1. CASE s = "shenshai" \/ s = "kadmi"
    <3>1. AnchorNavroze \in Int
      BY SMT DEF AnchorNavroze
    <3>2. \/ NewYearDay(s, y) = AnchorNavroze + 365 * (y - 1395)
          \/ NewYearDay(s, y) = AnchorNavroze + 365 * (y - 1395) - 30
      BY <2>1, NewYearDayIs, SMT
    <3> QED
      BY <3>1, <3>2, SMT DEF AnchorNavroze
  <2>2. CASE s = "fasli"
    <3>1. NewYearDay(s, y) = DaysBefore(y + 631) - 285 /\ y + 631 \in Int
      BY <2>2, NewYearDayIs
    <3>2. 146097 * (y + 631 - 1) - 699 <= 400 * DaysBefore(y + 631) /\ DaysBefore(y + 631) \in Int
      BY <3>1, NextYearStarts, YearsAverage, SMT
    <3> QED
      BY <3>1, <3>2, SMT
  <2> QED
    BY <2>1, <2>2 DEF System
<1>2. ParsiToGregorian(y, s, m, r) = NewYearDay(s, y) + 30 * (m - 1) + r - 1
  BY PlaceInYear
<1> QED
  BY <1>1, <1>2

\* A death that is entered, at once or late, is well formed,
LEMMA DeathIsGiven ==
    ASSUME NEW d \in Deaths, NEW s \in Systems, NEW l \in Late, NEW a,
           Exists(s, d.year, d.mah, d.roj),
           a = Both(d, [system |-> s,
               from |-> IF l = NoDay THEN NoDay ELSE ParsiToGregorian(d.year, s, d.mah, d.roj) + l])
    PROVE  DeathGiven(a) /\ InReach(a) /\ DOMAIN a = DeathFields
<1> DEFINE g == [system |-> s,
               from |-> IF l = NoDay THEN NoDay ELSE ParsiToGregorian(d.year, s, d.mah, d.roj) + l]
<1>1. d \in [year : Nat, mah : 1 .. 13, roj : 1 .. 30] /\ s \in System /\ l \in Nat
      /\ l <= SeriesLimit * 30
  <2>1. Late \subseteq 0 .. SeriesLimit * 30
    BY DaysAssumption DEF DaysPerMonth
  <2>2. SeriesLimit * 30 \in Int
    BY SMT DEF SeriesLimit
  <2> QED
    BY <2>1, <2>2, DaysAssumption DEF DaysPerMonth
<1>2. DOMAIN d = {"year", "mah", "roj"} /\ d.year \in Nat /\ d.mah \in 1 .. 13 /\ d.roj \in 1 .. 30
  BY <1>1
<1>3. /\ DOMAIN g = {"system", "from"} /\ g.system = s /\ g.from \in Nat
      /\ g.from # 0 => /\ ParsiToGregorian(d.year, s, d.mah, d.roj) <= g.from
                       /\ g.from <= ParsiToGregorian(d.year, s, d.mah, d.roj) + SeriesLimit * 30
  <2>0. SeriesLimit * 30 \in Int
    BY SMT DEF SeriesLimit
  <2>1. ParsiToGregorian(d.year, s, d.mah, d.roj) \in Nat
    <3>1. d.mah \in Int /\ d.roj \in Int
      BY <1>2
    <3>2. ParsiToGregorian(d.year, s, d.mah, d.roj) \in Int
          /\ 1000 < ParsiToGregorian(d.year, s, d.mah, d.roj)
      BY ONLY <1>1, <1>2, <3>1, DaysAreCounted
    <3> QED
      BY <3>2
  <2>2. DOMAIN g = {"system", "from"} /\ g.system = s
    OBVIOUS
  <2>3. g.from = IF l = NoDay THEN NoDay ELSE ParsiToGregorian(d.year, s, d.mah, d.roj) + l
    OBVIOUS
  <2> HIDE DEF g
  <2> QED
    BY <1>1, <2>0, <2>1, <2>2, <2>3 DEF NoDay
<1> HIDE DEF g
<1>4. a = Both(d, g)
  BY DEF g
<1>5. /\ DOMAIN a = {"year", "mah", "roj", "system", "from"}
      /\ \A x \in DOMAIN d : a[x] = d[x]
      /\ \A x \in (DOMAIN g) \ (DOMAIN d) : a[x] = g[x]
  <2>1. /\ DOMAIN a = (DOMAIN d) \cup (DOMAIN g)
        /\ \A x \in DOMAIN d : a[x] = d[x]
        /\ \A x \in (DOMAIN g) \ (DOMAIN d) : a[x] = g[x]
    BY ONLY <1>4 DEF Both
  <2> QED
    BY ONLY <1>2, <1>3, <2>1
<1>6. a.year = d.year /\ a.mah = d.mah /\ a.roj = d.roj /\ a.system = s /\ a.from = g.from
  BY <1>2, <1>3, <1>5
<1>7. DeathGiven(a)
  BY <1>1, <1>2, <1>3, <1>5, <1>6 DEF DeathGiven, DeathFields
<1>8. InReach(a)
  BY <1>3, <1>6 DEF InReach, DeathDay, NoDay
<1> QED
  BY <1>5, <1>7, <1>8 DEF DeathFields

\* and so is the memorial once the choice is added.
LEMMA ChoiceIsMade ==
    ASSUME NEW a, NEW c \in Wishes, DeathGiven(a), InReach(a), NEW b, b = Both(a, c), DOMAIN a = DeathFields
    PROVE  Memorial(b) /\ InReach(b)
<1>1. c \in Choice
  BY DaysAssumption
<1>2. DOMAIN c = ChoiceFields /\ ChoiceMade(c)
  BY <1>1 DEF Choice, ChoiceFields, ChoiceMade, DaysPerMonth
<1>3. /\ DOMAIN b = (DOMAIN a) \cup (DOMAIN c)
      /\ \A x \in DOMAIN a : b[x] = a[x]
      /\ \A x \in (DOMAIN c) \ (DOMAIN a) : b[x] = c[x]
  <2>1. b = Both(a, c)
    OBVIOUS
  <2> QED
    BY ONLY <2>1 DEF Both
<1>4. \A x \in DeathFields : b[x] = a[x]
  BY <1>3 DEF DeathGiven
<1>5. \A x \in ChoiceFields : b[x] = c[x]
  BY <1>2, <1>3 DEF DeathFields, ChoiceFields
<1>6. b.system = a.system /\ b.year = a.year /\ b.mah = a.mah /\ b.roj = a.roj /\ b.from = a.from
  BY <1>4 DEF DeathFields
<1>7. /\ b.opening = c.opening /\ b.named = c.named /\ b.months = c.months /\ b.years = c.years
      /\ b.parabs = c.parabs /\ b.parabYears = c.parabYears /\ b.parabCount = c.parabCount
      /\ b.birthday = c.birthday /\ b.birthdayYears = c.birthdayYears /\ b.fravardin = c.fravardin
  BY <1>5 DEF ChoiceFields
<1>8. DeathGiven(b)
  BY <1>3, <1>6 DEF DeathGiven
<1>9. ChoiceMade(b)
  BY <1>2, <1>3, <1>7 DEF ChoiceMade
<1>10. InReach(b)
  BY <1>6 DEF InReach, DeathDay
<1> QED
  BY <1>8, <1>9, <1>10 DEF Memorial

\* Which holds throughout.
LEMMA AskIsTyped ==
    /\ Init => AskInv
    /\ AskInv /\ [Next]_<<walkVars, ask>> => AskInv'
<1>1. ASSUME Init PROVE AskInv
  <2>1. CASE ask = NoAsk
    <3>1. DOMAIN NoAsk = {}
      BY DEF NoAsk
    <3> QED
      BY <2>1, <3>1 DEF AskInv, Entered
  <2>2. CASE DaysInit
    <3>1. PICK s \in Systems, l \in Late, d \in Deaths :
              /\ Exists(s, d.year, d.mah, d.roj)
              /\ ask = Both(d, [system |-> s,
                     from |-> IF l = NoDay THEN NoDay ELSE ParsiToGregorian(d.year, s, d.mah, d.roj) + l])
      BY <2>2 DEF DaysInit
    <3>2. DeathGiven(ask) /\ InReach(ask) /\ DOMAIN ask = DeathFields
      BY <3>1, DeathIsGiven
    <3> QED
      BY <3>2 DEF AskInv, Entered, DeathFields
  <2> QED
    BY <1>1, <2>1, <2>2 DEF Init
<1>2. ASSUME AskInv, [Next]_<<walkVars, ask>> PROVE AskInv'
  <2>1. CASE Choose
    <3>1. PICK c \in Wishes : ask' = Both(ask, c)
      BY <2>1 DEF Choose
    <3>2. DeathGiven(ask) /\ InReach(ask) /\ DOMAIN ask = DeathFields
      BY <1>2, <2>1 DEF Choose, AskInv
    <3>3. Memorial(ask') /\ InReach(ask')
      BY <3>1, <3>2, ChoiceIsMade
    <3>4. "opening" \in DOMAIN ask'
      BY <3>3 DEF Memorial, ChoiceMade, ChoiceFields
    <3> QED
      BY <3>3, <3>4 DEF AskInv, Entered
  <2>2. CASE UNCHANGED ask
    BY <1>2, <2>2 DEF AskInv, Entered
  <2> QED
    BY <1>2, <2>1, <2>2 DEF Next
<1> QED
  BY <1>1, <1>2

-----------------------------------------------------------------------------
(***************************************************************************)
(* The names of what is ranked.                                            *)
(***************************************************************************)

\* The ranks, one by one.
LEMMA RankIs ==
    /\ Rank("lit") = 0 /\ Rank("y") = 1 /\ Rank("m") = 2 /\ Rank("deci") = 3
    /\ Rank("parab") = 4 /\ Rank("fravardin") = 5 /\ Rank("birthday") = 6
BY Zenon DEF Rank

Kinds == {"lit", "y", "m", "deci", "parab", "fravardin", "birthday"}

\* No two kinds share a rank.
LEMMA RanksDiffer ==
    ASSUME NEW k \in Kinds, NEW l \in Kinds
    PROVE  /\ Rank(k) \in 0 .. 6
           /\ Rank(k) = Rank(l) => k = l
BY RankIs DEF Kinds

\* The days that are literal, for each way to open.
LEMMA LiteralIs ==
    ASSUME NEW a
    PROVE  /\ a.opening = "days_1_to_10" => Literal(a) = 1 .. 10
           /\ a.opening = "days_5_to_9" => Literal(a) = (5 .. 9) \cup (a.named \cap {10})
           /\ a.opening = "tenth_only" => Literal(a) = {10}
           /\ a.opening = "none" => Literal(a) = a.named \cap {10}
<1>1. a.opening = "days_1_to_10" => Literal(a) = 1 .. 10
  BY Zenon DEF Literal
<1>2. a.opening = "days_5_to_9" => Literal(a) = (5 .. 9) \cup (a.named \cap {10})
  BY Zenon DEF Literal
<1>3. a.opening = "tenth_only" => Literal(a) = {10}
  BY Zenon DEF Literal
<1>4. a.opening = "none" => Literal(a) = a.named \cap {10}
  BY Zenon DEF Literal
<1> QED
  BY <1>1, <1>2, <1>3, <1>4

\* They are among the first ten.
LEMMA LiteralIsTheOpening ==
    ASSUME NEW a, ChoiceMade(a) PROVE Literal(a) \subseteq 1 .. 10
<1>1. a.opening \in {"none", "days_1_to_10", "tenth_only", "days_5_to_9"}
  BY DEF ChoiceMade, Opening
<1>2. CASE a.opening = "none"
  BY <1>2, LiteralIs
<1>3. CASE a.opening = "days_1_to_10"
  BY <1>3, LiteralIs
<1>4. CASE a.opening = "tenth_only"
  BY <1>4, LiteralIs
<1>5. CASE a.opening = "days_5_to_9"
  BY <1>5, LiteralIs
<1> QED
  BY <1>1, <1>2, <1>3, <1>4, <1>5

\* A name is changed only from a monthly day to a yearly one.
LEMMA CanonIs ==
    ASSUME NEW a, NEW kind, NEW k
    PROVE  /\ Canon(a, kind, k) # <<kind, k>> => kind = "m" /\ Canon(a, kind, k) = <<"y", k \div 12>>
           /\ kind # "m" => Canon(a, kind, k) = <<kind, k>>
           /\ kind \in {"m", "y"} => Canon(a, kind, k)[1] \in {"m", "y"}
BY DEF Canon

\* Masiso, Bamsi, Chamsi are months on, Varsi a year, and a Deci is its own.
LEMMA NamedKeyIs ==
    ASSUME NEW a
    PROVE  /\ DOMAIN NamedSpan = {30, 60, 180, 360}
           /\ NamedSpan[30] = <<"m", 1>> /\ NamedSpan[60] = <<"m", 2>>
           /\ NamedSpan[180] = <<"m", 6>> /\ NamedSpan[360] = <<"y", 1>>
           /\ \A n \in {30, 60, 180, 360} :
                  KeyOfNamed(a, n) = NamedKey(a, n) /\ NamedKey(a, n)[1] \in {"m", "y"}
           /\ \A n \in {29, 59, 179, 359} : KeyOfNamed(a, n) = <<"deci", n>>
<1>1. /\ DOMAIN NamedSpan = {30, 60, 180, 360}
      /\ NamedSpan[30] = <<"m", 1>> /\ NamedSpan[60] = <<"m", 2>>
      /\ NamedSpan[180] = <<"m", 6>> /\ NamedSpan[360] = <<"y", 1>>
  BY DEF NamedSpan
<1>2. \A n \in {30, 60, 180, 360} : NamedSpan[n][1] \in {"m", "y"}
  BY <1>1
<1>3. \A n \in {30, 60, 180, 360} :
          KeyOfNamed(a, n) = NamedKey(a, n) /\ NamedKey(a, n)[1] \in {"m", "y"}
  BY <1>1, <1>2, CanonIs DEF KeyOfNamed, NamedKey
<1>4. \A n \in {29, 59, 179, 359} : KeyOfNamed(a, n) = <<"deci", n>>
  BY <1>1 DEF KeyOfNamed
<1> QED
  BY <1>1, <1>3, <1>4

-----------------------------------------------------------------------------
\* Two schedules of one death.
SameDeath(a, b) == a.system = b.system /\ a.year = b.year /\ a.mah = b.mah /\ a.roj = b.roj

\* The days that are claimed.
IsKey(key) ==
    \/ key[1] \in {"lit", "m", "y"}
    \/ key[1] = "deci" /\ key[2] \in {29, 59, 179, 359}

\* The date of a day, kind by kind.
LEMMA DatedIs ==
    ASSUME NEW a, NEW key
    PROVE  /\ key[1] = "lit" => Dated(a, key) = DeathDay(a) + key[2] - 1
           /\ key[1] = "m" => Dated(a, key) =
                  IF Gatha(a) THEN On(a, BaseYear(a) + key[2] \div 12, (key[2] % 12) + 1, 1)
                  ELSE CountFrom(a, 1 + DaysPerMonth * key[2])
           /\ key[1] = "y" => Dated(a, key) =
                  IF Gatha(a) THEN GathaDay(a, a.year + key[2])
                  ELSE CountFrom(a, 1 + CycleDays * key[2])
<1>1. key[1] = "lit" => Dated(a, key) = DeathDay(a) + key[2] - 1
  BY Zenon DEF Dated
<1>2. key[1] = "m" => Dated(a, key) =
                  IF Gatha(a) THEN On(a, BaseYear(a) + key[2] \div 12, (key[2] % 12) + 1, 1)
                  ELSE CountFrom(a, 1 + DaysPerMonth * key[2])
  BY Zenon DEF Dated
<1>3. key[1] = "y" => Dated(a, key) =
                  IF Gatha(a) THEN GathaDay(a, a.year + key[2])
                  ELSE CountFrom(a, 1 + CycleDays * key[2])
  BY Zenon DEF Dated
<1> QED
  BY <1>1, <1>2, <1>3

\* The dates follow from the death alone.
LEMMA SameDates ==
    ASSUME NEW a, NEW b, SameDeath(a, b)
    PROVE  /\ BaseYear(a) = BaseYear(b)
           /\ \A y, m, r : On(a, y, m, r) = On(b, y, m, r)
           /\ \A kind, k : Canon(a, kind, k) = Canon(b, kind, k)
           /\ \A key : IsKey(key) => Resolve(a, key) = Resolve(b, key)
           /\ \A n : KeyOfNamed(a, n) = KeyOfNamed(b, n)
           /\ DeathDay(a) = DeathDay(b) /\ Start(a) = Start(b) /\ Gatha(a) = Gatha(b)
<1>1. a.system = b.system /\ a.year = b.year /\ a.mah = b.mah /\ a.roj = b.roj
  BY DEF SameDeath
<1>2. Gatha(a) = Gatha(b)
  BY <1>1, Zenon DEF Gatha
<1>3. BaseYear(a) = BaseYear(b) /\ Start(a) = Start(b) /\ DeathDay(a) = DeathDay(b)
  BY <1>1, <1>2, Zenon DEF BaseYear, Start, DeathDay
<1>4. \A y, m, r : On(a, y, m, r) = On(b, y, m, r)
  BY <1>1, Zenon DEF On
<1>5. \A kind, k : Canon(a, kind, k) = Canon(b, kind, k)
  BY <1>2, Zenon DEF Canon
<1>6. \A n : KeyOfNamed(a, n) = KeyOfNamed(b, n) /\ NamedKey(a, n) = NamedKey(b, n)
  BY <1>5, Zenon DEF KeyOfNamed, NamedKey
<1>7. \A n : CountFrom(a, n) = CountFrom(b, n)
  BY <1>3, <1>4, Zenon DEF CountFrom
<1>8. \A y : GathaDay(a, y) = GathaDay(b, y)
  BY <1>1, <1>4, Zenon DEF GathaDay
<1>9. ASSUME NEW key, key[1] \in {"lit", "m", "y"} PROVE Dated(a, key) = Dated(b, key)
  <2>1. CASE key[1] = "lit"
    BY <1>3, <2>1, DatedIs
  <2>2. CASE key[1] = "m"
    <3>1. /\ Dated(a, key) = IF Gatha(a) THEN On(a, BaseYear(a) + key[2] \div 12, (key[2] % 12) + 1, 1)
                           ELSE CountFrom(a, 1 + DaysPerMonth * key[2])
          /\ Dated(b, key) = IF Gatha(b) THEN On(b, BaseYear(b) + key[2] \div 12, (key[2] % 12) + 1, 1)
                           ELSE CountFrom(b, 1 + DaysPerMonth * key[2])
      BY <2>2, DatedIs
    <3>2. On(b, BaseYear(b) + key[2] \div 12, (key[2] % 12) + 1, 1)
              = On(a, BaseYear(a) + key[2] \div 12, (key[2] % 12) + 1, 1)
      BY <1>3, <1>4
    <3>3. CountFrom(a, 1 + DaysPerMonth * key[2]) = CountFrom(b, 1 + DaysPerMonth * key[2])
      BY <1>7
    <3> QED
      BY <1>2, <3>1, <3>2, <3>3
  <2>3. CASE key[1] = "y"
    BY <1>1, <1>2, <1>7, <1>8, <2>3, DatedIs, SMTT(30)
  <2> QED
    BY <1>9, <2>1, <2>2, <2>3
<1>10. ASSUME NEW key, IsKey(key)
       PROVE  Resolve(a, key) = Resolve(b, key)
  <2>1. CASE key[1] = "deci" /\ key[2] \in {29, 59, 179, 359}
    <3>1. DeciOf(key[2]) \in {30, 60, 180, 360}
      BY <2>1 DEF DeciOf
    <3>2. NamedKey(a, DeciOf(key[2]))[1] \in {"lit", "m", "y"}
      BY <3>1, NamedKeyIs
    <3>3. Dated(a, NamedKey(a, DeciOf(key[2]))) = Dated(b, NamedKey(b, DeciOf(key[2])))
      BY <1>6, <1>9, <3>2
    <3> QED
      BY <2>1, <3>3 DEF Resolve
  <2>2. CASE key[1] \in {"lit", "m", "y"}
    BY <1>9, <2>2 DEF Resolve
  <2> QED
    BY <1>10, <2>1, <2>2 DEF IsKey
<1> QED
  BY <1>2, <1>3, <1>4, <1>5, <1>6, <1>10

-----------------------------------------------------------------------------
\* What is kept under a name, whatever the day the series start from.
KeyUnder(a, code) ==
    IF code[1] = "year" THEN <<"y", code[2]>>
    ELSE IF code[1] = "month" THEN Canon(a, "m", code[2])
    ELSE IF code[2] \in 1 .. 10 THEN <<"lit", code[2]>>
    ELSE KeyOfNamed(a, code[2])
KeptUnder(a, code) ==
    IF code[1] \in {"day", "month", "year"}
    THEN [kind |-> KeyUnder(a, code)[1], code |-> code, day |-> Resolve(a, KeyUnder(a, code))]
    ELSE [kind |-> code[1], code |-> code,
          day |-> IF code[1] = "parab" THEN On(a, code[3], code[2], ParabRoj[code[2]])
                  ELSE On(a, code[2], code[3],
                          IF code[1] = "fravardin" THEN FravardinRoj ELSE a.birthday[1])]

\* What is claimed is the day its name says, an anniversary under an anniversary name.
LEMMA ClaimIsNamed ==
    ASSUME NEW a, Memorial(a), NEW c \in Chosen(a) \cup YearsOf(a) \cup MonthsOf(a)
    PROVE  /\ c = [key |-> KeyUnder(a, c.code), code |-> c.code]
           /\ c.code = <<c.code[1], c.code[2]>> /\ c.code[1] \in {"day", "month", "year"}
           /\ c.key[1] \in {"lit", "m", "y", "deci"} /\ IsKey(c.key)
           /\ IsAnniversary(c.code) <=> c.key[1] \in {"m", "y"}
<1>1. DOMAIN NamedSpan = {30, 60, 180, 360}
  BY NamedKeyIs
<1>2. CASE c \in Chosen(a) /\ \E n \in Literal(a) : c = [key |-> <<"lit", n>>, code |-> <<"day", n>>]
  <2>1. PICK n \in Literal(a) : c = [key |-> <<"lit", n>>, code |-> <<"day", n>>]
    BY <1>2
  <2>2. n \in 1 .. 10
    BY LiteralIsTheOpening DEF Memorial
  <2>3. c.key = <<"lit", n>> /\ c.code = <<"day", n>>
    BY <2>1
  <2>4. ~IsAnniversary(<<"day", n>>)
    BY <1>1, <2>2 DEF IsAnniversary
  <2> QED
    BY <2>1, <2>2, <2>3, <2>4 DEF KeyUnder, IsKey
<1>3. CASE \E n \in a.named \ {10} : c = [key |-> KeyOfNamed(a, n), code |-> <<"day", n>>]
  <2>1. PICK n \in a.named \ {10} : c = [key |-> KeyOfNamed(a, n), code |-> <<"day", n>>]
    BY <1>3
  <2>2. n \in {29, 30, 59, 60, 179, 180, 359, 360}
    BY <2>1 DEF Memorial, ChoiceMade, NamedDays
  <2>3. c.key = KeyOfNamed(a, n) /\ c.code = <<"day", n>>
    BY <2>1
  <2>4. KeyUnder(a, <<"day", n>>) = KeyOfNamed(a, n)
    BY <2>2 DEF KeyUnder
  <2>5. CASE n \in {30, 60, 180, 360}
    <3>1. IsAnniversary(<<"day", n>>)
      BY <1>1, <2>5 DEF IsAnniversary
    <3>2. KeyOfNamed(a, n)[1] \in {"m", "y"}
      BY <2>5, NamedKeyIs
    <3> QED
      BY <2>1, <2>3, <2>4, <3>1, <3>2 DEF IsKey
  <2>6. CASE n \in {29, 59, 179, 359}
    <3>1. ~IsAnniversary(<<"day", n>>)
      BY <1>1, <2>6 DEF IsAnniversary
    <3>2. KeyOfNamed(a, n) = <<"deci", n>>
      BY <2>6, NamedKeyIs
    <3> QED
      BY <2>1, <2>3, <2>4, <2>6, <3>1, <3>2 DEF IsKey
  <2> QED
    BY <2>2, <2>5, <2>6
<1>4. CASE c \in YearsOf(a)
  <2>1. PICK k : c = [key |-> <<"y", k>>, code |-> <<"year", k>>]
    BY <1>4 DEF YearsOf
  <2> QED
    BY <2>1 DEF KeyUnder, IsAnniversary, IsKey
<1>5. CASE c \in MonthsOf(a)
  <2>1. PICK k : c = [key |-> Canon(a, "m", k), code |-> <<"month", k>>]
    BY <1>5 DEF MonthsOf
  <2>2. Canon(a, "m", k)[1] \in {"m", "y"}
    BY CanonIs
  <2> QED
    BY <2>1, <2>2 DEF KeyUnder, IsAnniversary, IsKey
<1> QED
  BY <1>2, <1>3, <1>4, <1>5 DEF Chosen

\* A row comes of a claim.
LEMMA RowIsClaimed ==
    ASSUME NEW a, NEW o \in Claims(a)
    PROVE  \E c \in Chosen(a) \cup YearsOf(a) \cup MonthsOf(a) :
               o = [kind |-> c.key[1], code |-> c.code, day |-> Resolve(a, c.key)]
BY DEF Claims, Claimed, Rows

\* What else is ranked, under its names.
LEMMA OthersAreNamed ==
    ASSUME NEW a, NEW o \in Parabs(a) \cup FravardinRojs(a) \cup Birthdays(a)
    PROVE  o = KeptUnder(a, o.code) /\ o.code[1] = o.kind /\ o.kind \in {"parab", "fravardin", "birthday"}
<1>1. CASE o \in Parabs(a)
  <2>1. PICK years : o \in ParabsFor(a, years)
    BY <1>1 DEF Parabs, FirstOf, Ahead
  <2>2. PICK y, m : o = [kind |-> "parab", code |-> <<"parab", m, y>>, day |-> On(a, y, m, ParabRoj[m])]
    BY <2>1 DEF ParabsFor
  <2> QED
    BY <2>2 DEF KeptUnder
<1>2. CASE o \in FravardinRojs(a)
  <2>1. PICK y, m : o = [kind |-> "fravardin", code |-> <<"fravardin", y, m>>, day |-> On(a, y, m, FravardinRoj)]
    BY <1>2 DEF FravardinRojs, TimesOf, FirstOf, Ahead
  <2> QED
    BY <2>1 DEF KeptUnder
<1>3. CASE o \in Birthdays(a)
  <2>1. PICK y, m : o = [kind |-> "birthday", code |-> <<"birthday", y, m>>, day |-> On(a, y, m, a.birthday[1])]
    BY <1>3 DEF Birthdays, TimesOf, FirstOf, Ahead
  <2> QED
    BY <2>1 DEF KeptUnder
<1> QED
  BY <1>1, <1>2, <1>3

Ranked(a) == Claims(a) \cup Parabs(a) \cup FravardinRojs(a) \cup Birthdays(a)

\* So every row is what is kept under its name.
LEMMA RankedIsNamed ==
    ASSUME NEW a, Memorial(a), NEW o \in Ranked(a)
    PROVE  /\ o = KeptUnder(a, o.code) /\ o.kind \in Kinds
           /\ IsAnniversary(o.code) <=> o.kind \in {"m", "y"}
<1>1. CASE o \in Claims(a)
  <2>1. PICK c \in Chosen(a) \cup YearsOf(a) \cup MonthsOf(a) :
            o = [kind |-> c.key[1], code |-> c.code, day |-> Resolve(a, c.key)]
    BY <1>1, RowIsClaimed
  <2>2. /\ c = [key |-> KeyUnder(a, c.code), code |-> c.code]
        /\ c.code = <<c.code[1], c.code[2]>> /\ c.code[1] \in {"day", "month", "year"}
        /\ c.key[1] \in {"lit", "m", "y", "deci"}
        /\ IsAnniversary(c.code) <=> c.key[1] \in {"m", "y"}
    BY ClaimIsNamed
  <2>3. o.kind = c.key[1] /\ o.code = c.code /\ c.key = KeyUnder(a, c.code)
    BY <2>1, <2>2
  <2>4. o = KeptUnder(a, o.code)
    BY <2>1, <2>2, <2>3 DEF KeptUnder
  <2> QED
    BY <2>2, <2>3, <2>4 DEF Kinds
<1>2. CASE o \in Parabs(a) \cup FravardinRojs(a) \cup Birthdays(a)
  <2>1. o = KeptUnder(a, o.code) /\ o.code[1] = o.kind /\ o.kind \in {"parab", "fravardin", "birthday"}
    BY <1>2, OthersAreNamed
  <2>2. ~IsAnniversary(o.code)
    <3>1. \A n : <<"day", n>>[1] = "day"
      OBVIOUS
    <3> QED
      BY <2>1, <3>1 DEF IsAnniversary
  <2> QED
    BY <2>1, <2>2 DEF Kinds
<1> QED
  BY <1>1, <1>2 DEF Ranked

\* A name keeps its date.
LEMMA SameNames ==
    ASSUME NEW a, NEW b, SameDeath(a, b), a.birthday = b.birthday, Memorial(a), NEW o \in Ranked(a)
    PROVE  o = KeptUnder(b, o.code)
<1>1. /\ \A y, m, r : On(a, y, m, r) = On(b, y, m, r)
      /\ \A kind, k : Canon(a, kind, k) = Canon(b, kind, k)
      /\ \A key : IsKey(key) => Resolve(a, key) = Resolve(b, key)
      /\ \A n : KeyOfNamed(a, n) = KeyOfNamed(b, n)
  BY SameDates
<1>2. KeyUnder(a, o.code) = KeyUnder(b, o.code)
  BY <1>1, Zenon DEF KeyUnder
<1>3. o = KeptUnder(a, o.code)
  BY RankedIsNamed
<1>4. CASE o \in Claims(a)
  <2>1. PICK c \in Chosen(a) \cup YearsOf(a) \cup MonthsOf(a) :
            o = [kind |-> c.key[1], code |-> c.code, day |-> Resolve(a, c.key)]
    BY <1>4, RowIsClaimed
  <2>2. c = [key |-> KeyUnder(a, c.code), code |-> c.code] /\ IsKey(c.key)
        /\ c.code[1] \in {"day", "month", "year"}
    BY ClaimIsNamed
  <2>3. o.code = c.code /\ c.key = KeyUnder(a, o.code)
    BY <2>1, <2>2
  <2>4. Resolve(a, KeyUnder(a, o.code)) = Resolve(b, KeyUnder(b, o.code))
    BY <1>1, <1>2, <2>2, <2>3
  <2> QED
    BY <1>2, <2>1, <2>2, <2>3, <2>4 DEF KeptUnder
<1>5. CASE o \in Parabs(a) \cup FravardinRojs(a) \cup Birthdays(a)
  <2>1. o.code[1] \in {"parab", "fravardin", "birthday"}
    BY <1>5, OthersAreNamed
  <2> QED
    BY <1>1, <1>3, <2>1 DEF KeptUnder
<1> QED
  BY <1>4, <1>5 DEF Ranked

-----------------------------------------------------------------------------
(***************************************************************************)
(* No kind of day goes on without end.                                     *)
(***************************************************************************)

\* What is made of finitely many things is finitely much.
LEMMA ImageIsFinite ==
    ASSUME NEW S, IsFiniteSet(S), NEW f, f = [x \in S |-> f[x]],
           NEW T, \A t \in T : \E x \in S : t = f[x]
    PROVE  IsFiniteSet(T)
<1> DEFINE U == {f[x] : x \in S}
<1>1. f \in Surjection(S, U)
  BY DEF Surjection
<1>2. T \in SUBSET U
  OBVIOUS
<1> HIDE DEF U
<1>3. IsFiniteSet(U)
  BY ONLY <1>1, IsFiniteSet(S), FS_Surjection
<1> QED
  BY ONLY <1>2, <1>3, FS_Subset

\* Pairs of two intervals.
LEMMA GridIsFinite ==
    ASSUME NEW A \in Int, NEW B \in Int, NEW C \in Int, NEW D \in Int
    PROVE  IsFiniteSet((A .. B) \X (C .. D))
<1> DEFINE S == A .. B
           T == C .. D
<1>1. IsFiniteSet(S) /\ IsFiniteSet(T)
  BY FS_Interval
<1> HIDE DEF S, T
<1>2. IsFiniteSet(S \X T)
  BY ONLY <1>1, FS_Product
<1> QED
  BY <1>2 DEF S, T

\* The Mahs are twelve.
LEMMA CountOf == IsFiniteSet(1 .. 12) /\ Cardinality(1 .. 12) = 12 /\ IsFiniteSet(1 .. 360)
<1>1. \A b \in Nat : IsFiniteSet(1 .. b) /\ Cardinality(1 .. b) = b
  BY FS_Interval
<1>2. 12 \in Nat /\ 360 \in Nat
  OBVIOUS
<1> QED
  BY ONLY <1>1, <1>2, Zenon

\* The Mahs of each choice of Parabs.
LEMMA ParabMahsAre ==
    /\ ParabMahs("none") = {} /\ ParabMahs("all") = 1 .. 12 /\ ParabMahs("fravardin_tir") = {1, 4}
    /\ Cardinality(ParabMahs("all")) = 12 /\ Cardinality(ParabMahs("fravardin_tir")) = 2
<1>1. ParabMahs("none") = {} /\ ParabMahs("all") = 1 .. 12 /\ ParabMahs("fravardin_tir") = {1, 4}
  BY Zenon DEF ParabMahs
<1>2. Cardinality(1 .. 12) = 12
  BY CountOf
<1>3. Cardinality({1, 4}) = 2
  <2>1. IsFiniteSet({1}) /\ Cardinality({1}) = 1
    BY FS_Singleton
  <2>2. Cardinality({1} \cup {4}) = 1 + 1
    BY <2>1, FS_AddElement
  <2>3. {1} \cup {4} = {1, 4}
    OBVIOUS
  <2> QED
    BY <2>2, <2>3
<1> QED
  BY <1>1, <1>2, <1>3

\* Two of them, or all.
LEMMA ParabsAre ==
    ASSUME NEW a, ChoiceMade(a)
    PROVE  /\ ParabMahs(a.parabs) \subseteq 1 .. 12
           /\ a.parabs = "none" <=> ParabMahs(a.parabs) = {}
           /\ a.parabs # "none" => Cardinality(ParabMahs(a.parabs)) \in {2, 12}
<1>1. a.parabs \in {"none", "all", "fravardin_tir"}
  BY DEF ChoiceMade
<1>2. CASE a.parabs = "none"
  BY <1>2, ParabMahsAre
<1>3. CASE a.parabs = "all"
  BY <1>3, ParabMahsAre
<1>4. CASE a.parabs = "fravardin_tir"
  BY <1>4, ParabMahsAre
<1> QED
  BY <1>1, <1>2, <1>3, <1>4

\* The day of death is a day.
LEMMA DeathDayIs ==
    ASSUME NEW a, DeathGiven(a) PROVE DeathDay(a) \in Int /\ 1000 < DeathDay(a)
<1>1. a.system \in System /\ a.year \in Nat /\ a.mah \in Int /\ a.roj \in Int
      /\ a.mah \in 1 .. 13 /\ a.roj \in 1 .. 30
  BY DEF DeathGiven
<1> QED
  BY <1>1, DaysAreCounted DEF DeathDay

\* The turns that are over are counted.
LEMMA GoneIs == ASSUME NEW a, DeathGiven(a) PROVE Gone(a) \in Nat
<1>1. DeathDay(a) \in Int /\ a.from \in Int
  BY DeathDayIs DEF DeathGiven
<1>2. (a.from - DeathDay(a)) \div CycleDays + 1 \in Int
  BY <1>1 DEF CycleDays
<1> QED
  BY <1>2 DEF Gone

\* Of a schedule there is no end of names, but of each kind there are finitely many.
LEMMA RankedIsFinite == ASSUME NEW a, Memorial(a) PROVE IsFiniteSet(Ranked(a))
<1>1. ChoiceMade(a) /\ DeathGiven(a)
  BY DEF Memorial
<1>2. IsFiniteSet(Claims(a))
  <2> DEFINE D == {o \in Claims(a) : \E n \in 1 .. 360 : o.code = <<"day", n>>}
             Named(series, first, n) ==
                 {o \in Claims(a) : \E i \in 0 .. n - 1 : o.code = <<series, first + i>>}
             Y == Named("year", FirstValid(a, "y"), a.years)
             M == Named("month", FirstValid(a, "m"), a.months)
  <2>1. IsFiniteSet(D)
    <3> DEFINE f == [n \in 1 .. 360 |-> KeptUnder(a, <<"day", n>>)]
    <3>1. \A o \in D : \E n \in 1 .. 360 : o = f[n]
      BY RankedIsNamed DEF Ranked
    <3>2. f = [n \in 1 .. 360 |-> f[n]]
      OBVIOUS
    <3>3. IsFiniteSet(1 .. 360)
      BY ONLY CountOf
    <3> HIDE DEF f, D
    <3> QED
      BY ONLY <3>1, <3>2, <3>3, ImageIsFinite, SMTT(30)
  <2>2. ASSUME NEW series, NEW first, NEW n \in Nat
        PROVE  IsFiniteSet(Named(series, first, n))
    <3> DEFINE f == [i \in 0 .. n - 1 |-> KeptUnder(a, <<series, first + i>>)]
               T == Named(series, first, n)
    <3>1. \A o \in T : \E i \in 0 .. n - 1 : o = f[i]
      BY RankedIsNamed DEF Ranked
    <3>2. f = [i \in 0 .. n - 1 |-> f[i]]
      OBVIOUS
    <3>3. IsFiniteSet(0 .. n - 1)
      BY FS_Interval
    <3> HIDE DEF f, T, Named
    <3>4. IsFiniteSet(T)
      BY ONLY <3>1, <3>2, <3>3, ImageIsFinite
    <3> QED
      BY <3>4 DEF T
  <2>3. IsFiniteSet(D) /\ IsFiniteSet(Y) /\ IsFiniteSet(M)
    <3>1. a.years \in Nat /\ a.months \in Nat
      BY <1>1 DEF ChoiceMade
    <3> HIDE DEF Named, D
    <3> QED
      BY <2>1, <2>2, <3>1
  <2>4. Claims(a) = D \cup Y \cup M
    <3> SUFFICES ASSUME NEW o \in Claims(a) PROVE o \in D \cup Y \cup M
      OBVIOUS
    <3>2. PICK c \in Chosen(a) \cup YearsOf(a) \cup MonthsOf(a) : o.code = c.code
      BY RowIsClaimed
    <3>3. CASE c \in Chosen(a)
      <4>1. PICK n : n \in Literal(a) \cup a.named /\ c.code = <<"day", n>>
        BY <3>3 DEF Chosen
      <4>2. n \in 1 .. 360
        <5>1. Literal(a) \subseteq 1 .. 10
          BY <1>1, LiteralIsTheOpening
        <5>2. a.named \subseteq NamedDays
          BY <1>1 DEF ChoiceMade
        <5> QED
          BY <4>1, <5>1, <5>2 DEF NamedDays
      <4> QED
        BY <3>2, <4>1, <4>2
    <3>4. CASE c \in YearsOf(a)
      <4>1. PICK i \in 0 .. a.years - 1 : c.code = <<"year", FirstValid(a, "y") + i>>
        BY <3>4 DEF YearsOf
      <4> QED
        BY <3>2, <4>1
    <3>5. CASE c \in MonthsOf(a)
      <4>1. PICK i \in 0 .. a.months - 1 : c.code = <<"month", FirstValid(a, "m") + i>>
        BY <3>5 DEF MonthsOf
      <4> QED
        BY <3>2, <4>1
    <3> QED
      BY <3>2, <3>3, <3>4, <3>5
  <2> HIDE DEF D, Y, M
  <2>5. IsFiniteSet(D \cup Y)
    BY ONLY <2>3, FS_Union
  <2>6. IsFiniteSet((D \cup Y) \cup M)
    BY ONLY <2>3, <2>5, FS_Union
  <2> QED
    BY ONLY <2>4, <2>6
<1>3. ASSUME NEW N, N \in Int PROVE IsFiniteSet(ParabsFor(a, N))
  <2> DEFINE S == (0 .. N) \X (1 .. 12)
             f == [z \in S |-> KeptUnder(a, <<"parab", z[2], BaseYear(a) + z[1]>>)]
  <2>1. \A o \in ParabsFor(a, N) : \E z \in S : o = f[z]
    <3>1. ParabMahs(a.parabs) \subseteq 1 .. 12
      BY <1>1, ParabsAre
    <3> SUFFICES ASSUME NEW o \in ParabsFor(a, N) PROVE \E z \in S : o = f[z]
      OBVIOUS
    <3>2. PICK z \in (0 .. N) \X ParabMahs(a.parabs) :
              o = [kind |-> "parab", code |-> <<"parab", z[2], BaseYear(a) + z[1]>>,
                   day |-> On(a, BaseYear(a) + z[1], z[2], ParabRoj[z[2]])]
      BY DEF ParabsFor
    <3>3. z \in S
      BY <3>1, <3>2
    <3>4. o = KeptUnder(a, <<"parab", z[2], BaseYear(a) + z[1]>>)
      BY <3>2 DEF KeptUnder
    <3> QED
      BY <3>3, <3>4
  <2>2. IsFiniteSet(S)
    <3>1. N \in Int /\ 0 \in Int /\ 1 \in Int /\ 12 \in Int
      BY <1>3
    <3> QED
      BY ONLY <3>1, GridIsFinite
  <2>3. f = [z \in S |-> f[z]]
    OBVIOUS
  <2> HIDE DEF f, S
  <2> QED
    BY ONLY <2>1, <2>2, <2>3, ImageIsFinite
<1>4. IsFiniteSet(Parabs(a))
  <2>1. CASE a.parabs = "none"
    BY <2>1, FS_EmptySet DEF Parabs
  <2>2. CASE a.parabs # "none"
    <3> DEFINE perYear == Cardinality(ParabMahs(a.parabs))
               long == a.parabCount \div perYear + 2 + Gone(a)
               short == a.parabYears + Gone(a)
    <3>1. long \in Int /\ short \in Int
      <4>1. perYear = 2 \/ perYear = 12
        BY <1>1, <2>2, ParabsAre
      <4>2. a.parabCount \in Nat /\ a.parabYears \in Nat /\ Gone(a) \in Nat
        BY <1>1, GoneIs DEF ChoiceMade
      <4>3. a.parabCount \div 2 \in Int /\ a.parabCount \div 12 \in Int
        BY <4>2
      <4> QED
        BY <4>1, <4>2, <4>3
    <3>2. Parabs(a) \subseteq ParabsFor(a, long) \cup ParabsFor(a, short) \cup ParabsFor(a, a.parabYears)
      BY <2>2, Zenon DEF Parabs, FirstOf, Ahead
    <3>3. a.parabYears \in Int
      BY <1>1 DEF ChoiceMade
    <3>4. /\ IsFiniteSet(ParabsFor(a, long)) /\ IsFiniteSet(ParabsFor(a, short))
          /\ IsFiniteSet(ParabsFor(a, a.parabYears))
      BY <1>3, <3>1, <3>3
    <3> DEFINE L == ParabsFor(a, long)
               S == ParabsFor(a, short)
               Y == ParabsFor(a, a.parabYears)
    <3> HIDE DEF long, short
    <3>5. IsFiniteSet(L) /\ IsFiniteSet(S) /\ IsFiniteSet(Y) /\ Parabs(a) \in SUBSET (L \cup S \cup Y)
      BY <3>2, <3>4
    <3> HIDE DEF L, S, Y
    <3>6. IsFiniteSet(L \cup S)
      BY ONLY <3>5, FS_Union
    <3>7. IsFiniteSet((L \cup S) \cup Y)
      BY ONLY <3>5, <3>6, FS_Union
    <3> QED
      BY ONLY <3>5, <3>7, FS_Subset
  <2> QED
    BY <2>1, <2>2
<1>5. ASSUME NEW kind \in {"fravardin", "birthday"}, NEW n, NEW mahs \in SUBSET (1 .. 12), NEW roj,
             roj = IF kind = "fravardin" THEN FravardinRoj ELSE a.birthday[1],
             NEW A \in Int, NEW B \in Int
      PROVE  IsFiniteSet(TimesOf(a, kind, n, mahs, roj, A .. B))
  <2> DEFINE S == (A .. B) \X (1 .. 12)
             f == [z \in S |-> KeptUnder(a, <<kind, z[1], z[2]>>)]
  <2>1. \A o \in TimesOf(a, kind, n, mahs, roj, A .. B) : \E z \in S : o = f[z]
    <3> SUFFICES ASSUME NEW o \in TimesOf(a, kind, n, mahs, roj, A .. B) PROVE \E z \in S : o = f[z]
      OBVIOUS
    <3>1. PICK y \in A .. B, mah \in mahs :
              o = [kind |-> kind, code |-> <<kind, y, mah>>, day |-> On(a, y, mah, roj)]
      BY DEF TimesOf, FirstOf, Ahead
    <3>2. <<y, mah>> \in S
      BY <1>5, <3>1
    <3>3. o = KeptUnder(a, <<kind, y, mah>>)
      BY <1>5, <3>1 DEF KeptUnder
    <3>4. o = f[<<y, mah>>]
      BY <3>2, <3>3
    <3> QED
      BY <3>2, <3>4
  <2>2. IsFiniteSet(S)
    <3>1. A \in Int /\ B \in Int /\ 1 \in Int /\ 12 \in Int
      BY <1>5
    <3> QED
      BY ONLY <3>1, GridIsFinite
  <2>3. f = [z \in S |-> f[z]]
    OBVIOUS
  <2> HIDE DEF f, S
  <2> QED
    BY ONLY <2>1, <2>2, <2>3, ImageIsFinite
<1>6. IsFiniteSet(FravardinRojs(a))
  <2>1. a.year \in Int /\ a.year + a.fravardin \div 12 + 2 + Gone(a) \in Int
    <3>1. a.year \in Nat /\ a.fravardin \in Nat /\ Gone(a) \in Nat
      BY <1>1, GoneIs DEF DeathGiven, ChoiceMade
    <3>2. a.fravardin \div 12 \in Int
      BY <3>1
    <3> QED
      BY <3>1, <3>2
  <2>2. 1 .. 12 \in SUBSET (1 .. 12)
    OBVIOUS
  <2> QED
    BY <1>5, <2>1, <2>2 DEF FravardinRojs
<1>7. IsFiniteSet(Birthdays(a))
  <2>1. CASE a.birthday = <<>>
    BY <2>1, FS_EmptySet DEF Birthdays
  <2>2. CASE a.birthday # <<>>
    <3>1. a.birthday \in (1 .. 30) \X (1 .. 12)
      BY <1>1, <2>2 DEF ChoiceMade
    <3>2. {a.birthday[2]} \in SUBSET (1 .. 12)
      BY <3>1
    <3>3. a.year \in Int /\ a.year + a.birthdayYears + 1 + Gone(a) \in Int
      BY <1>1, GoneIs DEF DeathGiven, ChoiceMade
    <3> QED
      BY <1>5, <2>2, <3>2, <3>3 DEF Birthdays
  <2> QED
    BY <2>1, <2>2
<1>8. IsFiniteSet(Claims(a) \cup Parabs(a))
  BY ONLY <1>2, <1>4, FS_Union
<1>9. IsFiniteSet(Claims(a) \cup Parabs(a) \cup FravardinRojs(a))
  BY ONLY <1>6, <1>8, FS_Union
<1>10. IsFiniteSet(Claims(a) \cup Parabs(a) \cup FravardinRojs(a) \cup Birthdays(a))
  BY ONLY <1>7, <1>9, FS_Union
<1> QED
  BY <1>10 DEF Ranked

-----------------------------------------------------------------------------
(***************************************************************************)
(* Names and prayers.                                                      *)
(***************************************************************************)

\* A schedule keeps some of what is ranked.
LEMMA ScheduleIsRanked ==
    ASSUME NEW a
    PROVE  /\ BuildSchedule(a) \subseteq Ranked(a)
           /\ \A o \in BuildSchedule(a), p \in Ranked(a) : ~Outranks(p, o)
           /\ BuildSchedule(a) = Best(Ranked(a))
BY DEF BuildSchedule, Best, Ranked

\* Two of a schedule on one day are of one kind.
LEMMA OneKindToADay ==
    ASSUME NEW a, Memorial(a), NEW o \in BuildSchedule(a), NEW p \in BuildSchedule(a), o.day = p.day
    PROVE  o.kind = p.kind
<1>1. o \in Ranked(a) /\ p \in Ranked(a) /\ ~Outranks(o, p) /\ ~Outranks(p, o)
  BY ScheduleIsRanked
<1>2. o.kind \in Kinds /\ p.kind \in Kinds
  BY <1>1, RankedIsNamed
<1>3. /\ Rank(o.kind) \in 0 .. 6 /\ Rank(p.kind) \in 0 .. 6
      /\ Rank(o.kind) = Rank(p.kind) => o.kind = p.kind
  BY <1>2, RanksDiffer
<1>4. ~(Rank(o.kind) < Rank(p.kind)) /\ ~(Rank(p.kind) < Rank(o.kind))
  BY <1>1 DEF Outranks
<1> QED
  BY <1>3, <1>4

\* A save after midnight starts from the next day, for the same death and choice.
LEMMA NextDayIs ==
    ASSUME NEW a, Memorial(a)
    PROVE  Memorial(NextDay(a)) /\ SameDeath(a, NextDay(a)) /\ a.birthday = NextDay(a).birthday
<1>1. CASE a.from = NoDay
  BY <1>1 DEF NextDay, SameDeath
<1>2. CASE a.from # NoDay
  <2> DEFINE b == [a EXCEPT !.from = @ + 1]
  <2>1. NextDay(a) = b
    BY <1>2 DEF NextDay
  <2>2. DOMAIN b = DOMAIN a /\ DeathFields \subseteq DOMAIN a /\ ChoiceFields \subseteq DOMAIN a
    BY DEF Memorial, DeathGiven, ChoiceMade
  <2>3. b.from = a.from + 1 /\ \A f \in DOMAIN a : f # "from" => b[f] = a[f]
    BY <2>2 DEF DeathFields
  <2> HIDE DEF b
  <2>4. b.system = a.system /\ b.year = a.year /\ b.mah = a.mah /\ b.roj = a.roj
    BY <2>2, <2>3 DEF DeathFields
  <2>5. /\ b.opening = a.opening /\ b.named = a.named /\ b.months = a.months /\ b.years = a.years
        /\ b.parabs = a.parabs /\ b.parabYears = a.parabYears /\ b.parabCount = a.parabCount
        /\ b.birthday = a.birthday /\ b.birthdayYears = a.birthdayYears /\ b.fravardin = a.fravardin
    BY <2>2, <2>3 DEF ChoiceFields
  <2>6. DeathGiven(b)
    BY <2>2, <2>3, <2>4 DEF Memorial, DeathGiven
  <2>7. ChoiceMade(b)
    BY <2>2, <2>5 DEF Memorial, ChoiceMade
  <2> QED
    BY <2>1, <2>4, <2>5, <2>6, <2>7 DEF Memorial, SameDeath
<1> QED
  BY <1>1, <1>2

\* A name means one day, on the review and in the save, and no two rows share one.
LEMMA OneNameToADay ==
    ASSUME NEW a, Memorial(a)
    PROVE  NameOneDay(BuildSchedule(a), BuildSchedule(NextDay(a)))
<1> DEFINE review == BuildSchedule(a)
           schedule == BuildSchedule(NextDay(a))
<1>1. \A o \in review : o = KeptUnder(NextDay(a), o.code)
  BY SameNames, NextDayIs, ScheduleIsRanked
<1>2. \A o \in schedule : o = KeptUnder(NextDay(a), o.code)
  BY RankedIsNamed, NextDayIs, ScheduleIsRanked
<1> HIDE DEF review, schedule
<1>3. ASSUME NEW o \in review
      PROVE  LET saved == CreateMemorial(schedule, {}, {"afringan"}, [c \in {o.code} |-> {"baaj"}])
             IN DaysOf({r \in saved : r.prayers = {"baaj"}}) \subseteq {o.day}
  <2> DEFINE single == [c \in {o.code} |-> {"baaj"}]
             saved == CreateMemorial(schedule, {}, {"afringan"}, single)
  <2>1. SUFFICES ASSUME NEW r \in saved, r.prayers = {"baaj"} PROVE r.day = o.day
    BY DEF DaysOf
  <2>2. PICK p \in schedule : r = [code |-> p.code, day |-> p.day,
                                   prayers |-> PrayersOf(p.code, {"afringan"}, single)]
    BY <2>1 DEF CreateMemorial, Kept
  <2>3. p.code = o.code
    <3> SUFFICES ASSUME p.code # o.code PROVE FALSE
      OBVIOUS
    <3>1. p.code \notin DOMAIN single
      OBVIOUS
    <3> HIDE DEF single, saved
    <3>2. r.prayers = {q \in {"afringan"} : q # "jashan" \/ IsAnniversary(p.code)}
      BY <2>2, <3>1 DEF PrayersOf
    <3>3. "baaj" \in r.prayers
      BY <2>1
    <3>4. "baaj" # "afringan"
      OBVIOUS
    <3> QED
      BY <3>2, <3>3, <3>4
  <2>4. p = o
    BY <1>1, <1>2, <2>3
  <2> QED
    BY <2>2, <2>4
<1>4. Cardinality({o.code : o \in review}) = Cardinality(review)
  <2> DEFINE codes == {o.code : o \in review}
             f == [o \in review |-> o.code]
  <2>1. IsFiniteSet(review)
    <3>1. IsFiniteSet(Ranked(a)) /\ review \in SUBSET Ranked(a)
      BY RankedIsFinite, ScheduleIsRanked DEF review
    <3> QED
      BY ONLY <3>1, FS_Subset
  <2>2. f \in Bijection(review, codes)
    <3>1. \A o, p \in review : o.code = p.code => o = p
      BY <1>1
    <3>2. f \in [review -> codes]
      OBVIOUS
    <3>3. \A o, p \in review : f[o] = f[p] => o = p
      BY <3>1
    <3>4. \A c \in codes : \E o \in review : f[o] = c
      OBVIOUS
    <3> HIDE DEF f, codes
    <3> QED
      BY <3>2, <3>3, <3>4 DEF Bijection, Injection, Surjection, IsInjective
  <2>3. ExistsBijection(review, codes)
    BY <2>2 DEF ExistsBijection
  <2> HIDE DEF codes, f
  <2>4. Cardinality(codes) = Cardinality(review)
    BY ONLY <2>1, <2>3, FS_Bijection
  <2> QED
    BY <2>4 DEF codes
<1>5. NameOneDay(review, schedule)
  BY <1>3, <1>4 DEF NameOneDay
<1> QED
  BY <1>5 DEF review, schedule

\* Jashan goes to the anniversaries and to nothing else.
LEMMA JashanIsForAnniversaries ==
    ASSUME NEW a, Memorial(a)
    PROVE  OnlyOnAnniversaries(BuildSchedule(a),
               DaysOf({o \in BuildSchedule(a) : o.kind \in {"m", "y"}}))
<1> DEFINE schedule == BuildSchedule(a)
           yearly == {o \in schedule : o.kind \in {"m", "y"}}
<1>1. \A o \in schedule : IsAnniversary(o.code) <=> o.kind \in {"m", "y"}
  BY RankedIsNamed, ScheduleIsRanked
<1>2. \A o, p \in schedule : o.day = p.day => o.kind = p.kind
  BY OneKindToADay
<1> HIDE DEF schedule
<1>3. \A code, chosen : PrayersOf(code, chosen, <<>>) = {p \in chosen : p # "jashan" \/ IsAnniversary(code)}
  <2>1. \A code : code \notin DOMAIN <<>>
    OBVIOUS
  <2> QED
    BY <2>1 DEF PrayersOf
<1>4. DaysOf({r \in CreateMemorial(schedule, {}, {"jashan", "afringan"}, <<>>) : "jashan" \in r.prayers})
          = DaysOf(yearly)
  <2> DEFINE saved == CreateMemorial(schedule, {}, {"jashan", "afringan"}, <<>>)
  <2>1. saved = {[code |-> o.code, day |-> o.day,
                  prayers |-> PrayersOf(o.code, {"jashan", "afringan"}, <<>>)] : o \in schedule}
    BY DEF CreateMemorial, Kept
  <2>2. \A o \in schedule : "jashan" \in PrayersOf(o.code, {"jashan", "afringan"}, <<>>) <=> o \in yearly
    BY <1>1, <1>3
  <2> HIDE DEF saved, yearly
  <2>3. ASSUME NEW r \in saved, "jashan" \in r.prayers PROVE \E o \in yearly : o.day = r.day
    <3>1. PICK o \in schedule : r = [code |-> o.code, day |-> o.day,
                  prayers |-> PrayersOf(o.code, {"jashan", "afringan"}, <<>>)]
      BY <2>1
    <3> QED
      BY <2>2, <2>3, <3>1
  <2>4. ASSUME NEW o \in yearly PROVE \E r \in saved : "jashan" \in r.prayers /\ r.day = o.day
    <3>1. o \in schedule
      BY DEF yearly
    <3> DEFINE r == [code |-> o.code, day |-> o.day,
                     prayers |-> PrayersOf(o.code, {"jashan", "afringan"}, <<>>)]
    <3>2. r \in saved
      BY <2>1, <3>1
    <3> QED
      BY <2>2, <3>1, <3>2
  <2> QED
    BY <2>3, <2>4 DEF DaysOf, saved
<1>5. CanCreate(schedule, {}, {"jashan"}, <<>>) <=> schedule # {} /\ DaysOf(yearly) = DaysOf(schedule)
  <2>1. CanCreate(schedule, {}, {"jashan"}, <<>>)
            <=> schedule # {} /\ \A o \in schedule : PrayersOf(o.code, {"jashan"}, <<>>) # {}
    BY DEF CanCreate, Kept
  <2>2. ASSUME NEW o \in schedule PROVE PrayersOf(o.code, {"jashan"}, <<>>) # {} <=> o \in yearly
    <3>1. PrayersOf(o.code, {"jashan"}, <<>>)
              = {p \in {"jashan"} : p # "jashan" \/ IsAnniversary(o.code)}
      BY <1>3
    <3>2. PrayersOf(o.code, {"jashan"}, <<>>) # {} <=> IsAnniversary(o.code)
      BY <3>1
    <3> QED
      BY <1>1, <3>2
  <2>3. ASSUME DaysOf(yearly) = DaysOf(schedule), NEW o \in schedule PROVE o \in yearly
    <3>1. o.day \in DaysOf(yearly)
      BY <2>3 DEF DaysOf
    <3>2. PICK p \in yearly : p.day = o.day
      BY <3>1 DEF DaysOf
    <3> QED
      BY <1>2, <3>2
  <2>4. ASSUME \A o \in schedule : o \in yearly PROVE DaysOf(yearly) = DaysOf(schedule)
    BY <2>4
  <2> HIDE DEF yearly
  <2> QED
    BY <2>1, <2>2, <2>3, <2>4
<1>6. OnlyOnAnniversaries(schedule, DaysOf(yearly))
  BY <1>4, <1>5 DEF OnlyOnAnniversaries
<1> QED
  BY <1>6 DEF schedule

\* What is saved is what was reviewed, each date with its own prayers.
THEOREM NamesAreAlwaysKept == Spec => []NamesAreKept
<1>1. AskInv => NamesAreKept
  <2> SUFFICES ASSUME AskInv, Entered PROVE NamesAreKept
    BY DEF NamesAreKept
  <2>1. Memorial(ask)
    BY DEF AskInv
  <2> QED
    BY <2>1, OneNameToADay, JashanIsForAnniversaries DEF NamesAreKept
<1> QED
  BY <1>1, AskIsTyped, PTL DEF Spec

-----------------------------------------------------------------------------
(***************************************************************************)
(* The places of the cycle of Roj and Mah, and their days.                 *)
(***************************************************************************)

\* Place c of the cycle of Roj and Mah that begins with year y.
Place(s, y, c) == NewYearDay(s, y + c \div 360) + (c % 360)

\* A place is a day of the engine: its Mah and Roj in its year.
LEMMA PlaceIs ==
    ASSUME NEW s \in System, NEW y \in Int, NEW c \in Int
    PROVE  /\ Place(s, y, c) \in Int
           /\ c \div 360 \in Int /\ c % 360 \in 0 .. 359 /\ c = 360 * (c \div 360) + (c % 360)
           /\ ParsiToGregorian(y + c \div 360, s, (c % 360) \div 30 + 1, ((c % 360) % 30) + 1) = Place(s, y, c)
<1>1. c \div 360 \in Int /\ c % 360 \in 0 .. 359 /\ c = 360 * (c \div 360) + (c % 360)
  OBVIOUS
<1> DEFINE q == c \div 360
           v == c % 360
<1>2. q \in Int /\ v \in Int
  BY <1>1
<1> HIDE DEF q, v
<1>3. v \div 30 \in Int /\ v % 30 \in Int /\ v = 30 * (v \div 30) + (v % 30)
  BY <1>2
<1>4. NewYearDay(s, y + q) \in Int
  BY <1>2, NewYearDayIs
<1>5. ParsiToGregorian(y + q, s, v \div 30 + 1, (v % 30) + 1)
          = NewYearDay(s, y + q) + 30 * ((v \div 30 + 1) - 1) + ((v % 30) + 1) - 1
  <2>1. y + q \in Int /\ v \div 30 + 1 \in Int /\ (v % 30) + 1 \in Int
    BY <1>2, <1>3
  <2>2. ParsiToGregorian(y + q, s, v \div 30 + 1, (v % 30) + 1)
          = NewYearDay(s, y + q) + 30 * ((v \div 30 + 1) - 1) + ((v % 30) + 1) - 1
    BY <2>1, PlaceInYear
  <2> QED
    BY <1>2, <1>3, <1>4, <2>2
<1>6. ParsiToGregorian(y + q, s, v \div 30 + 1, (v % 30) + 1) = NewYearDay(s, y + q) + v
  BY <1>2, <1>3, <1>4, <1>5
<1> QED
  BY <1>1, <1>2, <1>4, <1>6 DEF Place, q, v

\* Later places are later days, and by no more than the Gatha days between.
LEMMA PlacesSpan ==
    ASSUME NEW s \in System, NEW y \in Int, NEW c \in Int, NEW d \in Int, c <= d
    PROVE  /\ Place(s, y, c) + (d - c) <= Place(s, y, d)
           /\ 360 * Place(s, y, d) <= 360 * Place(s, y, c) + 366 * (d - c) + 2154
<1> DEFINE p == c \div 360
           u == c % 360
           q == d \div 360
           v == d % 360
<1>1. p \in Int /\ u \in 0 .. 359 /\ c = 360 * p + u /\ q \in Int /\ v \in 0 .. 359 /\ d = 360 * q + v
  BY PlaceIs
<1>2. Place(s, y, c) = NewYearDay(s, y + p) + u /\ Place(s, y, d) = NewYearDay(s, y + q) + v
  BY DEF Place
<1> HIDE DEF p, u, q, v
<1>3. p <= q /\ y + p \in Int /\ y + q \in Int /\ y + p <= y + q
  BY <1>1
<1>4. NewYearDay(s, y + p) \in Int /\ NewYearDay(s, y + q) \in Int
  BY <1>3, NewYearDayIs
<1>5. /\ NewYearDay(s, y + p) + 365 * ((y + q) - (y + p)) <= NewYearDay(s, y + q)
      /\ NewYearDay(s, y + q) <= NewYearDay(s, y + p) + 366 * ((y + q) - (y + p))
  BY <1>3, YearsSpan, ZenonT(60)
<1>6. (y + q) - (y + p) = q - p
  BY <1>1
<1>7. /\ NewYearDay(s, y + p) + 365 * (q - p) <= NewYearDay(s, y + q)
      /\ NewYearDay(s, y + q) <= NewYearDay(s, y + p) + 366 * (q - p)
  BY <1>5, <1>6
<1> QED
  BY ONLY <1>1, <1>2, <1>3, <1>4, <1>7, c \in Int, d \in Int, c <= d

-----------------------------------------------------------------------------
\* Where counting by Roj and Mah starts, as a place of the cycle of the base year.
Base(a) == IF Gatha(a) THEN 0 ELSE Start(a)
MonthDay(a, k) == Place(a.system, BaseYear(a), Base(a) + 30 * k)

\* Counting starts in the year of death, or after a Gatha death with the next.
LEMMA BaseIs ==
    ASSUME NEW a, DeathGiven(a)
    PROVE  /\ a.system \in System /\ BaseYear(a) \in Int /\ a.year \in Int /\ Base(a) \in 0 .. 359
           /\ Gatha(a) => /\ BaseYear(a) = a.year + 1 /\ Start(a) = -1 /\ Base(a) = 0
                          /\ a.roj \in 1 .. MaxGatha(a.system, a.year)
           /\ ~Gatha(a) => BaseYear(a) = a.year /\ Start(a) = Base(a)
<1>1. /\ a.system \in System /\ a.year \in Nat /\ a.mah \in 1 .. 13 /\ a.roj \in 1 .. 30
      /\ Exists(a.system, a.year, a.mah, a.roj)
  BY DEF DeathGiven
<1>2. Gatha(a) => a.roj \in 1 .. MaxGatha(a.system, a.year)
  BY <1>1 DEF Gatha, Exists
<1> QED
  BY <1>1, <1>2 DEF Gatha, BaseYear, Start, Base, Cycle, DaysPerMonth

\* The death is at the place counting starts from; a Gatha death is days before it.
LEMMA DeathPlace ==
    ASSUME NEW a, DeathGiven(a)
    PROVE  /\ ~Gatha(a) => DeathDay(a) = Place(a.system, BaseYear(a), Base(a))
           /\ Gatha(a) => /\ DeathDay(a) < Place(a.system, BaseYear(a), 0)
                          /\ Place(a.system, BaseYear(a), 0) <= DeathDay(a) + 6
           /\ DeathDay(a) < NewYearDay(a.system, a.year + 1) /\ NewYearDay(a.system, a.year) <= DeathDay(a)
<1>1. /\ a.system \in System /\ a.year \in Int /\ a.mah \in Int /\ a.roj \in Int
      /\ a.mah \in 1 .. 13 /\ a.roj \in 1 .. 30 /\ Exists(a.system, a.year, a.mah, a.roj)
  BY DEF DeathGiven
<1>2. DeathDay(a) = NewYearDay(a.system, a.year) + 30 * (a.mah - 1) + a.roj - 1
      /\ NewYearDay(a.system, a.year) \in Int /\ NewYearDay(a.system, a.year + 1) \in Int
  BY <1>1, PlaceInYear, NewYearDayIs DEF DeathDay
<1>3. DeathDay(a) < NewYearDay(a.system, a.year + 1) /\ NewYearDay(a.system, a.year) <= DeathDay(a)
  BY <1>1, DateIsInYear DEF DeathDay
<1>4. ASSUME ~Gatha(a) PROVE DeathDay(a) = Place(a.system, BaseYear(a), Base(a))
  <2>1. Base(a) = (a.mah - 1) * 30 + a.roj - 1 /\ BaseYear(a) = a.year /\ Base(a) \in 0 .. 359
    BY <1>1, <1>4, BaseIs DEF Base, Start, Cycle, DaysPerMonth
  <2>2. Base(a) \div 360 = 0 /\ Base(a) % 360 = Base(a)
    BY <2>1
  <2> QED
    BY <1>1, <1>2, <2>1, <2>2 DEF Place
<1>5. ASSUME Gatha(a)
      PROVE  /\ DeathDay(a) < Place(a.system, BaseYear(a), 0)
             /\ Place(a.system, BaseYear(a), 0) <= DeathDay(a) + 6
  <2>1. Place(a.system, BaseYear(a), 0) = NewYearDay(a.system, a.year + 1)
    <3>1. 0 \div 360 = 0 /\ 0 % 360 = 0 /\ a.year + 1 + 0 = a.year + 1 /\ BaseYear(a) = a.year + 1
      BY <1>1, <1>5, BaseIs
    <3> QED
      BY <1>2, <3>1 DEF Place
  <2>2. /\ NewYearDay(a.system, a.year + 1) = NewYearDay(a.system, a.year) + 360 + MaxGatha(a.system, a.year)
        /\ MaxGatha(a.system, a.year) \in {5, 6}
    BY <1>1, YearIsLong
  <2>3. a.mah = 13
    BY <1>5 DEF Gatha
  <2> QED
    BY <1>1, <1>2, <1>3, <2>1, <2>2, <2>3
<1> QED
  BY <1>3, <1>4, <1>5

\* The monthly days, by whichever name they go.
LEMMA MonthDayIs ==
    ASSUME NEW a, DeathGiven(a), NEW k \in Nat
    PROVE  /\ Resolve(a, Canon(a, "m", k)) = MonthDay(a, k)
           /\ k % 12 # 0 => Canon(a, "m", k) = <<"m", k>>
<1>1. /\ a.system \in System /\ BaseYear(a) \in Int /\ Base(a) \in 0 .. 359
      /\ ~Gatha(a) => Start(a) = Base(a)
  BY BaseIs
<1> DEFINE c == Base(a) + 30 * k
<1>2. c \in Nat
  BY <1>1
<1>3. CASE Gatha(a)
  <2>1. Canon(a, "m", k) = <<"m", k>>
    BY <1>3 DEF Canon
  <2>2. Resolve(a, <<"m", k>>) = On(a, BaseYear(a) + k \div 12, (k % 12) + 1, 1)
    BY <1>3, DatedIs DEF Resolve
  <2>3. Base(a) = 0
    BY <1>3 DEF Base
  <2>4. c \div 360 = k \div 12 /\ c % 360 = 30 * (k % 12)
    BY <2>3
  <2>5. On(a, BaseYear(a) + k \div 12, (k % 12) + 1, 1)
            = NewYearDay(a.system, BaseYear(a) + k \div 12) + 30 * (k % 12)
    <3>1. BaseYear(a) + k \div 12 \in Int /\ k % 12 \in Int /\ (k % 12) + 1 \in Int /\ 1 \in Int
      BY <1>1
    <3>2. NewYearDay(a.system, BaseYear(a) + k \div 12) \in Int
      BY <1>1, <3>1, NewYearDayIs
    <3>3. On(a, BaseYear(a) + k \div 12, (k % 12) + 1, 1)
              = NewYearDay(a.system, BaseYear(a) + k \div 12) + 30 * (((k % 12) + 1) - 1) + 1 - 1
      BY <1>1, <3>1, PlaceInYear, ZenonT(60) DEF On
    <3> QED
      BY <3>1, <3>2, <3>3
  <2> QED
    BY <2>1, <2>2, <2>4, <2>5 DEF MonthDay, Place
<1>4. ASSUME ~Gatha(a), NEW n \in Nat, n = 1 + 30 * k PROVE CountFrom(a, n) = MonthDay(a, k)
  <2>1. Start(a) + n - 1 = c
    BY <1>1, <1>4
  <2>2. CountFrom(a, n) = On(a, BaseYear(a) + c \div 360, (c % 360) \div 30 + 1, ((c % 360) % 30) + 1)
    BY <2>1 DEF CountFrom, CycleDays, DaysPerMonth
  <2> QED
    BY <1>1, <1>2, <2>2, PlaceIs DEF On, MonthDay
<1>5. CASE ~Gatha(a) /\ k % 12 = 0
  <2>1. Canon(a, "m", k) = <<"y", k \div 12>>
    BY <1>5 DEF Canon
  <2>2. Resolve(a, <<"y", k \div 12>>) = CountFrom(a, 1 + CycleDays * (k \div 12))
    BY <1>5, DatedIs DEF Resolve
  <2>3. 1 + CycleDays * (k \div 12) = 1 + 30 * k /\ 1 + 30 * k \in Nat
    BY <1>5 DEF CycleDays
  <2> QED
    BY <1>4, <1>5, <2>1, <2>2, <2>3
<1>6. CASE ~Gatha(a) /\ k % 12 # 0
  <2>1. Canon(a, "m", k) = <<"m", k>>
    BY <1>6 DEF Canon
  <2>2. Resolve(a, <<"m", k>>) = CountFrom(a, 1 + DaysPerMonth * k)
    BY <1>6, DatedIs DEF Resolve
  <2>3. 1 + DaysPerMonth * k = 1 + 30 * k /\ 1 + 30 * k \in Nat
    BY DEF DaysPerMonth
  <2> QED
    BY <1>4, <1>6, <2>1, <2>2, <2>3
<1>7. k % 12 # 0 => Canon(a, "m", k) = <<"m", k>>
  BY DEF Canon
<1> QED
  BY <1>3, <1>5, <1>6, <1>7

\* A Gatha day is kept on the last Gatha day there is up to it.
LEMMA GathaDayIs ==
    ASSUME NEW a, DeathGiven(a), Gatha(a), NEW y \in Int
    PROVE  LET g == IF a.roj <= MaxGatha(a.system, y) THEN a.roj ELSE 5
           IN /\ GathaDay(a, y) = NewYearDay(a.system, y) + 360 + g - 1
              /\ g \in 1 .. MaxGatha(a.system, y)
              /\ a.roj = 6 => g = MaxGatha(a.system, y)
<1> DEFINE top == MaxGatha(a.system, y)
           g == IF a.roj <= top THEN a.roj ELSE 5
<1>1. a.system \in System /\ top \in {5, 6} /\ a.roj \in Nat /\ 1 <= a.roj /\ a.roj <= 6
  <2>1. a.roj \in 1 .. MaxGatha(a.system, a.year) /\ a.system \in System /\ a.year \in Int
    BY BaseIs
  <2> QED
    BY <2>1, YearIsLong
<1> HIDE DEF top
<1>2. g \in 1 .. top /\ g \in 1 .. a.roj /\ (a.roj = 6 => g = top)
  BY <1>1
<1>3. \A h \in Int : Exists(a.system, y, 13, h) <=> h \in 1 .. top
  BY DEF Exists, top
<1>4. \A h \in g + 1 .. a.roj : ~Exists(a.system, y, 13, h)
  BY <1>1, <1>3
<1>5. Exists(a.system, y, 13, g)
  BY <1>1, <1>2, <1>3
<1>6. \A x \in 1 .. a.roj :
          Exists(a.system, y, 13, x) /\ (\A h \in x + 1 .. a.roj : ~Exists(a.system, y, 13, h)) => x = g
  <2> SUFFICES ASSUME NEW x \in 1 .. a.roj, Exists(a.system, y, 13, x),
                      \A h \in x + 1 .. a.roj : ~Exists(a.system, y, 13, h), x # g
               PROVE  FALSE
    OBVIOUS
  <2> HIDE DEF g
  <2>1. x \in Int /\ g \in Int /\ g <= a.roj /\ x <= a.roj
    BY <1>1, <1>2
  <2>2. CASE x < g
    <3>1. g \in x + 1 .. a.roj
      BY <1>1, <2>1, <2>2
    <3> QED
      BY <1>5, <3>1
  <2>3. CASE g < x
    <3>1. x \in g + 1 .. a.roj
      BY <1>1, <2>1, <2>3
    <3> QED
      BY <1>4, <3>1
  <2> QED
    BY <2>1, <2>2, <2>3
<1>7. (CHOOSE x \in 1 .. a.roj :
          Exists(a.system, y, 13, x) /\ \A h \in x + 1 .. a.roj : ~Exists(a.system, y, 13, h)) = g
  <2> HIDE DEF g
  <2> QED
    BY <1>2, <1>4, <1>5, <1>6
<1>8. GathaDay(a, y) = On(a, y, 13, g)
  <2> HIDE DEF g
  <2> QED
    BY <1>7 DEF GathaDay
<1>9. On(a, y, 13, g) = NewYearDay(a.system, y) + 360 + g - 1
  <2>1. g \in Int /\ NewYearDay(a.system, y) \in Int
    BY <1>1, <1>2, NewYearDayIs
  <2> HIDE DEF g
  <2>2. On(a, y, 13, g) = NewYearDay(a.system, y) + 30 * (13 - 1) + g - 1
    BY <1>1, <2>1, PlaceInYear DEF On
  <2> QED
    BY <2>1, <2>2
<1> QED
  BY <1>2, <1>8, <1>9 DEF top

YearDayOf(a, k) == Resolve(a, <<"y", k>>)
\* The yearly days: every twelfth month, or the Gatha day of each year.
LEMMA YearDayIsFound ==
    ASSUME NEW a, DeathGiven(a), NEW k \in Nat
    PROVE  /\ ~Gatha(a) => YearDayOf(a, k) = MonthDay(a, 12 * k)
           /\ Gatha(a) => YearDayOf(a, k) = GathaDay(a, a.year + k)
<1>1. ASSUME ~Gatha(a) PROVE YearDayOf(a, k) = MonthDay(a, 12 * k)
  <2>1. 12 * k \in Nat /\ (12 * k) % 12 = 0 /\ (12 * k) \div 12 = k
    OBVIOUS
  <2>2. Canon(a, "m", 12 * k) = <<"y", k>>
    BY <1>1, <2>1 DEF Canon
  <2> QED
    BY <2>1, <2>2, MonthDayIs DEF YearDayOf
<1>2. ASSUME Gatha(a) PROVE YearDayOf(a, k) = GathaDay(a, a.year + k)
  BY <1>2, DatedIs DEF Resolve, YearDayOf
<1> QED
  BY <1>1, <1>2

-----------------------------------------------------------------------------
(***************************************************************************)
(* The days that can be picked one by one.                                 *)
(***************************************************************************)

Shown == (5 .. 10) \cup {29, 30, 59, 60, 179, 180, 359, 360}
ShownDay(a, n) == Resolve(a, KeyUnder(a, <<"day", n>>))

\* The date of each day that can be picked.
LEMMA ShownDayIs ==
    ASSUME NEW a, DeathGiven(a)
    PROVE  /\ \A n \in 5 .. 10 : ShownDay(a, n) = DeathDay(a) + n - 1
           /\ ShownDay(a, 30) = MonthDay(a, 1) /\ ShownDay(a, 29) = MonthDay(a, 1) - 1
           /\ ShownDay(a, 60) = MonthDay(a, 2) /\ ShownDay(a, 59) = MonthDay(a, 2) - 1
           /\ ShownDay(a, 180) = MonthDay(a, 6) /\ ShownDay(a, 179) = MonthDay(a, 6) - 1
           /\ ShownDay(a, 360) = YearDayOf(a, 1) /\ ShownDay(a, 359) = YearDayOf(a, 1) - 1
<1>1. ASSUME NEW n \in 5 .. 10 PROVE ShownDay(a, n) = DeathDay(a) + n - 1
  <2>1. KeyUnder(a, <<"day", n>>) = <<"lit", n>>
    BY DEF KeyUnder
  <2>2. <<"lit", n>>[1] = "lit" /\ <<"lit", n>>[2] = n
    OBVIOUS
  <2>3. Dated(a, <<"lit", n>>) = DeathDay(a) + n - 1
    BY <2>2, DatedIs
  <2>4. Resolve(a, <<"lit", n>>) = Dated(a, <<"lit", n>>)
    BY <2>2 DEF Resolve
  <2> QED
    BY <2>1, <2>3, <2>4 DEF ShownDay
<1>2. /\ NamedKey(a, 30) = Canon(a, "m", 1) /\ NamedKey(a, 60) = Canon(a, "m", 2)
      /\ NamedKey(a, 180) = Canon(a, "m", 6) /\ NamedKey(a, 360) = Canon(a, "y", 1)
  BY NamedKeyIs DEF NamedKey
<1>3. /\ NamedKey(a, 30) = <<"m", 1>> /\ NamedKey(a, 60) = <<"m", 2>>
      /\ NamedKey(a, 180) = <<"m", 6>> /\ NamedKey(a, 360) = <<"y", 1>>
  BY <1>2 DEF Canon
<1>4. ASSUME NEW n \in {30, 60, 180, 360}
      PROVE  /\ ShownDay(a, n) = Resolve(a, NamedKey(a, n))
             /\ ShownDay(a, n) = Dated(a, NamedKey(a, n))
  <2>1. KeyUnder(a, <<"day", n>>) = NamedKey(a, n)
    BY NamedKeyIs DEF KeyUnder
  <2>2. NamedKey(a, n)[1] # "deci"
    BY <1>3
  <2> QED
    BY <2>1, <2>2 DEF ShownDay, Resolve
<1>5. ASSUME NEW n \in {29, 59, 179, 359} PROVE ShownDay(a, n) = Dated(a, NamedKey(a, n + 1)) - 1
  <2>1. KeyUnder(a, <<"day", n>>) = <<"deci", n>>
    BY NamedKeyIs DEF KeyUnder
  <2> QED
    BY <2>1 DEF ShownDay, Resolve, DeciOf
<1>6. ASSUME NEW n \in {30, 60, 180, 360} PROVE ShownDay(a, n - 1) = ShownDay(a, n) - 1
  BY <1>4, <1>5
<1>7. /\ Resolve(a, Canon(a, "m", 1)) = MonthDay(a, 1) /\ Resolve(a, Canon(a, "m", 2)) = MonthDay(a, 2)
      /\ Resolve(a, Canon(a, "m", 6)) = MonthDay(a, 6)
  BY MonthDayIs
<1>8. /\ ShownDay(a, 30) = MonthDay(a, 1) /\ ShownDay(a, 60) = MonthDay(a, 2)
      /\ ShownDay(a, 180) = MonthDay(a, 6) /\ ShownDay(a, 360) = YearDayOf(a, 1)
  BY <1>2, <1>3, <1>4, <1>7 DEF YearDayOf
<1>9. /\ ShownDay(a, 29) = ShownDay(a, 30) - 1 /\ ShownDay(a, 59) = ShownDay(a, 60) - 1
      /\ ShownDay(a, 179) = ShownDay(a, 180) - 1 /\ ShownDay(a, 359) = ShownDay(a, 360) - 1
  BY <1>6
<1> QED
  BY <1>1, <1>8, <1>9

\* The months follow the death, at least thirty days apart.
LEMMA MonthsSpan ==
    ASSUME NEW a, DeathGiven(a)
    PROVE  /\ \A k \in Nat : MonthDay(a, k) \in Int
           /\ \A j, k \in Nat : j <= k => MonthDay(a, j) + 30 * (k - j) <= MonthDay(a, k)
           /\ DeathDay(a) <= MonthDay(a, 0)
<1>1. /\ a.system \in System /\ BaseYear(a) \in Int /\ Base(a) \in 0 .. 359
      /\ DeathDay(a) \in Int
  BY BaseIs, DeathDayIs
<1>2. \A k \in Nat : Base(a) + 30 * k \in Nat
  BY <1>1
<1>3. \A k \in Nat : MonthDay(a, k) \in Int
  BY <1>1, <1>2, PlaceIs DEF MonthDay
<1>4. ASSUME NEW j \in Nat, NEW k \in Nat, j <= k
      PROVE  MonthDay(a, j) + 30 * (k - j) <= MonthDay(a, k)
  <2> DEFINE c == Base(a) + 30 * j
             d == Base(a) + 30 * k
  <2>1. c \in Nat /\ d \in Nat /\ c <= d /\ d - c = 30 * (k - j)
    BY <1>1, <1>4
  <2>2. MonthDay(a, j) = Place(a.system, BaseYear(a), c) /\ MonthDay(a, k) = Place(a.system, BaseYear(a), d)
    BY DEF MonthDay
  <2> HIDE DEF c, d
  <2>3. Place(a.system, BaseYear(a), c) + (d - c) <= Place(a.system, BaseYear(a), d)
    BY <1>1, <2>1, PlacesSpan
  <2> QED
    BY <2>1, <2>2, <2>3
<1>5. MonthDay(a, 0) = Place(a.system, BaseYear(a), Base(a))
  <2>1. Base(a) + 30 * 0 = Base(a)
    BY <1>1
  <2> QED
    BY <2>1 DEF MonthDay
<1>6. DeathDay(a) <= MonthDay(a, 0)
  <2>1. CASE Gatha(a)
    <3>1. Base(a) = 0 /\ DeathDay(a) < Place(a.system, BaseYear(a), 0)
      BY <2>1, BaseIs, DeathPlace
    <3>2. MonthDay(a, 0) \in Int
      BY <1>3
    <3> QED
      BY <1>1, <1>5, <3>1, <3>2
  <2>2. CASE ~Gatha(a)
    BY <1>1, <1>5, <2>2, DeathPlace
  <2> QED
    BY <2>1, <2>2
<1> QED
  BY <1>3, <1>4, <1>6

\* The first anniversary is well after the sixth month.
LEMMA YearDayAfterHalf ==
    ASSUME NEW a, DeathGiven(a) PROVE YearDayOf(a, 1) \in Int /\ MonthDay(a, 6) + 100 <= YearDayOf(a, 1)
<1>1. CASE ~Gatha(a)
  <2>1. YearDayOf(a, 1) = MonthDay(a, 12 * 1)
    BY <1>1, YearDayIsFound
  <2>2. MonthDay(a, 6) \in Int /\ MonthDay(a, 12) \in Int /\ MonthDay(a, 6) + 30 * (12 - 6) <= MonthDay(a, 12)
    BY MonthsSpan
  <2> QED
    BY <2>1, <2>2
<1>2. CASE Gatha(a)
  <2>1. /\ a.system \in System /\ BaseYear(a) = a.year + 1 /\ a.year + 1 \in Int
        /\ Base(a) = 0
    BY <1>2, BaseIs
  <2>2. YearDayOf(a, 1) = GathaDay(a, a.year + 1)
    BY <1>2, YearDayIsFound
  <2> DEFINE g == IF a.roj <= MaxGatha(a.system, a.year + 1) THEN a.roj ELSE 5
  <2>3. /\ GathaDay(a, a.year + 1) = NewYearDay(a.system, a.year + 1) + 360 + g - 1
        /\ g \in 1 .. MaxGatha(a.system, a.year + 1)
    BY <1>2, <2>1, GathaDayIs
  <2>4. NewYearDay(a.system, a.year + 1) \in Int
    BY <2>1, NewYearDayIs
  <2>5. MonthDay(a, 6) = NewYearDay(a.system, a.year + 1) + 180
    <3>1. 180 \div 360 = 0 /\ 180 % 360 = 180 /\ Base(a) + 30 * 6 = 180 /\ a.year + 1 + 0 = a.year + 1
      BY <2>1
    <3> QED
      BY <2>1, <3>1 DEF MonthDay, Place
  <2> HIDE DEF g
  <2>6. g \in Int /\ 1 <= g
    BY <2>3
  <2> QED
    BY <2>2, <2>3, <2>4, <2>5, <2>6
<1> QED
  BY <1>1, <1>2

\* No two of the days that can be picked are one.
LEMMA ShownDaysDiffer ==
    ASSUME NEW a, DeathGiven(a)
    PROVE  /\ \A n \in Shown : ShownDay(a, n) \in Nat
           /\ \A m, n \in Shown : ShownDay(a, m) = ShownDay(a, n) => m = n
<1> DEFINE x == DeathDay(a)
           m1 == MonthDay(a, 1)
           m2 == MonthDay(a, 2)
           m6 == MonthDay(a, 6)
           y1 == YearDayOf(a, 1)
           D(n) == ShownDay(a, n)
<1>1. /\ x \in Int /\ 1000 < x /\ m1 \in Int /\ m2 \in Int /\ m6 \in Int /\ y1 \in Int
      /\ x + 30 <= m1 /\ m1 + 30 <= m2 /\ m2 + 120 <= m6 /\ m6 + 100 <= y1
  <2>1. /\ m1 \in Int /\ m2 \in Int /\ m6 \in Int /\ MonthDay(a, 0) \in Int
        /\ x <= MonthDay(a, 0) /\ MonthDay(a, 0) + 30 * (1 - 0) <= m1
        /\ m1 + 30 * (2 - 1) <= m2 /\ m2 + 30 * (6 - 2) <= m6
    <3>1. /\ \A k \in Nat : MonthDay(a, k) \in Int
          /\ \A j, k \in Nat : j <= k => MonthDay(a, j) + 30 * (k - j) <= MonthDay(a, k)
          /\ DeathDay(a) <= MonthDay(a, 0)
      BY MonthsSpan
    <3>2. MonthDay(a, 0) + 30 * (1 - 0) <= MonthDay(a, 1)
      BY ONLY <3>1
    <3>3. MonthDay(a, 1) + 30 * (2 - 1) <= MonthDay(a, 2)
      BY ONLY <3>1
    <3>4. MonthDay(a, 2) + 30 * (6 - 2) <= MonthDay(a, 6)
      BY ONLY <3>1
    <3> QED
      BY <3>1, <3>2, <3>3, <3>4
  <2>2. x \in Int /\ 1000 < x /\ y1 \in Int /\ m6 + 100 <= y1
    BY DeathDayIs, YearDayAfterHalf
  <2> HIDE DEF x, m1, m2, m6, y1
  <2> QED
    BY <2>1, <2>2
<1>2. /\ \A n \in 5 .. 10 : D(n) = x + n - 1
      /\ D(30) = m1 /\ D(29) = m1 - 1 /\ D(60) = m2 /\ D(59) = m2 - 1
      /\ D(180) = m6 /\ D(179) = m6 - 1 /\ D(360) = y1 /\ D(359) = y1 - 1
  BY ShownDayIs
<1> HIDE DEF x, m1, m2, m6, y1, D
<1>3. \A n \in Shown : D(n) \in Nat
  BY <1>1, <1>2 DEF Shown
<1>4. ASSUME NEW m \in Shown, NEW n \in Shown, m < n PROVE D(m) < D(n)
  <2>1. CASE n \in 5 .. 10
    <3>1. m \in 5 .. 10
      BY <1>4, <2>1 DEF Shown
    <3> QED
      BY <1>1, <1>2, <1>4, <2>1, <3>1
  <2>2. ASSUME NEW k \in Shown PROVE D(k) <= x + 9 \/ D(k) \in {m1 - 1, m1, m2 - 1, m2, m6 - 1, m6, y1 - 1, y1}
    BY <1>1, <1>2 DEF Shown
  <2>3. CASE n \in {29, 30, 59, 60, 179, 180, 359, 360}
    <3>1. CASE m \in 5 .. 10
      <4>1. D(m) <= x + 9
        BY <1>1, <1>2, <3>1
      <4>2. x + 29 <= D(n)
        BY <1>1, <1>2, <2>3
      <4> QED
        BY <1>1, <1>3, <4>1, <4>2
    <3>2. CASE m \in {29, 30, 59, 60, 179, 180, 359, 360}
      BY <1>1, <1>2, <1>4, <2>3, <3>2
    <3> QED
      BY <3>1, <3>2 DEF Shown
  <2> QED
    BY <2>1, <2>3 DEF Shown
<1>5. \A n \in Shown : n \in Int
  BY DEF Shown
<1>6. ASSUME NEW m \in Shown, NEW n \in Shown, D(m) = D(n) PROVE m = n
  BY <1>3, <1>4, <1>5, <1>6
<1> QED
  BY <1>3, <1>6 DEF D

\* The schedule of every day that can be picked.
LEMMA EveryDayIsShown ==
    ASSUME NEW b, Memorial(b), b.opening = "days_5_to_9", b.named = NamedDays, b.months = 0,
           b.years = 0, b.parabs = "none", b.fravardin = 0, b.birthday = <<>>
    PROVE  {<<o.code, o.day>> : o \in BuildSchedule(b)}
               = {<<<<"day", n>>, ShownDay(b, n)>> : n \in {m \in Shown : ShownDay(b, m) >= b.from}}
<1>1. DeathGiven(b) /\ ChoiceMade(b)
  BY DEF Memorial
<1>2. Literal(b) = 5 .. 10
  <2>1. NamedDays \cap {10} = {10}
    BY DEF NamedDays
  <2>2. (5 .. 9) \cup {10} = 5 .. 10
    OBVIOUS
  <2> QED
    BY <2>1, <2>2, LiteralIs
<1>3. YearsOf(b) = {} /\ MonthsOf(b) = {}
  BY DEF YearsOf, MonthsOf
<1>4. Parabs(b) = {} /\ Birthdays(b) = {}
  BY DEF Parabs, Birthdays
<1>5. FravardinRojs(b) = {}
  <2> SUFFICES ASSUME NEW o \in FravardinRojs(b) PROVE FALSE
    OBVIOUS
  <2> DEFINE S == Ahead(b, {p \in {[kind |-> "fravardin", code |-> <<"fravardin", y, mah>>,
                          day |-> On(b, y, mah, FravardinRoj)] :
                          y \in b.year .. b.year + b.fravardin \div 12 + 2 + Gone(b), mah \in 1 .. 12} :
                          p.day > DeathDay(b)})
             T == {p \in S : p.day < o.day}
  <2>1. Cardinality(T) < 0
    BY DEF FravardinRojs, TimesOf, FirstOf
  <2>2. IsFiniteSet(T)
    <3> DEFINE A == b.year
               B == b.year + b.fravardin \div 12 + 2 + Gone(b)
               G == (A .. B) \X (1 .. 12)
               f == [z \in G |-> [kind |-> "fravardin", code |-> <<"fravardin", z[1], z[2]>>,
                          day |-> On(b, z[1], z[2], FravardinRoj)]]
    <3>1. IsFiniteSet(G)
      <4>1. A \in Int /\ B \in Int /\ 1 \in Int /\ 12 \in Int
        <5>1. b.year \in Nat /\ Gone(b) \in Nat /\ 0 \div 12 = 0
          BY <1>1, GoneIs DEF DeathGiven
        <5> QED
          BY <5>1
      <4> HIDE DEF A, B
      <4> QED
        BY <4>1, GridIsFinite
    <3>2. f = [z \in G |-> f[z]]
      OBVIOUS
    <3>3. ASSUME NEW t \in T PROVE \E z \in G : t = f[z]
      <4>1. PICK y \in A .. B, mah \in 1 .. 12 :
                t = [kind |-> "fravardin", code |-> <<"fravardin", y, mah>>, day |-> On(b, y, mah, FravardinRoj)]
        BY DEF Ahead, T, S, A, B
      <4>2. <<y, mah>> \in G
        OBVIOUS
      <4>3. f[<<y, mah>>] = [kind |-> "fravardin", code |-> <<"fravardin", y, mah>>, day |-> On(b, y, mah, FravardinRoj)]
        BY <4>2, SMTT(30)
      <4> HIDE DEF f, G
      <4> QED
        BY <4>1, <4>2, <4>3
    <3> HIDE DEF G, f, T
    <3> QED
      BY <3>1, <3>2, <3>3, ImageIsFinite
  <2> HIDE DEF T
  <2>3. Cardinality(T) \in Nat
    BY <2>2, FS_CardinalityType
  <2> QED
    BY <2>1, <2>3
<1>6. Ranked(b) = Claims(b)
  BY <1>4, <1>5 DEF Ranked
<1>7. ASSUME NEW n
      PROVE  (\E c \in Chosen(b) : c.code = <<"day", n>>) <=> n \in Shown
  <2>1. n \in Shown <=> n \in Literal(b) \/ n \in b.named \ {10}
    BY <1>2 DEF Shown, NamedDays
  <2>2. ASSUME NEW c \in Chosen(b), c.code = <<"day", n>> PROVE n \in Literal(b) \cup (b.named \ {10})
    <3>1. PICK m \in Literal(b) \cup (b.named \ {10}) : c.code = <<"day", m>>
      BY DEF Chosen
    <3> QED
      BY <2>2, <3>1
  <2>3. ASSUME n \in Literal(b) PROVE \E c \in Chosen(b) : c.code = <<"day", n>>
    <3>1. [key |-> <<"lit", n>>, code |-> <<"day", n>>] \in Chosen(b)
      BY <2>3 DEF Chosen
    <3> QED
      BY <3>1
  <2>4. ASSUME n \in b.named \ {10} PROVE \E c \in Chosen(b) : c.code = <<"day", n>>
    <3>1. [key |-> KeyOfNamed(b, n), code |-> <<"day", n>>] \in Chosen(b)
      BY <2>4 DEF Chosen
    <3> QED
      BY <3>1
  <2> QED
    BY <2>1, <2>2, <2>3, <2>4
<1>8. ASSUME NEW c \in Chosen(b)
      PROVE  /\ c.key = KeyUnder(b, c.code) /\ \E n \in Shown : c.code = <<"day", n>>
  <2>1. c = [key |-> KeyUnder(b, c.code), code |-> c.code]
    BY ClaimIsNamed
  <2>2. \E n : c.code = <<"day", n>>
    BY DEF Chosen
  <2> QED
    BY <2>1, <2>2, <1>7
<1>9. Claims(b) = {o \in {[kind |-> c.key[1], code |-> c.code, day |-> Resolve(b, c.key)] : c \in Chosen(b)} : o.day >= b.from}
  <2>1. KeysOf({} \cup {}) = {} /\ {c \in {} : c.key \notin KeysOf(Chosen(b))} = {}
    BY DEF KeysOf
  <2> QED
    BY <1>3, <2>1 DEF Claims, Claimed, Rows, KeysOf
<1>10. ASSUME NEW o \in Claims(b)
       PROVE  \E n \in Shown : o.code = <<"day", n>> /\ o.day = ShownDay(b, n) /\ o.day >= b.from
  <2>1. PICK c \in Chosen(b) : o = [kind |-> c.key[1], code |-> c.code, day |-> Resolve(b, c.key)]
    BY <1>9
  <2> QED
    BY <1>8, <1>9, <2>1 DEF ShownDay
<1>11. ASSUME NEW n \in Shown, ShownDay(b, n) >= b.from
       PROVE  \E o \in Claims(b) : o.code = <<"day", n>> /\ o.day = ShownDay(b, n)
  <2>1. PICK c \in Chosen(b) : c.code = <<"day", n>>
    BY <1>7
  <2>2. Resolve(b, c.key) = ShownDay(b, n)
    BY <1>8, <2>1 DEF ShownDay
  <2> DEFINE o == [kind |-> c.key[1], code |-> c.code, day |-> Resolve(b, c.key)]
  <2>3. o.day = ShownDay(b, n) /\ o.code = <<"day", n>>
    BY <2>1, <2>2
  <2>4. o \in Claims(b)
    BY <1>9, <1>11, <2>3
  <2> QED
    BY <2>3, <2>4
<1>12. BuildSchedule(b) = Claims(b)
  <2>1. BuildSchedule(b) = Best(Claims(b))
    BY <1>6 DEF BuildSchedule, Ranked
  <2>2. ASSUME NEW o \in Claims(b), NEW p \in Claims(b), p.day = o.day PROVE p = o
    <3>1. PICK n \in Shown : o.code = <<"day", n>> /\ o.day = ShownDay(b, n)
      BY <1>10
    <3>2. PICK m \in Shown : p.code = <<"day", m>> /\ p.day = ShownDay(b, m)
      BY <1>10
    <3>3. m = n
      BY <1>1, <2>2, <3>1, <3>2, ShownDaysDiffer
    <3>4. o = KeptUnder(b, o.code) /\ p = KeptUnder(b, p.code)
      BY <1>6, RankedIsNamed
    <3> QED
      BY <3>1, <3>2, <3>3, <3>4
  <2>3. ASSUME NEW o \in Claims(b) PROVE Rank(o.kind) \in Int
    <3>1. o.kind \in Kinds
      BY <1>6, RankedIsNamed
    <3> QED
      BY <3>1, RanksDiffer
  <2>4. \A o, p \in Claims(b) : ~Outranks(p, o)
    BY <2>2, <2>3 DEF Outranks
  <2> QED
    BY <2>1, <2>4 DEF Best
<1> QED
  BY <1>10, <1>11, <1>12

\* So what the form shows as over is what a schedule from today leaves out.
LEMMA PassedAreLeftOut ==
    ASSUME NEW a, Memorial(a), a.from # NoDay
    PROVE  {<<"day", n>> : n \in Pickable \ NamedDaysPassed(a, a.from, FALSE)}
            = {o.code : o \in BuildSchedule([EveryNamedDay(a) EXCEPT !.from = a.from])}
              \ {<<"day", n>> : n \in 5 .. 8}
<1> DEFINE e == EveryNamedDay(a)
           b == [e EXCEPT !.from = a.from]
<1>1. Pickable = {9, 10, 29, 30, 59, 60, 179, 180, 359, 360}
  BY NamedKeyIs DEF Pickable
<1>2. Pickable \ {9} = NamedDays /\ Pickable = Shown \ (5 .. 8)
  BY <1>1 DEF NamedDays, Shown
<1>3. DeathGiven(a) /\ ChoiceMade(a) /\ DeathFields \subseteq DOMAIN a /\ ChoiceFields \subseteq DOMAIN a
  BY DEF Memorial, DeathGiven, ChoiceMade
<1>4. /\ e.system = a.system /\ e.year = a.year /\ e.mah = a.mah /\ e.roj = a.roj /\ e.from = 0
      /\ e.opening = "days_5_to_9" /\ e.named = NamedDays /\ e.months = 0 /\ e.years = 0
      /\ e.parabs = "none" /\ e.fravardin = 0 /\ e.birthday = <<>> /\ e.parabYears = a.parabYears
      /\ e.parabCount = a.parabCount /\ e.birthdayYears = a.birthdayYears /\ DOMAIN e = DOMAIN a
  BY <1>2, <1>3 DEF EveryNamedDay, DeathFields, ChoiceFields, NoDay
<1> HIDE DEF e
<1>5. /\ b.system = a.system /\ b.year = a.year /\ b.mah = a.mah /\ b.roj = a.roj /\ b.from = a.from
      /\ b.opening = "days_5_to_9" /\ b.named = NamedDays /\ b.months = 0 /\ b.years = 0
      /\ b.parabs = "none" /\ b.fravardin = 0 /\ b.birthday = <<>> /\ b.parabYears = a.parabYears
      /\ b.parabCount = a.parabCount /\ b.birthdayYears = a.birthdayYears /\ DOMAIN b = DOMAIN a
  BY <1>3, <1>4 DEF DeathFields, ChoiceFields
<1> HIDE DEF b
<1>6. Memorial(e) /\ Memorial(b)
  BY <1>3, <1>4, <1>5 DEF Memorial, DeathGiven, ChoiceMade, Opening
<1>7. SameDeath(a, b) /\ SameDeath(a, e) /\ SameDeath(e, b)
  BY <1>4, <1>5 DEF SameDeath
<1> DEFINE D(n) == ShownDay(b, n)
<1>8. ASSUME NEW n \in Shown PROVE ShownDay(e, n) = D(n)
  <2>1. KeyUnder(e, <<"day", n>>) = KeyUnder(b, <<"day", n>>)
    BY <1>7, SameDates DEF KeyUnder
  <2>2. IsKey(KeyUnder(e, <<"day", n>>))
    <3>1. CASE n \in 5 .. 10
      BY <3>1 DEF KeyUnder, IsKey
    <3>2. CASE n \in {30, 60, 180, 360}
      BY <3>2, NamedKeyIs DEF KeyUnder, IsKey
    <3>3. CASE n \in {29, 59, 179, 359}
      BY <3>3, NamedKeyIs DEF KeyUnder, IsKey
    <3> QED
      BY <3>1, <3>2, <3>3 DEF Shown
  <2> QED
    BY <1>7, <2>1, <2>2, SameDates DEF ShownDay
<1>9. DeathGiven(b) /\ DeathGiven(e) /\ a.from \in Nat
  BY <1>3, <1>6 DEF Memorial, DeathGiven
<1>10. \A n \in Shown : D(n) \in Nat
  BY <1>9, ShownDaysDiffer
<1>11. {<<o.code, o.day>> : o \in BuildSchedule(b)}
           = {<<<<"day", n>>, ShownDay(b, n)>> : n \in {m \in Shown : ShownDay(b, m) >= b.from}}
  BY <1>5, <1>6, EveryDayIsShown
<1>12. {<<o.code, o.day>> : o \in BuildSchedule(e)}
           = {<<<<"day", n>>, ShownDay(e, n)>> : n \in {m \in Shown : ShownDay(e, m) >= e.from}}
  BY <1>4, <1>6, EveryDayIsShown
<1>13. NamedDaysPassed(a, a.from, FALSE) = {n \in Pickable : D(n) < a.from}
  <2> DEFINE passed(n) == \E o \in BuildSchedule(e) : o.code = <<"day", n>> /\ Over(o.day, a.from)
  <2>1. NamedDaysPassed(a, a.from, FALSE) = {n \in Pickable : passed(n)}
    BY DEF NamedDaysPassed, e
  <2>2. ASSUME NEW n \in Pickable, passed(n) PROVE D(n) < a.from
    <3>1. PICK o \in BuildSchedule(e) : o.code = <<"day", n>> /\ o.day < a.from
      BY <2>2 DEF Over
    <3>2. PICK m \in Shown : <<o.code, o.day>> = <<<<"day", m>>, ShownDay(e, m)>>
      BY <1>12
    <3> QED
      BY <1>8, <3>1, <3>2
  <2>3. ASSUME NEW n \in Pickable, D(n) < a.from PROVE passed(n)
    <3>1. n \in Shown /\ ShownDay(e, n) = D(n) /\ D(n) \in Nat /\ ShownDay(e, n) >= e.from
      BY <1>2, <1>4, <1>8, <1>10
    <3>2. \E o \in BuildSchedule(e) : <<o.code, o.day>> = <<<<"day", n>>, ShownDay(e, n)>>
      BY <1>12, <3>1
    <3> QED
      BY <2>3, <3>1, <3>2 DEF Over
  <2> HIDE DEF passed, D
  <2> QED
    BY <2>1, <2>2, <2>3
<1>14. {o.code : o \in BuildSchedule(b)} = {<<"day", n>> : n \in {m \in Shown : D(m) >= a.from}}
  <2>1. ASSUME NEW o \in BuildSchedule(b) PROVE \E n \in Shown : D(n) >= a.from /\ o.code = <<"day", n>>
    <3>1. <<o.code, o.day>> \in {<<<<"day", n>>, ShownDay(b, n)>> : n \in {m \in Shown : ShownDay(b, m) >= b.from}}
      BY <1>11
    <3>2. PICK n \in Shown : ShownDay(b, n) >= b.from /\ <<o.code, o.day>> = <<<<"day", n>>, ShownDay(b, n)>>
      BY <3>1
    <3> QED
      BY <1>5, <3>2
  <2>2. ASSUME NEW n \in Shown, D(n) >= a.from PROVE \E o \in BuildSchedule(b) : o.code = <<"day", n>>
    <3>1. \E o \in BuildSchedule(b) : <<o.code, o.day>> = <<<<"day", n>>, ShownDay(b, n)>>
      BY <1>5, <1>11, <2>2
    <3> QED
      BY <3>1
  <2> HIDE DEF D
  <2> QED
    BY <2>1, <2>2
<1>15. \A n \in Pickable : D(n) >= a.from <=> ~(D(n) < a.from)
  BY <1>2, <1>9, <1>10
<1>16. \A n, m : <<"day", n>> = <<"day", m>> => n = m
  OBVIOUS
<1>17. {<<"day", n>> : n \in Pickable \ {m \in Pickable : D(m) < a.from}}
           = {<<"day", n>> : n \in {m \in Shown : D(m) >= a.from}} \ {<<"day", n>> : n \in 5 .. 8}
  <2> HIDE DEF D
  <2>1. Pickable \ {m \in Pickable : D(m) < a.from} = {m \in Shown : D(m) >= a.from} \ (5 .. 8)
    BY <1>2, <1>15
  <2> QED
    BY <1>16, <2>1
<1>18. BuildSchedule([EveryNamedDay(a) EXCEPT !.from = a.from]) = BuildSchedule(b)
  BY DEF b, e
<1> HIDE DEF D
<1> QED
  BY <1>13, <1>14, <1>17, <1>18

\* The days the form shows as over are those a schedule from today leaves out, for
\* every death, choice and delay (named_days_passed against build_schedule).
THEOREM PassedDaysAreAlwaysLeftOut == Spec => []PassedDaysAreLeftOut
<1>1. AskInv => PassedDaysAreLeftOut
  <2> SUFFICES ASSUME AskInv, Entered, ask.from # NoDay PROVE PassedDaysAreLeftOut
    BY DEF PassedDaysAreLeftOut
  <2>1. Memorial(ask)
    BY DEF AskInv
  <2> QED
    BY <2>1, PassedAreLeftOut DEF PassedDaysAreLeftOut
<1> QED
  BY <1>1, AskIsTyped, PTL DEF Spec

-----------------------------------------------------------------------------
(***************************************************************************)
(* A series is a function of all numbers whose days ascend; its first days are *)
(* found by looking as they are by counting.                               *)
(***************************************************************************)

\* Days that follow one another, numbered.
Ascends(f) == f \in [Int -> Int] /\ \A j, k \in Int : j < k => f[j] < f[k]
Run(f, v, n) == {f[i] : i \in v .. v + n - 1}

\* They are n,
LEMMA RunIs ==
    ASSUME NEW f, Ascends(f), NEW v \in Int, NEW n \in Nat
    PROVE  IsFiniteSet(Run(f, v, n)) /\ Cardinality(Run(f, v, n)) = n
<1> DEFINE I == v .. v + n - 1
           R == Run(f, v, n)
           g == [i \in I |-> f[i]]
<1>1. IsFiniteSet(I) /\ Cardinality(I) = n
  <2>1. v + n - 1 \in Int
    OBVIOUS
  <2>2. IsFiniteSet(I) /\ Cardinality(I) = IF v > v + n - 1 THEN 0 ELSE v + n - 1 - v + 1
    BY <2>1, FS_Interval
  <2> HIDE DEF I
  <2> QED
    BY <2>2
<1>2. \A i \in I : i \in Int
  OBVIOUS
<1>3. R = {f[i] : i \in I}
  BY DEF Run
<1> HIDE DEF I, R
<1>4. g \in Surjection(I, R)
  BY <1>3 DEF Surjection
<1>5. g \in Injection(I, R)
  <2>1. \A i, j \in I : f[i] = f[j] => i = j
    <3> SUFFICES ASSUME NEW i \in I, NEW j \in I, f[i] = f[j], i # j PROVE FALSE
      OBVIOUS
    <3>1. i \in Int /\ j \in Int /\ f[i] \in Int /\ f[j] \in Int
      BY <1>2 DEF Ascends
    <3>2. i < j \/ j < i
      BY <3>1
    <3> QED
      BY <3>1, <3>2 DEF Ascends
  <2> QED
    BY <1>3, <2>1 DEF Injection, IsInjective
<1> HIDE DEF g
<1>6. IsFiniteSet(R) /\ (Cardinality(R) = Cardinality(I) <=> g \in Injection(I, R))
  BY ONLY <1>1, <1>4, FS_Surjection
<1> QED
  BY <1>1, <1>5, <1>6 DEF R

\* The first n of them, where all of the first n are there.
LEMMA FirstOfRun ==
    ASSUME NEW f, Ascends(f), NEW v \in Int, NEW n \in Nat, NEW T, IsFiniteSet(T),
           \A d \in T : \E k \in Int : v <= k /\ d = f[k],
           Run(f, v, n) \subseteq T
    PROVE  {d \in T : Cardinality({e \in T : e < d}) < n} = Run(f, v, n)
<1> DEFINE B(d) == {e \in T : e < d}
<1>1. ASSUME NEW d \in T PROVE IsFiniteSet(B(d)) /\ Cardinality(B(d)) \in Nat
  <2> DEFINE S == B(d)
  <2>1. S \in SUBSET T
    OBVIOUS
  <2> HIDE DEF S
  <2>2. IsFiniteSet(S)
    BY <2>1, FS_Subset
  <2>3. Cardinality(S) \in Nat
    BY <2>2, FS_CardinalityType
  <2> QED
    BY <2>2, <2>3 DEF S
<1>2. ASSUME NEW k \in Int, v <= k, k < v + n, f[k] \in T PROVE Cardinality(B(f[k])) < n
  <2> DEFINE m == k - v
             S == B(f[k])
  <2>1. m \in Nat /\ m < n /\ v + m - 1 = k - 1
    BY <1>2
  <2>2. S \in SUBSET Run(f, v, m)
    <3> SUFFICES ASSUME NEW e \in T, e < f[k] PROVE e \in Run(f, v, m)
      OBVIOUS
    <3>1. PICK j \in Int : v <= j /\ e = f[j]
      OBVIOUS
    <3>2. j < k
      <4>1. f[j] \in Int /\ f[k] \in Int
        BY DEF Ascends
      <4>2. CASE k < j
        <5>1. f[k] < f[j]
          BY <1>2, <4>2 DEF Ascends
        <5> QED
          BY <3>1, <4>1, <5>1
      <4>3. CASE k = j
        BY <3>1, <4>1, <4>3
      <4> QED
        BY <1>2, <4>2, <4>3
    <3>3. j \in v .. v + m - 1
      BY <1>2, <2>1, <3>1, <3>2
    <3> QED
      BY <3>1, <3>3 DEF Run
  <2> HIDE DEF S, m
  <2>3. IsFiniteSet(Run(f, v, m)) /\ Cardinality(Run(f, v, m)) = m
    BY <2>1, RunIs
  <2>4. Cardinality(S) <= m
    BY <2>2, <2>3, FS_Subset
  <2>5. Cardinality(S) \in Nat
    BY <1>1, <1>2 DEF S
  <2> QED
    BY <2>1, <2>4, <2>5 DEF S
<1>3. ASSUME NEW k \in Int, v + n <= k, f[k] \in T PROVE n <= Cardinality(B(f[k]))
  <2> DEFINE S == B(f[k])
             R == Run(f, v, n)
  <2>1. R \in SUBSET S
    <3> SUFFICES ASSUME NEW i \in v .. v + n - 1 PROVE f[i] \in T /\ f[i] < f[k]
      BY DEF Run
    <3>1. f[i] \in T
      BY DEF Run
    <3>2. i < k /\ i \in Int
      BY <1>3
    <3> QED
      BY <1>3, <3>1, <3>2 DEF Ascends
  <2>2. IsFiniteSet(S) /\ Cardinality(S) \in Nat
    BY <1>1, <1>3
  <2>3. Cardinality(R) = n
    BY RunIs
  <2> HIDE DEF S, R
  <2>4. Cardinality(R) <= Cardinality(S)
    BY <2>1, <2>2, FS_Subset
  <2> QED
    BY <2>3, <2>4 DEF S
<1>4. ASSUME NEW d \in T, Cardinality(B(d)) < n PROVE d \in Run(f, v, n)
  <2>1. PICK k \in Int : v <= k /\ d = f[k]
    OBVIOUS
  <2> DEFINE c == Cardinality(B(f[k]))
  <2>2. c \in Nat /\ c < n
    BY <1>1, <1>4, <2>1
  <2>3. ~(v + n <= k)
    <3> SUFFICES ASSUME v + n <= k PROVE FALSE
      OBVIOUS
    <3>1. n <= c
      BY <1>3, <2>1
    <3> HIDE DEF c
    <3> QED
      BY <2>2, <3>1
  <2>4. k \in v .. v + n - 1
    BY <2>1, <2>3
  <2> QED
    BY <2>1, <2>4 DEF Run
<1>5. ASSUME NEW d \in Run(f, v, n) PROVE d \in T /\ Cardinality(B(d)) < n
  <2>1. PICK k \in v .. v + n - 1 : d = f[k]
    BY DEF Run
  <2>2. k \in Int /\ v <= k /\ k < v + n /\ d \in T
    BY <2>1
  <2> QED
    BY <1>2, <2>1, <2>2
<1> HIDE DEF B
<1>6. {d \in T : Cardinality(B(d)) < n} = Run(f, v, n)
  BY <1>4, <1>5
<1> QED
  BY <1>6 DEF B

\* The nth of them.
LEMMA NthOfRun ==
    ASSUME NEW f, Ascends(f), NEW v \in Int, NEW n \in Nat \ {0}, NEW T, IsFiniteSet(T),
           \A d \in T : \E k \in Int : v <= k /\ d = f[k],
           Run(f, v, n) \subseteq T
    PROVE  Nth(n, T) = f[v + n - 1]
<1> DEFINE U(d) == {e \in T : e <= d}
           w == v + n - 1
<1>0. w \in Int /\ w + 1 = v + n
  OBVIOUS
<1>1. ASSUME NEW k \in Int, v <= k, k <= w, f[k] \in T PROVE U(f[k]) = Run(f, v, k - v + 1)
  <2> SUFFICES ASSUME NEW e PROVE e \in T /\ e <= f[k] <=> e \in Run(f, v, k - v + 1)
    OBVIOUS
  <2>0. v + (k - v + 1) - 1 = k /\ f[k] \in Int
    BY DEF Ascends
  <2>1. ASSUME e \in T, e <= f[k] PROVE e \in Run(f, v, k - v + 1)
    <3>1. PICK j \in Int : v <= j /\ e = f[j]
      BY <2>1
    <3>2. j <= k
      <4> SUFFICES ASSUME k < j PROVE FALSE
        OBVIOUS
      <4>1. f[k] < f[j] /\ f[j] \in Int
        BY DEF Ascends
      <4> QED
        BY <2>0, <2>1, <3>1, <4>1
    <3>3. j \in v .. v + (k - v + 1) - 1
      BY <2>0, <3>1, <3>2
    <3> QED
      BY <3>1, <3>3 DEF Run
  <2>2. ASSUME e \in Run(f, v, k - v + 1) PROVE e \in T /\ e <= f[k]
    <3>1. PICK j \in v .. v + (k - v + 1) - 1 : e = f[j]
      BY <2>2 DEF Run
    <3>2. j \in Int /\ j <= k /\ j \in v .. v + n - 1
      BY <1>1, <2>0, <3>1
    <3>3. f[j] \in T
      BY <3>2 DEF Run
    <3>4. j = k \/ f[j] < f[k]
      BY <3>2 DEF Ascends
    <3>5. f[j] \in Int
      BY <3>2 DEF Ascends
    <3> QED
      BY <2>0, <3>1, <3>3, <3>4, <3>5
  <2> QED
    BY <2>1, <2>2
<1>2. ASSUME NEW k \in Int, v <= k, k <= w, f[k] \in T PROVE Cardinality(U(f[k])) = k - v + 1
  <2>1. k - v + 1 \in Nat
    BY <1>2
  <2> HIDE DEF U
  <2> QED
    BY <1>1, <1>2, <2>1, RunIs
<1>3. ASSUME NEW k \in Int, w < k, f[k] \in T PROVE Cardinality(U(f[k])) # n
  <2> DEFINE S == U(f[k])
             R == Run(f, v, n)
  <2>1. R \in SUBSET S /\ f[k] \notin R
    <3>1. ASSUME NEW i \in v .. v + n - 1 PROVE f[i] \in T /\ f[i] < f[k] /\ f[i] \in Int /\ f[k] \in Int
      <4>1. f[i] \in T
        BY DEF Run
      <4>2. i < k /\ i \in Int
        BY <1>0, <1>3
      <4> QED
        BY <1>3, <4>1, <4>2 DEF Ascends
    <3>2. \A i \in v .. v + n - 1 : f[i] # f[k] /\ f[i] \in T /\ f[i] <= f[k]
      BY <3>1
    <3> QED
      BY <3>2 DEF Run
  <2>2. f[k] \in S
    <3>1. f[k] \in Int
      BY <1>3 DEF Ascends
    <3> QED
      BY <1>3, <3>1
  <2>3. S \in SUBSET T
    OBVIOUS
  <2>4. Cardinality(R) = n
    BY RunIs
  <2> HIDE DEF S, R
  <2>5. IsFiniteSet(S)
    BY <2>3, FS_Subset
  <2>6. Cardinality(S) = Cardinality(R) => S = R
    BY <2>1, <2>5, FS_Subset
  <2> QED
    BY <2>1, <2>2, <2>4, <2>6 DEF S
<1>4. f[w] \in T /\ Cardinality(U(f[w])) = n
  <2>1. w \in v .. v + n - 1 /\ v <= w /\ w - v + 1 = n
    OBVIOUS
  <2>2. f[w] \in T
    BY <2>1 DEF Run
  <2> HIDE DEF U, w
  <2> QED
    BY <1>0, <1>2, <2>1, <2>2
<1>5. ASSUME NEW d \in T, Cardinality(U(d)) = n PROVE d = f[w]
  <2>1. PICK k \in Int : v <= k /\ d = f[k]
    OBVIOUS
  <2>2. ~(w < k)
    BY <1>3, <1>5, <2>1
  <2> HIDE DEF U, w
  <2>3. k <= w
    BY <1>0, <2>2
  <2>4. Cardinality(U(f[k])) = k - v + 1
    BY <1>2, <2>1, <2>3
  <2>5. k = w
    BY <1>0, <1>5, <2>1, <2>4
  <2> QED
    BY <2>1, <2>5
<1> HIDE DEF U, w
<1>6. (CHOOSE d \in T : Cardinality(U(d)) = n) = f[w]
  BY <1>4, <1>5
<1> QED
  BY <1>6 DEF Nth, U, w

\* The first n of what is observed are those on the first n days.
LEMMA FirstByDay ==
    ASSUME NEW obs, IsFiniteSet(obs), \A o, p \in obs : o.day = p.day => o = p, NEW n \in Nat
    PROVE  LET days == DaysOf(obs)
           IN  /\ IsFiniteSet(days)
               /\ DaysOf(FirstOf(n, obs)) = {d \in days : Cardinality({e \in days : e < d}) < n}
<1> DEFINE days == DaysOf(obs)
           B(d) == {p \in obs : p.day < d}
           D(d) == {e \in days : e < d}
<1>1. ASSUME NEW S \in SUBSET obs PROVE IsFiniteSet(DaysOf(S)) /\ Cardinality(DaysOf(S)) = Cardinality(S)
  <2> DEFINE R == DaysOf(S)
             g == [p \in S |-> p.day]
  <2>1. IsFiniteSet(S)
    BY FS_Subset
  <2>2. g \in Surjection(S, R)
    BY DEF Surjection, DaysOf
  <2>3. g \in Injection(S, R)
    BY DEF Injection, IsInjective, DaysOf
  <2> HIDE DEF g, R
  <2>4. IsFiniteSet(R) /\ (Cardinality(R) = Cardinality(S) <=> g \in Injection(S, R))
    BY ONLY <2>1, <2>2, FS_Surjection
  <2> QED
    BY <2>3, <2>4 DEF R
<1>2. ASSUME NEW d PROVE Cardinality(D(d)) = Cardinality(B(d))
  <2>1. D(d) = DaysOf(B(d))
    BY DEF DaysOf
  <2>2. B(d) \in SUBSET obs
    OBVIOUS
  <2> HIDE DEF B, D
  <2> QED
    BY <1>1, <2>1, <2>2
<1>3. IsFiniteSet(days)
  BY <1>1
<1>4. FirstOf(n, obs) = {o \in obs : Cardinality(B(o.day)) < n}
  BY DEF FirstOf
<1> HIDE DEF B, D
<1>5. DaysOf({o \in obs : Cardinality(B(o.day)) < n}) = {d \in days : Cardinality(D(d)) < n}
  BY <1>2 DEF DaysOf
<1> QED
  BY <1>3, <1>4, <1>5 DEF D

-----------------------------------------------------------------------------
(***************************************************************************)
(* The days of the places, and the days that are looked at.                *)
(***************************************************************************)

\* The day at a place of the cycle that counting a death's days starts from.
DayAt(a, c) == Place(a.system, BaseYear(a), c)
MahAt(c) == (c % 360) \div 30 + 1
RojAt(c) == ((c % 360) % 30) + 1

\* Day y is no further from day x than n places can be, with the Gatha days between.
Near(x, y, n) == 360 * y <= 360 * x + 366 * n + 2154

\* The days of two places are as far apart, and not much further.
LEMMA PlacesApart ==
    ASSUME NEW a, DeathGiven(a), NEW c \in Int, NEW d \in Int
    PROVE  /\ DayAt(a, c) \in Int /\ DayAt(a, d) \in Int
           /\ c <= d => DayAt(a, c) + (d - c) <= DayAt(a, d) /\ Near(DayAt(a, c), DayAt(a, d), d - c)
<1>1. a.system \in System /\ BaseYear(a) \in Int
  BY BaseIs
<1>2. DayAt(a, c) \in Int /\ DayAt(a, d) \in Int
  BY <1>1, PlaceIs DEF DayAt
<1>3. c <= d => DayAt(a, c) + (d - c) <= DayAt(a, d) /\ Near(DayAt(a, c), DayAt(a, d), d - c)
  BY <1>1, PlacesSpan DEF DayAt, Near
<1> QED
  BY <1>2, <1>3

\* A place has a day.
LEMMA PlaceHasDay == ASSUME NEW a, DeathGiven(a), NEW c \in Int PROVE DayAt(a, c) \in Int
BY BaseIs, PlaceIs DEF DayAt

\* The days are in the order of the places.
LEMMA PlacesInOrder ==
    ASSUME NEW a, DeathGiven(a), NEW c \in Int, NEW d \in Int
    PROVE  (DayAt(a, c) < DayAt(a, d) <=> c < d) /\ (DayAt(a, c) = DayAt(a, d) => c = d)
<1>1. /\ DayAt(a, c) \in Int /\ DayAt(a, d) \in Int
      /\ c <= d => DayAt(a, c) + (d - c) <= DayAt(a, d)
      /\ d <= c => DayAt(a, d) + (c - d) <= DayAt(a, c)
  BY PlacesApart
<1> QED
  BY <1>1

\* What a number is divided into.
LEMMA Divided ==
    ASSUME NEW q \in Int, NEW n \in Nat \ {0}, NEW v \in Int, 0 <= v, v < n, NEW c, c = n * q + v
    PROVE  c \div n = q /\ c % n = v
<1>1. c \in Int /\ n \in Int /\ 0 < n
  OBVIOUS
<1>2. c = n * (c \div n) + (c % n) /\ c \div n \in Int /\ c % n \in 0 .. n - 1
  BY <1>1
<1> DEFINE p == c \div n
           w == c % n
<1> HIDE DEF p, w
<1>3. n * (p - q) = v - w /\ p \in Int /\ w \in Int /\ v - w < n /\ -n < v - w
  BY <1>1, <1>2 DEF p, w
<1>4. p = q
  <2>1. CASE p - q >= 1
    BY <1>1, <1>3, <2>1
  <2>2. CASE p - q <= -1
    BY <1>1, <1>3, <2>2
  <2> QED
    BY <1>3, <2>1, <2>2
<1> QED
  BY <1>1, <1>3, <1>4 DEF p, w

\* The day of a place is read as its Mah and Roj in its year,
LEMMA PlaceIsRead ==
    ASSUME NEW a, DeathGiven(a), NEW c \in Int, 0 < DayAt(a, c)
    PROVE  GregorianToParsi(DayAt(a, c), a.system) = <<BaseYear(a) + c \div 360, MahAt(c), RojAt(c)>>
<1>1. a.system \in System /\ BaseYear(a) \in Int
  BY BaseIs
<1>2. /\ c \div 360 \in Int /\ c % 360 \in 0 .. 359
      /\ ParsiToGregorian(BaseYear(a) + c \div 360, a.system, (c % 360) \div 30 + 1, ((c % 360) % 30) + 1) = DayAt(a, c)
      /\ DayAt(a, c) \in Int
  BY <1>1, PlaceIs DEF DayAt
<1> DEFINE y == BaseYear(a) + c \div 360
           m == (c % 360) \div 30 + 1
           r == ((c % 360) % 30) + 1
<1>3. y \in Int /\ m \in 1 .. 12 /\ r \in 1 .. 30
  BY <1>1, <1>2
<1>4. ParsiToGregorian(y, a.system, m, r) = DayAt(a, c)
  BY <1>2
<1> HIDE DEF y, m, r
<1>5. m \in Int /\ r \in Int /\ Exists(a.system, y, m, r)
  BY <1>3 DEF Exists, DaysPerMonth
<1>6. DayAt(a, c) \in Nat \ {0}
  BY <1>2
<1>7. GregorianToParsi(ParsiToGregorian(y, a.system, m, r), a.system) = <<y, m, r>>
  BY <1>1, <1>3, <1>4, <1>5, <1>6, DateIsRead
<1> QED
  BY <1>4, <1>7 DEF y, m, r, MahAt, RojAt

\* The place of a date.
PlaceOf(a, y, m, r) == 360 * (y - BaseYear(a)) + 30 * (m - 1) + (r - 1)

\* a date of the twelve Mahs is the day of its place,
LEMMA DateIsPlaced ==
    ASSUME NEW a, DeathGiven(a), NEW y \in Int, NEW m \in Int, NEW r \in Int,
           m \in 1 .. 12, r \in 1 .. 30
    PROVE  LET c == PlaceOf(a, y, m, r)
           IN  /\ c \in Int /\ DayAt(a, c) = ParsiToGregorian(y, a.system, m, r)
               /\ MahAt(c) = m /\ RojAt(c) = r /\ BaseYear(a) + c \div 360 = y
<1> DEFINE c == PlaceOf(a, y, m, r)
<1>0. c = 360 * (y - BaseYear(a)) + 30 * (m - 1) + (r - 1)
  BY DEF PlaceOf
<1> HIDE DEF c
<1>1. a.system \in System /\ BaseYear(a) \in Int
  BY BaseIs
<1>2. c \in Int /\ c \div 360 = y - BaseYear(a) /\ c % 360 = 30 * (m - 1) + (r - 1)
  <2>1. /\ y - BaseYear(a) \in Int /\ 30 * (m - 1) + (r - 1) \in Int
        /\ 0 <= 30 * (m - 1) + (r - 1) /\ 30 * (m - 1) + (r - 1) < 360
        /\ c = 360 * (y - BaseYear(a)) + (30 * (m - 1) + (r - 1))
    BY <1>0, <1>1
  <2>2. c \in Int
    BY <2>1
  <2>3. 360 \in Nat \ {0}
    OBVIOUS
  <2> QED
    BY <2>1, <2>2, <2>3, Divided
<1>3. (c % 360) \div 30 = m - 1 /\ (c % 360) % 30 = r - 1
  <2>1. ASSUME NEW v, v = 30 * (m - 1) + (r - 1) PROVE v \div 30 = m - 1 /\ v % 30 = r - 1
    BY <2>1
  <2> QED
    BY <1>2, <2>1
<1>4. BaseYear(a) + c \div 360 = y
  BY <1>1, <1>2
<1>5. ParsiToGregorian(BaseYear(a) + c \div 360, a.system, (c % 360) \div 30 + 1, ((c % 360) % 30) + 1) = Place(a.system, BaseYear(a), c)
  BY <1>1, <1>2, PlaceIs
<1>6. MahAt(c) = m /\ RojAt(c) = r
  BY <1>3 DEF MahAt, RojAt
<1> QED
  BY <1>2, <1>4, <1>5, <1>6 DEF DayAt, MahAt, RojAt, c

\* and a day that is read as one is the day of a place.
LEMMA DayIsPlaced ==
    ASSUME NEW a, DeathGiven(a), NEW d \in Nat \ {0}, GregorianToParsi(d, a.system)[2] <= 12
    PROVE  \E c \in Int : /\ d = DayAt(a, c) /\ GregorianToParsi(d, a.system)[2] = MahAt(c)
                          /\ GregorianToParsi(d, a.system)[3] = RojAt(c)
<1>1. a.system \in System /\ d \in Int /\ 0 < d
  BY BaseIs
<1>2. PICK y \in Int, m \in 1 .. 13, r \in 1 .. 30 :
          /\ GregorianToParsi(d, a.system) = <<y, m, r>>
          /\ Exists(a.system, y, m, r) /\ ParsiToGregorian(y, a.system, m, r) = d
          /\ NewYearDay(a.system, y) <= d /\ d < NewYearDay(a.system, y + 1)
  BY <1>1, DayHasDate
<1>3. m \in 1 .. 12
  BY <1>2
<1> DEFINE c == PlaceOf(a, y, m, r)
<1>4. c \in Int /\ DayAt(a, c) = ParsiToGregorian(y, a.system, m, r) /\ MahAt(c) = m /\ RojAt(c) = r
  <2>1. y \in Int /\ m \in Int /\ r \in Int /\ r \in 1 .. 30
    BY <1>2
  <2> QED
    BY ONLY DeathGiven(a), <1>3, <2>1, DateIsPlaced
<1> HIDE DEF c
<1> QED
  BY <1>2, <1>4

\* The days after a death are at the places after the one it has.
LEMMA AfterTheDeath ==
    ASSUME NEW a, DeathGiven(a)
    PROVE  /\ Start(a) \in Int /\ -1 <= Start(a) /\ Start(a) <= 359 /\ DayAt(a, Start(a)) <= DeathDay(a)
           /\ \A c \in Int : DeathDay(a) < DayAt(a, c) <=> Start(a) < c
<1>0. DeathDay(a) \in Int
  BY DeathDayIs
<1>a. \A c \in Int : DayAt(a, c) \in Int
  BY PlacesApart
<1>b. \A c, d \in Int : DayAt(a, c) < DayAt(a, d) <=> c < d
  BY PlacesInOrder
<1>1. /\ \A c \in Int : DayAt(a, c) \in Int
      /\ \A c, d \in Int : DayAt(a, c) < DayAt(a, d) <=> c < d
      /\ DeathDay(a) \in Int
  BY <1>0, <1>a, <1>b
<1>2. CASE ~Gatha(a)
  <2>1. Start(a) = Base(a) /\ Base(a) \in 0 .. 359 /\ DeathDay(a) = DayAt(a, Start(a))
    BY <1>2, BaseIs, DeathPlace DEF DayAt
  <2>3. \A c \in Int : DeathDay(a) < DayAt(a, c) <=> Start(a) < c
    <3>1. Start(a) \in Int
      BY <2>1
    <3> QED
      BY ONLY <1>1, <2>1, <3>1
  <2>4. Start(a) \in Int /\ -1 <= Start(a) /\ Start(a) <= 359
    BY <2>1
  <2>5. DayAt(a, Start(a)) <= DeathDay(a)
    BY <1>1, <2>1, <2>4
  <2> QED
    BY <2>3, <2>4, <2>5
<1>3. CASE Gatha(a)
  <2>1. /\ Start(a) = -1 /\ BaseYear(a) = a.year + 1 /\ a.year \in Int /\ a.system \in System
        /\ DeathDay(a) < DayAt(a, 0) /\ DayAt(a, 0) <= DeathDay(a) + 6
    BY <1>3, BaseIs, DeathPlace DEF DayAt
  <2>2. DayAt(a, -1) < DeathDay(a)
    <3>1. ASSUME NEW c \in Int, c = -1 PROVE DayAt(a, c) = NewYearDay(a.system, a.year) + 359
      <4>1. c \div 360 = -1 /\ c % 360 = 359
        <5>1. PICK q \in Int : q = -1
          OBVIOUS
        <5>2. c = 360 * q + 359
          BY <3>1, <5>1
        <5>3. c \div 360 = q /\ c % 360 = 359
          BY <5>2, Divided
        <5> QED
          BY <5>1, <5>3
      <4>2. BaseYear(a) + (c \div 360) = a.year
        BY <2>1, <4>1
      <4> QED
        BY <4>1, <4>2 DEF DayAt, Place
    <3>2. DayAt(a, -1) = NewYearDay(a.system, a.year) + 359
      <4>1. -1 \in Int
        OBVIOUS
      <4> QED
        BY <3>1, <4>1
    <3>3. DeathDay(a) = NewYearDay(a.system, a.year) + 30 * (a.mah - 1) + a.roj - 1
      BY <2>1, PlaceInYear DEF DeathDay, DeathGiven
    <3>4. a.mah = 13 /\ a.roj \in 1 .. 30 /\ NewYearDay(a.system, a.year) \in Int
      BY <1>3, <2>1, NewYearDayIs DEF Gatha, DeathGiven
    <3> QED
      BY <3>2, <3>3, <3>4
  <2>3. ASSUME NEW c \in Int PROVE DeathDay(a) < DayAt(a, c) <=> -1 < c
    <3>1. CASE -1 < c
      <4>1. c = 0 \/ DayAt(a, 0) < DayAt(a, c)
        BY <1>1, <3>1
      <4>2. DayAt(a, 0) \in Int /\ DayAt(a, c) \in Int
        BY <1>1
      <4> QED
        BY <1>1, <2>1, <3>1, <4>1, <4>2
    <3>2. CASE c <= -1
      <4>1. -1 \in Int /\ (c = -1 \/ DayAt(a, c) < DayAt(a, -1))
        BY <1>1, <3>2
      <4>2. DayAt(a, -1) \in Int /\ DayAt(a, c) \in Int
        BY <1>1, <4>1
      <4> QED
        BY <1>1, <2>2, <3>2, <4>1, <4>2
    <3> QED
      BY <3>1, <3>2
  <2>4. DayAt(a, -1) \in Int
    BY <1>1
  <2> QED
    BY <1>1, <2>1, <2>2, <2>3, <2>4
<1> QED
  BY <1>2, <1>3

\* The days that are looked at.
Began(a) == IF a.from = NoDay THEN DeathDay(a) ELSE a.from
LongestYears(a) == Max({1, a.years, a.parabYears, a.birthdayYears})
LongestMonths(a) == Max({12 * LongestYears(a), a.months, a.fravardin, 8 * a.parabCount})
LookTo(a) == Began(a) + 31 * (LongestMonths(a) + 2)

\* What Max picks.
LEMMA MaxIs ==
    ASSUME NEW w \in Int, NEW x \in Int, NEW y \in Int, NEW z \in Int
    PROVE  LET m == Max({w, x, y, z}) IN m \in Int /\ w <= m /\ x <= m /\ y <= m /\ z <= m
<1> DEFINE S == {w, x, y, z}
<1>1. \E m \in S : \A k \in S : m >= k
  <2>1. \E m \in {w, x} : w <= m /\ x <= m
    OBVIOUS
  <2>2. \E m \in {y, z} : y <= m /\ z <= m
    OBVIOUS
  <2>3. PICK p \in {w, x}, q \in {y, z} : w <= p /\ x <= p /\ y <= q /\ z <= q
    BY <2>1, <2>2
  <2>4. CASE p <= q
    BY <2>3, <2>4
  <2>5. CASE q <= p
    BY <2>3, <2>5
  <2> QED
    BY <2>3, <2>4, <2>5
<1> HIDE DEF S
<1>2. Max(S) \in S /\ \A k \in S : Max(S) >= k
  BY <1>1 DEF Max
<1> QED
  BY <1>2 DEF S

\* The days that are looked at go on for as many months as the longest series.
LEMMA LooksFarEnough ==
    ASSUME NEW a, Memorial(a), InReach(a)
    PROVE  /\ DaysToLookAt(a) = DeathDay(a) + 1 .. LookTo(a)
           /\ LookTo(a) \in Int /\ Began(a) \in Int /\ DeathDay(a) <= Began(a)
           /\ a.from \in Int /\ a.from <= Began(a)
           /\ \A k \in {12, 12 * a.years, 12 * a.parabYears, 12 * a.birthdayYears, a.months, a.fravardin,
                        8 * a.parabCount} : k \in Nat /\ Began(a) + 31 * (k + 2) <= LookTo(a)
<1>1. /\ DeathGiven(a) /\ a.years \in Nat /\ a.parabYears \in Nat /\ a.birthdayYears \in Nat
      /\ a.months \in Nat /\ a.fravardin \in Nat /\ a.parabCount \in Nat /\ a.from \in Nat
      /\ DeathDay(a) \in Int /\ 1000 < DeathDay(a)
  BY DeathDayIs DEF Memorial, ChoiceMade, DeathGiven
<1>2. Began(a) \in Int /\ DeathDay(a) <= Began(a) /\ a.from <= Began(a)
  BY <1>1 DEF Began, InReach, NoDay
<1>3. /\ LongestYears(a) \in Int /\ 1 <= LongestYears(a) /\ a.years <= LongestYears(a)
      /\ a.parabYears <= LongestYears(a) /\ a.birthdayYears <= LongestYears(a)
  <2>1. 1 \in Int /\ a.years \in Int /\ a.parabYears \in Int /\ a.birthdayYears \in Int
    BY <1>1
  <2> QED
    BY ONLY <2>1, MaxIs DEF LongestYears
<1>4. /\ LongestMonths(a) \in Int /\ 12 * LongestYears(a) <= LongestMonths(a) /\ a.months <= LongestMonths(a)
      /\ a.fravardin <= LongestMonths(a) /\ 8 * a.parabCount <= LongestMonths(a)
  <2>1. 12 * LongestYears(a) \in Int /\ 8 * a.parabCount \in Int /\ a.months \in Int /\ a.fravardin \in Int
    BY <1>1, <1>3
  <2> QED
    BY ONLY <2>1, MaxIs DEF LongestMonths
<1>5. DaysToLookAt(a) = DeathDay(a) + 1 .. LookTo(a)
  BY DEF DaysToLookAt, LookTo, LongestMonths, LongestYears, Began
<1>6. LookTo(a) \in Int
  BY <1>2, <1>4 DEF LookTo
<1>7. ASSUME NEW k \in {12, 12 * a.years, 12 * a.parabYears, 12 * a.birthdayYears, a.months, a.fravardin,
                        8 * a.parabCount}
      PROVE  k \in Nat /\ Began(a) + 31 * (k + 2) <= LookTo(a)
  <2>1. k \in Nat /\ k <= LongestMonths(a)
    BY <1>1, <1>3, <1>4
  <2> QED
    BY <1>2, <1>4, <2>1 DEF LookTo
<1>8. a.from \in Int
  BY <1>1
<1> QED
  BY ONLY <1>1, <1>2, <1>5, <1>6, <1>7, <1>8

-----------------------------------------------------------------------------
(***************************************************************************)
(* Where a series of places begins.                                        *)
(***************************************************************************)

\* Days that come again: N to a turn of the cycle, at the places p.
Recurs(p, N) ==
    /\ Ascends(p) /\ N \in Nat \ {0}
    /\ \A k, j \in Int : p[k + N * j] = p[k] + 360 * j
DaysAt(a, p) == [k \in Int |-> DayAt(a, p[k])]
\* The series begins with the one numbered v.
Counts(a, p, k) == Start(a) < p[k] /\ a.from <= DayAt(a, p[k])
Begins(a, p, v) == \A k \in Int : Counts(a, p, k) <=> v <= k

\* The days ascend as their places do.
LEMMA DaysAscend ==
    ASSUME NEW a, DeathGiven(a), NEW p, Ascends(p)
    PROVE  Ascends(DaysAt(a, p)) /\ \A k \in Int : DaysAt(a, p)[k] = DayAt(a, p[k]) /\ DayAt(a, p[k]) \in Int
<1>1. \A k \in Int : p[k] \in Int
  BY DEF Ascends
<1>2. ASSUME NEW k \in Int PROVE DaysAt(a, p)[k] = DayAt(a, p[k]) /\ DayAt(a, p[k]) \in Int
  BY <1>1, PlaceHasDay DEF DaysAt
<1>3. ASSUME NEW j \in Int, NEW k \in Int, j < k PROVE DaysAt(a, p)[j] < DaysAt(a, p)[k]
  <2>1. p[j] < p[k] /\ p[j] \in Int /\ p[k] \in Int
    BY <1>1, <1>3 DEF Ascends
  <2>2. DayAt(a, p[j]) < DayAt(a, p[k])
    BY <2>1, PlacesInOrder
  <2> QED
    BY <1>2, <2>2
<1>4. DaysAt(a, p) \in [Int -> Int]
  <2>1. DaysAt(a, p) = [k \in Int |-> DaysAt(a, p)[k]]
    BY DEF DaysAt
  <2> QED
    BY <1>2, <2>1
<1> QED
  BY <1>2, <1>3, <1>4 DEF Ascends

\* Once it has begun it goes on.
LEMMA CountsOn ==
    ASSUME NEW a, DeathGiven(a), NEW p, Ascends(p), NEW j \in Int, NEW k \in Int, j <= k, Counts(a, p, j)
    PROVE  Counts(a, p, k)
<1>1. CASE j = k
  BY <1>1
<1>2. CASE j < k
  <2>1. p[j] < p[k] /\ p[j] \in Int /\ p[k] \in Int
    BY <1>2 DEF Ascends
  <2>2. DayAt(a, p[j]) < DayAt(a, p[k]) /\ DayAt(a, p[j]) \in Int /\ DayAt(a, p[k]) \in Int
    BY <2>1, PlacesInOrder, PlaceHasDay
  <2>3. Start(a) \in Int /\ a.from \in Int
    BY AfterTheDeath DEF DeathGiven
  <2> QED
    BY <2>1, <2>2, <2>3 DEF Counts
<1> QED
  BY <1>1, <1>2

\* However late it is entered, what comes again begins somewhere.
LEMMA SeriesBegins ==
    ASSUME NEW a, DeathGiven(a), NEW p, NEW N, Recurs(p, N)
    PROVE  \E v \in Int : Begins(a, p, v)
<1>1. Ascends(p) /\ N \in Int /\ p[0] \in Int /\ \A j \in Int : p[0 + N * j] = p[0] + 360 * j
  BY DEF Recurs, Ascends
<1>2. \A j \in Int : N * j \in Int /\ p[N * j] = p[0] + 360 * j
  BY <1>1
<1>3. Start(a) \in Int /\ a.from \in Int /\ DayAt(a, Start(a)) \in Int
  <2>1. Start(a) \in Int
    BY AfterTheDeath
  <2> QED
    BY <2>1, PlaceHasDay DEF DeathGiven
<1>4. PICK k0 \in Int : p[k0] \in Int /\ p[k0] <= Start(a)
  <2> DEFINE j == IF p[0] <= Start(a) THEN 0 ELSE Start(a) - p[0]
  <2>1. j \in Int /\ p[0] + 360 * j <= Start(a)
    BY <1>1, <1>3
  <2> HIDE DEF j
  <2> QED
    BY <1>1, <1>2, <2>1
<1>5. PICK k1 \in Int : Counts(a, p, k1)
  <2> DEFINE x == IF DayAt(a, Start(a)) < a.from THEN a.from - DayAt(a, Start(a)) ELSE 1
             y == Start(a) + x - p[0]
             j == IF y <= 0 THEN 0 ELSE y
             c == p[0] + 360 * j
  <2>1. j \in Int /\ c \in Int /\ x \in Int /\ 1 <= x /\ Start(a) + x <= c /\ a.from <= DayAt(a, Start(a)) + x
    BY <1>1, <1>3
  <2> HIDE DEF j, c, x
  <2>2. DayAt(a, Start(a)) + (c - Start(a)) <= DayAt(a, c) /\ DayAt(a, c) \in Int
    <3>1. Start(a) <= c
      BY <1>3, <2>1
    <3> QED
      BY <1>3, <2>1, <3>1, PlacesApart
  <2>3. a.from <= DayAt(a, c) /\ Start(a) < c
    BY <1>3, <2>1, <2>2
  <2>4. p[N * j] = c /\ N * j \in Int
    BY <1>2, <2>1 DEF c
  <2> QED
    BY <2>3, <2>4 DEF Counts
<1>6. ~Counts(a, p, k0)
  BY <1>3, <1>4 DEF Counts
<1>7. k0 < k1
  <2>1. ~(k1 <= k0)
    BY <1>1, <1>5, <1>6, CountsOn
  <2> QED
    BY <2>1
<1> DEFINE T == {i \in Nat : Counts(a, p, k0 + i)}
<1>8. PICK m \in T : \A k \in T : m <= k
  <2>1. k1 - k0 \in Nat /\ k0 + (k1 - k0) = k1
    BY <1>7
  <2>2. k1 - k0 \in T
    BY <1>5, <2>1
  <2>3. T \in SUBSET Nat
    OBVIOUS
  <2> HIDE DEF T
  <2> QED
    BY <2>2, <2>3, LeastNat
<1>9. m \in Nat /\ Counts(a, p, k0 + m) /\ \A i \in Nat : Counts(a, p, k0 + i) => m <= i
  BY <1>8
<1> HIDE DEF T
<1> DEFINE v == k0 + m
<1>10. ASSUME NEW k \in Int PROVE Counts(a, p, k) <=> v <= k
  <2>1. v \in Int
    BY <1>9
  <2>2. ASSUME v <= k PROVE Counts(a, p, k)
    BY <1>1, <1>9, <2>1, <2>2, CountsOn
  <2>3. ASSUME k < v, Counts(a, p, k) PROVE FALSE
    <3>1. CASE k <= k0
      BY <1>1, <1>6, <2>3, <3>1, CountsOn
    <3>2. CASE k0 < k
      <4>1. k - k0 \in Nat /\ k0 + (k - k0) = k /\ ~(m <= k - k0)
        BY <1>9, <2>3, <3>2
      <4> QED
        BY <1>9, <2>3, <4>1
    <3> QED
      BY <3>1, <3>2
  <2> QED
    BY <2>1, <2>2, <2>3
<1>11. v \in Int
  BY <1>9
<1> HIDE DEF v
<1> QED
  BY <1>10, <1>11 DEF Begins

\* The one before the first is no later than where the days begin to count.
LEMMA BeforeTheFirst ==
    ASSUME NEW a, DeathGiven(a), InReach(a), NEW p, Ascends(p), NEW v \in Int, Begins(a, p, v)
    PROVE  /\ p[v - 1] \in Int /\ p[v - 1] <= Start(a) + 360 * Gone(a)
           /\ DayAt(a, p[v - 1]) \in Int /\ DayAt(a, p[v - 1]) <= Began(a) /\ Began(a) \in Int
           /\ Gone(a) \in Nat
<1> DEFINE c == p[v - 1]
<1>1. c \in Int /\ ~Counts(a, p, v - 1)
  <2>1. v - 1 \in Int /\ ~(v <= v - 1)
    OBVIOUS
  <2> QED
    BY <2>1 DEF Begins, Ascends
<1>2. c <= Start(a) \/ (Start(a) < c /\ DayAt(a, c) < a.from)
  <2>1. Start(a) \in Int /\ a.from \in Int /\ DayAt(a, c) \in Int
    <3>1. Start(a) \in Int
      BY AfterTheDeath
    <3> QED
      BY <1>1, <3>1, PlaceHasDay DEF DeathGiven
  <2> QED
    BY <1>1, <2>1 DEF Counts
<1>3. /\ Start(a) \in Int /\ a.from \in Nat /\ DayAt(a, c) \in Int /\ DeathDay(a) \in Int /\ 1000 < DeathDay(a)
      /\ DayAt(a, Start(a)) <= DeathDay(a) /\ DayAt(a, Start(a)) \in Int /\ Gone(a) \in Nat
  <2>1. Start(a) \in Int /\ DayAt(a, Start(a)) <= DeathDay(a)
    BY AfterTheDeath
  <2>2. DayAt(a, c) \in Int /\ DayAt(a, Start(a)) \in Int
    BY <1>1, <2>1, PlaceHasDay
  <2> QED
    BY <2>1, <2>2, DeathDayIs, GoneIs DEF DeathGiven
<1> HIDE DEF c
<1>4. Began(a) \in Int /\ DeathDay(a) <= Began(a) /\ a.from <= Began(a)
  BY <1>3 DEF Began, InReach, NoDay
<1>5. CASE c <= Start(a)
  <2>1. DayAt(a, c) <= DayAt(a, Start(a))
    <3>1. DayAt(a, c) + (Start(a) - c) <= DayAt(a, Start(a))
      BY <1>1, <1>3, <1>5, PlacesApart
    <3> QED
      BY <1>1, <1>3, <1>5, <3>1
  <2> QED
    BY <1>1, <1>3, <1>4, <1>5, <2>1 DEF c
<1>6. CASE Start(a) < c /\ DayAt(a, c) < a.from
  <2>1. DeathDay(a) < DayAt(a, Start(a) + 1) /\ DayAt(a, Start(a) + 1) \in Int
    <3>1. Start(a) + 1 \in Int /\ Start(a) < Start(a) + 1
      BY <1>3
    <3> QED
      BY <3>1, AfterTheDeath, PlaceHasDay
  <2>2. DayAt(a, Start(a) + 1) + (c - (Start(a) + 1)) <= DayAt(a, c)
    <3>1. Start(a) + 1 \in Int /\ Start(a) + 1 <= c
      BY <1>1, <1>3, <1>6
    <3> QED
      BY <1>1, <3>1, PlacesApart
  <2>3. c - Start(a) < a.from - DeathDay(a)
    BY <1>1, <1>3, <1>6, <2>1, <2>2
  <2> DEFINE g == a.from - DeathDay(a)
  <2>4. g \in Nat /\ a.from # NoDay
    BY <1>1, <1>3, <1>6, <2>3 DEF NoDay
  <2>5. Gone(a) = g \div 360 + 1
    <3>1. g \div 360 + 1 >= 0
      BY <2>4
    <3> QED
      BY <2>4, <3>1 DEF Gone, CycleDays
  <2> HIDE DEF g
  <2>6. g < 360 * Gone(a)
    BY <2>4, <2>5
  <2>7. c <= Start(a) + 360 * Gone(a)
    BY <1>1, <1>3, <2>3, <2>4, <2>6 DEF g
  <2> QED
    BY <1>1, <1>3, <1>4, <1>6, <2>7 DEF c
<1> QED
  BY <1>2, <1>5, <1>6

\* The n-th is no further than n of them can span.
LEMMA UpToTheLast ==
    ASSUME NEW a, DeathGiven(a), InReach(a), NEW p, Ascends(p), NEW v \in Int, Begins(a, p, v),
           NEW w \in Int, v - 1 <= w, NEW W \in Nat, p[w] <= p[v - 1] + W
    PROVE  /\ p[w] \in Int /\ p[w] <= Start(a) + 360 * Gone(a) + W
           /\ DayAt(a, p[w]) \in Int /\ Near(Began(a), DayAt(a, p[w]), W)
<1>1. /\ p[v - 1] \in Int /\ p[v - 1] <= Start(a) + 360 * Gone(a)
      /\ DayAt(a, p[v - 1]) \in Int /\ DayAt(a, p[v - 1]) <= Began(a) /\ Began(a) \in Int
      /\ Gone(a) \in Nat
  BY BeforeTheFirst
<1>2. Start(a) \in Int
  BY AfterTheDeath
<1>3. v - 1 \in Int /\ p[w] \in Int /\ p[v - 1] <= p[w]
  <2>1. v - 1 \in Int /\ p[w] \in Int /\ (v - 1 = w \/ p[v - 1] < p[w])
    BY DEF Ascends
  <2> QED
    BY <1>1, <2>1
<1>4. /\ DayAt(a, p[w]) \in Int
      /\ Near(DayAt(a, p[v - 1]), DayAt(a, p[w]), p[w] - p[v - 1])
  BY <1>1, <1>3, PlacesApart
<1> DEFINE c == p[w]
           b == p[v - 1]
           x == DayAt(a, p[w])
           y == DayAt(a, p[v - 1])
<1>5. /\ c \in Int /\ b \in Int /\ x \in Int /\ y \in Int /\ c <= b + W /\ y <= Began(a)
      /\ Near(y, x, c - b) /\ b <= Start(a) + 360 * Gone(a)
  BY <1>1, <1>3, <1>4
<1> HIDE DEF c, b, x, y
<1>6. c <= Start(a) + 360 * Gone(a) + W /\ Near(Began(a), x, W)
  BY <1>1, <1>2, <1>5 DEF Near
<1> QED
  BY <1>5, <1>6 DEF c, b, x, y

Spans(p, v, n, J) == p[v + n - 1] <= p[v - 1] + 360 * J

\* So many turns of the cycle have n of them.
LEMMA TurnsSpan ==
    ASSUME NEW p, NEW N, Recurs(p, N), NEW v \in Int, NEW n \in Nat, NEW J \in Nat, n <= N * J
    PROVE  Spans(p, v, n, J)
<1>1. v - 1 \in Int /\ v + n - 1 \in Int /\ N \in Int /\ N * J \in Int /\ (v - 1) + N * J \in Int
  BY DEF Recurs
<1>2. p[(v - 1) + N * J] = p[v - 1] + 360 * J
  <2>1. \A k, j \in Int : p[k + N * j] = p[k] + 360 * j
    BY DEF Recurs
  <2> QED
    BY ONLY <1>1, <2>1, J \in Int, ZenonT(60)
<1>3. v + n - 1 <= (v - 1) + N * J
  BY <1>1
<1>4. p[v + n - 1] \in Int /\ p[(v - 1) + N * J] \in Int
      /\ (v + n - 1 < (v - 1) + N * J => p[v + n - 1] < p[(v - 1) + N * J])
  BY ONLY Recurs(p, N), <1>1 DEF Recurs, Ascends
<1> DEFINE i == v + n - 1
           l == (v - 1) + N * J
<1>5. i \in Int /\ l \in Int /\ i <= l /\ p[i] \in Int /\ p[l] \in Int /\ (i < l => p[i] < p[l])
  BY <1>1, <1>3, <1>4
<1> HIDE DEF i, l
<1>6. p[i] <= p[l]
  BY <1>5
<1> QED
  BY <1>2, <1>6 DEF i, l, Spans

-----------------------------------------------------------------------------
(***************************************************************************)
(* What the words mean, found by looking at each day.                      *)
(***************************************************************************)

\* What is not over, and the first n of it, as the words have it.
StillAhead(a, S) == {d \in S : d >= a.from}
Earliest(a, n, S) == {d \in StillAhead(a, S) : Cardinality({e \in StillAhead(a, S) : e < d}) < n}

\* Of a series they are the n from where it begins,
LEMMA EarliestIsRun ==
    ASSUME NEW a, NEW f, Ascends(f), NEW v \in Int, NEW n \in Nat, NEW S, IsFiniteSet(S),
           \A d \in S : \E k \in Int : d = f[k] /\ (a.from <= d => v <= k),
           \A i \in v .. v + n - 1 : f[i] \in S /\ a.from <= f[i]
    PROVE  Earliest(a, n, S) = Run(f, v, n)
<1> DEFINE T == StillAhead(a, S)
<1>1. T \in SUBSET S
  BY DEF StillAhead
<1>2. \A d \in T : \E k \in Int : v <= k /\ d = f[k]
  BY DEF StillAhead
<1>3. Run(f, v, n) \subseteq T
  BY DEF StillAhead, Run
<1> HIDE DEF T
<1>4. IsFiniteSet(T)
  BY ONLY <1>1, IsFiniteSet(S), FS_Subset
<1>5. {d \in T : Cardinality({e \in T : e < d}) < n} = Run(f, v, n)
  BY ONLY <1>2, <1>3, <1>4, Ascends(f), v \in Int, n \in Nat, FirstOfRun
<1> QED
  BY <1>5 DEF Earliest, T

\* and so are the first n of what is observed on its days.
LEMMA FirstIsRun ==
    ASSUME NEW a, NEW f, Ascends(f), NEW v \in Int, NEW n \in Nat, NEW obs, IsFiniteSet(obs),
           \A o, p \in obs : o.day = p.day => o = p,
           \A o \in obs : \E k \in Int : o.day = f[k] /\ (a.from <= o.day => v <= k),
           \A i \in v .. v + n - 1 : a.from <= f[i] /\ \E o \in obs : o.day = f[i]
    PROVE  DaysOf(FirstOf(n, Ahead(a, obs))) = Run(f, v, n)
<1> DEFINE A == Ahead(a, obs)
           T == DaysOf(A)
<1>1. A \in SUBSET obs /\ \A o \in A : a.from <= o.day
  BY DEF Ahead
<1>2. \A o \in obs : a.from <= o.day => o \in A
  BY DEF Ahead
<1> HIDE DEF A
<1>3. IsFiniteSet(A)
  BY ONLY <1>1, IsFiniteSet(obs), FS_Subset
<1>4. \A o, p \in A : o.day = p.day => o = p
  BY <1>1
<1>5. /\ IsFiniteSet(T)
      /\ DaysOf(FirstOf(n, A)) = {d \in T : Cardinality({e \in T : e < d}) < n}
  BY ONLY <1>3, <1>4, n \in Nat, FirstByDay
<1>6. \A d \in T : \E k \in Int : v <= k /\ d = f[k]
  BY <1>1 DEF DaysOf
<1>7. Run(f, v, n) \subseteq T
  BY <1>2 DEF Run, DaysOf
<1> HIDE DEF T
<1>8. {d \in T : Cardinality({e \in T : e < d}) < n} = Run(f, v, n)
  BY ONLY <1>5, <1>6, <1>7, Ascends(f), v \in Int, n \in Nat, FirstOfRun
<1> QED
  BY <1>5, <1>8 DEF A

-----------------------------------------------------------------------------
\* The days that are looked at, read.
At(a, c) == [day |-> DayAt(a, c), mah |-> MahAt(c), roj |-> RojAt(c)]
LookedAt(a, c) == Start(a) < c /\ DayAt(a, c) <= LookTo(a)

\* Finitely many days are looked at.
LEMMA LooksIsFinite ==
    ASSUME NEW a, Memorial(a), InReach(a), NEW S, S \subseteq DaysToLookAt(a) PROVE IsFiniteSet(S)
<1>1. DaysToLookAt(a) = DeathDay(a) + 1 .. LookTo(a) /\ DeathDay(a) + 1 \in Int /\ LookTo(a) \in Int
  BY LooksFarEnough, DeathDayIs DEF Memorial
<1>2. IsFiniteSet(DeathDay(a) + 1 .. LookTo(a))
  BY ONLY <1>1, FS_Interval
<1> QED
  BY <1>1, <1>2, FS_Subset

\* The days read with a Mah are those of the places that are looked at.
LEMMA RojDaysAre ==
    ASSUME NEW a, Memorial(a), InReach(a)
    PROVE  /\ \A c \in Int : LookedAt(a, c) => At(a, c) \in InMahs(ReadDays(a))
           /\ \A x \in InMahs(ReadDays(a)) : \E c \in Int : LookedAt(a, c) /\ x = At(a, c)
<1>1. /\ DeathGiven(a) /\ DaysToLookAt(a) = DeathDay(a) + 1 .. LookTo(a)
      /\ DeathDay(a) \in Int /\ 1000 < DeathDay(a) /\ LookTo(a) \in Int
  BY LooksFarEnough, DeathDayIs DEF Memorial
<1>2. ASSUME NEW c \in Int, LookedAt(a, c) PROVE At(a, c) \in InMahs(ReadDays(a))
  <2>1. DayAt(a, c) \in Int /\ DeathDay(a) < DayAt(a, c) /\ DayAt(a, c) <= LookTo(a)
    BY <1>1, <1>2, AfterTheDeath, PlaceHasDay DEF LookedAt
  <2>2. DayAt(a, c) \in DaysToLookAt(a) /\ 0 < DayAt(a, c)
    BY <1>1, <2>1
  <2>3. GregorianToParsi(DayAt(a, c), a.system) = <<BaseYear(a) + c \div 360, MahAt(c), RojAt(c)>>
    BY <1>1, <2>2, PlaceIsRead
  <2>4. Read(a, DayAt(a, c)) = At(a, c)
    BY <2>3 DEF Read, At
  <2>5. MahAt(c) <= 12
    <3>1. c % 360 \in 0 .. 359
      OBVIOUS
    <3> QED
      BY <3>1 DEF MahAt
  <2> QED
    BY <2>2, <2>4, <2>5 DEF InMahs, ReadDays, At
<1>3. ASSUME NEW x \in InMahs(ReadDays(a)) PROVE \E c \in Int : LookedAt(a, c) /\ x = At(a, c)
  <2>1. PICK d \in DaysToLookAt(a) : x = Read(a, d) /\ x.mah <= 12
    BY DEF InMahs, ReadDays
  <2>2. d \in Int /\ DeathDay(a) < d /\ d <= LookTo(a) /\ d \in Nat \ {0}
    BY <1>1, <2>1
  <2>3. x = [day |-> d, mah |-> GregorianToParsi(d, a.system)[2], roj |-> GregorianToParsi(d, a.system)[3]]
    BY <2>1 DEF Read
  <2>4. GregorianToParsi(d, a.system)[2] <= 12
    BY <2>1, <2>3
  <2>5. PICK c \in Int : /\ d = DayAt(a, c) /\ GregorianToParsi(d, a.system)[2] = MahAt(c)
                         /\ GregorianToParsi(d, a.system)[3] = RojAt(c)
    BY <1>1, <2>2, <2>4, DayIsPlaced
  <2>6. x = At(a, c)
    BY <2>3, <2>5 DEF At
  <2>7. LookedAt(a, c)
    BY <1>1, <2>2, <2>5, AfterTheDeath DEF LookedAt
  <2> QED
    BY <2>6, <2>7
<1> QED
  BY <1>2, <1>3

\* A series in words: the days looked at whose Mah and Roj are asked for.
Finds(a, p, S) ==
    /\ \A k \in Int : LookedAt(a, p[k]) => DayAt(a, p[k]) \in S
    /\ \A d \in S : d \in DaysToLookAt(a) /\ \E k \in Int : LookedAt(a, p[k]) /\ d = DayAt(a, p[k])

\* So the first n of the words are the n days from where the places begin.
LEMMA FoundInWords ==
    ASSUME NEW a, Memorial(a), InReach(a), NEW p, Ascends(p), NEW v \in Int, Begins(a, p, v),
           NEW S, Finds(a, p, S), NEW n \in Nat,
           n = 0 \/ DayAt(a, p[v + n - 1]) <= LookTo(a)
    PROVE  Earliest(a, n, S) = Run(DaysAt(a, p), v, n)
<1> DEFINE f == DaysAt(a, p)
<1>1. DeathGiven(a) /\ a.from \in Int /\ LookTo(a) \in Int
  BY LooksFarEnough DEF Memorial
<1>2. Ascends(f) /\ \A k \in Int : f[k] = DayAt(a, p[k]) /\ DayAt(a, p[k]) \in Int
  BY <1>1, DaysAscend
<1> HIDE DEF f
<1>3. IsFiniteSet(S)
  BY LooksIsFinite DEF Finds
<1>4. \A d \in S : \E k \in Int : d = f[k] /\ (a.from <= d => v <= k)
  BY <1>2 DEF Finds, LookedAt, Begins, Counts
<1>5. ASSUME NEW i \in v .. v + n - 1 PROVE f[i] \in S /\ a.from <= f[i]
  <2>1. i \in Int /\ v <= i /\ i <= v + n - 1 /\ v + n - 1 \in Int /\ n # 0
    OBVIOUS
  <2>2. Start(a) < p[i] /\ a.from <= DayAt(a, p[i])
    BY <2>1 DEF Begins, Counts
  <2>3. f[i] <= f[v + n - 1]
    <3>1. f[i] \in Int /\ f[v + n - 1] \in Int /\ (i < v + n - 1 => f[i] < f[v + n - 1])
      BY <1>2, <2>1 DEF Ascends
    <3> QED
      BY <2>1, <3>1
  <2>4. DayAt(a, p[i]) <= LookTo(a)
    BY <1>1, <1>2, <2>1, <2>3
  <2> QED
    BY <1>2, <2>1, <2>2, <2>4 DEF Finds, LookedAt
<1>6. Earliest(a, n, S) = Run(f, v, n)
  BY ONLY <1>2, <1>3, <1>4, <1>5, v \in Int, n \in Nat, EarliestIsRun
<1> QED
  BY <1>6 DEF f

\* The places p are those with one of the Mahs M and the Roj that R gives it.
Fits(M, R, p) == \A c \in Int : (MahAt(c) \in M /\ RojAt(c) = R[MahAt(c)]) <=> \E k \in Int : c = p[k]
FoundBy(a, M, R) == DaysOf({x \in InMahs(ReadDays(a)) : x.mah \in M /\ x.roj = R[x.mah]})

\* Looking for the Mahs and the Roj finds those places.
LEMMA FitsFinds ==
    ASSUME NEW a, Memorial(a), InReach(a), NEW M, NEW R, NEW p, Ascends(p), Fits(M, R, p)
    PROVE  Finds(a, p, FoundBy(a, M, R))
<1> DEFINE X == {x \in InMahs(ReadDays(a)) : x.mah \in M /\ x.roj = R[x.mah]}
           S == DaysOf(X)
<1>1. \A k \in Int : p[k] \in Int /\ MahAt(p[k]) \in M /\ RojAt(p[k]) = R[MahAt(p[k])]
  BY DEF Ascends, Fits
<1>2. ASSUME NEW k \in Int, LookedAt(a, p[k]) PROVE DayAt(a, p[k]) \in S
  <2>1. At(a, p[k]) \in InMahs(ReadDays(a))
    BY <1>1, <1>2, RojDaysAre
  <2>2. At(a, p[k]) \in X /\ At(a, p[k]).day = DayAt(a, p[k])
    BY <1>1, <2>1 DEF At
  <2> QED
    BY <2>2 DEF DaysOf
<1>3. ASSUME NEW d \in S PROVE d \in DaysToLookAt(a) /\ \E k \in Int : LookedAt(a, p[k]) /\ d = DayAt(a, p[k])
  <2>1. PICK x \in X : d = x.day
    BY DEF DaysOf
  <2>2. PICK c \in Int : LookedAt(a, c) /\ x = At(a, c)
    BY <2>1, RojDaysAre
  <2>3. d = DayAt(a, c) /\ MahAt(c) \in M /\ RojAt(c) = R[MahAt(c)]
    BY <2>1, <2>2 DEF At
  <2>4. PICK k \in Int : c = p[k]
    BY <2>2, <2>3 DEF Fits
  <2>5. d \in DaysToLookAt(a)
    <3>1. x \in InMahs(ReadDays(a))
      BY <2>1
    <3>2. PICK e \in DaysToLookAt(a) : x = Read(a, e)
      BY <3>1 DEF InMahs, ReadDays
    <3> QED
      BY <2>1, <3>2 DEF Read
  <2> QED
    BY <2>2, <2>3, <2>4, <2>5
<1> HIDE DEF S
<1>4. Finds(a, p, S)
  BY <1>2, <1>3 DEF Finds
<1> QED
  BY <1>4 DEF S, FoundBy

\* A date of the series is one of its places, and each place is the date of one year.
LEMMA DateFits ==
    ASSUME NEW a, DeathGiven(a), NEW M \in SUBSET (1 .. 12), NEW R, \A m \in M : R[m] \in 1 .. 30,
           NEW p, Fits(M, R, p), NEW y \in Int, NEW m \in M
    PROVE  \E k \in Int : /\ p[k] = PlaceOf(a, y, m, R[m]) /\ On(a, y, m, R[m]) = DayAt(a, p[k])
                          /\ MahAt(p[k]) = m /\ BaseYear(a) + p[k] \div 360 = y /\ p[k] \in Int
<1> DEFINE c == PlaceOf(a, y, m, R[m])
<1>1. m \in Int /\ m \in 1 .. 12 /\ R[m] \in Int /\ R[m] \in 1 .. 30
  OBVIOUS
<1>2. /\ c \in Int /\ DayAt(a, c) = ParsiToGregorian(y, a.system, m, R[m])
      /\ MahAt(c) = m /\ RojAt(c) = R[m] /\ BaseYear(a) + c \div 360 = y
  BY ONLY <1>1, y \in Int, DeathGiven(a), DateIsPlaced
<1> HIDE DEF c
<1>3. PICK k \in Int : c = p[k]
  BY <1>2 DEF Fits
<1> QED
  BY <1>2, <1>3 DEF c, On

\* Such a place is a date of a year.
LEMMA PlaceFits ==
    ASSUME NEW a, DeathGiven(a), NEW M \in SUBSET (1 .. 12), NEW R,
           NEW p, Ascends(p), Fits(M, R, p), NEW k \in Int
    PROVE  LET y == BaseYear(a) + p[k] \div 360
               m == MahAt(p[k])
           IN  y \in Int /\ m \in M /\ On(a, y, m, R[m]) = DayAt(a, p[k])
<1>1. p[k] \in Int /\ MahAt(p[k]) \in M /\ RojAt(p[k]) = R[MahAt(p[k])]
  BY DEF Ascends, Fits
<1>2. a.system \in System /\ BaseYear(a) \in Int
  BY BaseIs
<1> DEFINE c == p[k]
<1>3. c \in Int
  BY <1>1
<1> HIDE DEF c
<1>4. c \div 360 \in Int /\ BaseYear(a) + c \div 360 \in Int
  BY <1>2, <1>3
<1>5. ParsiToGregorian(BaseYear(a) + c \div 360, a.system, (c % 360) \div 30 + 1, ((c % 360) % 30) + 1)
          = Place(a.system, BaseYear(a), c)
  BY <1>2, <1>3, PlaceIs
<1>6. On(a, BaseYear(a) + c \div 360, MahAt(c), RojAt(c)) = DayAt(a, c)
  BY <1>5 DEF On, MahAt, RojAt, DayAt
<1> QED
  BY <1>1, <1>4, <1>6 DEF c

\* Dates of the series, each under its year and Mah, are as many as their days.
LEMMA DatesDiffer ==
    ASSUME NEW a, DeathGiven(a), NEW M \in SUBSET (1 .. 12), NEW R, \A m \in M : R[m] \in 1 .. 30,
           NEW p, Fits(M, R, p), NEW y \in Int, NEW m \in M, NEW z \in Int, NEW l \in M,
           On(a, y, m, R[m]) = On(a, z, l, R[l])
    PROVE  y = z /\ m = l
<1>1. PICK j \in Int : /\ On(a, y, m, R[m]) = DayAt(a, p[j]) /\ p[j] \in Int
                       /\ MahAt(p[j]) = m /\ BaseYear(a) + p[j] \div 360 = y
  BY DateFits
<1>2. PICK k \in Int : /\ On(a, z, l, R[l]) = DayAt(a, p[k]) /\ p[k] \in Int
                       /\ MahAt(p[k]) = l /\ BaseYear(a) + p[k] \div 360 = z
  BY DateFits
<1>3. p[j] = p[k]
  <2>1. DayAt(a, p[j]) = DayAt(a, p[k]) /\ p[j] \in Int /\ p[k] \in Int
    BY <1>1, <1>2, ZenonT(60)
  <2>2. DayAt(a, p[j]) = DayAt(a, p[k]) => p[j] = p[k]
    BY ONLY <2>1, DeathGiven(a), PlacesInOrder
  <2> QED
    BY <2>1, <2>2
<1> QED
  BY <1>1, <1>2, <1>3

-----------------------------------------------------------------------------
(***************************************************************************)
(* The times of a Roj in some Mahs.                                        *)
(***************************************************************************)

\* What TimesOf takes from.
TimesAfter(a, kind, mahs, roj, years) ==
    {o \in {[kind |-> kind, code |-> <<kind, y, mah>>, day |-> On(a, y, mah, roj)] : y \in years, mah \in mahs} :
        o.day > DeathDay(a)}

\* The years up to B have the n-th of the series.
YearsReach(a, p, v, n, B) == n = 0 \/ BaseYear(a) + p[v + n - 1] \div 360 <= B

\* One Roj in every Mah.
SameRoj(R, roj) == \A m \in 1 .. 12 : R[m] = roj

\* What is found in the years up to B.
TimesUpTo(a, kind, n, M, roj, B) == TimesOf(a, kind, n, M, roj, a.year .. B)

\* The places after the death are in the year of death or later, in order.
LEMMA PlacesOfYears ==
    ASSUME NEW a, DeathGiven(a), NEW c \in Int, Start(a) < c
    PROVE  /\ 0 <= c /\ a.year <= BaseYear(a) + c \div 360
           /\ \A d \in Int : c <= d => BaseYear(a) + c \div 360 <= BaseYear(a) + d \div 360
<1>1. Start(a) \in Int /\ -1 <= Start(a) /\ BaseYear(a) \in Int /\ a.year \in Int /\ a.year <= BaseYear(a)
  <2>1. BaseYear(a) \in Int /\ a.year \in Int
    BY BaseIs
  <2>2. a.year <= BaseYear(a)
    BY <2>1 DEF BaseYear
  <2> QED
    BY <2>1, <2>2, AfterTheDeath
<1>2. 0 <= c
  BY <1>1
<1>3. c \div 360 \in Int /\ 0 <= c \div 360
  BY <1>2
<1>4. ASSUME NEW d \in Int, c <= d PROVE c \div 360 <= d \div 360 /\ d \div 360 \in Int
  BY <1>4
<1>5. a.year <= BaseYear(a) + c \div 360
  BY <1>1, <1>3
<1>6. ASSUME NEW d \in Int, c <= d PROVE BaseYear(a) + c \div 360 <= BaseYear(a) + d \div 360
  BY <1>1, <1>3, <1>4, <1>6
<1> QED
  BY <1>2, <1>5, <1>6

\* The first n times a Roj comes, in the years that have the n-th of them.
LEMMA TimesAreTheRun ==
    ASSUME NEW a, Memorial(a), NEW M \in SUBSET (1 .. 12), NEW roj \in Int, roj \in 1 .. 30,
           NEW R, SameRoj(R, roj),
           NEW p, Ascends(p), Fits(M, R, p), NEW v \in Int, Begins(a, p, v),
           NEW n \in Nat, NEW B \in Int, NEW kind,
           YearsReach(a, p, v, n, B)
    PROVE  DaysOf(TimesUpTo(a, kind, n, M, roj, B)) = Run(DaysAt(a, p), v, n)
<1> DEFINE f == DaysAt(a, p)
           obs == TimesAfter(a, kind, M, roj, a.year .. B)
<1>1. DeathGiven(a) /\ a.year \in Int /\ a.from \in Int /\ DeathDay(a) \in Int
  BY DeathDayIs DEF Memorial, DeathGiven
<1>2. Ascends(f) /\ \A k \in Int : f[k] = DayAt(a, p[k]) /\ DayAt(a, p[k]) \in Int
  BY <1>1, DaysAscend
<1>3. \A k \in Int : p[k] \in Int
  BY DEF Ascends
<1>4. \A m \in M : m \in 1 .. 12 /\ R[m] = roj /\ R[m] \in 1 .. 30
  BY DEF SameRoj
<1> HIDE DEF f
<1>5. \A o \in obs : \E y \in a.year .. B, m \in M :
          o = [kind |-> kind, code |-> <<kind, y, m>>, day |-> On(a, y, m, roj)] /\ o.day > DeathDay(a)
  BY DEF TimesAfter
<1>6. ASSUME NEW y \in a.year .. B, NEW m \in M, On(a, y, m, roj) > DeathDay(a)
      PROVE  \E o \in obs : o.day = On(a, y, m, roj)
  <2> DEFINE o == [kind |-> kind, code |-> <<kind, y, m>>, day |-> On(a, y, m, roj)]
  <2>1. o.day = On(a, y, m, roj)
    OBVIOUS
  <2>2. o \in obs
    BY <1>6, <2>1 DEF TimesAfter
  <2> QED
    BY <2>1, <2>2
<1> HIDE DEF obs
<1>7. IsFiniteSet(obs)
  <2> DEFINE S == (a.year .. B) \X (1 .. 12)
             g == [z \in S |-> [kind |-> kind, code |-> <<kind, z[1], z[2]>>, day |-> On(a, z[1], z[2], roj)]]
  <2>1. ASSUME NEW o \in obs PROVE \E z \in S : o = g[z]
    <3>1. PICK y \in a.year .. B, m \in M :
              o = [kind |-> kind, code |-> <<kind, y, m>>, day |-> On(a, y, m, roj)]
      BY <1>5
    <3>2. <<y, m>> \in S
      BY <1>4
    <3>3. o = g[<<y, m>>]
      BY <3>1, <3>2
    <3> QED
      BY <3>2, <3>3
  <2>2. IsFiniteSet(S)
    <3>1. 1 \in Int /\ 12 \in Int
      OBVIOUS
    <3> QED
      BY ONLY <1>1, <3>1, B \in Int, GridIsFinite
  <2>3. g = [z \in S |-> g[z]]
    OBVIOUS
  <2> HIDE DEF g, S
  <2> QED
    BY ONLY <2>1, <2>2, <2>3, ImageIsFinite
<1>8. ASSUME NEW o \in obs, NEW q \in obs, o.day = q.day PROVE o = q
  <2>1. PICK y \in a.year .. B, m \in M :
            o = [kind |-> kind, code |-> <<kind, y, m>>, day |-> On(a, y, m, roj)]
    BY <1>5
  <2>2. PICK z \in a.year .. B, l \in M :
            q = [kind |-> kind, code |-> <<kind, z, l>>, day |-> On(a, z, l, roj)]
    BY <1>5
  <2>3. y \in Int /\ z \in Int /\ On(a, y, m, R[m]) = On(a, z, l, R[l])
    BY <1>4, <1>8, <2>1, <2>2
  <2>4. y = z /\ m = l
    BY ONLY <1>1, <1>4, <2>3, m \in M, l \in M, M \in SUBSET (1 .. 12), Fits(M, R, p), DatesDiffer
  <2> QED
    BY <2>1, <2>2, <2>4
<1>9. ASSUME NEW o \in obs PROVE \E k \in Int : o.day = f[k] /\ (a.from <= o.day => v <= k)
  <2>1. PICK y \in a.year .. B, m \in M :
            o = [kind |-> kind, code |-> <<kind, y, m>>, day |-> On(a, y, m, roj)] /\ o.day > DeathDay(a)
    BY <1>5
  <2>2. y \in Int
    OBVIOUS
  <2>3. PICK k \in Int : On(a, y, m, R[m]) = DayAt(a, p[k])
    BY ONLY <1>1, <1>4, <2>2, m \in M, M \in SUBSET (1 .. 12), Fits(M, R, p), DateFits
  <2>4. o.day = DayAt(a, p[k])
    BY <1>4, <2>1, <2>3
  <2>5. DeathDay(a) < DayAt(a, p[k])
    BY <1>1, <1>2, <2>1, <2>4
  <2>6. Start(a) < p[k]
    BY <1>1, <1>3, <2>5, AfterTheDeath
  <2> QED
    BY <1>2, <2>4, <2>6 DEF Begins, Counts
<1>10. ASSUME NEW i \in v .. v + n - 1 PROVE a.from <= f[i] /\ \E o \in obs : o.day = f[i]
  <2>1. i \in Int /\ v <= i /\ i <= v + n - 1 /\ v + n - 1 \in Int /\ n # 0
    OBVIOUS
  <2>2. Start(a) < p[i] /\ a.from <= DayAt(a, p[i])
    BY <2>1 DEF Begins, Counts
  <2> DEFINE y == BaseYear(a) + p[i] \div 360
             m == MahAt(p[i])
  <2>3. y \in Int /\ m \in M /\ On(a, y, m, R[m]) = DayAt(a, p[i])
    BY ONLY <1>1, <2>1, M \in SUBSET (1 .. 12), Ascends(p), Fits(M, R, p), PlaceFits
  <2>4. a.year <= y /\ y <= B
    <3>1. p[i] \in Int /\ p[v + n - 1] \in Int /\ p[i] <= p[v + n - 1]
      <4>1. p[i] \in Int /\ p[v + n - 1] \in Int /\ (i < v + n - 1 => p[i] < p[v + n - 1])
        BY <2>1 DEF Ascends
      <4> QED
        BY <2>1, <4>1
    <3>2. a.year <= y /\ y <= BaseYear(a) + p[v + n - 1] \div 360
      BY <1>1, <2>2, <3>1, PlacesOfYears
    <3>3. BaseYear(a) + p[v + n - 1] \div 360 \in Int
      <4>1. BaseYear(a) \in Int
        BY <1>1, BaseIs
      <4> QED
        BY <3>1, <4>1
    <3> QED
      BY <1>1, <2>1, <2>3, <3>2, <3>3 DEF YearsReach
  <2> HIDE DEF y, m
  <2>5. y \in a.year .. B /\ On(a, y, m, roj) = f[i]
    BY <1>1, <1>2, <1>4, <2>1, <2>3, <2>4
  <2>6. On(a, y, m, roj) > DeathDay(a)
    <3>1. DeathDay(a) < DayAt(a, p[i])
      BY <1>1, <1>3, <2>1, <2>2, AfterTheDeath
    <3> QED
      BY <1>1, <1>2, <2>1, <2>5, <3>1
  <2> QED
    BY <1>2, <1>6, <2>1, <2>2, <2>3, <2>5, <2>6
<1>11. DaysOf(FirstOf(n, Ahead(a, obs))) = Run(f, v, n)
  BY ONLY <1>2, <1>7, <1>8, <1>9, <1>10, v \in Int, n \in Nat, FirstIsRun
<1>12. TimesOf(a, kind, n, M, roj, a.year .. B) = FirstOf(n, Ahead(a, obs))
  BY DEF TimesOf, TimesAfter, obs
<1> QED
  BY <1>11, <1>12 DEF f, TimesUpTo

\* The Roj of each Mah, none of which is after the nineteenth.
LEMMA ParabRojIs ==
    /\ ParabRoj[1] = 19 /\ ParabRoj[2] = 3 /\ ParabRoj[3] = 6 /\ ParabRoj[4] = 13 /\ ParabRoj[5] = 7
    /\ ParabRoj[6] = 4 /\ ParabRoj[7] = 16 /\ ParabRoj[8] = 10 /\ ParabRoj[9] = 9 /\ ParabRoj[10] = 1
    /\ ParabRoj[11] = 2 /\ ParabRoj[12] = 5
    /\ \A m \in 1 .. 12 : ParabRoj[m] \in 1 .. 30 /\ ParabRoj[m] <= 19 /\ ParabRoj[m] \in Int
<1>1. /\ ParabRoj[1] = 19 /\ ParabRoj[2] = 3 /\ ParabRoj[3] = 6 /\ ParabRoj[4] = 13 /\ ParabRoj[5] = 7
      /\ ParabRoj[6] = 4 /\ ParabRoj[7] = 16 /\ ParabRoj[8] = 10 /\ ParabRoj[9] = 9 /\ ParabRoj[10] = 1
      /\ ParabRoj[11] = 2 /\ ParabRoj[12] = 5
  BY DEF ParabRoj
<1>2. ASSUME NEW m \in 1 .. 12 PROVE ParabRoj[m] \in 1 .. 30 /\ ParabRoj[m] <= 19 /\ ParabRoj[m] \in Int
  <2>1. m \in {1, 2, 3, 4, 5, 6, 7, 8, 9, 10, 11, 12}
    OBVIOUS
  <2>2. ParabRoj[m] \in {19, 3, 6, 13, 7, 4, 16, 10, 9, 1, 2, 5}
    BY <1>1, <2>1
  <2> QED
    BY <2>2
<1> QED
  BY <1>1, <1>2

\* The Parabs of so many turns of the cycle.
LEMMA ParabsForAre ==
    ASSUME NEW a, Memorial(a), NEW M, M = ParabMahs(a.parabs),
           NEW p, Ascends(p), Fits(M, ParabRoj, p), NEW Y \in Nat
    PROVE  LET obs == ParabsFor(a, Y)
               last == Start(a) + 360 * Y
           IN  /\ IsFiniteSet(obs)
               /\ \A o, q \in obs : o.day = q.day => o = q
               /\ \A o \in obs : \E k \in Int : o.day = DayAt(a, p[k]) /\ Start(a) < p[k] /\ p[k] <= last
               /\ \A k \in Int : Start(a) < p[k] /\ p[k] <= last => \E o \in obs : o.day = DayAt(a, p[k])
<1> DEFINE obs == ParabsFor(a, Y)
           last == Start(a) + 360 * Y
           Turn(o, z, m) == o = [kind |-> "parab", code |-> <<"parab", m, BaseYear(a) + z>>,
                                 day |-> On(a, BaseYear(a) + z, m, ParabRoj[m])]
           In(z, m) == Cycle(m, ParabRoj[m]) - Start(a) + CycleDays * z + 1 \in 2 .. CycleDays * Y + 1
<1>1. DeathGiven(a) /\ BaseYear(a) \in Int /\ Start(a) \in Int /\ -1 <= Start(a) /\ Start(a) <= 359
  BY BaseIs, AfterTheDeath DEF Memorial
<1>a. M \in SUBSET (1 .. 12)
  BY ParabsAre DEF Memorial
<1>2. \A m \in M : m \in Int /\ ParabRoj[m] \in Int /\ ParabRoj[m] \in 1 .. 30
  BY <1>a, ParabRojIs
<1>3. ASSUME NEW o \in obs PROVE \E z \in 0 .. Y, m \in M : Turn(o, z, m) /\ In(z, m)
  <2>1. PICK x \in (0 .. Y) \X M : Turn(o, x[1], x[2]) /\ In(x[1], x[2])
    BY DEF ParabsFor
  <2>2. x[1] \in 0 .. Y /\ x[2] \in M
    BY <2>1
  <2> QED
    BY <2>1, <2>2
<1>4. ASSUME NEW z \in 0 .. Y, NEW m \in M, In(z, m)
      PROVE  \E o \in obs : o.day = On(a, BaseYear(a) + z, m, ParabRoj[m])
  <2> DEFINE x == <<z, m>>
             o == [kind |-> "parab", code |-> <<"parab", x[2], BaseYear(a) + x[1]>>,
                   day |-> On(a, BaseYear(a) + x[1], x[2], ParabRoj[x[2]])]
  <2>1. x \in (0 .. Y) \X M /\ x[1] = z /\ x[2] = m
    OBVIOUS
  <2>2. In(x[1], x[2])
    BY <1>4, <2>1
  <2> HIDE DEF x
  <2>3. o \in obs
    BY <2>1, <2>2 DEF ParabsFor
  <2>4. o.day = On(a, BaseYear(a) + z, m, ParabRoj[m])
    BY <2>1
  <2> QED
    BY <2>3, <2>4
<1> HIDE DEF obs
<1>5. ASSUME NEW z \in Int, NEW m \in M
      PROVE  /\ PlaceOf(a, BaseYear(a) + z, m, ParabRoj[m]) = Cycle(m, ParabRoj[m]) + 360 * z
             /\ In(z, m) <=> /\ Start(a) < PlaceOf(a, BaseYear(a) + z, m, ParabRoj[m])
                             /\ PlaceOf(a, BaseYear(a) + z, m, ParabRoj[m]) <= last
  <2> DEFINE r == ParabRoj[m]
  <2>1. r \in Int /\ m \in Int
    BY <1>2
  <2> HIDE DEF r
  <2>2. PlaceOf(a, BaseYear(a) + z, m, r) = (m - 1) * 30 + r - 1 + 360 * z
    <3>1. (BaseYear(a) + z) - BaseYear(a) = z
      BY <1>1
    <3>2. PlaceOf(a, BaseYear(a) + z, m, r) = 360 * z + 30 * (m - 1) + (r - 1)
      BY <3>1 DEF PlaceOf
    <3> QED
      BY ONLY <3>2, <2>1, z \in Int
  <2>3. Cycle(m, r) = (m - 1) * 30 + r - 1
    BY DEF Cycle, DaysPerMonth
  <2>4. In(z, m) <=> Cycle(m, r) - Start(a) + 360 * z + 1 \in 2 .. 360 * Y + 1
    BY DEF CycleDays, r
  <2>5. /\ PlaceOf(a, BaseYear(a) + z, m, r) = Cycle(m, r) + 360 * z
        /\ In(z, m) <=> Start(a) < PlaceOf(a, BaseYear(a) + z, m, r) /\ PlaceOf(a, BaseYear(a) + z, m, r) <= last
    <3> HIDE DEF In
    <3> QED
      BY <1>1, <2>1, <2>2, <2>3, <2>4
  <2> QED
    BY <2>5 DEF r
<1>6. ASSUME NEW o \in obs, NEW q \in obs, o.day = q.day PROVE o = q
  <2>1. PICK z \in 0 .. Y, m \in M : Turn(o, z, m)
    BY <1>3
  <2>2. PICK y \in 0 .. Y, l \in M : Turn(q, y, l)
    BY <1>3
  <2>3. /\ BaseYear(a) + z \in Int /\ BaseYear(a) + y \in Int
        /\ On(a, BaseYear(a) + z, m, ParabRoj[m]) = On(a, BaseYear(a) + y, l, ParabRoj[l])
    BY <1>1, <1>6, <2>1, <2>2
  <2>4. \A i \in M : ParabRoj[i] \in 1 .. 30
    BY <1>2
  <2>5. BaseYear(a) + z = BaseYear(a) + y /\ m = l
    <3>1. ASSUME NEW u \in Int, NEW w \in Int, NEW i \in M, NEW j \in M,
                 On(a, u, i, ParabRoj[i]) = On(a, w, j, ParabRoj[j])
          PROVE  u = w /\ i = j
      BY ONLY <3>1, <1>1, <1>a, <2>4, Fits(M, ParabRoj, p), DatesDiffer
    <3> QED
      BY ONLY <3>1, <2>3, m \in M, l \in M, Zenon
  <2> QED
    BY <2>1, <2>2, <2>5
<1>7. ASSUME NEW o \in obs
      PROVE  \E k \in Int : o.day = DayAt(a, p[k]) /\ Start(a) < p[k] /\ p[k] <= last
  <2>1. PICK z \in 0 .. Y, m \in M : Turn(o, z, m) /\ In(z, m)
    BY <1>3
  <2>2. z \in Int /\ BaseYear(a) + z \in Int
    BY <1>1
  <2>3. \A i \in M : ParabRoj[i] \in 1 .. 30
    BY <1>2
  <2>4. PICK k \in Int : /\ p[k] = PlaceOf(a, BaseYear(a) + z, m, ParabRoj[m])
                         /\ On(a, BaseYear(a) + z, m, ParabRoj[m]) = DayAt(a, p[k])
    BY ONLY <1>1, <1>a, <2>2, <2>3, m \in M, Fits(M, ParabRoj, p), DateFits
  <2>5. Start(a) < p[k] /\ p[k] <= last
    BY <1>5, <2>1, <2>2, <2>4
  <2> QED
    BY <2>1, <2>4, <2>5
<1>8. ASSUME NEW k \in Int, Start(a) < p[k], p[k] <= last PROVE \E o \in obs : o.day = DayAt(a, p[k])
  <2> DEFINE c == p[k]
             m == MahAt(c)
             z == c \div 360
  <2>1. c \in Int /\ m \in M /\ On(a, BaseYear(a) + z, m, ParabRoj[m]) = DayAt(a, c)
    <3>1. c \in Int
      BY DEF Ascends
    <3> QED
      BY ONLY <3>1, <1>1, <1>a, Ascends(p), Fits(M, ParabRoj, p), k \in Int, PlaceFits
  <2>2. z \in Int /\ 0 <= z /\ z <= Y
    <3>1. 0 <= c /\ c <= 359 + 360 * Y /\ c \in Int
      BY <1>1, <1>8, <2>1
    <3> HIDE DEF c
    <3> QED
      BY <3>1
  <2>3. PlaceOf(a, BaseYear(a) + z, m, ParabRoj[m]) = c
    <3>1. RojAt(c) = ParabRoj[m]
      BY <2>1 DEF Fits
    <3>2. c = 360 * z + (c % 360) /\ c % 360 \in 0 .. 359
      BY <2>1
    <3> HIDE DEF z, c
    <3> DEFINE w == c % 360
    <3>3. w = 30 * (w \div 30) + (w % 30) /\ w \div 30 \in Int /\ w % 30 \in Int
      BY <3>2
    <3>4. MahAt(c) = w \div 30 + 1 /\ RojAt(c) = (w % 30) + 1
      BY DEF MahAt, RojAt
    <3>5. PlaceOf(a, BaseYear(a) + z, MahAt(c), RojAt(c)) = 360 * z + 30 * (w \div 30) + (w % 30)
      BY <1>1, <2>2, <3>3, <3>4 DEF PlaceOf
    <3>6. PlaceOf(a, BaseYear(a) + z, MahAt(c), RojAt(c)) = c
      <4> HIDE DEF w
      <4> QED
        BY <2>2, <3>2, <3>3, <3>5 DEF w
    <3> QED
      BY <3>1, <3>6
  <2>4. In(z, m)
    BY <1>5, <1>8, <2>1, <2>2, <2>3
  <2>5. z \in 0 .. Y
    BY <2>2
  <2> HIDE DEF z, m, c, In
  <2>6. \E o \in obs : o.day = On(a, BaseYear(a) + z, m, ParabRoj[m])
    BY <1>4, <2>1, <2>4, <2>5
  <2> QED
    BY <2>1, <2>6 DEF c
<1>9. IsFiniteSet(obs)
  <2> DEFINE S == (0 .. Y) \X (1 .. 12)
             g == [x \in S |-> [kind |-> "parab", code |-> <<"parab", x[2], BaseYear(a) + x[1]>>,
                                day |-> On(a, BaseYear(a) + x[1], x[2], ParabRoj[x[2]])]]
  <2>1. ASSUME NEW o \in obs PROVE \E x \in S : o = g[x]
    <3>1. PICK z \in 0 .. Y, m \in M : Turn(o, z, m)
      BY <1>3
    <3>2. <<z, m>> \in S
      BY <1>a
    <3>3. o = g[<<z, m>>]
      BY <3>1, <3>2
    <3> QED
      BY <3>2, <3>3
  <2>2. IsFiniteSet(S)
    <3>1. 0 \in Int /\ Y \in Int /\ 1 \in Int /\ 12 \in Int
      OBVIOUS
    <3> QED
      BY ONLY <3>1, GridIsFinite
  <2>3. g = [x \in S |-> g[x]]
    OBVIOUS
  <2> HIDE DEF g, S
  <2> QED
    BY ONLY <2>1, <2>2, <2>3, ImageIsFinite
<1> QED
  BY <1>6, <1>7, <1>8, <1>9 DEF obs

\* How many turns of 360 counted places come before the one that holds place c.
TurnOf(c) == c \div 360

\* A place is its turn, Mah and Roj, and these make the place.
LEMMA PlaceParts ==
    ASSUME NEW c \in Int
    PROVE  /\ TurnOf(c) \in Int /\ MahAt(c) \in 1 .. 12 /\ RojAt(c) \in 1 .. 30
           /\ c = 360 * TurnOf(c) + 30 * (MahAt(c) - 1) + (RojAt(c) - 1)
<1> DEFINE w == c % 360
           q == c \div 360
<1>1. w \in 0 .. 359 /\ q \in Int /\ c = 360 * q + w
  OBVIOUS
<1>2. MahAt(c) = w \div 30 + 1 /\ RojAt(c) = (w % 30) + 1
  BY DEF MahAt, RojAt
<1>3. TurnOf(c) = q
  BY DEF TurnOf
<1> HIDE DEF w, q
<1>4. w = 30 * (w \div 30) + (w % 30) /\ w \div 30 \in 0 .. 11 /\ w % 30 \in 0 .. 29
  BY <1>1
<1> QED
  BY <1>1, <1>2, <1>3, <1>4

\* Its number from these,
Parts(q, s, t) == 360 * q + 30 * s + t

\* and they are read from the number;
LEMMA PartsPlace ==
    ASSUME NEW q \in Int, NEW s \in Int, NEW t \in Int, 0 <= s, s <= 11, 0 <= t, t <= 29
    PROVE  /\ Parts(q, s, t) \in Int /\ Parts(q, s, t) \div 360 = q
           /\ MahAt(Parts(q, s, t)) = s + 1 /\ RojAt(Parts(q, s, t)) = t + 1
<1> DEFINE c == Parts(q, s, t)
           w == 30 * s + t
<1>1. w \in Int /\ 0 <= w /\ w < 360 /\ c = 360 * q + w /\ c \in Int
  BY DEF Parts
<1>2. 360 \in Nat \ {0} /\ 30 \in Nat \ {0}
  OBVIOUS
<1>3. w = 30 * s + t /\ t < 30
  OBVIOUS
<1> HIDE DEF c, w
<1>4. c \div 360 = q /\ c % 360 = w
  BY ONLY <1>1, <1>2, q \in Int, Divided
<1>5. w \div 30 = s /\ w % 30 = t
  BY ONLY <1>2, <1>3, s \in Int, t \in Int, 0 <= t, Divided
<1>6. MahAt(c) = s + 1 /\ RojAt(c) = t + 1
  BY <1>4, <1>5 DEF MahAt, RojAt
<1> QED
  BY <1>1, <1>4, <1>6 DEF c

\* no two places have the same.
LEMMA SamePlace ==
    ASSUME NEW c \in Int, NEW d \in Int, c \div 360 = d \div 360, MahAt(c) = MahAt(d), RojAt(c) = RojAt(d)
    PROVE  c = d
<1>1. /\ c = 360 * TurnOf(c) + 30 * (MahAt(c) - 1) + (RojAt(c) - 1)
      /\ d = 360 * TurnOf(d) + 30 * (MahAt(d) - 1) + (RojAt(d) - 1)
  BY PlaceParts
<1>2. TurnOf(c) = TurnOf(d)
  BY DEF TurnOf
<1> QED
  BY <1>1, <1>2

-----------------------------------------------------------------------------
\* A Roj every month,
LEMMA EveryMonth ==
    ASSUME NEW roj \in Int, roj \in 1 .. 30, NEW R, \A m \in 1 .. 12 : R[m] = roj, NEW p, p = [k \in Int |-> 30 * k + roj - 1]
    PROVE  Recurs(p, 12) /\ Fits(1 .. 12, R, p)
<1>1. p \in [Int -> Int] /\ \A k \in Int : p[k] = 30 * k + roj - 1 /\ p[k] \in Int
  OBVIOUS
<1>2. \A j, k \in Int : j < k => p[j] < p[k]
  BY <1>1
<1>3. ASSUME NEW k \in Int, NEW j \in Int PROVE p[k + 12 * j] = p[k] + 360 * j
  <2>1. k + 12 * j \in Int
    OBVIOUS
  <2>2. p[k + 12 * j] = 30 * (k + 12 * j) + roj - 1
    BY <1>1, <2>1
  <2> QED
    BY <1>1, <2>2
<1>4. Recurs(p, 12)
  BY <1>1, <1>2, <1>3 DEF Recurs, Ascends
<1>5. ASSUME NEW k \in Int PROVE MahAt(p[k]) \in 1 .. 12 /\ RojAt(p[k]) = R[MahAt(p[k])]
  <2> DEFINE q == k \div 12
             s == k % 12
             t == roj - 1
  <2>1. q \in Int /\ s \in 0 .. 11 /\ t \in 0 .. 29 /\ k = 12 * q + s
    OBVIOUS
  <2>2. p[k] = Parts(q, s, t)
    <3>1. p[k] = 30 * k + t
      BY <1>1
    <3> HIDE DEF q, s, t
    <3> QED
      BY <2>1, <3>1 DEF Parts
  <2> HIDE DEF q, s
  <2>3. p[k] \in Int /\ s \in Int /\ t \in Int /\ 0 <= s /\ s <= 11 /\ 0 <= t /\ t <= 29
    BY <1>1, <2>1
  <2> HIDE DEF t
  <2>4. MahAt(p[k]) = s + 1 /\ RojAt(p[k]) = t + 1
    BY ONLY <2>1, <2>2, <2>3, PartsPlace
  <2> QED
    BY <2>1, <2>4 DEF t
<1>6. ASSUME NEW c \in Int, RojAt(c) = R[MahAt(c)] PROVE \E k \in Int : c = p[k]
  <2> DEFINE q == TurnOf(c)
             m == MahAt(c)
             k == 12 * q + m - 1
  <2>1. q \in Int /\ m \in 1 .. 12 /\ c = 360 * q + 30 * (m - 1) + (RojAt(c) - 1)
    BY PlaceParts
  <2>2. RojAt(c) = roj
    BY <1>6, <2>1
  <2> HIDE DEF q, m
  <2>3. k \in Int /\ 30 * k + roj - 1 = c
    BY <2>1, <2>2
  <2> HIDE DEF k
  <2> QED
    BY <1>1, <2>3
<1>7. Fits(1 .. 12, R, p)
  BY <1>5, <1>6 DEF Fits
<1> QED
  BY <1>4, <1>7

\* a day every year,
LEMMA EveryYear ==
    ASSUME NEW m \in Int, m \in 1 .. 12, NEW roj \in Int, roj \in 1 .. 30, NEW R, R[m] = roj,
           NEW p, p = [k \in Int |-> 360 * k + 30 * (m - 1) + (roj - 1)]
    PROVE  Recurs(p, 1) /\ Fits({m}, R, p)
<1>1. p \in [Int -> Int] /\ \A k \in Int : p[k] = 360 * k + 30 * (m - 1) + (roj - 1) /\ p[k] \in Int
  OBVIOUS
<1>2. \A j, k \in Int : j < k => p[j] < p[k]
  BY <1>1
<1>3. ASSUME NEW k \in Int, NEW j \in Int PROVE p[k + 1 * j] = p[k] + 360 * j
  <2>1. k + 1 * j \in Int /\ k + 1 * j = k + j
    OBVIOUS
  <2>2. p[k + j] = 360 * (k + j) + 30 * (m - 1) + (roj - 1)
    BY <1>1
  <2> QED
    BY <1>1, <2>1, <2>2
<1>4. Recurs(p, 1)
  BY <1>1, <1>2, <1>3 DEF Recurs, Ascends
<1>5. ASSUME NEW k \in Int PROVE MahAt(p[k]) = m /\ RojAt(p[k]) = roj
  <2> DEFINE s == m - 1
             t == roj - 1
  <2>1. s \in Int /\ t \in Int /\ 0 <= s /\ s <= 11 /\ 0 <= t /\ t <= 29 /\ p[k] \in Int /\ p[k] = Parts(k, s, t)
    BY <1>1 DEF Parts
  <2>2. s + 1 = m /\ t + 1 = roj
    OBVIOUS
  <2> HIDE DEF s, t
  <2>3. MahAt(p[k]) = s + 1 /\ RojAt(p[k]) = t + 1
    BY ONLY <2>1, k \in Int, PartsPlace
  <2> QED
    BY <2>2, <2>3
<1>6. ASSUME NEW c \in Int, MahAt(c) = m, RojAt(c) = roj PROVE \E k \in Int : c = p[k]
  <2> DEFINE q == TurnOf(c)
  <2>1. q \in Int /\ c = 360 * q + 30 * (MahAt(c) - 1) + (RojAt(c) - 1)
    BY PlaceParts
  <2> HIDE DEF q
  <2>2. c = 360 * q + 30 * (m - 1) + (roj - 1)
    BY ONLY <1>6, <2>1
  <2> QED
    BY <1>1, <2>1, <2>2
<1>7. ASSUME NEW c \in Int PROVE MahAt(c) \in {m} /\ RojAt(c) = R[MahAt(c)] <=> \E k \in Int : c = p[k]
  <2>1. MahAt(c) \in {m} /\ RojAt(c) = R[MahAt(c)] <=> MahAt(c) = m /\ RojAt(c) = roj
    OBVIOUS
  <2>2. ASSUME NEW k \in Int, c = p[k] PROVE MahAt(c) = m /\ RojAt(c) = roj
    BY ONLY <1>5, <2>2
  <2>3. ASSUME MahAt(c) = m, RojAt(c) = roj PROVE \E k \in Int : c = p[k]
    BY ONLY c \in Int, <1>6, <2>3
  <2> QED
    BY <2>1, <2>2, <2>3
<1>8. Fits({m}, R, p)
  BY <1>7 DEF Fits
<1> QED
  BY <1>4, <1>8

\* the Parabs of every Mah,
LEMMA EveryParab ==
    ASSUME NEW p, p = [k \in Int |-> 30 * k + ParabRoj[(k % 12) + 1] - 1]
    PROVE  Recurs(p, 12) /\ Fits(1 .. 12, ParabRoj, p)
<1>1. \A m \in 1 .. 12 : ParabRoj[m] \in 1 .. 30 /\ ParabRoj[m] <= 19 /\ ParabRoj[m] \in Int
  BY ParabRojIs
<1>2. ASSUME NEW k \in Int PROVE (k % 12) + 1 \in 1 .. 12 /\ k = 12 * (k \div 12) + (k % 12) /\ k \div 12 \in Int
  OBVIOUS
<1>3. ASSUME NEW k \in Int
      PROVE  /\ p[k] = 30 * k + ParabRoj[(k % 12) + 1] - 1 /\ p[k] \in Int
             /\ 30 * k <= p[k] /\ p[k] <= 30 * k + 18
  <2>1. p[k] = 30 * k + ParabRoj[(k % 12) + 1] - 1
    OBVIOUS
  <2> DEFINE r == ParabRoj[(k % 12) + 1]
  <2>2. r \in 1 .. 30 /\ r <= 19 /\ r \in Int
    BY <1>1, <1>2
  <2> HIDE DEF r
  <2> QED
    BY <2>1, <2>2 DEF r
<1>4. p \in [Int -> Int]
  <2>1. p = [k \in Int |-> p[k]]
    OBVIOUS
  <2> QED
    BY <1>3, <2>1
<1>5. ASSUME NEW j \in Int, NEW k \in Int, j < k PROVE p[j] < p[k]
  <2>1. /\ p[j] \in Int /\ p[k] \in Int /\ p[j] <= 30 * j + 18 /\ 30 * k <= p[k]
    BY <1>3
  <2> QED
    BY <1>5, <2>1
<1>6. ASSUME NEW k \in Int, NEW j \in Int PROVE p[k + 12 * j] = p[k] + 360 * j
  <2>1. k + 12 * j \in Int
    OBVIOUS
  <2>2. (k + 12 * j) % 12 = k % 12
    <3>1. /\ (k \div 12) + j \in Int /\ k % 12 \in Int /\ 0 <= k % 12 /\ k % 12 < 12
          /\ k + 12 * j = 12 * ((k \div 12) + j) + (k % 12)
      BY <1>2
    <3> DEFINE l == k \div 12 + j
               x == k % 12
               c == k + 12 * j
               n == 12
    <3>2. n \in Nat \ {0} /\ l \in Int /\ x \in Int /\ 0 <= x /\ x < n /\ c = n * l + x
      BY <3>1
    <3> HIDE DEF l, x, c, n
    <3>3. c % n = x
      BY ONLY <3>2, Divided
    <3> QED
      BY <3>3 DEF c, n, x
  <2>3. p[k + 12 * j] = 30 * (k + 12 * j) + ParabRoj[(k % 12) + 1] - 1
    BY <1>3, <2>1, <2>2
  <2>4. ParabRoj[(k % 12) + 1] \in Int /\ p[k] = 30 * k + ParabRoj[(k % 12) + 1] - 1
    BY <1>1, <1>2, <1>3
  <2> QED
    BY <2>3, <2>4
<1>7. Recurs(p, 12)
  BY <1>4, <1>5, <1>6 DEF Recurs, Ascends
<1>8. ASSUME NEW k \in Int PROVE MahAt(p[k]) \in 1 .. 12 /\ RojAt(p[k]) = ParabRoj[MahAt(p[k])]
  <2> DEFINE q == k \div 12
             s == k % 12
             t == ParabRoj[s + 1] - 1
  <2>1. q \in Int /\ s \in Int /\ 0 <= s /\ s <= 11 /\ k = 12 * q + s /\ s + 1 \in 1 .. 12
    BY <1>2
  <2>2. t \in Int /\ 0 <= t /\ t <= 29 /\ t + 1 = ParabRoj[s + 1]
    <3> DEFINE r == ParabRoj[s + 1]
    <3>1. r \in 1 .. 30 /\ r \in Int
      BY <1>1, <2>1
    <3>2. t = r - 1
      OBVIOUS
    <3> HIDE DEF r, t
    <3>3. t \in Int /\ 0 <= t /\ t <= 29 /\ t + 1 = r
      BY <3>1, <3>2
    <3> QED
      BY <3>3 DEF r
  <2>3. p[k] = Parts(q, s, t) /\ p[k] \in Int
    <3>1. p[k] = 30 * k + ParabRoj[s + 1] - 1 /\ p[k] \in Int /\ ParabRoj[s + 1] \in Int
      BY <1>1, <1>3, <2>1
    <3> HIDE DEF q, s
    <3> QED
      BY <2>1, <3>1 DEF Parts
  <2> HIDE DEF q, s, t
  <2>4. MahAt(p[k]) = s + 1 /\ RojAt(p[k]) = t + 1
    BY ONLY <2>1, <2>2, <2>3, PartsPlace
  <2> QED
    BY <2>1, <2>2, <2>4
<1>9. ASSUME NEW c \in Int, RojAt(c) = ParabRoj[MahAt(c)] PROVE \E k \in Int : c = p[k]
  <2> DEFINE q == TurnOf(c)
             m == MahAt(c)
             k == 12 * q + (m - 1)
  <2>1. q \in Int /\ m \in 1 .. 12 /\ c = 360 * q + 30 * (m - 1) + (RojAt(c) - 1)
    BY PlaceParts
  <2>2. RojAt(c) = ParabRoj[m] /\ ParabRoj[m] \in Int
    BY <1>1, <1>9, <2>1
  <2> HIDE DEF q, m
  <2>3. k % 12 = m - 1
    <3> DEFINE x == m - 1
               n == 12
    <3>1. x \in Int /\ 0 <= x /\ x < n /\ k = n * q + x /\ n \in Nat \ {0}
      BY <2>1
    <3> HIDE DEF k, n, x
    <3>0. q \in Int
      BY <2>1
    <3>2. k % n = x
      BY ONLY <3>0, <3>1, Divided
    <3> QED
      BY <3>2 DEF n, x
  <2>4. k \in Int /\ (k % 12) + 1 = m
    BY <2>1, <2>3
  <2>5. p[k] = 30 * k + ParabRoj[m] - 1
    <3> HIDE DEF k
    <3> QED
      BY <1>3, <2>4
  <2>6. p[k] = c
    BY <2>1, <2>2, <2>5
  <2> HIDE DEF k
  <2> QED
    BY <2>4, <2>6
<1>10. Fits(1 .. 12, ParabRoj, p)
  BY <1>8, <1>9 DEF Fits
<1> QED
  BY <1>7, <1>10

\* or those of Fravardin and Tir, two to a turn.
LEMMA FravardinAndTir ==
    ASSUME NEW p, p = [k \in Int |-> 360 * (k \div 2) + IF k % 2 = 0 THEN 18 ELSE 102]
    PROVE  Recurs(p, 2) /\ Fits({1, 4}, ParabRoj, p)
<1>1. ASSUME NEW k \in Int
      PROVE  /\ k \div 2 \in Int /\ k % 2 \in {0, 1} /\ k = 2 * (k \div 2) + (k % 2)
             /\ k % 2 = 0 => p[k] = 360 * (k \div 2) + 18
             /\ k % 2 = 1 => p[k] = 360 * (k \div 2) + 102
             /\ p[k] \in Int
  OBVIOUS
<1>2. p \in [Int -> Int]
  <2>1. p = [k \in Int |-> p[k]]
    OBVIOUS
  <2> QED
    BY <1>1, <2>1
<1>3. ASSUME NEW j \in Int, NEW k \in Int, j < k PROVE p[j] < p[k]
  <2> DEFINE u == j \div 2
             v == k \div 2
             x == j % 2
             y == k % 2
  <2>1. /\ u \in Int /\ v \in Int /\ x \in {0, 1} /\ y \in {0, 1} /\ j = 2 * u + x /\ k = 2 * v + y
        /\ p[j] \in Int /\ p[k] \in Int
        /\ (x = 0 => p[j] = 360 * u + 18) /\ (x = 1 => p[j] = 360 * u + 102)
        /\ (y = 0 => p[k] = 360 * v + 18) /\ (y = 1 => p[k] = 360 * v + 102)
    BY <1>1
  <2> HIDE DEF u, v, x, y
  <2>2. u < v \/ (u = v /\ x = 0 /\ y = 1)
    BY <1>3, <2>1
  <2> QED
    BY <2>1, <2>2
<1>4. ASSUME NEW k \in Int, NEW j \in Int PROVE p[k + 2 * j] = p[k] + 360 * j
  <2>1. k + 2 * j \in Int
    OBVIOUS
  <2>2. (k + 2 * j) % 2 = k % 2 /\ (k + 2 * j) \div 2 = k \div 2 + j
    <3>1. /\ (k \div 2) + j \in Int /\ k % 2 \in Int /\ 0 <= k % 2 /\ k % 2 < 2
          /\ k + 2 * j = 2 * ((k \div 2) + j) + (k % 2)
      BY <1>1
    <3> DEFINE l == k \div 2 + j
               x == k % 2
               c == k + 2 * j
               n == 2
    <3>2. n \in Nat \ {0} /\ l \in Int /\ x \in Int /\ 0 <= x /\ x < n /\ c = n * l + x
      BY <3>1
    <3> HIDE DEF l, x, c, n
    <3>3. c \div n = l /\ c % n = x
      BY ONLY <3>2, Divided
    <3> QED
      BY <3>3 DEF c, n, x, l
  <2>3. CASE k % 2 = 0
    <3>1. p[k + 2 * j] = 360 * (k \div 2 + j) + 18 /\ p[k] = 360 * (k \div 2) + 18
      BY <1>1, <2>1, <2>2, <2>3
    <3> QED
      BY <1>1, <3>1
  <2>4. CASE k % 2 = 1
    <3>1. p[k + 2 * j] = 360 * (k \div 2 + j) + 102 /\ p[k] = 360 * (k \div 2) + 102
      BY <1>1, <2>1, <2>2, <2>4
    <3> QED
      BY <1>1, <3>1
  <2> QED
    BY <1>1, <2>3, <2>4
<1>5. Recurs(p, 2)
  BY <1>2, <1>3, <1>4 DEF Recurs, Ascends
<1>6. ASSUME NEW k \in Int PROVE MahAt(p[k]) \in {1, 4} /\ RojAt(p[k]) = ParabRoj[MahAt(p[k])]
  <2> DEFINE q == k \div 2
  <2>1. q \in Int /\ p[k] \in Int
    BY <1>1
  <2>2. CASE k % 2 = 0
    <3>1. p[k] = Parts(q, 0, 18) /\ 0 \in Int /\ 18 \in Int /\ 0 <= 0 /\ 0 <= 11 /\ 0 <= 18 /\ 18 <= 29
      BY <1>1, <2>2 DEF Parts
    <3> HIDE DEF q
    <3>2. MahAt(p[k]) = 0 + 1 /\ RojAt(p[k]) = 18 + 1
      BY ONLY <2>1, <3>1, PartsPlace
    <3> QED
      BY <3>2, ParabRojIs
  <2>3. CASE k % 2 = 1
    <3>1. p[k] = Parts(q, 3, 12) /\ 3 \in Int /\ 12 \in Int /\ 0 <= 3 /\ 3 <= 11 /\ 0 <= 12 /\ 12 <= 29
      BY <1>1, <2>3 DEF Parts
    <3> HIDE DEF q
    <3>2. MahAt(p[k]) = 3 + 1 /\ RojAt(p[k]) = 12 + 1
      BY ONLY <2>1, <3>1, PartsPlace
    <3> QED
      BY <3>2, ParabRojIs
  <2> QED
    BY <1>1, <2>2, <2>3
<1>7. ASSUME NEW c \in Int, MahAt(c) \in {1, 4}, RojAt(c) = ParabRoj[MahAt(c)] PROVE \E k \in Int : c = p[k]
  <2> DEFINE q == TurnOf(c)
  <2>1. q \in Int /\ c = 360 * q + 30 * (MahAt(c) - 1) + (RojAt(c) - 1)
    BY PlaceParts
  <2>2. (MahAt(c) = 1 /\ RojAt(c) = 19) \/ (MahAt(c) = 4 /\ RojAt(c) = 13)
    BY <1>7, ParabRojIs
  <2> HIDE DEF q
  <2>3. CASE MahAt(c) = 1 /\ RojAt(c) = 19
    <3>1. (2 * q) % 2 = 0 /\ (2 * q) \div 2 = q /\ 2 * q \in Int
      BY <2>1
    <3>2. p[2 * q] = 360 * q + 18
      BY <1>1, <3>1
    <3>3. c = p[2 * q]
      BY <2>1, <2>3, <3>2
    <3> QED
      BY <3>1, <3>3
  <2>4. CASE MahAt(c) = 4 /\ RojAt(c) = 13
    <3>1. (2 * q + 1) % 2 = 1 /\ (2 * q + 1) \div 2 = q /\ 2 * q + 1 \in Int
      BY <2>1
    <3>2. p[2 * q + 1] = 360 * q + 102
      BY <1>1, <3>1
    <3>3. c = p[2 * q + 1]
      BY <2>1, <2>4, <3>2
    <3> QED
      BY <3>1, <3>3
  <2> QED
    BY <2>2, <2>3, <2>4
<1>8. Fits({1, 4}, ParabRoj, p)
  BY <1>6, <1>7 DEF Fits
<1> QED
  BY <1>5, <1>8

-----------------------------------------------------------------------------
(***************************************************************************)
(* Fravardin Roj, birthdays and Parabs are what the words mean.            *)
(***************************************************************************)

\* A span of W places is looked at by looking k months on.
Covers(k, W) == 366 * W + 2154 <= 11160 * (k + 2)
Lengths(a) == {12, 12 * a.years, 12 * a.parabYears, 12 * a.birthdayYears, a.months, a.fravardin,
               8 * a.parabCount}

\* The last of n places is looked at, if so many months on are.
LEMMA LookedAtToTheLast ==
    ASSUME NEW a, Memorial(a), InReach(a), NEW p, Ascends(p), NEW v \in Int, Begins(a, p, v),
           NEW w \in Int, v - 1 <= w, NEW W \in Nat, p[w] <= p[v - 1] + W,
           NEW k \in Lengths(a), Covers(k, W)
    PROVE  DayAt(a, p[w]) <= LookTo(a)
<1> DEFINE y == DayAt(a, p[w])
           x == Began(a)
<1>1. y \in Int /\ Near(x, y, W)
  BY UpToTheLast DEF Memorial
<1>2. k \in Nat /\ x + 31 * (k + 2) <= LookTo(a) /\ x \in Int /\ LookTo(a) \in Int
  BY LooksFarEnough DEF Lengths
<1> HIDE DEF x, y
<1>3. 360 * y <= 360 * x + 366 * W + 2154 /\ 366 * W + 2154 <= 11160 * (k + 2)
  BY <1>1 DEF Near, Covers
<1>4. y <= LookTo(a)
  BY <1>1, <1>2, <1>3
<1> QED
  BY <1>4 DEF y

\* The Parsi year of a place so many turns after the start.
LEMMA YearWithin ==
    ASSUME NEW a, DeathGiven(a), NEW c \in Int, NEW z \in Int, c <= Start(a) + 360 * z
    PROVE  BaseYear(a) + c \div 360 \in Int /\ BaseYear(a) + c \div 360 <= a.year + z
<1>1. /\ BaseYear(a) \in Int /\ a.year \in Int
      /\ Gatha(a) => BaseYear(a) = a.year + 1 /\ Start(a) = -1
      /\ ~Gatha(a) => BaseYear(a) = a.year /\ Start(a) \in Int /\ Start(a) <= 359
  BY BaseIs, AfterTheDeath
<1> DEFINE q == c \div 360
<1>2. q \in Int /\ 360 * q <= c
  OBVIOUS
<1> HIDE DEF q
<1>3. CASE Gatha(a)
  <2>1. 360 * q <= 360 * z - 1
    BY <1>1, <1>2, <1>3
  <2>2. q <= z - 1
    BY <1>2, <2>1
  <2> QED
    BY <1>1, <1>2, <1>3, <2>2 DEF q
<1>4. CASE ~Gatha(a)
  <2>1. 360 * q <= 359 + 360 * z
    BY <1>1, <1>2, <1>4
  <2>2. q <= z
    BY <1>2, <2>1
  <2> QED
    BY <1>1, <1>2, <1>4, <2>2 DEF q
<1> QED
  BY <1>3, <1>4

\* Found by its Roj in any Mah.
LEMMA MahsAreTwelve ==
    ASSUME NEW a, Memorial(a), InReach(a), NEW x \in InMahs(ReadDays(a)) PROVE x.mah \in 1 .. 12
<1>1. PICK c \in Int : x = At(a, c)
  BY RojDaysAre
<1> QED
  BY <1>1, PlaceParts DEF At
-----------------------------------------------------------------------------
\* The first so many Fravardin Rojs of the words.
FravardinMeant(a) == Earliest(a, a.fravardin, DaysOf({x \in InMahs(ReadDays(a)) : x.roj = FravardinRoj}))

\* The schedule has those Fravardin Rojs.
LEMMA FravardinsAreMeant ==
    ASSUME NEW a, Memorial(a), InReach(a)
    PROVE  DaysOf(FravardinRojs(a)) = FravardinMeant(a)
<1> DEFINE n == a.fravardin
           R == [m \in 1 .. 12 |-> 19]
           p == [k \in Int |-> 30 * k + 19 - 1]
<1>1. DeathGiven(a) /\ n \in Nat /\ n \in Lengths(a)
  BY DEF Memorial, ChoiceMade, Lengths
<1>2. \A m \in 1 .. 12 : R[m] = 19
  OBVIOUS
<1>3. p = [k \in Int |-> 30 * k + 19 - 1] /\ \A k \in Int : p[k] = 30 * k + 18
  OBVIOUS
<1>4. 19 \in Int /\ 19 \in 1 .. 30
  OBVIOUS
<1> HIDE DEF R, p, n
<1>5. Recurs(p, 12) /\ Fits(1 .. 12, R, p)
  BY ONLY <1>2, <1>3, <1>4, EveryMonth
<1>6. Ascends(p)
  BY <1>5 DEF Recurs
<1>7. PICK v \in Int : Begins(a, p, v)
  BY <1>1, <1>5, SeriesBegins
<1> DEFINE w == v + n - 1
<1>8. w \in Int /\ v - 1 <= w /\ 30 * n \in Nat /\ p[w] <= p[v - 1] + 30 * n /\ w = v + n - 1
  <2>1. p[w] = 30 * (v + n - 1) + 18 /\ p[v - 1] = 30 * (v - 1) + 18
    BY <1>1, <1>3
  <2> QED
    BY <1>1, <2>1
<1>9. Covers(n, 30 * n)
  BY <1>1 DEF Covers
<1> HIDE DEF w
<1>10. DayAt(a, p[w]) <= LookTo(a)
  BY ONLY Memorial(a), InReach(a), <1>1, <1>6, <1>7, <1>8, <1>9, LookedAtToTheLast
<1>11. BaseYear(a) + p[w] \div 360 <= a.year + n \div 12 + 2 + Gone(a)
  <2>1. p[w] \in Int /\ p[w] <= Start(a) + 360 * Gone(a) + 30 * n
    BY <1>1, <1>6, <1>7, <1>8, UpToTheLast
  <2>2. Gone(a) \in Nat /\ Start(a) \in Int /\ a.year \in Int
    BY <1>1, GoneIs, AfterTheDeath DEF DeathGiven
  <2> DEFINE q == n \div 12
             z == Gone(a) + q + 1
  <2>3. q \in Int /\ n <= 12 * q + 12
    BY <1>1
  <2> HIDE DEF q
  <2>4. z \in Int /\ p[w] <= Start(a) + 360 * z
    BY <1>1, <2>1, <2>2, <2>3
  <2>5. z = Gone(a) + q + 1
    OBVIOUS
  <2> HIDE DEF z
  <2>6. BaseYear(a) + p[w] \div 360 <= a.year + z /\ BaseYear(a) + p[w] \div 360 \in Int
    BY <1>1, <2>1, <2>4, YearWithin
  <2>7. a.year + z <= a.year + q + 2 + Gone(a) /\ a.year + z \in Int /\ a.year + q + 2 + Gone(a) \in Int
    BY <2>2, <2>3, <2>5
  <2> DEFINE y == BaseYear(a) + p[w] \div 360
  <2> HIDE DEF y
  <2>8. y <= a.year + q + 2 + Gone(a)
    BY <2>6, <2>7 DEF y
  <2> QED
    BY <2>8 DEF y, q
<1>12. DaysOf(FravardinRojs(a)) = Run(DaysAt(a, p), v, n)
  <2> DEFINE B == a.year + n \div 12 + 2 + Gone(a)
  <2>1. B \in Int /\ BaseYear(a) + p[v + n - 1] \div 360 <= B
    BY <1>1, <1>8, <1>11, GoneIs DEF DeathGiven
  <2>2. FravardinRojs(a) = TimesOf(a, "fravardin", n, 1 .. 12, 19, a.year .. B)
    BY DEF FravardinRojs, FravardinRoj, n
  <2> DEFINE M == 1 .. 12
             roj == 19
             kind == "fravardin"
  <2>9. YearsReach(a, p, v, n, B)
    BY <2>1 DEF YearsReach
  <2>3. /\ M \in SUBSET (1 .. 12) /\ roj \in Int /\ roj \in 1 .. 30 /\ Fits(M, R, p)
        /\ SameRoj(R, roj)
    BY <1>2, <1>5 DEF SameRoj
  <2>4. FravardinRojs(a) = TimesUpTo(a, kind, n, M, roj, B)
    BY <2>2 DEF TimesUpTo
  <2> HIDE DEF B, M, roj, kind
  <2>5. DaysOf(TimesUpTo(a, kind, n, M, roj, B)) = Run(DaysAt(a, p), v, n)
    <3>1. n \in Nat /\ B \in Int
      BY <1>1, <2>1
    <3> QED
      BY ONLY Memorial(a), v \in Int, <1>6, <1>7, <2>3, <2>9, <3>1, TimesAreTheRun
  <2> QED
    BY <2>4, <2>5
<1>13. FravardinMeant(a) = Run(DaysAt(a, p), v, n)
  <2> DEFINE S == FoundBy(a, 1 .. 12, R)
  <2>1. Finds(a, p, S)
    BY <1>5, <1>6, FitsFinds
  <2>2. S = DaysOf({x \in InMahs(ReadDays(a)) : x.roj = FravardinRoj})
    <3>1. \A x \in InMahs(ReadDays(a)) : x.mah \in 1 .. 12 /\ R[x.mah] = 19
      BY <1>2, MahsAreTwelve
    <3> QED
      BY <3>1 DEF FoundBy, FravardinRoj
  <2> HIDE DEF S
  <2>3. Earliest(a, n, S) = Run(DaysAt(a, p), v, n)
    BY <1>1, <1>6, <1>7, <1>8, <1>10, <2>1, FoundInWords
  <2> QED
    BY <2>2, <2>3 DEF FravardinMeant, n
<1> QED
  BY <1>12, <1>13

\* The first so many birthdays of the words.
BirthdayMeant(a) ==
    Earliest(a, a.birthdayYears, DaysOf({x \in InMahs(ReadDays(a)) : <<x.roj, x.mah>> = a.birthday}))

\* Of no days there is no first.
LEMMA NoneIsEarliest == ASSUME NEW a, NEW n PROVE Earliest(a, n, {}) = {} /\ DaysOf({}) = {}
BY DEF Earliest, StillAhead, DaysOf

\* The schedule has those birthdays.
LEMMA BirthdaysAreMeant ==
    ASSUME NEW a, Memorial(a), InReach(a)
    PROVE  DaysOf(Birthdays(a)) = BirthdayMeant(a)
<1> DEFINE n == a.birthdayYears
           roj == a.birthday[1]
           m == a.birthday[2]
           R == [l \in 1 .. 12 |-> roj]
           p == [k \in Int |-> 360 * k + 30 * (m - 1) + (roj - 1)]
<1>1. DeathGiven(a) /\ n \in Nat /\ 12 * n \in Lengths(a)
  BY DEF Memorial, ChoiceMade, Lengths
<1>2. CASE a.birthday = <<>>
  <2>1. Birthdays(a) = {}
    BY <1>2 DEF Birthdays
  <2>2. {x \in InMahs(ReadDays(a)) : <<x.roj, x.mah>> = a.birthday} = {}
    BY <1>2
  <2> QED
    BY <2>1, <2>2, NoneIsEarliest DEF BirthdayMeant
<1>3. CASE a.birthday # <<>>
  <2>1. /\ a.birthday = <<roj, m>> /\ roj \in 1 .. 30 /\ m \in 1 .. 12
        /\ roj \in Int /\ m \in Int
    <3>1. a.birthday \in (1 .. 30) \X (1 .. 12)
      BY <1>3 DEF Memorial, ChoiceMade
    <3> QED
      BY <3>1
  <2>2. \A l \in 1 .. 12 : R[l] = roj
    OBVIOUS
  <2>3. p = [k \in Int |-> 360 * k + 30 * (m - 1) + (roj - 1)]
        /\ \A k \in Int : p[k] = 360 * k + 30 * (m - 1) + (roj - 1)
    OBVIOUS
  <2> HIDE DEF R, p, n, roj, m
  <2>4. R[m] = roj
    BY <2>1, <2>2
  <2>5. Recurs(p, 1) /\ Fits({m}, R, p)
    <3>1. p = [k \in Int |-> 360 * k + 30 * (m - 1) + (roj - 1)]
      BY <2>3
    <3>2. m \in Int /\ m \in 1 .. 12 /\ roj \in Int /\ roj \in 1 .. 30
      BY <2>1
    <3> QED
      BY ONLY <2>4, <3>1, <3>2, EveryYear
  <2>6. Ascends(p)
    BY <2>5 DEF Recurs
  <2>7. PICK v \in Int : Begins(a, p, v)
    BY <1>1, <2>5, SeriesBegins
  <2> DEFINE w == v + n - 1
  <2>8. w \in Int /\ v - 1 <= w /\ 360 * n \in Nat /\ p[w] <= p[v - 1] + 360 * n /\ w = v + n - 1
    <3>1. w \in Int /\ v - 1 \in Int
      BY <1>1
    <3>2. p[w] = 360 * w + 30 * (m - 1) + (roj - 1) /\ p[v - 1] = 360 * (v - 1) + 30 * (m - 1) + (roj - 1)
      BY <2>3, <3>1
    <3> QED
      BY <1>1, <2>1, <3>2
  <2>9. Covers(12 * n, 360 * n)
    BY <1>1 DEF Covers
  <2> HIDE DEF w
  <2>10. DayAt(a, p[w]) <= LookTo(a)
    <3> DEFINE k == 12 * n
               W == 360 * n
    <3>1. W \in Nat /\ p[w] <= p[v - 1] + W /\ k \in Lengths(a) /\ Covers(k, W)
      BY <1>1, <2>8, <2>9
    <3> HIDE DEF k, W
    <3> QED
      BY ONLY Memorial(a), InReach(a), <2>6, <2>7, <2>8, <3>1, LookedAtToTheLast
  <2> DEFINE B == a.year + n + 1 + Gone(a)
  <2>11. B \in Int /\ BaseYear(a) + p[w] \div 360 <= B
    <3>1. p[w] \in Int /\ p[w] <= Start(a) + 360 * Gone(a) + 360 * n
      BY <1>1, <2>6, <2>7, <2>8, UpToTheLast
    <3>2. Gone(a) \in Nat /\ Start(a) \in Int /\ a.year \in Int
      BY <1>1, GoneIs, AfterTheDeath DEF DeathGiven
    <3> DEFINE z == Gone(a) + n
    <3>3. z \in Int /\ p[w] <= Start(a) + 360 * z
      BY <1>1, <3>1, <3>2
    <3>4. z = Gone(a) + n
      OBVIOUS
    <3> HIDE DEF z
    <3> DEFINE y == BaseYear(a) + p[w] \div 360
    <3>5. y <= a.year + z /\ y \in Int
      BY <1>1, <3>1, <3>3, YearWithin
    <3> HIDE DEF y
    <3>6. B \in Int /\ y <= B
      BY <1>1, <3>2, <3>4, <3>5
    <3> QED
      BY <3>6 DEF y
  <2>12. DaysOf(Birthdays(a)) = Run(DaysAt(a, p), v, n)
    <3> DEFINE M == {m}
               kind == "birthday"
    <3>1. Birthdays(a) = TimesUpTo(a, kind, n, M, roj, B)
      BY <1>3 DEF Birthdays, n, roj, m, TimesUpTo
    <3>2. M \in SUBSET (1 .. 12) /\ Fits(M, R, p) /\ SameRoj(R, roj)
      BY <2>1, <2>2, <2>5 DEF SameRoj
    <3>3. YearsReach(a, p, v, n, B)
      BY <2>8, <2>11 DEF YearsReach
    <3> HIDE DEF B, M, kind
    <3>4. DaysOf(TimesUpTo(a, kind, n, M, roj, B)) = Run(DaysAt(a, p), v, n)
      <4>1. n \in Nat /\ B \in Int /\ roj \in Int /\ roj \in 1 .. 30
        BY <1>1, <2>1, <2>11
      <4> QED
        BY ONLY Memorial(a), v \in Int, <2>6, <2>7, <3>2, <3>3, <4>1, TimesAreTheRun
    <3> QED
      BY <3>1, <3>4
  <2>13. BirthdayMeant(a) = Run(DaysAt(a, p), v, n)
    <3> DEFINE S == FoundBy(a, {m}, R)
    <3>1. Finds(a, p, S)
      BY <2>5, <2>6, FitsFinds
    <3>2. S = DaysOf({x \in InMahs(ReadDays(a)) : <<x.roj, x.mah>> = a.birthday})
      <4>1. \A x \in InMahs(ReadDays(a)) :
                x.mah \in {m} /\ x.roj = R[x.mah] <=> <<x.roj, x.mah>> = a.birthday
        <5>1. TAKE x \in InMahs(ReadDays(a))
        <5>2. <<x.roj, x.mah>> = a.birthday <=> x.roj = roj /\ x.mah = m
          BY <2>1
        <5> QED
          BY <2>4, <5>2
      <4> QED
        BY <4>1 DEF FoundBy
    <3> HIDE DEF S
    <3>3. Earliest(a, n, S) = Run(DaysAt(a, p), v, n)
      BY <1>1, <2>6, <2>7, <2>8, <2>10, <3>1, FoundInWords
    <3> QED
      BY <3>2, <3>3 DEF BirthdayMeant, n
  <2> QED
    BY <2>12, <2>13
<1> QED
  BY <1>2, <1>3

\* The Parabs asked for recur.
LEMMA ParabSeries ==
    ASSUME NEW a, ChoiceMade(a), a.parabs # "none"
    PROVE  \E p, N : /\ N \in {2, 12} /\ Cardinality(ParabMahs(a.parabs)) = N
                     /\ Recurs(p, N) /\ Fits(ParabMahs(a.parabs), ParabRoj, p)
<1>1. CASE a.parabs = "all"
  <2> DEFINE p == [k \in Int |-> 30 * k + ParabRoj[(k % 12) + 1] - 1]
  <2>1. Recurs(p, 12) /\ Fits(1 .. 12, ParabRoj, p)
    BY EveryParab
  <2> HIDE DEF p
  <2> QED
    BY <1>1, <2>1, ParabMahsAre
<1>2. CASE a.parabs = "fravardin_tir"
  <2> DEFINE p == [k \in Int |-> 360 * (k \div 2) + IF k % 2 = 0 THEN 18 ELSE 102]
  <2>1. Recurs(p, 2) /\ Fits({1, 4}, ParabRoj, p)
    BY FravardinAndTir
  <2> HIDE DEF p
  <2> QED
    BY <1>2, <2>1, ParabMahsAre
<1> QED
  BY <1>1, <1>2 DEF ChoiceMade

\* So many turns of the cycle have the n-th of the series.
TurnsReach(a, p, v, n, Y) == n = 0 \/ p[v + n - 1] <= Start(a) + 360 * Y

\* The first n of the Parabs, in the turns that have the n-th of them.
LEMMA FirstParabs ==
    ASSUME NEW a, Memorial(a), NEW p, Ascends(p), Fits(ParabMahs(a.parabs), ParabRoj, p),
           NEW v \in Int, Begins(a, p, v), NEW n \in Nat, NEW Y \in Nat, TurnsReach(a, p, v, n, Y)
    PROVE  DaysOf(FirstOf(n, Ahead(a, ParabsFor(a, Y)))) = Run(DaysAt(a, p), v, n)
<1> DEFINE f == DaysAt(a, p)
           obs == ParabsFor(a, Y)
           last == Start(a) + 360 * Y
<1>1. DeathGiven(a) /\ \A k \in Int : p[k] \in Int
  BY DEF Memorial, Ascends
<1>2. Ascends(f) /\ \A k \in Int : f[k] = DayAt(a, p[k])
  BY <1>1, DaysAscend
<1>3. /\ IsFiniteSet(obs)
      /\ \A o, q \in obs : o.day = q.day => o = q
      /\ \A o \in obs : \E k \in Int : o.day = DayAt(a, p[k]) /\ Start(a) < p[k] /\ p[k] <= last
      /\ \A k \in Int : Start(a) < p[k] /\ p[k] <= last => \E o \in obs : o.day = DayAt(a, p[k])
  BY ParabsForAre
<1>4. Start(a) \in Int /\ last \in Int
  BY <1>1, AfterTheDeath
<1>5. n = 0 \/ p[v + n - 1] <= last
  BY DEF TurnsReach
<1> HIDE DEF f, obs, last
<1>6. \A o \in obs : \E k \in Int : o.day = f[k] /\ (a.from <= o.day => v <= k)
  BY <1>2, <1>3 DEF Begins, Counts
<1>7. ASSUME NEW i \in v .. v + n - 1 PROVE a.from <= f[i] /\ \E o \in obs : o.day = f[i]
  <2>1. i \in Int /\ v <= i /\ i <= v + n - 1 /\ v + n - 1 \in Int /\ n # 0
    OBVIOUS
  <2>2. Start(a) < p[i] /\ a.from <= DayAt(a, p[i])
    BY <2>1 DEF Begins, Counts
  <2>3. p[i] \in Int /\ p[v + n - 1] \in Int /\ (i < v + n - 1 => p[i] < p[v + n - 1])
    BY <2>1 DEF Ascends
  <2>4. p[i] <= last
    BY <1>4, <1>5, <2>1, <2>3
  <2> QED
    BY <1>2, <1>3, <2>1, <2>2, <2>4
<1>8. DaysOf(FirstOf(n, Ahead(a, obs))) = Run(f, v, n)
  BY ONLY <1>2, <1>3, <1>6, <1>7, v \in Int, n \in Nat, FirstIsRun
<1> QED
  BY <1>8 DEF f, obs

TurnsLater(p, i, k, j) == p[i] = p[k] + 360 * j

\* What recurs does so some turns on.
LEMMA TurnsOn ==
    ASSUME NEW p, NEW N, Recurs(p, N), NEW k \in Int, NEW j \in Int, NEW i, i = k + N * j
    PROVE  TurnsLater(p, i, k, j)
BY DEF Recurs, TurnsLater

\* Counted from the death, the Parabs of so many turns are the first so many.
LEMMA AllParabs ==
    ASSUME NEW a, Memorial(a), a.from = NoDay, NEW p, NEW N \in {2, 12}, Recurs(p, N),
           Fits(ParabMahs(a.parabs), ParabRoj, p), NEW v \in Int, Begins(a, p, v), NEW Y \in Nat
    PROVE  DaysOf(ParabsFor(a, Y)) = Run(DaysAt(a, p), v, N * Y)
<1> DEFINE f == DaysAt(a, p)
           obs == ParabsFor(a, Y)
           last == Start(a) + 360 * Y
           n == N * Y
<1>1. DeathGiven(a) /\ Ascends(p) /\ \A k \in Int : p[k] \in Int
  BY DEF Memorial, Ascends, Recurs
<1>2. \A k \in Int : f[k] = DayAt(a, p[k])
  BY <1>1, DaysAscend
<1>3. /\ \A o \in obs : \E k \in Int : o.day = DayAt(a, p[k]) /\ Start(a) < p[k] /\ p[k] <= last
      /\ \A k \in Int : Start(a) < p[k] /\ p[k] <= last => \E o \in obs : o.day = DayAt(a, p[k])
  BY <1>1, ParabsForAre
<1>4. Start(a) \in Int /\ last \in Int /\ n \in Nat /\ v - 1 \in Int /\ v + n \in Int /\ N \in Nat
  BY <1>1, AfterTheDeath
<1>5. \A k \in Int : Start(a) < p[k] <=> v <= k
  <2>1. \A k \in Int : Start(a) < p[k] => a.from <= DayAt(a, p[k])
    <3> TAKE k \in Int
    <3>1. DeathDay(a) \in Int /\ 1000 < DeathDay(a) /\ DayAt(a, p[k]) \in Int
      BY <1>1, DeathDayIs, PlaceHasDay
    <3>2. Start(a) < p[k] => DeathDay(a) < DayAt(a, p[k])
      BY <1>1, AfterTheDeath
    <3> QED
      BY <3>1, <3>2 DEF NoDay
  <2> QED
    BY <2>1 DEF Begins, Counts
<1>6. /\ p[v + n] = p[v] + 360 * Y
      /\ p[(v - 1) + n] = p[v - 1] + 360 * Y
  <2>1. Y \in Int /\ v + n = v + N * Y /\ (v - 1) + n = (v - 1) + N * Y
    OBVIOUS
  <2> HIDE DEF n
  <2>2. TurnsLater(p, v + n, v, Y) /\ TurnsLater(p, (v - 1) + n, v - 1, Y)
    BY <1>4, <2>1, TurnsOn
  <2> QED
    BY <2>2 DEF TurnsLater
<1>7. p[v - 1] <= Start(a) /\ Start(a) < p[v]
  <2>1. ~(v <= v - 1) /\ v <= v
    OBVIOUS
  <2> QED
    BY <1>1, <1>4, <1>5, <2>1
<1>8. last < p[v + n] /\ p[(v - 1) + n] <= last
  BY <1>1, <1>4, <1>6, <1>7
<1> HIDE DEF f, obs, last, n
<1>9. \A k \in Int : Start(a) < p[k] /\ p[k] <= last <=> k \in v .. v + n - 1
  <2> TAKE k \in Int
  <2> DEFINE w == v + n
             x == (v - 1) + n
  <2>1. w \in Int /\ x \in Int /\ x = w - 1 /\ last < p[w] /\ p[x] <= last
    BY <1>4, <1>8
  <2>2. p[k] \in Int /\ p[w] \in Int /\ p[x] \in Int
    BY <1>1, <2>1
  <2> HIDE DEF w, x
  <2>3. (w < k => p[w] < p[k]) /\ (k < x => p[k] < p[x])
    BY <1>1, <2>1 DEF Ascends
  <2>4. p[k] <= last <=> k <= x
    <3>1. ASSUME p[k] <= last PROVE k <= x
      <4>1. k # w /\ ~(w < k)
        BY <1>4, <2>1, <2>2, <2>3, <3>1
      <4> QED
        BY <2>1, <4>1
    <3>2. ASSUME k <= x PROVE p[k] <= last
      <4>1. k = x \/ k < x
        BY <2>1, <3>2
      <4> QED
        BY <1>4, <2>1, <2>2, <2>3, <4>1
    <3> QED
      BY <3>1, <3>2
  <2> QED
    BY <1>4, <1>5, <2>1, <2>4 DEF w
<1>10. DaysOf(obs) \subseteq Run(f, v, n)
  BY <1>2, <1>3, <1>9 DEF DaysOf, Run
<1>11. Run(f, v, n) \subseteq DaysOf(obs)
  <2>1. ASSUME NEW i \in v .. v + n - 1 PROVE \E o \in obs : o.day = f[i]
    BY <1>2, <1>3, <1>4, <1>9
  <2> QED
    BY <2>1 DEF DaysOf, Run
<1> QED
  BY <1>10, <1>11 DEF f, obs, n

\* The first so many Parabs of the words.
ParabMeant(a) ==
    Earliest(a, IF a.parabCount > 0 THEN a.parabCount
                ELSE a.parabYears * Cardinality(ParabMahs(a.parabs)),
             FoundBy(a, ParabMahs(a.parabs), ParabRoj))

\* The schedule has those Parabs.
LEMMA ParabsAreMeant ==
    ASSUME NEW a, Memorial(a), InReach(a)
    PROVE  DaysOf(Parabs(a)) = ParabMeant(a)
<1>1. /\ DeathGiven(a) /\ ChoiceMade(a) /\ a.parabCount \in Nat /\ a.parabYears \in Nat
      /\ Gone(a) \in Nat
  BY GoneIs DEF Memorial, ChoiceMade
<1>2. CASE a.parabs = "none"
  <2>1. Parabs(a) = {}
    BY <1>2 DEF Parabs
  <2>2. FoundBy(a, ParabMahs(a.parabs), ParabRoj) = {}
    BY <1>2, ParabMahsAre DEF FoundBy, DaysOf
  <2> QED
    BY <2>1, <2>2, NoneIsEarliest DEF ParabMeant
<1>3. CASE a.parabs # "none"
  <2> DEFINE M == ParabMahs(a.parabs)
  <2>1. PICK p, N : N \in {2, 12} /\ Cardinality(M) = N /\ Recurs(p, N) /\ Fits(M, ParabRoj, p)
    BY <1>1, <1>3, ParabSeries
  <2> HIDE DEF M
  <2>2. Ascends(p) /\ N \in Nat
    BY <2>1 DEF Recurs
  <2>3. PICK v \in Int : Begins(a, p, v)
    BY <1>1, <2>1, SeriesBegins
  <2>4. Finds(a, p, FoundBy(a, M, ParabRoj))
    BY <2>1, <2>2, FitsFinds
  <2>5. ASSUME NEW n \in Nat, NEW J \in Nat, n <= N * J, NEW k \in Lengths(a), Covers(k, 360 * J)
        PROVE  Earliest(a, n, FoundBy(a, M, ParabRoj)) = Run(DaysAt(a, p), v, n)
    <3> DEFINE w == v + n - 1
               W == 360 * J
    <3>1. w \in Int /\ v - 1 <= w /\ W \in Nat
      OBVIOUS
    <3>0. n <= N * J
      BY <2>5
    <3>2. p[w] <= p[v - 1] + W
      <4>1. Spans(p, v, n, J)
        BY <2>1, <3>0, TurnsSpan
      <4> QED
        BY <4>1 DEF Spans
    <3>3. Covers(k, W)
      BY <2>5
    <3> HIDE DEF w, W
    <3>4. DayAt(a, p[w]) <= LookTo(a)
      BY ONLY Memorial(a), InReach(a), <2>2, <2>3, k \in Lengths(a), <3>1, <3>2, <3>3, LookedAtToTheLast
    <3> QED
      BY <2>2, <2>3, <2>4, <3>4, FoundInWords DEF w
  <2>6. ASSUME NEW n \in Nat, NEW J \in Nat, n <= N * J, NEW Y \in Nat, J + Gone(a) <= Y
        PROVE  DaysOf(FirstOf(n, Ahead(a, ParabsFor(a, Y)))) = Run(DaysAt(a, p), v, n)
    <3> DEFINE w == v + n - 1
               W == 360 * J
    <3>1. w \in Int /\ v - 1 <= w /\ W \in Nat
      OBVIOUS
    <3>0. n <= N * J
      BY <2>6
    <3>2. p[w] <= p[v - 1] + W
      <4>1. Spans(p, v, n, J)
        BY <2>1, <3>0, TurnsSpan
      <4> QED
        BY <4>1 DEF Spans
    <3>3. W = 360 * J
      OBVIOUS
    <3> HIDE DEF w, W
    <3>4. p[w] \in Int /\ p[w] <= Start(a) + 360 * Gone(a) + W
      BY <1>1, <2>2, <2>3, <3>1, <3>2, UpToTheLast
    <3>5. p[w] <= Start(a) + 360 * Y
      <4>1. Start(a) \in Int
        BY <1>1, AfterTheDeath
      <4> QED
        BY <1>1, <2>6, <3>3, <3>4, <4>1
    <3>6. TurnsReach(a, p, v, n, Y)
      BY <3>5 DEF TurnsReach, w
    <3> QED
      BY <2>1, <2>2, <2>3, <3>6, FirstParabs DEF M
  <2>7. CASE a.parabCount > 0
    <3> DEFINE n == a.parabCount
               Y == n \div Cardinality(M) + 2 + Gone(a)
               H == (n + 1) \div 2
               J == n \div N + 1
               k == IF n = 1 THEN 12 ELSE 8 * n
    <3>1. n \in Nat /\ n # 0
      BY <1>1, <2>7
    <3>2. Parabs(a) = FirstOf(n, Ahead(a, ParabsFor(a, Y)))
      BY <1>3, <2>7 DEF Parabs, M
    <3>3. ParabMeant(a) = Earliest(a, n, FoundBy(a, M, ParabRoj))
      BY <2>7 DEF ParabMeant, M
    <3>4. k \in Lengths(a)
      BY DEF Lengths
    <3>5. Y = n \div N + 2 + Gone(a)
      BY <2>1
    <3> HIDE DEF n
    <3>6. H \in Nat /\ n <= 2 * H /\ 2 * H <= n + 1
      BY <3>1
    <3>7. k \in Nat /\ (n = 1 => k = 12) /\ (n # 1 => k = 8 * n)
      BY <3>1
    <3>8. J \in Nat /\ n <= N * J /\ Y \in Nat /\ J + Gone(a) <= Y
      <4>1. CASE N = 2
        <5>1. n \div 2 \in Nat /\ n <= 2 * (n \div 2 + 1)
          BY <3>1
        <5> QED
          BY <1>1, <3>5, <4>1, <5>1
      <4>2. CASE N = 12
        <5>1. n \div 12 \in Nat /\ n <= 12 * (n \div 12 + 1)
          BY <3>1
        <5> QED
          BY <1>1, <3>5, <4>2, <5>1
      <4> QED
        BY <2>1, <4>1, <4>2
    <3> HIDE DEF H, J, Y, k
    <3>9. n <= N * H
      BY <2>1, <3>1, <3>6
    <3>10. Covers(k, 360 * H)
      <4>1. 366 * (360 * H) = 131760 * H /\ 131760 * H <= 65880 * (n + 1)
        BY <3>1, <3>6
      <4>2. CASE n = 1
        <5>1. H <= 1
          BY <3>6, <4>2
        <5> QED
          BY <3>6, <3>7, <4>2, <5>1 DEF Covers
      <4>3. CASE n # 1
        <5>1. 2 <= n /\ k = 8 * n
          BY <3>1, <3>7, <4>3
        <5> QED
          BY <3>1, <3>6, <4>1, <5>1 DEF Covers
      <4> QED
        BY <4>2, <4>3
    <3>11. DaysOf(FirstOf(n, Ahead(a, ParabsFor(a, Y)))) = Run(DaysAt(a, p), v, n)
      BY <2>6, <3>1, <3>8
    <3>12. Earliest(a, n, FoundBy(a, M, ParabRoj)) = Run(DaysAt(a, p), v, n)
      BY <2>5, <3>1, <3>4, <3>6, <3>9, <3>10
    <3> QED
      BY <3>2, <3>3, <3>11, <3>12
  <2>8. CASE ~(a.parabCount > 0)
    <3> DEFINE y == a.parabYears
               n == N * y
               k == 12 * y
    <3>1. /\ y \in Nat /\ n \in Nat /\ n <= N * y /\ y * N = n
      BY <1>1, <2>1
    <3>2. k \in Lengths(a)
      BY DEF Lengths
    <3>3. ParabMeant(a) = Earliest(a, y * N, FoundBy(a, M, ParabRoj))
      BY <2>1, <2>8 DEF ParabMeant, M
    <3>4. /\ a.from = NoDay => Parabs(a) = ParabsFor(a, y)
          /\ a.from # NoDay => Parabs(a) = FirstOf(y * N, Ahead(a, ParabsFor(a, y + Gone(a))))
      BY <1>3, <2>1, <2>8 DEF Parabs, M
    <3>5. Covers(k, 360 * y)
      BY <3>1 DEF Covers
    <3> HIDE DEF y, k
    <3>6. DaysOf(Parabs(a)) = Run(DaysAt(a, p), v, n)
      <4>1. CASE a.from = NoDay
        BY <1>1, <2>1, <2>3, <3>1, <3>4, <4>1, AllParabs DEF M
      <4>2. CASE a.from # NoDay
        <5>1. y + Gone(a) \in Nat /\ y + Gone(a) <= y + Gone(a)
          BY <1>1, <3>1
        <5>2. DaysOf(FirstOf(n, Ahead(a, ParabsFor(a, y + Gone(a))))) = Run(DaysAt(a, p), v, n)
          <6> HIDE DEF n
          <6> QED
            BY <2>6, <3>1, <5>1
        <5> QED
          BY <3>1, <3>4, <4>2, <5>2
      <4> QED
        BY <4>1, <4>2
    <3>7. Earliest(a, n, FoundBy(a, M, ParabRoj)) = Run(DaysAt(a, p), v, n)
      <4> HIDE DEF n
      <4> QED
        BY <2>5, <3>1, <3>2, <3>5
    <3> QED
      BY <3>1, <3>3, <3>6, <3>7
  <2> QED
    BY <2>7, <2>8
<1> QED
  BY <1>2, <1>3

-----------------------------------------------------------------------------
(***************************************************************************)
(* The monthly and the yearly days, by number and by looking.              *)
(***************************************************************************)

\* The monthly and the yearly days, numbered from the death.
MonthlyDays(a) == [k \in Int |-> DayAt(a, Base(a) + 30 * k)]
GathaKept(a, y) == NewYearDay(a.system, y) + 360 + (IF a.roj <= MaxGatha(a.system, y) THEN a.roj ELSE 5) - 1
YearlyDays(a) == [k \in Int |-> IF Gatha(a) THEN GathaKept(a, a.year + k) ELSE DayAt(a, Base(a) + 360 * k)]

\* Days n places apart are at least that far apart, and not much further.
LEMMA MonthsApart ==
    ASSUME NEW a, DeathGiven(a), NEW j \in Int, NEW k \in Int
    PROVE  /\ MonthlyDays(a)[j] \in Int /\ MonthlyDays(a)[j] = DayAt(a, Base(a) + 30 * j)
           /\ j <= k => /\ MonthlyDays(a)[j] + 30 * (k - j) <= MonthlyDays(a)[k]
                        /\ Near(MonthlyDays(a)[j], MonthlyDays(a)[k], 30 * (k - j))
<1> DEFINE c == Base(a) + 30 * j
           d == Base(a) + 30 * k
<1>1. c \in Int /\ d \in Int /\ d - c = 30 * (k - j) /\ (j <= k => c <= d)
  BY BaseIs
<1>2. MonthlyDays(a)[j] = DayAt(a, c) /\ MonthlyDays(a)[k] = DayAt(a, d)
  BY DEF MonthlyDays
<1> HIDE DEF c, d
<1>3. /\ DayAt(a, c) \in Int /\ DayAt(a, d) \in Int
      /\ c <= d => DayAt(a, c) + (d - c) <= DayAt(a, d) /\ Near(DayAt(a, c), DayAt(a, d), d - c)
  BY <1>1, PlacesApart
<1> QED
  BY <1>1, <1>2, <1>3 DEF c

YearsNear(x, y, n) == y <= x + 366 * n + 5

\* So are the yearly ones.
LEMMA YearsApart ==
    ASSUME NEW a, DeathGiven(a), NEW j \in Int, NEW k \in Int
    PROVE  /\ YearlyDays(a)[j] \in Int
           /\ j <= k => /\ YearlyDays(a)[j] + 360 * (k - j) <= YearlyDays(a)[k]
                        /\ YearsNear(YearlyDays(a)[j], YearlyDays(a)[k], k - j)
<1>1. CASE ~Gatha(a)
  <2> DEFINE c == Base(a) + 360 * j
             d == Base(a) + 360 * k
  <2>1. c \in Int /\ d \in Int /\ d - c = 360 * (k - j) /\ (j <= k => c <= d)
    BY BaseIs
  <2>2. YearlyDays(a)[j] = DayAt(a, c) /\ YearlyDays(a)[k] = DayAt(a, d)
    BY <1>1 DEF YearlyDays
  <2> HIDE DEF c, d
  <2> DEFINE x == DayAt(a, c)
             y == DayAt(a, d)
  <2>3. /\ x \in Int /\ y \in Int
        /\ c <= d => x + (d - c) <= y /\ Near(x, y, d - c)
    BY <2>1, PlacesApart
  <2> HIDE DEF x, y
  <2>4. ASSUME j <= k PROVE x + 360 * (k - j) <= y /\ YearsNear(x, y, k - j)
    <3>1. x + 360 * (k - j) <= y /\ Near(x, y, 360 * (k - j))
      BY <2>1, <2>3, <2>4
    <3>2. 360 * y <= 360 * x + 366 * (360 * (k - j)) + 2154
      BY <3>1 DEF Near
    <3>3. y <= x + 366 * (k - j) + 5
      BY <2>3, <3>2
    <3> QED
      BY <3>1, <3>3 DEF YearsNear
  <2> QED
    BY <2>2, <2>3, <2>4 DEF x, y
<1>2. CASE Gatha(a)
  <2> DEFINE y == a.year + j
             z == a.year + k
             g == IF a.roj <= MaxGatha(a.system, y) THEN a.roj ELSE 5
             h == IF a.roj <= MaxGatha(a.system, z) THEN a.roj ELSE 5
             u == NewYearDay(a.system, y)
             w == NewYearDay(a.system, z)
  <2>1. /\ a.system \in System /\ y \in Int /\ z \in Int /\ z - y = k - j /\ (j <= k => y <= z)
        /\ a.roj \in 1 .. MaxGatha(a.system, a.year) /\ a.year \in Int
    BY <1>2, BaseIs
  <2>2. YearlyDays(a)[j] = u + 360 + g - 1 /\ YearlyDays(a)[k] = w + 360 + h - 1
    BY <1>2 DEF YearlyDays, GathaKept
  <2> HIDE DEF y, z
  <2>3. MaxGatha(a.system, y) \in {5, 6} /\ MaxGatha(a.system, z) \in {5, 6} /\ MaxGatha(a.system, a.year) \in {5, 6}
    BY <2>1, YearIsLong
  <2>4. g \in 1 .. 6 /\ h \in 1 .. 6
    BY <2>1, <2>3
  <2>5. u \in Int /\ w \in Int
    BY <2>1, NewYearDayIs
  <2>6. ASSUME y <= z PROVE u + 365 * (z - y) <= w /\ w <= u + 366 * (z - y)
    <3>1. a.system \in System /\ y \in Int /\ z \in Int
      BY <2>1
    <3> QED
      BY ONLY <2>6, <3>1, YearsSpan
  <2>7. j = k => g = h /\ u = w
    <3>1. j = k => y = z
      BY <2>1
    <3> QED
      BY <3>1
  <2> HIDE DEF g, h, u, w
  <2> DEFINE s == u + 360 + g - 1
             t == w + 360 + h - 1
  <2>8. s \in Int /\ t \in Int
    BY <2>4, <2>5
  <2>9. ASSUME j <= k PROVE s + 360 * (k - j) <= t /\ YearsNear(s, t, k - j)
    <3>1. u + 365 * (k - j) <= w /\ w <= u + 366 * (k - j)
      BY <2>1, <2>6, <2>9
    <3>2. t <= s + 366 * (k - j) + 5
      BY <2>4, <2>5, <3>1
    <3>3. s + 360 * (k - j) <= t
      BY <2>4, <2>5, <2>7, <2>9, <3>1
    <3> QED
      BY <3>2, <3>3 DEF YearsNear
  <2> QED
    BY <2>2, <2>8, <2>9
<1> QED
  BY <1>1, <1>2

\* Both follow the death.
Follows(a, f) ==
    /\ Ascends(f) /\ DeathDay(a) <= f[0] /\ f[0] <= DeathDay(a) + 6
    /\ \A k \in Nat : f[0] + 30 * k <= f[k]

\* The monthly days go on from the death, each the one that is kept under its number,
LEMMA MonthlyFollows ==
    ASSUME NEW a, DeathGiven(a)
    PROVE  Follows(a, MonthlyDays(a)) /\ \A k \in Nat : MonthlyDays(a)[k] = MonthDay(a, k)
<1> DEFINE f == MonthlyDays(a)
<1>1. ASSUME NEW j \in Int, NEW k \in Int
      PROVE  f[j] \in Int /\ (j <= k => f[j] + 30 * (k - j) <= f[k])
  BY MonthsApart
<1>2. f = [k \in Int |-> f[k]]
  BY DEF MonthlyDays
<1>3. \A k \in Nat : f[k] = MonthDay(a, k)
  BY DEF MonthlyDays, MonthDay, DayAt
<1>4. DeathDay(a) <= f[0] /\ f[0] <= DeathDay(a) + 6
  <2>1. f[0] = Place(a.system, BaseYear(a), Base(a))
    <3>1. Base(a) + 30 * 0 = Base(a)
      BY BaseIs
    <3> QED
      BY <3>1 DEF MonthlyDays, DayAt
  <2>2. DeathDay(a) \in Int
    BY DeathDayIs
  <2> HIDE DEF f
  <2>3. CASE Gatha(a)
    <3>1. Base(a) = 0 /\ DeathDay(a) < Place(a.system, BaseYear(a), 0)
          /\ Place(a.system, BaseYear(a), 0) <= DeathDay(a) + 6
      BY <2>3, BaseIs, DeathPlace
    <3>2. 0 \in Int /\ f[0] = Place(a.system, BaseYear(a), 0)
      BY <2>1, <3>1
    <3>3. f[0] \in Int
      BY <1>1, <3>2
    <3> QED
      BY <2>2, <3>1, <3>2, <3>3
  <2>4. CASE ~Gatha(a)
    BY <2>1, <2>2, <2>4, DeathPlace
  <2> QED
    BY <2>3, <2>4
<1> HIDE DEF f
<1>5. f \in [Int -> Int]
  BY <1>1, <1>2
<1>6. ASSUME NEW j \in Int, NEW k \in Int, j < k PROVE f[j] < f[k]
  <2>1. f[j] \in Int /\ f[k] \in Int /\ f[j] + 30 * (k - j) <= f[k]
    BY <1>1, <1>6
  <2> QED
    BY <1>6, <2>1
<1>7. ASSUME NEW k \in Nat PROVE f[0] + 30 * k <= f[k]
  <2>1. 0 \in Int /\ k \in Int /\ 0 <= k
    OBVIOUS
  <2>2. f[0] + 30 * (k - 0) <= f[k]
    BY <1>1, <2>1
  <2> QED
    BY <2>2
<1> QED
  BY <1>3, <1>4, <1>5, <1>6, <1>7 DEF Follows, Ascends, f

\* and so do the yearly ones.
LEMMA YearlyFollows ==
    ASSUME NEW a, DeathGiven(a)
    PROVE  Follows(a, YearlyDays(a)) /\ \A k \in Nat : YearlyDays(a)[k] = YearDayOf(a, k)
<1> DEFINE f == YearlyDays(a)
<1>1. ASSUME NEW j \in Int, NEW k \in Int
      PROVE  f[j] \in Int /\ (j <= k => f[j] + 360 * (k - j) <= f[k])
  BY YearsApart
<1>2. f = [k \in Int |-> f[k]]
  BY DEF YearlyDays
<1>3. ASSUME NEW k \in Nat PROVE f[k] = YearDayOf(a, k)
  <2>1. CASE Gatha(a)
    <3>1. YearDayOf(a, k) = GathaDay(a, a.year + k)
      BY <2>1, YearDayIsFound
    <3>2. a.year + k \in Int
      BY DEF DeathGiven
    <3>3. GathaDay(a, a.year + k) = GathaKept(a, a.year + k)
      BY <2>1, <3>2, GathaDayIs DEF GathaKept
    <3> QED
      BY <2>1, <3>1, <3>3 DEF YearlyDays
  <2>2. CASE ~Gatha(a)
    <3>1. YearDayOf(a, k) = MonthDay(a, 12 * k)
      BY <2>2, YearDayIsFound
    <3>2. 30 * (12 * k) = 360 * k /\ k \in Int
      OBVIOUS
    <3> QED
      BY <2>2, <3>1, <3>2 DEF YearlyDays, MonthDay, DayAt
  <2> QED
    BY <2>1, <2>2
<1>4. f[0] = DeathDay(a)
  <2>1. CASE Gatha(a)
    <3>1. a.year + 0 = a.year /\ a.roj \in 1 .. MaxGatha(a.system, a.year) /\ a.system \in System
          /\ a.year \in Int
      BY <2>1, BaseIs
    <3>2. MaxGatha(a.system, a.year) \in {5, 6}
      BY <3>1, YearIsLong
    <3>3. f[0] = NewYearDay(a.system, a.year) + 360 + a.roj - 1
      BY <2>1, <3>1, <3>2 DEF YearlyDays, GathaKept
    <3>4. DeathDay(a) = NewYearDay(a.system, a.year) + 30 * (13 - 1) + a.roj - 1
      <4>1. 13 \in Int /\ a.roj \in Int
        BY <3>1, <3>2
      <4> QED
        BY <2>1, <3>1, <4>1, PlaceInYear DEF DeathDay, Gatha
    <3> QED
      BY <3>3, <3>4
  <2>2. CASE ~Gatha(a)
    <3>1. Base(a) + 360 * 0 = Base(a)
      BY BaseIs
    <3> QED
      BY <2>2, <3>1, DeathPlace DEF YearlyDays, DayAt
  <2> QED
    BY <2>1, <2>2
<1>5. DeathDay(a) \in Int
  BY DeathDayIs
<1> HIDE DEF f
<1>6. f \in [Int -> Int]
  BY <1>1, <1>2
<1>7. ASSUME NEW j \in Int, NEW k \in Int, j < k PROVE f[j] < f[k]
  <2>1. f[j] \in Int /\ f[k] \in Int /\ f[j] + 360 * (k - j) <= f[k]
    BY <1>1, <1>7
  <2> QED
    BY <1>7, <2>1
<1>8. ASSUME NEW k \in Nat PROVE f[0] + 30 * k <= f[k]
  <2>1. 0 \in Int /\ k \in Int /\ 0 <= k
    OBVIOUS
  <2>2. f[0] + 360 * (k - 0) <= f[k] /\ f[0] \in Int /\ f[k] \in Int
    BY <1>1, <2>1
  <2> QED
    BY <2>2
<1> QED
  BY <1>3, <1>4, <1>5, <1>6, <1>7, <1>8 DEF Follows, Ascends, f

\* A series counts from the first of it that is not over.
CountsFrom(a, f, v) == v \in Nat \ {0} /\ \A k \in Int : 1 <= k => (a.from <= f[k] <=> v <= k)

\* It is the one first_valid finds: there is one, for no death is entered too late for it.
LEMMA FirstValidIs ==
    ASSUME NEW a, DeathGiven(a), InReach(a), NEW f, Follows(a, f), NEW kind,
           \A k \in Nat : Resolve(a, Canon(a, kind, k)) = f[k]
    PROVE  CountsFrom(a, f, FirstValid(a, kind))
<1> DEFINE v == FirstValid(a, kind)
<1>1. /\ \A k \in Int : f[k] \in Int
      /\ \A j, k \in Int : j < k => f[j] < f[k]
      /\ DeathDay(a) \in Int /\ 1000 < DeathDay(a) /\ a.from \in Int /\ DeathDay(a) <= f[0]
      /\ 0 \in Int
  <2>1. DeathDay(a) \in Int /\ 1000 < DeathDay(a) /\ a.from \in Int
    BY DeathDayIs DEF DeathGiven
  <2>2. Ascends(f) /\ DeathDay(a) <= f[0]
    BY DEF Follows
  <2>3. (\A k \in Int : f[k] \in Int) /\ \A j, k \in Int : j < k => f[j] < f[k]
    BY <2>2 DEF Ascends
  <2> QED
    BY <2>1, <2>2, <2>3
<1>2. CASE a.from = NoDay
  <2>1. v = 1
    BY <1>2 DEF FirstValid
  <2>2. ASSUME NEW k \in Int, 1 <= k PROVE a.from <= f[k]
    <3>1. f[0] < f[k] /\ f[0] \in Int /\ f[k] \in Int
      BY <1>1, <2>2
    <3> QED
      BY <1>1, <1>2, <3>1 DEF NoDay
  <2> HIDE DEF v
  <2> QED
    BY <2>1, <2>2 DEF CountsFrom, v
<1>3. CASE a.from # NoDay
  <2> DEFINE IsFirst(k) ==
                 /\ Resolve(a, Canon(a, kind, k)) >= a.from
                 /\ k > 1 => Resolve(a, Canon(a, kind, k - 1)) < a.from
             T == {k \in Nat : 1 <= k /\ a.from <= f[k]}
  <2>1. v = CHOOSE k \in 1 .. SeriesLimit : IsFirst(k)
    BY <1>3 DEF FirstValid
  <2>2. SeriesLimit \in Nat /\ 1 <= SeriesLimit
    BY DEF SeriesLimit
  <2>3. SeriesLimit \in T
    <3>1. a.from <= DeathDay(a) + SeriesLimit * 30
      BY <1>3 DEF InReach
    <3>2. f[0] + 30 * SeriesLimit <= f[SeriesLimit] /\ f[0] \in Int /\ f[SeriesLimit] \in Int
      <4>1. f[0] + 30 * SeriesLimit <= f[SeriesLimit]
        BY <2>2 DEF Follows
      <4>2. SeriesLimit \in Int
        BY <2>2
      <4> QED
        BY <1>1, <4>1, <4>2
    <3>3. a.from <= f[SeriesLimit]
      BY <1>1, <2>2, <3>1, <3>2
    <3> QED
      BY <2>2, <3>3
  <2>4. T \in SUBSET Nat /\ T # {}
    BY <2>3
  <2>5. \A k \in T : k \in Nat /\ 1 <= k /\ a.from <= f[k]
    OBVIOUS
  <2>6. \A k \in Nat : 1 <= k /\ a.from <= f[k] => k \in T
    OBVIOUS
  <2> HIDE DEF T
  <2>7. PICK m \in T : \A k \in T : m <= k
    BY ONLY <2>4, LeastNat
  <2>8. m \in 1 .. SeriesLimit /\ m \in Nat
    BY <2>2, <2>3, <2>5, <2>7
  <2>9. IsFirst(m)
    <3>1. Resolve(a, Canon(a, kind, m)) = f[m] /\ f[m] \in Int /\ a.from <= f[m]
      BY <1>1, <2>5, <2>7, <2>8
    <3>2. ASSUME m > 1 PROVE Resolve(a, Canon(a, kind, m - 1)) < a.from
      <4> DEFINE n == m - 1
      <4>1. n \in Nat /\ 1 <= n /\ n < m
        BY <2>8, <3>2
      <4> HIDE DEF n
      <4>2. ~(a.from <= f[n]) /\ f[n] \in Int
        BY <1>1, <2>6, <2>7, <2>8, <4>1
      <4>3. f[n] < a.from
        BY <1>1, <4>2
      <4> QED
        BY <4>1, <4>3 DEF n
    <3> QED
      BY <1>1, <3>1, <3>2
  <2> HIDE DEF IsFirst
  <2>10. v \in 1 .. SeriesLimit /\ IsFirst(v)
    BY <2>1, <2>8, <2>9
  <2> HIDE DEF v
  <2>11. v \in Nat /\ 1 <= v
    BY <2>2, <2>10
  <2>12. a.from <= f[v] /\ (v > 1 => f[v - 1] < a.from)
    <3>1. Resolve(a, Canon(a, kind, v)) = f[v]
      BY <2>11
    <3>2. Resolve(a, Canon(a, kind, v)) >= a.from
          /\ (v > 1 => Resolve(a, Canon(a, kind, v - 1)) < a.from)
      BY <2>10 DEF IsFirst
    <3>3. v > 1 => Resolve(a, Canon(a, kind, v - 1)) = f[v - 1]
      <4>1. v > 1 => v - 1 \in Nat
        BY <2>11
      <4> QED
        BY <4>1
    <3>4. f[v] \in Int
      BY <1>1, <2>11
    <3> QED
      BY <1>1, <3>1, <3>2, <3>3, <3>4
  <2>13. ASSUME NEW k \in Int, 1 <= k PROVE a.from <= f[k] <=> v <= k
    <3>1. ASSUME v <= k PROVE a.from <= f[k]
      <4>1. f[v] \in Int /\ f[k] \in Int /\ (v < k => f[v] < f[k])
        BY <1>1, <2>11
      <4> QED
        BY <1>1, <2>11, <2>12, <3>1, <4>1
    <3>2. ASSUME ~(v <= k) PROVE ~(a.from <= f[k])
      <4> DEFINE n == v - 1
      <4>1. n \in Int /\ k <= n /\ v > 1
        BY <2>11, <2>13, <3>2
      <4>2. f[n] < a.from
        BY <2>12, <4>1
      <4> HIDE DEF n
      <4>3. f[n] \in Int /\ f[k] \in Int /\ (k < n => f[k] < f[n])
        BY <1>1, <4>1
      <4> QED
        BY <1>1, <4>1, <4>2, <4>3
    <3> QED
      BY <3>1, <3>2
  <2> QED
    BY <2>11, <2>13 DEF CountsFrom, v
<1> QED
  BY <1>2, <1>3

\* What is found of a series by looking at the days.
Has(a, f, S) ==
    /\ S \subseteq DaysToLookAt(a)
    /\ \A k \in Int : 1 <= k /\ f[k] < LookTo(a) => f[k] \in S
    /\ \A d \in S : \E k \in Int : 1 <= k /\ d = f[k]

\* The first n that looking finds are the n from there on,
LEMMA FoundOfSeries ==
    ASSUME NEW a, Memorial(a), InReach(a), NEW f, Ascends(f), NEW S, Has(a, f, S),
           NEW v, CountsFrom(a, f, v), NEW n \in Nat, n = 0 \/ f[v + n - 1] < LookTo(a)
    PROVE  Earliest(a, n, S) = Run(f, v, n)
<1>1. IsFiniteSet(S)
  BY LooksIsFinite DEF Has
<1>2. v \in Int /\ 1 <= v
  BY DEF CountsFrom
<1>3. \A d \in S : \E k \in Int : d = f[k] /\ (a.from <= d => v <= k)
  BY DEF Has, CountsFrom
<1>4. LookTo(a) \in Int
  BY LooksFarEnough
<1>5. ASSUME NEW i \in v .. v + n - 1 PROVE f[i] \in S /\ a.from <= f[i]
  <2>1. i \in Int /\ v <= i /\ 1 <= i /\ i <= v + n - 1 /\ v + n - 1 \in Int /\ n # 0
    BY <1>2
  <2>2. f[i] \in Int /\ f[v + n - 1] \in Int /\ (i < v + n - 1 => f[i] < f[v + n - 1])
    BY <2>1 DEF Ascends
  <2>3. f[i] < LookTo(a)
    BY <1>4, <2>1, <2>2
  <2> QED
    BY <2>1, <2>3 DEF Has, CountsFrom
<1> QED
  BY ONLY <1>1, <1>2, <1>3, <1>5, Ascends(f), n \in Nat, EarliestIsRun

\* The nth of them is found.
LEMMA NthOfSeries ==
    ASSUME NEW a, Memorial(a), InReach(a), NEW f, Ascends(f), NEW S, Has(a, f, S),
           NEW n \in Nat \ {0}, f[n] < LookTo(a)
    PROVE  Nth(n, S) = f[n] /\ f[n] \in S
<1>1. IsFiniteSet(S)
  BY LooksIsFinite DEF Has
<1>2. \A d \in S : \E k \in Int : 1 <= k /\ d = f[k]
  BY DEF Has
<1>3. LookTo(a) \in Int
  BY LooksFarEnough
<1>4. Run(f, 1, n) \subseteq S
  <2>1. ASSUME NEW i \in 1 .. 1 + n - 1 PROVE f[i] \in S
    <3>1. i \in Int /\ 1 <= i /\ i <= n
      OBVIOUS
    <3>2. f[i] \in Int /\ f[n] \in Int /\ (i < n => f[i] < f[n])
      BY <3>1 DEF Ascends
    <3>3. f[i] < LookTo(a)
      BY <1>3, <3>1, <3>2
    <3> QED
      BY <3>1, <3>3 DEF Has
  <2> QED
    BY <2>1 DEF Run
<1>5. Nth(n, S) = f[1 + n - 1]
  BY ONLY <1>1, <1>2, <1>4, Ascends(f), 1 \in Int, n \in Nat \ {0}, NthOfRun
<1>6. 1 + n - 1 = n
  OBVIOUS
<1> QED
  BY <1>5, <1>6 DEF Has

\* The one before the first that counts is over, or within a Gatha of the death.
LEMMA BeforeItCounts ==
    ASSUME NEW a, Memorial(a), InReach(a), NEW f, Follows(a, f), NEW v, CountsFrom(a, f, v)
    PROVE  v - 1 \in Int /\ f[v - 1] \in Int /\ f[v - 1] <= Began(a) + 6
<1>1. v \in Nat /\ 1 <= v /\ v - 1 \in Int
  BY DEF CountsFrom
<1>2. /\ \A k \in Int : f[k] \in Int
      /\ f[0] <= DeathDay(a) + 6
  BY DEF Follows, Ascends
<1>3. /\ Began(a) \in Int /\ DeathDay(a) <= Began(a) /\ a.from \in Int /\ a.from <= Began(a)
      /\ DeathDay(a) \in Int
  BY LooksFarEnough, DeathDayIs DEF Memorial
<1>4. CASE v = 1
  <2>1. v - 1 = 0 /\ f[0] \in Int
    BY <1>2, <1>4
  <2> QED
    BY <1>1, <1>2, <1>3, <2>1
<1>5. CASE v # 1
  <2> DEFINE n == v - 1
  <2>1. n \in Int /\ 1 <= n /\ ~(v <= n)
    BY <1>1, <1>5
  <2> HIDE DEF n
  <2>2. ~(a.from <= f[n]) /\ f[n] \in Int
    BY <1>2, <2>1 DEF CountsFrom
  <2>3. f[n] <= Began(a) + 6
    BY <1>3, <2>2
  <2> QED
    BY <2>1, <2>2, <2>3 DEF n
<1> QED
  BY <1>4, <1>5

\* The series are looked at as far as they are asked for: the monthly days,
LEMMA MonthsAreLookedAt ==
    ASSUME NEW a, Memorial(a), InReach(a), NEW v, CountsFrom(a, MonthlyDays(a), v)
    PROVE  MonthlyDays(a)[v + a.months - 1] < LookTo(a)
<1> DEFINE f == MonthlyDays(a)
           n == a.months
           x == Began(a)
<1>1. DeathGiven(a) /\ n \in Nat
  BY DEF Memorial, ChoiceMade
<1>2. n \in Nat /\ x + 31 * (n + 2) <= LookTo(a) /\ LookTo(a) \in Int /\ x \in Int
  BY <1>1, LooksFarEnough
<1>3. v - 1 \in Int /\ f[v - 1] \in Int /\ f[v - 1] <= x + 6
  BY <1>1, MonthlyFollows, BeforeItCounts
<1> DEFINE j == v - 1
           k == v + n - 1
<1>4. j \in Int /\ k \in Int /\ j <= k /\ k - j = n
  BY <1>1 DEF CountsFrom
<1>5. f[j] <= x + 6 /\ f[j] \in Int
  BY <1>3
<1> HIDE DEF j
<1>6. k = v + n - 1
  OBVIOUS
<1> HIDE DEF k
<1>7. f[k] \in Int /\ Near(f[j], f[k], 30 * (k - j))
  BY <1>1, <1>4, MonthsApart
<1> HIDE DEF f, x, n
<1>8. 360 * f[k] <= 360 * f[j] + 366 * (30 * n) + 2154
  BY <1>4, <1>7 DEF Near
<1>9. f[k] < LookTo(a)
  BY <1>2, <1>5, <1>7, <1>8
<1> QED
  BY <1>6, <1>9 DEF f, n

\* the yearly days,
LEMMA YearsAreLookedAt ==
    ASSUME NEW a, Memorial(a), InReach(a), NEW v, CountsFrom(a, YearlyDays(a), v)
    PROVE  YearlyDays(a)[v + a.years - 1] < LookTo(a)
<1> DEFINE f == YearlyDays(a)
           n == a.years
           x == Began(a)
<1>1. DeathGiven(a) /\ n \in Nat
  BY DEF Memorial, ChoiceMade
<1>2. n \in Nat /\ x + 31 * (12 * n + 2) <= LookTo(a) /\ LookTo(a) \in Int /\ x \in Int
  BY <1>1, LooksFarEnough
<1>3. v - 1 \in Int /\ f[v - 1] \in Int /\ f[v - 1] <= x + 6
  BY <1>1, YearlyFollows, BeforeItCounts
<1> DEFINE j == v - 1
           k == v + n - 1
<1>4. j \in Int /\ k \in Int /\ j <= k /\ k - j = n
  BY <1>1 DEF CountsFrom
<1>5. f[j] <= x + 6 /\ f[j] \in Int
  BY <1>3
<1> HIDE DEF j
<1>6. k = v + n - 1
  OBVIOUS
<1> HIDE DEF k
<1>7. f[k] \in Int /\ YearsNear(f[j], f[k], k - j)
  BY <1>1, <1>4, YearsApart
<1> HIDE DEF f, x, n
<1>8. f[k] <= f[j] + 366 * n + 5
  BY <1>4, <1>7 DEF YearsNear
<1>9. f[k] < LookTo(a)
  BY <1>2, <1>5, <1>7, <1>8
<1> QED
  BY <1>6, <1>9 DEF f, n

\* and the named ones.
LEMMA NamedAreLookedAt ==
    ASSUME NEW a, Memorial(a), InReach(a)
    PROVE  /\ MonthlyDays(a)[1] < LookTo(a) /\ MonthlyDays(a)[2] < LookTo(a)
           /\ MonthlyDays(a)[6] < LookTo(a) /\ YearlyDays(a)[1] < LookTo(a)
<1> DEFINE f == MonthlyDays(a)
           g == YearlyDays(a)
           x == Began(a)
<1>1. DeathGiven(a) /\ DeathDay(a) \in Int
  BY DeathDayIs DEF Memorial
<1>2. /\ x + 31 * (12 + 2) <= LookTo(a) /\ LookTo(a) \in Int /\ x \in Int /\ DeathDay(a) <= x
  BY LooksFarEnough
<1>3. /\ \A k \in Int : f[k] \in Int /\ g[k] \in Int
      /\ \A j, k \in Int : j < k => f[j] < f[k]
      /\ g[0] <= DeathDay(a) + 6
  BY <1>1, MonthlyFollows, YearlyFollows DEF Follows, Ascends
<1>4. f[6] + 100 <= g[1]
  <2>1. f[6] = MonthDay(a, 6) /\ g[1] = YearDayOf(a, 1)
    BY <1>1, MonthlyFollows, YearlyFollows
  <2> HIDE DEF f, g
  <2> QED
    BY <1>1, <2>1, YearDayAfterHalf
<1>5. g[1] <= g[0] + 366 + 5
  <2>1. 0 \in Int /\ 1 \in Int /\ 0 <= 1
    OBVIOUS
  <2>2. YearsNear(g[0], g[1], 1 - 0)
    BY ONLY <1>1, <2>1, YearsApart
  <2> HIDE DEF g
  <2> QED
    BY <2>2 DEF YearsNear
<1> HIDE DEF f, g, x
<1>6. /\ f[1] \in Int /\ f[2] \in Int /\ f[6] \in Int /\ g[0] \in Int /\ g[1] \in Int
      /\ f[1] < f[6] /\ f[2] < f[6]
  BY <1>3
<1>7. f[1] < LookTo(a) /\ f[2] < LookTo(a) /\ f[6] < LookTo(a) /\ g[1] < LookTo(a)
  BY <1>1, <1>2, <1>3, <1>4, <1>5, <1>6
<1> QED
  BY <1>7 DEF f, g

\* The Roj in every Mah, found by looking.
LEMMA MonthlyIsFound ==
    ASSUME NEW a, Memorial(a), InReach(a)
    PROVE  Has(a, MonthlyDays(a), Monthly(a, InMahs(ReadDays(a))))
<1> DEFINE days == InMahs(ReadDays(a))
           f == MonthlyDays(a)
           roj == IF Gatha(a) THEN 1 ELSE a.roj
           s == IF Gatha(a) THEN 0 ELSE a.mah - 1
           R == [m \in 1 .. 12 |-> roj]
           p == [k \in Int |-> 30 * k + roj - 1]
           S == DaysOf({x \in days : x.roj = roj})
<1>1. /\ DeathGiven(a) /\ a.mah \in 1 .. 13 /\ a.roj \in 1 .. 30 /\ LookTo(a) \in Int
      /\ DaysToLookAt(a) = DeathDay(a) + 1 .. LookTo(a) /\ DeathDay(a) \in Int
  BY LooksFarEnough, DeathDayIs DEF Memorial, DeathGiven
<1>0. a.mah \in 1 .. 13 /\ a.roj \in 1 .. 30
  BY ONLY <1>1
<1>2. roj \in Int /\ roj \in 1 .. 30 /\ s \in Int /\ s \in 0 .. 11
  <2>1. CASE Gatha(a)
    BY <2>1
  <2>2. CASE ~Gatha(a)
    <3>1. roj = a.roj /\ s = a.mah - 1 /\ a.mah # 13
      BY <2>2 DEF Gatha
    <3>2. a.mah \in Int /\ 1 <= a.mah /\ a.mah <= 13 /\ a.roj \in Int
      BY ONLY <1>0
    <3> HIDE DEF roj, s
    <3>3. s \in Int /\ s \in 0 .. 11
      BY ONLY <3>1, <3>2
    <3>4. roj \in Int /\ roj \in 1 .. 30
      BY ONLY <1>0, <3>1, <3>2
    <3> QED
      BY <3>3, <3>4
  <2> QED
    BY <2>1, <2>2
<1>3. \A m \in 1 .. 12 : R[m] = roj
  OBVIOUS
<1>4. p = [k \in Int |-> 30 * k + roj - 1]
  OBVIOUS
<1>5. Base(a) = 30 * s + roj - 1
  BY <1>1, SMTT(30) DEF Base, Start, Cycle, Gatha, DaysPerMonth
<1>6. /\ Gatha(a) => Start(a) = -1 /\ s = 0 /\ Base(a) = 0 /\ roj = 1
      /\ ~Gatha(a) => Start(a) = Base(a) /\ roj = a.roj
  BY <1>1, BaseIs
<1> HIDE DEF R, p, roj, s
<1>7. Recurs(p, 12) /\ Fits(1 .. 12, R, p)
  BY ONLY <1>2, <1>3, <1>4, EveryMonth
<1>8. Ascends(p)
  BY <1>7 DEF Recurs
<1>9. Finds(a, p, S)
  <2>1. Finds(a, p, FoundBy(a, 1 .. 12, R))
    BY <1>7, <1>8, FitsFinds
  <2>2. \A x \in days : x.mah \in 1 .. 12 /\ R[x.mah] = roj
    BY <1>3, MahsAreTwelve
  <2> HIDE DEF days
  <2>3. FoundBy(a, 1 .. 12, R) = S
    BY <2>2 DEF FoundBy, days
  <2> QED
    BY <2>1, <2>3
<1>10. ASSUME NEW k \in Int PROVE k + s \in Int /\ p[k + s] = Base(a) + 30 * k /\ f[k] = DayAt(a, p[k + s])
  <2>1. k + s \in Int
    BY <1>2
  <2>2. p[k + s] = 30 * (k + s) + roj - 1
    BY <1>4, <2>1
  <2>3. p[k + s] = Base(a) + 30 * k
    BY <1>2, <1>5, <2>2
  <2> QED
    BY <2>1, <2>3 DEF MonthlyDays
<1>11. /\ Ascends(f) /\ f[0] \in Int /\ DeathDay(a) <= f[0] /\ f[0] <= DeathDay(a) + 6
       /\ \A k \in Int : f[k] \in Int
  <2>1. Follows(a, f)
    BY <1>1, MonthlyFollows
  <2> HIDE DEF f
  <2>2. Ascends(f) /\ DeathDay(a) <= f[0] /\ f[0] <= DeathDay(a) + 6
    BY <2>1 DEF Follows
  <2>3. \A k \in Int : f[k] \in Int
    BY <2>2 DEF Ascends
  <2>4. 0 \in Int
    OBVIOUS
  <2> QED
    BY <2>2, <2>3, <2>4
<1>a. Base(a) \in Int /\ 0 <= Base(a)
  <2>1. Base(a) \in 0 .. 359
    BY <1>1, BaseIs
  <2> QED
    BY ONLY <2>1
<1> HIDE DEF f, S, days
\* From the first on they are found; after a Gatha death so is Roj Hormazd of the first Mah.
<1>12. ASSUME NEW k \in Int, 1 <= k, f[k] < LookTo(a) PROVE f[k] \in S
  <2> DEFINE j == k + s
  <2>0. j \in Int /\ p[j] = Base(a) + 30 * k /\ f[k] = DayAt(a, p[j]) /\ f[k] \in Int
    BY <1>10, <1>11
  <2> HIDE DEF j
  <2>1. Start(a) < p[j]
    BY <1>6, <1>12, <1>a, <2>0
  <2>2. LookedAt(a, p[j])
    BY <1>1, <1>12, <2>0, <2>1 DEF LookedAt
  <2> QED
    BY <1>9, <2>0, <2>2 DEF Finds
<1>13. ASSUME NEW d \in S
       PROVE  d \in DaysToLookAt(a) /\ \E k \in Int : 0 <= k /\ d = f[k] /\ (1 <= k \/ Gatha(a))
  <2>1. PICK j \in Int : LookedAt(a, p[j]) /\ d = DayAt(a, p[j])
    BY <1>9 DEF Finds
  <2> DEFINE k == j - s
  <2>2. k \in Int /\ k + s = j
    BY <1>2
  <2> HIDE DEF k
  <2>3. p[j] = Base(a) + 30 * k /\ f[k] = DayAt(a, p[j])
    BY <1>10, <2>2
  <2>4. Start(a) < Base(a) + 30 * k
    BY <2>1, <2>3 DEF LookedAt
  <2>5. 0 <= k /\ (1 <= k \/ Gatha(a))
    <3>1. CASE Gatha(a)
      BY <1>6, <2>2, <2>4, <3>1
    <3>2. CASE ~Gatha(a)
      <4>1. Base(a) \in Int /\ Base(a) < Base(a) + 30 * k
        BY <1>6, <1>a, <2>4, <3>2
      <4> QED
        BY <2>2, <4>1
    <3> QED
      BY <3>1, <3>2
  <2> QED
    BY <1>9, <2>1, <2>2, <2>3, <2>5 DEF Finds
<1>14. CASE ~Gatha(a)
  <2>1. Monthly(a, days) = S
    BY <1>6, <1>14 DEF Monthly, S, days
  <2>2. Has(a, f, S)
    BY <1>12, <1>13, <1>14 DEF Has
  <2> QED
    BY <2>1, <2>2 DEF f, days
<1>15. CASE Gatha(a)
  <2>1. Monthly(a, days) = S \ {Least(DaysOf(days))}
    BY <1>6, <1>15 DEF Monthly, S, days
  <2>2. Least(DaysOf(days)) = f[0]
    <3>0. 0 \in Int
      OBVIOUS
    <3>1. f[0] = DayAt(a, 0)
      <4>1. p[0 + s] = Base(a) + 30 * 0 /\ f[0] = DayAt(a, p[0 + s])
        BY <1>10, <3>0
      <4>2. Base(a) + 30 * 0 = 0
        BY <1>6, <1>15
      <4> QED
        BY <4>1, <4>2
    <3>2. LookedAt(a, 0)
      <4>1. Began(a) + 31 * (12 + 2) <= LookTo(a) /\ Began(a) \in Int /\ DeathDay(a) <= Began(a)
        BY LooksFarEnough
      <4>2. f[0] <= LookTo(a)
        BY <1>1, <1>11, <4>1
      <4> QED
        BY <1>6, <1>15, <3>1, <4>2 DEF LookedAt
    <3>3. At(a, 0) \in days /\ At(a, 0).day = f[0]
      <4>1. At(a, 0) \in days
        BY <3>0, <3>2, RojDaysAre DEF days
      <4> QED
        BY <3>1, <4>1 DEF At
    <3>4. ASSUME NEW x \in days PROVE x.day \in Int /\ f[0] <= x.day
      <4>1. PICK c \in Int : LookedAt(a, c) /\ x = At(a, c)
        BY RojDaysAre DEF days
      <4>2. x.day = DayAt(a, c) /\ 0 <= c
        BY <1>6, <1>15, <4>1 DEF At, LookedAt
      <4>3. DayAt(a, c) \in Int /\ DayAt(a, 0) + (c - 0) <= DayAt(a, c) /\ DayAt(a, 0) \in Int
        BY ONLY <1>1, <3>0, c \in Int, <4>2, PlacesApart
      <4> QED
        BY <3>1, <4>2, <4>3
    <3> DEFINE T == DaysOf(days)
    <3>5. T \in SUBSET Int /\ f[0] \in T /\ \A y \in T : f[0] <= y
      BY <3>3, <3>4 DEF DaysOf
    <3> HIDE DEF T
    <3>6. Least(T) = f[0]
      BY ONLY <3>5, LeastIs
    <3> QED
      BY <3>6 DEF T
  <2>3. ASSUME NEW k \in Int, 1 <= k PROVE f[k] # f[0]
    BY <1>11, <2>3 DEF Ascends
  <2> DEFINE S1 == S \ {f[0]}
  <2>4. S1 \subseteq DaysToLookAt(a)
    BY <1>13
  <2>5. \A k \in Int : 1 <= k /\ f[k] < LookTo(a) => f[k] \in S1
    BY <1>12, <2>3
  <2>6. ASSUME NEW d \in S1 PROVE \E k \in Int : 1 <= k /\ d = f[k]
    <3>1. PICK k \in Int : 0 <= k /\ d = f[k]
      BY <1>13
    <3>2. k # 0
      BY <3>1
    <3> QED
      BY <3>1, <3>2
  <2>7. Has(a, f, S1)
    BY <2>4, <2>5, <2>6 DEF Has
  <2> QED
    BY <2>1, <2>2, <2>7 DEF f, days
<1> QED
  BY <1>14, <1>15

\* The day of the Roj and Mah in every year, found by looking,
LEMMA YearlyIsFoundByRoj ==
    ASSUME NEW a, Memorial(a), InReach(a), ~Gatha(a)
    PROVE  Has(a, YearlyDays(a), Yearly(a, ReadDays(a)))
<1> DEFINE f == YearlyDays(a)
           m == a.mah
           roj == a.roj
           R == [l \in 1 .. 12 |-> roj]
           p == [k \in Int |-> 360 * k + 30 * (m - 1) + (roj - 1)]
           S == FoundBy(a, {m}, R)
<1>1. DeathGiven(a) /\ LookTo(a) \in Int /\ \A k \in Int : f[k] \in Int
  BY LooksFarEnough, YearsApart DEF Memorial
<1>2. m \in Int /\ m \in 1 .. 12 /\ roj \in Int /\ roj \in 1 .. 30
  <2>1. a.mah \in 1 .. 13 /\ a.mah # 13 /\ a.roj \in 1 .. 30
    BY <1>1 DEF DeathGiven, Gatha
  <2> QED
    BY ONLY <2>1
<1>3. \A l \in 1 .. 12 : R[l] = roj
  OBVIOUS
<1>4. p = [k \in Int |-> 360 * k + 30 * (m - 1) + (roj - 1)]
  OBVIOUS
<1>5. Base(a) = 30 * (m - 1) + (roj - 1) /\ Start(a) = Base(a) /\ Base(a) \in Int
  <2>1. Start(a) = Base(a) /\ Base(a) = (m - 1) * 30 + roj - 1
    BY DEF Base, Start, Cycle, DaysPerMonth
  <2> HIDE DEF m, roj
  <2> QED
    BY <1>2, <2>1
<1>6. Yearly(a, ReadDays(a)) = S
  <2> DEFINE read == ReadDays(a)
  <2>1. Yearly(a, read) = DaysOf({x \in read : x.mah = m /\ x.roj = roj})
    BY DEF Yearly
  <2>2. ASSUME NEW x \in read
        PROVE  x.mah = m /\ x.roj = roj <=> x \in InMahs(read) /\ x.mah \in {m} /\ x.roj = R[x.mah]
    BY <1>2 DEF InMahs
  <2> HIDE DEF read
  <2>3. {x \in read : x.mah = m /\ x.roj = roj} = {x \in InMahs(read) : x.mah \in {m} /\ x.roj = R[x.mah]}
    <3>1. \A x \in InMahs(read) : x \in read
      BY DEF InMahs
    <3> QED
      BY <2>2, <3>1
  <2> QED
    BY <2>1, <2>3 DEF FoundBy, read
<1>7. \A k \in Int : f[k] = DayAt(a, Base(a) + 360 * k)
  BY DEF YearlyDays
<1> HIDE DEF f, m, roj, R, p, S
<1>8. R[m] = roj
  BY <1>2, <1>3
<1>9. Recurs(p, 1) /\ Fits({m}, R, p)
  BY ONLY <1>2, <1>4, <1>8, EveryYear
<1>10. Finds(a, p, S)
  <2>1. Ascends(p)
    BY <1>9 DEF Recurs
  <2> QED
    BY <1>9, <2>1, FitsFinds DEF S
<1>11. ASSUME NEW k \in Int PROVE p[k] = Base(a) + 360 * k /\ f[k] = DayAt(a, p[k])
  <2>1. p[k] = 360 * k + 30 * (m - 1) + (roj - 1)
    BY <1>4
  <2>2. p[k] = Base(a) + 360 * k
    BY <1>2, <1>5, <2>1
  <2> QED
    BY <1>7, <2>2
<1>12. ASSUME NEW k \in Int, 1 <= k, f[k] < LookTo(a) PROVE f[k] \in S
  <2>1. Start(a) < p[k]
    BY <1>5, <1>11, <1>12
  <2>2. DayAt(a, p[k]) <= LookTo(a)
    BY <1>1, <1>11, <1>12
  <2>3. LookedAt(a, p[k])
    BY <2>1, <2>2 DEF LookedAt
  <2> QED
    BY <1>10, <1>11, <2>3 DEF Finds
<1>13. ASSUME NEW d \in S PROVE d \in DaysToLookAt(a) /\ \E k \in Int : 1 <= k /\ d = f[k]
  <2>1. d \in DaysToLookAt(a)
    BY <1>10 DEF Finds
  <2>2. PICK k \in Int : LookedAt(a, p[k]) /\ d = DayAt(a, p[k])
    BY <1>10 DEF Finds
  <2>3. Base(a) < Base(a) + 360 * k
    BY <1>5, <1>11, <2>2 DEF LookedAt
  <2>4. 1 <= k
    BY <1>5, <2>3
  <2> QED
    BY <1>11, <2>1, <2>2, <2>4
<1>14. Has(a, f, S)
  BY <1>12, <1>13 DEF Has
<1> QED
  BY <1>6, <1>14 DEF f

\* or the Gatha day, or the last one before the new year for the sixth.
LEMMA YearlyIsFoundByGatha ==
    ASSUME NEW a, Memorial(a), InReach(a), Gatha(a)
    PROVE  Has(a, YearlyDays(a), Yearly(a, ReadDays(a)))
<1> DEFINE f == YearlyDays(a)
           s == a.system
           N(y) == NewYearDay(s, y)
           G(y) == MaxGatha(s, y)
           g(y) == IF a.roj <= G(y) THEN a.roj ELSE 5
           read == ReadDays(a)
           roj == a.roj
           looked == DaysToLookAt(a)
<1>1. /\ DeathGiven(a) /\ s \in System /\ a.year \in Int /\ roj \in 1 .. G(a.year)
      /\ LookTo(a) \in Int /\ DeathDay(a) \in Int /\ 1000 < DeathDay(a)
      /\ looked = DeathDay(a) + 1 .. LookTo(a)
  BY BaseIs, LooksFarEnough, DeathDayIs DEF Memorial
<1>2. \A d : d \in looked <=> d \in Int /\ DeathDay(a) < d /\ d <= LookTo(a)
  BY <1>1
<1>3. ASSUME NEW y \in Int
      PROVE  N(y) \in Int /\ G(y) \in {5, 6} /\ N(y + 1) = N(y) + 360 + G(y)
  <2>1. s \in System
    BY <1>1
  <2> QED
    BY ONLY <2>1, y \in Int, NewYearDayIs, YearIsLong
<1>4. roj \in Int /\ roj \in 1 .. 6 /\ (roj = 6 => G(a.year) = 6)
  <2>1. roj \in 1 .. G(a.year) /\ G(a.year) \in {5, 6}
    BY <1>1, <1>3
  <2> QED
    BY ONLY <2>1
<1>5. DeathDay(a) = N(a.year) + 360 + roj - 1
  <2>1. DeathDay(a) = ParsiToGregorian(a.year, s, 13, roj)
    BY DEF DeathDay, Gatha
  <2>2. ParsiToGregorian(a.year, s, 13, roj) = N(a.year) + 30 * (13 - 1) + roj - 1
    <3>1. 13 \in Int
      OBVIOUS
    <3> QED
      BY <1>1, <1>4, <3>1, PlaceInYear
  <2> HIDE DEF N, roj
  <2> QED
    BY <1>1, <1>3, <1>4, <2>1, <2>2
<1>6. ASSUME NEW y \in Int, NEW z \in Int, y <= z PROVE N(y) <= N(z)
  <2>1. N(y) + 365 * (z - y) <= N(z)
    BY ONLY <1>1, <1>6, y \in Int, z \in Int, YearsSpan
  <2> HIDE DEF N
  <2> QED
    BY <1>3, <1>6, <2>1
\* A Gatha day is read as one.
<1>7. ASSUME NEW y \in Int, NEW r \in Int, r \in 1 .. G(y), N(y) + 360 + r - 1 \in looked
      PROVE  Read(a, N(y) + 360 + r - 1) = [day |-> N(y) + 360 + r - 1, mah |-> 13, roj |-> r]
  <2> DEFINE d == N(y) + 360 + r - 1
  <2>1. Exists(s, y, 13, r) /\ 13 \in Int
    BY <1>7 DEF Exists
  <2>2. ParsiToGregorian(y, s, 13, r) = d
    <3>1. ParsiToGregorian(y, s, 13, r) = N(y) + 30 * (13 - 1) + r - 1
      BY <1>1, <2>1, PlaceInYear
    <3> HIDE DEF N
    <3> QED
      BY <1>3, <3>1
  <2>3. d \in Nat \ {0}
    <3> HIDE DEF d, looked
    <3>1. d \in Int /\ DeathDay(a) < d
      BY <1>2, <1>7 DEF d
    <3> QED
      BY <1>1, <3>1
  <2> HIDE DEF d, looked
  <2>4. GregorianToParsi(d, s) = <<y, 13, r>>
    BY <1>1, <2>1, <2>2, <2>3, DateIsRead
  <2>5. Read(a, d) = [day |-> d, mah |-> 13, roj |-> r]
    BY <2>4 DEF Read, s
  <2> QED
    BY <2>5 DEF d
\* Every day that is looked at has a date.
<1>8. ASSUME NEW d \in looked
      PROVE  \E y \in Int, m \in 1 .. 13, r \in 1 .. 30 :
                 /\ Read(a, d) = [day |-> d, mah |-> m, roj |-> r]
                 /\ N(y) <= d /\ d < N(y + 1)
                 /\ m = 13 => d = N(y) + 360 + r - 1 /\ r \in 1 .. G(y)
  <2>1. d \in Nat \ {0}
    <3> HIDE DEF looked
    <3> QED
      BY <1>1, <1>2
  <2>2. PICK y \in Int, m \in 1 .. 13, r \in 1 .. 30 :
            /\ GregorianToParsi(d, s) = <<y, m, r>>
            /\ Exists(s, y, m, r) /\ ParsiToGregorian(y, s, m, r) = d
            /\ N(y) <= d /\ d < N(y + 1)
    BY ONLY <1>1, <2>1, DayHasDate
  <2>3. Read(a, d) = [day |-> d, mah |-> m, roj |-> r]
    BY <2>2 DEF Read
  <2>4. ASSUME m = 13 PROVE d = N(y) + 360 + r - 1 /\ r \in 1 .. G(y)
    <3>1. r \in 1 .. G(y)
      BY <2>2, <2>4 DEF Exists
    <3>2. m \in Int /\ r \in Int
      OBVIOUS
    <3>3. ParsiToGregorian(y, s, m, r) = N(y) + 30 * (m - 1) + r - 1
      BY <1>1, <3>2, PlaceInYear
    <3> HIDE DEF N
    <3> QED
      BY <1>3, <2>2, <2>4, <3>1, <3>2, <3>3
  <2> QED
    BY <2>2, <2>3, <2>4
<1>9. ASSUME NEW k \in Int
      PROVE  /\ a.year + k \in Int /\ f[k] = N(a.year + k) + 360 + g(a.year + k) - 1
             /\ g(a.year + k) \in Int /\ g(a.year + k) \in 1 .. G(a.year + k)
             /\ g(a.year + k) # roj => roj = 6 /\ g(a.year + k) = G(a.year + k)
             /\ roj = 6 => g(a.year + k) = G(a.year + k)
  <2> DEFINE y == a.year + k
  <2>1. y \in Int
    BY <1>1
  <2>2. f[k] = N(y) + 360 + g(y) - 1
    BY DEF YearlyDays, GathaKept
  <2> HIDE DEF y
  <2>3. G(y) \in {5, 6}
    BY <1>3, <2>1
  <2> HIDE DEF G
  <2>4. g(y) = IF roj <= G(y) THEN roj ELSE 5
    OBVIOUS
  <2> HIDE DEF g, roj
  <2>5. /\ g(y) \in Int /\ g(y) \in 1 .. G(y)
        /\ g(y) # roj => roj = 6 /\ g(y) = G(y)
        /\ roj = 6 => g(y) = G(y)
    BY ONLY <1>4, <2>3, <2>4
  <2> QED
    BY <2>1, <2>2, <2>5 DEF y
<1>10. \A k \in Int : 1 <= k => DeathDay(a) < f[k]
  <2>1. Follows(a, f)
    BY <1>1, YearlyFollows
  <2> HIDE DEF f
  <2>2. Ascends(f) /\ DeathDay(a) <= f[0] /\ 0 \in Int
    BY <2>1 DEF Follows
  <2>3. ASSUME NEW k \in Int, 1 <= k PROVE DeathDay(a) < f[k]
    <3>1. f[0] \in Int /\ f[k] \in Int /\ f[0] < f[k]
      BY <2>2, <2>3 DEF Ascends
    <3> QED
      BY <1>1, <2>2, <3>1
  <2> QED
    BY <2>3
<1>11. \A y \in Int : f[y - a.year] = N(y) + 360 + g(y) - 1
  <2>1. TAKE y \in Int
  <2>2. y - a.year \in Int /\ a.year + (y - a.year) = y
    BY <1>1
  <2> QED
    BY <1>9, <2>2
<1> HIDE DEF f, N, G, g, looked
\* Those of the years to come are found;
<1>12. ASSUME NEW k \in Int, 1 <= k, f[k] < LookTo(a) PROVE f[k] \in Yearly(a, read)
  <2> DEFINE y == a.year + k
             d == f[k]
             x == Read(a, d)
  <2>1. /\ y \in Int /\ d = N(y) + 360 + g(y) - 1 /\ g(y) \in Int /\ g(y) \in 1 .. G(y)
        /\ g(y) # roj => roj = 6 /\ g(y) = G(y)
    BY <1>9
  <2> HIDE DEF y
  <2>2. N(y) \in Int /\ G(y) \in {5, 6} /\ N(y + 1) = N(y) + 360 + G(y)
    BY <1>3, <2>1
  <2>3. d \in looked
    <3>1. d \in Int /\ DeathDay(a) < d
      BY <1>10, <1>12, <2>1, <2>2
    <3> QED
      BY <1>1, <1>2, <1>12, <3>1
  <2>4. x = [day |-> d, mah |-> 13, roj |-> g(y)] /\ x \in read
    BY <1>7, <2>1, <2>3 DEF ReadDays, looked
  <2>5. CASE g(y) = roj
    <3>1. x \in {z \in read : z.mah = a.mah /\ z.roj = a.roj} /\ x.day = d
      BY <2>4, <2>5 DEF Gatha
    <3> QED
      BY <3>1 DEF Yearly, DaysOf
  <2>6. CASE g(y) # roj
    <3> DEFINE e == d + 1
               w == Read(a, e)
    <3>1. e = N(y + 1) /\ e \in Int /\ e \in looked /\ y + 1 \in Int
      <4>0. LookTo(a) \in Int /\ DeathDay(a) \in Int
        BY <1>1
      <4> HIDE DEF d, x, roj, read, s
      <4>1. d < LookTo(a)
        BY <1>12 DEF d
      <4>2. d \in Int /\ DeathDay(a) < d
        BY <1>2, <2>3
      <4>3. e = N(y + 1) /\ e \in Int /\ y + 1 \in Int
        BY ONLY <2>1, <2>2, <2>6, y \in Int DEF e
      <4>4. DeathDay(a) < e /\ e <= LookTo(a)
        BY ONLY <4>0, <4>1, <4>2 DEF e
      <4> HIDE DEF e
      <4> QED
        BY <1>2, <4>3, <4>4
    <3>2. e \in Nat \ {0}
      BY <1>1, <1>2, <3>1
    <3>3. ParsiToGregorian(y + 1, s, 1, 1) = e /\ Exists(s, y + 1, 1, 1) /\ 1 \in Int
      BY <3>1 DEF N, NewYearDay, Exists, DaysPerMonth
    <3> HIDE DEF e, s
    <3>4. GregorianToParsi(e, s) = <<y + 1, 1, 1>>
      <4> DEFINE z == y + 1
      <4>1. z \in Int /\ ParsiToGregorian(z, s, 1, 1) = e /\ Exists(s, z, 1, 1)
        BY <3>1, <3>3
      <4> HIDE DEF z
      <4>2. GregorianToParsi(e, s) = <<z, 1, 1>>
        BY <1>1, <3>2, <3>3, <4>1, DateIsRead
      <4> QED
        BY <4>2 DEF z
    <3>5. w = [day |-> e, mah |-> 1, roj |-> 1]
      BY <3>4 DEF Read, s
    <3>6. w \in InMahs(read) /\ w.day = e
      <4>1. w \in read
        BY <3>1 DEF ReadDays, looked
      <4> QED
        BY <3>5, <4>1 DEF InMahs
    <3>7. x \in {z \in read : z.mah = 13 /\ z.day + 1 \in DaysOf(InMahs(read))} /\ x.day = d
      BY <2>4, <3>6 DEF DaysOf, e
    <3>8. d \in LastGatha(read)
      BY <3>7 DEF LastGatha
    <3>9. a.roj = 6
      BY <2>1, <2>6
    <3> QED
      BY <3>8, <3>9 DEF Yearly
  <2> QED
    BY <2>5, <2>6
\* and nothing else is.
<1>13. ASSUME NEW d \in looked, NEW y \in Int, d = N(y) + 360 + g(y) - 1 PROVE \E k \in Int : 1 <= k /\ d = f[k]
  <2> DEFINE k == y - a.year
  <2>1. k \in Int /\ d = f[k]
    BY <1>1, <1>11, <1>13
  <2>2. k = y - a.year
    OBVIOUS
  <2> HIDE DEF k
  <2>3. ASSUME ~(1 <= k) PROVE FALSE
    <3>1. Ascends(f) /\ f[0] = DeathDay(a) /\ 0 \in Int
      <4>1. Follows(a, f)
        BY <1>1, YearlyFollows DEF f
      <4>2. a.year - a.year = 0 /\ g(a.year) = roj
        BY <1>1 DEF g
      <4>3. f[0] = N(a.year) + 360 + roj - 1
        <5>1. f[a.year - a.year] = N(a.year) + 360 + g(a.year) - 1
          BY ONLY <1>1, <1>11, ZenonT(60)
        <5> QED
          BY ONLY <4>2, <5>1
      <4> QED
        BY <1>5, <4>1, <4>3 DEF Follows
    <3>2. f[k] \in Int /\ (k < 0 => f[k] < f[0])
      BY <2>1, <3>1 DEF Ascends
    <3>3. f[k] <= DeathDay(a)
      BY <1>1, <2>1, <2>3, <3>1, <3>2
    <3>4. DeathDay(a) < f[k]
      BY <1>2, <2>1
    <3> QED
      BY <1>1, <3>2, <3>3, <3>4
  <2> QED
    BY <2>1, <2>3
<1>14. \A x \in read : x.day \in looked /\ x = Read(a, x.day)
  BY DEF ReadDays, Read, looked
<1>15. ASSUME NEW d \in Yearly(a, read) PROVE d \in looked /\ \E k \in Int : 1 <= k /\ d = f[k]
  <2>1. (\E x \in read : d = x.day /\ x.mah = 13 /\ x.roj = roj) \/ (roj = 6 /\ d \in LastGatha(read))
    BY DEF Yearly, DaysOf, Gatha
  <2>2. CASE \E x \in read : d = x.day /\ x.mah = 13 /\ x.roj = roj
    <3>1. PICK x \in read : d = x.day /\ x.mah = 13 /\ x.roj = roj
      BY <2>2
    <3>2. d \in looked /\ x = Read(a, d)
      BY <1>14, <3>1
    <3>3. PICK y \in Int, m \in 1 .. 13, r \in 1 .. 30 :
              /\ Read(a, d) = [day |-> d, mah |-> m, roj |-> r]
              /\ m = 13 => d = N(y) + 360 + r - 1 /\ r \in 1 .. G(y)
      BY <1>8, <3>2
    <3>4. m = 13 /\ r = roj
      BY <3>1, <3>2, <3>3
    <3>5. d = N(y) + 360 + roj - 1 /\ roj \in 1 .. G(y)
      BY <3>3, <3>4
    <3>6. roj <= G(y)
      <4>1. G(y) \in {5, 6}
        BY <1>3
      <4> QED
        BY <3>5, <4>1
    <3>7. g(y) = roj
      BY <3>6 DEF g
    <3> QED
      BY <1>13, <3>2, <3>5, <3>7
  <2>3. CASE roj = 6 /\ d \in LastGatha(read)
    <3>1. PICK x \in read : d = x.day /\ x.mah = 13 /\ x.day + 1 \in DaysOf(InMahs(read))
      BY <2>3 DEF LastGatha
    <3>2. d \in looked /\ x = Read(a, d)
      BY <1>14, <3>1
    <3>3. PICK y \in Int, m \in 1 .. 13, r \in 1 .. 30 :
              /\ Read(a, d) = [day |-> d, mah |-> m, roj |-> r]
              /\ m = 13 => d = N(y) + 360 + r - 1 /\ r \in 1 .. G(y)
      BY <1>8, <3>2
    <3>4. d = N(y) + 360 + r - 1 /\ r \in 1 .. G(y) /\ r \in Int
      BY <3>1, <3>2, <3>3
    <3>5. G(y) \in {5, 6} /\ N(y) \in Int
      BY <1>3
    <3>6. r = G(y)
      <4>1. SUFFICES ASSUME r # G(y) PROVE FALSE
        OBVIOUS
      <4> DEFINE q == r + 1
                 e == N(y) + 360 + q - 1
      <4>2. q \in Int /\ q \in 1 .. G(y) /\ e = d + 1
        BY <3>4, <3>5, <4>1
      <4>3. PICK z \in InMahs(read) : d + 1 = z.day
        BY <3>1 DEF DaysOf
      <4>4. z \in read /\ z.mah <= 12
        BY <4>3 DEF InMahs
      <4>5. e \in looked /\ z = Read(a, e)
        BY <1>14, <4>2, <4>3, <4>4
      <4> HIDE DEF q
      <4>6. Read(a, e) = [day |-> e, mah |-> 13, roj |-> q]
        BY <1>7, <4>2, <4>5
      <4>7. z.mah = 13
        BY <4>5, <4>6
      <4> QED
        BY ONLY <4>4, <4>7
    <3>7. g(y) = G(y)
      <4>1. g(y) = IF roj <= G(y) THEN roj ELSE 5
        BY DEF g
      <4> HIDE DEF roj
      <4> QED
        BY ONLY <2>3, <3>5, <4>1
    <3> QED
      BY <1>13, <3>2, <3>4, <3>6, <3>7
  <2> QED
    BY <2>1, <2>2, <2>3
<1>16. Has(a, f, Yearly(a, read))
  BY <1>12, <1>15 DEF Has, looked
<1> QED
  BY <1>16 DEF f

\* The monthly and yearly days that are looked at.
MonthlyOf(a) == Monthly(a, InMahs(ReadDays(a)))
YearlyOf(a) == Yearly(a, ReadDays(a))

\* Looking finds both series.
LEMMA SeriesAreFound ==
    ASSUME NEW a, Memorial(a), InReach(a)
    PROVE  /\ Has(a, MonthlyDays(a), MonthlyOf(a)) /\ Has(a, YearlyDays(a), YearlyOf(a))
           /\ Ascends(MonthlyDays(a)) /\ Ascends(YearlyDays(a))
<1>1. DeathGiven(a)
  BY DEF Memorial
<1>2. Has(a, YearlyDays(a), YearlyOf(a))
  BY YearlyIsFoundByRoj, YearlyIsFoundByGatha DEF YearlyOf
<1> QED
  BY <1>1, <1>2, MonthlyIsFound, MonthlyFollows, YearlyFollows DEF MonthlyOf, Follows

\* Masiso, Bamsi, Chamsi and the Varsi, found by looking.
LEMMA NamedDayIs ==
    ASSUME NEW a, Memorial(a), InReach(a)
    PROVE  LET y == YearlyOf(a)
               m == MonthlyOf(a)
           IN  /\ NamedDay(30, y, m) = MonthlyDays(a)[1] /\ NamedDay(60, y, m) = MonthlyDays(a)[2]
               /\ NamedDay(180, y, m) = MonthlyDays(a)[6] /\ NamedDay(360, y, m) = YearlyDays(a)[1]
               /\ MonthlyDays(a)[1] \in m /\ MonthlyDays(a)[2] \in m /\ MonthlyDays(a)[6] \in m
               /\ YearlyDays(a)[1] \in y
<1> DEFINE y == YearlyOf(a)
           m == MonthlyOf(a)
           f == MonthlyDays(a)
           g == YearlyDays(a)
<1>1. Has(a, f, m) /\ Has(a, g, y) /\ Ascends(f) /\ Ascends(g)
  BY SeriesAreFound
<1>2. f[1] < LookTo(a) /\ f[2] < LookTo(a) /\ f[6] < LookTo(a) /\ g[1] < LookTo(a)
  BY NamedAreLookedAt
<1> HIDE DEF y, m, f, g
<1>3. 1 \in Nat \ {0} /\ 2 \in Nat \ {0} /\ 6 \in Nat \ {0}
  OBVIOUS
<1>4. Nth(1, m) = f[1] /\ f[1] \in m
  BY ONLY Memorial(a), InReach(a), <1>1, <1>2, <1>3, NthOfSeries
<1>5. Nth(2, m) = f[2] /\ f[2] \in m
  BY ONLY Memorial(a), InReach(a), <1>1, <1>2, <1>3, NthOfSeries
<1>6. Nth(6, m) = f[6] /\ f[6] \in m
  BY ONLY Memorial(a), InReach(a), <1>1, <1>2, <1>3, NthOfSeries
<1>7. g[1] \in y
  BY <1>1, <1>2 DEF Has
<1>8. Least(y) = g[1]
  <2>1. ASSUME NEW d \in y PROVE d \in Int /\ g[1] <= d
    <3>1. PICK k \in Int : 1 <= k /\ d = g[k]
      BY <1>1 DEF Has
    <3>2. g[k] \in Int /\ g[1] \in Int /\ (1 < k => g[1] < g[k])
      BY <1>1 DEF Ascends
    <3> QED
      BY <3>1, <3>2
  <2> QED
    BY <1>7, <2>1, LeastIs
<1>9. /\ NamedDay(30, y, m) = Nth(1, m) /\ NamedDay(60, y, m) = Nth(2, m)
      /\ NamedDay(180, y, m) = Nth(6, m) /\ NamedDay(360, y, m) = Least(y)
  BY DEF NamedDay
<1> QED
  BY <1>4, <1>5, <1>6, <1>7, <1>8, <1>9 DEF y, m, f, g

\* A monthly day is a yearly one when it is the twelfth, but for a Gatha death.
LEMMA MonthIsYear ==
    ASSUME NEW a, DeathGiven(a), NEW j \in Int, NEW k \in Int
    PROVE  MonthlyDays(a)[k] = YearlyDays(a)[j] <=> ~Gatha(a) /\ k = 12 * j
<1>1. CASE ~Gatha(a)
  <2> DEFINE c == Base(a) + 30 * k
             d == Base(a) + 360 * j
  <2>1. c \in Int /\ d \in Int /\ (c = d <=> k = 12 * j)
    BY BaseIs
  <2>2. MonthlyDays(a)[k] = DayAt(a, c) /\ YearlyDays(a)[j] = DayAt(a, d)
    BY <1>1 DEF MonthlyDays, YearlyDays
  <2> HIDE DEF c, d
  <2>3. DayAt(a, c) = DayAt(a, d) <=> c = d
    BY <2>1, PlacesInOrder
  <2> QED
    BY <1>1, <2>1, <2>2, <2>3
<1>2. CASE Gatha(a)
  <2>1. ASSUME MonthlyDays(a)[k] = YearlyDays(a)[j] PROVE FALSE
    <3> DEFINE c == Base(a) + 30 * k
               s == a.system
               q == c \div 360
               w == c % 360
               y == BaseYear(a) + q
               z == a.year + j
               g == IF a.roj <= MaxGatha(s, z) THEN a.roj ELSE 5
               d == MonthlyDays(a)[k]
    <3>1. s \in System /\ c \in Int /\ z \in Int /\ BaseYear(a) \in Int
          /\ a.year \in Int /\ a.roj \in 1 .. MaxGatha(s, a.year)
      BY <1>2, BaseIs
    <3>2. d = DayAt(a, c) /\ d = NewYearDay(s, z) + 360 + g - 1
      BY <1>2, <2>1 DEF MonthlyDays, YearlyDays, GathaKept
    <3>3. q \in Int /\ w \in 0 .. 359 /\ d = NewYearDay(s, y) + w
      <4> HIDE DEF c, s
      <4>1. DayAt(a, c) = NewYearDay(s, y) + w
        BY DEF DayAt, Place, s
      <4>2. q \in Int /\ w \in 0 .. 359
        BY <3>1
      <4> QED
        BY <3>2, <4>1, <4>2
    <3> HIDE DEF c, q, w, z, d, s
    <3>4. y \in Int
      BY <3>1, <3>3
    <3> HIDE DEF y
    <3>5. /\ MaxGatha(s, y) \in {5, 6} /\ MaxGatha(s, z) \in {5, 6} /\ MaxGatha(s, a.year) \in {5, 6}
          /\ NewYearDay(s, y + 1) = NewYearDay(s, y) + 360 + MaxGatha(s, y)
          /\ NewYearDay(s, z + 1) = NewYearDay(s, z) + 360 + MaxGatha(s, z)
      BY <3>1, <3>4, YearIsLong
    <3>6. NewYearDay(s, y) \in Int /\ NewYearDay(s, z) \in Int
      BY <3>1, <3>4, NewYearDayIs
    <3>7. g \in 1 .. MaxGatha(s, z)
      BY <3>1, <3>5
    <3> HIDE DEF g
    <3>8. d \in Int /\ NewYearDay(s, y) <= d /\ d < NewYearDay(s, y + 1)
          /\ NewYearDay(s, z) <= d /\ d < NewYearDay(s, z + 1)
      BY <3>2, <3>3, <3>5, <3>6, <3>7
    <3>9. z = y
      BY <3>1, <3>4, <3>8, YearHas
    <3> QED
      BY <3>2, <3>3, <3>5, <3>6, <3>7, <3>9
  <2> QED
    BY <1>2, <2>1
<1> QED
  BY <1>1, <1>2

-----------------------------------------------------------------------------
(***************************************************************************)
(* The monthly and the yearly days that are meant, by number.              *)
(***************************************************************************)

\* The days a family names: the Masiso, the Bamsi, the Chamsi, and the Varsi.
PickedMonths(a) == {k \in {1, 2, 6} : 30 * k \in a.named}
PickedYears(a) == {k \in {1} : 360 * k \in a.named}
\* The twelfth monthly day goes by the name of the yearly one, but for a Gatha death.
IsTwelfth(a, k) == ~Gatha(a) /\ k % 12 = 0
MonthsAhead(a) == FirstValid(a, "m") .. FirstValid(a, "m") + a.months - 1

\* What each kind comes to, by number.
YearDays(a) ==
    Run(YearlyDays(a), FirstValid(a, "y"), a.years)
        \cup {MonthlyDays(a)[k] : k \in {i \in MonthsAhead(a) : IsTwelfth(a, i)}}
        \cup StillAhead(a, {YearlyDays(a)[k] : k \in PickedYears(a)})
MonthDays(a) ==
    {MonthlyDays(a)[k] : k \in {i \in MonthsAhead(a) : ~IsTwelfth(a, i)}}
        \cup StillAhead(a, {MonthlyDays(a)[k] : k \in PickedMonths(a)})
LitDays(a) == StillAhead(a, {DeathDay(a) + n - 1 : n \in Literal(a)})
DeciDays(a) == StillAhead(a, {ShownDay(a, n) : n \in a.named \cap {29, 59, 179, 359}})

\* Both series start with the first that is not over.
LEMMA SeriesCount ==
    ASSUME NEW a, Memorial(a), InReach(a)
    PROVE  /\ CountsFrom(a, MonthlyDays(a), FirstValid(a, "m"))
           /\ CountsFrom(a, YearlyDays(a), FirstValid(a, "y"))
<1>1. DeathGiven(a)
  BY DEF Memorial
<1>2. /\ Follows(a, MonthlyDays(a)) /\ \A k \in Nat : Resolve(a, Canon(a, "m", k)) = MonthlyDays(a)[k]
  BY <1>1, MonthlyFollows, MonthDayIs
<1>3. \A k \in Nat : Canon(a, "y", k) = <<"y", k>>
  BY CanonIs
<1>4. /\ Follows(a, YearlyDays(a)) /\ \A k \in Nat : Resolve(a, Canon(a, "y", k)) = YearlyDays(a)[k]
  BY <1>1, <1>3, YearlyFollows DEF YearDayOf
<1> QED
  BY <1>1, <1>2, <1>4, FirstValidIs

\* Of each, the first so many of the words are those that are counted.
LEMMA FirstOfSeries ==
    ASSUME NEW a, Memorial(a), InReach(a)
    PROVE  /\ Earliest(a, a.months, MonthlyOf(a)) = Run(MonthlyDays(a), FirstValid(a, "m"), a.months)
           /\ Earliest(a, a.years, YearlyOf(a)) = Run(YearlyDays(a), FirstValid(a, "y"), a.years)
<1>1. a.months \in Nat /\ a.years \in Nat
  BY DEF Memorial, ChoiceMade
<1>2. MonthlyDays(a)[FirstValid(a, "m") + a.months - 1] < LookTo(a)
  BY SeriesCount, MonthsAreLookedAt
<1>3. YearlyDays(a)[FirstValid(a, "y") + a.years - 1] < LookTo(a)
  BY SeriesCount, YearsAreLookedAt
<1>4. /\ CountsFrom(a, MonthlyDays(a), FirstValid(a, "m"))
      /\ CountsFrom(a, YearlyDays(a), FirstValid(a, "y"))
      /\ Has(a, MonthlyDays(a), MonthlyOf(a)) /\ Has(a, YearlyDays(a), YearlyOf(a))
      /\ Ascends(MonthlyDays(a)) /\ Ascends(YearlyDays(a))
  BY SeriesCount, SeriesAreFound
<1>5. Earliest(a, a.months, MonthlyOf(a)) = Run(MonthlyDays(a), FirstValid(a, "m"), a.months)
  BY ONLY Memorial(a), InReach(a), <1>1, <1>2, <1>4, FoundOfSeries
<1>6. Earliest(a, a.years, YearlyOf(a)) = Run(YearlyDays(a), FirstValid(a, "y"), a.years)
  BY ONLY Memorial(a), InReach(a), <1>1, <1>3, <1>4, FoundOfSeries
<1> QED
  BY <1>5, <1>6

\* Of the monthly days that are looked at, the twelfth is a yearly day and no other.
LEMMA MonthFoundAsYear ==
    ASSUME NEW a, Memorial(a), InReach(a), NEW k \in Int, 1 <= k, MonthlyDays(a)[k] < LookTo(a)
    PROVE  MonthlyDays(a)[k] \in MonthlyOf(a) /\ (MonthlyDays(a)[k] \in YearlyOf(a) <=> IsTwelfth(a, k))
<1>1. Has(a, MonthlyDays(a), MonthlyOf(a)) /\ Has(a, YearlyDays(a), YearlyOf(a)) /\ DeathGiven(a)
  BY SeriesAreFound DEF Memorial
<1>2. MonthlyDays(a)[k] \in MonthlyOf(a)
  BY <1>1 DEF Has
<1>3. ASSUME MonthlyDays(a)[k] \in YearlyOf(a) PROVE IsTwelfth(a, k)
  <2>1. PICK j \in Int : 1 <= j /\ MonthlyDays(a)[k] = YearlyDays(a)[j]
    BY <1>1, <1>3 DEF Has
  <2>2. ~Gatha(a) /\ k = 12 * j
    BY <1>1, <2>1, MonthIsYear
  <2> QED
    BY <2>1, <2>2 DEF IsTwelfth
<1>4. ASSUME IsTwelfth(a, k) PROVE MonthlyDays(a)[k] \in YearlyOf(a)
  <2> DEFINE j == k \div 12
  <2>1. j \in Int /\ k = 12 * j /\ 1 <= j /\ ~Gatha(a)
    BY <1>4 DEF IsTwelfth
  <2> HIDE DEF j
  <2>2. MonthlyDays(a)[k] = YearlyDays(a)[j]
    BY <1>1, <2>1, MonthIsYear
  <2> QED
    BY <1>1, <2>1, <2>2 DEF Has
<1> QED
  BY <1>2, <1>3, <1>4

\* The months that are counted are looked at.
LEMMA MonthsAheadAre ==
    ASSUME NEW a, Memorial(a), InReach(a), NEW k \in MonthsAhead(a)
    PROVE  k \in Int /\ 1 <= k /\ MonthlyDays(a)[k] < LookTo(a)
<1> DEFINE f == MonthlyDays(a)
           v == FirstValid(a, "m")
           w == v + a.months - 1
<1>1. a.months \in Nat /\ v \in Nat \ {0} /\ Ascends(f) /\ f[w] < LookTo(a) /\ LookTo(a) \in Int
  BY SeriesCount, MonthsAreLookedAt, SeriesAreFound, LooksFarEnough DEF Memorial, ChoiceMade, CountsFrom
<1>2. k \in v .. w
  BY DEF MonthsAhead
<1> HIDE DEF f, v
<1>3. k \in Int /\ 1 <= k /\ k <= w /\ w \in Int
  BY <1>1, <1>2
<1> HIDE DEF w
<1>4. f[k] \in Int /\ f[w] \in Int /\ (k < w => f[k] < f[w])
  BY <1>1, <1>3 DEF Ascends
<1> QED
  BY <1>1, <1>3, <1>4 DEF f

\* The words that are numbered: the yearly days and the monthly days that are meant.
NamedInWords(a) == StillAhead(a, {NamedDay(n, YearlyOf(a), MonthlyOf(a)) : n \in a.named \cap DOMAIN NamedSpan})
MonthsInWords(a) == (NamedInWords(a) \cap MonthlyOf(a)) \cup Earliest(a, a.months, MonthlyOf(a))
YearsInWords(a) == (NamedInWords(a) \cap YearlyOf(a)) \cup Earliest(a, a.years, YearlyOf(a))

\* The named days are months and years of the two series.
LEMMA NamedAre ==
    ASSUME NEW a, Memorial(a), InReach(a)
    PROVE  LET p == {MonthlyDays(a)[k] : k \in PickedMonths(a)}
               q == {YearlyDays(a)[k] : k \in PickedYears(a)}
           IN  /\ NamedInWords(a) = StillAhead(a, p \cup q)
               /\ p \subseteq MonthlyOf(a) /\ p \cap YearlyOf(a) = {} /\ q \subseteq YearlyOf(a)
<1> DEFINE f == MonthlyDays(a)
           g == YearlyDays(a)
           p == {f[k] : k \in PickedMonths(a)}
           q == {g[k] : k \in PickedYears(a)}
           y == YearlyOf(a)
           m == MonthlyOf(a)
           D(n) == NamedDay(n, y, m)
<1>1. /\ D(30) = f[1] /\ D(60) = f[2] /\ D(180) = f[6] /\ D(360) = g[1]
      /\ f[1] \in m /\ f[2] \in m /\ f[6] \in m /\ g[1] \in y
  BY NamedDayIs
<1>2. f[1] < LookTo(a) /\ f[2] < LookTo(a) /\ f[6] < LookTo(a)
  BY NamedAreLookedAt
<1>3. ~IsTwelfth(a, 1) /\ ~IsTwelfth(a, 2) /\ ~IsTwelfth(a, 6)
  BY DEF IsTwelfth
<1>4. f[1] \notin y /\ f[2] \notin y /\ f[6] \notin y
  <2>1. 1 \in Int /\ 2 \in Int /\ 6 \in Int /\ 1 <= 1 /\ 1 <= 2 /\ 1 <= 6
    OBVIOUS
  <2> QED
    BY <1>2, <1>3, <2>1, MonthFoundAsYear
<1> HIDE DEF f, g, y, m
<1>5. p \subseteq m /\ p \cap y = {} /\ q \subseteq y
  BY <1>1, <1>4 DEF PickedMonths, PickedYears
<1>6. {D(n) : n \in a.named \cap DOMAIN NamedSpan} = p \cup q
  <2>1. DOMAIN NamedSpan = {30, 60, 180, 360}
    BY NamedKeyIs
  <2>2. /\ 30 \in a.named => f[1] \in p
        /\ 60 \in a.named => f[2] \in p
        /\ 180 \in a.named => f[6] \in p
        /\ 360 \in a.named => g[1] \in q
    BY DEF PickedMonths, PickedYears
  <2>3. ASSUME NEW d \in p
        PROVE  (30 \in a.named /\ d = f[1]) \/ (60 \in a.named /\ d = f[2]) \/ (180 \in a.named /\ d = f[6])
    <3>1. PICK k \in {1, 2, 6} : 30 * k \in a.named /\ d = f[k]
      BY DEF PickedMonths
    <3> QED
      BY <3>1
  <2>4. ASSUME NEW d \in q PROVE 360 \in a.named /\ d = g[1]
    BY DEF PickedYears
  <2> HIDE DEF D, p, q
  <2> QED
    BY <1>1, <2>1, <2>2, <2>3, <2>4
<1> QED
  BY <1>5, <1>6 DEF NamedInWords, f, g, y, m

\* With the named days among them, the yearly and the monthly days that are meant.
LEMMA SeriesAreMeant ==
    ASSUME NEW a, Memorial(a), InReach(a)
    PROVE  /\ YearsInWords(a) \cup (MonthsInWords(a) \cap YearlyOf(a)) = YearDays(a)
           /\ MonthsInWords(a) \ YearlyOf(a) = MonthDays(a)
<1> DEFINE f == MonthlyDays(a)
           g == YearlyDays(a)
           p == {f[k] : k \in PickedMonths(a)}
           q == {g[k] : k \in PickedYears(a)}
           y == YearlyOf(a)
           m == MonthlyOf(a)
           R == Run(f, FirstValid(a, "m"), a.months)
           W == Run(g, FirstValid(a, "y"), a.years)
           twelfth == {f[k] : k \in {i \in MonthsAhead(a) : IsTwelfth(a, i)}}
           others == {f[k] : k \in {i \in MonthsAhead(a) : ~IsTwelfth(a, i)}}
<1>1. NamedInWords(a) = StillAhead(a, p \cup q) /\ p \subseteq m /\ p \cap y = {} /\ q \subseteq y
  BY NamedAre
<1>2. \A k \in MonthsAhead(a) : f[k] \in m /\ (f[k] \in y <=> IsTwelfth(a, k))
  BY MonthsAheadAre, MonthFoundAsYear
<1>3. R = {f[k] : k \in MonthsAhead(a)}
  BY DEF Run, MonthsAhead
<1>4. R \cap y = twelfth /\ R \ y = others
  <2> HIDE DEF f, y
  <2> QED
    BY <1>2, <1>3
<1>5. MonthsInWords(a) = (NamedInWords(a) \cap m) \cup R /\ YearsInWords(a) = (NamedInWords(a) \cap y) \cup W
  BY FirstOfSeries DEF MonthsInWords, YearsInWords
<1>6. /\ YearDays(a) = W \cup twelfth \cup StillAhead(a, q)
      /\ MonthDays(a) = others \cup StillAhead(a, p)
  BY DEF YearDays, MonthDays
<1>7. NamedInWords(a) \cap y = StillAhead(a, q) /\ (NamedInWords(a) \cap m) \ y = StillAhead(a, p)
  <2> HIDE DEF p, q, y, m
  <2> QED
    BY <1>1 DEF StillAhead
<1> HIDE DEF f, g, p, q, y, m, R, W, twelfth, others
<1>8. YearsInWords(a) \cup (MonthsInWords(a) \cap y) = YearDays(a)
  BY <1>4, <1>5, <1>6, <1>7
<1>9. MonthsInWords(a) \ y = MonthDays(a)
  BY <1>4, <1>5, <1>6, <1>7
<1> QED
  BY <1>8, <1>9 DEF y

-----------------------------------------------------------------------------
(***************************************************************************)
(* What is claimed.                                                        *)
(***************************************************************************)

\* What is claimed: the series, and what is chosen that is not over.
ClaimedKeys(a) ==
    KeysOf(YearsOf(a) \cup MonthsOf(a)) \cup {key \in KeysOf(Chosen(a)) : Resolve(a, key) >= a.from}

\* The days of the rows are the days of what is claimed, kind by kind.
LEMMA ClaimsAre ==
    ASSUME NEW a, NEW kind
    PROVE  DaysOf({o \in Claims(a) : o.kind = kind})
               = {Resolve(a, key) : key \in {k \in ClaimedKeys(a) : k[1] = kind}}
<1> DEFINE chosen == Chosen(a)
           years == YearsOf(a)
           months == MonthsOf(a)
           yearly == {c \in years : c.key \notin KeysOf(chosen)}
           monthly == {c \in months : c.key \notin KeysOf(chosen \cup yearly)}
           series == KeysOf(years \cup months)
           sure == yearly \cup monthly \cup {c \in chosen : c.key \in series}
           rest == Rows(a, {c \in chosen : c.key \notin series})
           Row(c) == [kind |-> c.key[1], code |-> c.code, day |-> Resolve(a, c.key)]
<1>1. Claims(a) = Rows(a, sure) \cup {o \in rest : o.day >= a.from}
  BY DEF Claims, Claimed
<1>2. \A C : Rows(a, C) = {Row(c) : c \in C}
  BY DEF Rows
<1>3. \A C : KeysOf(C) = {c.key : c \in C}
  BY DEF KeysOf
<1>4. \A c : Row(c).kind = c.key[1] /\ Row(c).day = Resolve(a, c.key)
  OBVIOUS
<1>5. \A c \in sure : c.key \in ClaimedKeys(a)
  BY <1>3 DEF ClaimedKeys
<1>6. \A c \in chosen : Resolve(a, c.key) >= a.from => c.key \in ClaimedKeys(a)
  BY <1>3 DEF ClaimedKeys
<1>7. ASSUME NEW key \in ClaimedKeys(a)
      PROVE  (\E c \in sure : c.key = key)
             \/ \E c \in chosen : c.key = key /\ c.key \notin series /\ Resolve(a, key) >= a.from
  <2>1. CASE \E c \in chosen : c.key = key
    BY <1>3, <2>1 DEF ClaimedKeys
  <2>2. CASE key \notin KeysOf(chosen) /\ key \in KeysOf(years)
    BY <1>3, <2>2
  <2>3. CASE key \notin KeysOf(chosen) /\ key \notin KeysOf(years)
    <3>1. PICK c \in months : c.key = key
      BY <1>3, <2>3 DEF ClaimedKeys
    <3>2. key \notin KeysOf(chosen \cup yearly)
      BY <1>3, <2>3
    <3> QED
      BY <3>1, <3>2
  <2> QED
    BY <1>3, <2>1, <2>2, <2>3
<1> HIDE DEF sure, series, chosen
<1>8. ASSUME NEW o \in Claims(a)
      PROVE  \E key \in ClaimedKeys(a) : o.kind = key[1] /\ o.day = Resolve(a, key)
  <2>1. CASE o \in Rows(a, sure)
    <3>1. PICK c \in sure : o = Row(c)
      BY <1>2, <2>1
    <3> QED
      BY <1>4, <1>5, <3>1
  <2>2. CASE o \in rest /\ o.day >= a.from
    <3>1. PICK c \in chosen : o = Row(c)
      BY <1>2, <2>2
    <3> QED
      BY <1>4, <1>6, <2>2, <3>1
  <2> QED
    BY <1>1, <2>1, <2>2
<1>9. ASSUME NEW key \in ClaimedKeys(a)
      PROVE  \E o \in Claims(a) : o.kind = key[1] /\ o.day = Resolve(a, key)
  <2>1. CASE \E c \in sure : c.key = key
    <3>1. PICK c \in sure : c.key = key
      BY <2>1
    <3>2. Row(c) \in Claims(a)
      BY <1>1, <1>2
    <3> QED
      BY <1>4, <3>1, <3>2
  <2>2. CASE \E c \in chosen : c.key = key /\ c.key \notin series /\ Resolve(a, key) >= a.from
    <3>1. PICK c \in chosen : c.key = key /\ c.key \notin series /\ Resolve(a, key) >= a.from
      BY <2>2
    <3>2. Row(c) \in rest
      BY <1>2, <3>1
    <3>3. Row(c) \in Claims(a)
      BY <1>1, <1>4, <3>1, <3>2
    <3> QED
      BY <1>4, <3>1, <3>3
  <2> QED
    BY <1>7, <2>1, <2>2
<1> QED
  BY <1>8, <1>9 DEF DaysOf

\* The keys of the series, and of what is chosen.
LEMMA KeysAre ==
    ASSUME NEW a, Memorial(a), InReach(a)
    PROVE  /\ \A key : key \in KeysOf(YearsOf(a)) <=>
                  \E k \in FirstValid(a, "y") .. FirstValid(a, "y") + a.years - 1 : key = <<"y", k>>
           /\ \A key : key \in KeysOf(MonthsOf(a)) <=> \E k \in MonthsAhead(a) : key = Canon(a, "m", k)
           /\ \A key : key \in KeysOf(Chosen(a)) <=>
                  \/ \E n \in Literal(a) : key = <<"lit", n>>
                  \/ \E n \in a.named \ {10} : key = KeyOfNamed(a, n)
<1>1. /\ a.months \in Nat /\ a.years \in Nat
      /\ FirstValid(a, "m") \in Nat \ {0} /\ FirstValid(a, "y") \in Nat \ {0}
  BY SeriesCount DEF Memorial, ChoiceMade, CountsFrom
<1>2. ASSUME NEW v \in Nat, NEW n \in Nat PROVE {v + i : i \in 0 .. n - 1} = v .. v + n - 1
  <2>1. ASSUME NEW k \in v .. v + n - 1 PROVE k \in {v + i : i \in 0 .. n - 1}
    <3>1. k - v \in 0 .. n - 1 /\ k = v + (k - v)
      OBVIOUS
    <3> QED
      BY <3>1
  <2> QED
    BY <2>1
<1>3. /\ {FirstValid(a, "y") + i : i \in 0 .. a.years - 1} = FirstValid(a, "y") .. FirstValid(a, "y") + a.years - 1
      /\ {FirstValid(a, "m") + i : i \in 0 .. a.months - 1} = MonthsAhead(a)
  BY <1>1, <1>2 DEF MonthsAhead
<1>4. ASSUME NEW key
      PROVE  key \in KeysOf(YearsOf(a)) <=>
                 \E k \in FirstValid(a, "y") .. FirstValid(a, "y") + a.years - 1 : key = <<"y", k>>
  <2> DEFINE Y(k) == [key |-> <<"y", k>>, code |-> <<"year", k>>]
             S == FirstValid(a, "y") .. FirstValid(a, "y") + a.years - 1
  <2>1. YearsOf(a) = {Y(k) : k \in S}
    BY <1>3 DEF YearsOf
  <2>2. \A k : Y(k).key = <<"y", k>>
    OBVIOUS
  <2>3. key \in KeysOf(YearsOf(a)) <=> \E c \in YearsOf(a) : key = c.key
    BY DEF KeysOf
  <2> HIDE DEF Y, S
  <2>4. key \in KeysOf(YearsOf(a)) <=> \E k \in S : key = <<"y", k>>
    BY <2>1, <2>2, <2>3
  <2> QED
    BY <2>4 DEF S
<1>5. ASSUME NEW key
      PROVE  key \in KeysOf(MonthsOf(a)) <=> \E k \in MonthsAhead(a) : key = Canon(a, "m", k)
  <2> DEFINE M(k) == [key |-> Canon(a, "m", k), code |-> <<"month", k>>]
  <2>1. MonthsOf(a) = {M(k) : k \in MonthsAhead(a)}
    BY <1>3 DEF MonthsOf
  <2>2. \A k : M(k).key = Canon(a, "m", k)
    OBVIOUS
  <2>3. key \in KeysOf(MonthsOf(a)) <=> \E c \in MonthsOf(a) : key = c.key
    BY DEF KeysOf
  <2> HIDE DEF M
  <2> QED
    BY <2>1, <2>2, <2>3
<1>6. ASSUME NEW key
      PROVE  key \in KeysOf(Chosen(a)) <=>
                  \/ \E n \in Literal(a) : key = <<"lit", n>>
                  \/ \E n \in a.named \ {10} : key = KeyOfNamed(a, n)
  <2> DEFINE L(n) == [key |-> <<"lit", n>>, code |-> <<"day", n>>]
             N(n) == [key |-> KeyOfNamed(a, n), code |-> <<"day", n>>]
  <2>1. Chosen(a) = {L(n) : n \in Literal(a)} \cup {N(n) : n \in a.named \ {10}}
    BY DEF Chosen
  <2>2. \A n : L(n).key = <<"lit", n>> /\ N(n).key = KeyOfNamed(a, n)
    OBVIOUS
  <2>3. key \in KeysOf(Chosen(a)) <=> \E c \in Chosen(a) : key = c.key
    BY DEF KeysOf
  <2> HIDE DEF L, N
  <2> QED
    BY <2>1, <2>2, <2>3
<1> QED
  BY <1>4, <1>5, <1>6

\* The dates of what is claimed.
LEMMA LitDate ==
    ASSUME NEW a, NEW n \in Int PROVE Resolve(a, <<"lit", n>>) = DeathDay(a) + n - 1
<1>1. <<"lit", n>>[1] = "lit" /\ <<"lit", n>>[2] = n
  OBVIOUS
<1>2. Dated(a, <<"lit", n>>) = DeathDay(a) + n - 1
  BY <1>1, DatedIs
<1> QED
  BY <1>1, <1>2 DEF Resolve

\* The yearly and the monthly ones.
LEMMA SeriesDate ==
    ASSUME NEW a, DeathGiven(a), NEW k \in Nat
    PROVE  Resolve(a, <<"y", k>>) = YearlyDays(a)[k] /\ Resolve(a, Canon(a, "m", k)) = MonthlyDays(a)[k]
BY YearlyFollows, MonthlyFollows, MonthDayIs DEF YearDayOf

\* The Decis.
LEMMA DeciDate ==
    ASSUME NEW a, NEW n \in {29, 59, 179, 359} PROVE Resolve(a, <<"deci", n>>) = ShownDay(a, n)
<1>1. KeyUnder(a, <<"day", n>>) = <<"deci", n>>
  BY NamedKeyIs DEF KeyUnder
<1> QED
  BY <1>1 DEF ShownDay

\* The keys of the named days.
LEMMA NamedKeys ==
    ASSUME NEW a, Memorial(a)
    PROVE  /\ a.named \ {10} \subseteq {29, 30, 59, 60, 179, 180, 359, 360}
           /\ KeyOfNamed(a, 30) = <<"m", 1>> /\ KeyOfNamed(a, 60) = <<"m", 2>>
           /\ KeyOfNamed(a, 180) = <<"m", 6>> /\ KeyOfNamed(a, 360) = <<"y", 1>>
           /\ \A n \in {29, 59, 179, 359} : KeyOfNamed(a, n) = <<"deci", n>>
           /\ Canon(a, "m", 1) = <<"m", 1>> /\ Canon(a, "m", 2) = <<"m", 2>> /\ Canon(a, "m", 6) = <<"m", 6>>
<1>1. a.named \ {10} \subseteq {29, 30, 59, 60, 179, 180, 359, 360}
  BY DEF Memorial, ChoiceMade, NamedDays
<1>2. /\ NamedKey(a, 30) = Canon(a, "m", 1) /\ NamedKey(a, 60) = Canon(a, "m", 2)
      /\ NamedKey(a, 180) = Canon(a, "m", 6) /\ NamedKey(a, 360) = Canon(a, "y", 1)
  BY NamedKeyIs DEF NamedKey
<1>3. /\ Canon(a, "m", 1) = <<"m", 1>> /\ Canon(a, "m", 2) = <<"m", 2>>
      /\ Canon(a, "m", 6) = <<"m", 6>> /\ Canon(a, "y", 1) = <<"y", 1>>
  BY DEF Canon
<1> QED
  BY <1>1, <1>2, <1>3, NamedKeyIs

\* Which keys have a kind.
OfKind(a, kind) == {key \in ClaimedKeys(a) : key[1] = kind}

\* The literal days are claimed where they are not over,
LEMMA LitsClaimed ==
    ASSUME NEW a, Memorial(a), InReach(a)
    PROVE  {Resolve(a, key) : key \in OfKind(a, "lit")} = LitDays(a)
<1>1. DeathGiven(a) /\ Literal(a) \subseteq 1 .. 10
  BY LiteralIsTheOpening DEF Memorial
<1>2. \A key \in KeysOf(YearsOf(a) \cup MonthsOf(a)) : key[1] \in {"y", "m"}
  <2>1. \A key \in KeysOf(YearsOf(a) \cup MonthsOf(a)) : key \in KeysOf(YearsOf(a)) \/ key \in KeysOf(MonthsOf(a))
    BY DEF KeysOf
  <2>2. \A k : <<"y", k>>[1] = "y" /\ Canon(a, "m", k)[1] \in {"m", "y"}
    BY CanonIs
  <2> QED
    BY <2>1, <2>2, KeysAre
<1>3. \A n \in a.named \ {10} : KeyOfNamed(a, n)[1] # "lit"
  BY NamedKeys
<1>4. \A key : key \in OfKind(a, "lit") <=>
          \E n \in Literal(a) : key = <<"lit", n>> /\ Resolve(a, key) >= a.from
  <2>1. \A n : <<"lit", n>>[1] = "lit"
    OBVIOUS
  <2>2. ASSUME NEW key \in OfKind(a, "lit")
        PROVE  \E n \in Literal(a) : key = <<"lit", n>> /\ Resolve(a, key) >= a.from
    <3>1. key \in KeysOf(Chosen(a)) /\ Resolve(a, key) >= a.from /\ key[1] = "lit"
      BY <1>2, <2>2 DEF OfKind, ClaimedKeys
    <3> QED
      BY <1>3, <3>1, KeysAre
  <2>3. ASSUME NEW n \in Literal(a), Resolve(a, <<"lit", n>>) >= a.from
        PROVE  <<"lit", n>> \in OfKind(a, "lit")
    <3>1. <<"lit", n>> \in KeysOf(Chosen(a))
      BY KeysAre
    <3> QED
      BY <2>1, <2>3, <3>1 DEF OfKind, ClaimedKeys
  <2> QED
    BY <2>2, <2>3
<1>5. \A n \in Literal(a) : Resolve(a, <<"lit", n>>) = DeathDay(a) + n - 1
  <2> SUFFICES ASSUME NEW n \in Literal(a) PROVE Resolve(a, <<"lit", n>>) = DeathDay(a) + n - 1
    OBVIOUS
  <2>1. n \in Int
    BY <1>1
  <2> QED
    BY <2>1, LitDate
<1> QED
  BY <1>4, <1>5 DEF LitDays, StillAhead

\* and so are the Decis.
LEMMA DecisClaimed ==
    ASSUME NEW a, Memorial(a), InReach(a)
    PROVE  {Resolve(a, key) : key \in OfKind(a, "deci")} = DeciDays(a)
<1>1. DeathGiven(a)
  BY DEF Memorial
<1>2. \A key \in KeysOf(YearsOf(a) \cup MonthsOf(a)) : key[1] \in {"y", "m"}
  <2>1. \A key \in KeysOf(YearsOf(a) \cup MonthsOf(a)) : key \in KeysOf(YearsOf(a)) \/ key \in KeysOf(MonthsOf(a))
    BY DEF KeysOf
  <2>2. \A k : <<"y", k>>[1] = "y" /\ Canon(a, "m", k)[1] \in {"m", "y"}
    BY CanonIs
  <2> QED
    BY <2>1, <2>2, KeysAre
<1>3. /\ \A n \in {30, 60, 180, 360} : KeyOfNamed(a, n)[1] # "deci"
      /\ \A n \in {29, 59, 179, 359} : KeyOfNamed(a, n) = <<"deci", n>>
      /\ \A n \in a.named : n = 10 \/ n \in {30, 60, 180, 360} \/ n \in {29, 59, 179, 359}
  BY NamedKeys
<1>4. \A key : key \in OfKind(a, "deci") <=>
          \E n \in a.named \cap {29, 59, 179, 359} : key = <<"deci", n>> /\ Resolve(a, key) >= a.from
  <2>1. \A n : <<"lit", n>>[1] # "deci" /\ <<"deci", n>>[1] = "deci"
    OBVIOUS
  <2>2. ASSUME NEW key \in OfKind(a, "deci")
        PROVE  \E n \in a.named \cap {29, 59, 179, 359} : key = <<"deci", n>> /\ Resolve(a, key) >= a.from
    <3>1. key \in KeysOf(Chosen(a)) /\ Resolve(a, key) >= a.from /\ key[1] = "deci"
      BY <1>2, <2>2 DEF OfKind, ClaimedKeys
    <3>2. PICK n \in a.named \ {10} : key = KeyOfNamed(a, n)
      BY <2>1, <3>1, KeysAre
    <3> QED
      BY <1>3, <3>1, <3>2
  <2>3. ASSUME NEW n \in a.named \cap {29, 59, 179, 359}, Resolve(a, <<"deci", n>>) >= a.from
        PROVE  <<"deci", n>> \in OfKind(a, "deci")
    <3>1. n \in a.named \ {10} /\ <<"deci", n>> = KeyOfNamed(a, n)
      BY <1>3
    <3>2. <<"deci", n>> \in KeysOf(Chosen(a))
      BY <3>1, KeysAre
    <3> QED
      BY <2>1, <2>3, <3>2 DEF OfKind, ClaimedKeys
  <2> QED
    BY <2>2, <2>3
<1>5. \A n \in {29, 59, 179, 359} : Resolve(a, <<"deci", n>>) = ShownDay(a, n)
  BY DeciDate
<1> QED
  BY <1>4, <1>5 DEF DeciDays, StillAhead

\* The yearly and the monthly days that are claimed.
LEMMA SeriesClaimed ==
    ASSUME NEW a, Memorial(a), InReach(a)
    PROVE  /\ {Resolve(a, key) : key \in OfKind(a, "y")} = YearDays(a)
           /\ {Resolve(a, key) : key \in OfKind(a, "m")} = MonthDays(a)
<1> DEFINE f == MonthlyDays(a)
           g == YearlyDays(a)
           S == FirstValid(a, "y") .. FirstValid(a, "y") + a.years - 1
<1>1. DeathGiven(a)
  BY DEF Memorial
<1>2. /\ \A k \in S : k \in Nat
      /\ \A k \in MonthsAhead(a) : k \in Nat
  <2>1. FirstValid(a, "y") \in Nat /\ a.years \in Nat
    BY SeriesCount DEF CountsFrom, Memorial, ChoiceMade
  <2>2. \A k \in MonthsAhead(a) : k \in Int /\ 1 <= k
    BY MonthsAheadAre
  <2> QED
    BY <2>1, <2>2
<1>3. /\ \A k \in S : Resolve(a, <<"y", k>>) = g[k]
      /\ \A k \in MonthsAhead(a) : Resolve(a, Canon(a, "m", k)) = f[k]
  <2>1. ASSUME NEW k \in S PROVE Resolve(a, <<"y", k>>) = g[k]
    BY <1>1, <1>2, SeriesDate
  <2>2. ASSUME NEW k \in MonthsAhead(a) PROVE Resolve(a, Canon(a, "m", k)) = f[k]
    BY <1>1, <1>2, SeriesDate
  <2> QED
    BY <2>1, <2>2
<1>4. \A k \in MonthsAhead(a) : IF IsTwelfth(a, k) THEN Canon(a, "m", k)[1] = "y" ELSE Canon(a, "m", k)[1] = "m"
  BY DEF Canon, IsTwelfth
<1>5. /\ Resolve(a, <<"m", 1>>) = f[1] /\ Resolve(a, <<"m", 2>>) = f[2]
      /\ Resolve(a, <<"m", 6>>) = f[6] /\ Resolve(a, <<"y", 1>>) = g[1]
  <2>1. 1 \in Nat /\ 2 \in Nat /\ 6 \in Nat
    OBVIOUS
  <2>2. ASSUME NEW k \in Nat, Canon(a, "m", k) = <<"m", k>> PROVE Resolve(a, <<"m", k>>) = f[k]
    BY <1>1, <2>2, SeriesDate
  <2>3. ASSUME NEW k \in Nat PROVE Resolve(a, <<"y", k>>) = g[k]
    BY <1>1, SeriesDate
  <2> HIDE DEF f, g
  <2>4. Canon(a, "m", 1) = <<"m", 1>> /\ Canon(a, "m", 2) = <<"m", 2>> /\ Canon(a, "m", 6) = <<"m", 6>>
    BY NamedKeys
  <2> QED
    BY ONLY <2>1, <2>2, <2>3, <2>4
<1>6. \A key : key \in KeysOf(YearsOf(a) \cup MonthsOf(a)) <=>
          \/ \E k \in S : key = <<"y", k>>
          \/ \E k \in MonthsAhead(a) : key = Canon(a, "m", k)
  <2>1. \A key : key \in KeysOf(YearsOf(a) \cup MonthsOf(a))
                     <=> key \in KeysOf(YearsOf(a)) \/ key \in KeysOf(MonthsOf(a))
    BY DEF KeysOf
  <2> QED
    BY <2>1, KeysAre
<1>7. /\ \A n \in {29, 59, 179, 359} : KeyOfNamed(a, n)[1] = "deci"
      /\ \A n \in a.named \ {10} : n \in {29, 30, 59, 60, 179, 180, 359, 360}
  BY NamedKeys
<1>8. /\ KeyOfNamed(a, 30) = <<"m", 1>> /\ KeyOfNamed(a, 60) = <<"m", 2>>
      /\ KeyOfNamed(a, 180) = <<"m", 6>> /\ KeyOfNamed(a, 360) = <<"y", 1>>
  BY NamedKeys
<1>9. \A key : key \in KeysOf(Chosen(a)) /\ key[1] = "y" <=> 360 \in a.named /\ key = <<"y", 1>>
  <2>1. ASSUME NEW key, key \in KeysOf(Chosen(a)), key[1] = "y" PROVE 360 \in a.named /\ key = <<"y", 1>>
    <3>1. \A n : <<"lit", n>>[1] # "y"
      OBVIOUS
    <3>2. PICK n \in a.named \ {10} : key = KeyOfNamed(a, n)
      BY <2>1, <3>1, KeysAre
    <3> QED
      BY <1>7, <1>8, <2>1, <3>2
  <2>2. ASSUME 360 \in a.named PROVE <<"y", 1>> \in KeysOf(Chosen(a))
    <3>1. 360 \in a.named \ {10} /\ <<"y", 1>> = KeyOfNamed(a, 360)
      BY <1>8, <2>2
    <3> QED
      BY <3>1, KeysAre
  <2> QED
    BY <2>1, <2>2
<1>10. \A key : key \in KeysOf(Chosen(a)) /\ key[1] = "m" <=> \E k \in PickedMonths(a) : key = <<"m", k>>
  <2>1. ASSUME NEW key, key \in KeysOf(Chosen(a)), key[1] = "m"
        PROVE  \E k \in PickedMonths(a) : key = <<"m", k>>
    <3>1. \A n : <<"lit", n>>[1] # "m"
      OBVIOUS
    <3>2. PICK n \in a.named \ {10} : key = KeyOfNamed(a, n)
      BY <2>1, <3>1, KeysAre
    <3>3. n \in {30, 60, 180}
      BY <1>7, <1>8, <2>1, <3>2
    <3>4. n = 30 * (n \div 30) /\ n \div 30 \in {1, 2, 6} /\ KeyOfNamed(a, n) = <<"m", n \div 30>>
      BY <1>8, <3>3
    <3> QED
      BY <3>2, <3>4 DEF PickedMonths
  <2>2. ASSUME NEW k \in PickedMonths(a) PROVE <<"m", k>> \in KeysOf(Chosen(a))
    <3>1. k \in {1, 2, 6} /\ 30 * k \in a.named \ {10} /\ KeyOfNamed(a, 30 * k) = <<"m", k>>
      BY <1>8 DEF PickedMonths
    <3> QED
      BY <3>1, KeysAre
  <2> QED
    BY <2>1, <2>2
<1> HIDE DEF f, g, S
<1>11. \A key : key \in OfKind(a, "y") <=>
           \/ \E k \in S : key = <<"y", k>>
           \/ \E k \in MonthsAhead(a) : IsTwelfth(a, k) /\ key = Canon(a, "m", k)
           \/ 360 \in a.named /\ key = <<"y", 1>> /\ Resolve(a, key) >= a.from
  BY <1>4, <1>6, <1>9 DEF OfKind, ClaimedKeys
<1>12. \A key : key \in OfKind(a, "m") <=>
           \/ \E k \in MonthsAhead(a) : ~IsTwelfth(a, k) /\ key = Canon(a, "m", k)
           \/ \E k \in PickedMonths(a) : key = <<"m", k>> /\ Resolve(a, key) >= a.from
  <2>1. ASSUME NEW key
        PROVE  key \in OfKind(a, "m") <=>
                   /\ key[1] = "m"
                   /\ \/ key \in KeysOf(YearsOf(a) \cup MonthsOf(a))
                      \/ key \in KeysOf(Chosen(a)) /\ Resolve(a, key) >= a.from
    BY DEF OfKind, ClaimedKeys
  <2>2. ASSUME NEW key
        PROVE  key[1] = "m" /\ key \in KeysOf(YearsOf(a) \cup MonthsOf(a)) <=>
                   \E k \in MonthsAhead(a) : ~IsTwelfth(a, k) /\ key = Canon(a, "m", k)
    <3>1. \A k : <<"y", k>>[1] # "m"
      OBVIOUS
    <3> QED
      BY <1>4, <1>6, <3>1
  <2> QED
    BY <1>10, <2>1, <2>2
<1>13. {Resolve(a, key) : key \in OfKind(a, "y")}
           = {g[k] : k \in S} \cup {f[k] : k \in {i \in MonthsAhead(a) : IsTwelfth(a, i)}}
             \cup StillAhead(a, {g[k] : k \in PickedYears(a)})
  <2> DEFINE left == {Resolve(a, key) : key \in OfKind(a, "y")}
             twelfth == {f[k] : k \in {i \in MonthsAhead(a) : IsTwelfth(a, i)}}
             picked == StillAhead(a, {g[k] : k \in PickedYears(a)})
  <2>1. \A d : d \in picked <=> 360 \in a.named /\ d = g[1] /\ d >= a.from
    BY DEF StillAhead, PickedYears
  <2>2. \A d : d \in twelfth <=> \E k \in MonthsAhead(a) : IsTwelfth(a, k) /\ d = f[k]
    OBVIOUS
  <2>3. \A d : d \in left <=> \E key \in OfKind(a, "y") : d = Resolve(a, key)
    OBVIOUS
  <2> HIDE DEF left, twelfth, picked
  <2>4. ASSUME NEW d \in left PROVE d \in {g[k] : k \in S} \cup twelfth \cup picked
    <3>1. PICK key \in OfKind(a, "y") : d = Resolve(a, key)
      BY <2>3
    <3>2. CASE \E k \in S : key = <<"y", k>>
      BY <1>3, <3>1, <3>2
    <3>3. CASE \E k \in MonthsAhead(a) : IsTwelfth(a, k) /\ key = Canon(a, "m", k)
      BY <1>3, <2>2, <3>1, <3>3
    <3>4. CASE 360 \in a.named /\ key = <<"y", 1>> /\ Resolve(a, key) >= a.from
      BY <1>5, <2>1, <3>1, <3>4
    <3> QED
      BY <1>11, <3>2, <3>3, <3>4
  <2>5. ASSUME NEW k \in S PROVE g[k] \in left
    BY <1>3, <1>11, <2>3
  <2>6. ASSUME NEW d \in twelfth PROVE d \in left
    <3>1. PICK k \in MonthsAhead(a) : IsTwelfth(a, k) /\ d = f[k]
      BY <2>2
    <3>2. Canon(a, "m", k) \in OfKind(a, "y") /\ Resolve(a, Canon(a, "m", k)) = d
      BY <1>3, <1>11, <3>1
    <3> QED
      BY <2>3, <3>2
  <2>7. ASSUME NEW d \in picked PROVE d \in left
    <3>1. <<"y", 1>> \in OfKind(a, "y") /\ Resolve(a, <<"y", 1>>) = d
      BY <1>5, <1>11, <2>1
    <3> QED
      BY <2>3, <3>1
  <2>8. left = {g[k] : k \in S} \cup twelfth \cup picked
    BY <2>4, <2>5, <2>6, <2>7
  <2> QED
    BY <2>8 DEF left, twelfth, picked
<1>14. {Resolve(a, key) : key \in OfKind(a, "m")}
           = {f[k] : k \in {i \in MonthsAhead(a) : ~IsTwelfth(a, i)}}
             \cup StillAhead(a, {f[k] : k \in PickedMonths(a)})
  <2> DEFINE left == {Resolve(a, key) : key \in OfKind(a, "m")}
             others == {f[k] : k \in {i \in MonthsAhead(a) : ~IsTwelfth(a, i)}}
             picked == StillAhead(a, {f[k] : k \in PickedMonths(a)})
  <2>1. \A k \in PickedMonths(a) : Resolve(a, <<"m", k>>) = f[k]
    BY <1>5 DEF PickedMonths
  <2>2. \A d : d \in picked <=> \E k \in PickedMonths(a) : d = f[k] /\ d >= a.from
    BY DEF StillAhead
  <2>3. \A d : d \in others <=> \E k \in MonthsAhead(a) : ~IsTwelfth(a, k) /\ d = f[k]
    OBVIOUS
  <2>4. \A d : d \in left <=> \E key \in OfKind(a, "m") : d = Resolve(a, key)
    OBVIOUS
  <2> HIDE DEF left, others, picked
  <2>5. ASSUME NEW d \in left PROVE d \in others \cup picked
    <3>1. PICK key \in OfKind(a, "m") : d = Resolve(a, key)
      BY <2>4
    <3>2. CASE \E k \in MonthsAhead(a) : ~IsTwelfth(a, k) /\ key = Canon(a, "m", k)
      BY <1>3, <2>3, <3>1, <3>2
    <3>3. CASE \E k \in PickedMonths(a) : key = <<"m", k>> /\ Resolve(a, key) >= a.from
      BY <2>1, <2>2, <3>1, <3>3
    <3> QED
      BY <1>12, <3>2, <3>3
  <2>6. ASSUME NEW d \in others PROVE d \in left
    <3>1. PICK k \in MonthsAhead(a) : ~IsTwelfth(a, k) /\ d = f[k]
      BY <2>3
    <3>2. Canon(a, "m", k) \in OfKind(a, "m") /\ Resolve(a, Canon(a, "m", k)) = d
      BY <1>3, <1>12, <3>1
    <3> QED
      BY <2>4, <3>2
  <2>7. ASSUME NEW d \in picked PROVE d \in left
    <3>1. PICK k \in PickedMonths(a) : d = f[k] /\ d >= a.from
      BY <2>2
    <3>2. <<"m", k>> \in OfKind(a, "m") /\ Resolve(a, <<"m", k>>) = d
      BY <1>12, <2>1, <3>1
    <3> QED
      BY <2>4, <3>2
  <2>8. left = others \cup picked
    BY <2>5, <2>6, <2>7
  <2> QED
    BY <2>8 DEF left, others, picked
<1> QED
  BY <1>13, <1>14 DEF f, g, S, YearDays, MonthDays, Run

-----------------------------------------------------------------------------
(***************************************************************************)
(* The schedule is what was asked.                                         *)
(***************************************************************************)

\* What the words mean, kind by kind.
LEMMA WordsAre ==
    ASSUME NEW a, Memorial(a), InReach(a)
    PROVE  InWords(a, ReadDays(a))
               = [lit |-> LitDays(a), y |-> YearDays(a), m |-> MonthDays(a), deci |-> DeciDays(a),
                  parab |-> ParabMeant(a), fravardin |-> FravardinMeant(a), birthday |-> BirthdayMeant(a)]
<1> DEFINE days == InMahs(ReadDays(a))
           y == YearlyOf(a)
           m == MonthlyOf(a)
           decis == {NamedDay(n + 1, y, m) - 1 : n \in a.named \cap {29, 59, 179, 359}}
<1>1. InWords(a, ReadDays(a)) = Meant(a, days, y, m)
  BY DEF InWords, YearlyOf, MonthlyOf
<1>2. StillAhead(a, decis) = DeciDays(a)
  <2>1. DeathGiven(a) /\ 1 \in Nat /\ 2 \in Nat /\ 6 \in Nat
    BY DEF Memorial
  <2>2. /\ ShownDay(a, 29) = MonthDay(a, 1) - 1 /\ ShownDay(a, 59) = MonthDay(a, 2) - 1
        /\ ShownDay(a, 179) = MonthDay(a, 6) - 1 /\ ShownDay(a, 359) = YearDayOf(a, 1) - 1
    BY <2>1, ShownDayIs
  <2>3. /\ NamedDay(30, y, m) = MonthlyDays(a)[1] /\ NamedDay(60, y, m) = MonthlyDays(a)[2]
        /\ NamedDay(180, y, m) = MonthlyDays(a)[6] /\ NamedDay(360, y, m) = YearlyDays(a)[1]
    BY NamedDayIs
  <2>4. /\ MonthlyDays(a)[1] = MonthDay(a, 1) /\ MonthlyDays(a)[2] = MonthDay(a, 2)
        /\ MonthlyDays(a)[6] = MonthDay(a, 6) /\ YearlyDays(a)[1] = YearDayOf(a, 1)
    BY <2>1, MonthlyFollows, YearlyFollows
  <2> HIDE DEF y, m
  <2>5. ASSUME NEW n \in {29, 59, 179, 359} PROVE NamedDay(n + 1, y, m) - 1 = ShownDay(a, n)
    <3>1. CASE n = 29
      BY <2>2, <2>3, <2>4, <3>1
    <3>2. CASE n = 59
      BY <2>2, <2>3, <2>4, <3>2
    <3>3. CASE n = 179
      BY <2>2, <2>3, <2>4, <3>3
    <3>4. CASE n = 359
      BY <2>2, <2>3, <2>4, <3>4
    <3> QED
      BY <3>1, <3>2, <3>3, <3>4
  <2>6. decis = {ShownDay(a, n) : n \in a.named \cap {29, 59, 179, 359}}
    BY <2>5
  <2> QED
    BY <2>6 DEF DeciDays
<1>3. Meant(a, days, y, m)
          = [lit |-> LitDays(a), y |-> YearsInWords(a) \cup (MonthsInWords(a) \cap y),
             m |-> MonthsInWords(a) \ y, deci |-> StillAhead(a, decis),
             parab |-> ParabMeant(a), fravardin |-> FravardinMeant(a), birthday |-> BirthdayMeant(a)]
  BY DEF Meant, LitDays, YearsInWords, MonthsInWords, NamedInWords, StillAhead, Earliest,
         ParabMeant, FoundBy, FravardinMeant, BirthdayMeant
<1> HIDE DEF days, y, m, decis
<1>4. YearsInWords(a) \cup (MonthsInWords(a) \cap y) = YearDays(a) /\ MonthsInWords(a) \ y = MonthDays(a)
  BY SeriesAreMeant DEF y
<1> QED
  BY <1>1, <1>2, <1>3, <1>4

\* What is ranked has the days that are meant, kind by kind.
LEMMA RankedAreMeant ==
    ASSUME NEW a, Memorial(a), InReach(a), NEW kind \in Kinds
    PROVE  DaysOf({o \in Ranked(a) : o.kind = kind}) = InWords(a, ReadDays(a))[kind]
<1> DEFINE meant == InWords(a, ReadDays(a))
           claimed == DaysOf({o \in Claims(a) : o.kind = kind})
<1>1. /\ meant["lit"] = LitDays(a) /\ meant["y"] = YearDays(a) /\ meant["m"] = MonthDays(a)
      /\ meant["deci"] = DeciDays(a) /\ meant["parab"] = ParabMeant(a)
      /\ meant["fravardin"] = FravardinMeant(a) /\ meant["birthday"] = BirthdayMeant(a)
  BY WordsAre
<1> HIDE DEF meant
<1>2. \A o \in Claims(a) : o.kind \in {"lit", "y", "m", "deci"}
  <2> SUFFICES ASSUME NEW o \in Claims(a) PROVE o.kind \in {"lit", "y", "m", "deci"}
    OBVIOUS
  <2>1. PICK c \in Chosen(a) \cup YearsOf(a) \cup MonthsOf(a) :
            o = [kind |-> c.key[1], code |-> c.code, day |-> Resolve(a, c.key)]
    BY RowIsClaimed
  <2>2. c.key[1] \in {"lit", "m", "y", "deci"}
    BY ClaimIsNamed
  <2> QED
    BY <2>1, <2>2
<1>3. \A o \in Parabs(a) : o.kind = "parab"
  BY DEF Parabs, ParabsFor, FirstOf, Ahead
<1>4. \A o \in FravardinRojs(a) : o.kind = "fravardin"
  BY DEF FravardinRojs, TimesOf, FirstOf, Ahead
<1>5. \A o \in Birthdays(a) : o.kind = "birthday"
  BY DEF Birthdays, TimesOf, FirstOf, Ahead
<1>6. claimed = {Resolve(a, key) : key \in OfKind(a, kind)}
  BY ClaimsAre DEF OfKind
<1>7. CASE kind = "parab"
  <2>1. {o \in Ranked(a) : o.kind = kind} = Parabs(a)
    BY <1>2, <1>3, <1>4, <1>5, <1>7 DEF Ranked
  <2> QED
    BY <1>1, <1>7, <2>1, ParabsAreMeant DEF meant
<1>8. CASE kind = "fravardin"
  <2>1. {o \in Ranked(a) : o.kind = kind} = FravardinRojs(a)
    BY <1>2, <1>3, <1>4, <1>5, <1>8 DEF Ranked
  <2> QED
    BY <1>1, <1>8, <2>1, FravardinsAreMeant DEF meant
<1>9. CASE kind = "birthday"
  <2>1. {o \in Ranked(a) : o.kind = kind} = Birthdays(a)
    BY <1>2, <1>3, <1>4, <1>5, <1>9 DEF Ranked
  <2> QED
    BY <1>1, <1>9, <2>1, BirthdaysAreMeant DEF meant
<1>10. CASE kind \in {"lit", "y", "m", "deci"}
  <2>1. {o \in Ranked(a) : o.kind = kind} = {o \in Claims(a) : o.kind = kind}
    BY <1>3, <1>4, <1>5, <1>10 DEF Ranked
  <2>2. claimed = meant[kind]
    BY <1>1, <1>6, <1>10, LitsClaimed, DecisClaimed, SeriesClaimed
  <2> QED
    BY <2>1, <2>2 DEF meant
<1> QED
  BY <1>7, <1>8, <1>9, <1>10 DEF Kinds, meant

\* The highest of what falls on a day is the same of what is ranked and of what is meant.
LEMMA ScheduleSaysWhatIsMeant ==
    ASSUME NEW a, Memorial(a), InReach(a)
    PROVE  SaysWhatIsMeant(BuildSchedule(a), InWords(a, ReadDays(a)))
<1> DEFINE meant == InWords(a, ReadDays(a))
           R == Ranked(a)
<1>1. DOMAIN meant = Kinds
  BY WordsAre DEF Kinds
<1>2. \A kind \in Kinds : meant[kind] = DaysOf({o \in R : o.kind = kind})
  BY RankedAreMeant
<1>3. \A o \in R : o.kind \in Kinds
  BY RankedIsNamed
<1>4. BuildSchedule(a) = Best(R)
  BY ScheduleIsRanked
<1> HIDE DEF meant, R
<1>5. ASSUME NEW kind \in Kinds PROVE DaysOf({o \in Best(R) : o.kind = kind}) = Won(meant, kind)
  <2>1. \A d : \A l \in Kinds : d \in meant[l] <=> \E o \in R : o.kind = l /\ o.day = d
    BY <1>2 DEF DaysOf
  <2>2. ASSUME NEW o \in Best(R), o.kind = kind PROVE o.day \in Won(meant, kind)
    <3>1. o \in R /\ \A p \in R : ~Outranks(p, o)
      BY DEF Best
    <3>2. o.day \in meant[kind]
      BY <2>1, <2>2, <3>1
    <3>3. ASSUME NEW other \in Kinds, Rank(other) < Rank(kind) PROVE o.day \notin meant[other]
      <4>1. SUFFICES ASSUME o.day \in meant[other] PROVE FALSE
        OBVIOUS
      <4>2. PICK p \in R : p.kind = other /\ p.day = o.day
        BY <2>1, <4>1
      <4> QED
        BY <2>2, <3>1, <3>3, <4>2 DEF Outranks
    <3> QED
      BY <1>1, <3>2, <3>3 DEF Won
  <2>3. ASSUME NEW d \in Won(meant, kind) PROVE \E o \in Best(R) : o.kind = kind /\ o.day = d
    <3>1. d \in meant[kind] /\ \A other \in Kinds : Rank(other) < Rank(kind) => d \notin meant[other]
      BY <1>1 DEF Won
    <3>2. PICK o \in R : o.kind = kind /\ o.day = d
      BY <2>1, <3>1
    <3>3. ASSUME NEW p \in R, Outranks(p, o) PROVE FALSE
      <4>1. p.day = d /\ Rank(p.kind) < Rank(kind) /\ p.kind \in Kinds
        BY <1>3, <3>2, <3>3 DEF Outranks
      <4> QED
        BY <2>1, <3>1, <4>1
    <3> QED
      BY <3>2, <3>3 DEF Best
  <2> QED
    BY <2>2, <2>3 DEF DaysOf
<1> QED
  BY <1>1, <1>4, <1>5 DEF SaysWhatIsMeant, meant

\* The schedule that is saved (build_schedule) has the days the family's words mean and no other,
\* each as the highest of what falls on it: for every death and choice, and however late it is
\* entered while a series can still come up to the day it starts from (first_valid's limit).
THEOREM ScheduleIsAlwaysWhatWasAsked == Spec => []ScheduleIsWhatWasAsked
<1>1. AskInv => ScheduleIsWhatWasAsked
  BY ScheduleSaysWhatIsMeant DEF AskInv, ScheduleIsWhatWasAsked
<1> QED
  BY <1>1, AskIsTyped, PTL DEF Spec
===============================================================================
