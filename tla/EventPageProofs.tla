------------------------------ MODULE EventPageProofs ------------------------------
(***************************************************************************)
(* The event page, for any users, teams, shifts, requests and sessions:    *)
(* its types, that no guess of the page survives its refusal, that a save  *)
(* from a dialog leaves people alone that were not changed in it, and that *)
(* blocks, bars and the time that is shown agree.                          *)
(***************************************************************************)
EXTENDS EventPage, FiniteSetTheorems, WellFoundedInduction, TLAPS

-----------------------------------------------------------------------------
(* The elements of a finite set in order: however they are compared, there *)
(* is one at each place, and each has a place of its own.  The number of   *)
(* those before is different for any two elements, so it takes every value *)
(* there is.                                                               *)

StrictOrder(S, R) ==
    /\ \A x \in S : <<x, x>> \notin R
    /\ \A x, y \in S : x = y \/ <<x, y>> \in R \/ <<y, x>> \in R
    /\ \A x, y, z \in S : <<x, y>> \in R /\ <<y, z>> \in R => <<x, z>> \in R

Below(S, R, x) == {y \in S : <<y, x>> \in R}

\* Who comes later has more before them.
LEMMA MoreBelow ==
    ASSUME NEW S, IsFiniteSet(S), NEW R, StrictOrder(S, R), NEW x \in S, NEW y \in S, <<x, y>> \in R
    PROVE  Cardinality(Below(S, R, x)) < Cardinality(Below(S, R, y))
<1>1. Below(S, R, y) \subseteq S /\ Below(S, R, x) \subseteq Below(S, R, y)
  BY DEF Below, StrictOrder
<1>2. x \in Below(S, R, y) /\ x \notin Below(S, R, x)
  BY DEF Below, StrictOrder
<1>3. IsFiniteSet(Below(S, R, y))
  BY <1>1, FS_Subset
<1>4. /\ IsFiniteSet(Below(S, R, x)) /\ Cardinality(Below(S, R, x)) <= Cardinality(Below(S, R, y))
      /\ Cardinality(Below(S, R, x)) # Cardinality(Below(S, R, y))
  BY <1>1, <1>2, <1>3, FS_Subset
<1>5. Cardinality(Below(S, R, x)) \in Nat /\ Cardinality(Below(S, R, y)) \in Nat
  BY <1>3, <1>4, FS_CardinalityType
<1> QED  BY <1>4, <1>5

LEMMA EachHasItsPlace ==
    ASSUME NEW S, IsFiniteSet(S), NEW R, StrictOrder(S, R)
    PROVE  /\ Cardinality(S) \in Nat
           /\ InOrder(S, R) \in [1 .. Cardinality(S) -> S]
           /\ \A k \in 1 .. Cardinality(S) : Cardinality(Below(S, R, InOrder(S, R)[k])) = k - 1
<1> DEFINE n == Cardinality(S)
<1> DEFINE place == [x \in S |-> Cardinality(Below(S, R, x)) + 1]
<1>1. n \in Nat
  BY FS_CardinalityType
<1>2. ASSUME NEW x \in S PROVE Cardinality(Below(S, R, x)) \in Nat /\ Cardinality(Below(S, R, x)) < n
  <2>1. Below(S, R, x) \subseteq S /\ x \notin Below(S, R, x)
    BY DEF Below, StrictOrder
  <2>2. /\ IsFiniteSet(Below(S, R, x)) /\ Cardinality(Below(S, R, x)) <= n
        /\ Cardinality(Below(S, R, x)) # n
    BY <2>1, FS_Subset
  <2>3. Cardinality(Below(S, R, x)) \in Nat
    BY <2>2, FS_CardinalityType
  <2> QED  BY <2>2, <2>3, <1>1
<1>3. place \in [S -> 1 .. n]
  <2>1. ASSUME NEW x \in S PROVE Cardinality(Below(S, R, x)) + 1 \in 1 .. n
    BY <1>1, <1>2
  <2> QED  BY <2>1
<1>4. ASSUME NEW x \in S, NEW y \in S, place[x] = place[y] PROVE x = y
  <2>1. Cardinality(Below(S, R, x)) = Cardinality(Below(S, R, y))
    BY <1>2, <1>4
  <2>2. <<x, y>> \notin R /\ <<y, x>> \notin R
    BY <2>1, <1>2, MoreBelow
  <2> QED  BY <2>2 DEF StrictOrder
<1> HIDE DEF place
<1>5. place \in Injection(S, 1 .. n)
  BY <1>3, <1>4 DEF Injection, IsInjective
<1>6. IsFiniteSet(1 .. n) /\ Cardinality(1 .. n) = n
  BY <1>1, FS_Interval
<1>7. place \in Surjection(S, 1 .. n)
  BY <1>5, <1>6, FS_Injection
<1>8. ASSUME NEW k \in 1 .. n PROVE \E x \in S : Cardinality({y \in S : <<y, x>> \in R}) = k - 1
  <2>1. PICK x \in S : place[x] = k
    BY <1>7 DEF Surjection
  <2>2. Cardinality(Below(S, R, x)) + 1 = k
    BY <2>1 DEF place
  <2>3. Cardinality(Below(S, R, x)) = k - 1
    BY <2>2, <1>2
  <2> QED  BY <2>3 DEF Below
<1>9. \A k \in 1 .. n : /\ InOrder(S, R)[k] \in S
                        /\ Cardinality({y \in S : <<y, InOrder(S, R)[k]>> \in R}) = k - 1
  BY <1>8 DEF InOrder
<1>10. InOrder(S, R) \in [1 .. n -> S]
  BY <1>8 DEF InOrder
<1> QED  BY <1>1, <1>9, <1>10 DEF Below

\* As a sequence: as long as the set is large, of its elements, none twice.
LEMMA OrderedSequence ==
    ASSUME NEW S, IsFiniteSet(S), NEW R, StrictOrder(S, R)
    PROVE  /\ InOrder(S, R) \in Seq(S) /\ Len(InOrder(S, R)) = Cardinality(S)
           /\ InOrder(S, R) \in [1 .. Cardinality(S) -> S]
           /\ DOMAIN InOrder(S, R) = 1 .. Cardinality(S) /\ Cardinality(S) \in Nat
           /\ \A k \in 1 .. Cardinality(S) : InOrder(S, R)[k] \in S
           /\ \A j, k \in 1 .. Cardinality(S) : InOrder(S, R)[j] = InOrder(S, R)[k] => j = k
<1>1. /\ Cardinality(S) \in Nat /\ InOrder(S, R) \in [1 .. Cardinality(S) -> S]
      /\ \A k \in 1 .. Cardinality(S) : Cardinality(Below(S, R, InOrder(S, R)[k])) = k - 1
  BY EachHasItsPlace
<1>2. InOrder(S, R) \in Seq(S) /\ Len(InOrder(S, R)) = Cardinality(S)
  BY <1>1
<1>3. ASSUME NEW j \in 1 .. Cardinality(S), NEW k \in 1 .. Cardinality(S), InOrder(S, R)[j] = InOrder(S, R)[k]
      PROVE  j = k
  <2>1. j - 1 = k - 1
    BY <1>1, <1>3
  <2> QED  BY <2>1, <1>1
<1> QED  BY <1>1, <1>2, <1>3

LEMMA AscendingSequence ==
    ASSUME NEW S \in SUBSET Int, IsFiniteSet(S)
    PROVE  /\ Ascending(S) \in Seq(S) /\ Len(Ascending(S)) = Cardinality(S)
           /\ Ascending(S) \in [1 .. Cardinality(S) -> S]
           /\ DOMAIN Ascending(S) = 1 .. Cardinality(S) /\ Cardinality(S) \in Nat
           /\ \A k \in 1 .. Cardinality(S) : Ascending(S)[k] \in S
           /\ \A j, k \in 1 .. Cardinality(S) : Ascending(S)[j] = Ascending(S)[k] => j = k
<1> DEFINE R == {p \in S \X S : p[1] < p[2]}
<1>1. \A x, y \in S : <<x, y>> \in R <=> x < y
  OBVIOUS
<1>2. \A x \in S : x \in Int
  OBVIOUS
<1>3. StrictOrder(S, R)
  BY <1>1, <1>2 DEF StrictOrder
<1>4. Ascending(S) = InOrder(S, R)
  BY DEF Ascending
<1> HIDE DEF R
<1> QED  BY <1>3, <1>4, OrderedSequence

-----------------------------------------------------------------------------
(* What is on the screen has its types.                                    *)

LEMMA Numbers ==
    /\ Event.start \in Nat /\ Event.end \in Nat /\ Event.gran \in {1, 2, 4}
    /\ DayTicks \in Nat
<1>1. TicksPerHour = 4 /\ DayHours \in Nat
  BY EventPageAssumption DEF TicksPerHour
<1> QED  BY <1>1, EventPageAssumption DEF Granularities, DayTicks

LEMMA LeastOfTwo ==
    ASSUME NEW a \in Int, NEW b \in Int
    PROVE  /\ Min({a, b}) \in {a, b} /\ Min({a, b}) <= a /\ Min({a, b}) <= b
<1>1. \E x \in {a, b} : \A y \in {a, b} : x <= y
  OBVIOUS
<1> QED  BY <1>1 DEF Min

LEMMA GreatestOfTwo ==
    ASSUME NEW a \in Int, NEW b \in Int
    PROVE  /\ Max({a, b}) \in {a, b} /\ a <= Max({a, b}) /\ b <= Max({a, b})
<1>1. \E x \in {a, b} : \A y \in {a, b} : x >= y
  OBVIOUS
<1> QED  BY <1>1 DEF Max

LEMMA SnappedTimes ==
    ASSUME NEW t \in Int
    PROVE  SnapToGranularity(t, Event.gran) \in Int
<1>1. t % 4 \in Int
  OBVIOUS
<1>2. \A g \in {1, 2, 4} : (((t % 4) + g \div 2) \div g) * g \in Int
  BY <1>1
<1> QED  BY <1>1, <1>2, Numbers DEF SnapToGranularity, TicksPerHour

LEMMA RangeTypes ==
    ASSUME NEW day \in Int \cup {Null}
    PROVE  EffectiveRange(Event, day).start \in Int /\ EffectiveRange(Event, day).end \in Int
<1>1. CASE day = Null
  BY <1>1, Numbers DEF EffectiveRange
<1>2. CASE day # Null
  <2>1. day \in Int /\ day + DayTicks \in Int
    BY <1>2, Numbers
  <2>2. Event.start \in Int /\ Event.end \in Int
    BY Numbers
  <2>3. Max({day, Event.start}) \in {day, Event.start}
    BY <2>1, <2>2, GreatestOfTwo
  <2>4. Min({day + DayTicks, Event.end}) \in {day + DayTicks, Event.end}
    BY <2>1, <2>2, LeastOfTwo
  <2>5. Max({day, Event.start}) \in Int /\ Min({day + DayTicks, Event.end}) \in Int
    BY <2>1, <2>2, <2>3, <2>4
  <2> QED  BY <1>2, <2>5 DEF EffectiveRange
<1> QED  BY <1>1, <1>2

LEMMA ColumnTypes ==
    ASSUME NEW day \in Int \cup {Null}
    PROVE  Columns(Event, day, Hidden) \in Seq(Int)
<1> DEFINE r == EffectiveRange(Event, day)
<1>1. r.start \in Int /\ r.end \in Int
  BY RangeTypes
<1> DEFINE S == {t \in r.start .. r.end - 1 : (t - r.start) % Event.gran = 0 /\ ~IsHidden(t, Hidden)}
<1>2. S \in SUBSET Int /\ IsFiniteSet(S)
  <2>1. r.end - 1 \in Int
    BY <1>1
  <2>2. IsFiniteSet(r.start .. r.end - 1)
    BY <1>1, <2>1, FS_Interval
  <2>3. S \in SUBSET (r.start .. r.end - 1)
    OBVIOUS
  <2>4. S \subseteq Int
    BY <1>1, <2>1
  <2> HIDE DEF S
  <2> QED  BY <2>2, <2>3, <2>4, FS_Subset
<1>3. Columns(Event, day, Hidden) = Ascending(S)
  BY DEF Columns, GenerateTimeSlots
<1> HIDE DEF S
<1>4. /\ DOMAIN Ascending(S) = 1 .. Cardinality(S) /\ Cardinality(S) \in Nat
      /\ Ascending(S) \in [1 .. Cardinality(S) -> S]
  BY <1>2, AscendingSequence
<1>5. Ascending(S) \in [1 .. Cardinality(S) -> Int]
  BY <1>2, <1>4
<1> QED  BY <1>3, <1>4, <1>5

LEMMA PickedTypes ==
    ASSUME NEW list \in Seq(CachedShift), NEW S \in SUBSET DOMAIN list
    PROVE  Picked(list, S) \in Seq(CachedShift)
<1>1. DOMAIN list = 1 .. Len(list) /\ Len(list) \in Nat /\ \A i \in 1 .. Len(list) : list[i] \in CachedShift
  OBVIOUS
<1>2. S \in SUBSET Int /\ IsFiniteSet(S)
  <2>1. IsFiniteSet(1 .. Len(list))
    BY <1>1, FS_Interval
  <2>2. IsFiniteSet(S)
    BY <1>1, <2>1, FS_Subset
  <2> QED  BY <1>1, <2>2
<1>3. /\ DOMAIN Ascending(S) = 1 .. Cardinality(S) /\ Cardinality(S) \in Nat
      /\ \A k \in 1 .. Cardinality(S) : Ascending(S)[k] \in S
  BY <1>2, AscendingSequence
<1>4. \A k \in 1 .. Cardinality(S) : list[Ascending(S)[k]] \in CachedShift
  BY <1>1, <1>3
<1> QED  BY <1>3, <1>4 DEF Picked

LEMMA FilteredTypes ==
    ASSUME NEW list \in Seq(CachedShift), NEW p, NEW me
    PROVE  FilteredShifts(list, p, me) \in Seq(CachedShift)
<1> DEFINE S == {i \in DOMAIN list :
            /\ p.view = "by_team" /\ p.team # Null => list[i].team = p.team
            /\ p.view = "my_shifts" => list[i].user = me
            /\ p.view = "per_user" /\ p.users # {} => list[i].user \in p.users}
<1>1. FilteredShifts(list, p, me) = Picked(list, S)
  BY DEF FilteredShifts
<1>2. S \in SUBSET DOMAIN list
  OBVIOUS
<1> HIDE DEF S
<1> QED  BY <1>1, <1>2, PickedTypes

-----------------------------------------------------------------------------
(* Rows: one for a user at most.                                           *)

Label == [id : Users, name : Users]

LEMMA Ranks ==
    ASSUME NEW u \in Users
    PROVE  Rank(u) \in DOMAIN Roster /\ Rank(u) \in Int /\ Roster[Rank(u)] = u
<1>1. DOMAIN Roster = 1 .. Len(Roster) /\ Len(Roster) \in Nat
  BY EventPageAssumption
<1>2. \E i \in DOMAIN Roster : Roster[i] = u
  BY DEF Users, Range
<1>3. Rank(u) \in DOMAIN Roster /\ Roster[Rank(u)] = u
  BY <1>2 DEF Rank
<1> QED  BY <1>1, <1>3

LEMMA SortedRows ==
    ASSUME NEW rows \in Seq(Label)
    PROVE  StableByName(rows) \in Seq(Label) /\ Len(StableByName(rows)) = Len(rows)
<1> DEFINE S == DOMAIN rows
<1> DEFINE R == {p \in (DOMAIN rows) \X DOMAIN rows :
                    \/ Rank(rows[p[1]].name) < Rank(rows[p[2]].name)
                    \/ rows[p[1]].name = rows[p[2]].name /\ p[1] < p[2]}
<1>1. S = 1 .. Len(rows) /\ Len(rows) \in Nat
  OBVIOUS
<1>2. IsFiniteSet(S) /\ Cardinality(S) = Len(rows)
  <2>1. IsFiniteSet(1 .. Len(rows)) /\ Cardinality(1 .. Len(rows)) = Len(rows)
    BY <1>1, FS_Interval, SMTT(30)
  <2> QED  BY <1>1, <2>1
<1>3. \A i \in S : i \in Int /\ rows[i].name \in Users /\ Rank(rows[i].name) \in Int
  <2> TAKE i \in S
  <2>1. rows[i] \in Label
    BY <1>1
  <2>2. rows[i].name \in Users
    BY <2>1 DEF Label
  <2> QED  BY <1>1, <2>2, Ranks
<1>4. \A i, j \in S : <<i, j>> \in R <=> \/ Rank(rows[i].name) < Rank(rows[j].name)
                                         \/ rows[i].name = rows[j].name /\ i < j
  OBVIOUS
<1>5. \A i, j \in S : Rank(rows[i].name) = Rank(rows[j].name) => rows[i].name = rows[j].name
  BY <1>3, Ranks
<1>6. StableByName(rows) = [k \in S |-> rows[InOrder(S, R)[k]]]
  BY DEF StableByName
<1> HIDE DEF R, S
<1>7. StrictOrder(S, R)
  <2>1. \A i \in S : <<i, i>> \notin R
    BY <1>3, <1>4
  <2>2. ASSUME NEW i \in S, NEW j \in S PROVE i = j \/ <<i, j>> \in R \/ <<j, i>> \in R
    <3>1. /\ i \in Int /\ j \in Int /\ Rank(rows[i].name) \in Int /\ Rank(rows[j].name) \in Int
          /\ Rank(rows[i].name) = Rank(rows[j].name) => rows[i].name = rows[j].name
      BY <1>3, <1>5
    <3> QED  BY <3>1, <1>4
  <2>3. ASSUME NEW i \in S, NEW j \in S, NEW k \in S, <<i, j>> \in R, <<j, k>> \in R PROVE <<i, k>> \in R
    <3>1. /\ i \in Int /\ j \in Int /\ k \in Int
          /\ Rank(rows[i].name) \in Int /\ Rank(rows[j].name) \in Int /\ Rank(rows[k].name) \in Int
      BY <1>3
    <3>2. Rank(rows[i].name) < Rank(rows[j].name) \/ (rows[i].name = rows[j].name /\ i < j)
      BY <2>3, <1>4
    <3>4. Rank(rows[j].name) < Rank(rows[k].name) \/ (rows[j].name = rows[k].name /\ j < k)
      BY <2>3, <1>4
    <3>3. Rank(rows[i].name) < Rank(rows[k].name) \/ (rows[i].name = rows[k].name /\ i < k)
      BY <3>1, <3>2, <3>4
    <3> QED  BY <3>3, <1>4
  <2> QED  BY <2>1, <2>2, <2>3 DEF StrictOrder
<1>8. \A k \in 1 .. Cardinality(S) : InOrder(S, R)[k] \in S
  BY <1>2, <1>7, OrderedSequence
<1>9. \A k \in S : rows[InOrder(S, R)[k]] \in Label
  BY <1>1, <1>2, <1>8
<1>10. StableByName(rows) \in [1 .. Len(rows) -> Label]
  BY <1>1, <1>6, <1>9
<1> QED  BY <1>1, <1>10

LEMMA GroupedRows ==
    ASSUME NEW list \in Seq(CachedShift)
    PROVE  GroupShiftsByUser(list) \in Seq(Label) /\ Len(GroupShiftsByUser(list)) <= Len(Roster)
<1> DEFINE S == {i \in DOMAIN list : \A j \in 1 .. i - 1 : list[j].user # list[i].user}
<1> DEFINE rows == [k \in DOMAIN Ascending(S) |->
                      [id |-> list[Ascending(S)[k]].user, name |-> list[Ascending(S)[k]].name]]
<1>1. DOMAIN list = 1 .. Len(list) /\ Len(list) \in Nat /\ \A i \in 1 .. Len(list) : list[i] \in CachedShift
  OBVIOUS
<1>2. S \in SUBSET (1 .. Len(list))
  BY <1>1
<1>3. GroupShiftsByUser(list) = StableByName(rows)
  BY DEF GroupShiftsByUser
<1>4. \A i, j \in S : list[i].user = list[j].user => i = j
  <2>1. ASSUME NEW i \in S, NEW j \in S, list[i].user = list[j].user PROVE ~ (i < j)
    <3>1. SUFFICES ASSUME i < j PROVE FALSE
      OBVIOUS
    <3>2. i \in 1 .. j - 1
      BY <3>1, <1>2
    <3> QED  BY <3>2, <2>1
  <2>2. ASSUME NEW i \in S, NEW j \in S, list[i].user = list[j].user PROVE i = j
    <3>1. ~ (i < j) /\ ~ (j < i)
      BY <2>1, <2>2
    <3>2. i \in Int /\ j \in Int
      BY <1>2
    <3> QED  BY <3>1, <3>2
  <2> QED  BY <2>2
<1> HIDE DEF S
<1>5. S \in SUBSET Int /\ IsFiniteSet(S)
  <2>1. IsFiniteSet(1 .. Len(list))
    BY <1>1, FS_Interval
  <2>2. IsFiniteSet(S)
    BY <1>2, <2>1, FS_Subset
  <2> QED  BY <1>2, <2>2
<1>6. /\ DOMAIN Ascending(S) = 1 .. Cardinality(S) /\ Cardinality(S) \in Nat
      /\ \A k \in 1 .. Cardinality(S) : Ascending(S)[k] \in S
  BY <1>5, AscendingSequence
<1>7. \A k \in 1 .. Cardinality(S) : list[Ascending(S)[k]] \in CachedShift
  BY <1>1, <1>2, <1>6
<1>8. \A k \in 1 .. Cardinality(S) :
         [id |-> list[Ascending(S)[k]].user, name |-> list[Ascending(S)[k]].name] \in Label
  BY <1>7 DEF Label, CachedShift
<1>9. rows \in [1 .. Cardinality(S) -> Label]
  <2>1. rows = [k \in 1 .. Cardinality(S) |-> [id |-> list[Ascending(S)[k]].user, name |-> list[Ascending(S)[k]].name]]
    BY <1>6
  <2> HIDE DEF rows
  <2> QED  BY <1>8, <2>1
<1>10. rows \in Seq(Label) /\ Len(rows) = Cardinality(S)
  <2> HIDE DEF rows
  <2> QED  BY <1>6, <1>9
<1> DEFINE rank == [i \in S |-> Rank(list[i].user)]
<1>11. rank \in Injection(S, 1 .. Len(Roster))
  <2>1. DOMAIN Roster = 1 .. Len(Roster)
    BY EventPageAssumption
  <2>2. \A i \in S : list[i].user \in Users
    <3>1. \A i \in S : list[i] \in CachedShift
      BY <1>1, <1>2
    <3> QED  BY <3>1 DEF CachedShift
  <2>3. rank \in [S -> 1 .. Len(Roster)]
    BY <2>1, <2>2, Ranks
  <2>4. ASSUME NEW i \in S, NEW j \in S, rank[i] = rank[j] PROVE i = j
    <3>1. Rank(list[i].user) = Rank(list[j].user)
      BY <2>4
    <3>2. list[i].user = list[j].user
      BY <3>1, <2>2, Ranks
    <3> QED  BY <3>2, <1>4
  <2> HIDE DEF rank
  <2> QED  BY <2>3, <2>4 DEF Injection, IsInjective
<1>12. Cardinality(S) <= Len(Roster)
  <2>1. Len(Roster) \in Nat
    BY EventPageAssumption
  <2>2. IsFiniteSet(1 .. Len(Roster)) /\ Cardinality(1 .. Len(Roster)) = Len(Roster)
    <3> HIDE DEF rank, rows
    <3>1. Len(Roster) \in Int /\ 1 \in Int
      BY <2>1
    <3>2. /\ IsFiniteSet(1 .. Len(Roster))
          /\ Cardinality(1 .. Len(Roster)) = IF 1 > Len(Roster) THEN 0 ELSE Len(Roster) - 1 + 1
      BY <3>1, FS_Interval
    <3> QED  BY <2>1, <3>2
  <2> HIDE DEF rank
  <2> QED  BY <1>11, <2>2, FS_Injection
<1> HIDE DEF rows
<1> QED  BY <1>3, <1>10, <1>12, SortedRows

LEMMA DisplayedTypes ==
    ASSUME NEW list \in Seq(CachedShift), NEW avail
    PROVE  GridRows(list, avail) \in Seq(Label)
<1> DEFINE base == GroupShiftsByUser(list)
<1> DEFINE free == {Availability[i].user : i \in DOMAIN Availability}
<1> DEFINE extra == (Pinned \cup IF avail THEN free ELSE {}) \ {base[k].id : k \in DOMAIN base}
<1> DEFINE added == [k \in 1 .. Cardinality(extra) |->
                       LET u == SetToSeq(extra)[k] IN [id |-> u, name |-> u]]
<1>1. base \in Seq(Label)
  BY GroupedRows
<1>2. GridRows(list, avail) = IF extra = {} THEN base ELSE StableByName(base \o added)
  BY DEF GridRows
<1>3. extra \subseteq Users
  BY EventPageAssumption
<1>4. IsFiniteSet(Users)
  <2>1. Roster \in Surjection(1 .. Len(Roster), Users)
    <3>1. Roster \in [1 .. Len(Roster) -> Users] /\ DOMAIN Roster = 1 .. Len(Roster)
      BY EventPageAssumption
    <3> QED  BY <3>1 DEF Surjection, Users, Range
  <2>3. Len(Roster) \in Int
    BY EventPageAssumption
  <2>2. IsFiniteSet(1 .. Len(Roster))
    BY <2>3, FS_Interval
  <2> QED  BY <2>1, <2>2, FS_Surjection
<1> HIDE DEF extra, base
<1>5. IsFiniteSet(extra)
  BY <1>3, <1>4, FS_Subset
<1>6. Cardinality(extra) \in Nat /\ ExistsBijection(1 .. Cardinality(extra), extra)
  BY <1>5, FS_CardinalityType
<1>7. SetToSeq(extra) \in [1 .. Cardinality(extra) -> extra]
  <2>1. \E f \in [1 .. Cardinality(extra) -> extra] : IsInjective(f)
    BY <1>6 DEF ExistsBijection, Bijection, Injection
  <2> QED  BY <2>1 DEF SetToSeq
<1>8. added \in [1 .. Cardinality(extra) -> Label]
  <2>1. ASSUME NEW k \in 1 .. Cardinality(extra) PROVE SetToSeq(extra)[k] \in Users
    BY <1>3, <1>7
  <2> QED  BY <2>1 DEF Label
<1>9. added \in Seq(Label)
  <2> HIDE DEF added
  <2> QED  BY <1>6, <1>8
<1> HIDE DEF added
<1>10. base \o added \in Seq(Label)
  BY <1>1, <1>9
<1> QED  BY <1>1, <1>2, <1>10, SortedRows

LEMMA ServerListTypes ==
    ASSUME DOMAIN shifts \subseteq ShiftIds, shifts \in [DOMAIN shifts -> {Null} \cup Row]
    PROVE  ServerList \in Seq(CachedShift)
<1> DEFINE live == {i \in DOMAIN shifts : shifts[i] # Null}
<1> DEFINE R == {p \in live \X live :
                    \/ shifts[p[1]].start < shifts[p[2]].start
                    \/ /\ shifts[p[1]].start = shifts[p[2]].start
                       /\ \/ Rank(shifts[p[1]].user) < Rank(shifts[p[2]].user)
                          \/ shifts[p[1]].user = shifts[p[2]].user /\ p[1] < p[2]}
<1> DEFINE entry == [k \in DOMAIN InOrder(live, R) |->
              LET i == InOrder(live, R)[k]
              IN  [id |-> i, team |-> shifts[i].team, user |-> shifts[i].user, name |-> shifts[i].user,
                   start |-> shifts[i].start, end |-> shifts[i].end, own |-> {}]]
<1>1. ServerList = entry
  BY DEF ServerList
<1>2. live \in SUBSET ShiftIds /\ IsFiniteSet(live)
  <2>1. live \in SUBSET ShiftIds
    OBVIOUS
  <2> HIDE DEF live
  <2> QED  BY <2>1, EventPageAssumption, FS_Subset
<1>3. \A i \in live : i \in Int
  BY <1>2, EventPageAssumption
<1>4. \A i \in live : shifts[i] \in Row
  OBVIOUS
<1>5. ASSUME NEW i \in live PROVE shifts[i].start \in Int /\ shifts[i].end \in Int /\ shifts[i].team \in Teams
                                  /\ shifts[i].user \in Users
  <2>1. \A t \in 0 .. Event.end : t \in Int
    BY Numbers
  <2> HIDE DEF live
  <2> QED  BY <1>4, <2>1 DEF Row
<1>6. \A i, j \in live : <<i, j>> \in R <=>
          \/ shifts[i].start < shifts[j].start
          \/ /\ shifts[i].start = shifts[j].start
             /\ Rank(shifts[i].user) < Rank(shifts[j].user) \/ (shifts[i].user = shifts[j].user /\ i < j)
  OBVIOUS
<1> HIDE DEF live, R
<1>7. \A i \in live : Rank(shifts[i].user) \in Int
  BY <1>5, Ranks
<1>8. \A i, j \in live : Rank(shifts[i].user) = Rank(shifts[j].user) => shifts[i].user = shifts[j].user
  BY <1>5, Ranks
<1>9. StrictOrder(live, R)
  <2>1. \A i \in live : <<i, i>> \notin R
    BY <1>3, <1>5, <1>6, <1>7
  <2>2. ASSUME NEW i \in live, NEW j \in live PROVE i = j \/ <<i, j>> \in R \/ <<j, i>> \in R
    <3>1. /\ i \in Int /\ j \in Int /\ shifts[i].start \in Int /\ shifts[j].start \in Int
          /\ Rank(shifts[i].user) \in Int /\ Rank(shifts[j].user) \in Int
          /\ Rank(shifts[i].user) = Rank(shifts[j].user) => shifts[i].user = shifts[j].user
      BY <1>3, <1>5, <1>7, <1>8
    <3> QED  BY <3>1, <1>6
  <2>3. ASSUME NEW i \in live, NEW j \in live, NEW k \in live, <<i, j>> \in R, <<j, k>> \in R
        PROVE  <<i, k>> \in R
    <3>1. /\ i \in Int /\ j \in Int /\ k \in Int
          /\ shifts[i].start \in Int /\ shifts[j].start \in Int /\ shifts[k].start \in Int
          /\ Rank(shifts[i].user) \in Int /\ Rank(shifts[j].user) \in Int /\ Rank(shifts[k].user) \in Int
      BY <1>3, <1>5, <1>7
    <3>2. \/ shifts[i].start < shifts[j].start
          \/ /\ shifts[i].start = shifts[j].start
             /\ Rank(shifts[i].user) < Rank(shifts[j].user) \/ (shifts[i].user = shifts[j].user /\ i < j)
      BY <2>3, <1>6
    <3>3. \/ shifts[j].start < shifts[k].start
          \/ /\ shifts[j].start = shifts[k].start
             /\ Rank(shifts[j].user) < Rank(shifts[k].user) \/ (shifts[j].user = shifts[k].user /\ j < k)
      BY <2>3, <1>6
    <3>4. \/ shifts[i].start < shifts[k].start
          \/ /\ shifts[i].start = shifts[k].start
             /\ Rank(shifts[i].user) < Rank(shifts[k].user) \/ (shifts[i].user = shifts[k].user /\ i < k)
      BY <3>1, <3>2, <3>3
    <3> QED  BY <3>4, <1>6
  <2> QED  BY <2>1, <2>2, <2>3 DEF StrictOrder
<1>10. /\ DOMAIN InOrder(live, R) = 1 .. Cardinality(live) /\ Cardinality(live) \in Nat
       /\ \A k \in 1 .. Cardinality(live) : InOrder(live, R)[k] \in live
  BY <1>2, <1>9, OrderedSequence
<1>11. ASSUME NEW i \in live
       PROVE  [id |-> i, team |-> shifts[i].team, user |-> shifts[i].user, name |-> shifts[i].user,
               start |-> shifts[i].start, end |-> shifts[i].end, own |-> {}] \in CachedShift
  BY <1>2, <1>5 DEF CachedShift
<1>12. entry \in [1 .. Cardinality(live) -> CachedShift]
  BY <1>10, <1>11
<1> HIDE DEF entry
<1> QED  BY <1>1, <1>10, <1>12

-----------------------------------------------------------------------------
(* The invariant.  Beyond types it says what a request may carry: only an  *)
(* update has a list to put back, and a field of people that its form left *)
(* as it was is not in its body.  Guesses are in a list that needs no      *)
(* fetching only as long as an update is not answered.                     *)

RowBody == [team : Teams, user : Users, start : Int, end : Int]
Bodies == [team : Teams \cup {Null}, user : Users \cup {Null}, start : Int \cup {Null}, end : Int \cup {Null}]
Ask == [pc : {"unsent", "sent", "accepted", "warned", "settled"}, op : {"create", "update", "delete", Null},
        origin : {"grid", "dialog", Null}, id : ShiftIds \cup {Null}, body : Bodies \cup {Null},
        form : Form \cup {Null}, base : CachedShift \cup {Null}, previous : Seq(CachedShift) \cup {Null}]
Dialogs == [kind : {"create", "detail", "availability"}, base : CachedShift \cup {Null},
            mode : {"view", "edit", "confirm"}, pending : SUBSET Requests, form : Form \cup {Null}]

OnlyChanges(form, base, body) ==
    /\ form.team = base.team => body.team = Null
    /\ form.user = base.user => body.user = Null

AskOK(r) ==
    /\ r \in Ask
    /\ r.op # "update" => r.previous = Null
    /\ r.pc = "sent" /\ r.op = "create" => r.body \in RowBody
    /\ r.pc = "sent" /\ r.op = "update" => r.body \in Bodies /\ OnlyChanges(r.form, r.base, r.body)

BoxOK(d) ==
    d # Null =>
        /\ d \in Dialogs
        /\ d.kind # "availability" => d.form \in Form
        /\ d.kind = "detail" => d.base \in CachedShift

Clean(list) == \A i \in DOMAIN list : list[i].own = {} /\ list[i].name = list[i].user

ServerOK ==
    /\ DOMAIN shifts \subseteq ShiftIds /\ shifts \in [DOMAIN shifts -> {Null} \cup Row]
    /\ rights \in Rights
CacheOK == grid \in Seq(CachedShift) \cup {Null} /\ stale \in BOOLEAN /\ seen \in Rights
PageOK == session \in DOMAIN Sessions /\ page \in Use.pages
FocusOK == focus # Null => focus \in [row : -1 .. Len(Roster) - 1, col : Nat]
AsksOK == requests \in [Requests -> Ask] /\ \A q \in Requests : AskOK(requests[q])
Updating(q) == Pending(q) /\ requests[q].op = "update"
GuessesPend == grid # Null /\ ~stale /\ (\A q \in Requests : ~Updating(q)) => Clean(grid)

Shape == ServerOK /\ CacheOK /\ PageOK /\ FocusOK /\ BoxOK(dialog) /\ AsksOK /\ GuessesPend

\* What a step does not touch stays as it is.
LEMMA Untouched ==
    ASSUME Shape, UNCHANGED session
    PROVE  /\ UNCHANGED server => ServerOK'
           /\ UNCHANGED cached => CacheOK'
           /\ UNCHANGED page => PageOK'
           /\ UNCHANGED focus => FocusOK'
           /\ UNCHANGED dialog => BoxOK(dialog)'
           /\ UNCHANGED requests => AsksOK'
           /\ UNCHANGED cached /\ UNCHANGED requests => GuessesPend'
<1>1. UNCHANGED server => ServerOK'
  BY DEF Shape, ServerOK, server
<1>2. UNCHANGED cached => CacheOK'
  BY DEF Shape, CacheOK, cached
<1>3. UNCHANGED page => PageOK'
  BY DEF Shape, PageOK, Use
<1>4. UNCHANGED focus => FocusOK'
  BY DEF Shape, FocusOK
<1>5. UNCHANGED dialog => BoxOK(dialog)'
  BY DEF Shape, BoxOK
<1>6. UNCHANGED requests => AsksOK'
  BY DEF Shape, AsksOK
<1>7. UNCHANGED cached /\ UNCHANGED requests => GuessesPend'
  BY DEF Shape, GuessesPend, Updating, Pending, cached
<1> QED  BY <1>1, <1>2, <1>3, <1>4, <1>5, <1>6, <1>7

\* What is in use is one of the sessions.
LEMMA InUse ==
    ASSUME Shape
    PROVE  /\ Use.keys \subseteq {"up", "down", "left", "right"} /\ Use.requests \subseteq Requests
           /\ Use.instants \cup Use.deltas \subseteq Int /\ Use.rewrites \subseteq Row /\ Use.demotions \subseteq Rights
           /\ page.day \in Int \cup {Null}
<1>1. session \in DOMAIN Sessions /\ page \in Use.pages
  BY DEF Shape, PageOK
<1> QED  BY <1>1, EventPageAssumption DEF Use

LEMMA ColumnsDrawn ==
    ASSUME Shape
    PROVE  GridSlots = Columns(Event, page.day, Hidden)
<1>1. session \in DOMAIN Sessions /\ page \in Sessions[session].pages
  BY DEF Shape, PageOK, Use
<1>2. page.day \in {p.day : p \in UNION {Sessions[x].pages : x \in DOMAIN Sessions}}
  BY <1>1
<1> QED  BY <1>2 DEF GridSlots, ColumnsOf

LEMMA ScreenTypes ==
    ASSUME Shape
    PROVE  /\ AllShifts \in Seq(CachedShift) /\ Shown \in Seq(CachedShift)
           /\ GridSlots \in Seq(Int)
           /\ GridUsers \in Seq(Label) /\ Len(GridUsers) <= Len(Roster)
           /\ DisplayedRows \in Seq(Label)
<1>1. AllShifts \in Seq(CachedShift)
  <2>1. grid = Null \/ grid \in Seq(CachedShift)
    BY DEF Shape, CacheOK
  <2> QED  BY <2>1 DEF AllShifts
<1>2. Shown \in Seq(CachedShift)
  BY <1>1, FilteredTypes DEF Shown
<1>3. GridSlots \in Seq(Int)
  BY ColumnsDrawn, InUse, ColumnTypes
<1>4. GridUsers \in Seq(Label) /\ Len(GridUsers) <= Len(Roster)
  BY <1>2, GroupedRows DEF GridUsers
<1>5. DisplayedRows \in Seq(Label)
  BY <1>2, DisplayedTypes DEF DisplayedRows
<1> QED  BY <1>1, <1>2, <1>3, <1>4, <1>5

-----------------------------------------------------------------------------
(* One request changes.                                                    *)

LEMMA OneAsk ==
    ASSUME Shape, NEW q \in Requests, NEW r, AskOK(r), requests' = [requests EXCEPT ![q] = r]
    PROVE  /\ AsksOK' /\ requests'[q] = r
           /\ \A o \in Requests : o # q => requests'[o] = requests[o]
<1>1. requests \in [Requests -> Ask] /\ \A o \in Requests : AskOK(requests[o])
  BY DEF Shape, AsksOK
<1>2. /\ requests'[q] = r /\ \A o \in Requests : o # q => requests'[o] = requests[o]
      /\ requests' \in [Requests -> Ask]
  BY <1>1 DEF AskOK
<1>3. \A o \in Requests : AskOK(requests'[o])
  BY <1>1, <1>2
<1>4. AsksOK' <=> requests' \in [Requests -> Ask] /\ \A o \in Requests : AskOK(requests'[o])
  BY DEF AsksOK
<1> QED  BY <1>2, <1>3, <1>4

\* A request that is not an update comes and goes without a guess.
LEMMA OthersGuesses ==
    ASSUME Shape, NEW q \in Requests, requests[q].op # "update",
           grid' = grid, stale' = stale \/ stale' = TRUE,
           \A o \in Requests : o # q => requests'[o] = requests[o]
    PROVE  GuessesPend'
<1>1. SUFFICES ASSUME grid # Null, ~stale, \A o \in Requests : ~Updating(o)'
               PROVE  Clean(grid)
  <2>1. stale' = TRUE => GuessesPend'
    BY DEF GuessesPend
  <2> QED  BY <1>1, <2>1 DEF GuessesPend, Clean
<1>2. \A o \in Requests : ~Updating(o)
  BY <1>1 DEF Updating, Pending
<1> QED  BY <1>1, <1>2 DEF Shape, GuessesPend

LEMMA SettledAsk ==
    ASSUME NEW pc \in {"settled", "warned"}
    PROVE  AskOK([Unsent EXCEPT !.pc = pc])
<1>1. [Unsent EXCEPT !.pc = pc] =
          [pc |-> pc, op |-> Null, origin |-> Null, id |-> Null, body |-> Null, form |-> Null, base |-> Null,
           previous |-> Null]
  BY DEF Unsent
<1> QED  BY <1>1 DEF AskOK, Ask

-----------------------------------------------------------------------------
(* Looking, opening and closing.                                           *)

LEMMA Turns ==
    ASSUME Shape, UNCHANGED session, NEW p, Turn(p)
    PROVE  Shape'
<1>1. PageOK'
  BY DEF Turn, Shape, PageOK, Use
<1>2. FocusOK'
  BY DEF Turn, Shape, FocusOK
<1>3. UNCHANGED <<server, cached, dialog, requests>>
  BY DEF Turn
<1>4. UNCHANGED server /\ UNCHANGED cached /\ UNCHANGED dialog /\ UNCHANGED requests
  BY <1>3
<1> QED  BY <1>1, <1>2, <1>4, Untouched DEF Shape

LEMMA Looks ==
    ASSUME Shape, UNCHANGED session, Look
    PROVE  Shape'
<1>1. \E p : Turn(p)
  BY DEF Look, SetView, SetTeam, ToggleUser, SetDay, ToggleAvailability
<1> QED  BY <1>1, Turns

LEMMA Opens ==
    ASSUME Shape, UNCHANGED session, NEW d, BoxOK(d), OpenDialog(d)
    PROVE  Shape'
<1>1. BoxOK(dialog)' /\ FocusOK'
  BY DEF OpenDialog, BoxOK, FocusOK
<1>2. UNCHANGED server /\ UNCHANGED cached /\ UNCHANGED page /\ UNCHANGED requests
  BY DEF OpenDialog
<1> QED  BY <1>1, <1>2, Untouched DEF Shape

\* Only the dialog changes.
LEMMA Fills ==
    ASSUME Shape, UNCHANGED session, BoxOK(dialog'), UNCHANGED <<server, cached, page, focus, requests>>
    PROVE  Shape'
<1>1. UNCHANGED server /\ UNCHANGED cached /\ UNCHANGED page /\ UNCHANGED focus /\ UNCHANGED requests
  OBVIOUS
<1>2. BoxOK(dialog)'
  BY DEF BoxOK
<1> QED  BY <1>1, <1>2, Untouched DEF Shape

LEMMA NewShiftBox ==
    ASSUME NEW t \in Int, NEW u \in Users \cup {Null}
    PROVE  BoxOK(CreateDialog(t, u))
<1>1. Event.gran \in Int
  BY Numbers
<1>2. SnapToGranularity(t, Event.gran) \in Int
  BY SnappedTimes
<1>3. SnapToGranularity(t + Event.gran, Event.gran) \in Int
  BY <1>1, SnappedTimes
<1>4. (IF Manages(seen) /\ u # Null THEN u ELSE Me) \in Users
  BY EventPageAssumption
<1> DEFINE form == [team |-> Null, user |-> IF Manages(seen) /\ u # Null THEN u ELSE Me,
                    start |-> SnapToGranularity(t, Event.gran),
                    end |-> SnapToGranularity(t + Event.gran, Event.gran)]
<1>5. form \in Form
  BY <1>2, <1>3, <1>4 DEF Form
<1>6. CreateDialog(t, u) = [kind |-> "create", base |-> Null, mode |-> "edit", pending |-> {}, form |-> form]
  BY DEF CreateDialog
<1> HIDE DEF form
<1> QED  BY <1>5, <1>6 DEF BoxOK, Dialogs

LEMMA DetailBox ==
    ASSUME NEW s \in CachedShift
    PROVE  BoxOK(DetailDialog(s))
<1>1. s.start \in Int /\ s.end \in Int /\ s.team \in Teams /\ s.user \in Users
  BY DEF CachedShift
<1>2. SnapToGranularity(s.start, Event.gran) \in Int /\ SnapToGranularity(s.end, Event.gran) \in Int
  BY <1>1, SnappedTimes
<1> DEFINE form == [team |-> s.team, user |-> s.user,
                    start |-> SnapToGranularity(s.start, Event.gran),
                    end |-> SnapToGranularity(s.end, Event.gran)]
<1>3. form \in Form
  BY <1>1, <1>2 DEF Form
<1>4. DetailDialog(s) = [kind |-> "detail", base |-> s, mode |-> "view", pending |-> {}, form |-> form]
  BY DEF DetailDialog
<1> HIDE DEF form
<1> QED  BY <1>3, <1>4 DEF BoxOK, Dialogs

-----------------------------------------------------------------------------
(* The keyboard.                                                           *)

LEMMA Moves ==
    ASSUME Shape, NEW key \in {"up", "down", "left", "right"}, GridSlots # <<>>,
           NEW cell \in [row : -1 .. Len(Roster) - 1, col : Nat]
    PROVE  Moved(cell, key) \in [row : -1 .. Len(Roster) - 1, col : Nat]
<1>1. cell.row \in -1 .. Len(Roster) - 1 /\ cell.col \in Nat
  OBVIOUS
<1>2. Len(Roster) \in Nat /\ Len(Roster) >= 1
  <2>1. Roster \in Seq(Users) /\ Me \in Users
    BY EventPageAssumption
  <2>2. \E i \in DOMAIN Roster : Roster[i] = Me
    BY <2>1 DEF Users, Range
  <2>3. DOMAIN Roster = 1 .. Len(Roster) /\ Len(Roster) \in Nat
    BY <2>1
  <2> QED  BY <2>2, <2>3
<1>3. Len(GridUsers) \in Nat /\ Len(GridUsers) <= Len(Roster)
  BY ScreenTypes
<1>4. Len(GridSlots) \in Nat /\ Len(GridSlots) >= 1
  BY ScreenTypes
<1>5. CASE key = "up"
  <2>1. cell.row - 1 \in Int /\ 0 \in Int
    BY <1>1, <1>2
  <2>2. Max({0, cell.row - 1}) \in {0, cell.row - 1} /\ 0 <= Max({0, cell.row - 1})
    BY <2>1, GreatestOfTwo
  <2>3. Max({0, cell.row - 1}) \in -1 .. Len(Roster) - 1
    BY <1>1, <1>2, <2>2
  <2>4. Moved(cell, key) = [cell EXCEPT !.row = Max({0, cell.row - 1})]
    BY <1>5 DEF Moved
  <2> QED  BY <1>1, <2>3, <2>4
<1>6. CASE key = "down"
  <2>1. Len(GridUsers) - 1 \in Int /\ cell.row + 1 \in Int
    BY <1>1, <1>2, <1>3
  <2>2. /\ Min({Len(GridUsers) - 1, cell.row + 1}) \in {Len(GridUsers) - 1, cell.row + 1}
        /\ Min({Len(GridUsers) - 1, cell.row + 1}) <= Len(GridUsers) - 1
    BY <2>1, LeastOfTwo
  <2>3. Min({Len(GridUsers) - 1, cell.row + 1}) \in -1 .. Len(Roster) - 1
    BY <1>1, <1>2, <1>3, <2>2
  <2>4. Moved(cell, key) = [cell EXCEPT !.row = Min({Len(GridUsers) - 1, cell.row + 1})]
    BY <1>6 DEF Moved
  <2> QED  BY <1>1, <2>3, <2>4
<1>7. CASE key = "left"
  <2>1. cell.col - 1 \in Int /\ 0 \in Int
    BY <1>1
  <2>2. Max({0, cell.col - 1}) \in {0, cell.col - 1} /\ 0 <= Max({0, cell.col - 1})
    BY <2>1, GreatestOfTwo
  <2>3. Max({0, cell.col - 1}) \in Nat
    BY <1>1, <2>2
  <2>4. Moved(cell, key) = [cell EXCEPT !.col = Max({0, cell.col - 1})]
    BY <1>7 DEF Moved
  <2> QED  BY <1>1, <2>3, <2>4
<1>8. CASE key = "right"
  <2>1. Len(GridSlots) - 1 \in Int /\ cell.col + 1 \in Int
    BY <1>1, <1>4
  <2>2. Min({Len(GridSlots) - 1, cell.col + 1}) \in {Len(GridSlots) - 1, cell.col + 1}
    BY <2>1, LeastOfTwo
  <2>3. Min({Len(GridSlots) - 1, cell.col + 1}) \in Nat
    BY <1>1, <1>4, <2>2
  <2>4. Moved(cell, key) = [cell EXCEPT !.col = Min({Len(GridSlots) - 1, cell.col + 1})]
    BY <1>8 DEF Moved
  <2> QED  BY <1>1, <2>3, <2>4
<1> QED  BY <1>5, <1>6, <1>7, <1>8

LEMMA Keys ==
    ASSUME Shape, UNCHANGED session, Keyboard
    PROVE  Shape'
<1>1. CASE EscapeKey
  <2>1. FocusOK'
    BY <1>1 DEF EscapeKey, FocusOK
  <2>2. UNCHANGED server /\ UNCHANGED cached /\ UNCHANGED page /\ UNCHANGED dialog /\ UNCHANGED requests
    BY <1>1 DEF EscapeKey
  <2> QED  BY <2>1, <2>2, Untouched DEF Shape
<1>2. CASE EnterKey
  <2> DEFINE row == focus.row + 1
  <2> DEFINE col == focus.col + 1
  <2>1. row \in DOMAIN GridUsers /\ col \in DOMAIN GridSlots
    BY <1>2 DEF EnterKey
  <2>2. OpenDialog(CreateDialog(GridSlots[col], GridUsers[row].id))
    BY <1>2 DEF EnterKey
  <2> HIDE DEF row, col
  <2>3. GridSlots[col] \in Int /\ GridUsers[row] \in Label
    BY <2>1, ScreenTypes
  <2>4. GridUsers[row].id \in Users \cup {Null}
    BY <2>3 DEF Label
  <2> QED  BY <2>2, <2>3, <2>4, NewShiftBox, Opens
<1>3. ASSUME NEW key \in Use.keys, Arrow(key) PROVE Shape'
  <2> DEFINE cell == IF focus = Null THEN [row |-> 0, col |-> 0] ELSE focus
  <2>1. cell \in [row : -1 .. Len(Roster) - 1, col : Nat]
    <3>1. Len(Roster) >= 1 /\ Len(Roster) \in Nat
      <4>1. Roster \in Seq(Users) /\ Me \in Users
        BY EventPageAssumption
      <4>2. \E i \in DOMAIN Roster : Roster[i] = Me
        BY <4>1 DEF Users, Range
      <4> QED  BY <4>1, <4>2
    <3> QED  BY <3>1 DEF Shape, FocusOK
  <2>2. key \in {"up", "down", "left", "right"}
    BY InUse
  <2>3. GridSlots # <<>> /\ focus' = Moved(cell, key)
    BY <1>3 DEF Arrow, Navigable, GridShown
  <2> HIDE DEF cell
  <2>4. FocusOK'
    BY <2>1, <2>2, <2>3, Moves DEF FocusOK
  <2>5. UNCHANGED server /\ UNCHANGED cached /\ UNCHANGED page /\ UNCHANGED dialog /\ UNCHANGED requests
    BY <1>3 DEF Arrow
  <2> QED  BY <2>4, <2>5, Untouched DEF Shape
<1> QED  BY <1>1, <1>2, <1>3 DEF Keyboard

-----------------------------------------------------------------------------
(* Requests are sent.                                                      *)

\* A guess is a cached shift.
LEMMA GuessTypes ==
    ASSUME NEW s \in CachedShift, NEW body \in Bodies
    PROVE  Guess(s, body) \in CachedShift
<1>1. /\ s.id \in ShiftIds /\ s.team \in Teams /\ s.user \in Users /\ s.name \in Users
      /\ s.start \in Int /\ s.end \in Int /\ s.own \in SUBSET {"start", "end"}
      /\ s = [id |-> s.id, team |-> s.team, user |-> s.user, name |-> s.name, start |-> s.start, end |-> s.end,
              own |-> s.own]
  BY DEF CachedShift
<1>2. /\ body.team \in Teams \cup {Null} /\ body.user \in Users \cup {Null}
      /\ body.start \in Int \cup {Null} /\ body.end \in Int \cup {Null}
  BY DEF Bodies
<1>3. s.own \cup {f \in {"start", "end"} : body[f] # Null} \in SUBSET {"start", "end"}
  BY <1>1
<1> DEFINE own == s.own \cup {f \in {"start", "end"} : body[f] # Null}
<1>4. Guess(s, body) = [s EXCEPT !.team = IF body.team = Null THEN s.team ELSE body.team,
                                 !.user = IF body.user = Null THEN s.user ELSE body.user,
                                 !.start = IF body.start = Null THEN s.start ELSE body.start,
                                 !.end = IF body.end = Null THEN s.end ELSE body.end,
                                 !.own = own]
  BY DEF Guess
<1>5. own \in SUBSET {"start", "end"}
  BY <1>3
<1> HIDE DEF own
<1> QED  BY <1>1, <1>2, <1>4, <1>5 DEF CachedShift

LEMMA SentUpdates ==
    ASSUME Shape, UNCHANGED session, NEW q \in Requests, NEW origin \in {"grid", "dialog"},
           NEW base \in CachedShift, NEW form \in Form, NEW body \in Bodies, OnlyChanges(form, base, body),
           SendUpdate(q, origin, base, form, body)
    PROVE  ServerOK' /\ CacheOK' /\ PageOK' /\ AsksOK' /\ GuessesPend'
<1>1. UNCHANGED server /\ UNCHANGED page /\ UNCHANGED seen
  BY DEF SendUpdate
<1>2. /\ grid \in Seq(CachedShift) \cup {Null} /\ stale \in BOOLEAN /\ seen \in Rights
      /\ base.id \in ShiftIds
  BY DEF Shape, CacheOK, CachedShift
<1> DEFINE r == [pc |-> "sent", op |-> "update", origin |-> origin, id |-> base.id, body |-> body,
                 form |-> form, base |-> base, previous |-> grid]
<1>3. AskOK(r)
  BY <1>2 DEF AskOK, Ask
<1>4. requests' = [requests EXCEPT ![q] = r]
  BY DEF SendUpdate
<1>5. r.pc = "sent" /\ r.op = "update"
  OBVIOUS
<1> HIDE DEF r
<1>6. AsksOK' /\ requests'[q] = r
  BY <1>3, <1>4, OneAsk
<1>7. GuessesPend'
  BY <1>5, <1>6 DEF GuessesPend, Updating, Pending
<1>8. grid' \in Seq(CachedShift) \cup {Null}
  <2>1. CASE grid = Null
    BY <2>1 DEF SendUpdate
  <2>2. CASE grid # Null
    <3>1. /\ grid \in Seq(CachedShift) /\ DOMAIN grid = 1 .. Len(grid) /\ Len(grid) \in Nat
          /\ \A k \in 1 .. Len(grid) : grid[k] \in CachedShift
      BY <1>2, <2>2
    <3>2. grid' = [k \in DOMAIN grid |-> IF grid[k].id = base.id THEN Guess(grid[k], body) ELSE grid[k]]
      BY <2>2 DEF SendUpdate
    <3>3. \A k \in 1 .. Len(grid) :
             (IF grid[k].id = base.id THEN Guess(grid[k], body) ELSE grid[k]) \in CachedShift
      BY <3>1, GuessTypes
    <3>4. grid' \in [1 .. Len(grid) -> CachedShift]
      BY <3>1, <3>2, <3>3
    <3> QED  BY <3>1, <3>4
  <2> QED  BY <2>1, <2>2
<1>9. stale' \in BOOLEAN
  BY DEF SendUpdate
<1>10. CacheOK'
  BY <1>1, <1>2, <1>8, <1>9 DEF CacheOK
<1> QED  BY <1>1, <1>6, <1>7, <1>10, Untouched

\* What is dragged or resized sends times only.
LEMMA TimesOnly ==
    ASSUME NEW s \in CachedShift, NEW start \in Int \cup {Null}, NEW end \in Int \cup {Null}
    PROVE  /\ Unedited(s) \in Form /\ Body(Null, Null, start, end) \in Bodies
           /\ OnlyChanges(Unedited(s), s, Body(Null, Null, start, end))
  BY DEF Unedited, Body, Form, Bodies, OnlyChanges, CachedShift

LEMMA Pulls ==
    ASSUME Shape, UNCHANGED session, NEW q \in Requests, NEW s \in CachedShift, NEW delta \in Int,
           Drag(q, s, delta) \/ Resize(q, s, delta)
    PROVE  Shape'
<1>1. s.start \in Int /\ s.end \in Int /\ Event.gran \in Int
  BY Numbers DEF CachedShift
<1>2. delta * Event.gran \in Int
  BY <1>1
<1>3. s.start + delta * Event.gran \in Int /\ s.end + delta * Event.gran \in Int
  BY <1>1, <1>2
<1>4. PICK start \in Int \cup {Null}, end \in Int \cup {Null} :
        SendUpdate(q, "grid", s, Unedited(s), Body(Null, Null, start, end))
  <2>1. CASE Drag(q, s, delta)
    <3>1. SendUpdate(q, "grid", s, Unedited(s),
                     Body(Null, Null, s.start + delta * Event.gran, s.end + delta * Event.gran))
      BY <2>1 DEF Drag
    <3> QED  BY <3>1, <1>3
  <2>2. CASE Resize(q, s, delta)
    <3>1. SendUpdate(q, "grid", s, Unedited(s), Body(Null, Null, Null, s.end + delta * Event.gran))
      BY <2>2 DEF Resize
    <3> QED  BY <3>1, <1>3
  <2> QED  BY <2>1, <2>2
<1>5. UNCHANGED focus /\ UNCHANGED dialog
  BY DEF Drag, Resize
<1>6. /\ Unedited(s) \in Form /\ Body(Null, Null, start, end) \in Bodies
      /\ OnlyChanges(Unedited(s), s, Body(Null, Null, start, end))
  BY TimesOnly
<1>7. ServerOK' /\ CacheOK' /\ PageOK' /\ AsksOK' /\ GuessesPend'
  BY <1>4, <1>6, SentUpdates
<1> QED  BY <1>5, <1>7, Untouched DEF Shape

LEMMA Clicks ==
    ASSUME Shape, UNCHANGED session, Mouse
    PROVE  Shape'
<1>1. ASSUME NEW row \in DOMAIN DisplayedRows, NEW col \in DOMAIN GridSlots, ClickCell(row, col) PROVE Shape'
  <2>1. GridSlots[col] \in Int /\ DisplayedRows[row] \in Label
    BY ScreenTypes
  <2>2. DisplayedRows[row].id \in Users \cup {Null}
    BY <2>1 DEF Label
  <2>3. OpenDialog(CreateDialog(GridSlots[col], DisplayedRows[row].id))
    BY <1>1 DEF ClickCell
  <2> QED  BY <2>1, <2>2, <2>3, NewShiftBox, Opens
<1>2. ASSUME NEW i \in DOMAIN Shown PROVE Shown[i] \in CachedShift
  BY ScreenTypes
<1>3. ASSUME NEW i \in DOMAIN Shown, ClickShift(Shown[i]) PROVE Shape'
  <2>1. OpenDialog(DetailDialog(Shown[i])) /\ Shown[i] \in CachedShift
    BY <1>2, <1>3 DEF ClickShift
  <2> QED  BY <2>1, DetailBox, Opens
<1>4. ASSUME NEW i \in DOMAIN Shown, NEW q \in Use.requests, NEW delta \in Use.deltas,
             Drag(q, Shown[i], delta) \/ Resize(q, Shown[i], delta)
      PROVE  Shape'
  <2>1. q \in Requests /\ delta \in Int /\ Shown[i] \in CachedShift
    BY <1>2, InUse
  <2> QED  BY <1>4, <2>1, Pulls
<1>5. CASE ClickCreate
  <2>1. OpenDialog(CreateDialog(Event.start, Null)) /\ Event.start \in Int /\ Null \in Users \cup {Null}
    BY <1>5, Numbers DEF ClickCreate
  <2> QED  BY <2>1, NewShiftBox, Opens
<1>6. CASE OpenAvailability
  <2> DEFINE d == [kind |-> "availability", base |-> Null, mode |-> "view", pending |-> {}, form |-> Null]
  <2>1. BoxOK(d) /\ OpenDialog(d)
    BY <1>6 DEF OpenAvailability, BoxOK, Dialogs
  <2> HIDE DEF d
  <2> QED  BY <2>1, Opens
<1>7. CASE CloseDialog
  <2>1. BoxOK(dialog') /\ UNCHANGED <<server, cached, page, focus, requests>>
    BY <1>7 DEF CloseDialog, BoxOK
  <2> QED  BY <2>1, Fills
<1>8. GridShown /\ dialog = Null /\ OnGrid => Shape'
  BY <1>1, <1>3, <1>4 DEF OnGrid
<1> QED  BY <1>5, <1>6, <1>7, <1>8 DEF Mouse

-----------------------------------------------------------------------------
(* The dialogs' forms.                                                     *)

\* A dialog with another form, another mode or another set of requests.
LEMMA BoxChanges ==
    ASSUME Shape, dialog # Null
    PROVE  /\ \A form \in Form : BoxOK([dialog EXCEPT !.form = form])
           /\ \A mode \in {"view", "edit", "confirm"} : BoxOK([dialog EXCEPT !.mode = mode])
           /\ \A pending \in SUBSET Requests : BoxOK([dialog EXCEPT !.pending = pending])
           /\ dialog.pending \in SUBSET Requests
<1>1. /\ dialog \in Dialogs
      /\ dialog.kind # "availability" => dialog.form \in Form
      /\ dialog.kind = "detail" => dialog.base \in CachedShift
  BY DEF Shape, BoxOK
<1>2. \A form \in Form : BoxOK([dialog EXCEPT !.form = form])
  BY <1>1 DEF BoxOK, Dialogs
<1>3. \A mode \in {"view", "edit", "confirm"} : BoxOK([dialog EXCEPT !.mode = mode])
  BY <1>1 DEF BoxOK, Dialogs
<1>4. \A pending \in SUBSET Requests : BoxOK([dialog EXCEPT !.pending = pending])
  BY <1>1 DEF BoxOK, Dialogs
<1>5. dialog.pending \in SUBSET Requests
  BY <1>1 DEF Dialogs
<1> QED  BY <1>2, <1>3, <1>4, <1>5

LEMMA FormFilled ==
    ASSUME Shape, UNCHANGED session, dialog # Null, NEW form \in Form, Fill(form)
    PROVE  Shape'
<1>1. dialog' = [dialog EXCEPT !.form = form]
  BY DEF Fill
<1>2. BoxOK(dialog')
  BY <1>1, BoxChanges
<1> QED  BY <1>2, Fills DEF Fill

LEMMA Picking ==
    ASSUME Shape, UNCHANGED session,
           \/ \E team \in Teams : PickTeam(team)
           \/ \E u \in Users : PickUser(u)
           \/ \E t \in Use.instants : PickTime(t)
    PROVE  Shape'
<1>1. dialog # Null /\ dialog.form \in Form
  <2>1. Editing
    BY DEF PickTeam, PickUser, PickTime
  <2> QED  BY <2>1 DEF Editing, Shape, BoxOK
<1>2. ASSUME NEW team \in Teams, PickTeam(team) PROVE Shape'
  <2>1. [dialog.form EXCEPT !.team = team] \in Form /\ Fill([dialog.form EXCEPT !.team = team])
    BY <1>1, <1>2 DEF Form, PickTeam
  <2> QED  BY <1>1, <2>1, FormFilled
<1>3. ASSUME NEW u \in Users, PickUser(u) PROVE Shape'
  <2>1. [dialog.form EXCEPT !.user = u] \in Form /\ Fill([dialog.form EXCEPT !.user = u])
    BY <1>1, <1>3 DEF Form, PickUser
  <2> QED  BY <1>1, <2>1, FormFilled
<1>4. ASSUME NEW t \in Use.instants, PickTime(t) PROVE Shape'
  <2>1. PICK f \in {"start", "end"} : Fill([dialog.form EXCEPT ![f] = t])
    BY <1>4 DEF PickTime
  <2>2. t \in Int
    BY InUse
  <2>3. [dialog.form EXCEPT ![f] = t] \in Form
    <3>1. [dialog.form EXCEPT !.start = t] \in Form /\ [dialog.form EXCEPT !.end = t] \in Form
      BY <1>1, <2>2 DEF Form
    <3> QED  BY <3>1
  <2> QED  BY <1>1, <2>1, <2>3, FormFilled
<1> QED  BY <1>2, <1>3, <1>4

LEMMA Modes ==
    ASSUME Shape, UNCHANGED session, StartEditing \/ AskDelete \/ StepBack
    PROVE  Shape'
<1>1. PICK to \in {"view", "edit", "confirm"} : \E from : Mode(from, to)
  BY DEF StartEditing, AskDelete, StepBack
<1>2. dialog # Null /\ dialog' = [dialog EXCEPT !.mode = to] /\ UNCHANGED <<server, cached, page, focus, requests>>
  BY <1>1 DEF Mode
<1>3. BoxOK(dialog')
  BY <1>2, BoxChanges
<1> QED  BY <1>2, <1>3, Fills

-----------------------------------------------------------------------------
(* The dialogs' requests.                                                  *)

LEMMA UnsentIsNoUpdate ==
    ASSUME NEW q \in Requests, requests[q] = Unsent
    PROVE  requests[q].op # "update"
<1>1. requests[q].op = Null
  BY DEF Unsent
<1> QED  BY <1>1, EventPageAssumption

\* A request that is no update leaves everything but itself and the dialog.
LEMMA Sending ==
    ASSUME Shape, UNCHANGED session, NEW q \in Requests, NEW r, AskOK(r), dialog # Null,
           requests[q].op # "update", requests' = [requests EXCEPT ![q] = r],
           dialog' = [dialog EXCEPT !.pending = @ \cup {q}],
           UNCHANGED <<server, cached, page, focus>>
    PROVE  Shape'
<1>1. UNCHANGED server /\ UNCHANGED cached /\ UNCHANGED page /\ UNCHANGED focus
  OBVIOUS
<1>2. AsksOK' /\ \A o \in Requests : o # q => requests'[o] = requests[o]
  BY OneAsk
<1>3. BoxOK(dialog)'
  <2>1. dialog.pending \cup {q} \in SUBSET Requests
    BY BoxChanges
  <2>2. BoxOK([dialog EXCEPT !.pending = dialog.pending \cup {q}])
    BY <2>1, BoxChanges
  <2> QED  BY <2>2 DEF BoxOK
<1>4. grid' = grid /\ stale' = stale
  BY DEF cached
<1>5. GuessesPend'
  BY <1>2, <1>4, OthersGuesses
<1> QED  BY <1>1, <1>2, <1>3, <1>5, Untouched DEF Shape

LEMMA Creates ==
    ASSUME Shape, UNCHANGED session, NEW q \in Requests, SubmitCreate(q)
    PROVE  Shape'
<1> DEFINE user == IF Manages(seen) THEN dialog.form.user ELSE Me
<1> DEFINE body == [dialog.form EXCEPT !.user = user]
<1> DEFINE r == [Unsent EXCEPT !.pc = "sent", !.op = "create", !.origin = "dialog", !.body = body]
<1>1. /\ dialog # Null /\ dialog.form \in Form /\ dialog.form.team # Null
      /\ requests[q] = Unsent /\ requests' = [requests EXCEPT ![q] = r]
      /\ dialog' = [dialog EXCEPT !.pending = @ \cup {q}]
      /\ UNCHANGED <<server, cached, page, focus>>
  BY DEF SubmitCreate, Editing, Shape, BoxOK
<1>2. user \in Users
  BY <1>1, EventPageAssumption DEF Form
<1> HIDE DEF user
<1>3. body \in RowBody /\ body \in Bodies
  BY <1>1, <1>2 DEF Form, RowBody, Bodies
<1> HIDE DEF body
<1>7. PICK x : x = r
  OBVIOUS
<1>4. x = [pc |-> "sent", op |-> "create", origin |-> "dialog", id |-> Null, body |-> body, form |-> Null,
           base |-> Null, previous |-> Null]
  BY <1>7 DEF Unsent
<1> HIDE DEF r
<1>5. AskOK(r)
  BY <1>3, <1>4, <1>7, EventPageAssumption DEF AskOK, Ask
<1>6. requests[q].op # "update"
  BY <1>1, UnsentIsNoUpdate
<1> QED  BY <1>1, <1>5, <1>6, Sending

LEMMA Deletes ==
    ASSUME Shape, UNCHANGED session, NEW q \in Requests, ConfirmDelete(q)
    PROVE  Shape'
<1> DEFINE r == [Unsent EXCEPT !.pc = "sent", !.op = "delete", !.origin = "dialog",
                               !.id = dialog.base.id, !.base = dialog.base]
<1>1. /\ dialog # Null /\ dialog.base \in CachedShift
      /\ requests[q] = Unsent /\ requests' = [requests EXCEPT ![q] = r]
      /\ dialog' = [dialog EXCEPT !.pending = @ \cup {q}]
      /\ UNCHANGED <<server, cached, page, focus>>
  BY DEF ConfirmDelete, Shape, BoxOK
<1>6. PICK x : x = r
  OBVIOUS
<1>2. x = [pc |-> "sent", op |-> "delete", origin |-> "dialog", id |-> dialog.base.id, body |-> Null, form |-> Null,
           base |-> dialog.base, previous |-> Null]
  BY <1>6 DEF Unsent
<1>3. dialog.base.id \in ShiftIds
  BY <1>1 DEF CachedShift
<1> HIDE DEF r
<1>4. AskOK(r)
  BY <1>1, <1>2, <1>3, <1>6 DEF AskOK, Ask
<1>5. requests[q].op # "update"
  BY <1>1, UnsentIsNoUpdate
<1> QED  BY <1>1, <1>4, <1>5, Sending

\* A field that the form left as it was is not sent.
LEMMA ChangedFields ==
    ASSUME NEW form \in Form, NEW base \in CachedShift
    PROVE  Changes(form, base) \in Bodies /\ OnlyChanges(form, base, Changes(form, base))
  BY DEF Changes, Body, Form, Bodies, CachedShift, OnlyChanges

LEMMA Edits ==
    ASSUME Shape, UNCHANGED session, NEW q \in Requests, SubmitEdit(q)
    PROVE  Shape'
<1> DEFINE body == Changes(dialog.form, dialog.base)
<1>1. dialog # Null /\ dialog.form \in Form /\ dialog.base \in CachedShift
  BY DEF SubmitEdit, Editing, Shape, BoxOK
<1>2. body \in Bodies /\ OnlyChanges(dialog.form, dialog.base, body)
  BY <1>1, ChangedFields
<1>3. CASE body = Body(Null, Null, Null, Null)
  <2>1. dialog' = [dialog EXCEPT !.mode = "view"] /\ UNCHANGED <<server, cached, page, focus, requests>>
    BY <1>3 DEF SubmitEdit
  <2>2. BoxOK(dialog')
    BY <1>1, <2>1, BoxChanges
  <2> QED  BY <2>1, <2>2, Fills
<1>4. CASE body # Body(Null, Null, Null, Null)
  <2>1. /\ SendUpdate(q, "dialog", dialog.base, dialog.form, body)
        /\ dialog' = [dialog EXCEPT !.pending = @ \cup {q}] /\ UNCHANGED focus
    BY <1>4 DEF SubmitEdit
  <2> HIDE DEF body
  <2>2. ServerOK' /\ CacheOK' /\ PageOK' /\ AsksOK' /\ GuessesPend'
    BY <1>1, <1>2, <2>1, SentUpdates
  <2>3. BoxOK(dialog)'
    <3>1. dialog.pending \cup {q} \in SUBSET Requests
      BY <1>1, BoxChanges
    <3>2. BoxOK([dialog EXCEPT !.pending = dialog.pending \cup {q}])
      BY <1>1, <3>1, BoxChanges
    <3> QED  BY <2>1, <3>2 DEF BoxOK
  <2> QED  BY <2>1, <2>2, <2>3, Untouched DEF Shape
<1> QED  BY <1>3, <1>4

LEMMA Types ==
    ASSUME Shape, UNCHANGED session, Typing
    PROVE  Shape'
<1>1. Use.requests \subseteq Requests
  BY InUse
<1> QED  BY <1>1, Picking, Modes, Creates, Deletes, Edits DEF Typing

-----------------------------------------------------------------------------
(* The server and the answers.                                             *)

\* One row of the table changes.
LEMMA OneShift ==
    ASSUME ServerOK, NEW id, NEW row \in {Null} \cup Row, shifts' = [shifts EXCEPT ![id] = row], rights' = rights
    PROVE  ServerOK'
<1>1. DOMAIN shifts' = DOMAIN shifts /\ shifts' \in [DOMAIN shifts -> {Null} \cup Row]
  BY DEF ServerOK
<1> QED  BY <1>1 DEF ServerOK

LEMMA ValidRow ==
    ASSUME NEW body \in RowBody, Valid(body)
    PROVE  body \in Row
<1>1. /\ body.team \in Teams /\ body.user \in Users /\ body.start \in Int /\ body.end \in Int
      /\ body = [team |-> body.team, user |-> body.user, start |-> body.start, end |-> body.end]
  BY DEF RowBody
<1>2. body.start \in 0 .. Event.end /\ body.end \in 0 .. Event.end
  BY <1>1, Numbers DEF Valid
<1> QED  BY <1>1, <1>2 DEF Row

LEMMA MergedRow ==
    ASSUME NEW body \in Bodies, NEW row \in Row
    PROVE  Merged(body, row) \in RowBody
<1>1. \A t \in 0 .. Event.end : t \in Int
  BY Numbers
<1>2. row.team \in Teams /\ row.user \in Users /\ row.start \in Int /\ row.end \in Int
  BY <1>1 DEF Row
<1>3. /\ body.team \in Teams \cup {Null} /\ body.user \in Users \cup {Null}
      /\ body.start \in Int \cup {Null} /\ body.end \in Int \cup {Null}
  BY DEF Bodies
<1>4. Merged(body, row) = [team |-> IF body.team = Null THEN row.team ELSE body.team,
                           user |-> IF body.user = Null THEN row.user ELSE body.user,
                           start |-> IF body.start = Null THEN row.start ELSE body.start,
                           end |-> IF body.end = Null THEN row.end ELSE body.end]
  BY DEF Merged, Body
<1> QED  BY <1>2, <1>3, <1>4 DEF RowBody

LEMMA Accepts ==
    ASSUME Shape, UNCHANGED session, NEW q \in Requests, Accept(q)
    PROVE  Shape'
<1>1. requests[q] \in Ask /\ AskOK(requests[q]) /\ requests[q].pc = "sent" /\ ServerOK
  BY DEF Shape, AsksOK, AskOK, Accept
<1>2. /\ UNCHANGED cached /\ UNCHANGED page /\ UNCHANGED focus /\ UNCHANGED dialog
      /\ rights' = rights /\ grid' = grid /\ stale' = stale
  BY DEF Accept, Outcome, cached
<1>3. ServerOK'
  <2>1. ASSUME NEW id \in DOMAIN shifts, requests[q].op = "create", Valid(requests[q].body),
               Outcome(id, requests[q].body)
        PROVE  ServerOK'
    <3>1. requests[q].body \in Row
      BY <1>1, <2>1, ValidRow DEF AskOK
    <3> QED  BY <1>1, <1>2, <2>1, <3>1, OneShift DEF Outcome
  <2>2. ASSUME requests[q].op = "update", shifts[requests[q].id] # Null,
               Valid(Merged(requests[q].body, shifts[requests[q].id])),
               Outcome(requests[q].id, Merged(requests[q].body, shifts[requests[q].id]))
        PROVE  ServerOK'
    <3>1. CASE requests[q].id \in DOMAIN shifts
      <4>1. shifts[requests[q].id] \in Row
        BY <1>1, <2>2, <3>1 DEF ServerOK
      <4>2. requests[q].body \in Bodies
        BY <1>1, <2>2 DEF AskOK
      <4>3. Merged(requests[q].body, shifts[requests[q].id]) \in Row
        BY <2>2, <4>1, <4>2, MergedRow, ValidRow
      <4> QED  BY <1>1, <1>2, <2>2, <4>3, OneShift DEF Outcome
    <3>2. CASE requests[q].id \notin DOMAIN shifts
      <4>1. shifts' = shifts
        BY <1>1, <2>2, <3>2 DEF Outcome, ServerOK
      <4> QED  BY <1>1, <1>2, <4>1 DEF ServerOK
    <3> QED  BY <3>1, <3>2
  <2>3. ASSUME Outcome(requests[q].id, Null) PROVE ServerOK'
    BY <1>1, <1>2, <2>3, OneShift DEF Outcome
  <2> QED  BY <2>1, <2>2, <2>3 DEF Accept
<1>4. PICK x : x = [Unsent EXCEPT !.pc = "accepted", !.op = requests[q].op, !.origin = requests[q].origin,
                                  !.previous = requests[q].previous]
  OBVIOUS
<1>5. x = [pc |-> "accepted", op |-> requests[q].op, origin |-> requests[q].origin, id |-> Null, body |-> Null,
           form |-> Null, base |-> Null, previous |-> requests[q].previous]
  BY <1>4 DEF Unsent
<1>6. AskOK(x)
  BY <1>1, <1>5 DEF AskOK, Ask
<1>7. requests' = [requests EXCEPT ![q] = x]
  BY <1>4 DEF Accept
<1>8. AsksOK' /\ requests'[q] = x /\ \A o \in Requests : o # q => requests'[o] = requests[o]
  BY <1>6, <1>7, OneAsk
<1>9. GuessesPend'
  <2>1. SUFFICES ASSUME grid # Null, ~stale, \A o \in Requests : ~Updating(o)'
                 PROVE  Clean(grid)
    BY <1>2 DEF GuessesPend, Clean
  <2>2. ASSUME NEW o \in Requests PROVE ~Updating(o)
    <3>1. ~Updating(o)'
      BY <2>1
    <3> QED  BY <3>1, <1>5, <1>8 DEF Updating, Pending
  <2> QED  BY <2>1, <2>2 DEF Shape, GuessesPend
<1> QED  BY <1>2, <1>3, <1>8, <1>9, Untouched DEF Shape

\* What is settled or warned of is no update any more.
LEMMA Settles ==
    ASSUME Shape, NEW q \in Requests, NEW pc \in {"settled", "warned"}, Settled(q, pc)
    PROVE  /\ AsksOK'
           /\ \A o \in Requests : o # q => requests'[o] = requests[o]
<1>1. AskOK([Unsent EXCEPT !.pc = pc])
  BY SettledAsk
<1> QED  BY <1>1, OneAsk DEF Settled

LEMMA BoxAfter ==
    ASSUME Shape, NEW q \in Requests
    PROVE  (\A kind : BoxOK(Closed(kind))) /\ BoxOK(Answered(q))
<1>1. BoxOK(dialog) /\ BoxOK(Null)
  BY DEF Shape, BoxOK
<1>2. \A kind : BoxOK(Closed(kind))
  BY <1>1 DEF Closed
<1>3. BoxOK(Answered(q))
  <2>1. CASE dialog = Null
    BY <1>1, <2>1 DEF Answered
  <2>2. CASE dialog # Null
    <3>1. dialog.pending \ {q} \in SUBSET Requests
      BY <2>2, BoxChanges
    <3>2. Answered(q) = [dialog EXCEPT !.pending = dialog.pending \ {q}]
      BY <2>2 DEF Answered
    <3> QED  BY <2>2, <3>1, <3>2, BoxChanges
  <2> QED  BY <2>1, <2>2
<1> QED  BY <1>2, <1>3

LEMMA Succeeds ==
    ASSUME Shape, UNCHANGED session, NEW q \in Requests, Succeed(q)
    PROVE  Shape'
<1>1. UNCHANGED server /\ UNCHANGED page /\ UNCHANGED focus /\ stale' = TRUE /\ grid' = grid /\ seen' = seen
  BY DEF Succeed
<1>2. BoxOK(dialog')
  <2>1. dialog' = dialog \/ dialog' = Answered(q) \/ \E kind : dialog' = Closed(kind)
    BY DEF Succeed
  <2> QED  BY <2>1, BoxAfter DEF Shape
<1>3. AsksOK'
  <2>1. Settled(q, "settled") \/ Settled(q, "warned")
    BY DEF Succeed
  <2> QED  BY <2>1, Settles
<1>4. CacheOK' /\ GuessesPend'
  BY <1>1 DEF Shape, CacheOK, GuessesPend
<1>5. BoxOK(dialog)'
  BY <1>2 DEF BoxOK
<1> QED  BY <1>1, <1>3, <1>4, <1>5, Untouched DEF Shape

LEMMA WarningsEnd ==
    ASSUME Shape, UNCHANGED session, NEW q \in Requests, WarningEnds(q)
    PROVE  Shape'
<1>1. UNCHANGED server /\ UNCHANGED cached /\ UNCHANGED page /\ UNCHANGED focus /\ grid' = grid /\ stale' = stale
  BY DEF WarningEnds, cached
<1>2. AsksOK' /\ \A o \in Requests : o # q => requests'[o] = requests[o]
  BY Settles DEF WarningEnds
<1>3. BoxOK(dialog)'
  <2>1. BoxOK(dialog')
    BY BoxAfter DEF WarningEnds
  <2> QED  BY <2>1 DEF BoxOK
<1>4. GuessesPend'
  <2>1. SUFFICES ASSUME grid # Null, ~stale, \A o \in Requests : ~Updating(o)'
                 PROVE  Clean(grid)
    BY <1>1 DEF GuessesPend, Clean
  <2>2. ASSUME NEW o \in Requests PROVE ~Updating(o)
    <3>1. o # q => ~Updating(o)
      BY <1>2, <2>1 DEF Updating, Pending
    <3>2. requests[q].pc = "warned"
      BY DEF WarningEnds
    <3> QED  BY <3>1, <3>2 DEF Updating, Pending
  <2> QED  BY <2>1, <2>2 DEF Shape, GuessesPend
<1> QED  BY <1>1, <1>2, <1>3, <1>4, Untouched DEF Shape

\* An update that fails leaves a list that has to be fetched; anything else
\* that fails leaves the list alone.
LEMMA FailsStep ==
    ASSUME Shape, UNCHANGED session, NEW q \in Requests, Fail(q)
    PROVE  Shape'
<1>1. UNCHANGED server /\ UNCHANGED page /\ UNCHANGED focus /\ seen' = seen
  BY DEF Fail
<1>2. AsksOK' /\ \A o \in Requests : o # q => requests'[o] = requests[o]
  BY Settles DEF Fail
<1>3. BoxOK(dialog)'
  <2>1. BoxOK(dialog')
    BY BoxAfter DEF Fail
  <2> QED  BY <2>1 DEF BoxOK
<1>4. /\ requests[q] \in Ask
      /\ requests[q].op # "update" => requests[q].previous = Null
  BY DEF Shape, AsksOK, AskOK
<1>5. CacheOK'
  <2>1. grid' \in Seq(CachedShift) \cup {Null}
    BY <1>4 DEF Fail, Ask, Shape, CacheOK
  <2>2. stale' \in BOOLEAN
    BY DEF Fail, Shape, CacheOK
  <2> QED  BY <1>1, <2>1, <2>2 DEF Shape, CacheOK
<1>6. GuessesPend'
  <2>1. CASE requests[q].op = "update"
    BY <2>1 DEF Fail, GuessesPend
  <2>2. CASE requests[q].op # "update"
    <3>1. grid' = grid /\ (stale' = stale \/ stale' = TRUE)
      BY <1>4, <2>2 DEF Fail, Shape, CacheOK
    <3> QED  BY <1>2, <2>2, <3>1, OthersGuesses
  <2> QED  BY <2>1, <2>2
<1> QED  BY <1>1, <1>2, <1>3, <1>5, <1>6, Untouched DEF Shape

\* What the server answers has no guesses in it.
LEMMA Refreshes ==
    ASSUME Shape, UNCHANGED session, RefreshGrid
    PROVE  Shape'
<1>1. /\ UNCHANGED server /\ UNCHANGED page /\ UNCHANGED focus /\ UNCHANGED dialog /\ UNCHANGED requests
      /\ seen' = seen /\ grid' = ServerList /\ stale' = FALSE
  BY DEF RefreshGrid
<1>2. ServerList \in Seq(CachedShift)
  <2>1. ServerOK
    BY ZenonT(30) DEF Shape
  <2> QED  BY <2>1, ServerListTypes DEF ServerOK
<1>3. Clean(ServerList)
  BY DEF Clean, ServerList
<1>4. CacheOK'
  BY <1>1, <1>2 DEF Shape, CacheOK
<1>5. GuessesPend'
  BY <1>1, <1>3 DEF GuessesPend, Clean
<1> QED  BY <1>1, <1>4, <1>5, Untouched DEF Shape

LEMMA Elsewheres ==
    ASSUME Shape, UNCHANGED session, Elsewhere
    PROVE  Shape'
<1>1. ASSUME NEW id \in DOMAIN shifts, NEW row \in Use.rewrites, OthersWrite(id, row) PROVE Shape'
  <2>1. /\ UNCHANGED cached /\ UNCHANGED page /\ UNCHANGED focus /\ UNCHANGED dialog /\ UNCHANGED requests
        /\ shifts' = [shifts EXCEPT ![id] = row] /\ rights' = rights
    BY <1>1 DEF OthersWrite
  <2>2. row \in {Null} \cup Row
    BY InUse
  <2>3. ServerOK'
    BY <2>1, <2>2, OneShift DEF Shape
  <2> QED  BY <2>1, <2>3, Untouched DEF Shape
<1>2. ASSUME NEW r \in Use.demotions, OthersSetRights(r) PROVE Shape'
  <2>1. /\ UNCHANGED cached /\ UNCHANGED page /\ UNCHANGED focus /\ UNCHANGED dialog /\ UNCHANGED requests
        /\ shifts' = shifts /\ rights' = r
    BY <1>2 DEF OthersSetRights
  <2>2. r \in Rights
    BY InUse
  <2>3. ServerOK'
    BY <2>1, <2>2 DEF Shape, ServerOK
  <2> QED  BY <2>1, <2>3, Untouched DEF Shape
<1>3. CASE RefreshRights
  <2>1. /\ UNCHANGED server /\ UNCHANGED page /\ UNCHANGED focus /\ UNCHANGED dialog /\ UNCHANGED requests
        /\ grid' = grid /\ stale' = stale /\ seen' = rights
    BY <1>3 DEF RefreshRights
  <2>2. CacheOK' /\ GuessesPend'
    BY <2>1 DEF Shape, CacheOK, ServerOK, GuessesPend, Clean, Updating, Pending
  <2> QED  BY <2>1, <2>2, Untouched DEF Shape
<1> QED  BY <1>1, <1>2, <1>3, Accepts, Succeeds, FailsStep, WarningsEnd, Refreshes DEF Elsewhere

-----------------------------------------------------------------------------
(* The theorems.                                                           *)

LEMMA ShapeToBegin == Init => Shape
<1> SUFFICES ASSUME Init PROVE Shape
  OBVIOUS
<1>1. session \in DOMAIN Sessions /\ shifts \in Sessions[session].tables /\ page \in Sessions[session].pages
  BY DEF Init, Use
<1>2. ServerOK
  BY <1>1, EventPageAssumption DEF ServerOK, Init
<1>3. CacheOK
  BY EventPageAssumption DEF CacheOK, Init
<1>4. PageOK
  BY <1>1 DEF PageOK, Use
<1>5. FocusOK /\ BoxOK(dialog) /\ GuessesPend
  BY DEF Init, FocusOK, BoxOK, GuessesPend
<1>6. AskOK(Unsent)
  BY DEF AskOK, Ask, Unsent
<1>7. Unsent \in Ask
  BY <1>6 DEF AskOK
<1>8. AsksOK
  BY <1>6, <1>7 DEF AsksOK, Init
<1> QED  BY <1>2, <1>3, <1>4, <1>5, <1>8 DEF Shape

LEMMA ShapeStays == Shape /\ [Next]_vars => Shape'
<1> SUFFICES ASSUME Shape, [Next]_vars PROVE Shape'
  OBVIOUS
<1>1. CASE Next
  BY <1>1, Looks, Keys, Clicks, Types, Elsewheres DEF Next
<1>2. CASE UNCHANGED vars
  <2>1. /\ UNCHANGED session /\ UNCHANGED server /\ UNCHANGED cached /\ UNCHANGED page /\ UNCHANGED focus
        /\ UNCHANGED dialog /\ UNCHANGED requests
    BY <1>2 DEF vars
  <2> QED  BY <2>1, Untouched DEF Shape
<1> QED  BY <1>1, <1>2

LEMMA ShapeHolds == Spec => []Shape
<1> QED  BY ShapeToBegin, ShapeStays, PTL DEF Spec

\* The server's rows, the cached list with what the page took for granted, the
\* cell of the keyboard, the dialog and the requests are of their types.
THEOREM ThePageIsTyped == Spec => []TypeOK
<1>1. Shape => TypeOK
  <2> SUFFICES ASSUME Shape PROVE TypeOK
    OBVIOUS
  <2>1. DOMAIN shifts \subseteq ShiftIds /\ shifts \in [DOMAIN shifts -> {Null} \cup Row] /\ rights \in Rights
    BY DEF Shape, ServerOK
  <2>2. seen \in Rights /\ OneOf(Seq(CachedShift), grid) /\ stale \in BOOLEAN
    BY DEF Shape, CacheOK, OneOf
  <2>3. focus # Null => focus.row \in -1 .. Len(Roster) - 1 /\ focus.col \in Nat
    BY DEF Shape, FocusOK
  <2>4. dialog # Null /\ dialog.kind # "availability" =>
          /\ dialog.form \in Form /\ OneOf(CachedShift, dialog.base)
          /\ dialog.mode \in {"view", "edit", "confirm"} /\ dialog.pending \subseteq Requests
    BY DEF Shape, BoxOK, Dialogs, OneOf
  <2>5. ASSUME NEW q \in Requests
        PROVE  /\ requests[q].pc \in {"unsent", "sent", "accepted", "warned", "settled"}
               /\ OneOf({"create", "update", "delete"}, requests[q].op)
               /\ OneOf(Form, requests[q].form) /\ OneOf(CachedShift, requests[q].base)
    <3>1. requests[q] \in Ask
      BY DEF Shape, AsksOK
    <3> QED  BY <3>1 DEF Ask, OneOf
  <2> QED  BY <2>1, <2>2, <2>3, <2>4, <2>5 DEF TypeOK
<1> QED  BY <1>1, ShapeHolds, PTL

\* With all answers in, a list that needs no fetching has no guess of this page
\* in it, whatever was refused and in whatever order (hooks/useShifts.ts,
\* onError and onSettled).
THEOREM RefusedGuessesGo == Spec => []NoGuessSurvives
<1>1. Shape => NoGuessSurvives
  BY DEF Shape, GuessesPend, Updating, Clean, NoGuessSurvives
<1> QED  BY <1>1, ShapeHolds, PTL

\* A request is taken by the server or not at all: no other step makes it so.
LEMMA TakenByAccept ==
    ASSUME Shape, Next, NEW q \in Requests, requests[q].pc = "sent", requests'[q].pc = "accepted"
    PROVE  Accept(q)
<1>1. requests'[q] # requests[q] /\ requests[q] # Unsent /\ requests \in [Requests -> Ask]
  BY DEF Unsent, Shape, AsksOK
<1>2. ASSUME NEW o \in Requests, NEW r, requests[o] = Unsent, requests' = [requests EXCEPT ![o] = r] PROVE FALSE
  BY <1>1, <1>2
<1>3. ASSUME Look PROVE FALSE
  <2>1. \E p : Turn(p)
    BY <1>3 DEF Look, SetView, SetTeam, ToggleUser, SetDay, ToggleAvailability
  <2> QED  BY <1>1, <2>1 DEF Turn
<1>4. ASSUME Keyboard PROVE FALSE
  BY <1>1, <1>4 DEF Keyboard, EscapeKey, EnterKey, Arrow, OpenDialog
<1>5. ASSUME NEW o \in Requests, NEW origin, NEW base, NEW form, NEW body, SendUpdate(o, origin, base, form, body)
      PROVE  FALSE
  BY <1>2, <1>5 DEF SendUpdate
<1>6. ASSUME NEW o \in Requests, NEW s, NEW delta, Drag(o, s, delta) \/ Resize(o, s, delta) PROVE FALSE
  BY <1>5, <1>6 DEF Drag, Resize
<1>7. ASSUME Mouse PROVE FALSE
  <2>1. CASE ClickCreate \/ OpenAvailability \/ CloseDialog
    BY <1>1, <2>1 DEF ClickCreate, OpenAvailability, CloseDialog, OpenDialog
  <2>2. ASSUME OnGrid PROVE FALSE
    <3>1. Use.requests \subseteq Requests
      BY InUse
    <3>2. ASSUME NEW row, NEW col, ClickCell(row, col) PROVE FALSE
      BY <1>1, <3>2 DEF ClickCell, OpenDialog
    <3>3. ASSUME NEW s, ClickShift(s) PROVE FALSE
      BY <1>1, <3>3 DEF ClickShift, OpenDialog
    <3> QED  BY <2>2, <3>1, <3>2, <3>3, <1>6 DEF OnGrid
  <2> QED  BY <1>7, <2>1, <2>2 DEF Mouse
<1>8. ASSUME Typing PROVE FALSE
  <2>1. Use.requests \subseteq Requests
    BY InUse
  <2>2. ASSUME NEW o \in Requests, SubmitCreate(o) \/ ConfirmDelete(o) PROVE FALSE
    BY <1>2, <2>2 DEF SubmitCreate, ConfirmDelete
  <2>3. ASSUME NEW o \in Requests, SubmitEdit(o) PROVE FALSE
    BY <1>1, <1>5, <2>3 DEF SubmitEdit
  <2>4. ASSUME NEW form, Fill(form) PROVE FALSE
    BY <1>1, <2>4 DEF Fill
  <2>5. ASSUME NEW from, NEW to, Mode(from, to) PROVE FALSE
    BY <1>1, <2>5 DEF Mode
  <2>6. ~StartEditing /\ ~AskDelete /\ ~StepBack
    BY <2>5 DEF StartEditing, AskDelete, StepBack
  <2>7. \A x : ~PickTeam(x) /\ ~PickUser(x) /\ ~PickTime(x)
    BY <2>4 DEF PickTeam, PickUser, PickTime
  <2> QED  BY <1>8, <2>1, <2>2, <2>3, <2>6, <2>7 DEF Typing
<1>9. Elsewhere
  BY <1>3, <1>4, <1>7, <1>8 DEF Next
<1>10. ASSUME NEW o \in Requests, NEW pc \in {"settled", "warned"}, Settled(o, pc) PROVE FALSE
  <2>1. Settled(o, pc) => o = q
    BY <1>1 DEF Settled
  <2>2. requests'[q] = [Unsent EXCEPT !.pc = pc]
    BY <1>1, <1>10, <2>1 DEF Settled
  <2> QED  BY <2>2 DEF Unsent
<1>11. ASSUME NEW o \in Requests, Succeed(o) \/ Fail(o) \/ WarningEnds(o) PROVE FALSE
  <2>1. Settled(o, "settled") \/ Settled(o, "warned")
    BY <1>11 DEF Succeed, Fail, WarningEnds
  <2> QED  BY <1>10, <2>1
<1>12. PICK o \in Requests : Accept(o)
  BY <1>1, <1>9, <1>11 DEF Elsewhere, OthersWrite, OthersSetRights, RefreshGrid, RefreshRights
<1>13. o = q
  BY <1>1, <1>12 DEF Accept
<1> QED  BY <1>12, <1>13

\* An update that the server takes from a dialog leaves the team and the user
\* of the row as others have set them meanwhile, unless the dialog changed them.
THEOREM PeopleAreLeftAlone == Spec => SavesOnlyChangedPeople
<1> DEFINE Left(q) ==
      requests[q].op = "update" /\ requests[q].pc = "sent" /\ requests'[q].pc = "accepted" =>
          /\ requests[q].form.team = requests[q].base.team =>
                shifts'[requests[q].id].team = shifts[requests[q].id].team
          /\ requests[q].form.user = requests[q].base.user =>
                shifts'[requests[q].id].user = shifts[requests[q].id].user
<1>1. Shape /\ [Next]_vars => [\A q \in Requests : Left(q)]_vars
  <2> SUFFICES ASSUME Shape, Next, NEW q \in Requests, requests[q].op = "update", requests[q].pc = "sent",
                      requests'[q].pc = "accepted"
               PROVE  Left(q)
    OBVIOUS
  <2> DEFINE r == requests[q]
  <2>1. Accept(q)
    BY TakenByAccept
  <2>2. r.body \in Bodies /\ OnlyChanges(r.form, r.base, r.body) /\ ServerOK
    BY DEF Shape, AsksOK, AskOK
  <2>3. shifts' = [shifts EXCEPT ![r.id] = Merged(r.body, shifts[r.id])]
    BY <2>1 DEF Accept, Outcome
  <2>4. CASE r.id \notin DOMAIN shifts
    <3>1. shifts' = shifts
      BY <2>2, <2>3, <2>4 DEF ServerOK
    <3> QED  BY <3>1
  <2>5. CASE r.id \in DOMAIN shifts
    <3>1. shifts'[r.id] = Merged(r.body, shifts[r.id])
      BY <2>2, <2>3, <2>5 DEF ServerOK
    <3>2. /\ r.body.team = Null => shifts'[r.id].team = shifts[r.id].team
          /\ r.body.user = Null => shifts'[r.id].user = shifts[r.id].user
      BY <3>1 DEF Merged, Body
    <3> QED  BY <2>2, <3>2 DEF OnlyChanges
  <2> QED  BY <2>4, <2>5
<1> QED  BY <1>1, ShapeHolds, PTL DEF Spec, SavesOnlyChangedPeople


-----------------------------------------------------------------------------
(* Columns go up, and blocks are counted in columns.                       *)

Rising(slots) == slots \in Seq(Int) /\ \A i, j \in DOMAIN slots : i < j => slots[i] < slots[j]

\* Columns follow each other at the distance of a slot at least.
Spaced(slots, gran) == \A i, j \in DOMAIN slots : i < j => slots[i] + gran <= slots[j]

LEMMA AscendingRises ==
    ASSUME NEW S \in SUBSET Int, IsFiniteSet(S)
    PROVE  Rising(Ascending(S)) /\ \A k \in DOMAIN Ascending(S) : Ascending(S)[k] \in S
<1> DEFINE R == {p \in S \X S : p[1] < p[2]}
<1> DEFINE s == Ascending(S)
<1>1. \A x, y \in S : <<x, y>> \in R <=> x < y
  OBVIOUS
<1>2. \A x \in S : x \in Int
  OBVIOUS
<1>3. StrictOrder(S, R)
  BY <1>1, <1>2 DEF StrictOrder
<1>4. s = InOrder(S, R)
  BY DEF Ascending
<1> HIDE DEF R
<1>5. /\ s \in [1 .. Cardinality(S) -> S] /\ DOMAIN s = 1 .. Cardinality(S) /\ Cardinality(S) \in Nat
      /\ \A k \in 1 .. Cardinality(S) : s[k] \in S
      /\ \A j, k \in 1 .. Cardinality(S) : s[j] = s[k] => j = k
  BY AscendingSequence
<1>6. \A k \in 1 .. Cardinality(S) : Cardinality(Below(S, R, s[k])) = k - 1
  BY <1>3, <1>4, EachHasItsPlace
<1> HIDE DEF s
<1>7. ASSUME NEW j \in 1 .. Cardinality(S), NEW k \in 1 .. Cardinality(S), j < k
      PROVE  s[j] < s[k]
  <2>1. j \in Int /\ k \in Int /\ j # k /\ ~ (k - 1 < j - 1)
    BY <1>5, <1>7
  <2>2. s[j] \in S /\ s[k] \in S /\ s[j] # s[k]
    BY <1>5, <2>1
  <2>3. <<s[k], s[j]>> \notin R
    BY <1>3, <1>6, <2>1, <2>2, MoreBelow
  <2>4. ~ (s[k] < s[j])
    BY <1>1, <2>2, <2>3
  <2>5. s[j] \in Int /\ s[k] \in Int
    BY <1>2, <2>2
  <2> QED  BY <2>2, <2>4, <2>5
<1>8. s \in Seq(Int)
  <2>1. s \in [1 .. Cardinality(S) -> Int]
    BY <1>2, <1>5
  <2> QED  BY <1>5, <2>1
<1>9. \A j, k \in DOMAIN s : j < k => s[j] < s[k]
  BY <1>5, <1>7
<1> QED  BY <1>5, <1>8, <1>9 DEF Rising, s

\* The columns of any range lie at multiples of the granularity from its start.
LEMMA ColumnsRise ==
    ASSUME NEW day \in Int \cup {Null}
    PROVE  Rising(Columns(Event, day, Hidden)) /\ Spaced(Columns(Event, day, Hidden), Event.gran)
<1> DEFINE r == EffectiveRange(Event, day)
<1>1. r.start \in Int /\ r.end \in Int
  BY RangeTypes
<1> HIDE DEF r
<1> DEFINE S == {t \in r.start .. r.end - 1 : (t - r.start) % Event.gran = 0 /\ ~IsHidden(t, Hidden)}
<1>2. S \in SUBSET Int /\ IsFiniteSet(S)
  <2>1. IsFiniteSet(r.start .. r.end - 1)
    BY <1>1, FS_Interval
  <2>2. S \in SUBSET (r.start .. r.end - 1)
    OBVIOUS
  <2>3. S \subseteq Int
    BY <1>1
  <2> HIDE DEF S
  <2> QED  BY <2>1, <2>2, <2>3, FS_Subset
<1>3. Columns(Event, day, Hidden) = Ascending(S)
  BY DEF Columns, GenerateTimeSlots, r
<1>4. \A t \in S : t \in Int /\ (t - r.start) % Event.gran = 0
  BY <1>1
<1> HIDE DEF S
<1>5. Rising(Ascending(S)) /\ \A k \in DOMAIN Ascending(S) : Ascending(S)[k] \in S
  BY <1>2, AscendingRises
<1>6. ASSUME NEW i \in DOMAIN Ascending(S), NEW j \in DOMAIN Ascending(S), i < j
      PROVE  Ascending(S)[i] + Event.gran <= Ascending(S)[j]
  <2> DEFINE a == Ascending(S)[i]
  <2> DEFINE b == Ascending(S)[j]
  <2>1. a < b
    BY <1>5, <1>6 DEF Rising
  <2>2. /\ a \in Int /\ (a - r.start) % Event.gran = 0
        /\ b \in Int /\ (b - r.start) % Event.gran = 0
    BY <1>4, <1>5
  <2> HIDE DEF a, b
  <2>3. \A g \in {1, 2, 4} : (a - r.start) % g = 0 /\ (b - r.start) % g = 0 => a + g <= b
    BY <1>1, <2>1, <2>2
  <2>4. a + Event.gran <= b
    BY <2>2, <2>3, Numbers
  <2> QED  BY <2>4 DEF a, b
<1>7. Spaced(Ascending(S), Event.gran)
  BY <1>6 DEF Spaced
<1> QED  BY <1>3, <1>5, <1>7

LEMMA SlotLength ==
    ASSUME NEW slots, Rising(slots)
    PROVE  SlotDuration(slots) \in Int /\ SlotDuration(slots) > 0
<1>1. CASE Len(slots) > 1
  <2>1. 1 \in DOMAIN slots /\ 2 \in DOMAIN slots /\ slots[1] \in Int /\ slots[2] \in Int
    BY <1>1 DEF Rising
  <2>2. slots[1] < slots[2]
    BY <2>1 DEF Rising
  <2> QED  BY <1>1, <2>1, <2>2 DEF SlotDuration
<1>2. CASE ~ (Len(slots) > 1)
  BY <1>2 DEF SlotDuration, TicksPerHour
<1> QED  BY <1>1, <1>2

LEMMA Least ==
    ASSUME NEW S, S \subseteq Nat, S # {}
    PROVE  Min(S) \in S /\ \A y \in S : Min(S) <= y
<1> DEFINE R == OpToRel(<, Nat)
<1>1. IsWellFoundedOn(R, Nat)
  BY NatLessThanWellFounded
<1>2. R = {ss \in Nat \X Nat : ss[1] < ss[2]}
  BY DEF OpToRel
<1> HIDE DEF R
<1>3. PICK x \in S : \A y \in S : ~ (<<y, x>> \in R)
  BY <1>1, WFMin
<1>4. \A y \in S : <<y, x>> \in Nat \X Nat /\ <<y, x>>[1] = y /\ <<y, x>>[2] = x
  OBVIOUS
<1>5. \A y \in S : ~ (y < x)
  BY <1>2, <1>3, <1>4
<1>6. \E m \in S : \A y \in S : m <= y
  BY <1>5
<1> QED  BY <1>6 DEF Min

LEMMA Greatest ==
    ASSUME NEW n \in Nat, NEW S, S \subseteq 1 .. n, S # {}
    PROVE  Max(S) \in S /\ \A y \in S : y <= Max(S)
<1> DEFINE Bounds == {b \in Nat : \A y \in S : y <= b}
<1>1. Bounds \subseteq Nat /\ n \in Bounds
  OBVIOUS
<1>2. \A b \in Bounds : \A y \in S : y <= b
  OBVIOUS
<1>3. \A b \in Nat : (\A y \in S : y <= b) => b \in Bounds
  OBVIOUS
<1> HIDE DEF Bounds
<1> DEFINE m == Min(Bounds)
<1>4. m \in Bounds /\ \A b \in Bounds : m <= b
  BY <1>1, Least
<1> HIDE DEF m
<1>5. m \in Nat
  BY <1>1, <1>4
<1>6. m \in S
  <2>1. SUFFICES ASSUME m \notin S PROVE FALSE
    OBVIOUS
  <2>2. \A y \in S : y \in Nat /\ y <= m - 1
    BY <1>2, <1>4, <1>5, <2>1
  <2>3. m - 1 \in Nat
    <3>1. PICK y \in S : TRUE
      OBVIOUS
    <3>2. y \in Nat /\ y <= m - 1
      BY <2>2
    <3> QED  BY <1>5, <3>2
  <2>4. m - 1 \in Bounds
    BY <1>3, <2>2, <2>3
  <2> QED  BY <1>4, <1>5, <2>4
<1>7. \E x \in S : \A y \in S : x >= y
  BY <1>2, <1>4, <1>6
<1> QED  BY <1>7 DEF Max

\* The first column that ends after x starts, and the last that begins before
\* x ends: the others that do are after the one and before the other.
FirstColumns(x, slots) == {i \in DOMAIN slots : x.start < slots[i] + SlotDuration(slots)}
LastColumns(x, slots) == {i \in DOMAIN slots : x.end > slots[i]}

LEMMA FirstColumn ==
    ASSUME NEW slots, Rising(slots), NEW x, x.start \in Int, FirstColumns(x, slots) # {}
    PROVE  /\ Min(FirstColumns(x, slots)) \in FirstColumns(x, slots)
           /\ \A i \in DOMAIN slots : i \in FirstColumns(x, slots) <=> Min(FirstColumns(x, slots)) <= i
<1> DEFINE S == FirstColumns(x, slots)
<1> DEFINE d == SlotDuration(slots)
<1>1. d \in Int
  BY SlotLength
<1>2. DOMAIN slots \subseteq Nat /\ \A i \in DOMAIN slots : slots[i] \in Int
  BY DEF Rising
<1>3. \A i \in DOMAIN slots : i \in S <=> x.start < slots[i] + d
  BY DEF FirstColumns
<1>4. S \subseteq DOMAIN slots
  BY DEF FirstColumns
<1> HIDE DEF S, d
<1>5. Min(S) \in S /\ \A y \in S : Min(S) <= y
  BY <1>2, <1>4, Least DEF S
<1>6. ASSUME NEW i \in DOMAIN slots, Min(S) <= i PROVE i \in S
  <2>1. Min(S) \in DOMAIN slots /\ Min(S) \in Nat /\ i \in Nat /\ x.start < slots[Min(S)] + d
    BY <1>2, <1>3, <1>4, <1>5
  <2>2. slots[Min(S)] <= slots[i]
    <3>1. CASE Min(S) = i
      BY <3>1, <1>2
    <3>2. CASE Min(S) < i
      <4>1. slots[Min(S)] < slots[i]
        BY <3>2, <2>1 DEF Rising
      <4> QED  BY <4>1, <1>2, <2>1
    <3> QED  BY <3>1, <3>2, <1>6, <2>1
  <2>3. x.start < slots[i] + d
    BY <1>1, <1>2, <2>1, <2>2
  <2> QED  BY <1>3, <2>3
<1> QED  BY <1>5, <1>6 DEF S

LEMMA LastColumn ==
    ASSUME NEW slots, Rising(slots), NEW x, x.end \in Int, LastColumns(x, slots) # {}
    PROVE  /\ Max(LastColumns(x, slots)) \in LastColumns(x, slots)
           /\ \A i \in DOMAIN slots : i \in LastColumns(x, slots) <=> i <= Max(LastColumns(x, slots))
<1> DEFINE S == LastColumns(x, slots)
<1>1. Len(slots) \in Nat /\ DOMAIN slots = 1 .. Len(slots)
  BY DEF Rising
<1>2. \A i \in DOMAIN slots : i \in Nat /\ slots[i] \in Int
  BY DEF Rising
<1>3. \A i \in DOMAIN slots : i \in S <=> x.end > slots[i]
  BY DEF LastColumns
<1>4. S \subseteq 1 .. Len(slots)
  BY <1>1 DEF LastColumns
<1>5. S # {}
  OBVIOUS
<1> HIDE DEF S
<1>6. Max(S) \in S /\ \A y \in S : y <= Max(S)
  BY <1>1, <1>4, <1>5, Greatest
<1>7. ASSUME NEW i \in DOMAIN slots, i <= Max(S) PROVE i \in S
  <2>1. Max(S) \in DOMAIN slots /\ Max(S) \in Nat /\ i \in Nat /\ x.end > slots[Max(S)]
    BY <1>1, <1>2, <1>3, <1>4, <1>6
  <2>2. slots[i] <= slots[Max(S)]
    <3>1. CASE Max(S) = i
      BY <3>1, <1>2
    <3>2. CASE i < Max(S)
      <4>1. slots[i] < slots[Max(S)]
        BY <3>2, <2>1 DEF Rising
      <4> QED  BY <4>1, <1>2, <2>1
    <3> QED  BY <3>1, <3>2, <1>7, <2>1
  <2>3. x.end > slots[i]
    BY <1>2, <2>1, <2>2
  <2> QED  BY <1>3, <2>3
<1> QED  BY <1>6, <1>7 DEF S

LEMMA ScreenColumns ==
    ASSUME Shape
    PROVE  Rising(GridSlots) /\ Spaced(GridSlots, Event.gran)
BY ColumnsDrawn, InUse, ColumnsRise

LEMMA Multiples ==
    ASSUME NEW a \in Int, NEW b \in Int, NEW d \in Int, d > 0, a <= b
    PROVE  a * d \in Int /\ b * d \in Int /\ a * d <= b * d /\ (a - 1) * d = a * d - d
<1>1. b - a \in Nat /\ d \in Nat
  OBVIOUS
<1>2. (b - a) * d >= 0
  BY <1>1
<1>3. (b - a) * d = b * d - a * d
  OBVIOUS
<1> QED  BY <1>2, <1>3

\* Where a block begins and ends, within its first and its last column.
LEMMA BlockEnds ==
    ASSUME NEW slots, Rising(slots), NEW x, x.start \in Int, x.end \in Int
    PROVE  LET d == SlotDuration(slots)
               l == Min(FirstColumns(x, slots))
               r == Max(LastColumns(x, slots))
               from == Max({0, x.start - slots[l]})
               to == Min({d, x.end - slots[r]})
               block == Placed(x, slots)
           IN  /\ FirstColumns(x, slots) = {} <=> block = Null
               /\ block # Null => /\ block.left = (l - 1) * d + from /\ from \in Int
                                  /\ 0 <= from /\ from < d /\ x.start - slots[l] <= from
                                  /\ from = 0 \/ from = x.start - slots[l]
               /\ block # Null /\ LastColumns(x, slots) # {} =>
                      /\ block.right = (r - 1) * d + to /\ to \in Int
                      /\ 0 < to /\ to <= d /\ to <= x.end - slots[r]
                      /\ to = d \/ to = x.end - slots[r]
               /\ block # Null /\ LastColumns(x, slots) = {} => block.right = 0
<1> DEFINE d == SlotDuration(slots)
<1> DEFINE F == FirstColumns(x, slots)
<1> DEFINE L == LastColumns(x, slots)
<1> DEFINE l == Min(F)
<1> DEFINE r == Max(L)
<1> DEFINE from == Max({0, x.start - slots[l]})
<1> DEFINE to == Min({d, x.end - slots[r]})
<1> DEFINE block == Placed(x, slots)
<1>1. d \in Int /\ d > 0
  BY SlotLength
<1>2. block = IF F = {} THEN Null
              ELSE [left |-> (l - 1) * d + from, right |-> IF L = {} THEN 0 ELSE (r - 1) * d + to]
  BY DEF Placed, FirstColumns, LastColumns
<1>3. ASSUME F # {} PROVE l \in Int /\ slots[l] \in Int /\ x.start < slots[l] + d
  <2>1. l \in DOMAIN slots /\ x.start < slots[l] + d
    BY <1>3, FirstColumn DEF FirstColumns
  <2> QED  BY <2>1 DEF Rising
<1>4. ASSUME L # {} PROVE r \in Int /\ slots[r] \in Int /\ x.end > slots[r]
  <2>1. r \in DOMAIN slots /\ x.end > slots[r]
    BY <1>4, LastColumn DEF LastColumns
  <2> QED  BY <2>1 DEF Rising
<1>5. ASSUME F # {}
      PROVE  /\ from \in Int /\ 0 <= from /\ from < d /\ x.start - slots[l] <= from
             /\ from = 0 \/ from = x.start - slots[l]
  <2> DEFINE z == x.start - slots[l]
  <2>1. z \in Int /\ z < d
    BY <1>1, <1>3, <1>5
  <2> HIDE DEF z
  <2>2. Max({0, z}) \in {0, z} /\ 0 <= Max({0, z}) /\ z <= Max({0, z})
    BY <2>1, GreatestOfTwo
  <2>3. /\ Max({0, z}) \in Int /\ 0 <= Max({0, z}) /\ Max({0, z}) < d /\ z <= Max({0, z})
        /\ Max({0, z}) = 0 \/ Max({0, z}) = z
    BY <1>1, <2>1, <2>2
  <2> QED  BY <2>3 DEF z
<1>6. ASSUME L # {}
      PROVE  /\ to \in Int /\ 0 < to /\ to <= d /\ to <= x.end - slots[r]
             /\ to = d \/ to = x.end - slots[r]
  <2> DEFINE z == x.end - slots[r]
  <2>1. z \in Int /\ 0 < z
    BY <1>4, <1>6
  <2> HIDE DEF z
  <2>2. Min({d, z}) \in {d, z} /\ Min({d, z}) <= d /\ Min({d, z}) <= z
    BY <1>1, <2>1, LeastOfTwo
  <2>3. /\ Min({d, z}) \in Int /\ 0 < Min({d, z}) /\ Min({d, z}) <= d /\ Min({d, z}) <= z
        /\ Min({d, z}) = d \/ Min({d, z}) = z
    BY <1>1, <2>1, <2>2
  <2> QED  BY <2>3 DEF z
<1>7. Null \notin [left : Int, right : Int]
  BY EventPageAssumption
<1> HIDE DEF d, F, L, l, r, from, to, block
<1>8. F # {} => block # Null
  <2>1. SUFFICES ASSUME F # {} PROVE block # Null
    OBVIOUS
  <2>2. (l - 1) * d + from \in Int
    BY <1>1, <1>3, <1>5, <2>1
  <2>3. (IF L = {} THEN 0 ELSE (r - 1) * d + to) \in Int
    BY <1>1, <1>4, <1>6
  <2>4. block \in [left : Int, right : Int]
    BY <1>2, <2>1, <2>2, <2>3
  <2> QED  BY <1>7, <2>4
<1>9. F = {} => block = Null
  BY <1>2
<1>10. block # Null => block.left = (l - 1) * d + from
  BY <1>2, <1>9
<1>11. block # Null /\ L # {} => block.right = (r - 1) * d + to
  BY <1>2, <1>9
<1>12. block # Null /\ L = {} => block.right = 0
  BY <1>2, <1>9
<1>13. block # Null => F # {}
  BY <1>9
<1>14. /\ F = {} <=> block = Null
       /\ block # Null => /\ block.left = (l - 1) * d + from /\ from \in Int
                          /\ 0 <= from /\ from < d /\ x.start - slots[l] <= from
                          /\ from = 0 \/ from = x.start - slots[l]
       /\ block # Null /\ L # {} =>
              /\ block.right = (r - 1) * d + to /\ to \in Int
              /\ 0 < to /\ to <= d /\ to <= x.end - slots[r]
              /\ to = d \/ to = x.end - slots[r]
       /\ block # Null /\ L = {} => block.right = 0
  <2>1. F = {} <=> block = Null
    BY <1>8, <1>9
  <2>2. block # Null => /\ block.left = (l - 1) * d + from /\ from \in Int
                        /\ 0 <= from /\ from < d /\ x.start - slots[l] <= from
                        /\ from = 0 \/ from = x.start - slots[l]
    BY <1>5, <1>10, <1>13
  <2>3. block # Null /\ L # {} =>
              /\ block.right = (r - 1) * d + to /\ to \in Int
              /\ 0 < to /\ to <= d /\ to <= x.end - slots[r]
              /\ to = d \/ to = x.end - slots[r]
    BY <1>6, <1>11
  <2> QED  BY <2>1, <2>2, <2>3, <1>12
<1> QED  BY <1>14 DEF d, F, L, l, r, from, to, block

Touches(block, i, d) == block # Null /\ block.left < i * d /\ block.right > (i - 1) * d

\* A block stands over the columns that its shift falls into.
LEMMA FallsWhereDrawn ==
    ASSUME NEW slots, Rising(slots), NEW x, x.start \in Int, x.end \in Int, NEW i \in DOMAIN slots
    PROVE  Falls(x, slots[i], SlotDuration(slots)) <=> Touches(Placed(x, slots), i, SlotDuration(slots))
<1> DEFINE d == SlotDuration(slots)
<1> DEFINE F == FirstColumns(x, slots)
<1> DEFINE L == LastColumns(x, slots)
<1> DEFINE l == Min(F)
<1> DEFINE r == Max(L)
<1> DEFINE block == Placed(x, slots)
<1>1. d \in Int /\ d > 0 /\ i \in Int /\ i >= 1
  BY SlotLength DEF Rising
<1>2. Falls(x, slots[i], d) <=> i \in F /\ i \in L
  BY DEF Falls, FirstColumns, LastColumns
<1>3. F # {} => l \in Int /\ (i \in F <=> l <= i)
  <2>1. SUFFICES ASSUME F # {} PROVE l \in Int /\ (i \in F <=> l <= i)
    OBVIOUS
  <2>2. l \in DOMAIN slots /\ (i \in F <=> l <= i)
    BY <2>1, FirstColumn DEF FirstColumns
  <2> QED  BY <2>2 DEF Rising
<1>4. L # {} => r \in Int /\ (i \in L <=> i <= r)
  <2>1. SUFFICES ASSUME L # {} PROVE r \in Int /\ (i \in L <=> i <= r)
    OBVIOUS
  <2>2. r \in DOMAIN slots /\ (i \in L <=> i <= r)
    BY <2>1, LastColumn DEF LastColumns
  <2> QED  BY <2>2 DEF Rising
<1>5. F = {} <=> block = Null
  BY BlockEnds
<1>6. block # Null => \E from \in Int : block.left = (l - 1) * d + from /\ 0 <= from /\ from < d
  BY BlockEnds
<1>7. block # Null /\ L # {} => \E to \in Int : block.right = (r - 1) * d + to /\ 0 < to /\ to <= d
  BY BlockEnds
<1>8. block # Null /\ L = {} => block.right = 0
  BY BlockEnds
<1> HIDE DEF d, F, L, l, r, block
<1>9. ASSUME block # Null PROVE block.left < i * d <=> i \in F
  <2>1. l \in Int /\ (i \in F <=> l <= i)
    BY <1>3, <1>5, <1>9
  <2>2. PICK from \in Int : block.left = (l - 1) * d + from /\ 0 <= from /\ from < d
    BY <1>6, <1>9
  <2>3. CASE l <= i
    <3>1. l * d \in Int /\ i * d \in Int /\ l * d <= i * d /\ (l - 1) * d = l * d - d
      BY <1>1, <2>1, <2>3, Multiples
    <3> QED  BY <1>1, <2>1, <2>2, <2>3, <3>1
  <2>4. CASE ~ (l <= i)
    <3>1. i <= l - 1 /\ l - 1 \in Int
      BY <1>1, <2>1, <2>4
    <3>2. i * d \in Int /\ (l - 1) * d \in Int /\ i * d <= (l - 1) * d
      BY <1>1, <3>1, Multiples
    <3> QED  BY <2>1, <2>2, <2>4, <3>2
  <2> QED  BY <2>3, <2>4
<1>10. ASSUME block # Null, L # {} PROVE block.right > (i - 1) * d <=> i \in L
  <2>1. r \in Int /\ (i \in L <=> i <= r)
    BY <1>4, <1>10
  <2>2. PICK to \in Int : block.right = (r - 1) * d + to /\ 0 < to /\ to <= d
    BY <1>7, <1>10
  <2>3. CASE i <= r
    <3>1. i - 1 \in Int /\ r - 1 \in Int /\ i - 1 <= r - 1
      BY <1>1, <2>1, <2>3
    <3>2. (i - 1) * d \in Int /\ (r - 1) * d \in Int /\ (i - 1) * d <= (r - 1) * d
      BY <1>1, <3>1, Multiples
    <3> QED  BY <2>1, <2>2, <2>3, <3>2
  <2>4. CASE ~ (i <= r)
    <3>1. r <= i - 1 /\ i - 1 \in Int
      BY <1>1, <2>1, <2>4
    <3>2. r * d \in Int /\ (i - 1) * d \in Int /\ r * d <= (i - 1) * d /\ (r - 1) * d = r * d - d
      BY <1>1, <2>1, <3>1, Multiples
    <3> QED  BY <1>1, <2>1, <2>2, <2>4, <3>2
  <2> QED  BY <2>3, <2>4
<1>11. ASSUME block # Null, L = {} PROVE ~ (block.right > (i - 1) * d) /\ i \notin L
  <2>1. i - 1 \in Int /\ 0 <= i - 1
    BY <1>1
  <2>2. 0 * d <= (i - 1) * d /\ (i - 1) * d \in Int
    BY <1>1, <2>1, Multiples
  <2>3. 0 * d = 0
    BY <1>1
  <2> QED  BY <1>8, <1>11, <2>2, <2>3
<1>12. block = Null => i \notin F
  BY <1>5
<1>13. block # Null => (block.left < i * d <=> i \in F)
  BY <1>9
<1>14. block # Null => (block.right > (i - 1) * d <=> i \in L)
  BY <1>10, <1>11
<1>15. Falls(x, slots[i], d) <=> Touches(block, i, d)
  BY <1>2, <1>12, <1>13, <1>14, Zenon DEF Touches
<1> QED  BY <1>15 DEF d, block

\* The number under a column is that of the team's blocks over it, and where
\* somebody is missed there is a requirement for more.
THEOREM BarsAndBlocksAgree == Spec => []BarsAgreeWithBlocks
<1>1. Shape => BarsAgreeWithBlocks
  <2> SUFFICES ASSUME Shape, NEW team \in BarTeams(Shown), NEW i \in DOMAIN GridSlots
               PROVE  LET blocks == Cardinality({k \in DOMAIN AllShifts :
                              AllShifts[k].team = team /\ Covers(Placed(AllShifts[k], GridSlots), i)})
                          cell == BarCell(team, i)
                      IN  /\ cell.count = blocks
                          /\ CoverageStatus(cell) = "understaffed" =>
                                \E c \in Range(Coverage) : c.team = team /\ c.required > blocks
    BY DEF BarsAgreeWithBlocks
  <2> DEFINE d == SlotDuration(GridSlots)
  <2> DEFINE staff == {k \in DOMAIN AllShifts : AllShifts[k].team = team /\ Falls(AllShifts[k], GridSlots[i], d)}
  <2> DEFINE drawn == {k \in DOMAIN AllShifts :
                              AllShifts[k].team = team /\ Covers(Placed(AllShifts[k], GridSlots), i)}
  <2> DEFINE needs == {k \in DOMAIN Coverage : Coverage[k].team = team /\ Falls(Coverage[k], GridSlots[i], d)}
  <2> DEFINE cell == BarCell(team, i)
  <2>1. AllShifts \in Seq(CachedShift)
    BY ScreenTypes
  <2>2. Rising(GridSlots)
    BY ScreenColumns
  <2>3. \A k \in DOMAIN AllShifts : AllShifts[k].start \in Int /\ AllShifts[k].end \in Int
    <3>1. \A k \in DOMAIN AllShifts : AllShifts[k] \in CachedShift
      BY <2>1
    <3> QED  BY <3>1 DEF CachedShift
  <2>4. \A k \in DOMAIN AllShifts :
            Falls(AllShifts[k], GridSlots[i], d) <=> Touches(Placed(AllShifts[k], GridSlots), i, d)
    BY <2>2, <2>3, FallsWhereDrawn
  <2>5. \A k \in DOMAIN AllShifts :
            Falls(AllShifts[k], GridSlots[i], d) <=> Covers(Placed(AllShifts[k], GridSlots), i)
    BY <2>4 DEF Touches, Covers
  <2>6. staff = drawn
    BY <2>5
  <2>7. cell = [count |-> Cardinality(staff), required |-> IF needs = {} THEN Null ELSE Coverage[Min(needs)].required]
    BY DEF BarCell, CoverageCell
  <2>8. DOMAIN Coverage \subseteq Nat
    <3>1. Coverage \in Seq([team : Teams, start : Nat, end : Nat, required : Nat])
      BY EventPageAssumption
    <3>2. DOMAIN Coverage = 1 .. Len(Coverage) /\ Len(Coverage) \in Nat
      BY <3>1
    <3> QED  BY <3>2
  <2>9. needs \subseteq DOMAIN Coverage /\ \A k \in needs : Coverage[k].team = team
    OBVIOUS
  <2>10. CoverageStatus(cell) = "understaffed" => cell.required # Null /\ cell.count < cell.required
    BY DEF CoverageStatus
  <2> HIDE DEF staff, drawn, needs, cell, d
  <2>11. cell.count = Cardinality(drawn)
    BY <2>6, <2>7
  <2>12. ASSUME CoverageStatus(cell) = "understaffed"
         PROVE  \E c \in Range(Coverage) : c.team = team /\ c.required > Cardinality(drawn)
    <3>1. cell.required # Null /\ cell.count < cell.required
      BY <2>10, <2>12
    <3>2. needs # {} /\ cell.required = Coverage[Min(needs)].required
      BY <2>7, <3>1
    <3>3. Min(needs) \in needs
      BY <2>8, <2>9, <3>2, Least
    <3>4. Coverage[Min(needs)] \in Range(Coverage) /\ Coverage[Min(needs)].team = team
      BY <2>9, <3>3 DEF Range
    <3>5. Coverage[Min(needs)].required > Cardinality(drawn)
      BY <2>11, <3>1, <3>2
    <3> QED  BY <3>4, <3>5
  <2>13. cell.count = Cardinality(drawn)
         /\ (CoverageStatus(cell) = "understaffed" =>
                \E c \in Range(Coverage) : c.team = team /\ c.required > Cardinality(drawn))
    BY <2>11, <2>12
  <2> QED  BY <2>13 DEF drawn, cell
<1> QED  BY <1>1, ShapeHolds, PTL

-----------------------------------------------------------------------------
(* Widths.  The ticks of a shift that are shown go one by one to the ticks *)
(* of its block: each to its place in its column.                          *)

\* What is in one column lies before what is in a later one.
LEMMA Cells ==
    ASSUME NEW d \in {1, 2, 4}, NEW a \in Int, NEW b \in Int, a < b,
           NEW y \in Int, y <= d, NEW z \in Int, z >= 0
    PROVE  /\ (a - 1) * d + y \in Int /\ (b - 1) * d + z \in Int
           /\ (a - 1) * d + y <= (b - 1) * d + z
           /\ y < d \/ z > 0 => (a - 1) * d + y < (b - 1) * d + z
<1>1. (a - 1) * d \in Int /\ (b - 1) * d \in Int
  OBVIOUS
<1>2. (a - 1) * d + d <= (b - 1) * d
  <2>1. CASE d = 1
    BY <2>1
  <2>2. CASE d = 2
    BY <2>2
  <2>3. CASE d = 4
    BY <2>3
  <2> QED  BY <2>1, <2>2, <2>3
<1>3. \A v, w \in Int : v + d <= w => /\ v + y <= w + z
                                      /\ y < d \/ z > 0 => v + y < w + z
  OBVIOUS
<1>4. /\ (a - 1) * d + y <= (b - 1) * d + z
      /\ y < d \/ z > 0 => (a - 1) * d + y < (b - 1) * d + z
  BY <1>1, <1>2, <1>3
<1> QED  BY <1>1, <1>4

LEMMA Places ==
    ASSUME NEW d \in {1, 2, 4}, NEW p \in Int
    PROVE  \E i, y \in Int : p = (i - 1) * d + y /\ 0 <= y /\ y < d
<1>1. CASE d = 1
  <2>1. p + 1 \in Int /\ p = ((p + 1) - 1) * d + 0
    BY <1>1
  <2> QED  BY <2>1, <1>1
<1>2. CASE d = 2
  <2> DEFINE q == p \div 2
  <2>1. q \in Int /\ p - q * 2 \in Int /\ 0 <= p - q * 2 /\ p - q * 2 < 2
    OBVIOUS
  <2> HIDE DEF q
  <2>2. q + 1 \in Int /\ p = ((q + 1) - 1) * 2 + (p - q * 2)
    BY <2>1
  <2> QED  BY <2>1, <2>2, <1>2
<1>3. CASE d = 4
  <2> DEFINE q == p \div 4
  <2>1. q \in Int /\ p - q * 4 \in Int /\ 0 <= p - q * 4 /\ p - q * 4 < 4
    OBVIOUS
  <2> HIDE DEF q
  <2>2. q + 1 \in Int /\ p = ((q + 1) - 1) * 4 + (p - q * 4)
    BY <2>1
  <2> QED  BY <2>1, <2>2, <1>3
<1> QED  BY <1>1, <1>2, <1>3

VisibleTime(x, slots, gran) ==
    {t \in x.start .. x.end - 1 : \E slot \in Range(slots) : slot <= t /\ t < slot + gran}

InColumn(slots, d, i, t) == slots[i] <= t /\ t < slots[i] + d

LEMMA VisibleColumns ==
    ASSUME NEW slots, Rising(slots), NEW d \in {1, 2, 4}, SlotDuration(slots) = d, Spaced(slots, d),
           NEW x, x.start \in Int, x.end \in Int, x.start < x.end
    PROVE  /\ IsFiniteSet(VisibleTime(x, slots, d))
           /\ \A t \in VisibleTime(x, slots, d) :
                 /\ t \in Int /\ x.start <= t /\ t < x.end
                 /\ \E i \in FirstColumns(x, slots) \cap LastColumns(x, slots) : InColumn(slots, d, i, t)
           /\ \A t \in Int : x.start <= t /\ t < x.end /\ (\E i \in DOMAIN slots : InColumn(slots, d, i, t))
                 => t \in VisibleTime(x, slots, d)
           /\ \A t \in Int : \A i, j \in DOMAIN slots :
                 InColumn(slots, d, i, t) /\ InColumn(slots, d, j, t) => i = j
<1> DEFINE V == VisibleTime(x, slots, d)
<1>1. DOMAIN slots \subseteq Int /\ \A i \in DOMAIN slots : slots[i] \in Int
  BY DEF Rising
<1>2. IsFiniteSet(V)
  <2>1. IsFiniteSet(x.start .. x.end - 1)
    BY FS_Interval
  <2>2. V \in SUBSET (x.start .. x.end - 1)
    BY DEF VisibleTime
  <2> QED  BY <2>1, <2>2, FS_Subset
<1>3. ASSUME NEW t \in V
      PROVE  /\ t \in Int /\ x.start <= t /\ t < x.end
             /\ \E i \in FirstColumns(x, slots) \cap LastColumns(x, slots) : InColumn(slots, d, i, t)
  <2>1. t \in Int /\ x.start <= t /\ t < x.end
    BY DEF VisibleTime
  <2>2. \E slot \in Range(slots) : slot <= t /\ t < slot + d
    BY DEF VisibleTime
  <2>3. PICK i \in DOMAIN slots : slots[i] <= t /\ t < slots[i] + d
    BY <2>2 DEF Range
  <2>4. x.start < slots[i] + d /\ x.end > slots[i]
    BY <1>1, <2>1, <2>3
  <2>5. i \in FirstColumns(x, slots) \cap LastColumns(x, slots)
    BY <2>4 DEF FirstColumns, LastColumns
  <2> QED  BY <2>1, <2>3, <2>5 DEF InColumn
<1>4. ASSUME NEW t \in Int, x.start <= t, t < x.end, NEW i \in DOMAIN slots, InColumn(slots, d, i, t)
      PROVE  t \in V
  <2>1. slots[i] \in Range(slots) /\ slots[i] <= t /\ t < slots[i] + d
    BY <1>4 DEF Range, InColumn
  <2>2. t \in x.start .. x.end - 1
    BY <1>4
  <2> QED  BY <2>1, <2>2 DEF VisibleTime
<1>5. ASSUME NEW t \in Int, NEW i \in DOMAIN slots, NEW j \in DOMAIN slots, i < j,
             InColumn(slots, d, i, t), InColumn(slots, d, j, t)
      PROVE  FALSE
  <2>1. slots[i] + d <= slots[j]
    BY <1>5 DEF Spaced
  <2> QED  BY <1>1, <1>5, <2>1 DEF InColumn
<1>6. ASSUME NEW t \in Int, NEW i \in DOMAIN slots, NEW j \in DOMAIN slots,
             InColumn(slots, d, i, t), InColumn(slots, d, j, t)
      PROVE  i = j
  <2>1. ~ (i < j) /\ ~ (j < i)
    BY <1>5, <1>6
  <2> QED  BY <1>1, <2>1
<1> HIDE DEF V
<1> QED  BY <1>2, <1>3, <1>4, <1>6 DEF V

\* A shift that falls between two columns, or before all of them.
LEMMA NothingToSee ==
    ASSUME NEW slots, Rising(slots), NEW d \in {1, 2, 4}, SlotDuration(slots) = d, Spaced(slots, d),
           NEW x, x.start \in Int, x.end \in Int, x.start < x.end, Placed(x, slots) # Null,
           \A i \in DOMAIN slots : ~ (i \in FirstColumns(x, slots) /\ i \in LastColumns(x, slots))
    PROVE  /\ VisibleTime(x, slots, d) = {}
           /\ Placed(x, slots).right = Placed(x, slots).left /\ Placed(x, slots).left \in Int
<1> DEFINE F == FirstColumns(x, slots)
<1> DEFINE L == LastColumns(x, slots)
<1> DEFINE l == Min(F)
<1> DEFINE r == Max(L)
<1> DEFINE block == Placed(x, slots)
<1>1. VisibleTime(x, slots, d) = {}
  <2>1. \A t \in VisibleTime(x, slots, d) : \E i \in F \cap L : TRUE
    BY VisibleColumns
  <2>2. F \subseteq DOMAIN slots
    BY DEF FirstColumns
  <2> QED  BY <2>1, <2>2
<1>2. /\ DOMAIN slots = 1 .. Len(slots) /\ Len(slots) \in Nat
      /\ \A i \in DOMAIN slots : i \in Int /\ slots[i] \in Int
  BY DEF Rising
<1>3. \A i \in DOMAIN slots : (i \in F <=> x.start < slots[i] + d) /\ (i \in L <=> x.end > slots[i])
  BY DEF FirstColumns, LastColumns
<1>4. F # {}
  BY BlockEnds
<1>5. l \in F /\ l \in DOMAIN slots /\ \A i \in DOMAIN slots : i \in F <=> l <= i
  BY <1>4, FirstColumn DEF FirstColumns
<1>6. \E from \in Int : /\ block.left = (l - 1) * d + from /\ 0 <= from
                        /\ from = 0 \/ from = x.start - slots[l]
  BY BlockEnds
<1>7. L # {} => \E to \in Int : /\ block.right = (r - 1) * d + to /\ to <= d
                                /\ to = d \/ to = x.end - slots[r]
  BY BlockEnds
<1>8. L = {} => block.right = 0
  BY BlockEnds
<1>9. L # {} => r \in L /\ r \in DOMAIN slots /\ \A i \in DOMAIN slots : i \in L <=> i <= r
  BY LastColumn DEF LastColumns
<1>15. \A i \in DOMAIN slots : ~ (i \in F /\ i \in L)
  OBVIOUS
<1> HIDE DEF F, L, l, r, block
<1>10. x.end <= slots[l]
  BY <1>2, <1>3, <1>5, <1>15
<1>11. block.left = (l - 1) * d /\ l \in Int /\ block.left \in Int
  <2>1. PICK from \in Int : /\ block.left = (l - 1) * d + from /\ 0 <= from
                            /\ from = 0 \/ from = x.start - slots[l]
    BY <1>6
  <2>2. from = 0
    BY <1>2, <1>5, <1>10, <2>1
  <2>3. (l - 1) * d \in Int
    BY <1>2, <1>5
  <2> QED  BY <1>2, <1>5, <2>1, <2>2, <2>3
<1>12. CASE L = {}
  <2>1. 1 \in DOMAIN slots /\ slots[1] \in Int
    BY <1>2, <1>5
  <2>2. x.end <= slots[1]
    BY <1>3, <1>12, <2>1
  <2>3. 1 \in F
    BY <1>3, <2>1, <2>2
  <2>4. l = 1
    BY <1>2, <1>5, <2>1, <2>3
  <2>5. block.left = 0
    BY <1>11, <2>4
  <2> QED  BY <1>1, <1>8, <1>11, <1>12, <2>5 DEF block
<1>13. CASE L # {}
  <2>1. r \in DOMAIN slots /\ r \in Int /\ r \in L /\ r \notin F /\ slots[r] \in Int
    BY <1>2, <1>9, <1>13, <1>15
  <2>2. r < l
    BY <1>2, <1>5, <2>1
  <2>3. l = r + 1
    <3>1. SUFFICES ASSUME l # r + 1 PROVE FALSE
      OBVIOUS
    <3>2. r + 1 \in DOMAIN slots /\ r + 1 \in Int /\ ~ (l <= r + 1) /\ ~ (r + 1 <= r)
      BY <1>2, <1>5, <2>1, <2>2, <3>1
    <3>3. r + 1 \notin F /\ r + 1 \notin L
      BY <1>5, <1>9, <1>13, <3>2
    <3> QED  BY <1>2, <1>3, <3>2, <3>3
  <2>4. PICK to \in Int : /\ block.right = (r - 1) * d + to /\ to <= d
                          /\ to = d \/ to = x.end - slots[r]
    BY <1>7, <1>13
  <2>5. x.start >= slots[r] + d
    BY <1>3, <2>1
  <2>6. to = d
    BY <2>1, <2>4, <2>5
  <2>7. (r - 1) * d + d = ((r + 1) - 1) * d
    <3>1. CASE d = 1
      BY <2>1, <3>1
    <3>2. CASE d = 2
      BY <2>1, <3>2
    <3>3. CASE d = 4
      BY <2>1, <3>3
    <3> QED  BY <3>1, <3>2, <3>3
  <2>8. block.right = block.left
    BY <1>11, <2>3, <2>4, <2>6, <2>7
  <2> QED  BY <1>1, <1>11, <2>8 DEF block
<1> QED  BY <1>12, <1>13

LEMMA WidthIsVisibleTime ==
    ASSUME NEW slots, Rising(slots), NEW d \in {1, 2, 4}, SlotDuration(slots) = d, Spaced(slots, d),
           NEW x, x.start \in Int, x.end \in Int, x.start < x.end, Placed(x, slots) # Null
    PROVE  Placed(x, slots).right - Placed(x, slots).left = Cardinality(VisibleTime(x, slots, d))
<1> DEFINE F == FirstColumns(x, slots)
<1> DEFINE L == LastColumns(x, slots)
<1> DEFINE l == Min(F)
<1> DEFINE r == Max(L)
<1> DEFINE left == Placed(x, slots).left
<1> DEFINE right == Placed(x, slots).right
<1> DEFINE V == VisibleTime(x, slots, d)
<1>1. CASE \A i \in DOMAIN slots : ~ (i \in F /\ i \in L)
  <2>1. V = {} /\ right = left /\ left \in Int
    BY <1>1, NothingToSee
  <2> QED  BY <2>1, FS_EmptySet
<1>2. CASE \E i \in DOMAIN slots : i \in F /\ i \in L
  <2>1. F # {} /\ L # {}
    BY <1>2
  <2>2. /\ DOMAIN slots = 1 .. Len(slots) /\ Len(slots) \in Nat
        /\ \A i \in DOMAIN slots : i \in Int /\ slots[i] \in Int
    BY DEF Rising
  <2>3. l \in F /\ l \in DOMAIN slots /\ \A i \in DOMAIN slots : i \in F <=> l <= i
    BY <2>1, FirstColumn DEF FirstColumns
  <2>4. r \in L /\ r \in DOMAIN slots /\ \A i \in DOMAIN slots : i \in L <=> i <= r
    BY <2>1, LastColumn DEF LastColumns
  <2>5. /\ l \in Int /\ r \in Int /\ l <= r /\ slots[l] \in Int /\ slots[r] \in Int
        /\ x.start < slots[l] + d /\ x.end > slots[r]
    <3>1. l \in Int /\ r \in Int /\ slots[l] \in Int /\ slots[r] \in Int
      BY <2>2, <2>3, <2>4
    <3>2. l <= r
      <4>1. PICK i \in DOMAIN slots : i \in F /\ i \in L
        BY <1>2
      <4>2. i \in Int /\ l <= i /\ i <= r
        BY <2>2, <2>3, <2>4, <4>1
      <4> QED  BY <3>1, <4>2
    <3>3. x.start < slots[l] + d
      BY <2>3 DEF FirstColumns
    <3>4. x.end > slots[r]
      BY <2>4 DEF LastColumns
    <3> QED  BY <3>1, <3>2, <3>3, <3>4
  <2>6. PICK from \in Int : /\ left = (l - 1) * d + from /\ 0 <= from /\ from < d
                            /\ x.start - slots[l] <= from
                            /\ from = 0 \/ from = x.start - slots[l]
    BY BlockEnds
  <2>7. PICK to \in Int : /\ right = (r - 1) * d + to /\ 0 < to /\ to <= d
                          /\ to <= x.end - slots[r]
                          /\ to = d \/ to = x.end - slots[r]
    BY <2>1, BlockEnds
  <2>8. \A i, j \in DOMAIN slots : i < j => slots[i] + d <= slots[j]
    BY DEF Spaced
  <2>9. /\ IsFiniteSet(V)
        /\ \A t \in V : /\ t \in Int /\ x.start <= t /\ t < x.end
                        /\ \E i \in F \cap L : InColumn(slots, d, i, t)
        /\ \A t \in Int : x.start <= t /\ t < x.end /\ (\E i \in DOMAIN slots : InColumn(slots, d, i, t))
              => t \in V
        /\ \A t \in Int : \A i, j \in DOMAIN slots :
              InColumn(slots, d, i, t) /\ InColumn(slots, d, j, t) => i = j
    BY VisibleColumns
  <2>10. d \in Int /\ d > 0
    OBVIOUS
  <2>11. F \subseteq DOMAIN slots
    BY DEF FirstColumns
  <2> HIDE DEF F, L, l, r, left, right, V
  <2> DEFINE col == [t \in V |-> CHOOSE i \in DOMAIN slots : InColumn(slots, d, i, t)]
  <2>12. ASSUME NEW t \in V
         PROVE  /\ t \in Int /\ x.start <= t /\ t < x.end
                /\ col[t] \in DOMAIN slots /\ col[t] \in Int /\ l <= col[t] /\ col[t] <= r
                /\ slots[col[t]] \in Int /\ InColumn(slots, d, col[t], t)
    <3>1. t \in Int /\ x.start <= t /\ t < x.end /\ \E i \in F \cap L : InColumn(slots, d, i, t)
      BY <2>9
    <3>2. PICK i \in F \cap L : InColumn(slots, d, i, t)
      BY <3>1
    <3>3. i \in DOMAIN slots
      BY <2>11, <3>2
    <3>4. col[t] \in DOMAIN slots /\ InColumn(slots, d, col[t], t)
      BY <3>2, <3>3
    <3>5. col[t] = i
      BY <2>9, <3>1, <3>2, <3>3, <3>4
    <3> HIDE DEF col
    <3> QED  BY <2>2, <2>3, <2>4, <3>1, <3>2, <3>4, <3>5
  <2> HIDE DEF col
  <2> DEFINE at == [t \in V |-> (col[t] - 1) * d + (t - slots[col[t]])]
  <2>13. ASSUME NEW t \in V
         PROVE  /\ at[t] = (col[t] - 1) * d + (t - slots[col[t]])
                /\ t - slots[col[t]] \in Int /\ 0 <= t - slots[col[t]] /\ t - slots[col[t]] < d
    BY <2>10, <2>12 DEF InColumn
  <2>14. left \in Int /\ right \in Int /\ left < right
    <3>1. left \in Int /\ right \in Int
      BY <2>5, <2>6, <2>7, <2>10
    <3>2. CASE l < r
      BY <2>5, <2>6, <2>7, <3>2, Cells
    <3>3. CASE l = r
      <4>1. from < to
        BY <2>5, <2>6, <2>7, <2>10, <3>3
      <4>2. (l - 1) * d \in Int
        BY <2>5, <2>10
      <4> QED  BY <2>6, <2>7, <3>3, <4>1, <4>2
    <3> QED  BY <2>5, <3>1, <3>2, <3>3
  <2> HIDE DEF at
  <2>15. ASSUME NEW t \in V PROVE at[t] \in left .. right - 1
    <3> DEFINE c == col[t]
    <3> DEFINE y == t - slots[col[t]]
    <3>1. /\ c \in Int /\ l <= c /\ c <= r /\ y \in Int /\ 0 <= y /\ y < d /\ at[t] = (c - 1) * d + y
          /\ x.start <= t /\ t < x.end /\ t \in Int
      BY <2>12, <2>13
    <3>2. (c - 1) * d \in Int /\ at[t] \in Int
      BY <2>10, <3>1
    <3>3. y = t - slots[c]
      OBVIOUS
    <3> HIDE DEF c, y
    <3>4. left <= at[t]
      <4>1. CASE c = l
        <5>1. from <= y
          BY <2>5, <2>6, <3>1, <3>3, <4>1
        <5> QED  BY <2>6, <3>1, <3>2, <4>1, <5>1
      <4>2. CASE l < c
        BY <2>5, <2>6, <3>1, <4>2, Cells
      <4> QED  BY <2>5, <3>1, <4>1, <4>2
    <3>5. at[t] < right
      <4>1. CASE c = r
        <5>1. y < to
          BY <2>5, <2>7, <3>1, <3>3, <4>1
        <5> QED  BY <2>7, <3>1, <3>2, <4>1, <5>1
      <4>2. CASE c < r
        <5>1. to >= 0
          BY <2>7
        <5> QED  BY <2>5, <2>7, <2>10, <3>1, <4>2, <5>1, Cells
      <4> QED  BY <2>5, <3>1, <4>1, <4>2
    <3> QED  BY <2>14, <3>2, <3>4, <3>5
  <2>16. ASSUME NEW t \in V, NEW u \in V, col[t] < col[u] PROVE at[t] < at[u]
    <3> DEFINE y == t - slots[col[t]]
    <3> DEFINE z == u - slots[col[u]]
    <3>1. /\ col[t] \in Int /\ y \in Int /\ y < d /\ at[t] = (col[t] - 1) * d + y
          /\ col[u] \in Int /\ z \in Int /\ 0 <= z /\ at[u] = (col[u] - 1) * d + z
      BY <2>12, <2>13
    <3> HIDE DEF y, z
    <3> QED  BY <2>10, <2>16, <3>1, Cells
  <2>17. ASSUME NEW t \in V, NEW u \in V, at[t] = at[u] PROVE t = u
    <3>1. col[t] \in Int /\ col[u] \in Int /\ at[t] \in Int /\ at[u] \in Int
      BY <2>12, <2>14, <2>15
    <3>2. col[t] = col[u]
      BY <2>16, <2>17, <3>1
    <3>3. (col[t] - 1) * d \in Int /\ t \in Int /\ u \in Int /\ slots[col[t]] \in Int
      BY <2>10, <2>12, <3>1
    <3>4. (col[t] - 1) * d + (t - slots[col[t]]) = (col[t] - 1) * d + (u - slots[col[t]])
      BY <2>13, <2>17, <3>2
    <3> QED  BY <3>3, <3>4
  <2>18. ASSUME NEW p \in left .. right - 1 PROVE \E t \in V : at[t] = p
    <3>1. p \in Int /\ left <= p /\ p < right
      BY <2>14
    <3>2. PICK i \in Int, y \in Int : p = (i - 1) * d + y /\ 0 <= y /\ y < d
      BY <3>1, Places
    <3>3. l <= i
      <4>1. SUFFICES ASSUME i < l PROVE FALSE
        BY <2>5
      <4>2. p < left
        BY <2>5, <2>6, <2>10, <3>2, <4>1, Cells
      <4> QED  BY <2>14, <3>1, <4>2
    <3>4. i <= r
      <4>1. SUFFICES ASSUME r < i PROVE FALSE
        BY <2>5
      <4>2. right <= p
        BY <2>5, <2>7, <3>2, <4>1, Cells
      <4> QED  BY <2>14, <3>1, <4>2
    <3>5. i \in DOMAIN slots /\ slots[i] \in Int
      BY <2>2, <2>3, <2>4, <3>3, <3>4
    <3> DEFINE t == slots[i] + y
    <3>6. t \in Int /\ InColumn(slots, d, i, t)
      BY <2>10, <3>2, <3>5 DEF InColumn
    <3>7. x.start <= t
      <4>1. CASE i = l
        <5>1. (l - 1) * d \in Int
          BY <2>5, <2>10
        <5>2. from <= y
          BY <2>6, <3>1, <3>2, <4>1, <5>1
        <5> QED  BY <2>5, <2>6, <3>2, <4>1, <5>2
      <4>2. CASE l < i
        <5>1. slots[l] + d <= slots[i]
          BY <2>3, <2>8, <3>5, <4>2
        <5> QED  BY <2>5, <2>10, <3>2, <3>5, <5>1
      <4> QED  BY <2>5, <3>3, <4>1, <4>2
    <3>8. t < x.end
      <4>1. CASE i = r
        <5>1. (r - 1) * d \in Int
          BY <2>5, <2>10
        <5>2. y < to
          BY <2>7, <3>1, <3>2, <4>1, <5>1
        <5> QED  BY <2>5, <2>7, <3>2, <4>1, <5>2
      <4>2. CASE i < r
        <5>1. slots[i] + d <= slots[r]
          BY <2>4, <2>8, <3>5, <4>2
        <5> QED  BY <2>5, <2>10, <3>2, <3>5, <5>1
      <4> QED  BY <2>5, <3>4, <4>1, <4>2
    <3>9. t \in V
      BY <2>9, <3>5, <3>6, <3>7, <3>8
    <3>10. col[t] \in DOMAIN slots /\ InColumn(slots, d, col[t], t)
      BY <2>12, <3>9
    <3>11. col[t] = i
      BY <2>9, <3>5, <3>6, <3>10
    <3>12. t - slots[i] = y
      BY <3>2, <3>5
    <3>13. at[t] = (col[t] - 1) * d + (t - slots[col[t]])
      BY <2>13, <3>9
    <3> HIDE DEF t
    <3>14. at[t] = p
      BY <3>2, <3>11, <3>12, <3>13
    <3> QED  BY <3>9, <3>14
  <2> DEFINE T == left .. right - 1
  <2>19. at \in Bijection(V, T)
    <3>1. at \in [V -> T]
      BY <2>15 DEF at
    <3>2. IsInjective(at)
      BY <2>17, <3>1 DEF IsInjective
    <3> HIDE DEF T
    <3>3. \A p \in T : \E t \in V : at[t] = p
      BY <2>18 DEF T
    <3> QED  BY <3>1, <3>2, <3>3 DEF Bijection, Injection, Surjection
  <2>20. Cardinality(T) = right - left
    <3>1. right - 1 \in Int /\ ~ (left > right - 1) /\ (right - 1) - left + 1 = right - left
      BY <2>14
    <3> QED  BY <2>14, <3>1, FS_Interval
  <2> HIDE DEF T
  <2>21. Cardinality(T) = Cardinality(V)
    BY <2>9, <2>19, FS_Bijection DEF ExistsBijection
  <2> QED  BY <2>20, <2>21 DEF left, right, V
<1> QED  BY <1>1, <1>2

\* A block is as wide as what is shown of its shift.
THEOREM BlocksAreAsWide == Spec => []BlockWidthIsVisibleTime
<1>1. Shape => BlockWidthIsVisibleTime
  <2> SUFFICES ASSUME Shape, SlotDuration(GridSlots) = Event.gran, NEW k \in DOMAIN Shown,
                      Placed(Shown[k], GridSlots) # Null, Shown[k].start < Shown[k].end
               PROVE  Placed(Shown[k], GridSlots).right - Placed(Shown[k], GridSlots).left
                         = Cardinality(VisibleTime(Shown[k], GridSlots, Event.gran))
    BY DEF BlockWidthIsVisibleTime, VisibleTime
  <2>1. Rising(GridSlots) /\ Spaced(GridSlots, Event.gran)
    BY ScreenColumns
  <2>2. Shown[k] \in CachedShift
    BY ScreenTypes
  <2>3. Shown[k].start \in Int /\ Shown[k].end \in Int
    BY <2>2 DEF CachedShift
  <2>4. Event.gran \in {1, 2, 4}
    BY Numbers
  <2> QED  BY <2>1, <2>3, <2>4, WidthIsVisibleTime
<1> QED  BY <1>1, ShapeHolds, PTL

-----------------------------------------------------------------------------
(* Sums over finite sets: they exist, do not depend on the order in which  *)
(* elements are taken, and come to the same if they are made group by      *)
(* group.  Each fact by a least set for which it would fail.               *)

One(s) == CHOOSE x \in s : TRUE
SumsUp(g, h, S) == g = [s \in SUBSET S |-> IF s = {} THEN 0 ELSE h[One(s)] + g[s \ {One(s)}]]

LEMMA LeastSet ==
    ASSUME NEW U, IsFiniteSet(U), NEW Q, Q \subseteq SUBSET U, Q # {}
    PROVE  \E s \in Q : \A x \in s : s \ {x} \notin Q
<1> DEFINE N == {n \in Nat : \E s \in Q : Cardinality(s) = n}
<1>1. \A s \in Q : IsFiniteSet(s) /\ Cardinality(s) \in Nat
  BY FS_Subset, FS_CardinalityType
<1>2. N \subseteq Nat /\ N # {}
  <2>1. PICK s \in Q : TRUE
    OBVIOUS
  <2>2. Cardinality(s) \in N
    BY <1>1
  <2> QED  BY <2>2
<1>3. \A s \in Q : Cardinality(s) \in N
  BY <1>1
<1>4. \A n \in N : \E s \in Q : Cardinality(s) = n
  OBVIOUS
<1> HIDE DEF N
<1>5. Min(N) \in N /\ \A n \in N : Min(N) <= n
  BY <1>2, Least
<1>6. PICK s \in Q : Cardinality(s) = Min(N)
  BY <1>4, <1>5
<1>7. ASSUME NEW x \in s, s \ {x} \in Q PROVE FALSE
  <2>1. Cardinality(s \ {x}) = Cardinality(s) - 1
    BY <1>1, FS_RemoveElement
  <2>2. Cardinality(s) <= Cardinality(s \ {x})
    BY <1>3, <1>5, <1>6, <1>7
  <2> QED  BY <1>1, <2>1, <2>2
<1> QED  BY <1>7

LEMMA SumExists ==
    ASSUME NEW h, NEW S, IsFiniteSet(S)
    PROVE  \E g : SumsUp(g, h, S)
<1> DEFINE UpTo(n) == {s \in SUBSET S : Cardinality(s) <= n}
<1> DEFINE Part(n) == \E g : g = [s \in UpTo(n) |-> IF s = {} THEN 0 ELSE h[One(s)] + g[s \ {One(s)}]]
<1> DEFINE Bad == {n \in Nat : ~ Part(n)}
<1>1. \A s \in SUBSET S : IsFiniteSet(s) /\ Cardinality(s) \in Nat /\ Cardinality(s) <= Cardinality(S)
  BY FS_Subset, FS_CardinalityType
<1>2. Part(0)
  <2>1. \A s \in UpTo(0) : s = {}
    <3>1. \A s \in UpTo(0) : IsFiniteSet(s) /\ Cardinality(s) = 0
      BY <1>1
    <3> QED  BY <3>1, FS_EmptySet
  <2> DEFINE g == [s \in UpTo(0) |-> 0]
  <2>2. g = [s \in UpTo(0) |-> IF s = {} THEN 0 ELSE h[One(s)] + g[s \ {One(s)}]]
    BY <2>1
  <2> QED  BY <2>2
<1>3. ASSUME NEW n \in Nat, Part(n) PROVE Part(n + 1)
  <2>1. PICK g : g = [s \in UpTo(n) |-> IF s = {} THEN 0 ELSE h[One(s)] + g[s \ {One(s)}]]
    BY <1>3
  <2> DEFINE k == [s \in UpTo(n + 1) |-> IF s = {} THEN 0 ELSE h[One(s)] + g[s \ {One(s)}]]
  <2>2. ASSUME NEW s \in UpTo(n + 1), s # {} PROVE k[s \ {One(s)}] = g[s \ {One(s)}]
    <3> DEFINE u == s \ {One(s)}
    <3>1. One(s) \in s
      BY <2>2 DEF One
    <3>2. Cardinality(u) = Cardinality(s) - 1 /\ u \in SUBSET S
      BY <1>1, <3>1, FS_RemoveElement
    <3>3. u \in UpTo(n) /\ u \in UpTo(n + 1)
      BY <1>1, <3>2
    <3> HIDE DEF u
    <3>4. g[u] = IF u = {} THEN 0 ELSE h[One(u)] + g[u \ {One(u)}]
      BY <2>1, <3>3
    <3>5. k[u] = IF u = {} THEN 0 ELSE h[One(u)] + g[u \ {One(u)}]
      BY <3>3
    <3>6. k[u] = g[u]
      BY <3>4, <3>5
    <3> QED  BY <3>6 DEF u
  <2>3. k = [s \in UpTo(n + 1) |-> IF s = {} THEN 0 ELSE h[One(s)] + k[s \ {One(s)}]]
    <3>1. \A s \in UpTo(n + 1) : (IF s = {} THEN 0 ELSE h[One(s)] + g[s \ {One(s)}])
                                = (IF s = {} THEN 0 ELSE h[One(s)] + k[s \ {One(s)}])
      BY <2>2
    <3> QED  BY <3>1, Zenon
  <2> QED  BY <2>3
<1>4. Bad = {}
  <2> SUFFICES ASSUME Bad # {} PROVE FALSE
    OBVIOUS
  <2>1. Bad \subseteq Nat /\ \A n \in Nat : n \in Bad <=> ~ Part(n)
    OBVIOUS
  <2> HIDE DEF Bad, Part
  <2>2. Min(Bad) \in Bad /\ \A n \in Bad : Min(Bad) <= n
    BY <2>1, Least
  <2>3. Min(Bad) \in Nat /\ Min(Bad) # 0
    BY <1>2, <2>1, <2>2
  <2>4. Min(Bad) - 1 \in Nat /\ Min(Bad) - 1 \notin Bad /\ (Min(Bad) - 1) + 1 = Min(Bad)
    BY <2>2, <2>3
  <2> QED  BY <1>3, <2>1, <2>2, <2>4
<1>5. Cardinality(S) \in Nat /\ UpTo(Cardinality(S)) = SUBSET S
  BY <1>1
<1>6. Part(Cardinality(S))
  BY <1>4, <1>5
<1> QED  BY <1>5, <1>6 DEF SumsUp

\* The sum over a set is that over all but one, and that one.
LEMMA SumTakes ==
    ASSUME NEW h, NEW S, IsFiniteSet(S)
    PROVE  /\ SumFunctionOnSet(h, {}) = 0
           /\ S # {} => SumFunctionOnSet(h, S) = h[One(S)] + SumFunctionOnSet(h, S \ {One(S)})
<1> DEFINE Sums(T) == CHOOSE g : SumsUp(g, h, T)
<1>1. ASSUME NEW T, IsFiniteSet(T)
      PROVE  /\ SumFunctionOnSet(h, T) = Sums(T)[T]
             /\ \A s \in SUBSET T : Sums(T)[s] = IF s = {} THEN 0 ELSE h[One(s)] + Sums(T)[s \ {One(s)}]
  <2>1. SumFunctionOnSet(h, T) = Sums(T)[T]
    BY DEF SumFunctionOnSet, FoldFunctionOnSet, MapThenFoldSet, SumsUp, One
  <2> DEFINE g == Sums(T)
  <2>2. SumsUp(g, h, T)
    BY <1>1, SumExists
  <2> HIDE DEF g
  <2>3. \A s \in SUBSET T : g[s] = IF s = {} THEN 0 ELSE h[One(s)] + g[s \ {One(s)}]
    BY <2>2 DEF SumsUp
  <2> QED  BY <2>1, <2>3 DEF g
<1> HIDE DEF Sums
<1>2. SumFunctionOnSet(h, {}) = 0
  BY <1>1, FS_EmptySet
<1>3. ASSUME S # {} PROVE SumFunctionOnSet(h, S) = h[One(S)] + SumFunctionOnSet(h, S \ {One(S)})
  <2> DEFINE T == S \ {One(S)}
  <2>1. T \subseteq S /\ IsFiniteSet(T)
    BY FS_Subset
  <2> DEFINE Q == {s \in SUBSET T : Sums(S)[s] # Sums(T)[s]}
  <2>2. Q = {}
    <3>1. SUFFICES ASSUME Q # {} PROVE FALSE
      OBVIOUS
    <3>2. Q \subseteq SUBSET T /\ \A s \in SUBSET T : s \in Q <=> Sums(S)[s] # Sums(T)[s]
      OBVIOUS
    <3> HIDE DEF Q, T
    <3>3. PICK s \in Q : \A x \in s : s \ {x} \notin Q
      BY <2>1, <3>1, <3>2, LeastSet
    <3>4. s \in SUBSET T /\ s \in SUBSET S
      BY <2>1, <3>2
    <3>5. /\ Sums(S)[s] = IF s = {} THEN 0 ELSE h[One(s)] + Sums(S)[s \ {One(s)}]
          /\ Sums(T)[s] = IF s = {} THEN 0 ELSE h[One(s)] + Sums(T)[s \ {One(s)}]
      BY <1>1, <2>1, <3>4
    <3>6. s # {} => One(s) \in s /\ s \ {One(s)} \in SUBSET T
      BY <3>4 DEF One
    <3>7. s # {} => Sums(S)[s \ {One(s)}] = Sums(T)[s \ {One(s)}]
      BY <3>2, <3>3, <3>6
    <3>8. Sums(S)[s] = Sums(T)[s]
      BY <3>5, <3>7
    <3> QED  BY <3>2, <3>4, <3>8
  <2>3. T \in SUBSET T
    OBVIOUS
  <2>4. Sums(S)[T] = Sums(T)[T]
    BY <2>2, <2>3
  <2>5. Sums(S)[S] = h[One(S)] + Sums(S)[T]
    <3>1. S \in SUBSET S
      OBVIOUS
    <3> QED  BY <1>1, <1>3, <3>1
  <2> HIDE DEF T
  <2>6. SumFunctionOnSet(h, S) = Sums(S)[S] /\ SumFunctionOnSet(h, T) = Sums(T)[T]
    BY <1>1, <2>1
  <2>7. SumFunctionOnSet(h, S) = h[One(S)] + SumFunctionOnSet(h, T)
    BY <2>4, <2>5, <2>6
  <2> QED  BY <2>7 DEF T
<1> QED  BY <1>2, <1>3

LEMMA SumIsInt ==
    ASSUME NEW h, NEW S, IsFiniteSet(S), \A x \in S : h[x] \in Int
    PROVE  \A s \in SUBSET S : SumFunctionOnSet(h, s) \in Int
<1> DEFINE Q == {s \in SUBSET S : SumFunctionOnSet(h, s) \notin Int}
<1>1. SUFFICES ASSUME Q # {} PROVE FALSE
  OBVIOUS
<1>2. Q \subseteq SUBSET S /\ \A s \in SUBSET S : s \in Q <=> SumFunctionOnSet(h, s) \notin Int
  OBVIOUS
<1> HIDE DEF Q
<1>3. PICK s \in Q : \A x \in s : s \ {x} \notin Q
  BY <1>1, <1>2, LeastSet
<1>4. IsFiniteSet(s) /\ s \in SUBSET S
  BY <1>2, FS_Subset
<1>5. s # {}
  <2>1. SumFunctionOnSet(h, {}) = 0
    BY FS_EmptySet, SumTakes
  <2>2. SumFunctionOnSet(h, {}) \in Int
    BY <2>1
  <2> QED  BY <1>2, <1>4, <2>2
<1>6. SumFunctionOnSet(h, s) = h[One(s)] + SumFunctionOnSet(h, s \ {One(s)})
  BY <1>4, <1>5, SumTakes
<1>7. One(s) \in s /\ h[One(s)] \in Int
  BY <1>4, <1>5 DEF One
<1>8. SumFunctionOnSet(h, s \ {One(s)}) \in Int
  BY <1>2, <1>3, <1>4, <1>7
<1> QED  BY <1>2, <1>4, <1>6, <1>7, <1>8

\* It does not matter which one is taken.
LEMMA SumTakesAny ==
    ASSUME NEW h, NEW S, IsFiniteSet(S), \A x \in S : h[x] \in Int
    PROVE  \A s \in SUBSET S : \A x \in s : SumFunctionOnSet(h, s) = h[x] + SumFunctionOnSet(h, s \ {x})
<1> DEFINE Q == {s \in SUBSET S : \E x \in s : SumFunctionOnSet(h, s) # h[x] + SumFunctionOnSet(h, s \ {x})}
<1>1. SUFFICES ASSUME Q # {} PROVE FALSE
  OBVIOUS
<1>2. /\ Q \subseteq SUBSET S
      /\ \A s \in SUBSET S : s \in Q <=>
             \E x \in s : SumFunctionOnSet(h, s) # h[x] + SumFunctionOnSet(h, s \ {x})
  OBVIOUS
<1> HIDE DEF Q
<1>3. PICK s \in Q : \A x \in s : s \ {x} \notin Q
  BY <1>1, <1>2, LeastSet
<1>4. IsFiniteSet(s) /\ s \in SUBSET S
  BY <1>2, FS_Subset
<1>5. PICK x \in s : SumFunctionOnSet(h, s) # h[x] + SumFunctionOnSet(h, s \ {x})
  BY <1>2, <1>4
<1> DEFINE p == One(s)
<1>6. p \in s /\ SumFunctionOnSet(h, s) = h[p] + SumFunctionOnSet(h, s \ {p})
  BY <1>4, <1>5, SumTakes DEF One
<1> HIDE DEF p
<1>7. x # p
  BY <1>5, <1>6
<1>8. s \ {p} \in SUBSET S /\ s \ {p} \notin Q /\ x \in s \ {p}
  BY <1>3, <1>4, <1>6, <1>7
<1>9. SumFunctionOnSet(h, s \ {p}) = h[x] + SumFunctionOnSet(h, (s \ {p}) \ {x})
  BY <1>2, <1>8
<1>10. s \ {x} \in SUBSET S /\ s \ {x} \notin Q /\ p \in s \ {x}
  BY <1>3, <1>4, <1>6, <1>7
<1>11. SumFunctionOnSet(h, s \ {x}) = h[p] + SumFunctionOnSet(h, (s \ {x}) \ {p})
  BY <1>2, <1>10
<1>12. (s \ {p}) \ {x} = (s \ {x}) \ {p}
  OBVIOUS
<1> DEFINE rest == SumFunctionOnSet(h, (s \ {x}) \ {p})
<1>13. rest \in Int /\ h[p] \in Int /\ h[x] \in Int
  <2>1. (s \ {x}) \ {p} \in SUBSET S
    BY <1>4
  <2> QED  BY <1>4, <1>6, <2>1, SumIsInt
<1>14. SumFunctionOnSet(h, s \ {p}) = h[x] + rest /\ SumFunctionOnSet(h, s \ {x}) = h[p] + rest
  BY <1>9, <1>11, <1>12
<1> HIDE DEF rest
<1>15. h[p] + (h[x] + rest) = h[x] + (h[p] + rest)
  BY <1>13
<1> QED  BY <1>5, <1>6, <1>14, <1>15

LEMMA SumOfOnes ==
    ASSUME NEW h, NEW S, IsFiniteSet(S), \A x \in S : h[x] = 1
    PROVE  \A s \in SUBSET S : SumFunctionOnSet(h, s) = Cardinality(s)
<1> DEFINE Q == {s \in SUBSET S : SumFunctionOnSet(h, s) # Cardinality(s)}
<1>1. SUFFICES ASSUME Q # {} PROVE FALSE
  OBVIOUS
<1>2. Q \subseteq SUBSET S /\ \A s \in SUBSET S : s \in Q <=> SumFunctionOnSet(h, s) # Cardinality(s)
  OBVIOUS
<1> HIDE DEF Q
<1>3. PICK s \in Q : \A x \in s : s \ {x} \notin Q
  BY <1>1, <1>2, LeastSet
<1>4. IsFiniteSet(s) /\ s \in SUBSET S /\ Cardinality(s) \in Nat
  BY <1>2, FS_Subset, FS_CardinalityType
<1>5. s # {}
  <2>1. SumFunctionOnSet(h, {}) = 0 /\ Cardinality({}) = 0
    BY FS_EmptySet, SumTakes
  <2> QED  BY <1>2, <1>4, <2>1
<1>6. SumFunctionOnSet(h, s) = h[One(s)] + SumFunctionOnSet(h, s \ {One(s)})
  BY <1>4, <1>5, SumTakes
<1>7. One(s) \in s /\ h[One(s)] = 1
  BY <1>4, <1>5 DEF One
<1>8. SumFunctionOnSet(h, s \ {One(s)}) = Cardinality(s \ {One(s)})
  BY <1>2, <1>3, <1>4, <1>7
<1>9. Cardinality(s \ {One(s)}) = Cardinality(s) - 1
  BY <1>4, <1>7, FS_RemoveElement
<1>10. SumFunctionOnSet(h, s) = Cardinality(s)
  BY <1>4, <1>6, <1>7, <1>8, <1>9
<1> QED  BY <1>2, <1>4, <1>10

LEMMA SumOfBoth ==
    ASSUME NEW h, NEW S, IsFiniteSet(S), \A x \in S : h[x] \in Int,
           NEW A \in SUBSET S, NEW B \in SUBSET S, A \cap B = {}
    PROVE  SumFunctionOnSet(h, A \cup B) = SumFunctionOnSet(h, A) + SumFunctionOnSet(h, B)
<1> DEFINE Q == {b \in SUBSET B : SumFunctionOnSet(h, A \cup b) # SumFunctionOnSet(h, A) + SumFunctionOnSet(h, b)}
<1>1. SUFFICES ASSUME Q # {} PROVE FALSE
  <2>1. B \in SUBSET B
    OBVIOUS
  <2> QED  BY <1>1, <2>1
<1>2. /\ Q \subseteq SUBSET B
      /\ \A b \in SUBSET B : b \in Q <=>
             SumFunctionOnSet(h, A \cup b) # SumFunctionOnSet(h, A) + SumFunctionOnSet(h, b)
  OBVIOUS
<1>3. IsFiniteSet(B) /\ SumFunctionOnSet(h, A) \in Int
  BY FS_Subset, SumIsInt
<1> HIDE DEF Q
<1>4. PICK b \in Q : \A x \in b : b \ {x} \notin Q
  BY <1>1, <1>2, <1>3, LeastSet
<1>5. b \in SUBSET B /\ b \in SUBSET S
  BY <1>2
<1>6. b # {}
  <2>1. SumFunctionOnSet(h, {}) = 0 /\ A \cup {} = A
    BY FS_EmptySet, SumTakes
  <2>2. SumFunctionOnSet(h, A \cup {}) = SumFunctionOnSet(h, A) + SumFunctionOnSet(h, {})
    BY <1>3, <2>1
  <2> QED  BY <1>2, <1>5, <2>2
<1>7. PICK x \in b : TRUE
  BY <1>6
<1>8. SumFunctionOnSet(h, b) = h[x] + SumFunctionOnSet(h, b \ {x})
  BY <1>5, SumTakesAny
<1>9. SumFunctionOnSet(h, A \cup b) = h[x] + SumFunctionOnSet(h, A \cup (b \ {x}))
  <2>1. A \cup b \in SUBSET S /\ x \in A \cup b
    BY <1>5
  <2>2. (A \cup b) \ {x} = A \cup (b \ {x})
    BY <1>5
  <2> QED  BY <2>1, <2>2, SumTakesAny
<1>10. SumFunctionOnSet(h, A \cup (b \ {x})) = SumFunctionOnSet(h, A) + SumFunctionOnSet(h, b \ {x})
  <2>1. b \ {x} \in SUBSET B
    BY <1>5
  <2> QED  BY <1>2, <1>4, <2>1
<1>11. h[x] \in Int /\ SumFunctionOnSet(h, b \ {x}) \in Int
  <2>1. b \ {x} \in SUBSET S
    BY <1>5
  <2> QED  BY <1>5, <2>1, SumIsInt
<1>12. SumFunctionOnSet(h, A \cup b) = SumFunctionOnSet(h, A) + SumFunctionOnSet(h, b)
  BY <1>3, <1>8, <1>9, <1>10, <1>11
<1> QED  BY <1>2, <1>5, <1>12

\* Group by group or all at once: every element is in one group.
LEMMA SumByGroup ==
    ASSUME NEW S, IsFiniteSet(S), NEW h, \A x \in S : h[x] \in Int,
           NEW G, IsFiniteSet(G), NEW c, \A x \in S : c[x] \in G,
           NEW H, DOMAIN H = G, \A g \in G : H[g] = SumFunctionOnSet(h, {x \in S : c[x] = g})
    PROVE  SumFunction(H) = SumFunctionOnSet(h, S)
<1> DEFINE In(K) == {x \in S : c[x] \in K}
<1> DEFINE Q == {K \in SUBSET G : SumFunctionOnSet(H, K) # SumFunctionOnSet(h, In(K))}
<1>1. Q = {}
  <2>1. SUFFICES ASSUME Q # {} PROVE FALSE
    OBVIOUS
  <2>2. /\ Q \subseteq SUBSET G
        /\ \A K \in SUBSET G : K \in Q <=> SumFunctionOnSet(H, K) # SumFunctionOnSet(h, In(K))
    OBVIOUS
  <2> HIDE DEF Q
  <2>3. PICK K \in Q : \A g \in K : K \ {g} \notin Q
    BY <2>1, <2>2, LeastSet
  <2>4. K \in SUBSET G
    BY <2>2
  <2>5. K # {}
    <3>1. In({}) = {}
      OBVIOUS
    <3>2. SumFunctionOnSet(H, {}) = 0 /\ SumFunctionOnSet(h, {}) = 0
      BY FS_EmptySet, SumTakes
    <3> QED  BY <2>2, <2>4, <3>1, <3>2
  <2>6. PICK g \in K : TRUE
    BY <2>5
  <2>7. \A e \in G : H[e] \in Int
    <3>1. ASSUME NEW e \in G PROVE SumFunctionOnSet(h, {x \in S : c[x] = e}) \in Int
      <4>1. {x \in S : c[x] = e} \in SUBSET S
        OBVIOUS
      <4> QED  BY <4>1, SumIsInt
    <3> QED  BY <3>1
  <2>8. SumFunctionOnSet(H, K) = H[g] + SumFunctionOnSet(H, K \ {g})
    BY <2>4, <2>7, SumTakesAny
  <2>9. SumFunctionOnSet(H, K \ {g}) = SumFunctionOnSet(h, In(K \ {g}))
    <3>1. K \ {g} \in SUBSET G
      BY <2>4
    <3> QED  BY <2>2, <2>3, <3>1
  <2>10. SumFunctionOnSet(h, In(K)) = SumFunctionOnSet(h, {x \in S : c[x] = g}) + SumFunctionOnSet(h, In(K \ {g}))
    <3> DEFINE A == {x \in S : c[x] = g}
    <3> DEFINE B == In(K \ {g})
    <3>1. A \in SUBSET S /\ B \in SUBSET S /\ A \cap B = {} /\ A \cup B = In(K)
      BY <2>6
    <3> HIDE DEF A, B
    <3>2. SumFunctionOnSet(h, A \cup B) = SumFunctionOnSet(h, A) + SumFunctionOnSet(h, B)
      BY <3>1, SumOfBoth
    <3> QED  BY <3>1, <3>2 DEF A, B
  <2>11. H[g] = SumFunctionOnSet(h, {x \in S : c[x] = g})
    BY <2>4
  <2>12. SumFunctionOnSet(H, K) = SumFunctionOnSet(h, In(K))
    BY <2>8, <2>9, <2>10, <2>11
  <2> QED  BY <2>2, <2>4, <2>12
<1>2. G \in SUBSET G /\ In(G) = S
  OBVIOUS
<1>3. SumFunctionOnSet(H, G) = SumFunctionOnSet(h, In(G))
  BY <1>1, <1>2
<1> HIDE DEF In
<1>4. SumFunctionOnSet(H, G) = SumFunctionOnSet(h, S)
  BY <1>2, <1>3
<1> QED  BY <1>4 DEF SumFunction

\* Amounts in quarters of an hour, and the same rounded to tenths one by one:
\* a quarter is two tenths and a half, so each is exact or half a tenth more.
LEMMA SumRounded ==
    ASSUME NEW G, IsFiniteSet(G), NEW a, NEW b,
           \A x \in G : a[x] \in Int /\ b[x] \in Int /\ 5 * a[x] <= 2 * b[x] /\ 2 * b[x] <= 5 * a[x] + 1
    PROVE  /\ 5 * SumFunctionOnSet(a, G) <= 2 * SumFunctionOnSet(b, G)
           /\ 2 * SumFunctionOnSet(b, G) <= 5 * SumFunctionOnSet(a, G) + Cardinality(G)
<1> DEFINE Fits(K) == /\ 5 * SumFunctionOnSet(a, K) <= 2 * SumFunctionOnSet(b, K)
                      /\ 2 * SumFunctionOnSet(b, K) <= 5 * SumFunctionOnSet(a, K) + Cardinality(K)
<1> DEFINE Q == {K \in SUBSET G : ~Fits(K)}
<1>1. SUFFICES ASSUME Q # {} PROVE FALSE
  OBVIOUS
<1>2. Q \subseteq SUBSET G /\ \A K \in SUBSET G : K \in Q <=> ~Fits(K)
  OBVIOUS
<1> HIDE DEF Q
<1>3. PICK K \in Q : \A x \in K : K \ {x} \notin Q
  BY <1>1, <1>2, LeastSet
<1>4. K \in SUBSET G /\ IsFiniteSet(K)
  BY <1>2, FS_Subset
<1>5. K # {}
  <2>1. SumFunctionOnSet(a, {}) = 0 /\ SumFunctionOnSet(b, {}) = 0 /\ Cardinality({}) = 0
    BY FS_EmptySet, SumTakes
  <2>2. Fits({})
    BY <2>1
  <2> QED  BY <1>2, <1>4, <2>2
<1>6. PICK x \in K : TRUE
  BY <1>5
<1> DEFINE L == K \ {x}
<1>7. L \in SUBSET G /\ L \notin Q /\ IsFiniteSet(L)
  BY <1>3, <1>4, FS_Subset
<1>8. Fits(L)
  BY <1>2, <1>7
<1>9. Cardinality(K) = Cardinality(L) + 1 /\ Cardinality(L) \in Nat
  BY <1>4, <1>7, FS_RemoveElement, FS_CardinalityType
<1>10. /\ SumFunctionOnSet(a, K) = a[x] + SumFunctionOnSet(a, L)
       /\ SumFunctionOnSet(b, K) = b[x] + SumFunctionOnSet(b, L)
  BY <1>4, SumTakesAny
<1>11. SumFunctionOnSet(a, L) \in Int /\ SumFunctionOnSet(b, L) \in Int
  BY <1>7, SumIsInt
<1>12. a[x] \in Int /\ b[x] \in Int /\ 5 * a[x] <= 2 * b[x] /\ 2 * b[x] <= 5 * a[x] + 1
  BY <1>4
<1> HIDE DEF L
<1>13. Fits(K)
  BY <1>8, <1>9, <1>10, <1>11, <1>12
<1> QED  BY <1>2, <1>4, <1>13

-----------------------------------------------------------------------------
(* Statistics.                                                             *)

LEMMA Rounded ==
    ASSUME NEW t \in Int
    PROVE  /\ TenthsFromTicks(t) \in Int
           /\ 5 * t <= 2 * TenthsFromTicks(t) /\ 2 * TenthsFromTicks(t) <= 5 * t + 1
<1>1. TenthsFromTicks(t) = (20 * t + 4) \div 8
  BY DEF TenthsFromTicks, TicksPerHour
<1> QED  BY <1>1

LEMMA EachOnce ==
    ASSUME NEW S, IsFiniteSet(S), NEW R, StrictOrder(S, R)
    PROVE  /\ Cardinality(S) \in Nat /\ IsFiniteSet(1 .. Cardinality(S))
           /\ DOMAIN InOrder(S, R) = 1 .. Cardinality(S)
           /\ InOrder(S, R) \in Bijection(1 .. Cardinality(S), S)
<1> DEFINE n == Cardinality(S)
<1> DEFINE f == InOrder(S, R)
<1>1. /\ n \in Nat /\ f \in [1 .. n -> S] /\ DOMAIN f = 1 .. n
      /\ \A j, k \in 1 .. n : f[j] = f[k] => j = k
  BY OrderedSequence
<1>2. IsFiniteSet(1 .. n) /\ Cardinality(1 .. n) = n
  BY <1>1, FS_Interval
<1> HIDE DEF f
<1>3. f \in Injection(1 .. n, S)
  BY <1>1 DEF Injection, IsInjective
<1>4. f \in Surjection(1 .. n, S)
  BY <1>2, <1>3, FS_Injection
<1>5. f \in Bijection(1 .. n, S)
  BY <1>3, <1>4 DEF Bijection
<1> QED  BY <1>1, <1>2, <1>5 DEF f

LEMMA Counted ==
    ASSUME NEW K, IsFiniteSet(K), NEW S, NEW f \in Bijection(K, S), NEW Q \in SUBSET S
    PROVE  Cardinality({k \in K : f[k] \in Q}) = Cardinality(Q)
<1> DEFINE P == {k \in K : f[k] \in Q}
<1> DEFINE e == [k \in P |-> f[k]]
<1>1. P \in SUBSET K /\ \A k \in K : k \in P <=> f[k] \in Q
  OBVIOUS
<1>2. IsFiniteSet(P)
  BY <1>1, FS_Subset
<1>3. /\ f \in [K -> S] /\ \A j, k \in K : f[j] = f[k] => j = k
      /\ \A x \in S : \E k \in K : f[k] = x
  BY DEF Bijection, Injection, Surjection, IsInjective
<1> HIDE DEF P
<1>4. e \in [P -> Q]
  BY <1>1
<1>5. \A j, k \in P : e[j] = e[k] => j = k
  BY <1>1, <1>3
<1>6. \A x \in Q : \E k \in P : e[k] = x
  BY <1>1, <1>3
<1> HIDE DEF e
<1>7. e \in Bijection(P, Q)
  BY <1>4, <1>5, <1>6 DEF Bijection, Injection, Surjection, IsInjective
<1>8. Cardinality(Q) = Cardinality(P)
  BY <1>2, <1>7, FS_Bijection DEF ExistsBijection
<1> QED  BY <1>8 DEF P

LEMMA NumbersAreOrdered ==
    ASSUME NEW S \in SUBSET Int
    PROVE  StrictOrder(S, {p \in S \X S : p[1] < p[2]})
<1> DEFINE R == {p \in S \X S : p[1] < p[2]}
<1>1. \A x, y \in S : <<x, y>> \in R <=> x < y
  OBVIOUS
<1>2. \A x \in S : x \in Int
  OBVIOUS
<1> HIDE DEF R
<1>3. StrictOrder(S, R)
  BY <1>1, <1>2 DEF StrictOrder
<1> QED  BY <1>3 DEF R

\* Those picked that have a quality are as many as those with it at the places.
LEMMA PickedCount ==
    ASSUME NEW list \in Seq(CachedShift), NEW S \in SUBSET DOMAIN list, NEW Q \in SUBSET S
    PROVE  /\ Len(Picked(list, S)) = Cardinality(S)
           /\ DOMAIN Picked(list, S) = DOMAIN Ascending(S)
           /\ \A k \in DOMAIN Ascending(S) : Picked(list, S)[k] = list[Ascending(S)[k]] /\ Ascending(S)[k] \in S
           /\ Cardinality({k \in DOMAIN Ascending(S) : Ascending(S)[k] \in Q}) = Cardinality(Q)
<1>1. DOMAIN list = 1 .. Len(list) /\ Len(list) \in Nat
  OBVIOUS
<1>2. IsFiniteSet(S) /\ S \in SUBSET Int
  <2>1. IsFiniteSet(1 .. Len(list))
    BY <1>1, FS_Interval
  <2> QED  BY <1>1, <2>1, FS_Subset
<1> DEFINE p == Ascending(S)
<1>3. /\ Cardinality(S) \in Nat /\ IsFiniteSet(1 .. Cardinality(S)) /\ DOMAIN p = 1 .. Cardinality(S)
      /\ p \in Bijection(1 .. Cardinality(S), S)
  BY <1>2, NumbersAreOrdered, EachOnce DEF Ascending
<1>4. Picked(list, S) = [k \in DOMAIN p |-> list[p[k]]]
  BY DEF Picked
<1> HIDE DEF p
<1>5. DOMAIN Picked(list, S) = 1 .. Cardinality(S) /\ \A k \in DOMAIN p : Picked(list, S)[k] = list[p[k]]
  BY <1>3, <1>4
<1>6. \A k \in DOMAIN p : p[k] \in S
  BY <1>3 DEF Bijection, Injection
<1>7. Len(Picked(list, S)) = Cardinality(S)
  BY <1>3, <1>4
<1>8. Cardinality({k \in 1 .. Cardinality(S) : p[k] \in Q}) = Cardinality(Q)
  BY <1>3, Counted
<1> QED  BY <1>3, <1>5, <1>6, <1>7, <1>8 DEF p

LEMMA PickedWith ==
    ASSUME NEW list \in Seq(CachedShift), NEW S \in SUBSET DOMAIN list, NEW Q \in SUBSET S,
           NEW P, \A k : k \in P <=> k \in DOMAIN Ascending(S) /\ Ascending(S)[k] \in Q
    PROVE  Cardinality(P) = Cardinality(Q)
<1>1. P = {k \in DOMAIN Ascending(S) : Ascending(S)[k] \in Q}
  OBVIOUS
<1>2. Cardinality({k \in DOMAIN Ascending(S) : Ascending(S)[k] \in Q}) = Cardinality(Q)
  BY PickedCount
<1> QED  BY <1>1, <1>2

\* A table that puts every shift under one of its headings adds up.
LEMMA TableAddsUp ==
    ASSUME NEW list \in Seq(CachedShift), NEW G, IsFiniteSet(G), NEW c, \A i \in DOMAIN list : c[i] \in G,
           NEW own, \A x \in G : \A i : i \in own[x] <=> i \in DOMAIN list /\ c[i] = x,
           \A x \in G : own[x] \in SUBSET DOMAIN list,
           NEW counts, DOMAIN counts = G, \A x \in G : counts[x] = Cardinality(own[x]),
           NEW hours, DOMAIN hours = G,
           \A x \in G : hours[x] = TenthsFromTicks(SumFunctionOnSet(Ticks(list), own[x]))
    PROVE  /\ SumFunction(counts) = Cardinality(DOMAIN list)
           /\ SumFunction(hours) - TenthsFromTicks(SumFunctionOnSet(Ticks(list), DOMAIN list))
                 \in 0 .. Cardinality(G) \div 2
<1> DEFINE S == DOMAIN list
<1>1. IsFiniteSet(S)
  <2>1. S = 1 .. Len(list) /\ Len(list) \in Nat
    OBVIOUS
  <2>2. IsFiniteSet(1 .. Len(list))
    BY <2>1, FS_Interval
  <2> QED  BY <2>1, <2>2
<1>2. \A i \in S : Ticks(list)[i] \in Int
  <2>1. \A i \in S : list[i] \in CachedShift
    OBVIOUS
  <2>2. \A i \in S : list[i].start \in Int /\ list[i].end \in Int
    BY <2>1 DEF CachedShift
  <2> QED  BY <2>2 DEF Ticks
<1>3. \A x \in G : own[x] = {i \in S : c[i] = x} /\ own[x] \in SUBSET S
  OBVIOUS
<1>4. \A i \in S : c[i] \in G
  OBVIOUS
<1> DEFINE Ones == [i \in S |-> 1]
<1>5. /\ \A i \in S : Ones[i] = 1 /\ Ones[i] \in Int
      /\ \A s \in SUBSET S : SumFunctionOnSet(Ones, s) = Cardinality(s)
  <2>1. \A i \in S : Ones[i] = 1 /\ Ones[i] \in Int
    OBVIOUS
  <2> HIDE DEF Ones, S
  <2> QED  BY <2>1, <1>1, SumOfOnes
<1>6. \A x \in G : counts[x] = SumFunctionOnSet(Ones, {i \in S : c[i] = x})
  <2> SUFFICES ASSUME NEW x \in G PROVE counts[x] = SumFunctionOnSet(Ones, {i \in S : c[i] = x})
    OBVIOUS
  <2>1. own[x] = {i \in S : c[i] = x} /\ own[x] \in SUBSET S
    BY <1>3
  <2> HIDE DEF Ones, S
  <2>2. counts[x] = SumFunctionOnSet(Ones, own[x])
    BY <1>5, <2>1
  <2> QED  BY <2>1, <2>2
<1> DEFINE ticks == [x \in G |-> SumFunctionOnSet(Ticks(list), own[x])]
<1>7. DOMAIN ticks = G /\ \A x \in G : ticks[x] = SumFunctionOnSet(Ticks(list), {i \in S : c[i] = x})
  BY <1>3
<1>12. \A x \in G : ticks[x] \in Int /\ hours[x] = TenthsFromTicks(ticks[x])
  BY <1>1, <1>2, <1>3, SumIsInt
<1> HIDE DEF Ones, S, ticks
<1>8. SumFunction(counts) = SumFunctionOnSet(Ones, S)
  BY <1>1, <1>4, <1>5, <1>6, SumByGroup
<1>9. SumFunction(ticks) = SumFunctionOnSet(Ticks(list), S)
  BY <1>1, <1>2, <1>4, <1>7, SumByGroup
<1>10. SumFunctionOnSet(Ones, S) = Cardinality(S)
  <2>1. S \in SUBSET S
    OBVIOUS
  <2> QED  BY <1>5, <2>1
<1>11. SumFunction(counts) = Cardinality(S)
  BY <1>8, <1>10
<1> DEFINE T == SumFunctionOnSet(Ticks(list), S)
<1>13. T \in Int
  <2>1. S \in SUBSET S
    OBVIOUS
  <2> QED  BY <1>1, <1>2, <2>1, SumIsInt
<1>14. SumFunctionOnSet(ticks, G) = T /\ SumFunctionOnSet(hours, G) = SumFunction(hours)
  BY <1>7, <1>9 DEF SumFunction
<1> HIDE DEF T
<1>15. \A x \in G : /\ ticks[x] \in Int /\ hours[x] \in Int
                    /\ 5 * ticks[x] <= 2 * hours[x] /\ 2 * hours[x] <= 5 * ticks[x] + 1
  <2> SUFFICES ASSUME NEW x \in G
               PROVE  /\ ticks[x] \in Int /\ hours[x] \in Int
                      /\ 5 * ticks[x] <= 2 * hours[x] /\ 2 * hours[x] <= 5 * ticks[x] + 1
    OBVIOUS
  <2>1. ticks[x] \in Int /\ hours[x] = TenthsFromTicks(ticks[x])
    BY <1>12
  <2>2. /\ TenthsFromTicks(ticks[x]) \in Int
        /\ 5 * ticks[x] <= 2 * TenthsFromTicks(ticks[x]) /\ 2 * TenthsFromTicks(ticks[x]) <= 5 * ticks[x] + 1
    BY <2>1, Rounded
  <2> QED  BY <2>1, <2>2
<1>16. SumFunction(hours) \in Int
  <2>1. G \in SUBSET G
    OBVIOUS
  <2> QED  BY <1>14, <1>15, <2>1, SumIsInt
<1>17. 5 * T <= 2 * SumFunction(hours) /\ 2 * SumFunction(hours) <= 5 * T + Cardinality(G)
  BY <1>14, <1>15, SumRounded
<1>18. TenthsFromTicks(T) \in Int /\ 5 * T <= 2 * TenthsFromTicks(T) /\ 2 * TenthsFromTicks(T) <= 5 * T + 1
  BY <1>13, Rounded
<1>19. Cardinality(G) \in Nat
  BY FS_CardinalityType
<1>20. SumFunction(hours) - TenthsFromTicks(T) \in 0 .. Cardinality(G) \div 2
  <2> DEFINE e == SumFunction(hours) - TenthsFromTicks(T)
  <2>1. e \in Int /\ 2 * e >= -1 /\ 2 * e <= Cardinality(G)
    BY <1>13, <1>16, <1>17, <1>18, <1>19
  <2> HIDE DEF e
  <2>2. e \in 0 .. Cardinality(G) \div 2
    BY <1>19, <2>1
  <2> QED  BY <2>2 DEF e
<1> QED  BY <1>11, <1>20 DEF S, T

LEMMA Headings ==
    ASSUME NEW list \in Seq(CachedShift), NEW c, DOMAIN c = DOMAIN list
    PROVE  IsFiniteSet({c[i] : i \in DOMAIN list}) /\ \A i \in DOMAIN list : c[i] \in {c[j] : j \in DOMAIN list}
<1> DEFINE T == {c[i] : i \in DOMAIN list}
<1> DEFINE f == [i \in DOMAIN list |-> c[i]]
<1>1. DOMAIN list = 1 .. Len(list) /\ Len(list) \in Nat
  OBVIOUS
<1>2. IsFiniteSet(1 .. Len(list))
  BY <1>1, FS_Interval
<1>3. f \in Surjection(DOMAIN list, T)
  BY DEF Surjection
<1> HIDE DEF f, T
<1>4. IsFiniteSet(T)
  BY <1>1, <1>2, <1>3, FS_Surjection
<1> QED  BY <1>4 DEF T

\* The list of a day has the shifts of that day, each once.
LEMMA DayList ==
    ASSUME NEW list \in Seq(CachedShift), NEW d \in DOMAIN ShiftsByDay(list)
    PROVE  LET own == {i \in DOMAIN list : DayOf(list[i].start) = d}
           IN  \E order \in Bijection(1 .. Cardinality(own), own) :
                   /\ Cardinality(own) \in Nat /\ IsFiniteSet(1 .. Cardinality(own))
                   /\ ShiftsByDay(list)[d] = [k \in 1 .. Cardinality(own) |-> list[order[k]]]
<1> DEFINE own == {i \in DOMAIN list : DayOf(list[i].start) = d}
<1> DEFINE R == {p \in own \X own : \/ list[p[1]].start < list[p[2]].start
                                    \/ list[p[1]].start = list[p[2]].start /\ p[1] < p[2]}
<1> DEFINE order == InOrder(own, R)
<1>1. DOMAIN list = 1 .. Len(list) /\ Len(list) \in Nat /\ \A i \in DOMAIN list : list[i] \in CachedShift
  OBVIOUS
<1>2. \A i \in DOMAIN list : i \in Int /\ list[i].start \in Int
  BY <1>1 DEF CachedShift
<1>3. own \in SUBSET DOMAIN list /\ IsFiniteSet(own)
  <2>1. IsFiniteSet(1 .. Len(list))
    BY <1>1, FS_Interval
  <2>2. own \in SUBSET (1 .. Len(list))
    BY <1>1
  <2> QED  BY <1>1, <2>1, <2>2, FS_Subset
<1>4. \A i, j \in own : <<i, j>> \in R <=> \/ list[i].start < list[j].start
                                           \/ list[i].start = list[j].start /\ i < j
  OBVIOUS
<1>5. ShiftsByDay(list)[d] = [k \in DOMAIN order |-> list[order[k]]]
  BY DEF ShiftsByDay
<1> HIDE DEF R, own
<1>6. StrictOrder(own, R)
  <2>1. \A i \in own : i \in Int /\ list[i].start \in Int
    BY <1>2, <1>3
  <2>2. ASSUME NEW i \in own PROVE <<i, i>> \notin R
    <3>1. i \in Int /\ list[i].start \in Int
      BY <2>1
    <3> QED  BY <1>4, <3>1
  <2>3. ASSUME NEW i \in own, NEW j \in own PROVE i = j \/ <<i, j>> \in R \/ <<j, i>> \in R
    <3>1. i \in Int /\ j \in Int /\ list[i].start \in Int /\ list[j].start \in Int
      BY <2>1
    <3> QED  BY <1>4, <3>1
  <2>4. ASSUME NEW i \in own, NEW j \in own, NEW k \in own, <<i, j>> \in R, <<j, k>> \in R PROVE <<i, k>> \in R
    <3>1. /\ i \in Int /\ j \in Int /\ k \in Int
          /\ list[i].start \in Int /\ list[j].start \in Int /\ list[k].start \in Int
      BY <2>1
    <3>2. list[i].start < list[j].start \/ (list[i].start = list[j].start /\ i < j)
      BY <1>4, <2>4
    <3>3. list[j].start < list[k].start \/ (list[j].start = list[k].start /\ j < k)
      BY <1>4, <2>4
    <3>4. list[i].start < list[k].start \/ (list[i].start = list[k].start /\ i < k)
      BY <3>1, <3>2, <3>3
    <3> QED  BY <1>4, <3>4
  <2> QED  BY <2>2, <2>3, <2>4 DEF StrictOrder
<1>7. /\ Cardinality(own) \in Nat /\ IsFiniteSet(1 .. Cardinality(own))
      /\ DOMAIN order = 1 .. Cardinality(own) /\ order \in Bijection(1 .. Cardinality(own), own)
  BY <1>3, <1>6, EachOnce
<1> HIDE DEF order
<1>8. ShiftsByDay(list)[d] = [k \in 1 .. Cardinality(own) |-> list[order[k]]]
  BY <1>5, <1>7
<1> QED  BY <1>7, <1>8 DEF own

\* Shifts of teams that are not hidden: as many in the list of a day as among
\* those of that day in the table.
LEMMA SameDay ==
    ASSUME NEW list \in Seq(CachedShift), NEW d \in DOMAIN ShiftsByDay(list)
    PROVE  LET shown == StatsShifts(list)
           IN  Cardinality({k \in DOMAIN shown : DayOf(shown[k].start) = d}) = Len(StatsShifts(ShiftsByDay(list)[d]))
<1> DEFINE Vis(s) == {i \in DOMAIN s : s[i].team \in VisibleTeams}
<1> DEFINE own == {i \in DOMAIN list : DayOf(list[i].start) = d}
<1> DEFINE both == {i \in DOMAIN list : list[i].team \in VisibleTeams /\ DayOf(list[i].start) = d}
<1> DEFINE day == ShiftsByDay(list)[d]
<1> DEFINE shown == StatsShifts(list)
<1>1. Cardinality({k \in DOMAIN shown : DayOf(shown[k].start) = d}) = Cardinality(both)
  <2> DEFINE V == Vis(list)
  <2>1. V \in SUBSET DOMAIN list /\ both \in SUBSET V
    OBVIOUS
  <2>2. \A i \in V : i \in both <=> DayOf(list[i].start) = d
    OBVIOUS
  <2>3. shown = Picked(list, V)
    BY DEF StatsShifts
  <2> HIDE DEF V, both, shown
  <2> DEFINE p == Ascending(V)
  <2> DEFINE those == {k \in DOMAIN shown : DayOf(shown[k].start) = d}
  <2>4. DOMAIN shown = DOMAIN p /\ \A k \in DOMAIN p : shown[k] = list[p[k]] /\ p[k] \in V
    <3>1. /\ DOMAIN Picked(list, V) = DOMAIN p
          /\ \A k \in DOMAIN p : Picked(list, V)[k] = list[p[k]] /\ p[k] \in V
      BY <2>1, PickedCount
    <3> QED  BY <2>3, <3>1
  <2>5. \A k : k \in those <=> k \in DOMAIN p /\ p[k] \in both
    <3> HIDE DEF p
    <3> QED  BY <2>2, <2>4
  <2> HIDE DEF those
  <2>6. Cardinality(those) = Cardinality(both)
    BY <2>1, <2>5, PickedWith
  <2> QED  BY <2>6 DEF those
<1>2. Len(StatsShifts(day)) = Cardinality(both)
  <2>1. PICK order \in Bijection(1 .. Cardinality(own), own) :
            /\ Cardinality(own) \in Nat /\ IsFiniteSet(1 .. Cardinality(own))
            /\ day = [k \in 1 .. Cardinality(own) |-> list[order[k]]]
    BY DayList
  <2>2. both \in SUBSET own /\ \A i \in own : i \in both <=> list[i].team \in VisibleTeams
    OBVIOUS
  <2>3. own \in SUBSET DOMAIN list
    OBVIOUS
  <2> HIDE DEF own, both, day
  <2>4. \A k \in 1 .. Cardinality(own) : order[k] \in own
    BY <2>1 DEF Bijection, Injection
  <2>5. day \in Seq(CachedShift) /\ DOMAIN day = 1 .. Cardinality(own)
    <3>1. \A k \in 1 .. Cardinality(own) : list[order[k]] \in CachedShift
      BY <2>3, <2>4
    <3> QED  BY <2>1, <3>1
  <2>6. Vis(day) = {k \in 1 .. Cardinality(own) : order[k] \in both}
    <3>1. \A k \in 1 .. Cardinality(own) : day[k].team \in VisibleTeams <=> order[k] \in both
      BY <2>1, <2>2, <2>4
    <3> QED  BY <2>5, <3>1
  <2>7. Cardinality(Vis(day)) = Cardinality(both)
    <3> DEFINE K == 1 .. Cardinality(own)
    <3>1. IsFiniteSet(K) /\ order \in Bijection(K, own)
      BY <2>1
    <3> HIDE DEF K
    <3>2. Cardinality({k \in K : order[k] \in both}) = Cardinality(both)
      BY <2>2, <3>1, Counted
    <3> QED  BY <2>6, <3>2 DEF K
  <2>8. StatsShifts(day) = Picked(day, Vis(day)) /\ Vis(day) \in SUBSET DOMAIN day
    BY DEF StatsShifts
  <2> HIDE DEF Vis
  <2>9. Len(Picked(day, Vis(day))) = Cardinality(Vis(day))
    BY <2>5, <2>8, PickedCount
  <2> QED  BY <2>7, <2>8, <2>9
<1> QED  BY <1>1, <1>2

\* The statistics add up by team, by day and by user, in shifts exactly, in
\* hours up to half a tenth for each row, and the list of a single user has as
\* many shifts on each day as the table.
THEOREM TablesAddUp == Spec => []StatsAddUp
<1>1. Shape => StatsAddUp
  <2> SUFFICES ASSUME Shape PROVE StatsAddUp
    OBVIOUS
  <2> DEFINE v == StatsShifts(Shown)
  <2> DEFINE stats == Stats(v)
  <2> DEFINE AddsUp(g) == /\ SumFunction([x \in DOMAIN g |-> g[x].count]) = stats.total.count
                          /\ SumFunction([x \in DOMAIN g |-> g[x].hours]) - stats.total.hours
                                \in 0 .. Cardinality(DOMAIN g) \div 2
  <2>1. Shown \in Seq(CachedShift)
    BY ScreenTypes
  <2> DEFINE V == {i \in DOMAIN Shown : Shown[i].team \in VisibleTeams}
  <2>2. v \in Seq(CachedShift) /\ \A k \in DOMAIN v : v[k].team \in VisibleTeams
    <3>1. v = Picked(Shown, V)
      BY DEF StatsShifts
    <3>2. V \in SUBSET DOMAIN Shown /\ \A i \in V : Shown[i].team \in VisibleTeams
      OBVIOUS
    <3> HIDE DEF V, v
    <3>3. v \in Seq(CachedShift)
      BY <2>1, <3>1, <3>2, PickedTypes
    <3>4. /\ DOMAIN v = DOMAIN Ascending(V)
          /\ \A k \in DOMAIN Ascending(V) : v[k] = Shown[Ascending(V)[k]] /\ Ascending(V)[k] \in V
      BY <2>1, <3>1, <3>2, PickedCount
    <3> QED  BY <3>2, <3>3, <3>4
  <2> HIDE DEF v
  <2> DEFINE Own(c, x) == {i \in DOMAIN v : c[i] = x}
  <2> DEFINE Hours(own) == TenthsFromTicks(SumFunctionOnSet(Ticks(v), own))
  <2> DEFINE Under(c, x) == [hours |-> Hours(Own(c, x)), count |-> Cardinality(Own(c, x))]
  <2> DEFINE team == [i \in DOMAIN v |-> v[i].team]
  <2> DEFINE day == [i \in DOMAIN v |-> DayOf(v[i].start)]
  <2> DEFINE user == [i \in DOMAIN v |-> v[i].user]
  <2>3. /\ stats.total = [hours |-> Hours(DOMAIN v), count |-> Cardinality(DOMAIN v)]
        /\ stats.perTeam = [x \in VisibleTeams |-> Under(team, x)]
        /\ stats.perDay = [x \in {day[i] : i \in DOMAIN v} |-> Under(day, x)]
        /\ stats.perUser = [x \in {user[i] : i \in DOMAIN v} |-> Under(user, x)]
    <3>1. {i \in DOMAIN v : TRUE} = DOMAIN v
      OBVIOUS
    <3>2. stats.total = [hours |-> Hours(DOMAIN v), count |-> Cardinality(DOMAIN v)]
      BY <3>1 DEF Stats, Group
    <3>3. \A x : Own(team, x) = {i \in DOMAIN v : v[i].team = x}
      OBVIOUS
    <3>4. \A x : Own(day, x) = {i \in DOMAIN v : DayOf(v[i].start) = x}
      OBVIOUS
    <3>5. \A x : Own(user, x) = {i \in DOMAIN v : v[i].user = x}
      OBVIOUS
    <3>6. {day[i] : i \in DOMAIN v} = {DayOf(v[i].start) : i \in DOMAIN v}
      OBVIOUS
    <3>7. {user[i] : i \in DOMAIN v} = {v[i].user : i \in DOMAIN v}
      OBVIOUS
    <3> HIDE DEF Own, team, day, user
    <3>8. stats.perTeam = [x \in VisibleTeams |-> Under(team, x)]
      BY <3>3 DEF Stats, Group
    <3>9. stats.perDay = [x \in {day[i] : i \in DOMAIN v} |-> Under(day, x)]
      BY <3>4, <3>6 DEF Stats, Group
    <3>10. stats.perUser = [x \in {user[i] : i \in DOMAIN v} |-> Under(user, x)]
      BY <3>5, <3>7 DEF Stats, Group
    <3> QED  BY <3>2, <3>8, <3>9, <3>10
  <2>4. ASSUME NEW G, IsFiniteSet(G), NEW c, \A i \in DOMAIN v : c[i] \in G,
               NEW g, g = [x \in G |-> Under(c, x)]
        PROVE  AddsUp(g)
    <3> DEFINE counts == [x \in DOMAIN g |-> g[x].count]
    <3> DEFINE hours == [x \in DOMAIN g |-> g[x].hours]
    <3> DEFINE own == [x \in G |-> Own(c, x)]
    <3>1. \A x \in G : own[x] \in SUBSET DOMAIN v /\ \A i : i \in own[x] <=> i \in DOMAIN v /\ c[i] = x
      OBVIOUS
    <3>2. /\ SumFunction(counts) = Cardinality(DOMAIN v) /\ DOMAIN g = G
          /\ SumFunction(hours) - TenthsFromTicks(SumFunctionOnSet(Ticks(v), DOMAIN v))
                \in 0 .. Cardinality(G) \div 2
      <4> HIDE DEF team, day, user, stats
      <4>1. \A x \in G : own[x] = Own(c, x)
        OBVIOUS
      <4> HIDE DEF own, Own
      <4>2. DOMAIN counts = G /\ \A x \in G : counts[x] = Cardinality(own[x])
        BY <2>4, <4>1
      <4>3. DOMAIN hours = G /\ \A x \in G : hours[x] = TenthsFromTicks(SumFunctionOnSet(Ticks(v), own[x]))
        BY <2>4, <4>1
      <4> HIDE DEF counts, hours
      <4>4. IsFiniteSet(G) /\ DOMAIN g = G /\ \A i \in DOMAIN v : c[i] \in G
        BY <2>4
      <4> HIDE DEF Under, Hours
      <4> QED  BY <2>2, <3>1, <4>2, <4>3, <4>4, TableAddsUp
    <3>3. /\ stats.total.count = Cardinality(DOMAIN v)
          /\ stats.total.hours = TenthsFromTicks(SumFunctionOnSet(Ticks(v), DOMAIN v))
      BY <2>3
    <3> QED  BY <3>2, <3>3
  <2>5. DOMAIN team = DOMAIN v /\ DOMAIN day = DOMAIN v /\ DOMAIN user = DOMAIN v
    OBVIOUS
  <2>6. \A i \in DOMAIN v : team[i] \in VisibleTeams /\ day[i] = DayOf(v[i].start)
    BY <2>2
  <2>7. \A k \in DOMAIN v : {i \in DOMAIN v : day[i] = day[k]} = {i \in DOMAIN v : DayOf(v[i].start) = day[k]}
    OBVIOUS
  <2> HIDE DEF team, day, user, stats, AddsUp, Under
  <2>8. AddsUp(stats.perTeam)
    <3>1. IsFiniteSet(VisibleTeams)
      BY EventPageAssumption
    <3> QED  BY <2>3, <2>4, <2>6, <3>1
  <2>9. AddsUp(stats.perDay)
    <3>1. IsFiniteSet({day[i] : i \in DOMAIN v}) /\ \A i \in DOMAIN v : day[i] \in {day[j] : j \in DOMAIN v}
      BY <2>2, <2>5, Headings
    <3> QED  BY <2>3, <2>4, <3>1
  <2>10. AddsUp(stats.perUser)
    <3>1. IsFiniteSet({user[i] : i \in DOMAIN v}) /\ \A i \in DOMAIN v : user[i] \in {user[j] : j \in DOMAIN v}
      BY <2>2, <2>5, Headings
    <3> QED  BY <2>3, <2>4, <3>1
  <2>11. ASSUME NEW d \in DOMAIN stats.perDay
         PROVE  stats.perDay[d].count = Len(StatsShifts(ShiftsByDay(Shown)[d]))
    <3>1. d \in {day[i] : i \in DOMAIN v} /\ stats.perDay[d].count = Cardinality({i \in DOMAIN v : day[i] = d})
      BY <2>3, <2>11 DEF Under
    <3>2. Cardinality({i \in DOMAIN v : day[i] = d}) = Cardinality({i \in DOMAIN v : DayOf(v[i].start) = d})
      BY <2>7, <3>1
    <3>3. d \in DOMAIN ShiftsByDay(Shown)
      <4>1. PICK k \in DOMAIN v : d = DayOf(v[k].start)
        BY <2>6, <3>1
      <4>2. v = Picked(Shown, V)
        BY DEF StatsShifts, v
      <4>3. V \in SUBSET DOMAIN Shown
        OBVIOUS
      <4> HIDE DEF V
      <4>4. v[k] = Shown[Ascending(V)[k]] /\ Ascending(V)[k] \in V
        BY <2>1, <4>2, <4>3, PickedCount
      <4>5. d \in {DayOf(Shown[i].start) : i \in DOMAIN Shown}
        BY <4>1, <4>3, <4>4
      <4> QED  BY <4>5 DEF ShiftsByDay
    <3>4. Cardinality({i \in DOMAIN v : DayOf(v[i].start) = d}) = Len(StatsShifts(ShiftsByDay(Shown)[d]))
      BY <2>1, <3>3, SameDay DEF v
    <3> QED  BY <3>1, <3>2, <3>4
  <2>12. AddsUp(stats.perTeam) /\ AddsUp(stats.perDay) /\ AddsUp(stats.perUser)
    BY <2>8, <2>9, <2>10
  <2> QED  BY <2>11, <2>12 DEF StatsAddUp, stats, v, AddsUp
<1> QED  BY <1>1, ShapeHolds, PTL

=============================================================================
