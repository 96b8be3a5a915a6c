-------------------------- MODULE FairShareProofs --------------------------
(***************************************************************************)
(* Theorems about FairShare, for every distribution, every zone and every  *)
(* set of minutes at which the clock is looked at.                         *)
(***************************************************************************)
EXTENDS FairShare, FiniteSetTheorems, WellFoundedInduction, TLAPS

-----------------------------------------------------------------------------
(* The calendar.                                                           *)

InDay(n) == n \in Int /\ 0 <= n /\ n < 1440

LEMMA DayMinutesInDay == \A n : n \in DayMinutes <=> InDay(n)
<1>1. MinutesPerDay \in Int
  BY DEF MinutesPerDay
<1>2. \A n : n \in DayMinutes <=> n \in Int /\ 0 <= n /\ n < MinutesPerDay
  BY <1>1 DEF DayMinutes
<1> QED
  BY <1>2 DEF InDay, MinutesPerDay

LEMMA DaySplit ==
    ASSUME NEW n \in Int
    PROVE  /\ n \div 1440 \in Int /\ InDay(n % 1440)
           /\ n = 1440 * (n \div 1440) + (n % 1440)
BY Z3 DEF InDay

LEMMA LocalClock ==
    ASSUME NEW zone \in Zones, NEW t \in Int
    PROVE  /\ LocalTime(zone, t) \in Int
           /\ LocalDay(zone, t) \in Int
           /\ InDay(LocalMinute(zone, t))
           /\ LocalTime(zone, t) = 1440 * LocalDay(zone, t) + LocalMinute(zone, t)
<1> DEFINE n == LocalTime(zone, t)
<1>1. n \in Int
  BY DEF Zones, LocalTime
<1> HIDE DEF n
<1>2. /\ n \div 1440 \in Int /\ InDay(n % 1440)
      /\ n = 1440 * (n \div 1440) + (n % 1440)
  BY <1>1, DaySplit
<1> QED
  BY <1>1, <1>2 DEF n, LocalDay, LocalMinute, MinutesPerDay

LEMMA LaterMinuteLaterDay ==
    ASSUME NEW m \in Int, NEW n \in Int, m <= n
    PROVE  m \div 1440 <= n \div 1440
BY DaySplit DEF InDay

(* A calendar runs forward but at the change of the clocks.                *)
LEMMA CalendarRuns ==
    ASSUME NEW zone \in Zones, NEW t \in Int, NEW u \in Int, t <= u,
           ~TurnsBack(zone) \/ u < zone.change \/ t >= zone.change
    PROVE  LocalDay(zone, t) <= LocalDay(zone, u)
<1> DEFINE c == zone.change
<1>1. c \in Int /\ c - 1 \in Int /\ zone.before \in Int /\ zone.after \in Int
  BY DEF Zones
<1>2. \A v, w \in Int : v <= w /\ (w < c \/ v >= c) =>
          LocalDay(zone, v) <= LocalDay(zone, w)
  <2>1. ASSUME NEW v \in Int, NEW w \in Int, v <= w, w < c \/ v >= c
        PROVE  LocalTime(zone, v) <= LocalTime(zone, w)
    BY <1>1, <2>1 DEF LocalTime
  <2> QED
    BY <2>1, LocalClock, LaterMinuteLaterDay DEF LocalDay, MinutesPerDay
<1>3. CASE u < c \/ t >= c
  BY <1>2, <1>3
<1>4. CASE t < c /\ c <= u
  <2>0. ~TurnsBack(zone) /\ t <= c - 1
    BY <1>1, <1>4
  <2>1. ~(LocalDay(zone, c - 1) > LocalDay(zone, c))
    BY <2>0 DEF TurnsBack
  <2>2. LocalDay(zone, t) <= LocalDay(zone, c - 1)
    <3>1. t <= c - 1 /\ c - 1 < c
      BY <1>1, <2>0
    <3> QED
      BY <1>1, <1>2, <3>1
  <2>3. LocalDay(zone, c) <= LocalDay(zone, u)
    BY <1>1, <1>2, <1>4
  <2>4. /\ LocalDay(zone, t) \in Int /\ LocalDay(zone, u) \in Int
        /\ LocalDay(zone, c - 1) \in Int /\ LocalDay(zone, c) \in Int
    BY <1>1, LocalClock
  <2> QED
    BY <2>1, <2>2, <2>3, <2>4
<1> QED
  BY <1>1, <1>3, <1>4

-----------------------------------------------------------------------------
(* Eligibility.                                                            *)

LEMMA SmallRemainder ==
    ASSUME NEW z \in Int, z < 1440, z > 0 - 1440, NEW j \in Int, NEW k,
           InDay(k), z = 1440 * j + k
    PROVE  (0 <= z => k = z) /\ (z < 0 => k = z + 1440)
<1> USE DEF InDay
<1>1. j = 0 \/ j = 0 - 1
  OBVIOUS
<1>2. CASE j = 0
  BY <1>2
<1>3. CASE j = 0 - 1
  BY <1>3
<1> QED
  BY <1>1, <1>2, <1>3

LEMMA RemainderOfSmall ==
    ASSUME NEW z \in Int, z < 1440, z > 0 - 1440
    PROVE  (0 <= z => z % 1440 = z) /\ (z < 0 => z % 1440 = z + 1440)
<1> DEFINE j == z \div 1440
           k == z % 1440
<1>1. j \in Int /\ InDay(k) /\ z = 1440 * j + k
  BY DaySplit
<1> HIDE DEF j, k
<1>2. (0 <= z => k = z) /\ (z < 0 => k = z + 1440)
  BY <1>1, SmallRemainder
<1> QED
  BY <1>2 DEF k

(* The half-open window of the code contains a minute if and only if fewer *)
(* minutes have passed since the opening than the window is long.          *)
LEMMA WindowIsHalfOpen ==
    ASSUME NEW open, NEW close, InDay(open), InDay(close), NEW n \in Int
    PROVE  WindowContains(open, close, n % 1440) <=>
               (n - open) % 1440 < (IF open = close THEN 1440
                                    ELSE (close - open) % 1440)
<1> DEFINE x == n - open
           y == close - open
           d == n \div 1440
           m == n % 1440
           e == x \div 1440
           k == x % 1440
           l == y % 1440
           z == m - open
           j == e - d
<1>1. /\ x \in Int /\ x = n - open
      /\ y \in Int /\ y = close - open /\ y < 1440 /\ y > 0 - 1440
  BY DEF InDay
<1> HIDE DEF x, y
<1>2. d \in Int /\ InDay(m) /\ n = 1440 * d + m
  BY DaySplit
<1>3. e \in Int /\ InDay(k) /\ x = 1440 * e + k
  BY <1>1, DaySplit
<1>4. (0 <= y => l = y) /\ (y < 0 => l = y + 1440)
  BY <1>1, RemainderOfSmall
<1> HIDE DEF d, m, e, k, l
<1>5. z \in Int /\ z < 1440 /\ z > 0 - 1440 /\ j \in Int /\ z = 1440 * j + k
  <2>1. m \in Int /\ 0 <= m /\ m < 1440 /\ open \in Int /\ 0 <= open /\ open < 1440
    BY <1>2 DEF InDay
  <2>2. k \in Int /\ n - open = 1440 * e + k
    BY <1>1, <1>3 DEF InDay
  <2>3. z \in Int /\ z < 1440 /\ z > 0 - 1440
    BY <2>1
  <2>4. z = 1440 * j + k
    BY <1>2, <1>3, <2>1, <2>2
  <2> QED
    BY <1>2, <1>3, <2>3, <2>4
<1>6. z = m - open
  OBVIOUS
<1> HIDE DEF z, j
<1>7. (0 <= z => k = z) /\ (z < 0 => k = z + 1440)
  BY <1>3, <1>5, SmallRemainder
<1>8. WindowContains(open, close, m) <=> k < (IF open = close THEN 1440 ELSE l)
  BY <1>1, <1>2, <1>4, <1>6, <1>7 DEF WindowContains, InDay
<1> QED
  BY <1>8 DEF k, l, m, x, y

(* What the members and their candidates are.                              *)
LEMMA MemberTerms ==
    ASSUME setup \in Setups, NEW b \in BrokerIds
    PROVE  /\ Zone(b) \in Zones
           /\ setup.members[b].percentage \in 0..Whole
           /\ setup.members[b].dailyCap \in Nat
           /\ InDay(setup.members[b].openingMinutes)
           /\ InDay(setup.members[b].closingMinutes)
           /\ b \in Nat
<1> DEFINE m == setup.members[b]
<1>1. m \in Terms
  BY FairShareAssumption
<1>2. b \in Nat
  BY FairShareAssumption
<1> HIDE DEF m
<1>3. /\ m.zone \in Zones /\ m.percentage \in 0..Whole /\ m.dailyCap \in Nat
      /\ InDay(m.openingMinutes) /\ InDay(m.closingMinutes)
  BY <1>1, DayMinutesInDay DEF Terms
<1> QED
  BY <1>2, <1>3 DEF m, Zone

CountersOK ==
    /\ DOMAIN counters \subseteq BrokerIds \X Int
    /\ \A k \in DOMAIN counters : counters[k] \in Nat \ {0}

LEMMA SentIsNat == ASSUME CountersOK, NEW k PROVE SentOn(k) \in Nat
BY DEF CountersOK, SentOn

LEMMA CandidateFields ==
    ASSUME setup \in Setups, CountersOK, NEW b \in BrokerIds, NEW t \in Int
    PROVE  /\ Candidate(b, t).id = b
           /\ Candidate(b, t).percentage = setup.members[b].percentage
           /\ Candidate(b, t).sentToday = SentToday(b, t)
           /\ SentToday(b, t) \in Nat
BY SentIsNat DEF Candidate, SentToday

(* The rules of canReceiveAt select exactly the members that are on duty   *)
(* and open, with a share and a slot left.                                 *)
LEMMA EligibleMeansMayReceive ==
    ASSUME setup \in Setups, CountersOK, NEW b \in BrokerIds, NEW t \in Int
    PROVE  CanReceive(Candidate(b, t)) <=> MayReceive(b, t)
<1> DEFINE m == setup.members[b]
           c == Candidate(b, t)
<1>1. /\ c.isActive = TRUE /\ c.isActiveInDistribution = TRUE
      /\ c.percentage = m.percentage /\ c.dailyCap = m.dailyCap
      /\ c.openingMinutes = m.openingMinutes /\ c.closingMinutes = m.closingMinutes
      /\ c.workingDays = m.workingDays /\ c.isoWeekday = IsoWeekday(m.zone, t)
      /\ c.minute = LocalMinute(m.zone, t) /\ c.sentToday = SentToday(b, t)
  BY DEF Candidate
<1>2. /\ m.percentage \in 0..Whole /\ m.dailyCap \in Nat
      /\ InDay(m.openingMinutes) /\ InDay(m.closingMinutes)
      /\ m.zone \in Zones
  BY MemberTerms, Zenon DEF Zone
<1>3. SentToday(b, t) \in Nat
  BY CandidateFields, Zenon
<1>4. WindowContains(m.openingMinutes, m.closingMinutes, LocalMinute(m.zone, t)) <=>
          (LocalTime(m.zone, t) - m.openingMinutes) % MinutesPerDay < OpenFor(m)
  <2> DEFINE o == m.openingMinutes
             e == m.closingMinutes
             n == LocalTime(m.zone, t)
  <2>1. n \in Int
    BY <1>2, LocalClock
  <2>2. InDay(o) /\ InDay(e)
    BY <1>2, Zenon
  <2> HIDE DEF o, e, n
  <2>3. WindowContains(o, e, n % 1440) <=>
            (n - o) % 1440 < (IF o = e THEN 1440 ELSE (e - o) % 1440)
    BY <2>1, <2>2, WindowIsHalfOpen
  <2> QED
    BY <2>3 DEF o, e, n, LocalMinute, OpenFor, MinutesPerDay
<1> HIDE DEF c, m
<1>5. CanReceive(c) <=>
          /\ ~(~c.isActive \/ ~c.isActiveInDistribution)
          /\ ~(c.percentage <= 0)
          /\ ~(c.isoWeekday \notin c.workingDays)
          /\ WindowContains(c.openingMinutes, c.closingMinutes, c.minute)
          /\ ~(c.dailyCap > 0 /\ c.sentToday >= c.dailyCap)
  <2> DEFINE f == RuleFires(c)
  <2>1. /\ DOMAIN f = {"inactive", "zero_pct", "off_day", "closed", "capped"}
        /\ f["inactive"] = (~c.isActive \/ ~c.isActiveInDistribution)
        /\ f["zero_pct"] = (c.percentage <= 0)
        /\ f["off_day"] = (c.isoWeekday \notin c.workingDays)
        /\ f["closed"] = ~WindowContains(c.openingMinutes, c.closingMinutes, c.minute)
        /\ f["capped"] = (c.dailyCap > 0 /\ c.sentToday >= c.dailyCap)
    BY DEF RuleFires
  <2>2. CanReceive(c) <=> \A r \in DOMAIN f : ~f[r]
    BY DEF CanReceive
  <2> HIDE DEF f
  <2> QED
    BY <2>1, <2>2, Zenon
<1>6. MayReceive(b, t) <=>
        /\ m.percentage > 0
        /\ IsoWeekday(m.zone, t) \in m.workingDays
        /\ (LocalTime(m.zone, t) - m.openingMinutes) % MinutesPerDay < OpenFor(m)
        /\ m.dailyCap = 0 \/ SentToday(b, t) < m.dailyCap
  BY DEF MayReceive, m
<1>7. CanReceive(c) <=>
          /\ ~(m.percentage <= 0)
          /\ IsoWeekday(m.zone, t) \in m.workingDays
          /\ WindowContains(m.openingMinutes, m.closingMinutes, LocalMinute(m.zone, t))
          /\ ~(m.dailyCap > 0 /\ SentToday(b, t) >= m.dailyCap)
  BY <1>1, <1>5, Zenon
<1>10. m.percentage \in Nat
  <2>1. Whole \in Int
    BY DEF Whole
  <2> QED
    BY <1>2, <2>1
<1>8. (m.percentage > 0 <=> ~(m.percentage <= 0)) /\
      ((m.dailyCap = 0 \/ SentToday(b, t) < m.dailyCap) <=>
          ~(m.dailyCap > 0 /\ SentToday(b, t) >= m.dailyCap))
  BY <1>2, <1>3, <1>10
<1>9. CanReceive(c) <=> MayReceive(b, t)
  BY <1>4, <1>6, <1>7, <1>8, Zenon
<1> QED
  BY <1>9 DEF c

-----------------------------------------------------------------------------
(* The head of the sorted list.                                            *)

LEMMA Minimum ==
    ASSUME NEW S \in SUBSET Nat, S # {}
    PROVE  \E c \in S : \A d \in S : c <= d
<1> DEFINE Less == OpToRel(<, Nat)
<1>1. \E c \in S : \A d \in S : <<d, c>> \notin Less
  <2>1. IsWellFoundedOn(Less, Nat)
    BY NatLessThanWellFounded
  <2> HIDE DEF Less
  <2> QED
    BY <2>1, WFMin
<1>2. \A c, d \in S : <<d, c>> \notin Less => c <= d
  BY DEF OpToRel
<1> QED
  BY <1>1, <1>2

(* A set has an element of the least value of any measure.                 *)
LEMMA LeastMeasure ==
    ASSUME NEW S, S # {}, NEW f, \A c \in S : f[c] \in Nat
    PROVE  \E c \in S : \A d \in S : f[c] <= f[d]
<1> DEFINE V == {f[c] : c \in S}
<1>1. V \in SUBSET Nat /\ V # {}
  OBVIOUS
<1>2. \A c \in S : f[c] \in V
  OBVIOUS
<1>3. \A v \in V : \E c \in S : v = f[c]
  OBVIOUS
<1> HIDE DEF V
<1>4. PICK v \in V : \A w \in V : v <= w
  BY <1>1, Minimum
<1> QED
  BY <1>2, <1>3, <1>4

(* What the sort is given: rows with a share, a count and an id of their   *)
(* own, and a target no larger than that of a whole share.                 *)
Sortable(S, total, down) ==
    /\ \A c \in S : /\ c.id \in Nat /\ c.sentToday \in Nat
                    /\ Deficit(c, total, down) \in Int
    /\ \E bound \in Int : \A c \in S : Deficit(c, total, down) <= bound
    /\ \A c, d \in S : c.id = d.id => c = d

(* Sorting a list that is not empty yields a first element, all deficits   *)
(* negative included.                                                      *)
LEMMA SomebodyWins ==
    ASSUME NEW S, NEW total, NEW down, Sortable(S, total, down), S # {}
    PROVE  \E c \in S : \A d \in S \ {c} : Beats(c, d, total, down)
<1>1. PICK bound \in Int : \A c \in S : Deficit(c, total, down) <= bound
  BY DEF Sortable
<1> DEFINE f == [c \in S |-> bound - Deficit(c, total, down)]
           g == [c \in S |-> c.sentToday]
           h == [c \in S |-> c.id]
<1>2. \A c \in S : /\ f[c] \in Nat /\ g[c] \in Nat /\ h[c] \in Nat
                   /\ f[c] = bound - Deficit(c, total, down)
                   /\ g[c] = c.sentToday /\ h[c] = c.id
                   /\ Deficit(c, total, down) \in Int
  BY <1>1 DEF Sortable
<1> HIDE DEF f, g, h
<1>3. PICK x \in S : \A d \in S : f[x] <= f[d]
  BY <1>2, LeastMeasure
<1> DEFINE T == {c \in S : f[c] = f[x]}
<1>4. PICK y \in T : \A d \in T : g[y] <= g[d]
  BY <1>2, LeastMeasure
<1> DEFINE U == {c \in T : g[c] = g[y]}
<1>5. PICK z \in U : \A d \in U : h[z] <= h[d]
  BY <1>2, LeastMeasure
<1>6. ASSUME NEW d \in S \ {z} PROVE Beats(z, d, total, down)
  <2>1. z \in S /\ f[z] = f[x] /\ g[z] = g[y]
    OBVIOUS
  <2>2. d.id # z.id
    BY <1>6, <2>1 DEF Sortable
  <2>3. CASE f[d] # f[x]
    <3>1. f[d] > f[z]
      BY <1>2, <1>3, <2>1, <2>3
    <3> QED
      BY <1>2, <2>1, <3>1 DEF Beats
  <2>4. CASE f[d] = f[x] /\ g[d] # g[y]
    <3>1. g[d] > g[z] /\ f[d] = f[z]
      BY <1>2, <1>4, <2>1, <2>4
    <3> QED
      BY <1>2, <2>1, <3>1 DEF Beats
  <2>5. CASE f[d] = f[x] /\ g[d] = g[y]
    <3>1. g[d] = g[z] /\ f[d] = f[z] /\ h[z] <= h[d]
      BY <1>5, <2>1, <2>5
    <3> QED
      BY <1>2, <2>1, <2>2, <3>1 DEF Beats
  <2> QED
    BY <2>3, <2>4, <2>5
<1> QED
  BY <1>6

-----------------------------------------------------------------------------
(* One routing transaction.                                                *)

(* What the prover needs to know of the page besides TypeOK.               *)
PageShape == DOMAIN page = {"opened", "views", "next", "at"}

TypeInv == TypeOK /\ PageShape

LEMMA InstantsAreNat == ASSUME TypeOK PROVE setup.instants \subseteq Nat /\ now \in Nat
BY FairShareAssumption DEF TypeOK

LEMMA ReadingsAreNow ==
    ASSUME TypeOK, NEW r \in Readings
    PROVE  /\ r.assigned \in setup.instants /\ r.assigned \in {now, now + 1}
           /\ r.counted \in {now, now + 1} /\ r.counted <= r.assigned
           /\ \A b \in BrokerIds : /\ r.at[b] \in {now, now + 1}
                                   /\ r.at[b] <= r.assigned
                                   /\ r.at[b] \in Int
<1>1. now \in Nat
  BY InstantsAreNat
<1> QED
  BY <1>1 DEF Readings

LEMMA SelectedIsBest ==
    ASSUME TypeOK, NEW r \in Readings, NEW w,
           w \in {c.id : c \in SelectedWith(r)}
    PROVE  /\ w \in BrokerIds
           /\ MayReceive(w, r.at[w])
           /\ \A b \in BrokerIds \ {w} : MayReceive(b, r.at[b]) =>
                  \E down : Beats(Candidate(w, r.at[w]), Candidate(b, r.at[b]),
                                  TotalSentToday(r.counted), down)
<1> DEFINE total == TotalSentToday(r.counted)
           C(b) == Candidate(b, r.at[b])
<1> HIDE DEF total
<1>1. setup \in Setups /\ CountersOK
  BY DEF TypeOK, CountersOK
<1>2. \A b \in BrokerIds : r.at[b] \in Int
  BY ReadingsAreNow
<1>3. \A b \in BrokerIds : C(b).id = b /\ (CanReceive(C(b)) <=> MayReceive(b, r.at[b]))
  BY <1>1, <1>2, CandidateFields, EligibleMeansMayReceive
<1> HIDE DEF C
<1>4. SelectedWith(r) = Selected({C(b) : b \in BrokerIds}, total)
  BY DEF SelectedWith, C, total
<1>5. PICK v \in BrokerIds : C(v) \in SelectedWith(r) /\ w = C(v).id
  BY <1>4 DEF Selected, Eligible
<1>6. v = w
  BY <1>3, <1>5
<1>7. CanReceive(C(w)) /\ \A b \in BrokerIds :
          CanReceive(C(b)) /\ C(b) # C(w) => \E down : Beats(C(w), C(b), total, down)
  BY <1>4, <1>5, <1>6 DEF Selected, Eligible
<1>8. \A b \in BrokerIds \ {w} : C(b) # C(w)
  BY <1>3, <1>5, <1>6
<1> QED
  BY <1>3, <1>5, <1>6, <1>7, <1>8 DEF C, total

(* The targets of one routing, under the target of a whole share.          *)
LEMMA TargetIsBounded ==
    ASSUME NEW pct \in 0..Whole, NEW total \in Nat
    PROVE  /\ TargetAfterLead(pct, total, {}) \in Int
           /\ TargetAfterLead(pct, total, {}) <= TargetAfterLead(Whole, total, {})
<1> DEFINE x == pct * (total + 1) + 50
           y == Whole * (total + 1) + 50
<1>1. Whole \in Nat /\ pct \in Nat /\ pct <= Whole
  <2>1. Whole \in Nat
    BY DEF Whole
  <2> QED
    BY <2>1
<1>2. x \in Nat /\ y \in Nat
  BY <1>1
<1>3. x <= y
  <2>1. PICK k \in Nat : Whole = pct + k
    BY <1>1
  <2>2. Whole * (total + 1) = pct * (total + 1) + k * (total + 1)
    BY <1>1, <2>1
  <2>3. k * (total + 1) \in Nat /\ pct * (total + 1) \in Nat
    BY <1>1, <2>1
  <2> QED
    BY <2>2, <2>3
<1>4. /\ TargetAfterLead(pct, total, {}) = x \div 100
      /\ TargetAfterLead(Whole, total, {}) = y \div 100
  BY DEF TargetAfterLead
<1> HIDE DEF x, y
<1>5. x \div 100 \in Int /\ y \div 100 \in Int /\ x \div 100 <= y \div 100
  BY <1>2, <1>3, Z3
<1> QED
  BY <1>4, <1>5

LEMMA SoldOnDayIsFinite ==
    ASSUME IsFiniteSet(sales), NEW zone, NEW t
    PROVE  IsFiniteSet(SoldOnDay(zone, t)) /\ Cardinality(SoldOnDay(zone, t)) \in Nat
BY FS_Subset, FS_CardinalityType DEF SoldOnDay

(* If anybody may receive the lead, somebody is selected.                  *)
LEMMA NobodySelectedNobodyMay ==
    ASSUME TypeOK, NEW r \in Readings, SelectedWith(r) = {}
    PROVE  \A b \in BrokerIds : ~MayReceive(b, r.at[b])
<1> DEFINE total == TotalSentToday(r.counted)
           C(b) == Candidate(b, r.at[b])
           S == Eligible({C(b) : b \in BrokerIds})
<1>1. setup \in Setups /\ CountersOK /\ total \in Nat
  BY SoldOnDayIsFinite DEF TypeOK, CountersOK, TotalSentToday
<1> HIDE DEF total
<1>2. \A b \in BrokerIds : r.at[b] \in Int
  BY ReadingsAreNow
<1>3. \A b \in BrokerIds :
          /\ C(b).id = b /\ b \in Nat /\ C(b).sentToday \in Nat
          /\ C(b).percentage \in 0..Whole
          /\ (CanReceive(C(b)) <=> MayReceive(b, r.at[b]))
  BY <1>1, <1>2, CandidateFields, EligibleMeansMayReceive, MemberTerms
<1> HIDE DEF C
<1>4. Selected({C(b) : b \in BrokerIds}, total) = {}
  BY DEF SelectedWith, C, total
<1>5. S = {}
  <2> SUFFICES ASSUME S # {} PROVE FALSE
    OBVIOUS
  <2>1. \A c \in S : \E b \in BrokerIds : c = C(b)
    BY DEF Eligible
  <2> HIDE DEF S
  <2>2. \A c \in S : /\ c.id \in Nat /\ c.sentToday \in Nat
                     /\ Deficit(c, total, {}) \in Int
                     /\ Deficit(c, total, {}) <= TargetAfterLead(Whole, total, {})
    <3> SUFFICES ASSUME NEW c \in S
                 PROVE  /\ c.id \in Nat /\ c.sentToday \in Nat
                        /\ Deficit(c, total, {}) \in Int
                        /\ Deficit(c, total, {}) <= TargetAfterLead(Whole, total, {})
      OBVIOUS
    <3>1. c.id \in Nat /\ c.sentToday \in Nat /\ c.percentage \in 0..Whole
      BY <1>3, <2>1
    <3>2. Whole \in 0..Whole
      BY DEF Whole
    <3>3. /\ TargetAfterLead(c.percentage, total, {}) \in Int
          /\ TargetAfterLead(Whole, total, {}) \in Int
          /\ TargetAfterLead(c.percentage, total, {}) <= TargetAfterLead(Whole, total, {})
      BY <1>1, <3>1, <3>2, TargetIsBounded
    <3> QED
      BY <3>1, <3>3 DEF Deficit
  <2>3. TargetAfterLead(Whole, total, {}) \in Int
    <3>1. Whole \in 0..Whole
      BY DEF Whole
    <3> QED
      BY <1>1, <3>1, TargetIsBounded
  <2>4. \A c, d \in S : c.id = d.id => c = d
    BY <1>3, <2>1
  <2>5. Sortable(S, total, {})
    BY <2>2, <2>3, <2>4 DEF Sortable
  <2>6. PICK c \in S : \A d \in S \ {c} : Beats(c, d, total, {})
    BY <2>5, SomebodyWins
  <2>7. {} \in SUBSET Halves({C(b) : b \in BrokerIds}, total)
    OBVIOUS
  <2> QED
    BY <1>4, <2>6, <2>7 DEF Selected, S
<1> QED
  BY <1>3, <1>5 DEF Eligible

(* Everything a routing transaction that sells does.                       *)
LEMMA RouteSells ==
    ASSUME TypeOK, Route
    PROVE  \E r \in Readings, w \in BrokerIds :
               /\ w \in {c.id : c \in SelectedWith(r)}
               /\ counters' = Incremented(<<w, LocalDay(Zone(w), r.at[w])>>)
               /\ sales' = sales \cup {Sale(w, r.assigned)}
               /\ now' = r.assigned
               /\ setup' = setup /\ unsent' = unsent /\ page' = page
BY DEF Route

(* A sale has a new id, so it is a new row.                                *)
LEMMA SaleIsNew ==
    ASSUME TypeOK, NEW w \in BrokerIds, NEW t,
           sales' = sales \cup {Sale(w, t)}
    PROVE  /\ Sale(w, t) \notin sales
           /\ IsFiniteSet(sales')
           /\ Cardinality(sales) \in Nat
           /\ Cardinality(sales') = Cardinality(sales) + 1
<1>1. IsFiniteSet(sales) /\ Cardinality(sales) \in Nat
  BY FS_CardinalityType DEF TypeOK
<1>2. Sale(w, t) \notin sales
  <2>1. Sale(w, t).id = Cardinality(sales) + 1
    BY DEF Sale
  <2>2. \A s \in sales : s.id \in 1..Cardinality(sales)
    BY DEF TypeOK
  <2> QED
    BY <1>1, <2>1, <2>2
<1> QED
  BY <1>1, <1>2, FS_AddElement

(* Only the winner's row for its day moves, and by one.                    *)
LEMMA OneRowMoves ==
    ASSUME CountersOK, NEW k \in BrokerIds \X Int, counters' = Incremented(k)
    PROVE  /\ DOMAIN counters' = DOMAIN counters \cup {k}
           /\ counters'[k] = SentOn(k) + 1 /\ SentOn(k)' = SentOn(k) + 1
           /\ \A j \in DOMAIN counters \ {k} : counters'[j] = counters[j]
           /\ \A j : j # k => SentOn(j)' = SentOn(j)
           /\ CountersOK'
<1>1. counters' = [j \in {k} \cup DOMAIN counters |->
                      IF j = k THEN SentOn(k) + 1 ELSE counters[j]]
  BY DEF Incremented, Put
<1>2. SentOn(k) \in Nat
  BY SentIsNat
<1> QED
  BY <1>1, <1>2 DEF SentOn, CountersOK

LEMMA ClockRuns ==
    ASSUME TypeOK, [Next]_vars
    PROVE  /\ now \in Nat /\ now' \in Nat /\ now <= now'
           /\ now' \in setup.instants /\ setup' = setup
<1>1. setup.instants \subseteq Nat /\ now \in Nat /\ now \in setup.instants
  BY InstantsAreNat DEF TypeOK
<1>2. CASE Route
  <2>1. PICK r \in Readings : now' = r.assigned /\ setup' = setup
    BY <1>2 DEF Route
  <2> QED
    BY <1>1, <2>1, ReadingsAreNow
<1>3. CASE NoBroker
  <2>1. PICK r \in Readings : now' = r.assigned /\ setup' = setup
    BY <1>3 DEF NoBroker
  <2> QED
    BY <1>1, <2>1, ReadingsAreNow
<1>4. CASE Tick
  BY <1>1, <1>4 DEF Tick
<1>5. CASE Browse \/ UNCHANGED vars
  BY <1>1, <1>5 DEF Browse, OpenPage, ReadNext, ReadView, vars
<1> QED
  BY <1>2, <1>3, <1>4, <1>5 DEF Next

LEMMA TypeInit == Init => TypeInv
<1> SUFFICES ASSUME Init PROVE TypeInv
  OBVIOUS
<1>1. IsFiniteSet({}) /\ Cardinality({}) = 0
  BY FS_EmptySet
<1>2. setup.leads \in Nat /\ setup.pages \in Nat
  BY FairShareAssumption DEF Init
<1>3. /\ DOMAIN counters = {} /\ page.opened = 0 /\ page.next = {}
      /\ DOMAIN page = {"opened", "views", "next", "at"}
  BY DEF Init
<1> QED
  BY <1>1, <1>2, <1>3 DEF Init, TypeInv, TypeOK, PageShape

LEMMA TypeStep == TypeInv /\ [Next]_vars => TypeInv'
<1> SUFFICES ASSUME TypeInv, [Next]_vars PROVE TypeInv'
  OBVIOUS
<1> USE DEF TypeInv
<1>1. /\ now' \in setup.instants /\ setup' = setup /\ now \in Nat /\ now' \in Nat
      /\ now <= now'
  BY ClockRuns
<1>2. /\ setup.leads \in Nat /\ setup.pages \in Nat /\ setup.instants \subseteq Nat
      /\ unsent \in Nat /\ page.opened \in Nat
  BY FairShareAssumption DEF TypeOK
<1>3. Cardinality(sales) \in Nat /\ CountersOK
  BY FS_CardinalityType DEF TypeOK, CountersOK
<1>4. CASE Route
  <2>1. PICK r \in Readings, w \in BrokerIds :
            /\ counters' = Incremented(<<w, LocalDay(Zone(w), r.at[w])>>)
            /\ sales' = sales \cup {Sale(w, r.assigned)}
            /\ now' = r.assigned
            /\ setup' = setup /\ unsent' = unsent /\ page' = page
    BY <1>4, RouteSells
  <2>2. LocalDay(Zone(w), r.at[w]) \in Int
    BY MemberTerms, LocalClock, ReadingsAreNow DEF TypeOK
  <2>3. CountersOK'
    BY <1>3, <2>1, <2>2, OneRowMoves
  <2>4. /\ IsFiniteSet(sales') /\ Cardinality(sales') = Cardinality(sales) + 1
        /\ Cardinality(sales) \in Nat
    BY <2>1, SaleIsNew
  <2>5. \A s \in sales' : /\ s.id \in 1..Cardinality(sales')
                          /\ s.broker \in BrokerIds
                          /\ s.at \in {t \in setup.instants : t <= now'}
    <3>1. ASSUME NEW s \in sales
          PROVE  /\ s.id \in 1..Cardinality(sales')
                 /\ s.broker \in BrokerIds
                 /\ s.at \in {t \in setup.instants : t <= now'}
      <4>1. /\ s.id \in 1..Cardinality(sales)
            /\ s.broker \in BrokerIds
            /\ s.at \in setup.instants /\ s.at <= now
        BY DEF TypeOK
      <4> QED
        BY <1>1, <1>2, <2>4, <4>1
    <3>2. /\ Sale(w, r.assigned).id \in 1..Cardinality(sales')
          /\ Sale(w, r.assigned).broker \in BrokerIds
          /\ Sale(w, r.assigned).at \in {t \in setup.instants : t <= now'}
      BY <1>1, <2>1, <2>4 DEF Sale
    <3> QED
      BY <2>1, <3>1, <3>2
  <2> QED
    BY <1>1, <2>1, <2>3, <2>4, <2>5 DEF TypeOK, CountersOK, PageShape
<1>5. CASE NoBroker
  <2>1. /\ unsent' = unsent + 1 /\ setup' = setup /\ counters' = counters
        /\ sales' = sales /\ page' = page /\ Cardinality(sales) + unsent < setup.leads
    BY <1>5 DEF NoBroker, Arrived
  <2>2. unsent' \in 0..setup.leads
    BY <1>2, <1>3, <2>1
  <2>3. \A s \in sales : s.at <= now'
    BY <1>1, <1>2 DEF TypeOK
  <2> QED
    BY <1>1, <2>1, <2>2, <2>3 DEF TypeOK, PageShape
<1>6. CASE Tick \/ UNCHANGED vars
  <2>1. counters' = counters /\ sales' = sales /\ page' = page /\ unsent' = unsent
    BY <1>6 DEF Tick, trade, vars
  <2>2. \A s \in sales : s.at <= now'
    BY <1>1, <1>2 DEF TypeOK
  <2> QED
    BY <1>1, <2>1, <2>2 DEF TypeOK, PageShape
<1>7. CASE Browse
  <2>1. /\ counters' = counters /\ sales' = sales /\ unsent' = unsent /\ now' = now
    BY <1>7 DEF Browse, OpenPage, ReadNext, ReadView, trade
  <2>2. PageShape' /\ page'.opened \in 0..setup.pages /\ page'.next \subseteq BrokerIds
    <3>1. CASE OpenPage
      BY <1>2, <3>1 DEF OpenPage, PageShape
    <3>2. CASE ReadNext
      <4>1. page' = [page EXCEPT !.next = DryRun, !.at = now]
        BY <3>2 DEF ReadNext
      <4>2. DryRun \subseteq BrokerIds
        <5> DEFINE r == [at |-> [b \in BrokerIds |-> now], counted |-> now, assigned |-> now]
        <5>1. \A c \in SelectedWith(r) : \E b \in BrokerIds : c = Candidate(b, r.at[b])
          BY DEF SelectedWith, Selected, Eligible
        <5>2. \A c \in SelectedWith(r) : c.id \in BrokerIds
          BY <5>1 DEF Candidate
        <5> QED
          BY <5>2 DEF DryRun
      <4>3. page'.opened = page.opened /\ page'.next = DryRun /\ DOMAIN page' = DOMAIN page
        BY <4>1 DEF PageShape
      <4> QED
        BY <4>2, <4>3 DEF PageShape, TypeOK
    <3>3. ASSUME NEW b \in BrokerIds, ReadView(b)
          PROVE  /\ PageShape' /\ page'.opened \in 0..setup.pages
                 /\ page'.next \subseteq BrokerIds
      <4>1. page' = [page EXCEPT !.views = Put(@, b, MemberView(b))]
        BY <3>3 DEF ReadView
      <4>2. page'.opened = page.opened /\ page'.next = page.next /\ DOMAIN page' = DOMAIN page
        BY <4>1 DEF PageShape
      <4> QED
        BY <4>2 DEF PageShape, TypeOK
    <3> QED
      BY <1>7, <3>1, <3>2, <3>3 DEF Browse
  <2> QED
    BY <1>1, <2>1, <2>2 DEF TypeOK
<1> QED
  BY <1>4, <1>5, <1>6, <1>7 DEF Next

THEOREM FairShareTypeCorrect == Spec => []TypeOK
<1>1. Spec => []TypeInv
  BY TypeInit, TypeStep, PTL DEF Spec
<1>2. TypeInv => TypeOK
  BY DEF TypeInv
<1> QED
  BY <1>1, <1>2, PTL

-----------------------------------------------------------------------------
(* What one routing may do.                                                *)

(* Steps that sell, and steps that drop a lead, are routings.              *)
LEMMA OnlyRouteSells ==
    ASSUME TypeOK, [Next]_vars
    PROVE  /\ sales' # sales => Route
           /\ unsent' > unsent => NoBroker
<1>1. CASE Tick \/ Browse \/ UNCHANGED vars
  <2>1. sales' = sales /\ unsent' = unsent
    BY <1>1 DEF Tick, Browse, OpenPage, ReadNext, ReadView, trade, vars
  <2> QED
    BY <2>1, FairShareAssumption DEF TypeOK
<1>2. CASE Route
  <2>1. unsent' = unsent /\ unsent \in Nat
    BY <1>2, FairShareAssumption DEF Route, TypeOK
  <2> QED
    BY <1>2, <2>1
<1>3. CASE NoBroker
  BY <1>3 DEF NoBroker
<1> QED
  BY <1>1, <1>2, <1>3 DEF Next

(* canReceiveAt, and the window of opening-hours.ts: whoever is sold a     *)
(* lead was on duty, open, with a share and below its cap, at a minute of  *)
(* the transaction, in any zone.                                           *)
THEOREM OnlyEligible == Spec => OnlyEligibleReceive
<1>1. ASSUME TypeOK, [Next]_vars, NEW s \in sales' \ sales
      PROVE  \E t \in now .. now' : MayReceive(s.broker, t)
  <2>1. Route
    BY <1>1, OnlyRouteSells
  <2>2. PICK r \in Readings, w \in BrokerIds :
            /\ w \in {c.id : c \in SelectedWith(r)}
            /\ sales' = sales \cup {Sale(w, r.assigned)}
            /\ now' = r.assigned
    BY <1>1, <2>1, RouteSells
  <2>3. s.broker = w
    BY <1>1, <2>2 DEF Sale
  <2>4. MayReceive(w, r.at[w])
    BY <1>1, <2>2, SelectedIsBest
  <2>5. r.at[w] \in now .. now'
    BY <1>1, <2>2, ReadingsAreNow, InstantsAreNat
  <2> QED
    BY <2>3, <2>4, <2>5
<1>2. TypeOK /\ [Next]_vars =>
          [\A s \in sales' \ sales : \E t \in now .. now' : MayReceive(s.broker, t)]_vars
  BY <1>1
<1> QED
  BY <1>2, FairShareTypeCorrect, PTL DEF Spec, OnlyEligibleReceive

(* FR-017: a lead is dropped only if no member could have received it at   *)
(* the minute it was looked at.                                            *)
THEOREM NoLeadIsDropped == Spec => DroppedOnlyWhenNobodyMayReceive
<1>1. ASSUME TypeOK, [Next]_vars, unsent' > unsent, NEW b \in BrokerIds
      PROVE  \E t \in now .. now' : ~MayReceive(b, t)
  <2>1. NoBroker
    BY <1>1, OnlyRouteSells
  <2>2. PICK r \in Readings : SelectedWith(r) = {} /\ now' = r.assigned
    BY <2>1 DEF NoBroker
  <2>3. ~MayReceive(b, r.at[b])
    BY <1>1, <2>2, NobodySelectedNobodyMay
  <2>4. r.at[b] \in now .. now'
    BY <1>1, <2>2, ReadingsAreNow, InstantsAreNat
  <2> QED
    BY <2>3, <2>4
<1>2. TypeOK /\ [Next]_vars =>
          [unsent' > unsent =>
              \A b \in BrokerIds : \E t \in now .. now' : ~MayReceive(b, t)]_vars
  BY <1>1
<1> QED
  BY <1>2, FairShareTypeCorrect, PTL DEF Spec, DroppedOnlyWhenNobodyMayReceive

(* Rounding a target to hundredths of a lead moves it by at most half a    *)
(* hundredth, whichever way a half is rounded.                             *)
LEMMA RoundingIsHalf ==
    ASSUME NEW n \in Int, NEW k \in {49, 50}
    PROVE  /\ (n + k) \div 100 \in Int
           /\ 100 * ((n + k) \div 100) <= n + 50
           /\ n - 50 <= 100 * ((n + k) \div 100)
BY Z3

(* The deficit of a member of the given share, in exact numbers.           *)
LEMMA DeficitIsRounded ==
    ASSUME NEW c, NEW pct \in Int, c.percentage = pct, NEW sent \in Int, c.sentToday = sent,
           NEW total \in Int, NEW down
    PROVE  /\ Deficit(c, total, down) \in Int
           /\ 100 * Deficit(c, total, down) <= pct * (total + 1) - 10000 * sent + 50
           /\ pct * (total + 1) - 10000 * sent - 50 <= 100 * Deficit(c, total, down)
<1> DEFINE n == pct * (total + 1)
           k == IF pct \in down THEN 49 ELSE 50
           x == (n + k) \div 100
<1>1. n \in Int /\ k \in {49, 50}
  OBVIOUS
<1>2. Deficit(c, total, down) = x - 100 * sent
  BY DEF Deficit, TargetAfterLead
<1> HIDE DEF n, k
<1>3. x \in Int /\ 100 * x <= n + 50 /\ n - 50 <= 100 * x
  BY <1>1, RoundingIsHalf
<1> HIDE DEF x
<1>4. /\ x - 100 * sent \in Int
      /\ 100 * (x - 100 * sent) <= n - 10000 * sent + 50
      /\ n - 10000 * sent - 50 <= 100 * (x - 100 * sent)
  BY <1>1, <1>3
<1> QED
  BY <1>2, <1>4 DEF n

(* Whoever is placed before another is behind its exact deficit by at most *)
(* the rounding of the two.                                                *)
LEMMA BeatsByRounding ==
    ASSUME NEW c, NEW p \in Int, c.percentage = p, NEW i \in Int, c.sentToday = i,
           NEW d, NEW q \in Int, d.percentage = q, NEW j \in Int, d.sentToday = j,
           NEW total \in Int, \E down : Beats(c, d, total, down)
    PROVE  q * (total + 1) - 10000 * j <= p * (total + 1) - 10000 * i + 100
<1>1. PICK down : Beats(c, d, total, down)
  OBVIOUS
<1> DEFINE m == p * (total + 1)
           n == q * (total + 1)
           x == Deficit(c, total, down)
           y == Deficit(d, total, down)
<1>2. m \in Int /\ n \in Int
  OBVIOUS
<1>3. x >= y
  <2>1. x \in Int /\ y \in Int
    BY DeficitIsRounded
  <2> QED
    BY <1>1, <2>1 DEF Beats
<1>4. /\ x \in Int /\ 100 * x <= m - 10000 * i + 50
      /\ y \in Int /\ n - 10000 * j - 50 <= 100 * y
  BY DeficitIsRounded
<1> HIDE DEF m, n, x, y
<1>5. n - 10000 * j <= m - 10000 * i + 100
  BY <1>2, <1>3, <1>4
<1> QED
  BY <1>5 DEF m, n

(* FR-014: within the rounding, no member who may receive the lead has a   *)
(* higher deficit than the one who gets it.                                *)
THEOREM DeficitDecides == Spec => HighestDeficitWins
<1>1. ASSUME TypeOK, [Next]_vars, now' = now, NEW s \in sales' \ sales,
             NEW c \in BrokerIds, MayReceive(c, now)
      PROVE  ExactDeficit(c) - ExactDeficit(s.broker) <= 100
  <2> DEFINE total == TotalSentToday(now)
             P(b) == setup.members[b].percentage
             N(b) == P(b) * (total + 1)
  <2>1. Route
    BY <1>1, OnlyRouteSells
  <2>2. PICK r \in Readings, w \in BrokerIds :
            /\ w \in {d.id : d \in SelectedWith(r)}
            /\ sales' = sales \cup {Sale(w, r.assigned)}
            /\ now' = r.assigned
    BY <1>1, <2>1, RouteSells
  <2>3. s.broker = w
    BY <1>1, <2>2 DEF Sale
  <2>4. r.counted = now /\ \A b \in BrokerIds : r.at[b] = now
    BY <1>1, <2>2, ReadingsAreNow, InstantsAreNat
  <2>5. total \in Nat /\ now \in Int /\ setup \in Setups /\ CountersOK
    BY <1>1, SoldOnDayIsFinite, InstantsAreNat DEF TypeOK, CountersOK, TotalSentToday
  <2>6. \A b \in BrokerIds : ExactDeficit(b) = N(b) - 10000 * SentToday(b, now)
    BY DEF ExactDeficit
  <2> HIDE DEF total
  <2>7. \A b \in BrokerIds :
            /\ P(b) \in Int /\ N(b) \in Int /\ SentToday(b, now) \in Nat
            /\ Candidate(b, now).percentage = P(b)
            /\ Candidate(b, now).sentToday = SentToday(b, now)
    <3> SUFFICES ASSUME NEW b \in BrokerIds
                 PROVE  /\ P(b) \in Int /\ N(b) \in Int /\ SentToday(b, now) \in Nat
                        /\ Candidate(b, now).percentage = P(b)
                        /\ Candidate(b, now).sentToday = SentToday(b, now)
      OBVIOUS
    <3>1. P(b) \in Int
      <4>1. Whole \in Int
        BY DEF Whole
      <4>2. P(b) \in 0..Whole
        BY <2>5, MemberTerms
      <4> QED
        BY <4>1, <4>2
    <3>2. N(b) \in Int
      BY <2>5, <3>1
    <3> QED
      BY <2>5, <3>1, <3>2, CandidateFields
  <2>8. CASE c = w
    <3>1. ExactDeficit(c) \in Int
      BY <2>6, <2>7
    <3> QED
      BY <2>3, <2>8, <3>1
  <2>9. CASE c # w
    <3>1. \E down : Beats(Candidate(w, now), Candidate(c, now), total, down)
      BY <1>1, <2>2, <2>4, <2>9, SelectedIsBest DEF total
    <3> DEFINE i == SentToday(w, now)
               j == SentToday(c, now)
    <3>2. i \in Int /\ j \in Int /\ total \in Int
      BY <2>5, <2>7
    <3>3. N(c) - 10000 * j <= N(w) - 10000 * i + 100
      <4> HIDE DEF i, j, P
      <4> QED
        BY <2>7, <3>1, <3>2, BeatsByRounding DEF i, j
    <3>4. /\ ExactDeficit(w) = N(w) - 10000 * i /\ N(w) \in Int
          /\ ExactDeficit(c) = N(c) - 10000 * j /\ N(c) \in Int
      BY <2>6, <2>7
    <3> HIDE DEF N, i, j
    <3> QED
      BY <2>3, <3>2, <3>3, <3>4
  <2> QED
    BY <2>8, <2>9
<1>2. TypeOK /\ [Next]_vars =>
          [now' = now =>
              \A s \in sales' \ sales, c \in BrokerIds :
                  MayReceive(c, now) => ExactDeficit(c) - ExactDeficit(s.broker) <= 100]_vars
  BY <1>1
<1> QED
  BY <1>2, FairShareTypeCorrect, PTL DEF Spec, HighestDeficitWins

-----------------------------------------------------------------------------
(* The daily cap, by the broker's own calendar.                            *)

Sold(b, day) == {s \in sales : s.broker = b /\ LocalDay(Zone(b), s.at) = day}

(* The evening that comes twice has come again.                            *)
Again(b) == TurnsBack(Zone(b)) /\ now >= Zone(b).change

(* The sales of a day are those its counter counts, the one that crossed   *)
(* into it at midnight, and a second one if midnight comes twice; a day    *)
(* that has not begun has none.                                            *)
DayBounds(n, k, ahead, again) ==
    /\ n \in Nat /\ k \in Nat
    /\ n <= k + 2
    /\ ~again \/ ahead => n <= k + 1
    /\ ~again /\ ahead => n = 0

DaysInv ==
    \A b \in BrokerIds, day \in Int :
        DayBounds(Cardinality(Sold(b, day)), SentOn(<<b, day>>),
                  day > LocalDay(Zone(b), now), Again(b))

CountersCapped ==
    \A b \in BrokerIds, day \in Int :
        setup.members[b].dailyCap > 0 =>
            SentOn(<<b, day>>) <= setup.members[b].dailyCap

CapInv == DaysInv /\ CountersCapped

LEMMA SoldIsFinite ==
    ASSUME TypeOK, NEW b, NEW day
    PROVE  IsFiniteSet(Sold(b, day)) /\ Cardinality(Sold(b, day)) \in Nat
BY FS_Subset, FS_CardinalityType DEF Sold, TypeOK

LEMMA CapInit == Init => CapInv
<1> SUFFICES ASSUME Init PROVE CapInv
  OBVIOUS
<1>1. Cardinality({}) = 0
  BY FS_EmptySet
<1>2. sales = {} /\ DOMAIN counters = {}
  BY DEF Init
<1>3. \A b, day : Sold(b, day) = {}
  BY <1>2 DEF Sold
<1>4. \A k : SentOn(k) = 0
  BY <1>2 DEF SentOn
<1>5. DaysInv
  BY <1>1, <1>3, <1>4 DEF DaysInv, DayBounds
<1>6. CountersCapped
  <2>1. \A b \in BrokerIds : setup.members[b].dailyCap \in Nat
    BY MemberTerms DEF Init
  <2> QED
    BY <1>4, <2>1 DEF CountersCapped
<1> QED
  BY <1>5, <1>6 DEF CapInv

(* Time passes: a day that is still ahead was ahead before, unless the     *)
(* clocks have just gone back.                                             *)
LEMMA DaysAhead ==
    ASSUME TypeOK, [Next]_vars, NEW b \in BrokerIds, NEW day \in Int
    PROVE  /\ Again(b) => Again(b)'
           /\ (Again(b) <=> Again(b)') => LocalDay(Zone(b), now) <= LocalDay(Zone(b), now)'
           /\ LocalDay(Zone(b), now) \in Int /\ LocalDay(Zone(b), now)' \in Int
<1>1. now \in Nat /\ now' \in Nat /\ now <= now' /\ setup' = setup
  BY ClockRuns
<1>2. Zone(b) \in Zones /\ Zone(b)' = Zone(b)
  BY <1>1, MemberTerms DEF TypeOK, Zone
<1>3. Zone(b).change \in Int
  BY <1>2 DEF Zones
<1>4. /\ TurnsBack(Zone(b))' = TurnsBack(Zone(b))
      /\ LocalDay(Zone(b), now)' = LocalDay(Zone(b), now')
  BY <1>2 DEF TurnsBack, LocalDay, LocalTime
<1>5. Again(b)' <=> TurnsBack(Zone(b)) /\ now' >= Zone(b).change
  BY <1>2, <1>4 DEF Again
<1>6. Again(b) => Again(b)'
  BY <1>1, <1>3, <1>5 DEF Again
<1>7. ASSUME Again(b) <=> Again(b)'
      PROVE  LocalDay(Zone(b), now) <= LocalDay(Zone(b), now')
  <2>1. ~TurnsBack(Zone(b)) \/ now' < Zone(b).change \/ now >= Zone(b).change
    BY <1>1, <1>3, <1>5, <1>7 DEF Again
  <2> QED
    BY <1>1, <1>2, <2>1, CalendarRuns
<1>8. LocalDay(Zone(b), now) \in Int /\ LocalDay(Zone(b), now') \in Int
  BY <1>1, <1>2, LocalClock
<1> QED
  BY <1>4, <1>6, <1>7, <1>8

LEMMA CapStep == TypeOK /\ TypeOK' /\ CapInv /\ [Next]_vars => CapInv'
<1> SUFFICES ASSUME TypeOK, TypeOK', CapInv, [Next]_vars PROVE CapInv'
  OBVIOUS
<1>1. /\ now \in Nat /\ now' \in Nat /\ now <= now' /\ setup' = setup
      /\ \A b \in BrokerIds : Zone(b)' = Zone(b)
  BY ClockRuns DEF Zone
<1>2. /\ setup \in Setups /\ CountersOK
      /\ \A b \in BrokerIds : Zone(b) \in Zones
  BY MemberTerms DEF TypeOK, CountersOK
<1>3. \A b \in BrokerIds, day \in Int :
          DayBounds(Cardinality(Sold(b, day)), SentOn(<<b, day>>),
                    day > LocalDay(Zone(b), now), Again(b))
  BY DEF CapInv, DaysInv
(* Nothing new on that day, and no count taken back.                       *)
<1>4. ASSUME NEW b \in BrokerIds, NEW day \in Int, Sold(b, day)' = Sold(b, day),
             SentOn(<<b, day>>)' \in Nat, SentOn(<<b, day>>) <= SentOn(<<b, day>>)'
      PROVE  DayBounds(Cardinality(Sold(b, day)), SentOn(<<b, day>>),
                       day > LocalDay(Zone(b), now), Again(b))'
  <2> DEFINE n == Cardinality(Sold(b, day))
             k == SentOn(<<b, day>>)
             l == SentOn(<<b, day>>)'
             today == LocalDay(Zone(b), now)
             next == LocalDay(Zone(b), now)'
             again == Again(b)
             anew == Again(b)'
  <2>1. DayBounds(n, k, day > today, again)
    BY <1>3
  <2>2. /\ again => anew
        /\ (again <=> anew) => today <= next
        /\ today \in Int /\ next \in Int
    BY DaysAhead
  <2>3. l \in Nat /\ k <= l
    BY <1>4
  <2>4. Cardinality(Sold(b, day))' = n
    BY <1>4
  <2> HIDE DEF n, k, l, today, next, again, anew
  <2>5. DayBounds(n, l, day > next, anew)
    BY <2>1, <2>2, <2>3 DEF DayBounds
  <2> QED
    BY <2>4, <2>5 DEF l, next, anew
<1>5. CASE Route
  <2>1. PICK r \in Readings, w \in BrokerIds :
            /\ w \in {c.id : c \in SelectedWith(r)}
            /\ counters' = Incremented(<<w, LocalDay(Zone(w), r.at[w])>>)
            /\ sales' = sales \cup {Sale(w, r.assigned)}
            /\ now' = r.assigned
    BY <1>5, RouteSells
  <2> DEFINE z == Zone(w)
             e == LocalDay(z, now')
  <2>2. /\ r.at[w] \in Int /\ r.at[w] \in {now, now + 1} /\ r.at[w] <= now'
        /\ now' \in {now, now + 1}
    BY <2>1, ReadingsAreNow
  <2>3. LocalDay(z, r.at[w]) \in Int /\ e \in Int
    BY <1>1, <1>2, <2>2, LocalClock
  <2>3a. PICK d \in Int : d = LocalDay(z, r.at[w])
    BY <2>3
  <2>4. \A b \in BrokerIds, day \in Int :
            SentOn(<<b, day>>)' = IF b = w /\ day = d THEN SentOn(<<b, day>>) + 1
                                  ELSE SentOn(<<b, day>>)
    <3> DEFINE k == <<w, d>>
    <3>1. k \in BrokerIds \X Int /\ counters' = Incremented(k)
      BY <2>1, <2>3a
    <3>2. \A b, day : <<b, day>> = k <=> b = w /\ day = d
      OBVIOUS
    <3> HIDE DEF k
    <3>3. SentOn(k)' = SentOn(k) + 1 /\ \A j : j # k => SentOn(j)' = SentOn(j)
      BY <1>2, <3>1, OneRowMoves
    <3> SUFFICES ASSUME NEW b \in BrokerIds, NEW day \in Int
                 PROVE  SentOn(<<b, day>>)' =
                            IF b = w /\ day = d THEN SentOn(<<b, day>>) + 1
                            ELSE SentOn(<<b, day>>)
      OBVIOUS
    <3>4. CASE <<b, day>> = k
      BY <3>2, <3>3, <3>4
    <3>5. CASE <<b, day>> # k
      BY <3>2, <3>3, <3>5
    <3> QED
      BY <3>4, <3>5
  <2>5. \A j : SentOn(j) \in Nat
    BY <1>2, SentIsNat
  <2>6. Sale(w, now') \notin sales
    BY <2>1, SaleIsNew
  <2>7. \A b \in BrokerIds, day \in Int :
            Sold(b, day)' = IF b = w /\ day = e THEN Sold(b, day) \cup {Sale(w, now')}
                            ELSE Sold(b, day)
    <3>1. Sale(w, now').broker = w /\ Sale(w, now').at = now'
      BY DEF Sale
    <3>2. sales' = sales \cup {Sale(w, now')}
      BY <2>1
    <3>3. \A b \in BrokerIds : \A t : LocalDay(Zone(b)', t) = LocalDay(Zone(b), t)
      BY <1>1
    <3> HIDE DEF e
    <3> SUFFICES ASSUME NEW b \in BrokerIds, NEW day \in Int
                 PROVE  Sold(b, day)' =
                           IF b = w /\ day = e THEN Sold(b, day) \cup {Sale(w, now')}
                           ELSE Sold(b, day)
      OBVIOUS
    <3>4. Sold(b, day)' = {s \in sales' : s.broker = b /\ LocalDay(Zone(b), s.at) = day}
      BY <1>1 DEF Sold
    <3>5. LocalDay(Zone(w), now') = e
      BY DEF e
    <3> QED
      BY <3>1, <3>2, <3>4, <3>5 DEF Sold
  <2>8. DaysInv'
    <3> SUFFICES ASSUME NEW b \in BrokerIds, NEW day \in Int
                 PROVE  DayBounds(Cardinality(Sold(b, day)), SentOn(<<b, day>>),
                                  day > LocalDay(Zone(b), now), Again(b))'
      BY DEF DaysInv
    <3>1. SentOn(<<b, day>>)' \in Nat /\ SentOn(<<b, day>>) <= SentOn(<<b, day>>)'
      <4>1. SentOn(<<b, day>>) \in Nat
        BY <2>5
      <4> QED
        BY <2>4, <4>1
    <3>2. CASE ~(b = w /\ day = e)
      <4>1. Sold(b, day)' = Sold(b, day)
        BY <2>7, <3>2
      <4> QED
        BY <1>4, <3>1, <4>1
    <3>3. CASE b = w /\ day = e
      <4> DEFINE n == Cardinality(Sold(b, day))
                 k == SentOn(<<b, day>>)
                 l == SentOn(<<b, day>>)'
                 today == LocalDay(Zone(b), now)
                 again == Again(b)
                 anew == Again(b)'
      <4>1. DayBounds(n, k, day > today, again)
        BY <1>3
      <4>2. LocalDay(Zone(b), now)' = day
        BY <1>1, <3>3
      <4>3. /\ again => anew
            /\ (again <=> anew) => today <= day
            /\ today \in Int
        BY <4>2, DaysAhead
      <4>4. Cardinality(Sold(b, day))' = n + 1
        <5>1. Sold(b, day)' = Sold(b, day) \cup {Sale(w, now')}
          BY <2>7, <3>3
        <5>2. Sale(w, now') \notin Sold(b, day)
          BY <2>6 DEF Sold
        <5>3. IsFiniteSet(Sold(b, day))
          BY SoldIsFinite
        <5> QED
          BY <5>1, <5>2, <5>3, FS_AddElement
      <4>5. d # e => today = d
        <5>1. r.at[w] = now \/ r.at[w] = now'
          BY <1>1, <2>2
        <5> QED
          BY <2>3a, <3>3, <5>1, Zenon
      <4> HIDE DEF e
      <4>6. (d = e => l = k + 1) /\ l \in Nat /\ k <= l
        BY <2>4, <3>1, <3>3
      <4> HIDE DEF n, k, l, today, again, anew
      <4>7. DayBounds(n + 1, l, FALSE, anew)
        <5>1. CASE d = e
          BY <4>1, <4>3, <4>6, <5>1 DEF DayBounds
        <5>2. CASE d # e
          <6>1. today # day
            BY <3>3, <4>5, <5>2
          <6> QED
            BY <4>1, <4>3, <4>6, <6>1 DEF DayBounds
        <5> QED
          BY <5>1, <5>2
      <4>8. ~(day > day)
        OBVIOUS
      <4> QED
        BY <4>2, <4>4, <4>7, <4>8 DEF l, anew, DayBounds
    <3> QED
      BY <3>2, <3>3
  <2>9. CountersCapped'
    <3> SUFFICES ASSUME NEW b \in BrokerIds, NEW day \in Int,
                        setup.members[b].dailyCap > 0
                 PROVE  SentOn(<<b, day>>)' <= setup.members[b].dailyCap
      BY <1>1 DEF CountersCapped
    <3>1. setup.members[b].dailyCap \in Nat
      BY <1>2, MemberTerms
    <3>2. SentOn(<<b, day>>) <= setup.members[b].dailyCap
      BY DEF CapInv, CountersCapped
    <3>3. CASE b = w /\ day = d
      <4>1. MayReceive(w, r.at[w])
        BY <2>1, SelectedIsBest
      <4>2. SentToday(w, r.at[w]) < setup.members[w].dailyCap
        BY <3>1, <3>3, <4>1 DEF MayReceive
      <4>3. SentOn(<<w, d>>) < setup.members[w].dailyCap
        BY <2>3a, <4>2 DEF SentToday
      <4>4. SentOn(<<w, d>>) \in Nat
        BY <2>5
      <4>5. SentOn(<<b, day>>)' = SentOn(<<w, d>>) + 1
        BY <2>4, <3>3
      <4> QED
        BY <3>1, <3>3, <4>3, <4>4, <4>5
    <3>4. CASE ~(b = w /\ day = d)
      <4> QED
        BY <2>4, <3>2, <3>4
    <3> QED
      BY <3>3, <3>4
  <2> QED
    BY <2>8, <2>9 DEF CapInv
<1>6. CASE NoBroker \/ Tick \/ Browse \/ UNCHANGED vars
  <2>1. counters' = counters /\ sales' = sales
    BY <1>6 DEF NoBroker, Tick, Browse, OpenPage, ReadNext, ReadView, trade, vars
  <2>2. \A k : SentOn(k)' = SentOn(k) /\ SentOn(k) \in Nat
    BY <1>2, <2>1, SentIsNat DEF SentOn
  <2>3. \A b \in BrokerIds, day \in Int : Sold(b, day)' = Sold(b, day)
    BY <1>1, <2>1 DEF Sold
  <2>4. DaysInv'
    <3>1. \A b \in BrokerIds, day \in Int :
              /\ Sold(b, day)' = Sold(b, day) /\ SentOn(<<b, day>>)' \in Nat
              /\ SentOn(<<b, day>>) <= SentOn(<<b, day>>)'
      BY <2>2, <2>3
    <3> QED
      BY <1>4, <3>1 DEF DaysInv
  <2>5. CountersCapped'
    BY <1>1, <2>2 DEF CapInv, CountersCapped
  <2> QED
    BY <2>4, <2>5 DEF CapInv
<1> QED
  BY <1>5, <1>6 DEF Next

(* prisma-cap-gate.ts: a broker's counter of a day never passes the cap,   *)
(* and its sales of one of its calendar days pass it at most by the one    *)
(* that was being routed at midnight, or two where midnight comes twice.   *)
THEOREM CapByCalendar == Spec => []CapPerCalendarDay
<1>1. Spec => []CapInv
  BY FairShareTypeCorrect, CapInit, CapStep, PTL DEF Spec
<1>2. ASSUME TypeOK, CapInv, NEW b \in BrokerIds, setup.members[b].dailyCap > 0
      PROVE  /\ \A s \in sales : s.broker = b =>
                  SoldTo(b, Zone(b), s.at) <=
                      setup.members[b].dailyCap + (IF TurnsBack(Zone(b)) THEN 2 ELSE 1)
             /\ \A k \in DOMAIN counters : k[1] = b =>
                  counters[k] <= setup.members[b].dailyCap
  <2> DEFINE cap == setup.members[b].dailyCap
  <2>1. cap \in Nat /\ Zone(b) \in Zones
    BY <1>2, MemberTerms DEF TypeOK
  <2>2. \A day \in Int : SentOn(<<b, day>>) <= cap
    BY <1>2 DEF CapInv, CountersCapped
  <2>3. ASSUME NEW s \in sales, s.broker = b
        PROVE  SoldTo(b, Zone(b), s.at) <= cap + (IF TurnsBack(Zone(b)) THEN 2 ELSE 1)
    <3>1. PICK day \in Int : day = LocalDay(Zone(b), s.at)
      <4>1. s.at \in Int
        BY <1>2, InstantsAreNat DEF TypeOK
      <4> QED
        BY <2>1, <4>1, LocalClock
    <3>2. SoldTo(b, Zone(b), s.at) = Cardinality(Sold(b, day))
      <4>1. {x \in SoldOnDay(Zone(b), s.at) : x.broker = b} = Sold(b, day)
        BY <3>1 DEF SoldOnDay, Sold
      <4> QED
        BY <4>1 DEF SoldTo
    <3> DEFINE n == Cardinality(Sold(b, day))
               k == SentOn(<<b, day>>)
    <3>3. DayBounds(n, k, day > LocalDay(Zone(b), now), Again(b))
      BY <1>2 DEF CapInv, DaysInv
    <3>4. k <= cap
      BY <2>2
    <3>5. ~TurnsBack(Zone(b)) => ~Again(b)
      BY DEF Again
    <3> HIDE DEF n, k, cap
    <3>6. n <= cap + (IF TurnsBack(Zone(b)) THEN 2 ELSE 1)
      BY <2>1, <3>3, <3>4, <3>5 DEF DayBounds
    <3> QED
      BY <3>2, <3>6 DEF n
  <2>4. ASSUME NEW k \in DOMAIN counters, k[1] = b
        PROVE  counters[k] <= cap
    <3>1. k \in BrokerIds \X Int
      BY <1>2 DEF TypeOK
    <3>2. k = <<b, k[2]>> /\ k[2] \in Int
      BY <2>4, <3>1
    <3>3. SentOn(k) <= cap
      BY <2>2, <3>2
    <3> QED
      BY <2>4, <3>3 DEF SentOn
  <2> QED
    BY <2>3, <2>4
<1>3. TypeOK /\ CapInv => CapPerCalendarDay
  BY <1>2 DEF CapPerCalendarDay
<1> QED
  BY <1>1, <1>3, FairShareTypeCorrect, PTL

-----------------------------------------------------------------------------
(* What the owner's pages show.                                            *)

(* composite.controller.ts:173 counts from the UTC midnight of the         *)
(* broker's local date: never too much where the clock is never behind     *)
(* UTC, never too little where it is never ahead.                          *)
THEOREM PageErrs == Spec => []PageErrsByZone
<1>1. ASSUME TypeOK, NEW b \in BrokerIds
      PROVE  LET offsets == {Zone(b).before, Zone(b).after}
                 today == SoldTo(b, Zone(b), now)
             IN  /\ (\A o \in offsets : o >= 0) /\ ~TurnsBack(Zone(b)) =>
                       AssignedToday(b, now) <= today
                 /\ (\A o \in offsets : o <= 0) => AssignedToday(b, now) >= today
  <2> DEFINE z == Zone(b)
             day == LocalDay(z, now)
             P == {s \in sales : s.broker = b /\ s.at >= 1440 * day}
             T == {s \in SoldOnDay(z, now) : s.broker = b}
  <2>1. /\ z \in Zones /\ z.before \in Int /\ z.after \in Int
        /\ now \in Int /\ IsFiniteSet(sales)
        /\ \A s \in sales : s.at \in Int /\ s.at <= now
    <3>1. z \in Zones
      BY <1>1, MemberTerms DEF TypeOK
    <3> QED
      BY <1>1, <3>1, InstantsAreNat DEF TypeOK, Zones
  <2>2. day \in Int
    BY <2>1, LocalClock
  <2>3. AssignedToday(b, now) = Cardinality(P)
    <3>1. StartOfBrokerDay(b, now) = 1440 * day
      BY <2>2 DEF StartOfBrokerDay, MinutesPerDay
    <3> QED
      BY <3>1 DEF AssignedToday
  <2>4. SoldTo(b, z, now) = Cardinality(T)
    BY DEF SoldTo
  <2>5. T = {s \in sales : s.broker = b /\ LocalDay(z, s.at) = day}
    BY DEF SoldOnDay
  <2>6. IsFiniteSet(P) /\ IsFiniteSet(T)
    BY <2>1, <2>5, FS_Subset
  <2>7. \A s \in sales :
            /\ LocalDay(z, s.at) \in Int /\ InDay(LocalMinute(z, s.at))
            /\ LocalTime(z, s.at) = 1440 * LocalDay(z, s.at) + LocalMinute(z, s.at)
    BY <2>1, LocalClock
  <2>8. ASSUME z.before >= 0, z.after >= 0, ~TurnsBack(z)
        PROVE  P \subseteq T
    <3> SUFFICES ASSUME NEW s \in P PROVE s \in T
      OBVIOUS
    <3>1. s \in sales /\ s.broker = b /\ s.at >= 1440 * day
      OBVIOUS
    <3> HIDE DEF P, T, day, z
    <3>2. LocalTime(z, s.at) >= s.at
      BY <2>1, <2>8, <3>1 DEF LocalTime
    <3>3. LocalDay(z, s.at) <= day
      BY <2>1, <2>8, <3>1, CalendarRuns DEF day
    <3> DEFINE d == LocalDay(z, s.at)
               m == LocalMinute(z, s.at)
    <3>4. d \in Int /\ m \in Int /\ m < 1440 /\ 1440 * d + m >= 1440 * day
      BY <2>1, <2>2, <2>7, <3>1, <3>2 DEF InDay
    <3> HIDE DEF d, m
    <3>5. d >= day
      BY <2>2, <3>4
    <3> QED
      BY <2>2, <2>5, <3>1, <3>3, <3>4, <3>5 DEF d
  <2>9. ASSUME z.before <= 0, z.after <= 0
        PROVE  T \subseteq P
    <3> SUFFICES ASSUME NEW s \in T PROVE s \in P
      OBVIOUS
    <3>1. s \in sales /\ s.broker = b /\ LocalDay(z, s.at) = day
      BY <2>5
    <3> HIDE DEF T, day, z
    <3>2. LocalTime(z, s.at) <= s.at
      BY <2>1, <2>9, <3>1 DEF LocalTime
    <3>3. s.at >= 1440 * day
      BY <2>1, <2>2, <2>7, <3>1, <3>2 DEF InDay
    <3> QED
      BY <3>1, <3>3
  <2>10. /\ P \subseteq T => Cardinality(P) <= Cardinality(T)
         /\ T \subseteq P => Cardinality(P) >= Cardinality(T)
    <3>1. Cardinality(P) \in Nat /\ Cardinality(T) \in Nat
      BY <2>6, FS_CardinalityType
    <3> HIDE DEF P, T
    <3>2. P \subseteq T => Cardinality(P) <= Cardinality(T)
      BY <2>6, FS_Subset
    <3>3. T \subseteq P => Cardinality(T) <= Cardinality(P)
      BY <2>6, FS_Subset
    <3> QED
      BY <3>1, <3>2, <3>3
  <2> HIDE DEF P, T
  <2> QED
    BY <2>3, <2>4, <2>8, <2>9, <2>10
<1>2. TypeOK => PageErrsByZone
  BY <1>1 DEF PageErrsByZone
<1> QED
  BY <1>2, FairShareTypeCorrect, PTL

(* A row that was read as capped stays capped for its day, and the preview *)
(* holds nobody who was closed or capped when it was computed.             *)
RowsInv ==
    \A b \in DOMAIN page.views :
        /\ b \in BrokerIds
        /\ page.views[b].at \in Int
        /\ page.views[b].isCapped =>
              /\ setup.members[b].dailyCap > 0
              /\ \A day \in Int : day = LocalDay(Zone(b), page.views[b].at) =>
                     SentOn(<<b, day>>) >= setup.members[b].dailyCap

OpenAt(b, t) ==
    WindowContains(setup.members[b].openingMinutes, setup.members[b].closingMinutes,
                   LocalMinute(Zone(b), t))

RowsAreTrue ==
    \A b \in DOMAIN page.views : page.views[b].isOpenNow <=> OpenAt(b, page.views[b].at)

PreviewComesLast == page.next # {} => DOMAIN page.views = BrokerIds

PageInv == RowsInv /\ RowsAreTrue /\ PreviewComesLast /\ PreviewAgreesWithRows

LEMMA CountersGrow ==
    ASSUME TypeOK, [Next]_vars, NEW b \in BrokerIds, NEW day \in Int
    PROVE  /\ SentOn(<<b, day>>) \in Nat /\ SentOn(<<b, day>>)' \in Nat
           /\ SentOn(<<b, day>>) <= SentOn(<<b, day>>)'
<1>1. CountersOK
  BY DEF TypeOK, CountersOK
<1>2. CASE Route
  <2>1. PICK r \in Readings, w \in BrokerIds :
            counters' = Incremented(<<w, LocalDay(Zone(w), r.at[w])>>)
    BY <1>2, RouteSells
  <2>2. PICK k \in BrokerIds \X Int : counters' = Incremented(k)
    <3>1. LocalDay(Zone(w), r.at[w]) \in Int
      BY MemberTerms, LocalClock, ReadingsAreNow DEF TypeOK
    <3> QED
      BY <2>1, <3>1
  <2>3. /\ SentOn(k)' = SentOn(k) + 1
        /\ \A j : j # k => SentOn(j)' = SentOn(j)
    BY <1>1, <2>2, OneRowMoves
  <2>4. SentOn(<<b, day>>) \in Nat
    BY <1>1, SentIsNat
  <2>5. CASE <<b, day>> = k
    BY <2>3, <2>4, <2>5
  <2>6. CASE <<b, day>> # k
    BY <2>3, <2>4, <2>6
  <2> QED
    BY <2>5, <2>6
<1>3. CASE NoBroker \/ Tick \/ Browse \/ UNCHANGED vars
  <2>1. counters' = counters
    BY <1>3 DEF NoBroker, Tick, Browse, OpenPage, ReadNext, ReadView, trade, vars
  <2> QED
    BY <1>1, <2>1, SentIsNat DEF SentOn
<1> QED
  BY <1>2, <1>3 DEF Next

LEMMA PageInit == Init => PageInv
<1> SUFFICES ASSUME Init PROVE PageInv
  OBVIOUS
<1>1. page.views = <<>> /\ page.next = {}
  BY DEF Init
<1>2. DOMAIN <<>> = {}
  OBVIOUS
<1> QED
  BY <1>1, <1>2
     DEF PageInv, RowsInv, RowsAreTrue, PreviewComesLast, PreviewAgreesWithRows

LEMMA PageStep == TypeInv /\ PageInv /\ [Next]_vars => PageInv'
<1> SUFFICES ASSUME TypeInv, PageInv, [Next]_vars PROVE PageInv'
  OBVIOUS
<1>1. TypeOK /\ CountersOK /\ setup \in Setups
  BY DEF TypeInv, TypeOK, CountersOK
<1>2. /\ now \in Int /\ setup' = setup
      /\ \A b \in BrokerIds : Zone(b)' = Zone(b) /\ Zone(b) \in Zones
  BY <1>1, ClockRuns, MemberTerms DEF Zone
(* Rows already read stay as they are, while the counters grow.            *)
<1>3. ASSUME NEW b \in DOMAIN page.views
      PROVE  /\ b \in BrokerIds
             /\ page.views[b].at \in Int
             /\ page.views[b].isCapped =>
                   /\ setup.members[b].dailyCap > 0
                   /\ \A day \in Int : day = LocalDay(Zone(b), page.views[b].at) =>
                          SentOn(<<b, day>>)' >= setup.members[b].dailyCap
  <2>1. b \in BrokerIds /\ page.views[b].at \in Int
    BY DEF PageInv, RowsInv
  <2>2. setup.members[b].dailyCap \in Nat
    BY <1>1, <2>1, MemberTerms
  <2>3. \A day \in Int : /\ SentOn(<<b, day>>) \in Nat /\ SentOn(<<b, day>>)' \in Nat
                         /\ SentOn(<<b, day>>) <= SentOn(<<b, day>>)'
    BY <1>1, <2>1, CountersGrow
  <2> QED
    BY <2>1, <2>2, <2>3 DEF PageInv, RowsInv
<1>4. CASE page' = page
  <2>1. RowsInv'
    BY <1>2, <1>3, <1>4 DEF RowsInv
  <2>2. PreviewAgreesWithRows'
    <3>1. \A b \in BrokerIds : \A t : LocalDay(Zone(b)', t) = LocalDay(Zone(b), t)
      BY <1>2
    <3> SUFFICES ASSUME NEW b \in page.next \cap DOMAIN page.views
                 PROVE  LET view == page.views[b]
                        IN  /\ view.isCapped =>
                                LocalDay(Zone(b), view.at) # LocalDay(Zone(b), page.at)
                            /\ ~view.isOpenNow => view.at # page.at
      BY <1>1, <1>2, <1>4, <3>1 DEF PreviewAgreesWithRows, TypeOK
    <3> QED
      BY DEF PageInv, PreviewAgreesWithRows
  <2>3. RowsAreTrue' /\ PreviewComesLast'
    <3>2. \A b \in BrokerIds : \A t : LocalMinute(Zone(b)', t) = LocalMinute(Zone(b), t)
      BY <1>2
    <3>3. \A b \in DOMAIN page.views : b \in BrokerIds
      BY <1>3
    <3> QED
      BY <1>2, <1>4, <3>2, <3>3
      DEF PageInv, RowsAreTrue, PreviewComesLast, OpenAt
  <2> QED
    BY <2>1, <2>2, <2>3 DEF PageInv
<1>5. CASE OpenPage
  <2>1. page'.views = <<>> /\ page'.next = {}
    BY <1>5 DEF OpenPage
  <2>2. DOMAIN <<>> = {}
    OBVIOUS
  <2> QED
    BY <2>1, <2>2
       DEF PageInv, RowsInv, RowsAreTrue, PreviewComesLast, PreviewAgreesWithRows
<1>6. ASSUME NEW b \in BrokerIds, ReadView(b)
      PROVE  PageInv'
  <2> DEFINE v == MemberView(b)
             f == page.views
  <2>1. /\ page' = [page EXCEPT !.views = Put(f, b, v)]
        /\ DOMAIN f = {c \in BrokerIds : c < b} /\ counters' = counters
    BY <1>6 DEF ReadView, trade
  <2>2. page'.views = Put(f, b, v) /\ page'.next = page.next /\ page'.at = page.at
    BY <2>1 DEF TypeInv, PageShape
  <2>3. /\ DOMAIN page'.views = DOMAIN f \cup {b} /\ page'.views[b] = v
        /\ \A c \in DOMAIN f \ {b} : page'.views[c] = f[c]
    BY <2>2 DEF Put
  <2>4. /\ v.at = now /\ v.at \in Int
        /\ v.isCapped <=> /\ Candidate(b, now).dailyCap > 0
                          /\ Candidate(b, now).sentToday >= Candidate(b, now).dailyCap
    BY <1>2 DEF MemberView
  <2>5. /\ Candidate(b, now).dailyCap = setup.members[b].dailyCap
        /\ Candidate(b, now).sentToday = SentToday(b, now)
    BY DEF Candidate
  <2>6. \A day \in Int : day = LocalDay(Zone(b), now) =>
            SentOn(<<b, day>>)' = SentToday(b, now)
    BY <2>1 DEF SentToday, SentOn
  <2>7. RowsInv'
    <3> SUFFICES ASSUME NEW c \in DOMAIN page'.views
                 PROVE  /\ c \in BrokerIds
                        /\ page'.views[c].at \in Int
                        /\ page'.views[c].isCapped =>
                              /\ setup.members[c].dailyCap > 0
                              /\ \A day \in Int :
                                    day = LocalDay(Zone(c), page'.views[c].at) =>
                                    SentOn(<<c, day>>)' >= setup.members[c].dailyCap
      BY <1>2 DEF RowsInv
    <3>1. CASE c = b
      <4> HIDE DEF v
      <4> QED
        BY <2>3, <2>4, <2>5, <2>6, <3>1
    <3>2. CASE c # b
      <4>1. c \in DOMAIN f /\ page'.views[c] = f[c]
        BY <2>3, <3>2
      <4> QED
        BY <1>3, <4>1
    <3> QED
      BY <3>1, <3>2
  <2>8. RowsAreTrue'
    <3>1. v.isOpenNow <=> OpenAt(b, v.at)
      BY DEF MemberView, OpenAt, Candidate, Zone
    <3>2. \A c \in BrokerIds : \A t : LocalMinute(Zone(c)', t) = LocalMinute(Zone(c), t)
      BY <1>2
    <3>3. \A c \in BrokerIds : \A t : OpenAt(c, t) <=>
              WindowContains(setup'.members[c].openingMinutes,
                             setup'.members[c].closingMinutes, LocalMinute(Zone(c)', t))
      BY <1>2, <3>2 DEF OpenAt
    <3>4. \A c \in DOMAIN page'.views :
              c \in BrokerIds /\ (page'.views[c].isOpenNow <=> OpenAt(c, page'.views[c].at))
      <4> HIDE DEF v
      <4> QED
        BY <1>3, <2>3, <3>1 DEF PageInv, RowsAreTrue
    <3> QED
      BY <3>3, <3>4 DEF RowsAreTrue, OpenAt
(* The rows are read before the preview, so there is none yet.             *)
  <2>9. page.next = {}
    <3>1. b \notin DOMAIN f /\ DOMAIN f # BrokerIds
      BY <2>1, FairShareAssumption
    <3> QED
      BY <3>1 DEF PageInv, PreviewComesLast
  <2>10. PreviewComesLast' /\ PreviewAgreesWithRows'
    BY <2>2, <2>9 DEF PreviewComesLast, PreviewAgreesWithRows
  <2> QED
    BY <2>7, <2>8, <2>10 DEF PageInv
<1>7. CASE ReadNext
  <2> DEFINE r == [at |-> [b \in BrokerIds |-> now], counted |-> now, assigned |-> now]
  <2>1. /\ page' = [page EXCEPT !.next = DryRun, !.at = now] /\ counters' = counters
        /\ DOMAIN page.views = BrokerIds
    BY <1>7 DEF ReadNext, trade
  <2>2. page'.views = page.views /\ page'.next = DryRun /\ page'.at = now
    BY <2>1 DEF TypeInv, PageShape
  <2>3. r \in Readings
    BY <1>1, <1>2 DEF TypeOK, Readings
  <2>4. \A b \in DryRun : b \in BrokerIds /\ MayReceive(b, now)
    <3> SUFFICES ASSUME NEW b \in DryRun PROVE b \in BrokerIds /\ MayReceive(b, now)
      OBVIOUS
    <3>1. b \in {c.id : c \in SelectedWith(r)}
      BY DEF DryRun
    <3>2. b \in BrokerIds => r.at[b] = now
      OBVIOUS
    <3> HIDE DEF r
    <3> QED
      BY <1>1, <2>3, <3>1, <3>2, SelectedIsBest
  <2>5. RowsInv' /\ RowsAreTrue' /\ PreviewComesLast'
    <3>1. RowsInv'
      BY <1>2, <1>3, <2>2 DEF RowsInv
    <3>2. \A c \in BrokerIds : \A t : LocalMinute(Zone(c)', t) = LocalMinute(Zone(c), t)
      BY <1>2
    <3>3. RowsAreTrue'
      BY <1>2, <2>1, <2>2, <3>2 DEF PageInv, RowsAreTrue, OpenAt
    <3> QED
      BY <2>1, <2>2, <3>1, <3>3 DEF PreviewComesLast
  <2>6. ASSUME NEW b \in DryRun
        PROVE  /\ page.views[b].isCapped =>
                      LocalDay(Zone(b), page.views[b].at) # LocalDay(Zone(b), now)
               /\ ~page.views[b].isOpenNow => page.views[b].at # now
    <3>1. b \in BrokerIds /\ MayReceive(b, now)
      BY <2>4
    <3>2. setup.members[b].dailyCap \in Nat /\ SentToday(b, now) \in Nat
      BY <1>1, <1>2, <3>1, MemberTerms, CandidateFields
    <3>3. page.views[b].isCapped =>
              LocalDay(Zone(b), page.views[b].at) # LocalDay(Zone(b), now)
      <4> SUFFICES ASSUME page.views[b].isCapped,
                          LocalDay(Zone(b), page.views[b].at) = LocalDay(Zone(b), now)
                   PROVE  FALSE
        OBVIOUS
      <4>1. PICK day \in Int : day = LocalDay(Zone(b), now)
        BY <1>2, <3>1, LocalClock
      <4>2. setup.members[b].dailyCap > 0 /\ SentOn(<<b, day>>) >= setup.members[b].dailyCap
        BY <2>1, <3>1, <4>1 DEF PageInv, RowsInv
      <4>3. SentOn(<<b, day>>) = SentToday(b, now)
        BY <4>1 DEF SentToday
      <4>4. setup.members[b].dailyCap = 0 \/ SentToday(b, now) < setup.members[b].dailyCap
        BY <3>1 DEF MayReceive
      <4> QED
        BY <3>2, <4>2, <4>3, <4>4
    <3>4. OpenAt(b, now)
      <4> DEFINE c == Candidate(b, now)
      <4>1. CanReceive(c)
        BY <1>1, <1>2, <3>1, EligibleMeansMayReceive
      <4>2. c.openingMinutes = setup.members[b].openingMinutes
            /\ c.closingMinutes = setup.members[b].closingMinutes
            /\ c.minute = LocalMinute(Zone(b), now)
        BY DEF Candidate, Zone
      <4> HIDE DEF c
      <4>3. WindowContains(c.openingMinutes, c.closingMinutes, c.minute)
        <5>1. "closed" \in DOMAIN RuleFires(c)
          BY DEF RuleFires
        <5>2. ~RuleFires(c)["closed"]
          BY <4>1, <5>1 DEF CanReceive
        <5> QED
          BY <5>2 DEF RuleFires
      <4> QED
        BY <4>2, <4>3 DEF OpenAt
    <3>5. ~page.views[b].isOpenNow => page.views[b].at # now
      BY <2>1, <3>1, <3>4 DEF PageInv, RowsAreTrue
    <3> QED
      BY <3>3, <3>5
  <2>7. PreviewAgreesWithRows'
    <3>1. \A b \in BrokerIds : \A t : LocalDay(Zone(b)', t) = LocalDay(Zone(b), t)
      BY <1>2
    <3> QED
      BY <2>2, <2>4, <2>6, <3>1 DEF PreviewAgreesWithRows
  <2> QED
    BY <2>5, <2>7 DEF PageInv
<1>8. Route \/ NoBroker \/ Tick \/ UNCHANGED vars => page' = page
  BY DEF Route, NoBroker, Tick, vars
<1> QED
  BY <1>4, <1>5, <1>6, <1>7, <1>8 DEF Next, Browse

(* composite.controller.ts, GET /distribution/detail: the preview, read    *)
(* after the rows, never names a member whose row says capped or closed,   *)
(* unless the clock moved in between.                                      *)
THEOREM PageNeverContradictsItself == Spec => []PreviewAgreesWithRows
<1>1. Spec => []TypeInv
  BY TypeInit, TypeStep, PTL DEF Spec
<1>2. Spec => []PageInv
  BY <1>1, PageInit, PageStep, PTL DEF Spec
<1>3. PageInv => PreviewAgreesWithRows
  BY DEF PageInv
<1> QED
  BY <1>2, <1>3, PTL

-----------------------------------------------------------------------------
(* The contracted shares of up to three members.                           *)

ShareIn(s, b) == IF b \in BrokerIds THEN s.members[b].percentage ELSE 0
Share(b) == ShareIn(setup, b)

(* EveryoneAlwaysOpen of a setup.                                          *)
OpenIn(s) == \A b \in BrokerIds :
    /\ s.members[b].dailyCap = 0
    /\ OpenFor(s.members[b]) = MinutesPerDay
    /\ s.members[b].workingDays = 1..7

(* The members are x, y and z or some of them, they have the whole between *)
(* them, whoever has a share has more than half a percent, and the clocks  *)
(* of the distribution are not put back over midnight, wherever everyone   *)
(* is always open.                                                         *)
SplitBetween(x, y, z) ==
    /\ x # y /\ x # z /\ y # z
    /\ BrokerIds \subseteq {x, y, z}
    /\ \A s \in Setups : OpenIn(s) =>
          /\ ~TurnsBack(s.zone)
          /\ ShareIn(s, x) + ShareIn(s, y) + ShareIn(s, z) = 10000
          /\ \A b \in BrokerIds : ShareIn(s, b) = 0 \/ ShareIn(s, b) > 50

SalesOn(d) == {s \in sales : LocalDay(setup.zone, s.at) = d}
SalesOf(b, d) == {s \in sales : s.broker = b /\ LocalDay(setup.zone, s.at) = d}

(* The two calendars disagree on s at a minute of day d, up to n.          *)
IsStray(s, n, d) ==
    \E t \in setup.instants, read \in {s.at - 1, s.at} :
        /\ t <= n /\ t >= s.at /\ LocalDay(setup.zone, t) = d
        /\ (LocalDay(setup.zone, s.at) = d)
              # (LocalDay(Zone(s.broker), read) = LocalDay(Zone(s.broker), t))

StraysOn(n, d) == {s \in sales : IsStray(s, n, d)}
StraysOf(b, n, d) == {s \in sales : s.broker = b /\ IsStray(s, n, d)}

(* Hundredths of a percent of a lead that b is short of on day d.          *)
Gap(b, d) == Share(b) * Cardinality(SalesOn(d)) - 10000 * Cardinality(SalesOf(b, d))

(* More than half a percent remains until a member is a lead ahead.        *)
Bounded(g, strays) == 0 <= g + 9949 + 6667 * strays /\ g < 10000 + 10000 * strays

SharesKept == EveryoneAlwaysOpen =>
    \A b \in BrokerIds, d \in Int : Bounded(Gap(b, d), Cardinality(StraysOn(now, d)))

(* What b's counter of day k has counted, at most and at least: a sale is  *)
(* counted on the day of the minute it was sold in, or of the one before.  *)
Maybe(b, k) == {s \in sales : s.broker = b /\
                   \E read \in {s.at - 1, s.at} : LocalDay(Zone(b), read) = k}
Surely(b, k) == {s \in sales : s.broker = b /\
                   \A read \in {s.at - 1, s.at} : LocalDay(Zone(b), read) = k}

Counted(b, k) == /\ Cardinality(Surely(b, k)) <= SentOn(<<b, k>>)
                 /\ SentOn(<<b, k>>) <= Cardinality(Maybe(b, k))

CountedInv == \A b \in BrokerIds, k \in Int : Counted(b, k)

SoldToShares == \A s \in sales : Share(s.broker) > 0

ShareInv == CountedInv /\ SoldToShares /\ SharesKept

-----------------------------------------------------------------------------
(* Arithmetic: if w is sold the lead, and nobody with a share had a higher *)
(* deficit but for rounding and strays, all three stay within their bounds.*)
LEMMA Greedy ==
    ASSUME NEW u \in Int, NEW v \in Int, NEW e \in Int, u + v + e = 10000,
           NEW i \in Nat, NEW j \in Nat, NEW k \in Nat, NEW n \in Nat, i + j + k <= n,
           v <= 0 \/ v - 10000 * j <= u + 10000 * i + 100,
           e <= 0 \/ e - 10000 * k <= u + 10000 * i + 100,
           0 <= v + 9898 + 6667 * n, 0 <= e + 9898 + 6667 * n
    PROVE  /\ 0 <= u - 51 + 6667 * n
           /\ v < 10000 + 10000 * n /\ e < 10000 + 10000 * n
OBVIOUS

LEMMA WholeIsShared ==
    ASSUME NEW p \in Nat, NEW q \in Nat, NEW r \in Nat, p + q + r = 10000, NEW t \in Nat
    PROVE  p * t + q * t + r * t = 10000 * t
BY Z3

(* Counting sales by broker.                                               *)
LEMMA DisjointUnion ==
    ASSUME NEW S, IsFiniteSet(S), NEW T, IsFiniteSet(T), S \cap T = {}
    PROVE  /\ IsFiniteSet(S \cup T)
           /\ Cardinality(S \cup T) = Cardinality(S) + Cardinality(T)
<1>1. Cardinality(S) \in Nat /\ Cardinality(T) \in Nat
  BY FS_CardinalityType
<1>2. Cardinality(S \cap T) = 0
  BY FS_EmptySet
<1>3. /\ IsFiniteSet(S \cup T)
      /\ Cardinality(S \cup T) = Cardinality(S) + Cardinality(T) - Cardinality(S \cap T)
  BY FS_Union
<1> QED
  BY <1>1, <1>2, <1>3

PartOf(b, A, B) == \A s : s \in B <=> s \in A /\ s.broker = b

LEMMA ThreeParts ==
    ASSUME NEW A, IsFiniteSet(A), NEW B, NEW C, NEW D, NEW x, NEW y, NEW z,
           x # y, x # z, y # z, \A s \in A : s.broker = x \/ s.broker = y \/ s.broker = z,
           PartOf(x, A, B), PartOf(y, A, C), PartOf(z, A, D)
    PROVE  Cardinality(A) = Cardinality(B) + Cardinality(C) + Cardinality(D)
<1>1. A = (B \cup C) \cup D /\ B \cap C = {} /\ (B \cup C) \cap D = {}
  BY DEF PartOf
<1>2. B \subseteq A /\ C \subseteq A /\ D \subseteq A
  BY DEF PartOf
<1>3. IsFiniteSet(B) /\ IsFiniteSet(C) /\ IsFiniteSet(D)
  BY <1>2, FS_Subset
<1>4. IsFiniteSet(B \cup C) /\ Cardinality(B \cup C) = Cardinality(B) + Cardinality(C)
  BY <1>1, <1>3, DisjointUnion
<1>5. Cardinality((B \cup C) \cup D) = Cardinality(B \cup C) + Cardinality(D)
  BY <1>1, <1>3, <1>4, DisjointUnion
<1> QED
  BY <1>1, <1>4, <1>5

(* A set that lies in another but for some members.                        *)
LEMMA AllBut ==
    ASSUME NEW A, NEW B, NEW C, IsFiniteSet(B), IsFiniteSet(C), A \subseteq B \cup C
    PROVE  /\ Cardinality(A) <= Cardinality(B) + Cardinality(C)
           /\ Cardinality(A) \in Nat /\ Cardinality(B) \in Nat /\ Cardinality(C) \in Nat
<1>1. IsFiniteSet(B \cup C) /\ Cardinality(B \cup C) =
          Cardinality(B) + Cardinality(C) - Cardinality(B \cap C)
  BY FS_Union
<1>2. IsFiniteSet(A) /\ Cardinality(A) <= Cardinality(B \cup C)
  BY <1>1, FS_Subset
<1>3. IsFiniteSet(B \cap C)
  BY FS_Subset
<1>4. /\ Cardinality(A) \in Nat /\ Cardinality(B) \in Nat /\ Cardinality(C) \in Nat
      /\ Cardinality(B \cap C) \in Nat
  BY <1>2, <1>3, FS_CardinalityType
<1> QED
  BY <1>1, <1>2, <1>4

LEMMA SalesAreFinite ==
    ASSUME IsFiniteSet(sales), NEW b, NEW d, NEW n
    PROVE  /\ IsFiniteSet(SalesOn(d)) /\ IsFiniteSet(SalesOf(b, d))
           /\ IsFiniteSet(StraysOn(n, d)) /\ IsFiniteSet(StraysOf(b, n, d))
           /\ IsFiniteSet(Maybe(b, d)) /\ IsFiniteSet(Surely(b, d))
           /\ Cardinality(SalesOn(d)) \in Nat /\ Cardinality(SalesOf(b, d)) \in Nat
           /\ Cardinality(StraysOn(n, d)) \in Nat /\ Cardinality(StraysOf(b, n, d)) \in Nat
           /\ Cardinality(Maybe(b, d)) \in Nat /\ Cardinality(Surely(b, d)) \in Nat
<1>1. /\ SalesOn(d) \subseteq sales /\ SalesOf(b, d) \subseteq sales
      /\ StraysOn(n, d) \subseteq sales /\ StraysOf(b, n, d) \subseteq sales
      /\ Maybe(b, d) \subseteq sales /\ Surely(b, d) \subseteq sales
  BY DEF SalesOn, SalesOf, StraysOn, StraysOf, Maybe, Surely
<1>2. /\ IsFiniteSet(SalesOn(d)) /\ IsFiniteSet(SalesOf(b, d))
      /\ IsFiniteSet(StraysOn(n, d)) /\ IsFiniteSet(StraysOf(b, n, d))
      /\ IsFiniteSet(Maybe(b, d)) /\ IsFiniteSet(Surely(b, d))
  BY <1>1, FS_Subset
<1> QED
  BY <1>2, FS_CardinalityType

LEMMA StraysAreCounted == Strays = Cardinality(StraysOn(now, LocalDay(setup.zone, now)))
<1> DEFINE d == LocalDay(setup.zone, now)
<1>1. ASSUME NEW s \in sales
      PROVE  IsStray(s, now, d) <=>
                 \E t \in {t \in setup.instants :
                              t <= now /\ LocalDay(setup.zone, t) = LocalDay(setup.zone, now)},
                    read \in {s.at - 1, s.at} :
                     /\ t >= s.at
                     /\ (LocalDay(setup.zone, s.at) = LocalDay(setup.zone, t))
                           # (LocalDay(Zone(s.broker), read) = LocalDay(Zone(s.broker), t))
  BY DEF IsStray
<1> QED
  BY <1>1 DEF Strays, StraysOn

(* The split of the sales and of the strays of a day.                      *)
LEMMA DayIsSplit ==
    ASSUME TypeOK, NEW x, NEW y, NEW z, SplitBetween(x, y, z), NEW d, NEW n
    PROVE  /\ Cardinality(SalesOn(d)) = Cardinality(SalesOf(x, d))
                  + Cardinality(SalesOf(y, d)) + Cardinality(SalesOf(z, d))
           /\ Cardinality(StraysOn(n, d)) = Cardinality(StraysOf(x, n, d))
                  + Cardinality(StraysOf(y, n, d)) + Cardinality(StraysOf(z, n, d))
<1>1. IsFiniteSet(SalesOn(d)) /\ IsFiniteSet(StraysOn(n, d))
  BY SalesAreFinite DEF TypeOK
<1>2. \A s \in sales : s.broker \in {x, y, z}
  BY DEF TypeOK, SplitBetween
<1>3. \A b : /\ SalesOf(b, d) = {s \in SalesOn(d) : s.broker = b}
             /\ StraysOf(b, n, d) = {s \in StraysOn(n, d) : s.broker = b}
  BY DEF SalesOf, SalesOn, StraysOf, StraysOn
<1>4. x # y /\ x # z /\ y # z
  BY DEF SplitBetween
<1>5. Cardinality(SalesOn(d)) = Cardinality(SalesOf(x, d))
          + Cardinality(SalesOf(y, d)) + Cardinality(SalesOf(z, d))
  <2> DEFINE A == SalesOn(d)
             B == SalesOf(x, d)
             C == SalesOf(y, d)
             D == SalesOf(z, d)
  <2>1. \A s \in A : s.broker = x \/ s.broker = y \/ s.broker = z
    BY <1>2 DEF SalesOn
  <2>2. /\ IsFiniteSet(A)
        /\ PartOf(x, A, B) /\ PartOf(y, A, C) /\ PartOf(z, A, D)
    BY <1>1, <1>3 DEF PartOf
  <2> HIDE DEF A, B, C, D
  <2>3. Cardinality(A) = Cardinality(B) + Cardinality(C) + Cardinality(D)
    BY <1>4, <2>1, <2>2, ThreeParts
  <2> QED
    BY <2>3 DEF A, B, C, D
<1>6. Cardinality(StraysOn(n, d)) = Cardinality(StraysOf(x, n, d))
          + Cardinality(StraysOf(y, n, d)) + Cardinality(StraysOf(z, n, d))
  <2> DEFINE A == StraysOn(n, d)
             B == StraysOf(x, n, d)
             C == StraysOf(y, n, d)
             D == StraysOf(z, n, d)
  <2>1. \A s \in A : s.broker = x \/ s.broker = y \/ s.broker = z
    BY <1>2 DEF StraysOn
  <2>2. /\ IsFiniteSet(A)
        /\ PartOf(x, A, B) /\ PartOf(y, A, C) /\ PartOf(z, A, D)
    BY <1>1, <1>3 DEF PartOf
  <2> HIDE DEF A, B, C, D
  <2>3. Cardinality(A) = Cardinality(B) + Cardinality(C) + Cardinality(D)
    BY <1>4, <2>1, <2>2, ThreeParts
  <2> QED
    BY <2>3 DEF A, B, C, D
<1> QED
  BY <1>5, <1>6

-----------------------------------------------------------------------------
(* What the counters have counted.                                         *)

LEMMA CountedInit == Init => CountedInv /\ SoldToShares
<1> SUFFICES ASSUME Init PROVE CountedInv /\ SoldToShares
  OBVIOUS
<1>1. sales = {} /\ DOMAIN counters = {}
  BY DEF Init
<1>2. \A b, k : Maybe(b, k) = {} /\ Surely(b, k) = {}
  BY <1>1 DEF Maybe, Surely
<1>3. Cardinality({}) = 0
  BY FS_EmptySet
<1>4. \A k : SentOn(k) = 0
  BY <1>1 DEF SentOn
<1>5. CountedInv
  BY <1>2, <1>3, <1>4 DEF CountedInv, Counted
<1> QED
  BY <1>1, <1>5 DEF SoldToShares

(* What one sale does to what was counted, surely counted, or maybe.       *)
LEMMA CountedRoute ==
    ASSUME TypeOK, TypeOK', CountedInv, Route
    PROVE  CountedInv'
<1>1. PICK r \in Readings, w \in BrokerIds :
          /\ counters' = Incremented(<<w, LocalDay(Zone(w), r.at[w])>>)
          /\ sales' = sales \cup {Sale(w, r.assigned)}
          /\ now' = r.assigned
          /\ setup' = setup
  BY RouteSells
<1>2. /\ r.at[w] \in Int /\ r.at[w] \in {now, now + 1} /\ r.at[w] <= now'
      /\ now' \in {now, now + 1} /\ now \in Nat
  BY <1>1, ReadingsAreNow, InstantsAreNat
<1>3. /\ setup \in Setups /\ CountersOK
      /\ \A b \in BrokerIds : Zone(b) \in Zones /\ Zone(b)' = Zone(b)
  BY <1>1, MemberTerms DEF TypeOK, CountersOK, Zone
<1>4. PICK d \in Int : d = LocalDay(Zone(w), r.at[w])
  BY <1>2, <1>3, LocalClock
<1>5. PICK at \in Int : at = now' /\ (r.at[w] = at - 1 \/ r.at[w] = at)
  <2>1. now' \in Int /\ (r.at[w] = now' - 1 \/ r.at[w] = now')
    BY <1>2
  <2> QED
    BY <2>1
<1>6. PICK s : s = Sale(w, at) /\ s.broker = w /\ s.at = at
  <2>1. Sale(w, at).broker = w /\ Sale(w, at).at = at
    BY DEF Sale
  <2> QED
    BY <2>1
<1>7. sales' = sales \cup {s} /\ s \notin sales /\ IsFiniteSet(sales) /\ IsFiniteSet(sales')
  BY <1>1, <1>5, <1>6, SaleIsNew DEF TypeOK
<1> SUFFICES ASSUME NEW b \in BrokerIds, NEW k \in Int PROVE Counted(b, k)'
  BY DEF CountedInv
<1> DEFINE Read(u) == LocalDay(Zone(b), u) = k
<1>8. \A u : (LocalDay(Zone(b), u) = k)' <=> LocalDay(Zone(b), u) = k
  BY <1>3
<1>9. /\ Maybe(b, k)' = {v \in sales' : v.broker = b /\
                            \E read \in {v.at - 1, v.at} : LocalDay(Zone(b), read) = k}
      /\ Surely(b, k)' = {v \in sales' : v.broker = b /\
                            \A read \in {v.at - 1, v.at} : LocalDay(Zone(b), read) = k}
  BY <1>3 DEF Maybe, Surely
<1>10. /\ Maybe(b, k) \subseteq Maybe(b, k)'
       /\ Surely(b, k)' \subseteq Surely(b, k) \cup {s}
  BY <1>7, <1>9 DEF Maybe, Surely
<1>11. /\ IsFiniteSet(Maybe(b, k)) /\ IsFiniteSet(Surely(b, k))
       /\ IsFiniteSet(Maybe(b, k)') /\ IsFiniteSet(Surely(b, k)')
       /\ Cardinality(Maybe(b, k)) \in Nat /\ Cardinality(Surely(b, k)) \in Nat
       /\ Cardinality(Maybe(b, k)') \in Nat /\ Cardinality(Surely(b, k)') \in Nat
  <2>1. /\ IsFiniteSet(Maybe(b, k)) /\ IsFiniteSet(Surely(b, k))
    BY <1>7, SalesAreFinite
  <2>2. Maybe(b, k)' \subseteq sales' /\ Surely(b, k)' \subseteq sales'
    BY <1>9
  <2>3. IsFiniteSet(Maybe(b, k)') /\ IsFiniteSet(Surely(b, k)')
    BY <1>7, <2>2, FS_Subset
  <2> QED
    BY <2>1, <2>3, FS_CardinalityType
<1>12. /\ Cardinality(Surely(b, k)) <= SentOn(<<b, k>>)
       /\ SentOn(<<b, k>>) <= Cardinality(Maybe(b, k))
       /\ SentOn(<<b, k>>) \in Nat
  BY <1>3, SentIsNat DEF CountedInv, Counted
<1>13. CASE b = w /\ k = d
  <2>1. SentOn(<<b, k>>)' = SentOn(<<b, k>>) + 1
    <3> DEFINE j == <<w, d>>
    <3>1. j \in BrokerIds \X Int /\ counters' = Incremented(j)
      BY <1>1, <1>4
    <3> HIDE DEF j
    <3>2. SentOn(j)' = SentOn(j) + 1
      BY <1>3, <3>1, OneRowMoves
    <3> QED
      BY <1>13, <3>2 DEF j
  <2>2. s \in Maybe(b, k)' /\ s \notin Maybe(b, k)
    <3>1. LocalDay(Zone(b), at - 1) = k \/ LocalDay(Zone(b), at) = k
      BY <1>4, <1>5, <1>13
    <3>2. s \in sales' /\ s.broker = b
      BY <1>6, <1>7, <1>13
    <3> QED
      BY <1>6, <1>7, <1>9, <3>1, <3>2 DEF Maybe
  <2>3. Cardinality(Maybe(b, k)) + 1 <= Cardinality(Maybe(b, k)')
    <3>1. Maybe(b, k) \cup {s} \subseteq Maybe(b, k)'
      BY <1>10, <2>2
    <3>2. /\ IsFiniteSet(Maybe(b, k) \cup {s})
          /\ Cardinality(Maybe(b, k) \cup {s}) = Cardinality(Maybe(b, k)) + 1
      BY <1>11, <2>2, FS_AddElement
    <3>3. Cardinality(Maybe(b, k) \cup {s}) <= Cardinality(Maybe(b, k)')
      BY <1>11, <3>1, FS_Subset
    <3> QED
      BY <3>2, <3>3
  <2>4. Cardinality(Surely(b, k)') <= Cardinality(Surely(b, k)) + 1
    <3>1. /\ IsFiniteSet(Surely(b, k) \cup {s})
          /\ \/ Cardinality(Surely(b, k) \cup {s}) = Cardinality(Surely(b, k)) + 1
             \/ Cardinality(Surely(b, k) \cup {s}) = Cardinality(Surely(b, k))
      BY <1>11, FS_AddElement
    <3>2. Cardinality(Surely(b, k)') <= Cardinality(Surely(b, k) \cup {s})
      BY <1>10, <3>1, FS_Subset
    <3> QED
      BY <1>11, <3>1, <3>2
  <2> QED
    BY <1>11, <1>12, <2>1, <2>3, <2>4 DEF Counted
<1>14. CASE ~(b = w /\ k = d)
  <2>1. SentOn(<<b, k>>)' = SentOn(<<b, k>>)
    <3> DEFINE j == <<w, d>>
    <3>1. j \in BrokerIds \X Int /\ counters' = Incremented(j)
      BY <1>1, <1>4
    <3>2. <<b, k>> # j
      BY <1>14
    <3> HIDE DEF j
    <3> QED
      BY <1>3, <3>1, <3>2, OneRowMoves
  <2>2. s \notin Surely(b, k)'
    <3>1. SUFFICES ASSUME s.broker = b,
                          LocalDay(Zone(b), at - 1) = k, LocalDay(Zone(b), at) = k
                   PROVE  FALSE
      BY <1>6, <1>9
    <3> QED
      BY <1>4, <1>5, <1>6, <1>14, <3>1
  <2>3. Surely(b, k)' \subseteq Surely(b, k)
    BY <1>10, <2>2
  <2>4. /\ Cardinality(Surely(b, k)') <= Cardinality(Surely(b, k))
        /\ Cardinality(Maybe(b, k)) <= Cardinality(Maybe(b, k)')
    BY <1>10, <1>11, <2>3, FS_Subset
  <2> QED
    BY <1>11, <1>12, <2>1, <2>4 DEF Counted
<1> QED
  BY <1>13, <1>14

LEMMA CountedStep ==
    TypeOK /\ TypeOK' /\ CountedInv /\ SoldToShares /\ [Next]_vars => CountedInv' /\ SoldToShares'
<1> SUFFICES ASSUME TypeOK, TypeOK', CountedInv, SoldToShares, [Next]_vars
             PROVE  CountedInv' /\ SoldToShares'
  OBVIOUS
<1>1. setup' = setup /\ \A b : Share(b)' = Share(b)
  BY ClockRuns DEF Share, ShareIn
<1>2. CASE Route
  <2>1. PICK r \in Readings, w \in BrokerIds :
            /\ w \in {c.id : c \in SelectedWith(r)}
            /\ sales' = sales \cup {Sale(w, r.assigned)}
    BY <1>2, RouteSells
  <2>2. Share(w) > 0 /\ Sale(w, r.assigned).broker = w
    BY <2>1, SelectedIsBest DEF MayReceive, Share, ShareIn, Sale
  <2>3. SoldToShares'
    BY <1>1, <2>1, <2>2 DEF SoldToShares
  <2> QED
    BY <1>2, <2>3, CountedRoute
<1>3. CASE NoBroker \/ Tick \/ Browse \/ UNCHANGED vars
  <2>1. counters' = counters /\ sales' = sales /\ setup' = setup
    BY <1>1, <1>3 DEF NoBroker, Tick, Browse, OpenPage, ReadNext, ReadView, trade, vars
  <2>2. SoldToShares'
    BY <1>1, <2>1 DEF SoldToShares
  <2>3. \A b \in BrokerIds, k \in Int : Counted(b, k)'
    <3> SUFFICES ASSUME NEW b \in BrokerIds, NEW k \in Int PROVE Counted(b, k)'
      OBVIOUS
    <3>1. SentOn(<<b, k>>)' = SentOn(<<b, k>>)
      BY <2>1 DEF SentOn
    <3>2. Zone(b)' = Zone(b)
      BY <2>1 DEF Zone
    <3>3. Maybe(b, k)' = Maybe(b, k) /\ Surely(b, k)' = Surely(b, k)
      BY <2>1, <3>2 DEF Maybe, Surely
    <3> QED
      BY <3>1, <3>3 DEF CountedInv, Counted
  <2> QED
    BY <2>2, <2>3 DEF CountedInv
<1> QED
  BY <1>2, <1>3 DEF Next

(* A counter agrees with the sales of the day but for the strays.          *)
LEMMA CounterNearSales ==
    ASSUME TypeOK, CountedInv, NEW b \in BrokerIds, NEW t \in setup.instants, now <= t,
           NEW n \in Int, t <= n, NEW d, LocalDay(setup.zone, t) = d
    PROVE  /\ SentToday(b, t) <= Cardinality(SalesOf(b, d)) + Cardinality(StraysOf(b, n, d))
           /\ Cardinality(SalesOf(b, d)) <= SentToday(b, t) + Cardinality(StraysOf(b, n, d))
           /\ SentToday(b, t) \in Nat
<1>1. t \in Nat /\ now \in Nat /\ Zone(b) \in Zones /\ CountersOK /\ IsFiniteSet(sales)
  BY InstantsAreNat, MemberTerms DEF TypeOK, CountersOK
<1>2. PICK k \in Int : k = LocalDay(Zone(b), t)
  BY <1>1, LocalClock
<1>3. SentToday(b, t) = SentOn(<<b, k>>) /\ SentOn(<<b, k>>) \in Nat
  BY <1>1, <1>2, SentIsNat DEF SentToday
<1>4. \A s \in sales : s.at <= t
  <2> SUFFICES ASSUME NEW s \in sales PROVE s.at <= t
    OBVIOUS
  <2>1. s.at \in Nat /\ s.at <= now
    BY InstantsAreNat DEF TypeOK
  <2> QED
    BY <1>1, <2>1
<1>5. ASSUME NEW s \in sales, s.broker = b, NEW read \in {s.at - 1, s.at},
             (LocalDay(setup.zone, s.at) = d) # (LocalDay(Zone(b), read) = k)
      PROVE  s \in StraysOf(b, n, d)
  <2>1. IsStray(s, n, d)
    BY <1>2, <1>4, <1>5 DEF IsStray
  <2> QED
    BY <1>5, <2>1 DEF StraysOf
<1>6. Maybe(b, k) \subseteq SalesOf(b, d) \cup StraysOf(b, n, d)
  BY <1>5 DEF Maybe, SalesOf
<1>7. SalesOf(b, d) \subseteq Surely(b, k) \cup StraysOf(b, n, d)
  BY <1>5 DEF Surely, SalesOf
<1>8. /\ Cardinality(Maybe(b, k)) <= Cardinality(SalesOf(b, d)) + Cardinality(StraysOf(b, n, d))
      /\ Cardinality(SalesOf(b, d)) <= Cardinality(Surely(b, k)) + Cardinality(StraysOf(b, n, d))
      /\ Cardinality(Maybe(b, k)) \in Nat /\ Cardinality(Surely(b, k)) \in Nat
      /\ Cardinality(SalesOf(b, d)) \in Nat /\ Cardinality(StraysOf(b, n, d)) \in Nat
  <2>1. IsFiniteSet(SalesOf(b, d)) /\ IsFiniteSet(StraysOf(b, n, d)) /\ IsFiniteSet(Surely(b, k))
    BY <1>1, SalesAreFinite
  <2> QED
    BY <1>6, <1>7, <2>1, AllBut
<1>9. Cardinality(Surely(b, k)) <= SentOn(<<b, k>>) /\ SentOn(<<b, k>>) <= Cardinality(Maybe(b, k))
  BY DEF CountedInv, Counted
<1> QED
  BY <1>3, <1>8, <1>9

-----------------------------------------------------------------------------
(* The greedy rule.                                                        *)

LEMMA ShareIsPart ==
    ASSUME setup \in Setups, NEW b
    PROVE  /\ Share(b) \in Nat /\ Share(b) <= 10000
           /\ b \in BrokerIds => Share(b) = setup.members[b].percentage
           /\ b \notin BrokerIds => Share(b) = 0
<1> DEFINE p == setup.members[b].percentage
<1>1. b \in BrokerIds => p \in 0..Whole
  BY MemberTerms
<1>2. Share(b) = IF b \in BrokerIds THEN p ELSE 0
  BY DEF Share, ShareIn
<1> HIDE DEF p
<1>3. Whole = 10000
  BY DEF Whole
<1>4. b \in BrokerIds => p \in Nat /\ p <= Whole
  <2>1. Whole \in Nat
    BY <1>3
  <2> QED
    BY <1>1, <2>1
<1>5. Share(b) \in Nat /\ Share(b) <= 10000
  BY <1>2, <1>3, <1>4
<1> QED
  BY <1>2, <1>5 DEF p

LEMMA AlwaysMayReceive ==
    ASSUME TypeOK, EveryoneAlwaysOpen, NEW b \in BrokerIds, Share(b) > 0, NEW t \in Int
    PROVE  MayReceive(b, t)
<1> DEFINE m == setup.members[b]
<1>1. m.zone \in Zones /\ InDay(m.openingMinutes)
  BY MemberTerms DEF TypeOK, Zone
<1>2. LocalTime(m.zone, t) \in Int /\ LocalDay(m.zone, t) \in Int
  BY <1>1, LocalClock
<1>3. m.percentage > 0
  BY DEF Share, ShareIn
<1>4. m.dailyCap = 0 /\ OpenFor(m) = MinutesPerDay /\ m.workingDays = 1..7
  BY DEF EveryoneAlwaysOpen
<1>5. (LocalTime(m.zone, t) - m.openingMinutes) % MinutesPerDay < MinutesPerDay
  <2> DEFINE n == LocalTime(m.zone, t) - m.openingMinutes
  <2>1. n \in Int
    BY <1>1, <1>2 DEF InDay
  <2> HIDE DEF n
  <2>2. n % 1440 < 1440
    BY <2>1, DaySplit DEF InDay
  <2> QED
    BY <2>2 DEF n, MinutesPerDay
<1>6. IsoWeekday(m.zone, t) \in 1..7
  <2> DEFINE d == LocalDay(m.zone, t)
  <2>1. d \in Int
    BY <1>2
  <2> HIDE DEF d
  <2>2. (d % 7) + 1 \in 1..7
    BY <2>1
  <2> QED
    BY <2>2 DEF d, IsoWeekday
<1> QED
  BY <1>3, <1>4, <1>5, <1>6 DEF MayReceive

(* Nobody with a share has a higher deficit than the winner, by what the   *)
(* router has read, but for the rounding of the two targets.               *)
LEMMA WinnerAhead ==
    ASSUME TypeOK, EveryoneAlwaysOpen, NEW r \in Readings, NEW w,
           w \in {c.id : c \in SelectedWith(r)}, NEW b \in BrokerIds, b # w, Share(b) > 0,
           NEW t \in Nat, t = TotalSentToday(r.counted)
    PROVE  /\ w \in BrokerIds
           /\ Share(b) * (t + 1) - 10000 * SentToday(b, r.at[b]) <=
                  Share(w) * (t + 1) - 10000 * SentToday(w, r.at[w]) + 100
<1>1. /\ w \in BrokerIds
      /\ \A c \in BrokerIds : r.at[c] \in Int
      /\ setup \in Setups /\ CountersOK
  BY SelectedIsBest, ReadingsAreNow DEF TypeOK, CountersOK
<1>2. \E down : Beats(Candidate(w, r.at[w]), Candidate(b, r.at[b]), t, down)
  BY <1>1, AlwaysMayReceive, SelectedIsBest
<1>3. \A c \in BrokerIds :
          /\ Share(c) \in Int /\ SentToday(c, r.at[c]) \in Int
          /\ Candidate(c, r.at[c]).percentage = Share(c)
          /\ Candidate(c, r.at[c]).sentToday = SentToday(c, r.at[c])
  <2> SUFFICES ASSUME NEW c \in BrokerIds
               PROVE  /\ Share(c) \in Int /\ SentToday(c, r.at[c]) \in Int
                      /\ Candidate(c, r.at[c]).percentage = Share(c)
                      /\ Candidate(c, r.at[c]).sentToday = SentToday(c, r.at[c])
    OBVIOUS
  <2>1. Share(c) \in Nat /\ Share(c) = setup.members[c].percentage
    BY <1>1, ShareIsPart
  <2>2. /\ SentToday(c, r.at[c]) \in Nat
        /\ Candidate(c, r.at[c]).percentage = setup.members[c].percentage
        /\ Candidate(c, r.at[c]).sentToday = SentToday(c, r.at[c])
    BY <1>1, CandidateFields
  <2> DEFINE k == Candidate(c, r.at[c])
             i == SentToday(c, r.at[c])
  <2> HIDE DEF k, i
  <2>3. i \in Nat /\ k.percentage = setup.members[c].percentage /\ k.sentToday = i
    BY <2>2 DEF k, i
  <2>4. Share(c) \in Int /\ i \in Int /\ k.percentage = Share(c) /\ k.sentToday = i
    BY <2>1, <2>3
  <2> QED
    BY <2>4 DEF k, i
<1> QED
  BY <1>1, <1>2, <1>3, BeatsByRounding

LEMMA LooserBound ==
    ASSUME NEW g \in Int, NEW m \in Nat, NEW n \in Nat, m <= n, Bounded(g, m)
    PROVE  Bounded(g, n)
BY DEF Bounded

(* Time passes: a stray stays one.                                         *)
LEMMA StraysStay ==
    ASSUME TypeOK, TypeOK', [Next]_vars, sales \subseteq sales', NEW d
    PROVE  /\ StraysOn(now, d) \subseteq StraysOn(now', d)
           /\ StraysOn(now', d) \subseteq StraysOn(now, d)'
           /\ Cardinality(StraysOn(now, d)) \in Nat
           /\ Cardinality(StraysOn(now', d)) \in Nat
           /\ Cardinality(StraysOn(now, d)') \in Nat
           /\ Cardinality(StraysOn(now, d)) <= Cardinality(StraysOn(now', d))
           /\ Cardinality(StraysOn(now', d)) <= Cardinality(StraysOn(now, d)')
<1>1. setup' = setup /\ now \in Nat /\ now' \in Nat /\ now <= now'
  BY ClockRuns
<1>2. setup.instants \subseteq Nat /\ IsFiniteSet(sales) /\ IsFiniteSet(sales')
  BY InstantsAreNat DEF TypeOK
<1>3. \A s : IsStray(s, now, d) => IsStray(s, now', d)
  BY <1>1, <1>2 DEF IsStray
<1>4. \A b : Zone(b)' = Zone(b)
  BY <1>1 DEF Zone
<1>5. \A s : IsStray(s, now, d)' <=> IsStray(s, now', d)
  BY <1>1, <1>4 DEF IsStray
<1>6. StraysOn(now, d)' = {s \in sales' : IsStray(s, now', d)}
  BY <1>5 DEF StraysOn
<1>7. /\ StraysOn(now, d) \subseteq StraysOn(now', d)
      /\ StraysOn(now', d) \subseteq StraysOn(now, d)'
  BY <1>3, <1>6 DEF StraysOn
<1>8. /\ IsFiniteSet(StraysOn(now, d)) /\ IsFiniteSet(StraysOn(now', d))
      /\ IsFiniteSet(StraysOn(now, d)')
  <2>1. StraysOn(now, d) \subseteq sales /\ StraysOn(now', d) \subseteq sales
        /\ StraysOn(now, d)' \subseteq sales'
    BY <1>6 DEF StraysOn
  <2> QED
    BY <1>2, <2>1, FS_Subset
<1> QED
  BY <1>7, <1>8, FS_Subset, FS_CardinalityType

(* Nothing is sold on the day: the bound only loosens.                     *)
LEMMA QuietDay ==
    ASSUME TypeOK, TypeOK', SharesKept, EveryoneAlwaysOpen, [Next]_vars, sales \subseteq sales',
           NEW b \in BrokerIds, NEW d \in Int,
           SalesOn(d)' = SalesOn(d), SalesOf(b, d)' = SalesOf(b, d)
    PROVE  Bounded(Gap(b, d), Cardinality(StraysOn(now, d)))'
<1> DEFINE g == Gap(b, d)
           m == Cardinality(StraysOn(now, d))
           n == Cardinality(StraysOn(now, d)')
<1>1. Share(b)' = Share(b) /\ setup \in Setups /\ IsFiniteSet(sales)
  BY ClockRuns DEF Share, ShareIn, TypeOK
<1>2. Gap(b, d)' = g
  BY <1>1 DEF Gap
<1>3. g \in Int
  <2>1. /\ Share(b) \in Nat /\ Cardinality(SalesOn(d)) \in Nat
        /\ Cardinality(SalesOf(b, d)) \in Nat
    BY <1>1, ShareIsPart, SalesAreFinite
  <2> QED
    BY <2>1 DEF Gap
<1>4. m \in Nat /\ n \in Nat /\ m <= n
  <2> DEFINE k == Cardinality(StraysOn(now', d))
  <2>1. m \in Nat /\ n \in Nat /\ k \in Nat /\ m <= k /\ k <= n
    BY StraysStay
  <2> QED
    BY <2>1
<1>5. Bounded(g, m)
  BY DEF SharesKept
<1> HIDE DEF g, m, n
<1>6. Bounded(g, n)
  BY <1>3, <1>4, <1>5, LooserBound
<1> QED
  BY <1>2, <1>6 DEF n, Bounded

LEMMA SplitIsSymmetric ==
    ASSUME NEW x, NEW y, NEW z, SplitBetween(x, y, z)
    PROVE  SplitBetween(y, x, z) /\ SplitBetween(z, x, y)
<1>1. /\ x # y /\ x # z /\ y # z
      /\ BrokerIds \subseteq {y, x, z} /\ BrokerIds \subseteq {z, x, y}
  BY DEF SplitBetween
<1>2. ASSUME NEW s \in Setups, OpenIn(s)
      PROVE  /\ ~TurnsBack(s.zone)
             /\ ShareIn(s, y) + ShareIn(s, x) + ShareIn(s, z) = 10000
             /\ ShareIn(s, z) + ShareIn(s, x) + ShareIn(s, y) = 10000
             /\ \A b \in BrokerIds : ShareIn(s, b) = 0 \/ ShareIn(s, b) > 50
  <2>1. \A b : ShareIn(s, b) \in Nat
    <3> SUFFICES ASSUME NEW b PROVE ShareIn(s, b) \in Nat
      OBVIOUS
    <3>1. s.members \in [BrokerIds -> Terms]
      BY FairShareAssumption
    <3>2. b \in BrokerIds => s.members[b].percentage \in 0..Whole
      BY <3>1 DEF Terms
    <3>3. Whole \in Nat
      BY DEF Whole
    <3> QED
      BY <3>2, <3>3 DEF ShareIn
  <2>2. /\ ~TurnsBack(s.zone) /\ ShareIn(s, x) + ShareIn(s, y) + ShareIn(s, z) = 10000
        /\ \A b \in BrokerIds : ShareIn(s, b) = 0 \/ ShareIn(s, b) > 50
    BY <1>2 DEF SplitBetween
  <2> DEFINE p == ShareIn(s, x)
             q == ShareIn(s, y)
             t == ShareIn(s, z)
  <2>3. p \in Nat /\ q \in Nat /\ t \in Nat /\ p + q + t = 10000
    BY <2>1, <2>2
  <2> HIDE DEF p, q, t
  <2>4. q + p + t = 10000 /\ t + p + q = 10000
    BY <2>3
  <2> QED
    BY <2>2, <2>4 DEF p, q, t
<1> QED
  BY <1>1, <1>2 DEF SplitBetween

(* A lead inside a day of the distribution.                                *)
LEMMA SameDay ==
    ASSUME TypeOK, CountedInv, SoldToShares, SharesKept, EveryoneAlwaysOpen,
           NEW w, NEW y, NEW z, SplitBetween(w, y, z),
           NEW r \in Readings, w \in {c.id : c \in SelectedWith(r)},
           NEW d \in Int, LocalDay(setup.zone, now) = d, LocalDay(setup.zone, r.assigned) = d,
           NEW n \in Nat, n = Cardinality(StraysOn(r.assigned, d)),
           Cardinality(StraysOn(now, d)) <= n, NEW b \in BrokerIds
    PROVE  /\ b = w => Bounded(Gap(b, d) + Share(b) - 10000, n)
           /\ b # w => Bounded(Gap(b, d) + Share(b), n)
<1> DEFINE t == Cardinality(SalesOn(d))
           S(c) == Cardinality(SalesOf(c, d))
           A(c) == Cardinality(StraysOf(c, r.assigned, d))
           E(c) == Share(c) * (t + 1) - 10000 * S(c)
<1>1. /\ setup \in Setups /\ IsFiniteSet(sales) /\ now \in Nat
      /\ setup.instants \subseteq Nat /\ r.assigned \in Int
  BY InstantsAreNat, ReadingsAreNow DEF TypeOK
<1>2. /\ t \in Nat /\ Cardinality(StraysOn(now, d)) \in Nat
      /\ \A c : S(c) \in Nat /\ A(c) \in Nat
  BY <1>1, SalesAreFinite
<1>3. /\ r.counted = now \/ r.counted = r.assigned
      /\ \A c \in BrokerIds : /\ r.at[c] = now \/ r.at[c] = r.assigned
                              /\ now <= r.at[c] /\ r.at[c] <= r.assigned
                              /\ r.at[c] \in setup.instants
  <2>1. /\ r.assigned \in {now, now + 1} /\ r.counted \in {now, now + 1}
        /\ r.counted <= r.assigned
        /\ \A c \in BrokerIds : /\ r.at[c] \in {now, now + 1} /\ r.at[c] <= r.assigned
                                /\ r.at[c] \in Int
    BY ReadingsAreNow
  <2>2. \A c \in BrokerIds : r.at[c] \in setup.instants
    BY DEF Readings
  <2> QED
    BY <1>1, <2>1, <2>2
<1>4. TotalSentToday(r.counted) = t
  <2>1. LocalDay(setup.zone, r.counted) = d
    BY <1>3
  <2> QED
    BY <2>1 DEF TotalSentToday, SoldOnDay, SalesOn
<1>5. \A c : Share(c) \in Nat
  BY <1>1, ShareIsPart
<1>6. \A c : E(c) \in Int /\ E(c) = Share(c) * t + Share(c) - 10000 * S(c)
  <2> SUFFICES ASSUME NEW c
               PROVE  E(c) \in Int /\ E(c) = Share(c) * t + Share(c) - 10000 * S(c)
    OBVIOUS
  <2> DEFINE p == Share(c)
             q == S(c)
  <2>1. p \in Nat /\ q \in Nat
    BY <1>2, <1>5
  <2> HIDE DEF p, q, t
  <2>2. p * (t + 1) - 10000 * q \in Int /\ p * (t + 1) - 10000 * q = p * t + p - 10000 * q
    BY <1>2, <2>1
  <2> QED
    BY <2>2 DEF p, q
<1>7. E(w) + E(y) + E(z) = 10000
  <2> DEFINE p == Share(w)
             q == Share(y)
             s == Share(z)
             i == S(w)
             j == S(y)
             k == S(z)
  <2>1. p \in Nat /\ q \in Nat /\ s \in Nat /\ i \in Nat /\ j \in Nat /\ k \in Nat
    BY <1>2, <1>5
  <2>2. p + q + s = 10000
    BY <1>1 DEF SplitBetween, Share, OpenIn, EveryoneAlwaysOpen
  <2>3. t = i + j + k
    BY DayIsSplit
  <2> HIDE DEF p, q, s, i, j, k, t
  <2>4. t + 1 \in Nat
    BY <1>2
  <2>5. p * (t + 1) + q * (t + 1) + s * (t + 1) = 10000 * (t + 1)
    BY <2>1, <2>2, <2>4, WholeIsShared
  <2>6. p * (t + 1) \in Int /\ q * (t + 1) \in Int /\ s * (t + 1) \in Int
    BY <2>1, <2>4
  <2>7. (p * (t + 1) - 10000 * i) + (q * (t + 1) - 10000 * j) + (s * (t + 1) - 10000 * k) = 10000
    BY <2>1, <2>3, <2>5, <2>6
  <2> QED
    BY <2>7 DEF p, q, s, i, j, k
<1>8. A(w) + A(y) + A(z) <= n
  <2>1. n = A(w) + A(y) + A(z)
    BY DayIsSplit
  <2> QED
    BY <2>1
(* What is left of the others' shares before the lead.                     *)
<1>9. ASSUME NEW c, c \notin BrokerIds \/ Share(c) = 0
      PROVE  E(c) = 0
  <2>1. Share(c) = 0
    BY <1>1, <1>9, ShareIsPart
  <2>2. SalesOf(c, d) = {}
    BY <2>1 DEF SoldToShares, SalesOf
  <2>3. S(c) = 0
    BY <2>2, FS_EmptySet
  <2> QED
    BY <1>2, <2>1, <2>3
<1>10. ASSUME NEW c \in BrokerIds
       PROVE  /\ Gap(c, d) \in Int /\ E(c) = Gap(c, d) + Share(c)
              /\ Bounded(Gap(c, d), n)
  <2> DEFINE g == Gap(c, d)
             m == Cardinality(StraysOn(now, d))
  <2>1. g = Share(c) * t - 10000 * S(c)
    BY DEF Gap
  <2>2. g \in Int /\ E(c) = g + Share(c)
    <3> DEFINE p == Share(c)
               q == S(c)
    <3>1. p \in Nat /\ q \in Nat /\ E(c) = p * t + p - 10000 * q /\ g = p * t - 10000 * q
      BY <1>2, <1>5, <1>6, <2>1
    <3> HIDE DEF p, q, t, g, E
    <3>2. p * t \in Int
      BY <1>2, <3>1
    <3>3. g \in Int /\ E(c) = g + p
      BY <3>1, <3>2
    <3> QED
      BY <3>3 DEF p
  <2>3. Bounded(g, m)
    BY DEF SharesKept
  <2>4. m \in Nat /\ m <= n
    BY <1>2
  <2> HIDE DEF g, m, E
  <2>5. Bounded(g, n)
    BY <2>2, <2>3, <2>4, LooserBound
  <2> QED
    BY <2>2, <2>5 DEF g
<1>11. \A c : c # w => 0 <= E(c) + 9898 + 6667 * n
  <2> SUFFICES ASSUME NEW c PROVE 0 <= E(c) + 9898 + 6667 * n
    OBVIOUS
  <2>1. CASE c \notin BrokerIds \/ Share(c) = 0
    BY <1>9, <2>1
  <2>2. CASE c \in BrokerIds /\ Share(c) # 0
    <3>1. Share(c) > 50 /\ Share(c) \in Nat
      BY <1>1, <1>5, <2>2 DEF SplitBetween, Share, OpenIn, EveryoneAlwaysOpen
    <3>2. /\ Gap(c, d) \in Int /\ E(c) = Gap(c, d) + Share(c)
          /\ 0 <= Gap(c, d) + 9949 + 6667 * n
      BY <1>10, <2>2 DEF Bounded
    <3> HIDE DEF E
    <3> QED
      BY <3>1, <3>2
  <2> QED
    BY <2>1, <2>2
(* Nobody is further ahead of the winner than the strays allow.            *)
<1>12. \A c : c # w => E(c) <= 0 \/ E(c) - 10000 * A(c) <= E(w) + 10000 * A(w) + 100
  <2> SUFFICES ASSUME NEW c, c # w, c \in BrokerIds, Share(c) > 0
               PROVE  E(c) - 10000 * A(c) <= E(w) + 10000 * A(w) + 100
    BY <1>5, <1>9
  <2> DEFINE C(v) == SentToday(v, r.at[v])
  <2>1. /\ w \in BrokerIds
        /\ Share(c) * (t + 1) - 10000 * C(c) <= Share(w) * (t + 1) - 10000 * C(w) + 100
    BY <1>2, <1>4, WinnerAhead
  <2>2. \A v \in BrokerIds : C(v) \in Nat /\ C(v) <= S(v) + A(v) /\ S(v) <= C(v) + A(v)
    <3> SUFFICES ASSUME NEW v \in BrokerIds
                 PROVE  C(v) \in Nat /\ C(v) <= S(v) + A(v) /\ S(v) <= C(v) + A(v)
      OBVIOUS
    <3>1. /\ r.at[v] \in setup.instants /\ now <= r.at[v] /\ r.at[v] <= r.assigned
          /\ LocalDay(setup.zone, r.at[v]) = d
      BY <1>3
    <3> QED
      BY <1>1, <3>1, CounterNearSales
  <2> DEFINE p == Share(w) * (t + 1)
             q == Share(c) * (t + 1)
             i == C(w)
             j == C(c)
             k == S(w)
             l == S(c)
             e == A(w)
             f == A(c)
  <2>3. /\ p \in Int /\ q \in Int /\ i \in Nat /\ j \in Nat
        /\ k \in Nat /\ l \in Nat /\ e \in Nat /\ f \in Nat
        /\ q - 10000 * j <= p - 10000 * i + 100
        /\ j <= l + f /\ k <= i + e
        /\ E(w) = p - 10000 * k /\ E(c) = q - 10000 * l
    <3>1. Share(w) \in Nat /\ Share(c) \in Nat /\ t \in Nat
      BY <1>2, <1>5
    <3>2. p \in Int /\ q \in Int
      BY <3>1
    <3> QED
      BY <1>2, <2>1, <2>2, <3>2
  <2> HIDE DEF p, q, i, j, k, l, e, f, E
  <2>4. E(c) - 10000 * f <= E(w) + 10000 * e + 100
    BY <2>3
  <2> QED
    BY <2>4 DEF e, f
<1>13. /\ 0 <= E(w) - 51 + 6667 * n
       /\ E(y) < 10000 + 10000 * n /\ E(z) < 10000 + 10000 * n
  <2>1. y # w /\ z # w
    BY DEF SplitBetween
  <2> DEFINE u == E(w)
             v == E(y)
             e == E(z)
             i == A(w)
             j == A(y)
             k == A(z)
  <2>2. /\ u \in Int /\ v \in Int /\ e \in Int /\ u + v + e = 10000
        /\ i \in Nat /\ j \in Nat /\ k \in Nat /\ i + j + k <= n
    BY <1>2, <1>6, <1>7, <1>8
  <2>3. /\ v <= 0 \/ v - 10000 * j <= u + 10000 * i + 100
        /\ e <= 0 \/ e - 10000 * k <= u + 10000 * i + 100
        /\ 0 <= v + 9898 + 6667 * n /\ 0 <= e + 9898 + 6667 * n
    BY <1>11, <1>12, <2>1
  <2> HIDE DEF u, v, e, i, j, k
  <2>4. /\ 0 <= u - 51 + 6667 * n /\ v < 10000 + 10000 * n /\ e < 10000 + 10000 * n
    BY <2>2, <2>3, Greedy
  <2> QED
    BY <2>4 DEF u, v, e
<1>14. /\ Gap(b, d) \in Int /\ E(b) = Gap(b, d) + Share(b) /\ Bounded(Gap(b, d), n)
       /\ Share(b) \in Nat /\ Share(b) <= 10000
  BY <1>1, <1>10, ShareIsPart
<1> HIDE DEF E, t
<1>15. CASE b = w
  BY <1>13, <1>14, <1>15 DEF Bounded
<1>16. CASE b # w
  <2>1. b = y \/ b = z
    BY <1>16 DEF SplitBetween
  <2>2. E(b) < 10000 + 10000 * n
    BY <1>13, <2>1
  <2> QED
    BY <1>14, <1>16, <2>2 DEF Bounded
<1> QED
  BY <1>15, <1>16

(* The first lead of a day.                                                *)
LEMMA FirstOfDay ==
    ASSUME TypeOK, EveryoneAlwaysOpen,
           NEW w \in BrokerIds, NEW y, NEW z, SplitBetween(w, y, z), Share(w) > 0,
           NEW d \in Int, LocalDay(setup.zone, now) # d,
           NEW u \in Int, now <= u, LocalDay(setup.zone, u) = d,
           NEW n \in Nat, NEW b \in BrokerIds
    PROVE  /\ b = w => Bounded(Gap(b, d) + Share(b) - 10000, n)
           /\ b # w => Bounded(Gap(b, d) + Share(b), n)
<1>1. setup \in Setups /\ setup.zone \in Zones /\ now \in Nat
  BY FairShareAssumption, InstantsAreNat DEF TypeOK
<1>2. ~TurnsBack(setup.zone) /\ Share(w) + Share(y) + Share(z) = 10000
      /\ Share(w) > 50 /\ (b = w \/ b = y \/ b = z)
  BY <1>1 DEF SplitBetween, Share, OpenIn, EveryoneAlwaysOpen
<1>3. \A t \in Int : t <= now => LocalDay(setup.zone, t) # d
  <2> SUFFICES ASSUME NEW t \in Int, t <= now PROVE LocalDay(setup.zone, t) # d
    OBVIOUS
  <2>1. /\ LocalDay(setup.zone, t) <= LocalDay(setup.zone, now)
        /\ LocalDay(setup.zone, now) <= LocalDay(setup.zone, u)
    BY <1>1, <1>2, CalendarRuns
  <2>2. LocalDay(setup.zone, t) \in Int /\ LocalDay(setup.zone, now) \in Int
    BY <1>1, LocalClock
  <2> QED
    BY <2>1, <2>2
<1>4. SalesOn(d) = {} /\ SalesOf(b, d) = {}
  <2>1. \A s \in sales : s.at \in Int /\ s.at <= now
    BY InstantsAreNat DEF TypeOK
  <2> QED
    BY <1>3, <2>1 DEF SalesOn, SalesOf
<1>5. /\ \A c : Share(c) \in Nat
  BY <1>1, ShareIsPart
<1>6. Gap(b, d) = 0
  <2>1. Cardinality(SalesOn(d)) = 0 /\ Cardinality(SalesOf(b, d)) = 0
    BY <1>4, FS_EmptySet
  <2>2. Share(b) \in Nat
    BY <1>5
  <2> QED
    BY <2>1, <2>2 DEF Gap
<1>7. Share(w) <= 10000
  BY <1>1, ShareIsPart
<1>8. b # w => Share(b) < 10000
  <2> DEFINE p == Share(w)
             q == Share(y)
             s == Share(z)
  <2>1. p \in Nat /\ q \in Nat /\ s \in Nat /\ p + q + s = 10000 /\ p > 50
    BY <1>2, <1>5
  <2> HIDE DEF p, q, s
  <2>2. q < 10000 /\ s < 10000
    BY <2>1
  <2> QED
    BY <1>2, <2>2 DEF q, s
<1> QED
  BY <1>2, <1>5, <1>6, <1>7, <1>8 DEF Bounded

LEMMA SharesRoute ==
    ASSUME TypeOK, TypeOK', CountedInv, SoldToShares, SharesKept, EveryoneAlwaysOpen,
           NEW x, NEW y, NEW z, SplitBetween(x, y, z), Route,
           NEW b \in BrokerIds, NEW d \in Int
    PROVE  Bounded(Gap(b, d), Cardinality(StraysOn(now, d)))'
<1>1. PICK r \in Readings, w \in BrokerIds :
          /\ w \in {c.id : c \in SelectedWith(r)}
          /\ sales' = sales \cup {Sale(w, r.assigned)}
          /\ now' = r.assigned /\ setup' = setup
  BY RouteSells
<1>2. /\ r.assigned \in Int /\ now <= r.assigned /\ now \in Nat /\ setup.zone \in Zones
      /\ setup \in Setups /\ IsFiniteSet(sales)
  BY <1>1, ReadingsAreNow, InstantsAreNat, FairShareAssumption DEF TypeOK
<1>3. [Next]_vars
  BY DEF Next
<1>4. PICK e \in Int : e = LocalDay(setup.zone, r.assigned)
  BY <1>2, LocalClock
<1>5. PICK s : s = Sale(w, r.assigned) /\ s.broker = w /\ s.at = r.assigned
  <2>1. Sale(w, r.assigned).broker = w /\ Sale(w, r.assigned).at = r.assigned
    BY DEF Sale
  <2> QED
    BY <2>1
<1>6. sales' = sales \cup {s} /\ s \notin sales
  BY <1>1, <1>5, SaleIsNew
<1>7. /\ SalesOn(d)' = {v \in sales' : LocalDay(setup.zone, v.at) = d}
      /\ SalesOf(b, d)' = {v \in sales' : v.broker = b /\ LocalDay(setup.zone, v.at) = d}
  BY <1>1 DEF SalesOn, SalesOf
<1>8. CASE d # e
  <2>1. SalesOn(d)' = SalesOn(d) /\ SalesOf(b, d)' = SalesOf(b, d)
    BY <1>4, <1>5, <1>6, <1>7, <1>8 DEF SalesOn, SalesOf
  <2> QED
    BY <1>3, <1>6, <2>1, QuietDay
<1>9. CASE d = e
  <2> DEFINE m == Cardinality(StraysOn(now, d))
             k == Cardinality(StraysOn(r.assigned, d))
             n == Cardinality(StraysOn(now, d)')
             g == Gap(b, d)
             h == Gap(b, d)'
  <2>1. m \in Nat /\ k \in Nat /\ n \in Nat /\ m <= k /\ k <= n
    <3>1. /\ m \in Nat /\ Cardinality(StraysOn(now', d)) \in Nat /\ n \in Nat
          /\ m <= Cardinality(StraysOn(now', d)) /\ Cardinality(StraysOn(now', d)) <= n
      BY <1>3, <1>6, StraysStay
    <3> QED
      BY <1>1, <3>1
  <2>2. Share(w) > 0
    BY <1>1, SelectedIsBest DEF MayReceive, Share, ShareIn
  <2>3. /\ b = w => Bounded(g + Share(b) - 10000, k)
        /\ b # w => Bounded(g + Share(b), k)
    <3>1. ASSUME NEW p, NEW q, SplitBetween(w, p, q)
          PROVE  /\ b = w => Bounded(g + Share(b) - 10000, k)
                 /\ b # w => Bounded(g + Share(b), k)
      <4>1. CASE LocalDay(setup.zone, now) = d
        <5>1. PICK o \in Nat : o = k
          BY <2>1
        <5>2. LocalDay(setup.zone, r.assigned) = d /\ m <= o
          BY <1>4, <1>9, <2>1, <5>1
        <5> QED
          BY <1>1, <3>1, <4>1, <5>1, <5>2, SameDay
      <4>2. CASE LocalDay(setup.zone, now) # d
        <5>1. LocalDay(setup.zone, r.assigned) = d
          BY <1>4, <1>9
        <5> HIDE DEF k
        <5> QED
          BY <1>2, <2>1, <2>2, <3>1, <4>2, <5>1, FirstOfDay
      <4> QED
        BY <4>1, <4>2
    <3>2. w = x \/ w = y \/ w = z
      BY DEF SplitBetween
    <3>3. \E p, q : SplitBetween(w, p, q)
      BY <3>2, SplitIsSymmetric
    <3> HIDE DEF g, k
    <3> QED
      BY <3>1, <3>3
  <2>4. /\ SalesOn(d)' = SalesOn(d) \cup {s} /\ s \notin SalesOn(d)
        /\ b = w => SalesOf(b, d)' = SalesOf(b, d) \cup {s} /\ s \notin SalesOf(b, d)
        /\ b # w => SalesOf(b, d)' = SalesOf(b, d)
    BY <1>4, <1>5, <1>6, <1>7, <1>9 DEF SalesOn, SalesOf
  <2>5. /\ Cardinality(SalesOn(d)') = Cardinality(SalesOn(d)) + 1
        /\ b = w => Cardinality(SalesOf(b, d)') = Cardinality(SalesOf(b, d)) + 1
        /\ b # w => Cardinality(SalesOf(b, d)') = Cardinality(SalesOf(b, d))
        /\ Cardinality(SalesOn(d)) \in Nat /\ Cardinality(SalesOf(b, d)) \in Nat
    <3>1. IsFiniteSet(SalesOn(d)) /\ IsFiniteSet(SalesOf(b, d))
      BY <1>2, SalesAreFinite
    <3> QED
      BY <2>4, <3>1, FS_AddElement, FS_CardinalityType
  <2>6. /\ g \in Int /\ Share(b) \in Nat
        /\ b = w => h = g + Share(b) - 10000
        /\ b # w => h = g + Share(b)
    <3> DEFINE p == Share(b)
               t == Cardinality(SalesOn(d))
               i == Cardinality(SalesOf(b, d))
               j == Cardinality(SalesOf(b, d)')
    <3>1. p \in Nat /\ Share(b)' = p
      BY <1>1, <1>2, ShareIsPart DEF Share, ShareIn
    <3>2. g = p * t - 10000 * i /\ h = p * (t + 1) - 10000 * j
      BY <2>5, <3>1 DEF Gap
    <3>3. t \in Nat /\ i \in Nat /\ (b = w => j = i + 1) /\ (b # w => j = i)
      BY <2>5
    <3> HIDE DEF p, t, i, j, g, h
    <3>4. p * t \in Int /\ p * (t + 1) = p * t + p
      BY <3>1, <3>3
    <3>5. g \in Int /\ (b = w => h = g + p - 10000) /\ (b # w => h = g + p)
      BY <3>1, <3>2, <3>3, <3>4
    <3> QED
      BY <3>1, <3>5 DEF p
  <2> HIDE DEF g, h, k, n
  <2>7. Bounded(h, k) /\ h \in Int
    BY <2>3, <2>6
  <2>8. Bounded(h, n)
    BY <2>1, <2>7, LooserBound
  <2> QED
    BY <2>8 DEF h, n, Bounded
<1> QED
  BY <1>8, <1>9

LEMMA SharesInit == Init => SharesKept
<1> SUFFICES ASSUME Init, EveryoneAlwaysOpen, NEW b \in BrokerIds, NEW d \in Int
             PROVE  Bounded(Gap(b, d), Cardinality(StraysOn(now, d)))
  BY DEF SharesKept
<1>1. sales = {} /\ setup \in Setups
  BY DEF Init
<1>2. SalesOn(d) = {} /\ SalesOf(b, d) = {} /\ StraysOn(now, d) = {}
  BY <1>1 DEF SalesOn, SalesOf, StraysOn
<1>3. Cardinality({}) = 0
  BY FS_EmptySet
<1>4. Share(b) \in Nat
  BY <1>1, ShareIsPart
<1>5. Gap(b, d) = 0
  BY <1>2, <1>3, <1>4 DEF Gap
<1> QED
  BY <1>2, <1>3, <1>5 DEF Bounded

LEMMA SharesStep ==
    ASSUME NEW x, NEW y, NEW z, SplitBetween(x, y, z)
    PROVE  TypeOK /\ TypeOK' /\ ShareInv /\ [Next]_vars => ShareInv'
<1> SUFFICES ASSUME TypeOK, TypeOK', ShareInv, [Next]_vars PROVE ShareInv'
  OBVIOUS
<1>1. CountedInv /\ SoldToShares /\ SharesKept
  BY DEF ShareInv
<1>2. CountedInv' /\ SoldToShares'
  BY <1>1, CountedStep
<1>3. ASSUME EveryoneAlwaysOpen', NEW b \in BrokerIds, NEW d \in Int
      PROVE  Bounded(Gap(b, d), Cardinality(StraysOn(now, d)))'
  <2>1. EveryoneAlwaysOpen
    BY <1>3, ClockRuns DEF EveryoneAlwaysOpen, OpenFor
  <2>2. CASE Route
    BY <1>1, <2>1, <2>2, SharesRoute
  <2>3. CASE NoBroker \/ Tick \/ Browse \/ UNCHANGED vars
    <3>1. sales' = sales /\ setup' = setup
      BY <2>3, ClockRuns
         DEF NoBroker, Tick, Browse, OpenPage, ReadNext, ReadView, trade, vars
    <3>2. SalesOn(d)' = SalesOn(d) /\ SalesOf(b, d)' = SalesOf(b, d)
      BY <3>1 DEF SalesOn, SalesOf
    <3> QED
      BY <1>1, <2>1, <3>1, <3>2, QuietDay
  <2> QED
    BY <2>2, <2>3 DEF Next
<1>4. SharesKept'
  BY <1>3 DEF SharesKept
<1> QED
  BY <1>2, <1>4 DEF ShareInv

(* select-broker.ts:38, while everyone is open: up to three members, none  *)
(* with a share between nothing and half a percent, stay less than a lead  *)
(* from their contracted share of the distribution's day, and one more per *)
(* sale the calendars disagree on, if its clocks are not put back over     *)
(* midnight.                                                               *)
THEOREM SharesAreKept ==
    ASSUME NEW x, NEW y, NEW z, SplitBetween(x, y, z)
    PROVE  Spec => []ShareDriftBounded
<1>1. Init => ShareInv
  BY CountedInit, SharesInit DEF ShareInv
<1>2. Spec => []ShareInv
  BY <1>1, SharesStep, FairShareTypeCorrect, PTL DEF Spec
<1>3. ASSUME TypeOK, ShareInv, EveryoneAlwaysOpen, NEW b \in BrokerIds
      PROVE  LET gap == setup.members[b].percentage * TotalSentToday(now)
                          - 10000 * SoldTo(b, setup.zone, now)
             IN  /\ gap < 10000 * (1 + Strays)
                 /\ -gap < 10000 * (1 + Strays)
  <2>1. setup \in Setups /\ setup.zone \in Zones /\ now \in Nat /\ IsFiniteSet(sales)
    BY <1>3, FairShareAssumption, InstantsAreNat DEF TypeOK
  <2>2. PICK d \in Int : d = LocalDay(setup.zone, now)
    BY <2>1, LocalClock
  <2>3. TotalSentToday(now) = Cardinality(SalesOn(d))
    BY <2>2 DEF TotalSentToday, SoldOnDay, SalesOn
  <2>4. SoldTo(b, setup.zone, now) = Cardinality(SalesOf(b, d))
    <3>1. {s \in SoldOnDay(setup.zone, now) : s.broker = b} = SalesOf(b, d)
      BY <2>2 DEF SoldOnDay, SalesOf
    <3> QED
      BY <3>1 DEF SoldTo
  <2>5. Share(b) = setup.members[b].percentage /\ Share(b) \in Nat
    BY <2>1, ShareIsPart
  <2>6. Strays = Cardinality(StraysOn(now, d))
    BY <2>2, StraysAreCounted
  <2> DEFINE n == Cardinality(StraysOn(now, d))
             g == Gap(b, d)
  <2>7. Bounded(g, n)
    BY <1>3 DEF ShareInv, SharesKept
  <2>8. n \in Nat /\ Cardinality(SalesOn(d)) \in Nat /\ Cardinality(SalesOf(b, d)) \in Nat
    BY <2>1, SalesAreFinite
  <2>9. g \in Int
    BY <2>5, <2>8 DEF Gap
  <2>10. setup.members[b].percentage * TotalSentToday(now)
             - 10000 * SoldTo(b, setup.zone, now) = g
    BY <2>3, <2>4, <2>5 DEF Gap
  <2>11. Strays = n
    BY <2>6
  <2> HIDE DEF g, n
  <2>12. g < 10000 * (1 + n) /\ -g < 10000 * (1 + n)
    BY <2>7, <2>8, <2>9 DEF Bounded
  <2> QED
    BY <2>10, <2>11, <2>12
<1>4. TypeOK /\ ShareInv => ShareDriftBounded
  BY <1>3 DEF ShareDriftBounded
<1> QED
  BY <1>2, <1>4, FairShareTypeCorrect, PTL

=============================================================================
