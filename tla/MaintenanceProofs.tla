-------------------------- MODULE MaintenanceProofs --------------------------
(***************************************************************************)
(* Nightly maintenance for any number of leads, any length of hours, days  *)
(* and retention periods, any number of restarts and failed statements.    *)
(***************************************************************************)
EXTENDS Maintenance, FiniteSetTheorems, TLAPS

-----------------------------------------------------------------------------
(* Division by the hour and by the day.                                    *)

LEMMA Division ==
    ASSUME NEW n \in Nat, NEW m \in Nat \ {0}
    PROVE  /\ n \div m \in Nat /\ n % m \in 0..(m - 1)
           /\ n = m * (n \div m) + (n % m)
<1>1. n \div m \in Nat /\ n % m \in 0..(m - 1)
  OBVIOUS
<1>2. n \in Int /\ m \in Int /\ m > 0
  OBVIOUS
<1>3. n = m * (n \div m) + (n % m)
  BY <1>2, Z3
<1> QED
  BY <1>1, <1>3, Zenon

LEMMA SmallerFactor ==
    ASSUME NEW a \in Nat, NEW b \in Nat, NEW m \in Nat \ {0}, a * m < b * m
    PROVE  a < b
<1>1. SUFFICES ASSUME b <= a PROVE FALSE
  OBVIOUS
<1>2. PICK k \in Nat : a = b + k
  BY <1>1
<1>3. a * m = b * m + k * m /\ k * m >= 0 /\ b * m \in Nat
  BY <1>2
<1> QED
  BY <1>3

(* The hours since midnight of day 0 are those of the days before and of   *)
(* today.                                                                  *)
LEMMA HoursOfDays ==
    ASSUME NEW n \in Nat, NEW h \in Nat \ {0}, NEW d \in Nat \ {0}
    PROVE  n \div h = d * (n \div (h * d)) + ((n \div h) % d)
<1> DEFINE q == n \div h
           p == q \div d
           t == n \div (h * d)
           r == n % h
           s == q % d
           u == n % (h * d)
<1>1. h * d \in Nat \ {0}
  OBVIOUS
<1>2. q \in Nat /\ r \in 0..(h - 1) /\ n = h * q + r
  BY Division, Zenon
<1>3. p \in Nat /\ s \in 0..(d - 1) /\ q = d * p + s
  <2> HIDE DEF q
  <2> QED
    BY <1>2, Division, Zenon
<1>4. t \in Nat /\ u \in 0..(h * d - 1) /\ n = (h * d) * t + u
  <2> DEFINE m == h * d
  <2> HIDE DEF m
  <2>1. m \in Nat \ {0}
    BY <1>1 DEF m
  <2>2. /\ n \div m \in Nat /\ n % m \in 0..(m - 1)
        /\ n = m * (n \div m) + (n % m)
    BY <2>1, Division, Zenon
  <2> QED
    BY <2>2, Zenon DEF m
<1> HIDE DEF q, p, t, r, s, u
<1>6. h * q = (h * d) * p + h * s /\ 0 <= h * s /\ h * s <= h * (d - 1)
  BY <1>3
<1>7. h * (d - 1) = h * d - h /\ (h * d) * (p + 1) = (h * d) * p + h * d
      /\ (h * d) * (t + 1) = (h * d) * t + h * d
  BY <1>3, <1>4
<1>8. t < p + 1 /\ p < t + 1
  <2> DEFINE m == h * d
             pm == m * p
             tm == m * t
  <2>1. pm \in Int /\ tm \in Int /\ m \in Nat \ {0}
    BY <1>1, <1>3, <1>4
  <2>2. n < pm + m /\ pm <= n /\ n < tm + m /\ tm <= n
    <3>1. n < h * q + h /\ h * q <= n /\ h * q + h <= pm + m /\ pm <= h * q
      BY <1>2, <1>3, <1>6, <1>7
    <3>2. n < tm + m /\ tm <= n
      BY <1>4
    <3> QED
      BY <1>2, <2>1, <3>1, <3>2
  <2>3. t * m < (p + 1) * m /\ p * m < (t + 1) * m
    BY <1>3, <1>4, <2>1, <2>2
  <2> HIDE DEF m
  <2> QED
    BY <1>3, <1>4, <2>1, <2>3, SmallerFactor
<1>9. t = p
  BY <1>3, <1>4, <1>8
<1> QED
  <2>1. q = d * t + s
    BY <1>3, <1>9, Zenon
  <2> QED
    BY <2>1 DEF q, s, t

LEMMA LargerProduct ==
    ASSUME NEW a \in Nat, NEW b \in Nat, NEW m \in Nat, a <= b
    PROVE  m * a <= m * b
<1>1. PICK k \in Nat : b = a + k
  BY Z3
<1>2. m * b = m * a + m * k /\ m * k >= 0 /\ m * a \in Nat
  BY <1>1
<1> QED
  BY <1>2

LEMMA OneQuotient ==
    ASSUME NEW a \in Nat, NEW b \in Nat, NEW m \in Nat \ {0},
           NEW r \in 0..(m - 1), NEW s \in 0..(m - 1), m * a + r = m * b + s
    PROVE  a = b /\ r = s
<1>1. /\ (a + 1) * m = m * a + m /\ (b + 1) * m = m * b + m
      /\ a * m = m * a /\ b * m = m * b /\ m * a \in Nat /\ m * b \in Nat
  OBVIOUS
<1>2. a * m < (b + 1) * m /\ b * m < (a + 1) * m
  BY <1>1
<1>3. a < b + 1 /\ b < a + 1
  BY <1>2, SmallerFactor
<1>4. a = b
  BY <1>3
<1> QED
  BY <1>1, <1>4

-----------------------------------------------------------------------------
(* Hours, nights and dates.                                                *)

LEMMA PositiveHours ==
    /\ HourTicks \in Nat \ {0} /\ DayHours \in Nat \ {0} /\ NightHour \in Nat
    /\ MaxClock \in Nat /\ MaxLate \in Nat
    /\ DayTicks \in Nat \ {0} /\ DayTicks = DayHours * HourTicks /\ HourTicks <= DayTicks
<1>1. HourTicks * 1 <= HourTicks * DayHours
  BY MaintenanceAssumption, LargerProduct
<1> QED
  BY <1>1, MaintenanceAssumption DEF DayTicks

(* The nights follow one another at the distance of a day.                 *)
LEMMA NightsApart ==
    ASSUME NEW d \in Nat
    PROVE  /\ NightStart(d) \in Nat /\ DayTicks * d <= NightStart(d)
           /\ NightStart(d) + HourTicks <= DayTicks * d + DayTicks
           /\ NightStart(d + 1) = NightStart(d) + DayTicks
           /\ \A e \in Nat : d < e => NightStart(d) + DayTicks <= NightStart(e)
<1> DEFINE n == HourTicks * NightHour
<1>1. \A e \in Nat : NightStart(e) = DayTicks * e + n /\ DayTicks * e \in Nat
  BY PositiveHours DEF NightStart, DayTicks
<1>2. n \in Nat /\ n + HourTicks <= DayTicks
  <2>1. HourTicks * (NightHour + 1) <= HourTicks * DayHours
    BY MaintenanceAssumption, LargerProduct
  <2>2. HourTicks * (NightHour + 1) = n + HourTicks /\ n \in Nat
    BY PositiveHours
  <2> QED
    BY <2>1, <2>2 DEF DayTicks
<1>3. DayTicks * (d + 1) = DayTicks * d + DayTicks
  BY PositiveHours
<1>4. ASSUME NEW e \in Nat, d < e PROVE DayTicks * (d + 1) <= DayTicks * e
  BY <1>4, PositiveHours, LargerProduct
<1> HIDE DEF n
<1>5. d + 1 \in Nat /\ DayTicks \in Nat /\ HourTicks \in Nat
  BY PositiveHours
<1> DEFINE x == DayTicks * d
           y == DayTicks * (d + 1)
<1>6. /\ NightStart(d) = x + n /\ x \in Nat
      /\ NightStart(d + 1) = y + n /\ y = x + DayTicks
  BY <1>1, <1>3, <1>5
<1>7. ASSUME NEW e \in Nat, d < e PROVE NightStart(d) + DayTicks <= NightStart(e)
  <2> DEFINE z == DayTicks * e
  <2>1. NightStart(e) = z + n /\ z \in Nat /\ y <= z
    BY <1>1, <1>4, <1>7
  <2> HIDE DEF x, y, z
  <2> QED
    BY <1>2, <1>5, <1>6, <2>1
<1>8. /\ NightStart(d) \in Nat /\ x <= NightStart(d)
      /\ NightStart(d) + HourTicks <= x + DayTicks
      /\ NightStart(d + 1) = NightStart(d) + DayTicks
  <2> HIDE DEF x, y
  <2> QED
    BY <1>2, <1>5, <1>6
<1> QED
  BY <1>7, <1>8

LEMMA OffsetType ==
    ASSUME setting \in Settings
    PROVE  /\ \A t \in Nat : Offset(t) \in 0..DayTicks
           /\ setting.before \in 0..DayTicks /\ setting.after \in 0..DayTicks
           /\ setting.change \in Nat /\ setting.end \in 0..MaxClock
           /\ setting.before <= setting.after + HourTicks
BY SettingsAssumption, ZonesAssumption DEF Offset

(* In the hour of the purge the clock is between the two ends of that      *)
(* hour.                                                                   *)
LEMMA ClockInNight ==
    ASSUME setting \in Settings, clock \in Nat, Hour = NightHour
    PROVE  Tonight \in Nat /\ InNight(Tonight, clock)
<1> DEFINE l == Local
           q == l \div HourTicks
           r == l % HourTicks
<1>0. l \in Nat
  BY OffsetType, PositiveHours DEF Local
<1>1. q \in Nat /\ r \in 0..(HourTicks - 1) /\ l = HourTicks * q + r
  BY <1>0, PositiveHours, Division, Zenon
<1>2. Tonight \in Nat
  BY <1>0, PositiveHours, Division, Zenon DEF Tonight
<1>3. HourTicks * q = NightStart(Tonight)
  <2>1. q = DayHours * Tonight + Hour
    BY <1>0, PositiveHours, HoursOfDays, Zenon DEF Tonight, Hour, DayTicks
  <2> QED
    BY <2>1 DEF NightStart
<1>4. NightStart(Tonight) \in Nat
  BY <1>2, NightsApart
<1> HIDE DEF q, r, l
<1>5. l \in NightStart(Tonight)..(NightStart(Tonight) + HourTicks - 1)
  BY <1>0, <1>1, <1>3, <1>4, PositiveHours
<1> QED
  BY <1>2, <1>5 DEF InNight, Local, l

(* The converse of ClockInNight.                                           *)
LEMMA NightInClock ==
    ASSUME setting \in Settings, clock \in Nat, NEW d \in Nat, InNight(d, clock)
    PROVE  Tonight = d /\ Hour = NightHour
<1> DEFINE l == Local
           q == l \div HourTicks
           r == l % HourTicks
           n == DayHours * d + NightHour
<1>0. l \in Nat
  BY OffsetType, PositiveHours DEF Local
<1>1. q \in Nat /\ r \in 0..(HourTicks - 1) /\ l = HourTicks * q + r
  BY <1>0, PositiveHours, Division, Zenon
<1>2. Tonight \in Nat
  BY <1>0, PositiveHours, Division, Zenon DEF Tonight
<1>3. q = DayHours * Tonight + Hour
  BY <1>0, PositiveHours, HoursOfDays, Zenon DEF Tonight, Hour, DayTicks
<1>4. Hour \in 0..(DayHours - 1)
  <2> HIDE DEF q
  <2>1. q % DayHours \in 0..(DayHours - 1)
    BY <1>1, PositiveHours, Division, Zenon
  <2> QED
    BY <2>1 DEF q, Hour
<1>5. n \in Nat /\ HourTicks * n \in Nat /\ HourTicks * n = NightStart(d)
  BY PositiveHours DEF NightStart
<1>6. q = n
  <2> DEFINE s == l - HourTicks * n
  <2>1. s \in 0..(HourTicks - 1) /\ l = HourTicks * n + s
    <3>1. l \in NightStart(d)..(NightStart(d) + HourTicks - 1)
      BY DEF InNight, Local
    <3> HIDE DEF l, n
    <3> QED
      BY <1>0, <1>5, <3>1, PositiveHours
  <2> HIDE DEF q, r, s, n, l
  <2> QED
    BY <1>1, <1>5, <2>1, PositiveHours, OneQuotient
<1>7. NightHour \in 0..(DayHours - 1)
  BY MaintenanceAssumption
<1>8. DayHours * d + NightHour = DayHours * Tonight + Hour
  BY <1>3, <1>6
<1> QED
  BY <1>2, <1>4, <1>7, <1>8, PositiveHours, OneQuotient

LEMMA DateType == ASSUME NEW t \in Nat PROVE Date(t) \in Nat
BY PositiveHours, Division, Zenon DEF Date

(* The later of two moments has the later date or the same, and a day      *)
(* later it is another.                                                    *)
LEMMA DatesGoOn ==
    ASSUME NEW t \in Nat, NEW u \in Nat, t <= u
    PROVE  Date(t) <= Date(u) /\ (t + DayTicks <= u => Date(t) < Date(u))
<1> DEFINE m == DayTicks
           a == Date(t)
           b == Date(u)
<1>1. /\ a \in Nat /\ (t % m) \in 0..(m - 1) /\ t = m * a + (t % m)
      /\ b \in Nat /\ (u % m) \in 0..(m - 1) /\ u = m * b + (u % m) /\ m \in Nat \ {0}
  BY PositiveHours, Division, Zenon DEF Date
<1> HIDE DEF m, a, b
<1>2. /\ (b + 1) * m = m * b + m /\ a * m = m * a /\ b * m = m * b
      /\ (a + 1) * m = m * a + m /\ m * a \in Nat /\ m * b \in Nat
  BY <1>1
<1>3. a * m < (b + 1) * m
  BY <1>1, <1>2
<1>4. a < b + 1
  BY <1>1, <1>3, SmallerFactor
<1>5. ASSUME t + m <= u PROVE a < b
  <2>1. (a + 1) * m < (b + 1) * m
    BY <1>1, <1>2, <1>5
  <2>2. a + 1 < b + 1
    BY <1>1, <2>1, SmallerFactor
  <2> QED
    BY <1>1, <2>2
<1> QED
  BY <1>1, <1>4, <1>5 DEF a, b, m

(* A day whose midnight is not far beyond the end of the run is counted.   *)
LEMMA Counted ==
    ASSUME NEW e \in Nat, NEW k \in {0, 1}, DayTicks * e <= MaxClock + k * DayTicks
    PROVE  e \in 0..(MaxClock \div DayTicks + k)
<1> DEFINE m == DayTicks
           f == MaxClock \div m
<1>1. /\ f \in Nat /\ (MaxClock % m) \in 0..(m - 1) /\ MaxClock = m * f + (MaxClock % m)
      /\ m \in Nat \ {0}
  BY PositiveHours, Division, Zenon
<1>3. m * e <= MaxClock + k * m
  OBVIOUS
<1> HIDE DEF m, f
<1>2. /\ (f + k + 1) * m = m * f + k * m + m /\ e * m = m * e
      /\ m * f \in Nat /\ m * e \in Nat /\ k * m \in Nat /\ f + k + 1 \in Nat
  <2>1. CASE k = 0
    BY <1>1, <2>1
  <2>2. CASE k = 1
    BY <1>1, <2>2
  <2> QED
    BY <2>1, <2>2
<1>4. e * m < (f + k + 1) * m
  BY <1>1, <1>2, <1>3
<1>5. e < f + k + 1
  BY <1>1, <1>2, <1>4, SmallerFactor
<1>6. e \in 0..(f + k)
  BY <1>1, <1>5
<1> QED
  BY <1>6 DEF f, m

(* A day and a night the clock can reach have their count.                 *)
LEMMA TodayCounted ==
    ASSUME clock \in Nat, clock <= MaxClock
    PROVE  Today \in Days
<1>1. Today \in Nat /\ (clock % DayTicks) \in 0..(DayTicks - 1)
      /\ clock = DayTicks * Today + (clock % DayTicks)
  BY PositiveHours, Division, Zenon DEF Today, Date
<1>2. DayTicks * Today <= MaxClock + 0 * DayTicks
  BY <1>1, PositiveHours
<1>3. Today \in 0..(MaxClock \div DayTicks + 0)
  BY <1>1, <1>2, Counted
<1>4. MaxClock \div DayTicks \in Nat
  BY PositiveHours, Division, Zenon
<1> QED
  BY <1>3, <1>4 DEF Days

LEMMA TonightCounted ==
    ASSUME setting \in Settings, NEW t \in Nat, t <= MaxClock, NEW d \in Nat,
           NightStart(d) <= t + DayTicks
    PROVE  d \in Nights
<1>1. DayTicks * d <= MaxClock + 1 * DayTicks
  <2>1. DayTicks * d <= NightStart(d) /\ NightStart(d) \in Nat
    BY NightsApart
  <2>2. DayTicks * d \in Nat /\ 1 * DayTicks = DayTicks
    BY PositiveHours
  <2> QED
    BY <2>1, <2>2, PositiveHours
<1>2. d \in 0..(MaxClock \div DayTicks + 1)
  BY <1>1, Counted
<1> QED
  BY <1>2 DEF Nights

-----------------------------------------------------------------------------
(* The purge starts once a night.                                          *)

(* A purge of night d: it started at t, in the hour of the night, and the  *)
(* timer fires again, restarts included, when an hour has passed for each  *)
(* start so far.  An undisturbed worker remembers the date.                *)
Started(d, t) ==
    /\ InNight(d, t)
    /\ t + HourTicks <= timer
    /\ nights[d] = 2 => t + 2 * HourTicks <= timer
    /\ faults = 0 => Date(t) <= lastRunDate

NightsInv ==
    /\ setting \in Settings
    /\ clock \in Nat /\ timer \in Nat /\ timer <= clock + HourTicks
    /\ nights \in [Nights -> Nat]
    /\ faults \in Nat
    /\ lastRunDate \in Int /\ lastRunDate <= Today
    /\ \A d \in Nights :
          /\ nights[d] <= 2
          /\ nights[d] > 0 => \E t \in Nat : Started(d, t)
          /\ nights[d] = 2 => ComesTwice(d) /\ (faults > 0 \/ ~OneDate(d))

(* Two moments of the hour of one night lie an hour apart only where that  *)
(* hour comes twice, and never two hours.                                  *)
LEMMA AnHourApart ==
    ASSUME setting \in Settings, NEW d \in Nat, NEW t \in Nat, NEW u \in Nat,
           InNight(d, t), InNight(d, u), t + HourTicks <= u
    PROVE  ComesTwice(d) /\ u < t + 2 * HourTicks
<1> DEFINE n == NightStart(d)
<1>1. /\ n \in Nat /\ HourTicks \in Nat /\ setting.before \in Nat /\ setting.after \in Nat
      /\ setting.change \in Nat /\ setting.before <= setting.after + HourTicks
  BY NightsApart, PositiveHours, OffsetType
<1>2. /\ n <= t + Offset(t) /\ t + Offset(t) < n + HourTicks
      /\ n <= u + Offset(u) /\ u + Offset(u) < n + HourTicks
      /\ Offset(t) \in Nat /\ Offset(u) \in Nat
  <2>1. /\ Offset(t) \in Nat /\ Offset(u) \in Nat
        /\ t + Offset(t) \in n..(n + HourTicks - 1)
        /\ u + Offset(u) \in n..(n + HourTicks - 1)
    BY OffsetType, PositiveHours DEF InNight
  <2> HIDE DEF n
  <2> QED
    BY <1>1, <2>1
<1>3. /\ Offset(t) = IF t < setting.change THEN setting.before ELSE setting.after
      /\ Offset(u) = IF u < setting.change THEN setting.before ELSE setting.after
  BY DEF Offset
<1> HIDE DEF n
<1>4. /\ t < setting.change /\ setting.change <= u
      /\ Offset(t) = setting.before /\ Offset(u) = setting.after
  BY <1>1, <1>2, <1>3
<1> QED
  BY <1>1, <1>2, <1>4 DEF ComesTwice, n

LEMMA SameNights ==
    ASSUME setting' = setting
    PROVE  \A d, t : /\ InNight(d, t)' <=> InNight(d, t)
                     /\ ComesTwice(d)' <=> ComesTwice(d)
                     /\ Date(t)' = Date(t)
BY DEF InNight, ComesTwice, Date, Offset, NightStart

(* As the clock goes on, what is known of a night stays known.             *)
LEMMA NightsKept ==
    ASSUME NightsInv, setting' = setting, nights' = nights, clock' \in Nat, clock <= clock',
           timer' \in Nat, timer <= timer', timer' <= clock' + HourTicks,
           faults' \in Nat, faults <= faults',
           lastRunDate' \in {lastRunDate, -1}, faults' = 0 => lastRunDate' = lastRunDate
    PROVE  NightsInv'
<1>1. \A d, t : /\ InNight(d, t)' <=> InNight(d, t)
                /\ ComesTwice(d)' <=> ComesTwice(d)
                /\ Date(t)' = Date(t)
  BY SameNights
<1>2. /\ Today \in Nat /\ Today' \in Nat /\ Today <= Today'
  BY DateType, DatesGoOn DEF Today, NightsInv, Date
<1>3. lastRunDate' \in Int /\ lastRunDate' <= Today'
  BY <1>2 DEF NightsInv
<1>4. ASSUME NEW d \in Nights, ~OneDate(d) PROVE ~OneDate(d)'
  <2>1. \A t \in 0..clock : t \in 0..clock'
    BY DEF NightsInv
  <2> QED
    BY <1>1, <1>4, <2>1 DEF OneDate
<1>5. ASSUME NEW d \in Nights, NEW t \in Nat, Started(d, t) PROVE Started(d, t)'
  <2>1. Date(t) \in Nat
    BY DateType
  <2> QED
    BY <1>1, <1>5, <2>1, PositiveHours DEF Started, NightsInv
<1>6. ASSUME NEW d \in Nights
      PROVE  /\ nights'[d] <= 2
             /\ nights'[d] > 0 => \E t \in Nat : Started(d, t)'
             /\ nights'[d] = 2 => ComesTwice(d)' /\ (faults' > 0 \/ ~OneDate(d)')
  BY <1>1, <1>4, <1>5 DEF NightsInv
<1> QED
  BY <1>3, <1>6 DEF NightsInv

(* The check starts a purge, or nothing.                                   *)
LEMMA CheckStarts ==
    ASSUME NightsInv, Check
    PROVE  /\ timer <= clock /\ timer' = clock + HourTicks
           /\ UNCHANGED <<setting, clock, faults>>
           /\ \/ /\ Hour = NightHour /\ lastRunDate # Today /\ lastRunDate' = Today
                 /\ Tonight \in Nat /\ InNight(Tonight, clock)
                 /\ nights' \in [Nights -> Nat]
                 /\ \A d \in Nights :
                       nights'[d] = IF d = Tonight THEN nights[d] + 1 ELSE nights[d]
              \/ /\ Hour = NightHour => lastRunDate = Today
                 /\ UNCHANGED <<lastRunDate, nights>>
<1>1. /\ timer <= clock /\ timer' = clock + HourTicks /\ UNCHANGED <<setting, clock, faults>>
      /\ clock \in Nat /\ setting \in Settings /\ nights \in [Nights -> Nat]
  BY DEF Check, NightsInv, time
<1>2. CASE Hour = NightHour /\ lastRunDate # Today
  <2> DEFINE d0 == Tonight
  <2>1. d0 \in Nat /\ InNight(d0, clock)
    BY <1>1, <1>2, ClockInNight
  <2>2. nights' = [nights EXCEPT ![d0] = nights[d0] + 1] /\ lastRunDate' = Today
    BY <1>2 DEF Check
  <2> HIDE DEF d0
  <2>4. nights' = [d \in Nights |-> IF d = d0 THEN nights[d0] + 1 ELSE nights[d]]
    BY <1>1, <2>2
  <2>3. \A d \in Nights : nights'[d] = IF d = d0 THEN nights[d] + 1 ELSE nights[d]
    BY <2>4
  <2>5. nights' \in [Nights -> Nat]
    <3>1. \A d \in Nights : (IF d = d0 THEN nights[d0] + 1 ELSE nights[d]) \in Nat
      BY <1>1
    <3> QED
      BY <2>4, <3>1
  <2> QED
    BY <1>1, <1>2, <2>1, <2>2, <2>3, <2>5 DEF d0
<1>3. CASE ~(Hour = NightHour /\ lastRunDate # Today)
  BY <1>1, <1>3 DEF Check
<1> QED
  BY <1>2, <1>3

LEMMA CheckStartsOnce == ASSUME NightsInv, Check PROVE NightsInv'
<1>1. /\ timer <= clock /\ timer' = clock + HourTicks /\ UNCHANGED <<setting, clock, faults>>
      /\ clock \in Nat /\ timer \in Nat /\ HourTicks \in Nat \ {0} /\ faults \in Nat
  BY CheckStarts, PositiveHours DEF NightsInv
<1>2. CASE UNCHANGED <<lastRunDate, nights>>
  <2>1. timer' \in Nat /\ clock' \in Nat /\ faults' \in Nat /\ timer <= timer'
        /\ clock <= clock' /\ faults <= faults' /\ timer' <= clock' + HourTicks
    BY <1>1
  <2>2. lastRunDate' = lastRunDate /\ nights' = nights /\ setting' = setting
    BY <1>1, <1>2
  <2> QED
    BY <2>1, <2>2, NightsKept
<1>3. CASE /\ Hour = NightHour /\ lastRunDate # Today /\ lastRunDate' = Today
           /\ Tonight \in Nat /\ InNight(Tonight, clock)
           /\ nights' \in [Nights -> Nat]
           /\ \A d \in Nights :
                 nights'[d] = IF d = Tonight THEN nights[d] + 1 ELSE nights[d]
  <2>1. \A d, t : /\ InNight(d, t)' <=> InNight(d, t)
                  /\ ComesTwice(d)' <=> ComesTwice(d)
                  /\ Date(t)' = Date(t)
    BY <1>1, SameNights
  <2>2. /\ Today \in Nat /\ Today' = Today /\ Today = Date(clock)
        /\ lastRunDate \in Int /\ lastRunDate <= Today
    BY <1>1, DateType DEF Today, NightsInv, Date
  <2>3. ASSUME NEW d \in Nights PROVE OneDate(d)' <=> OneDate(d)
    BY <1>1, <2>1 DEF OneDate
  <2>4. ASSUME NEW d \in Nights, d # Tonight, NEW t \in Nat, Started(d, t)
        PROVE  Started(d, t)'
    <3>1. Date(t) \in Nat /\ nights'[d] = nights[d] /\ nights[d] \in Nat
      BY <1>3, <2>4, DateType DEF NightsInv
    <3> QED
      BY <1>1, <1>3, <2>1, <2>2, <2>4, <3>1 DEF Started
  <2>5. ASSUME NEW d \in Nights, d # Tonight
        PROVE  /\ nights'[d] <= 2
               /\ nights'[d] > 0 => \E t \in Nat : Started(d, t)'
               /\ nights'[d] = 2 => ComesTwice(d)' /\ (faults' > 0 \/ ~OneDate(d)')
    BY <1>1, <1>3, <2>1, <2>3, <2>4, <2>5 DEF NightsInv
  <2>6. ASSUME NEW d \in Nights, d = Tonight, nights[d] = 0
        PROVE  /\ nights'[d] = 1 /\ Started(d, clock)'
    <3>1. nights'[d] = 1 /\ InNight(d, clock)
      BY <1>3, <2>6
    <3> DEFINE c == clock
    <3>2. Started(d, c)'
      <4>1. InNight(d, c)' /\ Date(c)' = Today /\ c \in Nat /\ c' = c
        BY <1>1, <2>1, <2>2, <3>1
      <4>2. \A e : e = c => (InNight(d, e)' /\ Date(e)' = Today)
        BY <1>1, <2>1, <2>2, <3>1
      <4> QED
        BY <1>1, <1>3, <2>2, <3>1, <4>1 DEF Started
    <3> QED
      BY <3>1, <3>2
  <2>7. ASSUME NEW d \in Nights, d = Tonight, nights[d] # 0
        PROVE  /\ nights'[d] = 2 /\ ComesTwice(d)' /\ (faults' > 0 \/ ~OneDate(d)')
               /\ \E t \in Nat : Started(d, t)'
    <3>0. nights[d] \in Nat /\ nights[d] <= 2 /\ nights[d] > 0
      BY <2>7 DEF NightsInv
    <3>1. PICK t \in Nat : Started(d, t)
      BY <3>0 DEF NightsInv
    <3>2. /\ InNight(d, t) /\ InNight(d, clock) /\ t + HourTicks <= clock /\ d \in Nat
          /\ nights[d] = 2 => t + 2 * HourTicks <= clock
      BY <1>1, <1>3, <2>7, <3>1 DEF Started
    <3>3. ComesTwice(d) /\ clock < t + 2 * HourTicks
      BY <1>1, <3>2, AnHourApart DEF NightsInv
    <3>4. nights[d] = 1 /\ nights'[d] = 2
      BY <1>1, <1>3, <2>7, <3>0, <3>2, <3>3
    <3>5. Date(t) \in Nat /\ Date(t) <= Today
      BY <1>1, <2>2, <3>2, DateType, DatesGoOn
    <3>6. faults = 0 => ~OneDate(d)
      <4> SUFFICES ASSUME faults = 0, OneDate(d) PROVE FALSE
        OBVIOUS
      <4>1. Date(t) <= lastRunDate
        BY <3>1 DEF Started
      <4>2. t \in 0..clock /\ clock \in 0..clock
        BY <1>1, <3>2
      <4>3. Date(t) = Date(clock)
        BY <3>2, <4>2 DEF OneDate
      <4> QED
        BY <1>3, <2>2, <3>5, <4>1, <4>3
    <3>7. Started(d, t)'
      <4>1. t + 2 * HourTicks <= timer' /\ t + HourTicks <= timer'
        BY <1>1, <3>2
      <4> QED
        BY <1>1, <1>3, <2>1, <2>2, <3>2, <3>5, <4>1 DEF Started
    <3> QED
      BY <1>1, <2>1, <2>3, <3>3, <3>4, <3>6, <3>7
  <2>8. ASSUME NEW d \in Nights
        PROVE  /\ nights'[d] <= 2
               /\ nights'[d] > 0 => \E t \in Nat : Started(d, t)'
               /\ nights'[d] = 2 => ComesTwice(d)' /\ (faults' > 0 \/ ~OneDate(d)')
    <3>1. CASE d = Tonight /\ nights[d] = 0
      <4>1. nights'[d] = 1 /\ Started(d, clock)'
        BY <2>6, <3>1
      <4>2. \A e : e = clock => e \in Nat /\ (Started(d, e)' <=> Started(d, clock)')
        BY <1>1 DEF Started, InNight, Date, Offset
      <4>3. PICK e : e = clock
        OBVIOUS
      <4> QED
        BY <4>1, <4>2, <4>3
    <3> QED
      BY <2>5, <2>7, <3>1
  <2> QED
    BY <1>1, <1>3, <2>2, <2>8 DEF NightsInv
<1> QED
  BY <1>2, <1>3, CheckStarts

LEMMA NightsStep == ASSUME NightsInv, [Next]_vars PROVE NightsInv'
<1>0. /\ clock \in Nat /\ timer \in Nat /\ faults \in Nat /\ HourTicks \in Nat
      /\ timer <= clock + HourTicks
  BY PositiveHours DEF NightsInv
<1>1. CASE UNCHANGED <<time, timer, nights, lastRunDate>> /\ faults' \in {faults, faults + 1}
  <2>1. timer' \in Nat /\ clock' \in Nat /\ faults' \in Nat /\ timer <= timer'
        /\ clock <= clock' /\ faults <= faults' /\ timer' <= clock' + HourTicks
    BY <1>0, <1>1 DEF time
  <2>2. lastRunDate' = lastRunDate /\ nights' = nights /\ setting' = setting
    BY <1>1 DEF time
  <2> QED
    BY <2>1, <2>2, NightsKept
<1>2. CASE Tick
  <2>1. /\ clock' = clock + 1 /\ setting' = setting
        /\ UNCHANGED <<timer, nights, lastRunDate, faults>>
    BY <1>2 DEF Tick, worker
  <2>2. timer' \in Nat /\ clock' \in Nat /\ faults' \in Nat /\ timer <= timer'
        /\ clock <= clock' /\ faults <= faults' /\ timer' <= clock' + HourTicks
    BY <1>0, <2>1
  <2> QED
    BY <2>1, <2>2, NightsKept
<1>3. CASE Restart
  <2>1. /\ UNCHANGED <<setting, clock, nights>> /\ faults' = faults + 1 /\ lastRunDate' = -1
        /\ timer' = clock + HourTicks
    BY <1>3 DEF Restart, time
  <2> QED
    BY <1>0, <2>1, NightsKept
<1>4. CASE Check
  BY <1>4, CheckStartsOnce
<1> QED
  BY <1>1, <1>2, <1>3, <1>4 DEF Next, vars, worker, Purge, FindLeads, DeleteLeads, FindMessages,
     DeleteMessages, StatementFails, Submission, Capture, RouteMessage, AssignByHand

LEMMA NightsBegin == Init => NightsInv
<1> SUFFICES ASSUME Init PROVE NightsInv
  OBVIOUS
<1>1. clock \in Nat /\ timer = clock + HourTicks /\ setting \in Settings /\ faults = 0
  BY PositiveHours DEF Init
<1>2. Today \in Nat
  BY <1>1, DateType DEF Today
<1>3. nights \in [Nights -> Nat] /\ \A d \in Nights : nights[d] = 0
  BY DEF Init
<1> QED
  BY <1>1, <1>2, <1>3, PositiveHours DEF Init, NightsInv

(* However often the worker restarts, no night sees a second purge unless  *)
(* its hour comes twice, and there only after a fault or over midnight     *)
(* UTC.  What keeps it so is the timer that first fires an hour after the  *)
(* start; lastRunDate, which a restart forgets, matters only where the     *)
(* hour comes twice.                                                       *)
THEOREM PurgedOnceANight == Spec => []OncePerNight
<1>1. NightsInv => OncePerNight
  <2> SUFFICES ASSUME NightsInv, NEW d \in Nights
               PROVE  \/ nights[d] <= 1
                      \/ nights[d] = 2 /\ ComesTwice(d) /\ (faults > 0 \/ ~OneDate(d))
    BY DEF OncePerNight
  <2>1. nights[d] \in Nat /\ nights[d] <= 2
    BY DEF NightsInv
  <2> QED
    BY <2>1 DEF NightsInv
<1> QED
  BY <1>1, NightsBegin, NightsStep, PTL DEF Spec

-----------------------------------------------------------------------------
(* No two nights in a row are skipped while nothing disturbs the worker.   *)

(* Nights d and d + 1 of the property: local time is ahead by o around     *)
(* them, they come after the first hour of the run, and the hour of the    *)
(* purge has one date.                                                     *)
Plain(d, o) ==
    /\ o \in {setting.before, setting.after} /\ Steady(d, o)
    /\ HourTicks <= Opens(d, o)
    /\ Date(Opens(d, o)) = Date(Opens(d, o) + HourTicks - 1)

Firing == timer - HourTicks    \* the last one, or the start of the worker

(* j hours after a night that was skipped the timer fires j hours after    *)
(* the hour of that purge began, late by less than j times MaxLate.        *)
OnTrack(d, o, j) ==
    /\ Opens(d, o) + j * HourTicks <= Firing
    /\ Firing < Opens(d, o) + j * HourTicks + j * MaxLate

Remembered(p, e) ==
    /\ InNight(e, p) /\ p <= Firing
    /\ nights[e] > 0 /\ Date(p) = lastRunDate

DriftInv ==
    /\ NightsInv
    /\ clock < HourTicks \/ clock <= MaxClock
    /\ faults = 0 =>
          /\ HourTicks <= timer /\ clock <= timer + MaxLate
          /\ lastRunDate = -1 \/ \E p \in Nat, e \in Nights : Remembered(p, e)
          /\ \A d \in Nights, o \in Nat :
                /\ Plain(d, o) /\ d + 1 \in Nights
                /\ nights[d] = 0 /\ nights[d + 1] = 0 /\ Opens(d, o) <= Firing
                => \E j \in 1..(DayHours - 1) : OnTrack(d, o, j)

LEMMA PlainNights ==
    ASSUME setting \in Settings, NEW d \in Nights, NEW o \in Nat, Plain(d, o)
    PROVE  /\ d \in Nat /\ Opens(d, o) \in Nat /\ HourTicks <= Opens(d, o)
           /\ Opens(d + 1, o) = Opens(d, o) + DayTicks
           /\ \A t \in Nat : Opens(d, o) - DayTicks <= t /\ t < Opens(d, o) + DayTicks + HourTicks
                               => Offset(t) = o
           /\ \A t \in Nat : Offset(t) = o \/ t < Opens(d, o) - DayTicks
                               \/ Opens(d, o) + DayTicks + HourTicks <= t
<1>1. /\ d \in Nat /\ NightStart(d) \in Nat /\ NightStart(d + 1) = NightStart(d) + DayTicks
      /\ HourTicks \in Nat /\ DayTicks \in Nat
  <2>1. d \in Nat
    BY DEF Nights
  <2> QED
    BY <2>1, NightsApart, PositiveHours
<1>2. /\ Opens(d, o) = NightStart(d) - o /\ Opens(d + 1, o) = NightStart(d + 1) - o
      /\ HourTicks <= Opens(d, o) /\ Opens(d, o) \in Int
  BY <1>1 DEF Opens, Plain
<1>3. /\ setting.before \in Nat /\ setting.after \in Nat /\ setting.change \in Nat
      /\ \A t \in Nat : Offset(t) = IF t < setting.change THEN setting.before ELSE setting.after
  BY OffsetType, PositiveHours DEF Offset
<1>4. \/ o = setting.before /\ Opens(d, o) + DayTicks + HourTicks <= setting.change
      \/ o = setting.after /\ setting.change <= Opens(d, o) - DayTicks
  BY <1>1, <1>2 DEF Plain, Steady
<1> QED
  BY <1>1, <1>2, <1>3, <1>4

(* A moment up to the second night that lies in the hour of some other     *)
(* night is over before the night before.                                  *)
LEMMA EarlierNight ==
    ASSUME setting \in Settings, NEW d \in Nights, NEW o \in Nat, Plain(d, o),
           NEW e \in Nights, e # d, e # d + 1, NEW p \in Nat, InNight(e, p),
           p < Opens(d, o) + DayTicks + HourTicks
    PROVE  p < Opens(d, o) - DayTicks + HourTicks
<1> DEFINE x == Opens(d, o)
<1>0. p < x + DayTicks + HourTicks
  OBVIOUS
<1>1. /\ d \in Nat /\ e \in Nat /\ x \in Nat /\ x = NightStart(d) - o
      /\ HourTicks \in Nat \ {0} /\ DayTicks \in Nat /\ Offset(p) \in Nat
      /\ NightStart(d) \in Nat /\ NightStart(e) \in Nat
      /\ Offset(p) = o \/ p < x - DayTicks
  <2>1. d \in Nat /\ e \in Nat
    BY DEF Nights
  <2>2. x = NightStart(d) - o
    BY DEF Opens
  <2>3. HourTicks \in Nat \ {0} /\ DayTicks \in Nat /\ Offset(p) \in Nat
    BY PositiveHours, OffsetType
  <2>4. x \in Nat /\ (Offset(p) = o \/ p < x - DayTicks)
    <3>1. x \in Nat /\ (Offset(p) = o \/ p < x - DayTicks \/ x + DayTicks + HourTicks <= p)
      BY PlainNights
    <3> HIDE DEF x
    <3> QED
      BY <1>0, <2>3, <3>1
  <2> QED
    BY <2>1, <2>2, <2>3, <2>4, NightsApart
<1> SUFFICES p < x - DayTicks + HourTicks
  OBVIOUS
<1>2. NightStart(e) <= p + Offset(p) /\ p + Offset(p) < NightStart(e) + HourTicks
  BY <1>1 DEF InNight
<1>3. CASE e < d
  <2>1. NightStart(e) + DayTicks <= NightStart(d)
    BY <1>1, <1>3, NightsApart
  <2> HIDE DEF x
  <2> QED
    BY <1>0, <1>1, <1>2, <2>1
<1>4. CASE d + 1 < e
  <2>1. d + 1 \in Nat /\ NightStart(d + 1) + DayTicks <= NightStart(e)
        /\ NightStart(d + 1) = NightStart(d) + DayTicks
    BY <1>1, <1>4, NightsApart
  <2>2. HourTicks <= DayTicks
    BY PositiveHours
  <2> HIDE DEF x
  <2> QED
    BY <1>0, <1>1, <1>2, <2>1, <2>2
<1> QED
  BY <1>1, <1>3, <1>4

(* In the hour of a purge that has one date, a date a day ago is another.  *)
LEMMA AnotherDate ==
    ASSUME NEW x \in Nat, Date(x) = Date(x + HourTicks - 1), NEW p \in Nat,
           p < x - DayTicks + HourTicks, NEW c \in Nat, x <= c
    PROVE  Date(p) < Date(c)
<1>1. /\ HourTicks \in Nat \ {0} /\ DayTicks \in Nat \ {0}
      /\ x + HourTicks - 1 \in Nat
  BY PositiveHours
<1>2. p + DayTicks <= x + HourTicks - 1
  BY <1>1
<1>3. Date(p) < Date(x + HourTicks - 1)
  BY <1>1, <1>2, DatesGoOn
<1>4. Date(x) <= Date(c) /\ Date(x) \in Nat /\ Date(c) \in Nat /\ Date(p) \in Nat
  BY DatesGoOn, DateType
<1> QED
  BY <1>3, <1>4

(* If the timer fires within the hour of one of the two nights, one of     *)
(* them has its purge.                                                     *)
LEMMA FiredInNight ==
    ASSUME DriftInv, faults = 0, Check, NEW d \in Nights, NEW o \in Nat, Plain(d, o),
           d + 1 \in Nights, NEW n \in {d, d + 1}, Opens(n, o) <= clock,
           clock < Opens(n, o) + HourTicks
    PROVE  nights'[d] > 0 \/ nights'[d + 1] > 0
<1> SUFFICES ASSUME nights'[d] <= 0, nights'[d + 1] <= 0
             PROVE  FALSE
  <2>1. nights' \in [Nights -> Nat]
    BY CheckStarts DEF DriftInv, NightsInv
  <2> QED
    BY <2>1
<1> DEFINE x == Opens(d, o)
<1>1. /\ setting \in Settings /\ clock \in Nat /\ nights \in [Nights -> Nat] /\ timer \in Nat
      /\ timer <= clock /\ HourTicks \in Nat \ {0} /\ DayTicks \in Nat
      /\ d \in Nat /\ x \in Nat /\ Opens(d + 1, o) = x + DayTicks
  BY CheckStarts, PositiveHours, PlainNights DEF DriftInv, NightsInv
<1>2. x <= clock /\ clock < x + DayTicks + HourTicks /\ n \in Nat
  BY <1>1
<1>3. Offset(clock) = o
  BY <1>1, <1>2, PlainNights
<1>4. InNight(n, clock)
  <2>1. NightStart(n) \in Nat /\ NightStart(n) = Opens(n, o) + o
    BY <1>2, NightsApart DEF Opens
  <2>2. NightStart(n) <= clock + o /\ clock + o < NightStart(n) + HourTicks
    <3>1. Opens(n, o) \in Int
      BY <2>1 DEF Opens
    <3> QED
      BY <1>1, <2>1, <3>1
  <2> QED
    BY <1>1, <1>3, <2>1, <2>2 DEF InNight
<1>5. Tonight = n /\ Hour = NightHour
  BY <1>1, <1>2, <1>4, NightInClock
<1>6. lastRunDate = Today /\ nights[d] = 0 /\ nights[d + 1] = 0
  <2>1. \/ nights'[n] = nights[n] + 1
        \/ lastRunDate = Today /\ nights' = nights
    BY <1>1, <1>5, CheckStarts DEF DriftInv
  <2>2. nights[n] \in Nat /\ nights'[n] <= 0
    BY <1>1
  <2> QED
    BY <1>1, <2>1, <2>2
<1>7. Today \in Nat /\ Today = Date(clock)
  BY <1>1, DateType DEF Today
<1>8. PICK p \in Nat, e \in Nights : Remembered(p, e)
  BY <1>6, <1>7 DEF DriftInv
<1>9. e # d /\ e # d + 1 /\ InNight(e, p) /\ p < clock /\ Date(p) = Date(clock)
  BY <1>1, <1>6, <1>7, <1>8 DEF Remembered, Firing
<1>10. p < x - DayTicks + HourTicks
  BY <1>1, <1>2, <1>9, EarlierNight
<1>11. Date(p) < Date(clock)
  BY <1>1, <1>2, <1>10, AnotherDate DEF Plain
<1>12. Date(p) \in Nat
  BY DateType
<1> QED
  BY <1>7, <1>9, <1>11, <1>12

(* The timer stays on the track from one firing to the next.               *)
LEMMA TrackGoesOn ==
    ASSUME DayHours * MaxLate <= HourTicks, DriftInv, faults = 0, Check,
           NEW d \in Nights, NEW o \in Nat, Plain(d, o), d + 1 \in Nights,
           nights'[d] = 0, nights'[d + 1] = 0, Opens(d, o) <= clock
    PROVE  \E j \in 1..(DayHours - 1) : /\ Opens(d, o) + j * HourTicks <= clock
                                        /\ clock < Opens(d, o) + j * HourTicks + j * MaxLate
<1> DEFINE x == Opens(d, o)
<1>1. /\ clock \in Nat /\ timer \in Nat /\ timer <= clock /\ HourTicks <= timer
      /\ clock <= timer + MaxLate
      /\ HourTicks \in Nat \ {0} /\ DayTicks \in Nat /\ DayHours \in Nat \ {0} /\ MaxLate \in Nat
      /\ d \in Nat /\ x \in Nat /\ Opens(d + 1, o) = x + DayTicks
      /\ DayTicks = DayHours * HourTicks /\ nights \in [Nights -> Nat]
  BY CheckStarts, PositiveHours, PlainNights DEF DriftInv, NightsInv
<1>2. \A n \in {d, d + 1} : ~(Opens(n, o) <= clock /\ clock < Opens(n, o) + HourTicks)
  BY FiredInNight
<1>3. x + HourTicks <= clock
  BY <1>1, <1>2
<1>4. nights[d] = 0 /\ nights[d + 1] = 0
  <2>1. nights[d] \in Nat /\ nights[d + 1] \in Nat
    BY <1>1
  <2>2. nights'[d] = nights[d] \/ nights'[d] = nights[d] + 1
    BY CheckStarts DEF DriftInv
  <2>3. nights'[d + 1] = nights[d + 1] \/ nights'[d + 1] = nights[d + 1] + 1
    BY CheckStarts DEF DriftInv
  <2> QED
    BY <2>1, <2>2, <2>3
<1> DEFINE Track(j) == x + j * HourTicks <= clock /\ clock < x + j * HourTicks + j * MaxLate
<1>5. \E j \in 1..DayHours : Track(j)
  <2>1. CASE Firing < x
    <3>1. clock < x + 1 * HourTicks + 1 * MaxLate
      BY <1>1, <2>1 DEF Firing
    <3>2. Track(1) /\ 1 \in 1..DayHours
      BY <1>1, <1>3, <3>1
    <3> QED
      BY <3>2
  <2>2. CASE x <= Firing
    <3>1. PICK j \in 1..(DayHours - 1) : OnTrack(d, o, j)
      BY <1>4, <2>2 DEF DriftInv
    <3>2. (j + 1) * HourTicks = j * HourTicks + HourTicks
          /\ (j + 1) * MaxLate = j * MaxLate + MaxLate
          /\ j * HourTicks \in Nat /\ j * MaxLate \in Nat
      BY <1>1
    <3>3. x + j * HourTicks <= timer - HourTicks
          /\ timer - HourTicks < x + j * HourTicks + j * MaxLate
      BY <3>1 DEF OnTrack, Firing
    <3> DEFINE a == j * HourTicks
               b == j * MaxLate
               c == (j + 1) * HourTicks
               f == (j + 1) * MaxLate
    <3>4. x + c <= clock /\ clock < x + c + f
      <4>1. c = a + HourTicks /\ f = b + MaxLate /\ a \in Nat /\ b \in Nat
            /\ x + a <= timer - HourTicks /\ timer - HourTicks < x + a + b
        BY <3>2, <3>3
      <4> HIDE DEF a, b, c, f, x
      <4> QED
        BY <1>1, <4>1
    <3>5. j + 1 \in 1..DayHours
      BY <1>1
    <3> QED
      BY <3>4, <3>5
  <2>3. Firing \in Int
    BY <1>1 DEF Firing
  <2> QED
    BY <1>1, <2>1, <2>2, <2>3
<1>6. PICK j \in 1..DayHours : Track(j)
  BY <1>5
<1>7. j # DayHours
  <2> SUFFICES ASSUME j = DayHours PROVE FALSE
    OBVIOUS
  <2> DEFINE y == DayHours * MaxLate
  <2>1. x + DayTicks <= clock /\ clock < x + DayTicks + y /\ y <= HourTicks /\ y \in Nat
    BY <1>1, <1>6
  <2> HIDE DEF x, y
  <2>2. Opens(d + 1, o) <= clock /\ clock < Opens(d + 1, o) + HourTicks
    BY <1>1, <2>1
  <2> QED
    BY <1>2, <2>2
<1>8. j \in 1..(DayHours - 1)
  BY <1>1, <1>7
<1> QED
  BY <1>6, <1>8

LEMMA DriftAtCheck ==
    ASSUME DayHours * MaxLate <= HourTicks, DriftInv, Check, faults = 0
    PROVE  DriftInv'
<1>1. /\ clock \in Nat /\ timer \in Nat /\ HourTicks \in Nat \ {0} /\ MaxLate \in Nat
      /\ nights \in [Nights -> Nat] /\ setting \in Settings /\ HourTicks <= timer
  BY PositiveHours DEF DriftInv, NightsInv
<1>2. /\ timer <= clock /\ timer' = clock + HourTicks /\ UNCHANGED <<setting, clock, faults>>
  BY CheckStarts DEF DriftInv
<1>3. NightsInv' /\ clock <= MaxClock
  BY <1>1, <1>2, CheckStartsOnce DEF DriftInv
<1>4. \A d, t : (InNight(d, t)' <=> InNight(d, t)) /\ Date(t)' = Date(t)
  BY <1>2, SameNights
<1>5. Firing = timer - HourTicks /\ Firing' = clock /\ Firing <= Firing'
  BY <1>1, <1>2 DEF Firing
<1>6. lastRunDate' = -1 \/ \E p \in Nat, e \in Nights : Remembered(p, e)'
  <2>1. CASE UNCHANGED <<lastRunDate, nights>>
    <3>1. CASE lastRunDate = -1
      BY <2>1, <3>1
    <3>2. ASSUME NEW p \in Nat, NEW e \in Nights, Remembered(p, e) PROVE Remembered(p, e)'
      BY <1>1, <1>2, <1>4, <1>5, <2>1, <3>2 DEF Remembered
    <3> QED
      BY <3>1, <3>2 DEF DriftInv
  <2>2. CASE /\ lastRunDate' = Today /\ Tonight \in Nat /\ InNight(Tonight, clock)
             /\ \A d \in Nights :
                   nights'[d] = IF d = Tonight THEN nights[d] + 1 ELSE nights[d]
    <3>1. Tonight \in Nights
      <4>1. /\ NightStart(Tonight) \in Nat /\ Offset(clock) \in 0..DayTicks
            /\ NightStart(Tonight) <= clock + Offset(clock) /\ DayTicks \in Nat
        BY <1>1, <2>2, NightsApart, OffsetType, PositiveHours DEF InNight
      <4>2. NightStart(Tonight) <= clock + DayTicks
        BY <1>1, <4>1
      <4> QED
        BY <1>1, <1>3, <2>2, <4>2, TonightCounted
    <3>2. PICK p, e : p = clock /\ e = Tonight
      OBVIOUS
    <3>3. p \in Nat /\ e \in Nights /\ InNight(e, p) /\ nights'[e] = nights[e] + 1
          /\ Date(p) = lastRunDate' /\ p <= Firing'
      BY <1>1, <1>5, <2>2, <3>1, <3>2 DEF Today
    <3>4. Remembered(p, e)'
      BY <1>1, <1>4, <3>3 DEF Remembered
    <3> QED
      BY <3>3, <3>4
  <2> QED
    BY <2>1, <2>2, CheckStarts DEF DriftInv
<1>7. ASSUME NEW d \in Nights, NEW o \in Nat, Plain(d, o)', d + 1 \in Nights,
             nights'[d] = 0, nights'[d + 1] = 0, Opens(d, o) <= clock
      PROVE  \E j \in 1..(DayHours - 1) : OnTrack(d, o, j)'
  <2>1. Plain(d, o)
    BY <1>2, <1>4, <1>7 DEF Plain, Steady, Opens, NightStart, Date
  <2>2. PICK j \in 1..(DayHours - 1) :
            /\ Opens(d, o) + j * HourTicks <= clock
            /\ clock < Opens(d, o) + j * HourTicks + j * MaxLate
    BY <1>7, <2>1, TrackGoesOn
  <2>3. OnTrack(d, o, j)'
    BY <1>2, <1>5, <2>2 DEF OnTrack, Opens, NightStart
  <2> QED
    BY <2>3
<1>8. \A d, o : Opens(d, o)' = Opens(d, o)
  BY DEF Opens, NightStart
<1>9. HourTicks <= timer' /\ clock' <= timer' + MaxLate
  BY <1>1, <1>2
<1> QED
  BY <1>2, <1>3, <1>5, <1>6, <1>7, <1>8, <1>9 DEF DriftInv

LEMMA DriftKept ==
    ASSUME DriftInv, NightsInv', UNCHANGED <<setting, timer, nights, lastRunDate, faults>>,
           clock' < HourTicks \/ clock' <= MaxClock,
           faults = 0 => clock' <= timer + MaxLate
    PROVE  DriftInv'
<1>1. \A d, t : (InNight(d, t)' <=> InNight(d, t)) /\ Date(t)' = Date(t)
  BY SameNights
<1>2. \A d, o : /\ Opens(d, o)' = Opens(d, o)
                /\ Plain(d, o)' <=> Plain(d, o)
                /\ \A j : OnTrack(d, o, j)' <=> OnTrack(d, o, j)
  BY <1>1 DEF Plain, Steady, Opens, NightStart, OnTrack, Firing, Date
<1>3. Firing' = Firing /\ \A p, e : Remembered(p, e)' <=> Remembered(p, e)
  BY <1>1 DEF Remembered, Firing
<1> QED
  BY <1>2, <1>3 DEF DriftInv

LEMMA DriftStep ==
    ASSUME DayHours * MaxLate <= HourTicks, DriftInv, [Next]_vars PROVE DriftInv'
<1>0. /\ NightsInv' /\ clock \in Nat /\ timer \in Nat /\ faults \in Nat /\ MaxLate \in Nat
      /\ setting \in Settings
  BY NightsStep, PositiveHours DEF DriftInv, NightsInv
<1>1. CASE UNCHANGED <<time, timer, nights, lastRunDate, faults>>
  BY <1>0, <1>1, DriftKept DEF time, DriftInv
<1>2. CASE Tick
  <2>1. /\ clock' = clock + 1 /\ UNCHANGED <<setting, timer, nights, lastRunDate, faults>>
        /\ clock < setting.end /\ clock < timer + MaxLate
    BY <1>2 DEF Tick, worker
  <2>2. setting.end \in 0..MaxClock /\ MaxClock \in Nat
    BY <1>0, OffsetType, PositiveHours
  <2>3. clock' <= MaxClock /\ clock' <= timer + MaxLate
    BY <1>0, <2>1, <2>2
  <2> QED
    BY <1>0, <2>1, <2>3, DriftKept
<1>3. CASE Check
  <2>1. UNCHANGED <<clock, faults>>
    BY <1>3, CheckStarts DEF DriftInv
  <2>2. CASE faults = 0
    BY <1>3, <2>2, DriftAtCheck
  <2> QED
    BY <1>0, <2>1, <2>2 DEF DriftInv
<1>4. CASE faults' = faults + 1 /\ clock' = clock
  BY <1>0, <1>4 DEF DriftInv
<1> QED
  BY <1>1, <1>2, <1>3, <1>4 DEF Next, vars, time, worker, Restart, Purge, FindLeads, DeleteLeads,
     FindMessages, DeleteMessages, StatementFails, Submission, Capture, RouteMessage,
     AssignByHand

(* However the timer drifts, by up to an hour a day, a worker that nothing *)
(* disturbs purges in one of any two nights in a row: the firing after a   *)
(* skipped night comes just after its hour, so that a day later one comes  *)
(* just after the beginning of the hour.                                   *)
THEOREM OneOfTwoNightsIsPurged ==
    ASSUME DayHours * MaxLate <= HourTicks PROVE Spec => []NeverTwoNightsSkipped
<1>1. Init => DriftInv
  <2> SUFFICES ASSUME Init PROVE DriftInv
    OBVIOUS
  <2>1. NightsInv /\ clock \in Nat /\ clock < HourTicks /\ timer = clock + HourTicks
        /\ HourTicks \in Nat /\ MaxLate \in Nat /\ lastRunDate = -1 /\ Firing < HourTicks
    BY NightsBegin, PositiveHours DEF Init, Firing
  <2>2. ASSUME NEW d \in Nights, NEW o \in Nat, Plain(d, o), Opens(d, o) <= Firing
        PROVE  FALSE
    <3>1. HourTicks <= Opens(d, o) /\ Opens(d, o) \in Nat
      BY <2>1, <2>2, PlainNights DEF NightsInv
    <3>2. Firing \in Int
      BY <2>1 DEF Firing
    <3> QED
      BY <2>1, <2>2, <3>1, <3>2
  <2> QED
    BY <2>1, <2>2 DEF DriftInv
<1>2. DriftInv => NeverTwoNightsSkipped
  <2> SUFFICES ASSUME DriftInv, faults = 0,
                      NEW d \in Nights, NEW o \in {setting.before, setting.after},
                      Steady(d, o), HourTicks <= Opens(d, o),
                      Opens(d + 1, o) + HourTicks <= clock,
                      Date(Opens(d, o)) = Date(Opens(d, o) + HourTicks - 1)
               PROVE  nights[d] > 0 \/ nights[d + 1] > 0
    BY DEF NeverTwoNightsSkipped
  <2> DEFINE x == Opens(d, o)
  <2>0. /\ setting \in Settings /\ clock \in Nat /\ timer \in Nat
        /\ nights \in [Nights -> Nat] /\ clock <= timer + MaxLate
        /\ clock < HourTicks \/ clock <= MaxClock
    BY DEF DriftInv, NightsInv
  <2>1. o \in Nat /\ o <= DayTicks
    BY <2>0, OffsetType, PositiveHours
  <2>2. Plain(d, o)
    BY DEF Plain
  <2>3. /\ x \in Nat /\ d \in Nat /\ HourTicks <= x /\ Opens(d + 1, o) = x + DayTicks
        /\ HourTicks \in Nat \ {0} /\ DayTicks \in Nat /\ DayHours \in Nat \ {0}
        /\ MaxLate \in Nat /\ DayTicks = DayHours * HourTicks /\ MaxClock \in Nat
    BY <2>0, <2>1, <2>2, PlainNights, PositiveHours
  <2>4. x + DayTicks + HourTicks <= clock /\ clock <= MaxClock
    BY <2>0, <2>3
  <2>5. d + 1 \in Nights
    <3>1. NightStart(d + 1) \in Nat /\ Opens(d + 1, o) = NightStart(d + 1) - o
      BY <2>3, NightsApart DEF Opens
    <3>2. NightStart(d + 1) <= clock + DayTicks
      BY <2>0, <2>1, <2>3, <2>4, <3>1
    <3> QED
      BY <2>0, <2>3, <2>4, <3>2, TonightCounted
  <2> SUFFICES ASSUME nights[d] = 0, nights[d + 1] = 0 PROVE FALSE
    BY <2>0, <2>5
  <2>6. Firing = timer - HourTicks /\ Firing >= x + DayTicks - MaxLate
    BY <2>0, <2>3, <2>4 DEF Firing
  <2>7. MaxLate <= DayHours * MaxLate /\ HourTicks <= DayTicks
    <3>1. MaxLate * 1 <= MaxLate * DayHours
      BY <2>3, LargerProduct
    <3> QED
      BY <2>3, <3>1, PositiveHours
  <2>8. x <= Firing
    BY <2>0, <2>3, <2>6, <2>7
  <2>9. PICK j \in 1..(DayHours - 1) : OnTrack(d, o, j)
    BY <2>1, <2>2, <2>5, <2>8 DEF DriftInv
  <2>10. Firing < x + j * HourTicks + j * MaxLate
    BY <2>9 DEF OnTrack
  <2>11. /\ HourTicks * j <= HourTicks * (DayHours - 1)
         /\ MaxLate * j <= MaxLate * (DayHours - 1)
    BY <2>3, LargerProduct
  <2>12. /\ HourTicks * (DayHours - 1) = DayTicks - HourTicks
         /\ MaxLate * (DayHours - 1) = DayHours * MaxLate - MaxLate
         /\ j * HourTicks = HourTicks * j /\ j * MaxLate = MaxLate * j
         /\ HourTicks * j \in Nat /\ MaxLate * j \in Nat /\ DayHours * MaxLate \in Nat
    BY <2>3
  <2> DEFINE a == HourTicks * j
             b == MaxLate * j
             f == DayHours * MaxLate
  <2>13. /\ Firing < x + a + b /\ a \in Nat /\ b \in Nat /\ f \in Nat
         /\ a <= DayTicks - HourTicks /\ b <= f - MaxLate /\ f <= HourTicks
    BY <2>10, <2>11, <2>12
  <2> HIDE DEF a, b, f, x
  <2> QED
    BY <2>0, <2>3, <2>6, <2>13
<1> QED
  BY <1>1, <1>2, DriftStep, PTL DEF Spec

-----------------------------------------------------------------------------
(* A purge that reports completion was thorough.                           *)

LeadRow == [status : {"none", "UNSENT", "SENT", "DUPLICATE"}, created : Nat]
MessageRow == [status : {"none", "PENDING", "DONE", "purged"}, at : Nat]

LastPage == Cardinality(run.page) < PageSize

(* A page that was not full held all that was old when it was read, and    *)
(* nothing grows old before the purge has ended.                           *)
ThoroughInv ==
    /\ clock \in Nat
    /\ lead \in [Leads -> LeadRow]
    /\ message \in [Leads -> MessageRow]
    /\ run.step \in {"outbox", "deleteOutbox"} => OldLeads = {}
    /\ run.step = "deleteLeads" /\ LastPage => OldLeads \subseteq run.page
    /\ run.step = "deleteOutbox" /\ LastPage => OldMessages \subseteq run.page

LEMMA PageOfAll ==
    ASSUME NEW rows, IsFiniteSet(rows), NEW p \in Pages(rows), Cardinality(p) < PageSize
    PROVE  p = rows
<1>1. /\ IsFiniteSet(p) /\ Cardinality(p) \in Nat /\ Cardinality(rows) \in Nat
      /\ Cardinality(rows) = Cardinality(p) => rows = p
  BY FS_Subset, FS_CardinalityType DEF Pages
<1>2. Cardinality(p) = Cardinality(rows)
  <2>1. PageSize \in Nat
    BY MaintenanceAssumption
  <2> QED
    BY <1>1, <2>1 DEF Pages
<1> QED
  BY <1>1, <1>2

LEMMA EmptyPage ==
    ASSUME NEW rows, IsFiniteSet(rows), {} \in Pages(rows)
    PROVE  rows = {}
<1>1. Cardinality({}) < PageSize
  BY FS_EmptySet, MaintenanceAssumption
<1> QED
  BY <1>1, PageOfAll

(* Submissions and decisions bring nothing old.                            *)
LEMMA SubmissionsAreYoung ==
    ASSUME ThoroughInv, NEW l \in Leads, Submission(l)
    PROVE  /\ lead' \in [Leads -> LeadRow] /\ message' \in [Leads -> MessageRow]
           /\ OldLeads' \subseteq OldLeads /\ OldMessages' \subseteq OldMessages
           /\ clock' = clock /\ run' = run
<1>0. LeadRetention \in Nat /\ OutboxRetention \in Nat /\ clock \in Nat
  BY MaintenanceAssumption DEF ThoroughInv
<1>1. clock' = clock /\ run' = run
  BY DEF Submission, Capture, RouteMessage, AssignByHand, worker, time
<1>2. /\ lead' \in [Leads -> LeadRow]
      /\ \A k \in Leads : /\ lead'[k].status # "none"
                          /\ lead'[k].created < clock - LeadRetention
                          => lead[k].status # "none" /\ lead'[k].created = lead[k].created
  <2>1. CASE lead' = lead
    BY <2>1 DEF ThoroughInv
  <2>2. CASE Capture(l)
    BY <1>0, <2>2 DEF Capture, ThoroughInv, LeadRow
  <2>3. ASSUME NEW s \in {"SENT", "DUPLICATE"}, lead[l].status = "UNSENT",
               lead' = [lead EXCEPT ![l].status = s]
        PROVE  <1>2!1 /\ <1>2!2
    BY <2>3 DEF ThoroughInv, LeadRow
  <2> QED
    BY <2>1, <2>2, <2>3 DEF Submission, RouteMessage, AssignByHand, Sell
<1>3. /\ message' \in [Leads -> MessageRow]
      /\ \A k \in Leads : /\ message'[k].status = "DONE"
                          /\ message'[k].at < clock - OutboxRetention
                          => message'[k] = message[k]
  <2>1. CASE message' = message
    BY <2>1 DEF ThoroughInv
  <2>2. CASE Capture(l)
    BY <1>0, <2>2 DEF Capture, ThoroughInv, MessageRow
  <2>3. CASE message' = [message EXCEPT ![l] = [status |-> "DONE", at |-> clock]]
    BY <1>0, <2>3 DEF ThoroughInv, MessageRow
  <2> QED
    BY <2>1, <2>2, <2>3 DEF Submission, RouteMessage, AssignByHand
<1> QED
  BY <1>1, <1>2, <1>3 DEF OldLeads, OldMessages

LEMMA PurgeIsThorough ==
    ASSUME IsFiniteSet(Leads), ThoroughInv, Purge
    PROVE  /\ ThoroughInv'
           /\ run'.step = "finished" => OldLeads' = {} /\ OldMessages' = {}
<1>0. /\ IsFiniteSet(OldLeads) /\ IsFiniteSet(OldMessages)
      /\ clock' = clock /\ clock \in Nat /\ PageSize \in Nat
  BY FS_Subset, MaintenanceAssumption DEF OldLeads, OldMessages, Purge, FindLeads, DeleteLeads,
     FindMessages, DeleteMessages, time, ThoroughInv
<1>1. CASE FindLeads
  <2>1. UNCHANGED <<clock, lead, message>> /\ OldLeads' = OldLeads /\ OldMessages' = OldMessages
    BY <1>1 DEF FindLeads, data, OldLeads, OldMessages, time
  <2>2. PICK p \in Pages(OldLeads) :
          run' = IF p = {} THEN Resting("outbox") ELSE [step |-> "deleteLeads", page |-> p]
    BY <1>1 DEF FindLeads
  <2>3. CASE p = {}
    BY <1>0, <2>1, <2>2, <2>3, EmptyPage DEF ThoroughInv, Resting
  <2>4. CASE p # {}
    BY <1>0, <2>1, <2>2, <2>4, PageOfAll DEF ThoroughInv, LastPage
  <2> QED
    BY <2>3, <2>4
<1>2. CASE DeleteLeads
  <2>1. message' = message /\ run.step = "deleteLeads"
    BY <1>2 DEF DeleteLeads
  <2>2. CASE Referenced(run.page)
    BY <1>0, <1>2, <2>1, <2>2 DEF DeleteLeads, ThoroughInv, Resting
  <2>3. CASE ~Referenced(run.page)
    <3>1. lead' = [l \in Leads |-> IF l \in run.page THEN NoLead ELSE lead[l]]
          /\ run' = After(run.page, "leads", "outbox")
      BY <1>2, <2>3 DEF DeleteLeads
    <3>2. lead' \in [Leads -> LeadRow]
      BY <3>1 DEF ThoroughInv, NoLead, LeadRow
    <3>3. OldLeads' = OldLeads \ run.page
      BY <1>0, <3>1 DEF OldLeads, NoLead
    <3>4. run'.step = IF LastPage THEN "outbox" ELSE "leads"
      BY <3>1 DEF After, Resting, LastPage
    <3> QED
      BY <1>0, <2>1, <3>2, <3>3, <3>4 DEF ThoroughInv
  <2> QED
    BY <2>2, <2>3
<1>3. CASE FindMessages
  <2>1. UNCHANGED <<clock, lead, message>> /\ OldLeads' = OldLeads /\ OldMessages' = OldMessages
        /\ OldLeads = {}
    BY <1>3 DEF FindMessages, data, OldLeads, OldMessages, ThoroughInv, time
  <2>2. PICK p \in Pages(OldMessages) :
          run' = IF p = {} THEN Resting("finished") ELSE [step |-> "deleteOutbox", page |-> p]
    BY <1>3 DEF FindMessages
  <2>3. CASE p = {}
    BY <1>0, <2>1, <2>2, <2>3, EmptyPage DEF ThoroughInv, Resting
  <2>4. CASE p # {}
    BY <1>0, <2>1, <2>2, <2>4, PageOfAll DEF ThoroughInv, LastPage
  <2> QED
    BY <2>3, <2>4
<1>4. CASE DeleteMessages
  <2>1. /\ lead' = lead /\ run.step = "deleteOutbox" /\ OldLeads = {}
        /\ message' = [l \in Leads |-> IF l \in run.page THEN [status |-> "purged", at |-> 0]
                                                         ELSE message[l]]
        /\ run' = After(run.page, "outbox", "finished")
    BY <1>4 DEF DeleteMessages, ThoroughInv
  <2>2. message' \in [Leads -> MessageRow]
    BY <2>1 DEF ThoroughInv, MessageRow
  <2>3. OldMessages' = OldMessages \ run.page /\ OldLeads' = {}
    BY <1>0, <2>1 DEF OldMessages, OldLeads
  <2>4. run'.step = IF LastPage THEN "finished" ELSE "outbox"
    BY <2>1 DEF After, Resting, LastPage
  <2> QED
    BY <1>0, <2>1, <2>2, <2>3, <2>4 DEF ThoroughInv
<1> QED
  BY <1>1, <1>2, <1>3, <1>4 DEF Purge

LEMMA ThoroughStep ==
    ASSUME IsFiniteSet(Leads), ThoroughInv, [Next]_vars
    PROVE  /\ ThoroughInv'
           /\ run.step # "finished" /\ run'.step = "finished"
                => OldLeads' = {} /\ OldMessages' = {}
<1>1. CASE UNCHANGED vars
  BY <1>1 DEF vars, time, worker, data, ThoroughInv, LastPage, OldLeads, OldMessages
<1>2. CASE Tick
  <2>1. run' = run /\ lead' = lead /\ message' = message /\ clock' \in Nat
        /\ run.step \notin {"leads", "deleteLeads", "outbox", "deleteOutbox"}
    BY <1>2 DEF Tick, Running, worker, data, ThoroughInv
  <2> QED
    BY <2>1 DEF ThoroughInv
<1>3. CASE Purge
  BY <1>3, PurgeIsThorough
<1>4. CASE UNCHANGED <<time, data>> /\ run' \in {run, Resting("leads"), Resting("idle"),
                                                   Resting("failed")}
  <2>1. UNCHANGED <<clock, lead, message>> /\ OldLeads' = OldLeads /\ OldMessages' = OldMessages
    BY <1>4 DEF time, data, OldLeads, OldMessages
  <2> QED
    BY <1>4, <2>1 DEF ThoroughInv, LastPage, Resting
<1>5. ASSUME NEW l \in Leads, Submission(l) PROVE ThoroughInv' /\ run' = run
  BY <1>5, SubmissionsAreYoung DEF ThoroughInv, LastPage
<1> QED
  BY <1>1, <1>2, <1>3, <1>4, <1>5 DEF Next, Check, Restart, StatementFails

(* A purge that ends as it should has left nothing old, for any number of  *)
(* pages and whatever is captured, routed or assigned between them.        *)
THEOREM CompletionIsThorough ==
    ASSUME IsFiniteSet(Leads) PROVE Spec => CompletedPurgeIsThorough
<1>1. Init => ThoroughInv
  BY MaintenanceAssumption DEF Init, ThoroughInv, NoLead, NoMessage, LeadRow, MessageRow, Resting
<1>2. ThoroughInv /\ [Next]_vars => ThoroughInv'
  BY ThoroughStep
<1>3. ThoroughInv /\ [Next]_vars =>
        [run.step # "finished" /\ run'.step = "finished"
            => OldLeads' = {} /\ OldMessages' = {}]_vars
  BY ThoroughStep
<1> QED
  BY <1>1, <1>2, <1>3, PTL DEF Spec, CompletedPurgeIsThorough

-----------------------------------------------------------------------------
(* An email is sold at most once, for ever.                                *)

SalesInv ==
    /\ sales \in [Emails -> Nat]
    /\ \A e \in Emails : sales[e] <= 1 /\ (sales[e] > 0 => Sold(e))

LEMMA SalesStep == ASSUME SalesInv, [Next]_vars PROVE SalesInv'
<1>1. CASE UNCHANGED <<claims, sales>>
  BY <1>1 DEF SalesInv, Sold
<1>2. ASSUME NEW l \in Leads, Sell(l) PROVE SalesInv'
  <2>1. Email[l] \in Emails /\ sales[Email[l]] = 0
    BY <1>2 DEF Sell, SalesInv, Emails
  <2>2. \A e \in Emails : Sold(e) => Sold(e)'
    BY <1>2 DEF Sell, Sold
  <2>3. Sold(Email[l])'
    <3> DEFINE row == [email |-> Email[l], lead |-> l]
    <3>1. row \in claims' /\ row.email = Email[l]
      BY <1>2 DEF Sell
    <3> QED
      BY <3>1 DEF Sold
  <2>4. \A e \in Emails : sales'[e] = IF e = Email[l] THEN 1 ELSE sales[e]
    BY <1>2, <2>1 DEF Sell, SalesInv
  <2>5. sales' \in [Emails -> Nat]
    BY <1>2, <2>1 DEF Sell, SalesInv
  <2> QED
    BY <2>2, <2>3, <2>4, <2>5 DEF SalesInv
<1> QED
  BY <1>1, <1>2 DEF Next, vars, time, worker, data, Tick, Check, Restart, Purge, FindLeads,
     DeleteLeads, FindMessages, DeleteMessages, StatementFails, Submission, Capture,
     RouteMessage, AssignByHand

(* FR-036: purging leads and submitting them again never sells an email    *)
(* twice, because no purge removes a row of the registry.                  *)
THEOREM NeverSoldAgain == Spec => []SoldOnceEver
<1>1. Init => SalesInv
  BY DEF Init, SalesInv
<1>2. SalesInv => SoldOnceEver
  BY DEF SalesInv, SoldOnceEver
<1> QED
  BY <1>1, <1>2, SalesStep, PTL DEF Spec

-----------------------------------------------------------------------------
(* Types.  The last conjunct but one is more: a row of the registry keeps  *)
(* its lead, which no purge deletes and nothing changes.                   *)

ClockShape ==
    /\ setting \in Settings /\ clock \in Nat /\ clock <= MaxClock
    /\ timer \in Nat /\ timer <= MaxClock + HourTicks
    /\ lastRunDate \in Days \cup {-1}
    /\ faults \in 0..MaxFaults

RunShape ==
    /\ run \in [step : {"idle", "leads", "deleteLeads", "outbox", "deleteOutbox",
                        "finished", "failed"},
                page : SUBSET Leads]
    /\ run.page # {} <=> run.step \in {"deleteLeads", "deleteOutbox"}

TableShape ==
    /\ lead \in [Leads -> LeadRow] /\ \A l \in Leads : lead[l].created <= clock
    /\ message \in [Leads -> MessageRow] /\ \A l \in Leads : message[l].at <= clock
    /\ \A k \in claims : k.lead \in Leads /\ lead[k.lead].status = "SENT"

Shape == ClockShape /\ RunShape /\ TableShape

LEMMA TablesKeepShape ==
    ASSUME Shape, NEW l \in Leads, Submission(l)
    PROVE  TableShape'
<1>0. clock' = clock /\ clock \in Nat /\ TableShape
  BY DEF Submission, Capture, RouteMessage, AssignByHand, Shape, ClockShape, time
<1>1. ASSUME message' = [message EXCEPT ![l] = [status |-> "DONE", at |-> clock]]
      PROVE  message' \in [Leads -> MessageRow] /\ \A k \in Leads : message'[k].at <= clock
  BY <1>0, <1>1 DEF TableShape, MessageRow
<1>2. ASSUME Sell(l), lead[l].status = "UNSENT"
      PROVE  /\ lead' \in [Leads -> LeadRow] /\ \A k \in Leads : lead'[k].created <= clock
             /\ \A k \in claims' : k.lead \in Leads /\ lead'[k.lead].status = "SENT"
  <2>1. /\ lead' \in [Leads -> LeadRow]
        /\ \A k \in Leads : /\ lead'[k].created = lead[k].created
                            /\ lead'[k].status = IF k = l THEN "SENT" ELSE lead[k].status
    BY <1>0, <1>2 DEF Sell, TableShape, LeadRow
  <2>2. \A k \in claims' : k \in claims \/ k.lead = l
    BY <1>2 DEF Sell
  <2> QED
    BY <1>0, <2>1, <2>2 DEF TableShape
<1>3. CASE Capture(l)
  <2>1. /\ lead' \in [Leads -> LeadRow] /\ \A k \in Leads : lead'[k].created <= clock
        /\ \A k \in Leads : k # l => lead'[k] = lead[k]
        /\ lead[l].status = "none" /\ claims' = claims
    BY <1>0, <1>3 DEF Capture, TableShape, LeadRow
  <2>2. message' \in [Leads -> MessageRow] /\ \A k \in Leads : message'[k].at <= clock
    BY <1>0, <1>3 DEF Capture, TableShape, MessageRow
  <2> QED
    BY <1>0, <2>1, <2>2 DEF TableShape
<1>4. CASE RouteMessage(l)
  <2>1. message' \in [Leads -> MessageRow] /\ \A k \in Leads : message'[k].at <= clock
    BY <1>1, <1>4 DEF RouteMessage
  <2>2. CASE lead[l].status = "UNSENT" /\ Sell(l)
    BY <1>0, <1>2, <2>1, <2>2 DEF TableShape
  <2>3. CASE lead[l].status = "UNSENT" /\ claims' = claims
             /\ lead' = [lead EXCEPT ![l].status = "DUPLICATE"]
    <3>1. /\ lead' \in [Leads -> LeadRow]
          /\ \A k \in Leads : /\ lead'[k].created = lead[k].created
                              /\ k # l => lead'[k].status = lead[k].status
      BY <1>0, <2>3 DEF TableShape, LeadRow
    <3> QED
      BY <1>0, <2>1, <2>3, <3>1 DEF TableShape
  <2>4. CASE UNCHANGED <<lead, claims>>
    BY <1>0, <2>1, <2>4 DEF TableShape
  <2> QED
    BY <1>4, <2>2, <2>3, <2>4 DEF RouteMessage
<1>5. CASE AssignByHand(l)
  BY <1>0, <1>2, <1>5 DEF AssignByHand, TableShape
<1> QED
  BY <1>3, <1>4, <1>5 DEF Submission

LEMMA PurgeKeepsShape ==
    ASSUME Shape, Purge
    PROVE  RunShape' /\ TableShape'
<1>0. RunShape /\ TableShape /\ clock' = clock /\ clock \in Nat /\ claims' = claims
  BY DEF Shape, ClockShape, Purge, FindLeads, DeleteLeads, FindMessages, DeleteMessages, data, time
<1>1. \A step \in {"idle", "leads", "outbox", "finished", "failed"} :
          run' = Resting(step) => RunShape'
  BY DEF RunShape, Resting
<1>2. CASE FindLeads
  <2>1. PICK p \in Pages(OldLeads) :
            run' = IF p = {} THEN Resting("outbox") ELSE [step |-> "deleteLeads", page |-> p]
    BY <1>2 DEF FindLeads
  <2>2. p \subseteq Leads
    BY DEF Pages, OldLeads
  <2>3. RunShape'
    BY <1>1, <2>1, <2>2 DEF RunShape
  <2> QED
    BY <1>0, <1>2, <2>3 DEF FindLeads, data, TableShape
<1>3. CASE DeleteLeads
  <2>1. RunShape'
    BY <1>1, <1>3 DEF DeleteLeads, After
  <2>2. CASE lead' = lead
    BY <1>0, <1>3, <2>1, <2>2 DEF DeleteLeads, TableShape
  <2>3. CASE /\ ~Referenced(run.page)
             /\ lead' = [l \in Leads |-> IF l \in run.page THEN NoLead ELSE lead[l]]
    <3>1. /\ lead' \in [Leads -> LeadRow] /\ \A l \in Leads : lead'[l].created <= clock
          /\ \A l \in Leads : l \notin run.page => lead'[l] = lead[l]
      BY <1>0, <2>3 DEF TableShape, LeadRow, NoLead
    <3>2. \A k \in claims : k.lead \notin run.page
      BY <2>3 DEF Referenced
    <3> QED
      BY <1>0, <1>3, <2>1, <3>1, <3>2 DEF DeleteLeads, TableShape
  <2> QED
    BY <1>3, <2>2, <2>3 DEF DeleteLeads
<1>4. CASE FindMessages
  <2>1. PICK p \in Pages(OldMessages) :
            run' = IF p = {} THEN Resting("finished") ELSE [step |-> "deleteOutbox", page |-> p]
    BY <1>4 DEF FindMessages
  <2>2. p \subseteq Leads
    BY DEF Pages, OldMessages
  <2>3. RunShape'
    BY <1>1, <2>1, <2>2 DEF RunShape
  <2> QED
    BY <1>0, <1>4, <2>3 DEF FindMessages, data, TableShape
<1>5. CASE DeleteMessages
  <2>1. RunShape'
    BY <1>1, <1>5 DEF DeleteMessages, After
  <2>2. message' \in [Leads -> MessageRow] /\ \A l \in Leads : message'[l].at <= clock
    BY <1>0, <1>5 DEF DeleteMessages, TableShape, MessageRow
  <2> QED
    BY <1>0, <1>5, <2>1, <2>2 DEF DeleteMessages, TableShape
<1> QED
  BY <1>2, <1>3, <1>4, <1>5 DEF Purge

LEMMA ShapeStep == Shape /\ [Next]_vars => Shape'
<1> SUFFICES ASSUME Shape, [Next]_vars PROVE Shape'
  OBVIOUS
<1>0. /\ ClockShape /\ RunShape /\ TableShape
      /\ HourTicks \in Nat /\ MaxClock \in Nat /\ MaxFaults \in Nat
  BY PositiveHours, MaintenanceAssumption DEF Shape
<1>1. \A step \in {"idle", "leads", "failed"} : run' = Resting(step) => RunShape'
  BY DEF RunShape, Resting
<1>2. CASE Tick
  <2>0. setting \in Settings /\ setting.end \in 0..MaxClock
    BY <1>0, OffsetType DEF ClockShape
  <2>1. ClockShape'
    BY <1>0, <1>2, <2>0 DEF Tick, worker, ClockShape
  <2>2. \A n \in Nat : n <= clock => n <= clock'
    BY <1>0, <1>2 DEF Tick, ClockShape
  <2>3. /\ \A l \in Leads : lead[l].created \in Nat /\ message[l].at \in Nat
        /\ UNCHANGED <<lead, message, claims, run>>
    BY <1>0, <1>2 DEF Tick, worker, data, TableShape, LeadRow, MessageRow
  <2> QED
    BY <1>0, <2>1, <2>2, <2>3 DEF Shape, RunShape, TableShape
<1>3. CASE Check
  <2>1. Today \in Days
    BY <1>0, TodayCounted DEF ClockShape
  <2>2. ClockShape'
    BY <1>0, <1>3, <2>1 DEF Check, ClockShape, time
  <2>3. RunShape' /\ TableShape'
    BY <1>0, <1>1, <1>3 DEF Check, data, RunShape, TableShape, time
  <2> QED
    BY <2>2, <2>3 DEF Shape
<1>4. CASE Restart
  <2>1. ClockShape'
    BY <1>0, <1>4 DEF Restart, ClockShape, time
  <2> QED
    BY <1>0, <1>1, <1>4, <2>1 DEF Restart, data, Shape, TableShape, time
<1>5. CASE Purge
  <2>1. ClockShape'
    BY <1>0, <1>5 DEF Purge, FindLeads, DeleteLeads, FindMessages, DeleteMessages, ClockShape, time
  <2> QED
    BY <1>5, <2>1, PurgeKeepsShape DEF Shape
<1>6. CASE StatementFails
  <2>1. ClockShape'
    BY <1>0, <1>6 DEF StatementFails, ClockShape, time
  <2> QED
    BY <1>0, <1>1, <1>6, <2>1 DEF StatementFails, data, Shape, TableShape, time
<1>7. ASSUME NEW l \in Leads, Submission(l) PROVE Shape'
  <2>1. ClockShape' /\ RunShape'
    BY <1>0, <1>7
       DEF Submission, Capture, RouteMessage, AssignByHand, worker, ClockShape, RunShape, time
  <2> QED
    BY <1>7, <2>1, TablesKeepShape DEF Shape
<1>8. CASE UNCHANGED vars
  BY <1>0, <1>8 DEF vars, time, worker, data, Shape, ClockShape, RunShape, TableShape
<1> QED
  BY <1>2, <1>3, <1>4, <1>5, <1>6, <1>7, <1>8 DEF Next

(* Clock, timer, purge and tables are what the code can hold, and every    *)
(* row of the registry has its lead, if the run covers the first hour.     *)
THEOREM MaintenanceTypeCorrect ==
    ASSUME HourTicks <= MaxClock
    PROVE  Spec => []TypeOK
<1>1. Init => Shape
  <2> SUFFICES ASSUME Init PROVE Shape
    OBVIOUS
  <2>1. ClockShape
    BY PositiveHours, MaintenanceAssumption DEF Init, ClockShape
  <2>2. RunShape
    BY DEF Init, RunShape, Resting
  <2>3. TableShape
    BY PositiveHours DEF Init, TableShape, LeadRow, MessageRow, NoLead, NoMessage
  <2> QED
    BY <2>1, <2>2, <2>3 DEF Shape
<1>2. Shape => TypeOK
  <2> SUFFICES ASSUME Shape PROVE TypeOK
    OBVIOUS
  <2>1. clock \in 0..MaxClock /\ timer \in 0..(MaxClock + HourTicks)
    BY PositiveHours DEF Shape, ClockShape
  <2>2. \A l \in Leads : /\ lead[l].created \in 0..clock /\ message[l].at \in 0..clock
                         /\ lead[l].status \in {"none", "UNSENT", "SENT", "DUPLICATE"}
                         /\ message[l].status \in {"none", "PENDING", "DONE", "purged"}
    BY DEF Shape, ClockShape, TableShape, LeadRow, MessageRow
  <2> QED
    BY <2>1, <2>2 DEF Shape, ClockShape, RunShape, TableShape, TypeOK
<1> QED
  BY <1>1, <1>2, ShapeStep, PTL DEF Spec
=============================================================================
