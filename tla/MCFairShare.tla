---------------------------- MODULE MCFairShare ----------------------------
(* Instances of FairShare for TLC: setups as definitions.                  *)
EXTENDS FairShare

Members == 1..3

Fixed(offset) == [before |-> offset, after |-> offset, change |-> 0]
Utc == Fixed(0)
East == Fixed(480)      \* midnight at minute 960 of the UTC day
West == Fixed(-300)     \* midnight at minute 300
Midnight(zone, day) == day * MinutesPerDay - zone.before

(* 03:00 becomes 04:00 on the second day.                                  *)
Summer == [before |-> 120, after |-> 180, change |-> MinutesPerDay + 60]

Member(pct, cap, open, close, days, zone) ==
    [percentage |-> pct, dailyCap |-> cap, openingMinutes |-> open,
     closingMinutes |-> close, workingDays |-> days, zone |-> zone]
AlwaysOpen(pct, cap, zone) == Member(pct, cap, 0, 0, 1..7, zone)

Setup(members, zone, instants, leads, pages) ==
    [members |-> members, zone |-> zone, instants |-> instants, leads |-> leads,
     pages |-> pages]

(* Every split of 100% between three members in steps of 5%, one with two  *)
(* members whose percentages differ by a hundredth, and splits whose       *)
(* targets are often halves of a hundredth, alone and together.            *)
EverySplit ==
    {Setup([b \in Members |-> AlwaysOpen(500 * s[b], 0, Utc)], Utc, {720}, 25, 0) :
        s \in {t \in [Members -> 0..20] : t[1] + t[2] + t[3] = 20}}
NearTie ==
    {Setup([b \in Members |-> AlwaysOpen(IF b = 3 THEN 3334 ELSE 3333, 0, Utc)],
           Utc, {720}, 25, 0)}

Halving ==
    {Setup([b \in Members |-> AlwaysOpen(split[b], 0, Utc)], Utc, {720}, 25, 0) :
        split \in {<<2750, 2850, 4400>>, <<3350, 3450, 3200>>, <<51, 4949, 5000>>}}
        \cup
    {Setup([b \in Members |->
              IF b = 3 THEN Member(4400, 0, 0, 0, {2}, Utc)
                       ELSE AlwaysOpen(<<2750, 2850>>[b], 0, Utc)], Utc, {720}, 6, 0)}

(* A day office, a night desk over midnight, and a capped all-day member   *)
(* who is off on the first weekday, at the minutes where a window turns.   *)
MixedDays ==
    {Setup([b \in Members |->
              CASE b = 1 -> Member(p, c, 540, 1080, {1, 2}, Utc)
                [] b = 2 -> Member(q, 0, 1080, 540, {1}, Utc)
                [] b = 3 -> Member(2000, 2, 0, 0, {2}, Utc)],
           Utc, {539, 540, 1079, 1080, 1439, 1440, 1441, 1980, 2520}, 4, 0) :
        p \in {0, 5000}, q \in {3000, 5000}, c \in {0, 2}}

(* Always-open members on three calendars, around each of the midnights of *)
(* one day.                                                                *)
Midnights ==
    UNION {{Midnight(z, 2) - 1, Midnight(z, 2)} : z \in {Utc, East, West}}
Calendars ==
    {Setup([b \in Members |-> AlwaysOpen(<<5000, 3000, 2000>>[b], c,
                                         <<East, Utc, West>>[b])],
           z, Midnights, 6, 0) : z \in {Utc, East, West}, c \in {0, 1, 2}}

(* Office hours in a zone that changes to summer time.                     *)
SummerTime ==
    {Setup([b \in Members |->
              CASE b = 1 -> Member(5000, 1, 150, 300, 1..7, Summer)
                [] b = 2 -> Member(3000, 0, 0, 180, 1..7, Summer)
                [] b = 3 -> Member(2000, 2, 1380, 120, 1..7, Summer)],
           Summer, {MinutesPerDay + m : m \in {-121, -120, 29, 30, 59, 60, 119, 120}},
           4, 0)}

(* 00:01 becomes 23:01 of the day before, so that midnight comes twice.    *)
ClocksBack ==
    LET change == 2 * MinutesPerDay + 151
        Newfoundland == [before |-> -150, after |-> -210, change |-> change]
    IN  {Setup([b \in Members |-> AlwaysOpen(<<8000, 1000, 1000>>[b], 2, Newfoundland)],
               Newfoundland, {change + m : m \in {-2, -1, 0, 58, 59}}, 4, 0)}

(* The distribution page, opened while the eastern midnight passes, one    *)
(* member opens and another closes.                                        *)
PageReaders ==
    {Setup([b \in Members |->
              CASE b = 1 -> AlwaysOpen(5000, 1, East)
                [] b = 2 -> Member(3000, c, 960, 0, 1..7, Utc)
                [] b = 3 -> Member(2000, 1, 0, 660, 1..7, West)],
           Utc, {958, 959, 960}, 3, 1) : c \in {0, 1}}

AllSetups == EverySplit \cup NearTie \cup Halving \cup MixedDays \cup Calendars \cup SummerTime
                \cup ClocksBack \cup PageReaders
=============================================================================
