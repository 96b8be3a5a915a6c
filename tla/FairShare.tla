----------------------------- MODULE FairShare -----------------------------
(***************************************************************************)
(* Days of a distribution routed by a single consumer: leads arrive one    *)
(* after the other, each goes to the broker selectBroker picks, and the    *)
(* clock moves between them and while one is being routed.  Every broker   *)
(* counts its own calendar days, the distribution counts its own, and the  *)
(* pages shown to the owner count by a third rule.  The concurrency of the *)
(* claims is the subject of Routing; this module asks what the selection   *)
(* rule adds up to.                                                        *)
(*                                                                         *)
(* Time is in absolute UTC minutes.  A zone is [before, after, change]:    *)
(* its offsets in minutes and the instant the first gives way to the       *)
(* second.                                                                 *)
(***************************************************************************)
EXTENDS SelectBroker, FiniteSets

CONSTANTS
    BrokerIds,   \* ids of the distribution's members
    Setups       \* the situations to start from, a set of records
                 \*   members: [BrokerIds -> [percentage, dailyCap,
                 \*     openingMinutes, closingMinutes, workingDays, zone]]
                 \*   zone: the zone of the distribution
                 \*   instants: the minutes at which the clock is looked at
                 \*   leads, pages: bounds, the leads that arrive and the
                 \*     times the distribution page is opened

Zones == [before : Int, after : Int, change : Int]
DayMinutes == 0..(MinutesPerDay - 1)
Whole == 10000      \* 100 percent
Terms == [percentage : 0..Whole, dailyCap : Nat, workingDays : SUBSET (1..7),
          openingMinutes : DayMinutes, closingMinutes : DayMinutes, zone : Zones]

ASSUME FairShareAssumption ==
    /\ BrokerIds \subseteq Nat
    /\ \A s \in Setups :
          /\ s.members \in [BrokerIds -> Terms]
          /\ s.zone \in Zones
          /\ s.instants \subseteq Nat
          /\ s.leads \in Nat
          /\ s.pages \in Nat

VARIABLES
    setup,      \* Broker, DistributionBroker and Distribution rows, fixed
    now,        \* the clock
    counters,   \* BrokerDailyCounter rows: <<broker, local day>> to sent
    sales,      \* SENT leads: a set of [id, broker, at], ids in the order
                \*   of the sales, at is assignedAt
    unsent,     \* leads that found no eligible broker
    page        \* the distribution page: [opened, views, next, at],
                \*   at is -1 until the answer is complete

trade == <<counters, sales, unsent>>
vars == <<setup, now, trade, page>>

Init ==
    /\ setup \in Setups
    /\ now \in setup.instants
    /\ counters = [k \in {} |-> 0]
    /\ sales = {}
    /\ unsent = 0
    /\ page = [opened |-> 0, views |-> <<>>, next |-> {}, at |-> -1]

-----------------------------------------------------------------------------
(* nowInZone(): the clock projected into a zone.                           *)

LocalTime(zone, t) == t + (IF t < zone.change THEN zone.before ELSE zone.after)
LocalDay(zone, t) == LocalTime(zone, t) \div MinutesPerDay
LocalMinute(zone, t) == LocalTime(zone, t) % MinutesPerDay
IsoWeekday(zone, t) == (LocalDay(zone, t) % 7) + 1

Zone(b) == setup.members[b].zone

Put(f, k, v) == [j \in DOMAIN f \cup {k} |-> IF j = k THEN v ELSE f[j]]

(* A member without a row for the day has sent nothing.                    *)
SentOn(k) == IF k \in DOMAIN counters THEN counters[k] ELSE 0

Incremented(k) == Put(counters, k, SentOn(k) + 1)

(* The counter findCandidates() and toView() look up at t.                 *)
SentToday(b, t) == SentOn(<<b, LocalDay(Zone(b), t)>>)

(* The row findCandidates() builds for one member, with the clock at t.    *)
Candidate(b, t) ==
    LET m == setup.members[b]
    IN  [id |-> b, isActive |-> TRUE, isActiveInDistribution |-> TRUE,
         dailyCap |-> m.dailyCap, percentage |-> m.percentage,
         openingMinutes |-> m.openingMinutes, closingMinutes |-> m.closingMinutes,
         workingDays |-> m.workingDays,
         isoWeekday |-> IsoWeekday(m.zone, t), minute |-> LocalMinute(m.zone, t),
         sentToday |-> SentToday(b, t)]

SoldOnDay(zone, t) == {s \in sales : LocalDay(zone, s.at) = LocalDay(zone, t)}

(* getTotalSentToday() with the clock at t: the SENT leads of the          *)
(* distribution's day.  (The code takes the instants from the day's start  *)
(* to a calendar day later, which may differ in the hour that is repeated  *)
(* where a midnight comes twice.)                                          *)
TotalSentToday(t) == Cardinality(SoldOnDay(setup.zone, t))

Arrived == Cardinality(sales) + unsent

Sale(b, t) == [id |-> Cardinality(sales) + 1, broker |-> b, at |-> t]

(* What one routing transaction reads of the clock: once per candidate,    *)
(* in whatever order the members come, once for the shared total, and once *)
(* for assignedAt, after the others.  It is cut off after 15 seconds, so   *)
(* it crosses at most one minute.                                          *)
Readings ==
    LET Minutes == {now, now + 1} \cap setup.instants
    IN  {r \in [at : [BrokerIds -> Minutes], counted : Minutes, assigned : Minutes] :
            /\ r.counted <= r.assigned
            /\ \A b \in BrokerIds : r.at[b] <= r.assigned}

SelectedWith(r) ==
    Selected({Candidate(b, r.at[b]) : b \in BrokerIds}, TotalSentToday(r.counted))

RouteOnAssignedDay ==     \* mutant: the distribution's day for every counter
    /\ Arrived < setup.leads
    /\ \E r \in Readings, w \in BrokerIds :
          /\ w \in {c.id : c \in SelectedWith(r)}
          /\ counters' = Incremented(<<w, LocalDay(setup.zone, r.assigned)>>)
          /\ sales' = sales \cup {Sale(w, r.assigned)}
          /\ now' = r.assigned
    /\ UNCHANGED <<setup, unsent, page>>

(* RouteLeadUseCase on an uncontended lead: the winner's counter of the    *)
(* day it was looked at moves, and the lead is sold at assignedAt.         *)
Route ==
    /\ Arrived < setup.leads
    /\ \E r \in Readings, w \in BrokerIds :
          /\ w \in {c.id : c \in SelectedWith(r)}
          /\ counters' = Incremented(<<w, LocalDay(Zone(w), r.at[w])>>)
          /\ sales' = sales \cup {Sale(w, r.assigned)}
          /\ now' = r.assigned
    /\ UNCHANGED <<setup, unsent, page>>

(* ... or nobody may receive it and it stays UNSENT.                       *)
NoBroker ==
    /\ Arrived < setup.leads
    /\ \E r \in Readings : SelectedWith(r) = {} /\ now' = r.assigned
    /\ unsent' = unsent + 1
    /\ UNCHANGED <<setup, counters, sales, page>>

Tick ==
    /\ \E t \in setup.instants : t > now /\ now' = t
    /\ UNCHANGED <<setup, trade, page>>

-----------------------------------------------------------------------------
(* GET /distribution/detail: the members are read one after the other, and *)
(* only then the candidates for the preview of the next selection.  Leads  *)
(* are routed, and midnights pass, between two of these reads.             *)

(* toView(): isOpenNow looks at the window alone.                          *)
MemberView(b) ==
    LET c == Candidate(b, now)
    IN  [at |-> now,
         isOpenNow |-> WindowContains(c.openingMinutes, c.closingMinutes, c.minute),
         isCapped |-> c.dailyCap > 0 /\ c.sentToday >= c.dailyCap]

(* simulate: the selection with no write.                                  *)
DryRun == {c.id : c \in SelectedWith(
              [at |-> [b \in BrokerIds |-> now], counted |-> now, assigned |-> now])}

OpenPage ==
    /\ page.opened < setup.pages
    /\ page' = [opened |-> page.opened + 1, views |-> <<>>, next |-> {}, at |-> -1]
    /\ UNCHANGED <<setup, now, trade>>

ReadView(b) ==
    /\ page.opened > 0
    /\ DOMAIN page.views = {c \in BrokerIds : c < b}
    /\ page' = [page EXCEPT !.views = Put(@, b, MemberView(b))]
    /\ UNCHANGED <<setup, now, trade>>

ReadNextAtOnce ==     \* mutant: one Promise.all for views and preview
    /\ page.opened > 0
    /\ page.at = -1
    /\ page' = [page EXCEPT !.next = DryRun, !.at = now]
    /\ UNCHANGED <<setup, now, trade>>

ReadNext ==
    /\ page.opened > 0
    /\ page.at = -1
    /\ DOMAIN page.views = BrokerIds
    /\ page' = [page EXCEPT !.next = DryRun, !.at = now]
    /\ UNCHANGED <<setup, now, trade>>

Browse == OpenPage \/ ReadNext \/ \E b \in BrokerIds : ReadView(b)

Next == Route \/ NoBroker \/ Tick \/ Browse

Spec == Init /\ [][Next]_vars

-----------------------------------------------------------------------------
(* todayStats.assignedToday of the broker page: SENT leads assigned since  *)
(* the UTC midnight of the broker's local date.                            *)

StartOfUtcDay(b, t) == (t \div MinutesPerDay) * MinutesPerDay     \* mutant

StartOfBrokerDay(b, t) == LocalDay(Zone(b), t) * MinutesPerDay

AssignedToday(b, t) ==
    Cardinality({s \in sales : s.broker = b /\ s.at >= StartOfBrokerDay(b, t)})

-----------------------------------------------------------------------------
TypeOK ==
    /\ setup \in Setups
    /\ now \in setup.instants
    /\ DOMAIN counters \subseteq BrokerIds \X Int
    /\ \A k \in DOMAIN counters : counters[k] \in Nat \ {0}
    /\ IsFiniteSet(sales)
    /\ \A s \in sales : /\ s.id \in 1..Cardinality(sales)
                        /\ s.broker \in BrokerIds
                        /\ s.at \in {t \in setup.instants : t <= now}
    /\ unsent \in 0..setup.leads
    /\ page.opened \in 0..setup.pages
    /\ page.next \subseteq BrokerIds

(* Independent statement of the opening hours: the minutes since the last  *)
(* opening time are fewer than the window is long, midnight or not.        *)
OpenFor(m) == IF m.openingMinutes = m.closingMinutes
              THEN MinutesPerDay
              ELSE (m.closingMinutes - m.openingMinutes) % MinutesPerDay

MayReceive(b, t) ==
    LET m == setup.members[b]
    IN  /\ m.percentage > 0
        /\ IsoWeekday(m.zone, t) \in m.workingDays
        /\ (LocalTime(m.zone, t) - m.openingMinutes) % MinutesPerDay < OpenFor(m)
        /\ m.dailyCap = 0 \/ SentToday(b, t) < m.dailyCap

SoldTo(b, zone, t) == Cardinality({s \in SoldOnDay(zone, t) : s.broker = b})

(* The clocks of the zone are put back across a midnight: the evening, and *)
(* the midnight after it, come twice.                                      *)
TurnsBack(zone) == LocalDay(zone, zone.change - 1) > LocalDay(zone, zone.change)

(* FR-014's deficit without any rounding, in hundredths of a percent of a  *)
(* lead.                                                                   *)
ExactDeficit(b) ==
    setup.members[b].percentage * (TotalSentToday(now) + 1) - 10000 * SentToday(b, now)

EveryoneAlwaysOpen == \A b \in BrokerIds :
    /\ setup.members[b].dailyCap = 0
    /\ OpenFor(setup.members[b]) = MinutesPerDay
    /\ setup.members[b].workingDays = 1..7

(* Sales that, at some minute of the distribution's day so far, the shared *)
(* total counts and the winner's counter does not, or the other way round: *)
(* the two calendars turn at different minutes, and a lead routed across a *)
(* midnight may be counted on the day before.                              *)
Strays ==
    LET Minutes == {t \in setup.instants :
                      t <= now /\ LocalDay(setup.zone, t) = LocalDay(setup.zone, now)}
        InTotal(s, t) == LocalDay(setup.zone, s.at) = LocalDay(setup.zone, t)
        InCounter(s, read, t) == LocalDay(Zone(s.broker), read) = LocalDay(Zone(s.broker), t)
    IN  Cardinality({s \in sales :
            \E t \in Minutes, read \in {s.at - 1, s.at} :
                t >= s.at /\ InTotal(s, t) # InCounter(s, read, t)})

(* When every member is always eligible and the split adds up to 100, the  *)
(* greedy deficit rule leaves each of up to three members less than one    *)
(* lead away from its contracted share of the distribution's day, and one  *)
(* more for every sale the two calendars disagreed on during it            *)
(* (select-broker.ts:38: highest deficit wins), if whoever has a share has *)
(* more than half a percent: a smaller one that is handed a midnight lead  *)
(* is ahead by nearly all of it, and may win once more by rounding.  With  *)
(* four members or more the rule drifts further.                           *)
ShareDriftBounded == EveryoneAlwaysOpen =>
    \A b \in BrokerIds :
        LET gap == setup.members[b].percentage * TotalSentToday(now)
                     - 10000 * SoldTo(b, setup.zone, now)
        IN  /\ gap < 10000 * (1 + Strays)
            /\ -gap < 10000 * (1 + Strays)

(* A broker is sold at most its cap in one of its own calendar days, by    *)
(* the time the leads were assigned: only the lead that was being routed   *)
(* at midnight, counted on the day before, may come on top, and a second   *)
(* one where the clocks go back across midnight.                           *)
CapPerCalendarDay ==
    \A b \in BrokerIds : setup.members[b].dailyCap > 0 =>
        /\ \A s \in sales : s.broker = b =>
              SoldTo(b, Zone(b), s.at) <=
                  setup.members[b].dailyCap + (IF TurnsBack(Zone(b)) THEN 2 ELSE 1)
        /\ \A k \in DOMAIN counters : k[1] = b =>
              counters[k] <= setup.members[b].dailyCap

(* No lead is dropped while somebody may receive it, whatever the deficits *)
(* are: the sort always has a first element (spec FR-017, all deficits     *)
(* negative included).                                                     *)
DroppedOnlyWhenNobodyMayReceive ==
    [][unsent' > unsent =>
          \A b \in BrokerIds : \E t \in now .. now' : ~MayReceive(b, t)]_vars

(* A member outside its hours, off duty, at zero percent or at its cap     *)
(* receives nothing: overnight windows, the closing minute, both calendars *)
(* and the changes of summer time included.                                *)
OnlyEligibleReceive ==
    [][\A s \in sales' \ sales : \E t \in now .. now' : MayReceive(s.broker, t)]_vars

(* FR-014: among those who may receive it, the lead goes to a member of    *)
(* the highest deficit, up to the rounding of two targets to hundredths of *)
(* a lead (percentage.ts:26): a lead in deficit of up to one hundredth may *)
(* be lost to the lower id, as by 28.5% to 27.5% on the first of a day.    *)
HighestDeficitWins ==
    [][now' = now =>
          \A s \in sales' \ sales, c \in BrokerIds :
              MayReceive(c, now) => ExactDeficit(c) - ExactDeficit(s.broker) <= 100]_vars

(* The broker page is right for a broker on UTC, shows too little where    *)
(* the clock is never behind UTC and too much where it is never ahead,     *)
(* never the other way round (composite.controller.ts:173).                *)
PageErrsByZone ==
    \A b \in BrokerIds :
        LET offsets == {Zone(b).before, Zone(b).after}
            today == SoldTo(b, Zone(b), now)
        IN  /\ (\A o \in offsets : o >= 0) /\ ~TurnsBack(Zone(b)) =>
                  AssignedToday(b, now) <= today
            /\ (\A o \in offsets : o <= 0) => AssignedToday(b, now) >= today

(* The page never contradicts itself: the broker it previews as the next   *)
(* is not one it shows as capped or closed, although rows and preview are  *)
(* read at different moments, unless the clock brought a new day of that   *)
(* broker, or its opening, in between.                                     *)
PreviewAgreesWithRows ==
    \A b \in page.next \cap DOMAIN page.views :
        LET view == page.views[b]
        IN  /\ view.isCapped => LocalDay(Zone(b), view.at) # LocalDay(Zone(b), page.at)
            /\ ~view.isOpenNow => view.at # page.at
=============================================================================
