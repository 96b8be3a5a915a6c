---------------------------- MODULE Maintenance ----------------------------
(***************************************************************************)
(* Nightly retention (src/interfaces/worker/purge-tasks.ts): an hourly     *)
(* timer of the worker starts the purge in the hour of 03:00; the purge    *)
(* deletes pages of leads older than the retention period, then pages of   *)
(* DONE outbox messages, while leads are captured, routed and assigned by  *)
(* hand beside it.                                                         *)
(*                                                                         *)
(* Time is counted in ticks, HourTicks to the hour.  The clock is UTC;     *)
(* local time is ahead of it by an offset that may change once (summer     *)
(* time).  Hour and night go by local time, lastRunDate by the UTC date.   *)
(* setInterval counts the next hour from the start of its callback, which  *)
(* may be late every time, so firings drift forward.  A whole purge fits   *)
(* into one tick.                                                          *)
(*                                                                         *)
(* A sale is one step here (claim, registry row and lead row commit        *)
(* together; Routing has the detail).  Keys of other tables decide what a  *)
(* delete may do: assigned_emails.leadId references leads with ON DELETE   *)
(* RESTRICT, so a page holding a sold lead is refused as a whole.          *)
(***************************************************************************)
EXTENDS Integers, FiniteSets

CONSTANTS
    Leads,            \* lead ids, each captured at most once
    Email,            \* [Leads -> the normalised email it carries]
    HourTicks,        \* ticks of an hour, the period of the timer
    DayHours,         \* hours of a day (24; a shorter day is enough)
    NightHour,        \* the hour in which the purge starts: 3
    LeadRetention,    \* ticks a lead is kept: 90 days
    OutboxRetention,  \* ticks a DONE message is kept: 7 days
    PageSize,         \* PURGE_BATCH
    MaxLate,          \* ticks by which a firing of the timer may be late
    Settings,         \* where the worker may run: local time, load and length
    MaxClock,         \* bound: ticks of the longest run
    MaxFaults         \* bound: restarts of the worker and failed statements

DayTicks == HourTicks * DayHours

ASSUME MaintenanceAssumption ==
    /\ {HourTicks, DayHours, PageSize} \subseteq Nat \ {0}
    /\ {NightHour, LeadRetention, OutboxRetention, MaxLate, MaxClock, MaxFaults} \subseteq Nat
    /\ NightHour < DayHours

(* Local time is ahead of UTC by `before` ticks until `change` and by      *)
(* `after` from then on (west of Greenwich a day is added: days of local   *)
(* time are only told apart, never named).  `leads` come in, and the run   *)
(* is over at `end`.                                                       *)
ASSUME SettingsAssumption ==
    Settings \subseteq [before : 0..DayTicks, after : 0..DayTicks, change : Nat,
                       leads : SUBSET Leads, end : 0..MaxClock]

(* Clocks are set back by an hour at most.                                 *)
ASSUME ZonesAssumption == \A z \in Settings : z.before <= z.after + HourTicks

VARIABLES
    clock,        \* ticks since midnight of day 0, UTC
    setting,      \* the setting of this run
    timer,        \* tick at which setInterval calls check() next
    lastRunDate,  \* of the closure of scheduleNightlyMaintenance; -1 when ''
    run,          \* the purge: [step, page]
    lead,         \* leads: [Leads -> [status, created]]
    claims,       \* assigned_emails: set of [email, lead]
    message,      \* outbox row of each lead: [Leads -> [status, at]]
    nights,       \* history: how many purges started in each night
    sales,        \* history: how often each email was sold
    faults        \* faults so far

worker == <<timer, lastRunDate, run, nights>>
data == <<lead, claims, message, sales>>
time == <<clock, setting>>
vars == <<time, worker, data, faults>>

Emails == {Email[l] : l \in Leads}

(* Of local time: getHours() and the day; of UTC: toISOString's date.      *)
Offset(t) == IF t < setting.change THEN setting.before ELSE setting.after
Local == clock + Offset(clock)
Hour == (Local \div HourTicks) % DayHours
Tonight == Local \div DayTicks
Date(t) == t \div DayTicks
Today == Date(clock)

Days == 0..(MaxClock \div DayTicks)
Nights == 0..(MaxClock \div DayTicks + 1)

NoLead == [status |-> "none", created |-> 0]
NoMessage == [status |-> "none", at |-> 0]
Resting(step) == [step |-> step, page |-> {}]

(* The worker starts during the first hour of day 0.                       *)
Init ==
    /\ setting \in Settings
    /\ clock \in 0..(HourTicks - 1)
    /\ timer = clock + HourTicks
    /\ lastRunDate = -1
    /\ run = Resting("idle")
    /\ lead = [l \in Leads |-> NoLead]
    /\ claims = {}
    /\ message = [l \in Leads |-> NoMessage]
    /\ nights = [d \in Nights |-> 0]
    /\ sales = [e \in Emails |-> 0]
    /\ faults = 0

Running == run.step \in {"leads", "deleteLeads", "outbox", "deleteOutbox"}

(* A timer fires at most MaxLate late and a purge is over within its tick. *)
Tick ==
    /\ clock < setting.end
    /\ clock < timer + MaxLate
    /\ ~Running
    /\ clock' = clock + 1
    /\ UNCHANGED <<setting, worker, data, faults>>

-----------------------------------------------------------------------------
(* Leads come and are sold beside the purge.                               *)

Capture(l) ==
    /\ l \in setting.leads
    /\ lead[l].status = "none" /\ message[l].status = "none"
    /\ lead' = [lead EXCEPT ![l] = [status |-> "UNSENT", created |-> clock]]
    /\ message' = [message EXCEPT ![l] = [status |-> "PENDING", at |-> 0]]
    /\ UNCHANGED <<time, worker, claims, sales, faults>>

Sold(e) == \E k \in claims : k.email = e

(* The first sale of an email: registry row and lead row together.         *)
Sell(l) ==
    /\ ~Sold(Email[l])
    /\ claims' = claims \cup {[email |-> Email[l], lead |-> l]}
    /\ lead' = [lead EXCEPT ![l].status = "SENT"]
    /\ sales' = [sales EXCEPT ![Email[l]] = @ + 1]

(* The worker routes the lead of the message.  It sells it, or finds its   *)
(* email in the registry, or leaves it UNSENT, or the row is gone or       *)
(* settled already and the handler returns.                                *)
RouteMessage(l) ==
    /\ message[l].status = "PENDING"
    /\ \/ lead[l].status = "UNSENT" /\ Sell(l)
       \/ /\ lead[l].status = "UNSENT" /\ Sold(Email[l])
          /\ lead' = [lead EXCEPT ![l].status = "DUPLICATE"]
          /\ UNCHANGED <<claims, sales>>
       \/ UNCHANGED <<lead, claims, sales>>
    /\ message' = [message EXCEPT ![l] = [status |-> "DONE", at |-> clock]]
    /\ UNCHANGED <<time, worker, faults>>

(* An administrator assigns it; a sold email is answered with an error.    *)
AssignByHand(l) ==
    /\ lead[l].status = "UNSENT"
    /\ Sell(l)
    /\ UNCHANGED <<time, worker, message, faults>>

-----------------------------------------------------------------------------
(* scheduleNightlyMaintenance                                              *)

CheckMarksFirst ==
    /\ clock >= timer /\ ~Running
    /\ timer' = clock + HourTicks
    /\ lastRunDate' = Today
    /\ IF Hour = NightHour /\ lastRunDate # Today
       THEN /\ nights' = [nights EXCEPT ![Tonight] = @ + 1]
            /\ run' = Resting("leads")
       ELSE UNCHANGED <<nights, run>>
    /\ UNCHANGED <<time, data, faults>>

Check ==
    /\ clock >= timer /\ ~Running
    /\ timer' = clock + HourTicks
    /\ IF Hour = NightHour /\ lastRunDate # Today
       THEN /\ lastRunDate' = Today
            /\ nights' = [nights EXCEPT ![Tonight] = @ + 1]
            /\ run' = Resting("leads")
       ELSE UNCHANGED <<lastRunDate, nights, run>>
    /\ UNCHANGED <<time, data, faults>>

RestartChecksAtOnce ==
    /\ faults < MaxFaults
    /\ faults' = faults + 1
    /\ timer' = clock
    /\ lastRunDate' = -1
    /\ run' = Resting("idle")
    /\ UNCHANGED <<time, data, nights>>

(* Deploy, crash or SIGTERM: the closure is lost, and the new timer first  *)
(* fires an hour later.                                                    *)
Restart ==
    /\ faults < MaxFaults
    /\ faults' = faults + 1
    /\ timer' = clock + HourTicks
    /\ lastRunDate' = -1
    /\ run' = Resting("idle")
    /\ UNCHANGED <<time, data, nights>>

-----------------------------------------------------------------------------
(* purgeLeads and purgeOutboxDone: read a page, delete it, stop after a    *)
(* page that was not full.                                                 *)

OldLeads ==
    {l \in Leads : lead[l].status # "none" /\ lead[l].created < clock - LeadRetention}

OldMessages ==
    {l \in Leads : message[l].status = "DONE" /\ message[l].at < clock - OutboxRetention}

(* findMany with take: any PageSize of them, in no stated order.           *)
Pages(rows) ==
    {p \in SUBSET rows :
        Cardinality(p) = IF Cardinality(rows) < PageSize THEN Cardinality(rows)
                                                         ELSE PageSize}

FindLeads ==
    /\ run.step = "leads"
    /\ \E p \in Pages(OldLeads) :
          run' = IF p = {} THEN Resting("outbox")
                           ELSE [step |-> "deleteLeads", page |-> p]
    /\ UNCHANGED <<time, timer, lastRunDate, nights, data, faults>>

After(p, again, next) == Resting(IF Cardinality(p) < PageSize THEN next ELSE again)

Referenced(p) == \E k \in claims : k.lead \in p

DeleteLeadsCascading ==
    /\ run.step = "deleteLeads"
    /\ lead' = [l \in Leads |-> IF l \in run.page THEN NoLead ELSE lead[l]]
    /\ claims' = {k \in claims : k.lead \notin run.page}
    /\ run' = After(run.page, "leads", "outbox")
    /\ UNCHANGED <<time, timer, lastRunDate, nights, message, sales, faults>>

(* A sold row, even one sold since the page was read, refuses the page;    *)
(* the error ends the night's purge, outbox included.                      *)
DeleteLeads ==
    /\ run.step = "deleteLeads"
    /\ IF Referenced(run.page)
       THEN run' = Resting("failed") /\ UNCHANGED lead
       ELSE /\ lead' = [l \in Leads |-> IF l \in run.page THEN NoLead ELSE lead[l]]
            /\ run' = After(run.page, "leads", "outbox")
    /\ UNCHANGED <<time, timer, lastRunDate, nights, claims, message, sales, faults>>

FindMessages ==
    /\ run.step = "outbox"
    /\ \E p \in Pages(OldMessages) :
          run' = IF p = {} THEN Resting("finished")
                           ELSE [step |-> "deleteOutbox", page |-> p]
    /\ UNCHANGED <<time, timer, lastRunDate, nights, data, faults>>

DeleteMessagesOnce ==
    /\ run.step = "deleteOutbox"
    /\ message' = [l \in Leads |-> IF l \in run.page
                                   THEN [status |-> "purged", at |-> 0]
                                   ELSE message[l]]
    /\ run' = Resting("finished")
    /\ UNCHANGED <<time, timer, lastRunDate, nights, lead, claims, sales, faults>>

DeleteMessages ==
    /\ run.step = "deleteOutbox"
    /\ message' = [l \in Leads |-> IF l \in run.page
                                   THEN [status |-> "purged", at |-> 0]
                                   ELSE message[l]]
    /\ run' = After(run.page, "outbox", "finished")
    /\ UNCHANGED <<time, timer, lastRunDate, nights, lead, claims, sales, faults>>

(* A statement fails: the promise rejects, the night's purge is over.      *)
StatementFails ==
    /\ Running
    /\ faults < MaxFaults
    /\ faults' = faults + 1
    /\ run' = Resting("failed")
    /\ UNCHANGED <<time, timer, lastRunDate, nights, data>>

-----------------------------------------------------------------------------
Submission(l) == Capture(l) \/ RouteMessage(l) \/ AssignByHand(l)

Purge == FindLeads \/ DeleteLeads \/ FindMessages \/ DeleteMessages

Next ==
    \/ Tick \/ Check \/ Restart \/ Purge \/ StatementFails
    \/ \E l \in Leads : Submission(l)

Spec == Init /\ [][Next]_vars

-----------------------------------------------------------------------------
TypeOK ==
    /\ setting \in Settings /\ clock \in 0..MaxClock
    /\ timer \in 0..(MaxClock + HourTicks)
    /\ lastRunDate \in Days \cup {-1}
    /\ run.page \subseteq Leads
    /\ run.step \in {"idle", "leads", "deleteLeads", "outbox", "deleteOutbox",
                     "finished", "failed"}
    /\ run.page # {} <=> run.step \in {"deleteLeads", "deleteOutbox"}
    /\ \A l \in Leads : /\ lead[l].status \in {"none", "UNSENT", "SENT", "DUPLICATE"}
                        /\ lead[l].created \in 0..clock
                        /\ message[l].status \in {"none", "PENDING", "DONE", "purged"}
                        /\ message[l].at \in 0..clock
    /\ \A k \in claims : lead[k.lead].status = "SENT"
    /\ faults \in 0..MaxFaults

(* FR-036: an email is sold at most once, however often its leads are      *)
(* purged and it is submitted again (the purge never weakens the registry  *)
(* the guard reads, purge-tasks.ts:10).                                    *)
SoldOnceEver == \A e \in Emails : sales[e] <= 1

(* The hour of the purge of night d, in ticks of local time, and the tick  *)
(* at which it begins where local time is ahead by o.                      *)
NightStart(d) == HourTicks * (DayHours * d + NightHour)
Opens(d, o) == NightStart(d) - o
InNight(d, t) == t + Offset(t) \in NightStart(d)..(NightStart(d) + HourTicks - 1)

(* Clocks are set back from within or after that hour to before its end.   *)
ComesTwice(d) ==
    /\ setting.after < setting.before
    /\ NightStart(d) < setting.change + setting.before
    /\ setting.change + setting.after < NightStart(d) + HourTicks

OneDate(d) ==
    \A t, u \in 0..clock : InNight(d, t) /\ InNight(d, u) => Date(t) = Date(u)

(* The purge runs once a night, restarts included (purge-tasks.ts:67).     *)
(* Only where the clocks are set back and the hour of the purge comes      *)
(* twice may it run twice, and then only if a restart has lost lastRunDate *)
(* or midnight UTC falls into that hour.                                   *)
OncePerNight ==
    \A d \in Nights :
        \/ nights[d] <= 1
        \/ nights[d] = 2 /\ ComesTwice(d) /\ (faults > 0 \/ ~OneDate(d))

(* Where local time is ahead by o, clocks are not changed from the night   *)
(* before d to the night after.                                            *)
Steady(d, o) ==
    \/ o = setting.before /\ Opens(d + 1, o) + HourTicks <= setting.change
    \/ o = setting.after /\ setting.change <= Opens(d, o) - DayTicks

(* The timer drifts and may fire just before and just after the hour of a  *)
(* purge, but then it fires within that hour the next night: an            *)
(* undisturbed worker never skips two nights in a row (purge-tasks.ts:67,  *)
(* "Runs at ~03:00 local time once per day"), unless clocks change or the  *)
(* hour holds midnight UTC, where a run before midnight uses up the date   *)
(* of the next.                                                            *)
NeverTwoNightsSkipped == faults = 0 =>
    \A d \in Nights, o \in {setting.before, setting.after} :
        /\ Steady(d, o)
        /\ HourTicks <= Opens(d, o) /\ Opens(d + 1, o) + HourTicks <= clock
        /\ Date(Opens(d, o)) = Date(Opens(d, o) + HourTicks - 1)
        => nights[d] > 0 \/ nights[d + 1] > 0

(* A purge that reports completion has left nothing older than either      *)
(* retention period, whatever was captured, routed or assigned between its *)
(* pages (spec SC-013).                                                    *)
CompletedPurgeIsThorough ==
    [][run.step # "finished" /\ run'.step = "finished"
          => OldLeads' = {} /\ OldMessages' = {}]_vars

(* SC-013: after the schedule has run, every lead record older than the    *)
(* retention period is gone, unless a statement failed.                    *)
EveryOldLeadPurged ==
    [][Running /\ ~Running' /\ faults' = 0 => OldLeads' = {}]_vars
=============================================================================
