------------------------------ MODULE Routing ------------------------------
(***************************************************************************)
(* Assigning leads to brokers: the worker's routing transaction            *)
(* (route-lead.use-case.ts), the administrator's manual assignment         *)
(* (manually-assign-lead.use-case.ts) and retry (leads.controller.ts), all *)
(* running concurrently against one MySQL database.                        *)
(*                                                                         *)
(* The database is modelled as InnoDB at REPEATABLE READ runs it: a        *)
(* transaction's plain reads come from the snapshot taken by its first     *)
(* read; UPDATE and INSERT act on the latest committed rows, lock them     *)
(* until the transaction ends, and wait for other transactions' locks.     *)
(* The variables hold the committed rows; what a transaction has written   *)
(* and not committed is in its tx record and is applied by its commit.     *)
(* One step is one statement, or a run of statements nobody can come       *)
(* between.                                                                *)
(***************************************************************************)
EXTENDS SelectBroker, FiniteSets

CONSTANTS
    Leads,        \* lead ids
    Emails,       \* normalized emails
    EmailOf,      \* [Leads -> Emails]
    Brokers,      \* broker ids
    Configs,      \* the configurations a broker may be given
    Workers,      \* outbox consumers: lead-worker, INLINE_WORKER
    Assigners,    \* administrators' POST /leads/:id/assign requests
    Retriers,     \* administrators' POST /leads/:id/retry requests
    MaxSelectionAttempts,
    MaxMessages,  \* bound: outbox messages per lead
    Settings,     \* deployments and days: who runs, what the brokers may be given
    None          \* no lead

Procs == Workers \cup Assigners \cup Retriers

(* The columns of Broker and DistributionBroker that routing reads; member *)
(* says whether the broker has a DistributionBroker row at all.            *)
BrokerConfig ==
    [member : BOOLEAN, isActive : BOOLEAN, isActiveInDistribution : BOOLEAN,
     dailyCap : Nat, percentage : Nat, openingMinutes : Nat,
     closingMinutes : Nat, workingDays : SUBSET (1..7)]

ASSUME RoutingAssumption ==
    /\ IsFiniteSet(Leads)
    /\ EmailOf \in [Leads -> Emails]
    /\ Brokers \subseteq Nat \ {0}
    /\ Configs \subseteq BrokerConfig /\ Configs # {}
    /\ Workers \cap Assigners = {}
    /\ Workers \cap Retriers = {}
    /\ Assigners \cap Retriers = {}
    /\ MaxSelectionAttempts \in Nat \ {0}
    /\ MaxMessages \in Nat \ {0}
    /\ None \notin Leads

(* crew: the processes and requests there are at all (INLINE_WORKER or     *)
(* lead-workers, people at the admin pages); configs: what each broker's   *)
(* configuration may be changed to.                                        *)
ASSUME SettingsAssumption ==
    \A s \in Settings :
        /\ s.crew \subseteq Procs
        /\ \A b \in Brokers : s.configs[b] \subseteq Configs

VARIABLES
    setting,   \* which of Settings: never changes
    lead,      \* leads: [Leads -> [status, broker, type, reason]]
    claims,    \* assigned_emails: set of [email, broker, lead]
    counter,   \* broker_daily_counters of today: [Brokers -> [exists, sent, capAtTime]]
    config,    \* brokers and distribution_brokers: [Brokers -> Configs]
    pending,   \* outbox messages not DONE: set of <<lead, number>>
    posted,    \* [Leads -> number of messages ever created for the lead]
    tx         \* [Procs -> the transaction the process is in]

vars == <<setting, lead, claims, counter, config, pending, posted, tx>>

-----------------------------------------------------------------------------
(* NEW: not captured yet.  No code writes FAILED; the guards know it.      *)
Statuses == {"NEW", "UNSENT", "SENT", "DUPLICATE", "FAILED"}
Reasons == {"none", "NO_ACTIVE_BROKERS", "NO_ELIGIBLE_BROKER",
            "CAP_CONTENTION_EXHAUSTED", "DUPLICATE_EMAIL"}

LeadRow == [status : Statuses, broker : Brokers \cup {0},
            type : {"none", "AUTO", "MANUAL"}, reason : Reasons]
ClaimRow == [email : Emails, broker : Brokers, lead : Leads]
CounterRow == [exists : BOOLEAN, sent : Nat, capAtTime : Nat]

Steps == {"idle", "select", "slot", "insert", "email", "sent", "duplicate", "unsent",
          "ack", "requeue"}

(* What the transaction's snapshot shows of the tables it reads.           *)
Snapshot == [config : [Brokers -> Configs], sent : [Brokers -> Nat],
             claims : SUBSET ClaimRow, total : Nat]

Tx == [step : Steps,
       lead : Leads \cup {None},
       msg : Nat,                      \* number of the outbox message
       broker : Brokers \cup {0},      \* broker selected or asked for
       prior : Brokers \cup {0},       \* owner of a taken email
       reason : Reasons,               \* why nobody was selected
       fresh : BOOLEAN,                \* has inserted its AssignedEmail row
       losses : SUBSET Brokers,        \* capLosses
       locks : SUBSET Brokers,         \* counter rows it holds locked
       gaps : SUBSET Brokers,          \* absent rows whose gap it holds locked
       snap : Snapshot]

NoRow == [exists |-> FALSE, sent |-> 0, capAtTime |-> 0]

EmptySnapshot ==
    [config |-> [b \in Brokers |-> CHOOSE c \in Configs : TRUE],
     sent |-> [b \in Brokers |-> 0], claims |-> {}, total |-> 0]

Idle ==
    [step |-> "idle", lead |-> None, msg |-> 0, broker |-> 0, prior |-> 0,
     reason |-> "none", fresh |-> FALSE, losses |-> {}, locks |-> {},
     gaps |-> {}, snap |-> EmptySnapshot]

Init ==
    /\ setting \in Settings
    /\ lead = [l \in Leads |-> [status |-> "NEW", broker |-> 0,
                                type |-> "none", reason |-> "none"]]
    /\ claims = {}
    /\ counter = [b \in Brokers |-> NoRow]
    /\ config \in {c \in [Brokers -> Configs] : \A b \in Brokers : c[b] \in setting.configs[b]}
    /\ pending = {}
    /\ posted = [l \in Leads |-> 0]
    /\ tx = [p \in Procs |-> Idle]

-----------------------------------------------------------------------------
(* Transactions.                                                           *)

(* The snapshot InnoDB takes at the first read, findById in both use cases.*)
TakeSnapshot ==
    [config |-> config,
     sent |-> [b \in Brokers |-> counter[b].sent],
     claims |-> claims,
     total |-> Cardinality({l \in Leads : lead[l].status = "SENT"})]

(* Rows another transaction has locked: a counter row it has updated, tried*)
(* to update or inserted, an email it has inserted and not committed.      *)
CounterLocked(p, b) == \E q \in Procs \ {p} : b \in tx[q].locks

HoldsEmail(q, e) == tx[q].fresh /\ EmailOf[tx[q].lead] = e

EmailLocked(p, e) == \E q \in Procs \ {p} : HoldsEmail(q, e)

(* End of a transaction without a trace: the code throws, InnoDB picks it  *)
(* as deadlock victim, it waits too long for a lock, the 15 s transaction  *)
(* limit passes, or the process dies.  The outbox message is not DONE and  *)
(* is delivered again.  In step "ack" the transaction has committed and    *)
(* the crash only loses the DONE update.                                   *)
AbortMarksDone(p) ==     \* mutant: a failed handler still marks the message DONE
    /\ tx[p].step # "idle"
    /\ pending' = pending \ {<<tx[p].lead, tx[p].msg>>}
    /\ tx' = [tx EXCEPT ![p] = Idle]
    /\ UNCHANGED <<setting, lead, claims, counter, config, posted>>

AbortKeepsClaim(p) ==    \* mutant: the AssignedEmail insert runs outside the transaction
    /\ tx[p].step # "idle"
    /\ claims' = claims \cup
          (IF tx[p].fresh THEN {[email |-> EmailOf[tx[p].lead], broker |-> tx[p].broker,
                                lead |-> tx[p].lead]} ELSE {})
    /\ tx' = [tx EXCEPT ![p] = Idle]
    /\ UNCHANGED <<setting, lead, counter, config, pending, posted>>

AbortKeepsSlot(p) ==     \* mutant: the counter is incremented outside the transaction
    /\ tx[p].step # "idle"
    /\ tx' = [tx EXCEPT ![p] = Idle]
    /\ counter' = [b \in Brokers |-> IF tx[p].step = "email" /\ b = tx[p].broker
                                     THEN [counter[b] EXCEPT !.exists = TRUE, !.sent = @ + 1]
                                     ELSE counter[b]]
    /\ UNCHANGED <<setting, lead, claims, config, pending, posted>>

Abort(p) ==
    /\ tx[p].step # "idle"
    /\ tx' = [tx EXCEPT ![p] = Idle]
    /\ UNCHANGED <<setting, lead, claims, counter, config, pending, posted>>

-----------------------------------------------------------------------------
(* Capture: the lead and its outbox message in one transaction.            *)

Post(l) ==
    /\ pending' = pending \cup {<<l, posted[l] + 1>>}
    /\ posted' = [posted EXCEPT ![l] = @ + 1]

Capture(l) ==
    /\ lead[l].status = "NEW"
    /\ lead' = [lead EXCEPT ![l].status = "UNSENT"]
    /\ Post(l)
    /\ UNCHANGED <<setting, claims, counter, config, tx>>

(* Retry reads the lead and, with no transaction around the two, creates a *)
(* new message.                                                            *)
ReadForRetry(p, l) ==
    /\ tx[p].step = "idle"
    /\ lead[l].status \in {"UNSENT", "FAILED"}
    /\ tx' = [tx EXCEPT ![p] = [@ EXCEPT !.step = "requeue", !.lead = l]]
    /\ UNCHANGED <<setting, lead, claims, counter, config, pending, posted>>

Requeue(p) ==
    /\ tx[p].step = "requeue"
    /\ posted[tx[p].lead] < MaxMessages
    /\ Post(tx[p].lead)
    /\ tx' = [tx EXCEPT ![p] = Idle]
    /\ UNCHANGED <<setting, lead, claims, counter, config>>

(* PATCH /brokers/:id and PUT /distribution/brokers.                       *)
Reconfigure(b) ==
    /\ \E c \in setting.configs[b] : config' = [config EXCEPT ![b] = c]
    /\ UNCHANGED <<setting, lead, claims, counter, pending, posted, tx>>

-----------------------------------------------------------------------------
(* The routing transaction.  A worker starts it for a message not yet DONE,*)
(* possibly one it or another worker has handled before.                   *)

BeginRoutingUngated(p, m) ==     \* mutant: no terminal-status gate on redelivery
    /\ tx[p].step = "idle"
    /\ tx' = [tx EXCEPT ![p] = [Idle EXCEPT !.lead = m[1], !.msg = m[2],
                                            !.snap = TakeSnapshot, !.step = "select"]]
    /\ UNCHANGED <<setting, lead, claims, counter, config, pending, posted>>

BeginRouting(p, m) ==
    /\ tx[p].step = "idle"
    /\ tx' = [tx EXCEPT ![p] =
                [Idle EXCEPT !.lead = m[1], !.msg = m[2], !.snap = TakeSnapshot,
                             !.step = IF lead[m[1]].status \in {"SENT", "DUPLICATE"}
                                      THEN "ack" ELSE "select"]]
    /\ UNCHANGED <<setting, lead, claims, counter, config, pending, posted>>

(* findCandidates without the brokers already lost to a cap race: every    *)
(* read is a snapshot read, the counters included.                         *)
Candidates(t) ==
    {[id |-> b,
      isActive |-> t.snap.config[b].isActive,
      isActiveInDistribution |-> t.snap.config[b].isActiveInDistribution,
      dailyCap |-> t.snap.config[b].dailyCap,
      percentage |-> t.snap.config[b].percentage,
      openingMinutes |-> t.snap.config[b].openingMinutes,
      closingMinutes |-> t.snap.config[b].closingMinutes,
      workingDays |-> t.snap.config[b].workingDays,
      isoWeekday |-> 1, minute |-> 720,
      sentToday |-> t.snap.sent[b]] :
        b \in {x \in Brokers : t.snap.config[x].member} \ t.losses}

Select(p) ==
    LET t == tx[p]
        winners == Selected(Candidates(t), t.snap.total)
    IN  /\ t.step = "select"
        /\ \/ \E w \in winners :
                 tx' = [tx EXCEPT ![p] = [@ EXCEPT !.step = "slot", !.broker = w.id]]
           \/ /\ winners = {}
              /\ tx' = [tx EXCEPT ![p] =
                         [@ EXCEPT !.step = "unsent",
                                   !.reason = IF t.losses # {}
                                              THEN "CAP_CONTENTION_EXHAUSTED"
                                              ELSE NoWinnerReason(Candidates(t))]]
        /\ UNCHANGED <<setting, lead, claims, counter, config, pending, posted>>

(* The manual assignment starts with the same read of the lead and takes   *)
(* the broker it was asked for, eligible or not.                           *)
BeginManual(p, l, b) ==
    /\ tx[p].step = "idle"
    /\ lead[l].status \notin {"NEW", "SENT", "DUPLICATE"}
    /\ tx' = [tx EXCEPT ![p] = [Idle EXCEPT !.lead = l, !.broker = b,
                                            !.snap = TakeSnapshot, !.step = "slot"]]
    /\ UNCHANGED <<setting, lead, claims, counter, config, pending, posted>>

-----------------------------------------------------------------------------
(* tryClaimSlot: the conditional UPDATE, and when it matches no row because*)
(* there is none, INSERT IGNORE and the UPDATE again.  A row that is found,*)
(* with room or without, and a row that is inserted stay locked until the  *)
(* transaction ends.  The UPDATE that finds no row locks the gap it looked *)
(* in: others may lock the same gap, but no one else can insert into it.   *)

Cap(t) == t.snap.config[t.broker].dailyCap

SlotFreeWhenUnlimited(row, cap) ==     \* mutant: the new cap 0 opens a capped counter
    \/ row.capAtTime = 0
    \/ cap = 0
    \/ row.sent < cap

SlotFree(row, cap) ==
    \/ row.capAtTime = 0
    \/ row.sent < cap

LoseSlotFallsBack(p) ==     \* mutant: a capped broker's request goes to another broker
    \E b \in Brokers \ tx[p].locks :
        tx' = [tx EXCEPT ![p] = [@ EXCEPT !.locks = @ \cup {tx[p].broker}, !.broker = b]]

(* A third loss in a row ends the routing transaction, an earlier one      *)
(* sends it back to the selection; the manual assignment throws            *)
(* BROKER_CAPPED.                                                          *)
LoseSlot(p) ==
    LET t == tx[p]
        lost == t.losses \cup {t.broker}
        again == Cardinality(lost) < MaxSelectionAttempts
    IN  \/ /\ p \in Workers
           /\ tx' = [tx EXCEPT ![p] =
                      [@ EXCEPT !.locks = t.locks \cup {t.broker}, !.losses = lost, !.broker = 0,
                                !.step = IF again THEN "select" ELSE "unsent",
                                !.reason = IF again THEN t.reason
                                           ELSE "CAP_CONTENTION_EXHAUSTED"]]
        \/ /\ p \in Assigners
           /\ tx' = [tx EXCEPT ![p] = Idle]

(* The absent row b lies in a gap between rows of this and of earlier days,*)
(* which may hold other brokers' absent rows as well.                      *)
Gaps(b) ==
    LET absent == {x \in Brokers : ~counter[x].exists /\ \A q \in Procs : x \notin tx[q].locks}
    IN  {g \in SUBSET absent : b \in g}

ClaimSlot(p) ==
    LET t == tx[p]
        row == counter[t.broker]
    IN  /\ t.step = "slot"
        /\ ~CounterLocked(p, t.broker)
        /\ \/ /\ row.exists /\ SlotFree(row, Cap(t))
              /\ tx' = [tx EXCEPT ![p] = [@ EXCEPT !.step = "email",
                                                   !.locks = t.locks \cup {t.broker}]]
           \/ row.exists /\ ~SlotFree(row, Cap(t)) /\ LoseSlot(p)
           \/ /\ ~row.exists
              /\ \E g \in Gaps(t.broker) :
                    tx' = [tx EXCEPT ![p] = [@ EXCEPT !.step = "insert", !.gaps = g]]
        /\ UNCHANGED <<setting, lead, claims, counter, config, pending, posted>>

InsertCounterBeside(p) ==     \* mutant: the row is created with no lock on the gap
    /\ tx[p].step = "insert"
    /\ tx' = [tx EXCEPT ![p] = [@ EXCEPT !.step = "email", !.locks = @ \cup {tx[p].broker}]]
    /\ UNCHANGED <<setting, lead, claims, counter, config, pending, posted>>

(* INSERT IGNORE waits for everyone else who has locked the gap; the UPDATE*)
(* after it finds the row just inserted, which has room.                   *)
InsertCounter(p) ==
    LET b == tx[p].broker
    IN  /\ tx[p].step = "insert"
        /\ \A q \in Procs \ {p} : b \notin tx[q].gaps
        /\ tx' = [tx EXCEPT ![p] = [@ EXCEPT !.step = "email",
                                         !.locks = tx[p].locks \cup {b}]]
        /\ UNCHANGED <<setting, lead, claims, counter, config, pending, posted>>

(* The counter row after this transaction's increment.                     *)
CountedRow(t) ==
    [exists |-> TRUE, sent |-> counter[t.broker].sent + 1,
     capAtTime |-> IF counter[t.broker].exists THEN counter[t.broker].capAtTime
                   ELSE Cap(t)]

-----------------------------------------------------------------------------
(* EmailGuard.claim: insert, and on a unique violation look for the prior  *)
(* row, by email and then by lead, in the snapshot.                        *)

OwnClaim(t) == [email |-> EmailOf[t.lead], broker |-> t.broker, lead |-> t.lead]

UniqueViolationInSnapshot(t) ==     \* mutant: read-before-write duplicate check
    \E c \in t.snap.claims : c.email = EmailOf[t.lead] \/ c.lead = t.lead

UniqueViolation(t) ==
    \E c \in claims : c.email = EmailOf[t.lead] \/ c.lead = t.lead

PriorByEmail(t) == {c \in t.snap.claims : c.email = EmailOf[t.lead]}
PriorByLead(t) == {c \in t.snap.claims : c.lead = t.lead}

(* The rows that make the outcome 'taken': another lead's row for the      *)
(* email, or, with none for the email, a row for this lead.                *)
TakenBy(t) ==
    IF PriorByEmail(t) # {} THEN {c \in PriorByEmail(t) : c.lead # t.lead}
                            ELSE PriorByLead(t)

ClaimEmail(p) ==
    LET t == tx[p]
    IN  /\ t.step = "email"
        /\ ~EmailLocked(p, EmailOf[t.lead])
        /\ \/ /\ ~UniqueViolation(t)
              /\ tx' = [tx EXCEPT ![p] = [@ EXCEPT !.step = "sent", !.fresh = TRUE]]
           \/ /\ UniqueViolation(t)
              /\ \E c \in PriorByEmail(t) : c.lead = t.lead
              /\ tx' = [tx EXCEPT ![p] = [@ EXCEPT !.step = "sent"]]
           \/ /\ UniqueViolation(t)
              /\ p \in Workers
              /\ \E c \in TakenBy(t) :
                    tx' = [tx EXCEPT ![p] = [@ EXCEPT !.step = "duplicate",
                                                  !.prior = c.broker]]
           \/ /\ UniqueViolation(t)
              /\ p \in Assigners /\ TakenBy(t) # {}          \* DUPLICATE_LEAD
              /\ tx' = [tx EXCEPT ![p] = Idle]
           \/ /\ UniqueViolation(t)
              /\ PriorByEmail(t) = {} /\ PriorByLead(t) = {} \* unreadable: throw
              /\ tx' = [tx EXCEPT ![p] = Idle]
        /\ UNCHANGED <<setting, lead, claims, counter, config, pending, posted>>

-----------------------------------------------------------------------------
(* The last statement of each path and the COMMIT that follows it.  A      *)
(* worker goes on to mark the message DONE.                                *)

Finish(p) ==
    tx' = [tx EXCEPT ![p] =
             IF p \in Workers
             THEN [Idle EXCEPT !.step = "ack", !.lead = tx[p].lead, !.msg = tx[p].msg]
             ELSE Idle]

CommitSent(p) ==
    LET t == tx[p]
    IN  /\ t.step = "sent"
        /\ lead' = [lead EXCEPT ![t.lead] =
                      [status |-> "SENT", broker |-> t.broker, reason |-> "none",
                       type |-> IF p \in Workers THEN "AUTO" ELSE "MANUAL"]]
        /\ claims' = claims \cup (IF t.fresh THEN {OwnClaim(t)} ELSE {})
        /\ counter' = [counter EXCEPT ![t.broker] = CountedRow(t)]
        /\ Finish(p)
        /\ UNCHANGED <<setting, config, pending, posted>>

CommitDuplicateOfWinner(p) ==     \* mutant: attributed to the selected broker
    LET t == tx[p]
    IN  /\ t.step = "duplicate"
        /\ lead' = [lead EXCEPT ![t.lead] =
                      [status |-> "DUPLICATE", broker |-> t.broker, type |-> "none",
                       reason |-> "DUPLICATE_EMAIL"]]
        /\ counter' = [counter EXCEPT ![t.broker] = CountedRow(t)]
        /\ Finish(p)
        /\ UNCHANGED <<setting, claims, config, pending, posted>>

(* markDuplicate does not throw: the transaction commits, slot included.   *)
CommitDuplicate(p) ==
    LET t == tx[p]
    IN  /\ t.step = "duplicate"
        /\ lead' = [lead EXCEPT ![t.lead] =
                      [status |-> "DUPLICATE", broker |-> t.prior, type |-> "none",
                       reason |-> "DUPLICATE_EMAIL"]]
        /\ counter' = [counter EXCEPT ![t.broker] = CountedRow(t)]
        /\ Finish(p)
        /\ UNCHANGED <<setting, claims, config, pending, posted>>

(* markUnsentReason sets the status whatever it is by now.                 *)
CommitUnsent(p) ==
    LET t == tx[p]
    IN  /\ t.step = "unsent"
        /\ lead' = [lead EXCEPT ![t.lead] =
                      [@ EXCEPT !.status = "UNSENT", !.reason = t.reason]]
        /\ Finish(p)
        /\ UNCHANGED <<setting, claims, counter, config, pending, posted>>

(* The consumer's DONE update, after the handler has returned.             *)
Acknowledge(p) ==
    /\ tx[p].step = "ack"
    /\ pending' = pending \ {<<tx[p].lead, tx[p].msg>>}
    /\ tx' = [tx EXCEPT ![p] = Idle]
    /\ UNCHANGED <<setting, lead, claims, counter, config, posted>>

-----------------------------------------------------------------------------
WorkerStep(p) ==
    \/ \E m \in pending : BeginRouting(p, m)
    \/ Select(p)
    \/ CommitDuplicate(p)
    \/ CommitUnsent(p)
    \/ Acknowledge(p)

AssignStep(p) == \E l \in Leads, b \in Brokers : BeginManual(p, l, b)

ClaimStep(p) == ClaimSlot(p) \/ InsertCounter(p) \/ ClaimEmail(p) \/ CommitSent(p)

RetryStep(p) == (\E l \in Leads : ReadForRetry(p, l)) \/ Requeue(p)

Next ==
    \/ \E l \in Leads : Capture(l)
    \/ \E b \in Brokers : Reconfigure(b)
    \/ \E p \in Workers \cap setting.crew : WorkerStep(p)
    \/ \E p \in Assigners \cap setting.crew : AssignStep(p)
    \/ \E p \in (Workers \cup Assigners) \cap setting.crew : ClaimStep(p)
    \/ \E p \in Retriers \cap setting.crew : RetryStep(p)
    \/ \E p \in Procs : Abort(p)

Spec == Init /\ [][Next]_vars

-----------------------------------------------------------------------------
TypeOK ==
    /\ setting \in Settings
    /\ lead \in [Leads -> LeadRow]
    /\ claims \in SUBSET ClaimRow
    /\ counter \in [Brokers -> CounterRow]
    /\ config \in [Brokers -> Configs]
    /\ pending \in SUBSET (Leads \X Nat)
    /\ posted \in [Leads -> Nat]
    /\ tx \in [Procs -> Tx]

(* INV-3: however workers and administrators interleave, at most one lead  *)
(* of an email is ever SENT, and the permanent registry names that lead    *)
(* (prisma-email-guard.ts: the insert collision is the detection).         *)
OneSalePerEmail ==
    /\ \A l, k \in Leads :
          /\ lead[l].status = "SENT"
          /\ lead[k].status = "SENT"
          /\ EmailOf[l] = EmailOf[k]
          => l = k
    /\ \A l \in Leads : lead[l].status = "SENT" => \E c \in claims : c.lead = l

(* A lead is a DUPLICATE only of an email that was sold through another    *)
(* lead, and it shows the broker that lead was sold to: no visitor is      *)
(* turned away by a sale that was rolled back.                             *)
DuplicateNamesTheSale ==
    \A l \in Leads : lead[l].status = "DUPLICATE" =>
        \E c \in claims : /\ c.email = EmailOf[l]
                          /\ c.lead # l
                          /\ c.broker = lead[l].broker

(* A broker is never sold a lead its counter does not count: the emails    *)
(* registered to it are at most the slots taken from it.                   *)
EverySaleTookASlot ==
    \A b \in Brokers : Cardinality({c \in claims : c.broker = b}) <= counter[b].sent

(* INV-4 at the claim: a transaction that has taken a slot of a broker     *)
(* whose counter is under a cap will not push it past the cap it has read  *)
(* when it commits, whatever the others do in between (prisma-cap-gate.ts: *)
(* the conditional UPDATE keeps the row locked until then).                *)
SlotWithinCap ==
    \A p \in Procs :
        LET row == counter[tx[p].broker]
        IN  /\ tx[p].step \in {"email", "sent", "duplicate"}
            /\ Cap(tx[p]) > 0
            /\ row.exists => row.capAtTime > 0
            => row.sent < Cap(tx[p])

(* INV-4 over the day, whatever the administrator makes of the caps: a     *)
(* counter that began the day under a cap stays within the largest cap     *)
(* given.  One that began it unlimited (capAtTime 0) is under no cap for   *)
(* the rest of the day, and one that is made unlimited later is closed     *)
(* rather than opened (prisma-cap-gate.ts:27 tests sentCount < cap = 0).   *)
CapNeverExceeded ==
    \A b \in Brokers : counter[b].capAtTime > 0 =>
        \E c \in Configs : counter[b].sent <= c.dailyCap

(* INV-5: a captured lead nobody has decided on has a routing message that *)
(* is still to be delivered: neither a crash nor a retry loses it.         *)
NoLeadForgotten ==
    \A l \in Leads :
        lead[l].status = "UNSENT" /\ lead[l].reason = "none" =>
            \E m \in pending : m[1] = l

(* p waits in tryClaimSlot for q: for the counter row q has locked, or to  *)
(* insert a row into a gap q has locked.                                   *)
WaitsForCounter(p, q) ==
    /\ p # q
    /\ \/ tx[p].step = "slot" /\ tx[p].broker \in tx[q].locks
       \/ tx[p].step = "insert" /\ tx[p].broker \in tx[q].gaps

(* Who may wait in a circle for counters, where InnoDB must pick a victim: *)
(* a transaction somebody waits for while it waits itself has lost a cap   *)
(* race (route-lead.use-case.ts:122: the loser keeps its row lock and goes *)
(* on to the next broker), or both make their brokers' first claims of the *)
(* day, where two compatible gap locks keep each other's INSERT out        *)
(* (prisma-cap-gate.ts:30).  A claim of an existing row by a transaction   *)
(* that has lost none keeps nobody waiting.                                *)
WhoMayDeadlock ==
    \A p, q, r \in Procs : WaitsForCounter(p, q) /\ WaitsForCounter(q, r) =>
        tx[q].losses # {} \/ (tx[p].step = "insert" /\ tx[q].step = "insert")

(* The lead in the terms of LeadSale.                                      *)
Verdict(l) ==
    CASE lead[l].status = "NEW" -> "new"
      [] lead[l].status = "SENT" -> "sold"
      [] lead[l].status = "DUPLICATE" -> "duplicate"
      [] OTHER -> "open"

Sale == INSTANCE LeadSale
        WITH sales <- claims,
             slots <- [b \in Brokers |-> counter[b].sent],
             verdict <- [l \in Leads |-> Verdict(l)]

(* However transactions, crashes and redeliveries interleave, each one is  *)
(* an indivisible decision or no change at all: one slot per decision, one *)
(* sale per e-mail, and a refusal only of an e-mail already sold.          *)
ImplementsLeadSale == Sale!Spec

(* INLINE_WORKER off, one lead-worker, and nobody assigns by hand at the   *)
(* same time: requests for a retry may come at any time.                   *)
OneDecider == \A p, q \in setting.crew \cap (Workers \cup Assigners) : p = q

(* FR-021 for one consumer and no manual assignment: every slot taken from *)
(* a counter belongs to one settled lead, so redelivery, retry and crashes *)
(* between the commit and the DONE update never count a lead twice.  A     *)
(* duplicate settles with the slot it took before its email was refused    *)
(* (route-lead.use-case.ts:143 returns, and the transaction commits).      *)
SlotsTaken == {s \in Brokers \X (1..Cardinality(Leads) * MaxMessages) :
                  s[2] <= counter[s[1]].sent}

OneSlotPerSettledLead ==
    OneDecider =>
        Cardinality(SlotsTaken) =
            Cardinality({l \in Leads : lead[l].status \in {"SENT", "DUPLICATE"}})

(* route-lead.use-case.ts:41: "A duplicate collision aborts the surrounding*)
(* transaction, so a burned slot rolls back with it": no counter counts a  *)
(* slot beyond the leads sold.  It does not: line 143 returns.             *)
SlotsAreSales ==
    Cardinality(SlotsTaken) <= Cardinality({l \in Leads : lead[l].status = "SENT"})

(* data-model.md:203: "SENT is terminal", and the broker stays the one it  *)
(* was sold to.                                                            *)
SaleStands(l) == lead[l].status = "SENT" => lead'[l] = lead[l]

(* Not so where somebody assigns by hand beside a consumer:                *)
(* prisma-lead.repository.ts:80 writes UNSENT over any status.             *)
SentIsTerminal == [][\A l \in Leads : SaleStands(l)]_vars

(* One consumer keeps it, whatever crashes, redeliveries, retries and      *)
(* changes of the configuration come between.                              *)
SentStaysSold == [][OneDecider => \A l \in Leads : SaleStands(l)]_vars

(* The lead row and the permanent registry agree on who bought the lead,   *)
(* when one consumer routes: prisma-email-guard.ts:47 answers "claimed" for*)
(* the lead's own email whoever the broker is, so this rests on the        *)
(* terminal-status gate before it.                                         *)
SoldToRegisteredBroker ==
    OneDecider =>
        \A l \in Leads : lead[l].status = "SENT" =>
            \E c \in claims : c.lead = l /\ c.broker = lead[l].broker
=============================================================================
