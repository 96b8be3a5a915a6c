------------------------------ MODULE Delivery ------------------------------
(***************************************************************************)
(* The life of a lead through the outbox: capture writes the lead and its  *)
(* first message in one transaction, a consumer's handler decides it in    *)
(* another, the administrator assigns it by hand or retries it with a new  *)
(* message, and dead messages are replayed.  Outbox says what happens to   *)
(* the messages; this module composes it with what they carry.  The inside *)
(* of the routing transaction is Routing's: here it is one step.           *)
(***************************************************************************)
EXTENDS Outbox

CONSTANTS
    Leads,      \* leads a visitor may submit
    Retriers,   \* concurrent retry requests
    NoLead

ASSUME DeliveryAssumption == NoLead \notin Leads

VARIABLES
    lead,       \* [Leads -> "NEW" before the capture, "UNSENT" until a
                \*  transaction has given a verdict, then "SETTLED" (SENT
                \*  or DUPLICATE) or "REFUSED" (UNSENT with a reason)]
    carries,    \* [Messages -> the lead in the message's payload, or none]
    routed,     \* consumers whose handler has committed its transaction
    retry       \* [Retriers -> the lead read as UNSENT, or none]

leads == <<lead, carries, routed, retry>>
deliveryVars == <<vars, leads>>

DeliveryInit ==
    /\ Init
    /\ lead = [l \in Leads |-> "NEW"]
    /\ carries = [m \in Messages |-> NoLead]
    /\ routed = {}
    /\ retry = [r \in Retriers |-> NoLead]

-----------------------------------------------------------------------------
PostFor(l, m) == Post(m) /\ carries' = [carries EXCEPT ![m] = l]

CaptureLeadOnly(l) ==     \* mutant: the lead is committed before its message
    /\ lead[l] = "NEW"
    /\ lead' = [lead EXCEPT ![l] = "UNSENT"]
    /\ \/ \E m \in Messages : PostFor(l, m)
       \/ UNCHANGED <<vars, carries>>
    /\ UNCHANGED <<routed, retry>>

(* CaptureLeadUseCase: lead and message in one transaction (INV-5).        *)
Capture(l) ==
    /\ lead[l] = "NEW"
    /\ lead' = [lead EXCEPT ![l] = "UNSENT"]
    /\ \E m \in Messages : PostFor(l, m)
    /\ UNCHANGED <<routed, retry>>

(* The routing transaction of the handler: settled leads are skipped, the  *)
(* others get a verdict.                                                   *)
Route(c) ==
    LET l == carries[Current(c)]
    IN  /\ consumer[c].step = "handle"
        /\ c \notin routed
        /\ routed' = routed \cup {c}
        /\ IF lead[l] = "SETTLED"
           THEN UNCHANGED lead
           ELSE \E s \in {"SETTLED", "REFUSED"} : lead' = [lead EXCEPT ![l] = s]
        /\ UNCHANGED <<vars, carries, retry>>

(* The handler returns once it has committed; it may throw before, or when *)
(* the answer to its COMMIT is lost.                                       *)
HandlerEnds(c) ==
    /\ \/ c \in routed /\ HandlerReturns(c)
       \/ HandlerThrows(c)
    /\ routed' = routed \ {c}
    /\ UNCHANGED <<lead, carries, retry>>

CrashHandler(c) == Crash(c) /\ routed' = routed \ {c} /\ UNCHANGED <<lead, carries, retry>>

(* POST /leads/:id/assign, by hand.                                        *)
Assign(l) ==
    /\ lead[l] \in {"UNSENT", "REFUSED"}
    /\ lead' = [lead EXCEPT ![l] = "SETTLED"]
    /\ UNCHANGED <<vars, carries, routed, retry>>

(* POST /leads/:id/retry: the check and the new message are two queries.   *)
ReadForRetry(r, l) ==
    /\ retry[r] = NoLead
    /\ lead[l] \in {"UNSENT", "REFUSED"}
    /\ retry' = [retry EXCEPT ![r] = l]
    /\ UNCHANGED <<vars, lead, carries, routed>>

Retry(r) ==
    /\ retry[r] # NoLead
    /\ \E m \in Messages : PostFor(retry[r], m)
    /\ retry' = [retry EXCEPT ![r] = NoLead]
    /\ UNCHANGED <<lead, routed>>

-----------------------------------------------------------------------------
Deliver(c) ==
    \/ Route(c)
    \/ HandlerEnds(c)
    \/ /\ Lock(c) \/ Claim(c) \/ ReadMessage(c) \/ MarkDone(c) \/ MarkFailed(c)
       /\ UNCHANGED leads

Consume(c) ==
    \/ Deliver(c)
    \/ CrashHandler(c)
    \/ (Reap(c) \/ Restart(c) \/ DatabaseError(c) \/ DoneError(c)) /\ UNCHANGED leads

TimePasses(m) == (Due(m) \/ Age(m) \/ Stall(m)) /\ UNCHANGED leads

ReplayStep(a) ==
    /\ Replay(a) \/ \E m \in Messages : ReadForReplay(a, m)
    /\ UNCHANGED leads

RetryStep(r) == Retry(r) \/ \E l \in Leads : ReadForRetry(r, l)

DeliveryNext ==
    \/ \E l \in Leads : Capture(l) \/ Assign(l)
    \/ \E c \in Consumers : Consume(c)
    \/ \E m \in Messages : TimePasses(m)
    \/ \E a \in Admins : ReplayStep(a)
    \/ \E r \in Retriers : RetryStep(r)

DeliverySpec == DeliveryInit /\ [][DeliveryNext]_deliveryVars

(* The timers of a live consumer keep firing, the routing transaction ends *)
(* (15 s limit), the process manager restarts a dead worker, time passes,  *)
(* and an accepted replay request runs to its end.  Nobody has to assign   *)
(* or to retry.                                                            *)
DeliveryFairness ==
    /\ \A c \in Consumers : /\ WF_deliveryVars(Deliver(c))
                            /\ WF_deliveryVars(Reap(c) /\ UNCHANGED leads)
                            /\ WF_deliveryVars(Restart(c) /\ UNCHANGED leads)
    /\ \A m \in Messages : /\ WF_deliveryVars(Due(m) /\ UNCHANGED leads)
                           /\ WF_deliveryVars(Age(m) /\ UNCHANGED leads)
    /\ \A a \in Admins : WF_deliveryVars(Replay(a) /\ UNCHANGED leads)

FairDeliverySpec == DeliverySpec /\ DeliveryFairness

-----------------------------------------------------------------------------
Decided(l) == lead[l] \in {"SETTLED", "REFUSED"}

MessagesOf(l) == {m \in Messages : carries[m] = l}

(* As long as no consumer stalls, the outbox is a durable queue: a crash,  *)
(* an error or a reaped claim never takes a settled message out of its     *)
(* state, and every queued one is settled in the end (FR-022).             *)
ImplementsQueue == Queue!Spec

(* A lead without a verdict is never stranded: it has a message that is    *)
(* queued, being worked on, or dead where the administrator sees it.  No   *)
(* crash between the lead's transaction and the message's update, no       *)
(* retry, replay or reaped claim closes its last message.                  *)
NoLeadStranded ==
    \A l \in Leads : lead[l] = "UNSENT" => \E m \in MessagesOf(l) : status[m] # "DONE"

(* Every captured lead gets a verdict, or a message of it is dead: what    *)
(* becomes of the FAILED status of schema.prisma:20, which no code writes. *)
EventuallyDecided ==
    \A l \in Leads : lead[l] # "NEW" ~>
        Decided(l) \/ \E m \in MessagesOf(l) : status[m] = "DEAD"
=============================================================================
