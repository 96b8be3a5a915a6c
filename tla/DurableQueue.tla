---------------------------- MODULE DurableQueue ----------------------------
(***************************************************************************)
(* What the outbox promises its two ends: a captured message stays queued, *)
(* through any crash, until it is delivered or visibly dead; only a dead   *)
(* message comes back, and only on an administrator's request.             *)
(***************************************************************************)
CONSTANT Messages

VARIABLES
    state,      \* [Messages -> "none" | "queued" | "delivered" | "dead"]
    handled     \* messages whose handler has returned at least once

queue == <<state, handled>>

Init ==
    /\ state = [m \in Messages |-> "none"]
    /\ handled = {}

Enqueue(m) ==
    /\ state[m] = "none"
    /\ state' = [state EXCEPT ![m] = "queued"]
    /\ UNCHANGED handled

(* At least once: a queued message may be handled any number of times.     *)
Handle(m) ==
    /\ state[m] = "queued"
    /\ handled' = handled \cup {m}
    /\ UNCHANGED state

Settle(m) ==
    /\ state[m] = "queued"
    /\ \/ m \in handled /\ state' = [state EXCEPT ![m] = "delivered"]
       \/ state' = [state EXCEPT ![m] = "dead"]
    /\ UNCHANGED handled

Requeue(m) ==
    /\ state[m] = "dead"
    /\ state' = [state EXCEPT ![m] = "queued"]
    /\ UNCHANGED handled

Next == \E m \in Messages : Enqueue(m) \/ Handle(m) \/ Settle(m) \/ Requeue(m)

Spec == Init /\ [][Next]_queue /\ \A m \in Messages : WF_queue(Settle(m))
=============================================================================
