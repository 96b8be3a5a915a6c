------------------------------- MODULE Outbox -------------------------------
(***************************************************************************)
(* The transactional outbox and its consumers (outbox-consumer.ts), with   *)
(* the administrator's replay of dead messages (ops.routes.ts).            *)
(*                                                                         *)
(* A consumer claims a batch of due messages under FOR UPDATE SKIP LOCKED, *)
(* commits the claim, and works through the batch one message at a time,   *)
(* with no transaction around the read, the handler and the final update.  *)
(* Consumers crash and restart; a reaper gives back messages whose claim   *)
(* is older than five minutes.  Time is two flags: a message is in backoff *)
(* or due, and its claim is young or old.                                  *)
(***************************************************************************)
EXTENDS Integers, Sequences, Functions

CONSTANTS
    MessageCount,  \* messages captured; they are 1..MessageCount
    Consumers,     \* lead-worker, and the API process with INLINE_WORKER
    Crews,         \* the sets of consumers a deployment may run
    Admins,        \* concurrent replay requests
    BatchSize,
    MaxAttempts,
    MaxCrashes, MaxStalls, MaxErrors, MaxReplays   \* bounds

ASSUME OutboxAssumption ==
    /\ MessageCount \in Nat
    /\ Crews \subseteq SUBSET Consumers
    /\ BatchSize \in Nat \ {0} /\ MaxAttempts \in Nat \ {0}
    /\ {MaxCrashes, MaxStalls, MaxErrors, MaxReplays} \subseteq Nat

VARIABLES
    status,     \* outbox.status
    attempts,   \* outbox.attempts
    waiting,    \* messages whose availableAt is still to come
    old,        \* messages PROCESSING since more than five minutes
    earlier,    \* pairs of messages, the one of the earlier availableAt first
    handled,    \* messages whose handler has returned at least once
    consumer,   \* [Consumers -> [step, batch, seen]]
    replay,     \* [Admins -> message read as DEAD, or 0]
    faults      \* how often each fault has happened

rows == <<status, attempts, waiting, old, earlier>>
vars == <<rows, handled, consumer, replay, faults>>

Messages == 1..MessageCount

Off == [step |-> "off", batch |-> <<>>, seen |-> 0]
Down == [step |-> "down", batch |-> <<>>, seen |-> 0]
Ready == [step |-> "idle", batch |-> <<>>, seen |-> 0]

Init ==
    /\ status = [m \in Messages |-> "NONE"]
    /\ attempts = [m \in Messages |-> 0]
    /\ waiting = {} /\ old = {} /\ earlier = {}
    /\ handled = {}
    /\ \E crew \in Crews :
          consumer = [c \in Consumers |-> IF c \in crew THEN Ready ELSE Off]
    /\ replay = [a \in Admins |-> 0]
    /\ faults = [crash |-> 0, stall |-> 0, error |-> 0, replay |-> 0]

-----------------------------------------------------------------------------
(* The message a consumer is at; the steps in which it is working on it.   *)
Current(c) == Head(consumer[c].batch)
Working == {"handle", "done", "failed"}

Up(c) == consumer[c].step \notin {"off", "down"}

Locked(m) == \E c \in Consumers : consumer[c].step = "locked"
                                  /\ m \in Range(consumer[c].batch)

Claimable(m) == status[m] = "PENDING" /\ m \notin waiting

(* Goes to the next message of the batch, or back to polling.              *)
Advance(c) ==
    consumer' = [consumer EXCEPT ![c] =
                   IF Len(@.batch) > 1
                   THEN [step |-> "next", batch |-> Tail(@.batch), seen |-> 0]
                   ELSE Ready]

Posted == {m \in Messages : status[m] # "NONE"}

(* An order by a time that some may share.                                 *)
OrdersByTime(e, S) ==
    \A n, o \in S : <<n, o>> \in e =>
        <<o, n>> \notin e /\ \A p \in S : <<n, p>> \in e \/ <<p, o>> \in e

(* The orders in which m has been given a new availableAt.  Whoever writes *)
(* it takes the time before its COMMIT, from its own clock, in             *)
(* milliseconds: m may come before messages that were there first, or      *)
(* share their time.                                                       *)
Placed(m) ==
    LET others == Posted \ {m}
        kept == {p \in earlier : m \notin {p[1], p[2]}}
    IN  {e \in {kept \cup (before \X {m}) \cup ({m} \X after) :
                    before \in SUBSET others, after \in SUBSET others} :
            OrdersByTime(e, others \cup {m})}

-----------------------------------------------------------------------------
(* Capture's INSERT: due at once.  Messages are numbered as they commit.   *)
Post(m) ==
    /\ status[m] = "NONE"
    /\ m > 1 => status[m - 1] # "NONE"
    /\ status' = [status EXCEPT ![m] = "PENDING"]
    /\ earlier' \in Placed(m)
    /\ UNCHANGED <<attempts, waiting, old, handled, consumer, replay, faults>>

(* The rows of ORDER BY availableAt LIMIT BatchSize, those that share a    *)
(* time in any order.                                                      *)
TakeBatch(c, due) ==
    \E n \in 1..BatchSize : \E batch \in [1..n -> due] :
        /\ \A i, j \in 1..n : i < j =>
              batch[i] # batch[j] /\ <<batch[j], batch[i]>> \notin earlier
        /\ \A m \in due \ {batch[i] : i \in 1..n} :
              n = BatchSize /\ \A i \in 1..n : <<m, batch[i]>> \notin earlier
        /\ consumer' = [consumer EXCEPT ![c] =
                           [step |-> "locked", batch |-> batch, seen |-> 0]]

LockUnlocked(c) ==     \* mutant: no FOR UPDATE SKIP LOCKED
    /\ consumer[c].step = "idle"
    /\ TakeBatch(c, {m \in Messages : Claimable(m)})
    /\ UNCHANGED <<rows, handled, replay, faults>>

LockAnyOrder(c) ==     \* mutant: no ORDER BY
    /\ consumer[c].step = "idle"
    /\ \E due \in SUBSET {m \in Messages : Claimable(m) /\ ~Locked(m)} : TakeBatch(c, due)
    /\ UNCHANGED <<rows, handled, replay, faults>>

(* claimBatch, inside its transaction: SELECT ... FOR UPDATE SKIP LOCKED.  *)
Lock(c) ==
    /\ consumer[c].step = "idle"
    /\ TakeBatch(c, {m \in Messages : Claimable(m) /\ ~Locked(m)})
    /\ UNCHANGED <<rows, handled, replay, faults>>

(* The UPDATE of the rows still PENDING, and the COMMIT.                   *)
Claim(c) ==
    LET taken == {m \in Range(consumer[c].batch) : status[m] = "PENDING"}
    IN  /\ consumer[c].step = "locked"
        /\ status' = [m \in Messages |-> IF m \in taken THEN "PROCESSING" ELSE status[m]]
        /\ attempts' = [m \in Messages |-> IF m \in taken THEN attempts[m] + 1 ELSE attempts[m]]
        /\ consumer' = [consumer EXCEPT ![c].step = "next"]
        /\ UNCHANGED <<waiting, old, earlier, handled, replay, faults>>

(* processOne reads the message again: reaped ones are skipped.            *)
ReadMessage(c) ==
    /\ consumer[c].step = "next"
    /\ IF status[Current(c)] = "PROCESSING"
       THEN consumer' = [consumer EXCEPT ![c].step = "handle",
                                         ![c].seen = attempts[Current(c)]]
       ELSE Advance(c)
    /\ UNCHANGED <<rows, handled, replay, faults>>

HandlerReturns(c) ==
    /\ consumer[c].step = "handle"
    /\ handled' = handled \cup {Current(c)}
    /\ consumer' = [consumer EXCEPT ![c].step = "done"]
    /\ UNCHANGED <<rows, replay, faults>>

(* No handler for the type, an invalid payload, or the routing threw.      *)
HandlerThrows(c) ==
    /\ consumer[c].step = "handle"
    /\ consumer' = [consumer EXCEPT ![c].step = "failed"]
    /\ UNCHANGED <<rows, handled, replay, faults>>

(* The updates after the handler do not look at the status again.          *)
MarkDone(c) ==
    LET m == Current(c)
    IN  /\ consumer[c].step = "done"
        /\ ~Locked(m)
        /\ status' = [status EXCEPT ![m] = "DONE"]
        /\ old' = old \ {m}
        /\ Advance(c)
        /\ UNCHANGED <<attempts, waiting, earlier, handled, replay, faults>>

MarkFailedOneMore(c) ==     \* mutant: attempts > maxAttempts
    LET m == Current(c)
    IN  /\ consumer[c].step = "failed"
        /\ ~Locked(m)
        /\ IF consumer[c].seen > MaxAttempts
           THEN /\ status' = [status EXCEPT ![m] = "DEAD"]
                /\ waiting' = waiting
           ELSE /\ status' = [status EXCEPT ![m] = "PENDING"]
                /\ waiting' = waiting \cup {m}
        /\ old' = old \ {m}
        /\ Advance(c)
        /\ UNCHANGED <<attempts, earlier, handled, replay, faults>>

MarkFailedAsDone(c) ==     \* mutant: an exhausted message is closed like a handled one
    LET m == Current(c)
    IN  /\ consumer[c].step = "failed"
        /\ ~Locked(m)
        /\ IF consumer[c].seen >= MaxAttempts
           THEN /\ status' = [status EXCEPT ![m] = "DONE"]
                /\ waiting' = waiting
           ELSE /\ status' = [status EXCEPT ![m] = "PENDING"]
                /\ waiting' = waiting \cup {m}
        /\ old' = old \ {m}
        /\ Advance(c)
        /\ UNCHANGED <<attempts, earlier, handled, replay, faults>>

MarkFailed(c) ==
    LET m == Current(c)
    IN  /\ consumer[c].step = "failed"
        /\ ~Locked(m)
        /\ IF consumer[c].seen >= MaxAttempts
           THEN /\ status' = [status EXCEPT ![m] = "DEAD"]
                /\ waiting' = waiting
           ELSE /\ status' = [status EXCEPT ![m] = "PENDING"]
                /\ waiting' = waiting \cup {m}
        /\ old' = old \ {m}
        /\ Advance(c)
        /\ UNCHANGED <<attempts, earlier, handled, replay, faults>>

-----------------------------------------------------------------------------
(* Time: a backoff ends, and the availableAt it was given counts; a claim  *)
(* grows old.  That of a message some live consumer is still at grows old  *)
(* only if that consumer stalls for five minutes.                          *)
Due(m) ==
    /\ m \in waiting
    /\ waiting' = waiting \ {m}
    /\ earlier' \in Placed(m)
    /\ UNCHANGED <<status, attempts, old, handled, consumer, replay, faults>>

Held(m) == \E c \in Consumers : m \in Range(consumer[c].batch)

Age(m) ==
    /\ status[m] = "PROCESSING"
    /\ m \notin old
    /\ ~Held(m)
    /\ old' = old \cup {m}
    /\ UNCHANGED <<status, attempts, waiting, earlier, handled, consumer, replay, faults>>

Stall(m) ==
    /\ status[m] = "PROCESSING"
    /\ m \notin old
    /\ Held(m)
    /\ faults.stall < MaxStalls
    /\ old' = old \cup {m}
    /\ faults' = [faults EXCEPT !.stall = @ + 1]
    /\ UNCHANGED <<status, attempts, waiting, earlier, handled, consumer, replay>>

(* reapStale runs on a timer of its own, whatever the consumer is doing.   *)
ReapKeepsExhausted(c) ==     \* mutant: messages with no attempt left are not reaped
    LET reaped == {m \in old : attempts[m] < MaxAttempts}
    IN  /\ Up(c)
        /\ reaped # {}
        /\ status' = [m \in Messages |-> IF m \in reaped THEN "PENDING" ELSE status[m]]
        /\ old' = old \ reaped
        /\ UNCHANGED <<attempts, waiting, earlier, handled, consumer, replay, faults>>

Reap(c) ==
    /\ Up(c)
    /\ old # {}
    /\ status' = [m \in Messages |-> IF m \in old THEN "PENDING" ELSE status[m]]
    /\ old' = {}
    /\ UNCHANGED <<attempts, waiting, earlier, handled, consumer, replay, faults>>

-----------------------------------------------------------------------------
(* Faults.                                                                 *)

(* A kill, SIGTERM or deploy in any state: an open claim rolls back, a     *)
(* committed one stays behind.                                             *)
Crash(c) ==
    /\ Up(c)
    /\ faults.crash < MaxCrashes
    /\ consumer' = [consumer EXCEPT ![c] = Down]
    /\ faults' = [faults EXCEPT !.crash = @ + 1]
    /\ UNCHANGED <<rows, handled, replay>>

Restart(c) ==
    /\ consumer[c].step = "down"
    /\ consumer' = [consumer EXCEPT ![c] = Ready]
    /\ UNCHANGED <<rows, handled, replay, faults>>

(* A database error in the claim, the read or the update in the catch block*)
(* reaches tick: the rest of the batch is dropped, still PROCESSING.  (If  *)
(* the statement was executed and only its answer is lost, this is an error*)
(* of the next one.)                                                       *)
DatabaseError(c) ==
    /\ faults.error < MaxErrors
    /\ consumer[c].step \in {"locked", "next", "failed"}
    /\ consumer' = [consumer EXCEPT ![c] = Ready]
    /\ faults' = [faults EXCEPT !.error = @ + 1]
    /\ UNCHANGED <<rows, handled, replay>>

(* One in the DONE update is caught like a failure of the handler, even if *)
(* the row is DONE and only the answer is lost.                            *)
DoneError(c) ==
    LET m == Current(c)
    IN  /\ faults.error < MaxErrors
        /\ consumer[c].step = "done"
        /\ \/ UNCHANGED <<status, old>>
           \/ /\ ~Locked(m)
              /\ status' = [status EXCEPT ![m] = "DONE"]
              /\ old' = old \ {m}
        /\ consumer' = [consumer EXCEPT ![c].step = "failed"]
        /\ faults' = [faults EXCEPT !.error = @ + 1]
        /\ UNCHANGED <<attempts, waiting, earlier, handled, replay>>

-----------------------------------------------------------------------------
(* POST /ops/outbox/:id/replay: the check and the update are two queries.  *)
ReadForReplay(a, m) ==
    /\ replay[a] = 0
    /\ status[m] = "DEAD"
    /\ faults.replay < MaxReplays
    /\ replay' = [replay EXCEPT ![a] = m]
    /\ faults' = [faults EXCEPT !.replay = @ + 1]
    /\ UNCHANGED <<rows, handled, consumer>>

Replay(a) ==
    LET m == replay[a]
    IN  /\ m # 0
        /\ ~Locked(m)
        /\ status' = [status EXCEPT ![m] = "PENDING"]
        /\ attempts' = [attempts EXCEPT ![m] = 0]
        /\ waiting' = waiting \ {m}
        /\ old' = old \ {m}
        /\ earlier' \in Placed(m)
        /\ replay' = [replay EXCEPT ![a] = 0]
        /\ UNCHANGED <<handled, consumer, faults>>

-----------------------------------------------------------------------------
Handler(c) == HandlerReturns(c) \/ HandlerThrows(c)

Poll(c) ==
    Lock(c) \/ Claim(c) \/ ReadMessage(c) \/ Handler(c) \/ MarkDone(c) \/ MarkFailed(c)

Next ==
    \/ \E m \in Messages : Post(m) \/ Due(m) \/ Age(m) \/ Stall(m)
    \/ \E c \in Consumers : Poll(c) \/ Reap(c) \/ Crash(c) \/ Restart(c)
    \/ \E c \in Consumers : DatabaseError(c) \/ DoneError(c)
    \/ \E a \in Admins : Replay(a) \/ \E m \in Messages : ReadForReplay(a, m)

Spec == Init /\ [][Next]_vars

-----------------------------------------------------------------------------
TypeOK ==
    /\ status \in [Messages -> {"NONE", "PENDING", "PROCESSING", "DONE", "DEAD"}]
    /\ attempts \in [Messages -> Nat]
    /\ waiting \subseteq Messages
    /\ old \subseteq Messages
    /\ earlier \subseteq Messages \X Messages
    /\ handled \subseteq Messages
    /\ consumer \in [Consumers -> [step : {"off", "down", "idle", "locked", "next"} \cup Working,
                                   batch : Seq(Messages), seen : Nat]]
    /\ replay \in [Admins -> Messages \cup {0}]
    /\ faults \in [crash : Nat, stall : Nat, error : Nat, replay : Nat]

(* A message is closed only after its handler has returned: no crash,      *)
(* error or attempt limit turns an undelivered routing intent into DONE.   *)
DoneMeansHandled == \A m \in Messages : status[m] = "DONE" => m \in handled

Shared(m) == \E c, d \in Consumers :
    /\ c # d
    /\ consumer[c].step \in Working /\ Current(c) = m
    /\ consumer[d].step \in Working /\ Current(d) = m

(* INV-6 as far as it holds: two consumers work on one message only if one *)
(* has been at it for five minutes.  Crashes, database errors, reaping and *)
(* batches left behind never lead to it.                                   *)
SharedOnlyAfterStall == (\E m \in Messages : Shared(m)) => faults.stall > 0

(* FR-022 as far as it holds: each attempt past the limit is due to a crash*)
(* or a database error that kept a consumer from recording the failure.    *)
ExtraAttemptsAreFaults ==
    \A m \in Messages :
        attempts[m] <= MaxAttempts + faults.crash + faults.error + faults.stall

OneRuns == \A c, d \in Consumers : c # d => "off" \in {consumer[c].step, consumer[d].step}

(* A single consumer takes up a backlog in the order it was captured       *)
(* (readiness-and-outbox test: "backlog routes in order on resume"), until *)
(* a dead message is replayed: of two captures, one after the other by     *)
(* their commits and by their times, the later is not tried until the      *)
(* earlier has been, and in one batch it comes second, but for a message   *)
(* that has had its attempt.                                               *)
TakenInOrder ==
    [][OneRuns /\ faults'.replay = 0 =>
          \A m, n \in Messages : m < n /\ <<m, n>> \in earlier =>
              /\ attempts[n] = 0 /\ attempts'[n] > 0 => attempts'[m] > 0
              /\ \A c \in Consumers :
                    /\ consumer[c].step \in Working /\ Current(c) = n
                    /\ attempts[n] = 1 /\ m \in Range(consumer[c].batch)
                    => attempts[m] > 1]_vars

(* The abstract queue the outbox implements.  A message that is DONE while *)
(* its consumer takes the update to have failed may still become PENDING.  *)
QueueStatus(s) ==
    CASE s = "NONE" -> "none"
      [] s \in {"PENDING", "PROCESSING"} -> "queued"
      [] s = "DONE" -> "delivered"
      [] s = "DEAD" -> "dead"

Unsettled(m) == \E c \in Consumers : consumer[c].step = "failed" /\ Current(c) = m

queueState == [m \in Messages |->
    IF status[m] = "DONE" /\ Unsettled(m) THEN "queued" ELSE QueueStatus(status[m])]

Queue == INSTANCE DurableQueue WITH state <- queueState
=============================================================================
