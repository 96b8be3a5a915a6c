----------------------------- MODULE Heartbeat -----------------------------
(***************************************************************************)
(* The consumers' heartbeat rows (outbox-consumer.ts: initializeHeartbeat, *)
(* beat, start, stop) and the readiness answer computed from them          *)
(* (health.routes.ts).                                                     *)
(*                                                                         *)
(* Consumers are numbered by the order of their worker ids: the worker     *)
(* process is 1, the consumer that runs in the API process with            *)
(* INLINE_WORKER is 2 (container.ts appends "-inline").  A tick is the 15  *)
(* seconds between two timed beats.                                        *)
(***************************************************************************)
EXTENDS Integers, FiniteSets

CONSTANTS
    Consumers,   \* numbered by workerId
    StaleAge,    \* ticks after which readiness calls a beat stale: 60 s
    MaxHandled,  \* bound: messages handled
    MaxRestarts, \* bound: starts of a consumer
    MaxFaults    \* bound: failed or slow statements

ASSUME HeartbeatAssumption ==
    /\ Consumers \subseteq Nat
    /\ StaleAge \in Nat \ {0}
    /\ {MaxHandled, MaxRestarts, MaxFaults} \subseteq Nat

VARIABLES
    row,      \* worker_heartbeats: [Consumers -> [total, age]], age -1: no row
    step,     \* [Consumers -> "down", "reading", "firstBeat", "running"]
    base,     \* [Consumers -> processedBase]
    delta,    \* [Consumers -> processedDelta]
    due,      \* consumers whose beat timer has yet to fire in this tick
    away,     \* [Consumers -> ticks since the consumer went down]
    handled,  \* history: [Consumers -> messages it marked DONE]
    starts,   \* [Consumers -> how often it was started]
    faults    \* faults so far

process == <<step, base, delta, starts>>
vars == <<row, process, due, away, handled, faults>>

Init ==
    /\ row = [c \in Consumers |-> [total |-> 0, age |-> -1]]
    /\ step = [c \in Consumers |-> "down"]
    /\ base = [c \in Consumers |-> 0]
    /\ delta = [c \in Consumers |-> 0]
    /\ due = {}
    /\ away = [c \in Consumers |-> StaleAge]
    /\ handled = [c \in Consumers |-> 0]
    /\ starts = [c \in Consumers |-> 0]
    /\ faults = 0

Up == {c \in Consumers : step[c] # "down"}

Fault == faults < MaxFaults /\ faults' = faults + 1

(* The upsert of beat(): the sum is computed when the beat is sent.        *)
WriteBeat(c) == row' = [row EXCEPT ![c] = [total |-> base[c] + delta[c], age |-> 0]]

-----------------------------------------------------------------------------
(* start(): the counters are those of a new object; the timers run before  *)
(* the initial read is answered.                                           *)
Start(c) ==
    /\ step[c] = "down"
    /\ starts[c] < MaxRestarts
    /\ step' = [step EXCEPT ![c] = "reading"]
    /\ base' = [base EXCEPT ![c] = 0]
    /\ delta' = [delta EXCEPT ![c] = 0]
    /\ starts' = [starts EXCEPT ![c] = @ + 1]
    /\ UNCHANGED <<row, due, away, handled, faults>>

ReadBaseSkipped(c) ==     \* mutant: the counter starts over with every process
    /\ step[c] = "reading"
    /\ step' = [step EXCEPT ![c] = "firstBeat"]
    /\ UNCHANGED <<row, base, delta, starts, due, away, handled, faults>>

ReadBase(c) ==
    /\ step[c] = "reading"
    /\ step' = [step EXCEPT ![c] = "firstBeat"]
    /\ base' = [base EXCEPT ![c] = row[c].total]
    /\ UNCHANGED <<row, delta, starts, due, away, handled, faults>>

(* The read fails: a warning, and the consumer runs on from zero.          *)
ReadBaseFails(c) ==
    /\ step[c] = "reading"
    /\ Fault
    /\ step' = [step EXCEPT ![c] = "running"]
    /\ UNCHANGED <<row, base, delta, starts, due, away, handled>>

FirstBeat(c) ==
    /\ step[c] = "firstBeat"
    /\ step' = [step EXCEPT ![c] = "running"]
    /\ WriteBeat(c)
    /\ UNCHANGED <<base, delta, starts, due, away, handled, faults>>

(* A message marked DONE: the poll timer does not wait for the read.       *)
Process(c) ==
    /\ c \in Up
    /\ handled[c] < MaxHandled
    /\ delta' = [delta EXCEPT ![c] = @ + 1]
    /\ handled' = [handled EXCEPT ![c] = @ + 1]
    /\ UNCHANGED <<row, step, base, starts, due, away, faults>>

BeatWhenBusy(c) ==     \* mutant: an idle consumer skips its beat
    /\ c \in due
    /\ due' = due \ {c}
    /\ IF delta[c] > 0 THEN WriteBeat(c) ELSE UNCHANGED row
    /\ UNCHANGED <<process, away, handled, faults>>

BeatAddsUp(c) ==     \* mutant: the beat adds its sum to the row
    /\ c \in due
    /\ due' = due \ {c}
    /\ row' = [row EXCEPT ![c] = [total |-> @.total + delta[c], age |-> 0]]
    /\ UNCHANGED <<process, away, handled, faults>>

Beat(c) ==
    /\ c \in due
    /\ due' = due \ {c}
    /\ WriteBeat(c)
    /\ UNCHANGED <<process, away, handled, faults>>

(* The catch of beat(): nothing is written, the consumer lives on.         *)
BeatFails(c) ==
    /\ c \in due
    /\ Fault
    /\ due' = due \ {c}
    /\ UNCHANGED <<row, process, away, handled>>

(* stop() beats once more; a crash does not.                               *)
Stop(c) ==
    /\ step[c] = "running"
    /\ WriteBeat(c)
    /\ step' = [step EXCEPT ![c] = "down"]
    /\ due' = due \ {c}
    /\ away' = [away EXCEPT ![c] = 0]
    /\ UNCHANGED <<base, delta, starts, handled, faults>>

Crash(c) ==
    /\ c \in Up
    /\ step' = [step EXCEPT ![c] = "down"]
    /\ due' = due \ {c}
    /\ away' = [away EXCEPT ![c] = 0]
    /\ UNCHANGED <<row, base, delta, starts, handled, faults>>

(* Fifteen seconds.  A consumer still waiting for its initial read by then *)
(* has met a slow database.  Ages and absences beyond StaleAge are alike.  *)
Tick ==
    /\ due = {}
    /\ IF \E c \in Consumers : step[c] \in {"reading", "firstBeat"}
       THEN Fault ELSE faults' = faults
    /\ row' = [c \in Consumers |->
                 [row[c] EXCEPT !.age = IF @ = -1 \/ @ = StaleAge THEN @ ELSE @ + 1]]
    /\ away' = [c \in Consumers |->
                 IF step[c] = "down" /\ away[c] < StaleAge THEN away[c] + 1 ELSE away[c]]
    /\ due' = Up
    /\ UNCHANGED <<process, handled>>

Life(c) ==
    \/ Start(c) \/ ReadBase(c) \/ ReadBaseFails(c) \/ FirstBeat(c) \/ Process(c)
    \/ Beat(c) \/ BeatFails(c) \/ Stop(c) \/ Crash(c)

Next == Tick \/ \E c \in Consumers : Life(c)

Spec == Init /\ [][Next]_vars

-----------------------------------------------------------------------------
(* The readiness probe: findFirst with no order takes the first row of the *)
(* primary key.                                                            *)

Observed == {c \in Consumers : row[c].age # -1 /\
                \A d \in Consumers : row[d].age # -1 => c <= d}

FreshAtSixty(c) == row[c].age \in 0..StaleAge     \* mutant: > 60 for >= 60
Fresh(c) == row[c].age \in 0..(StaleAge - 1)

Ready == \E c \in Observed : Fresh(c)

(* The dashboard looks at the row of the latest beat.                      *)
Latest == {c \in Consumers : row[c].age # -1 /\
              \A d \in Consumers : row[d].age # -1 => row[c].age <= row[d].age}

WorkerHealthy == \E c \in Latest : Fresh(c)

-----------------------------------------------------------------------------
TypeOK ==
    /\ \A c \in Consumers :
          /\ row[c].total \in Nat /\ row[c].age \in -1..StaleAge
          /\ step[c] \in {"down", "reading", "firstBeat", "running"}
          /\ base[c] \in Nat /\ delta[c] \in 0..MaxHandled
          /\ away[c] \in 0..StaleAge
          /\ starts[c] \in 0..MaxRestarts
    /\ due \subseteq Up
    /\ faults \in 0..MaxFaults

(* FR-030: once every consumer has been gone for the stale age, readiness  *)
(* and dashboard say so, whatever they last wrote and however they went.   *)
SilenceIsNoticed ==
    (\A c \in Consumers : away[c] = StaleAge /\ step[c] = "down") =>
        ~Ready /\ ~WorkerHealthy

(* As long as no statement fails or is slow, the dashboard never reports a *)
(* consumer that runs as missing or stale, idle or not, whatever became of *)
(* the others.  Readiness needs all of them to run: with one of two down it*)
(* may fail, since health.routes.ts:42 looks at one row only.              *)
RunningIsReady == faults = 0 =>
    /\ (\E c \in Consumers : step[c] = "running") => WorkerHealthy
    /\ (\A c \in Consumers : step[c] = "running") => Ready

(* The row never counts a message twice, over restarts and crashes: a timed*)
(* beat adds to the base that was read (with an initial read slower than a *)
(* beat, the base already holds what the beat has written, and it does).   *)
NeverOvercounts ==
    faults = 0 => \A c \in Consumers : row[c].total <= handled[c]

(* data-model.md:160: processedTotal is a "Cumulative counter", restarts   *)
(* and crashes included, unless the initial read failed or was late.       *)
TotalNeverFalls ==
    [][faults' = 0 => \A c \in Consumers : row'[c].total >= row[c].total]_vars
=============================================================================
