-------------------------- MODULE HeartbeatProofs --------------------------
(***************************************************************************)
(* Theorems about Heartbeat, for any consumers and any number of starts,   *)
(* messages, crashes and failing statements: silence is noticed, a running *)
(* consumer is seen, and the counter neither counts twice nor falls.       *)
(***************************************************************************)
EXTENDS Heartbeat, WellFoundedInduction, TLAPS

HeartbeatTypes ==
    /\ row \in [Consumers -> [total : Nat, age : Int]]
    /\ step \in [Consumers -> {"down", "reading", "firstBeat", "running"}]
    /\ base \in [Consumers -> Nat]
    /\ delta \in [Consumers -> Nat]
    /\ due \subseteq Up
    /\ away \in [Consumers -> Int]
    /\ handled \in [Consumers -> Nat]
    /\ faults \in Nat

(* A row is as old as its writer has been away, up to the age at which it  *)
(* counts as stale.                                                        *)
AgesInv ==
    \A c \in Consumers :
        /\ row[c].age \in -1..StaleAge
        /\ away[c] \in 0..StaleAge
        /\ step[c] = "down" => row[c].age = -1 \/ row[c].age >= away[c]

(* Without faults a running consumer beats in every tick.                  *)
BeatsInv == faults = 0 =>
    \A c \in Consumers : step[c] = "running" =>
        row[c].age = 0 \/ (row[c].age = 1 /\ c \in due)

(* Without faults no timed beat comes before the initial read, so what the *)
(* process will write is what the row had plus what it handled since.      *)
CountsInv == faults = 0 =>
    \A c \in Consumers :
        /\ row[c].total <= handled[c]
        /\ step[c] = "reading" => /\ c \notin due
                                  /\ row[c].total + delta[c] <= handled[c]
        /\ step[c] = "firstBeat" => /\ c \notin due
                                    /\ base[c] = row[c].total
                                    /\ base[c] + delta[c] <= handled[c]
        /\ step[c] = "running" => /\ row[c].total <= base[c] + delta[c]
                                  /\ base[c] + delta[c] <= handled[c]

HeartbeatInv == HeartbeatTypes /\ AgesInv /\ BeatsInv /\ CountsInv

-----------------------------------------------------------------------------
LEMMA HeartbeatInit == Init => HeartbeatInv
<1> SUFFICES ASSUME Init PROVE HeartbeatInv
    OBVIOUS
<1> USE HeartbeatAssumption DEF Init
<1>1. HeartbeatTypes
  BY DEF HeartbeatTypes, Up
<1>2. AgesInv
  BY DEF AgesInv
<1>3. BeatsInv /\ CountsInv
  BY DEF BeatsInv, CountsInv
<1> QED
  BY <1>1, <1>2, <1>3 DEF HeartbeatInv

(* What a beat writes.                                                     *)
LEMMA BeatWrites ==
    ASSUME HeartbeatTypes, NEW c \in Consumers, WriteBeat(c)
    PROVE  /\ row' \in [Consumers -> [total : Nat, age : Int]]
           /\ row'[c].total = base[c] + delta[c] /\ row'[c].age = 0
           /\ \A d \in Consumers : d # c => row'[d] = row[d]
<1> DEFINE r == [total |-> base[c] + delta[c], age |-> 0]
<1>1. r \in [total : Nat, age : Int] /\ r.total = base[c] + delta[c] /\ r.age = 0
  BY DEF HeartbeatTypes
<1>2. row' = [row EXCEPT ![c] = r]
  BY DEF WriteBeat
<1> HIDE DEF r
<1> QED
  BY <1>1, <1>2 DEF HeartbeatTypes

(* What one consumer does, one step per action.                            *)
LEMMA LifeKeeps ==
    ASSUME HeartbeatInv, NEW c \in Consumers, Life(c)
    PROVE  HeartbeatInv'
<1> USE HeartbeatAssumption DEF HeartbeatInv, HeartbeatTypes, process, Up
<1>1. CASE Start(c)
  BY <1>1 DEF Start, AgesInv, BeatsInv, CountsInv
<1>2. CASE ReadBase(c)
  BY <1>2 DEF ReadBase, AgesInv, BeatsInv, CountsInv
<1>3. CASE ReadBaseFails(c)
  BY <1>3 DEF ReadBaseFails, Fault, AgesInv, BeatsInv, CountsInv
<1>4. CASE FirstBeat(c)
  <2>1. /\ row' \in [Consumers -> [total : Nat, age : Int]]
        /\ \A d \in Consumers :
              /\ row'[d].age = IF d = c THEN 0 ELSE row[d].age
              /\ row'[d].total = IF d = c THEN base[c] + delta[c] ELSE row[d].total
    BY <1>4, BeatWrites DEF FirstBeat
  <2>2. /\ step' \in [Consumers -> {"down", "reading", "firstBeat", "running"}]
        /\ \A d \in Consumers : step'[d] = IF d = c THEN "running" ELSE step[d]
    BY <1>4 DEF FirstBeat
  <2>3. HeartbeatTypes'
    BY <1>4, <2>1, <2>2 DEF FirstBeat
  <2>4. AgesInv'
    BY <1>4, <2>1, <2>2 DEF FirstBeat, AgesInv
  <2>5. BeatsInv'
    BY <1>4, <2>1, <2>2 DEF FirstBeat, BeatsInv
  <2>6. CountsInv'
    BY <1>4, <2>1, <2>2 DEF FirstBeat, CountsInv
  <2> QED
    BY <2>3, <2>4, <2>5, <2>6
<1>5. CASE Process(c)
  BY <1>5 DEF Process, AgesInv, BeatsInv, CountsInv
<1>6. CASE Beat(c)
  <2>1. /\ row' \in [Consumers -> [total : Nat, age : Int]]
        /\ \A d \in Consumers :
              /\ row'[d].age = IF d = c THEN 0 ELSE row[d].age
              /\ row'[d].total = IF d = c THEN base[c] + delta[c] ELSE row[d].total
    BY <1>6, BeatWrites DEF Beat
  <2>2. step' = step /\ step[c] # "down"
    BY <1>6 DEF Beat
  <2>3. HeartbeatTypes'
    BY <1>6, <2>1, <2>2 DEF Beat
  <2>4. AgesInv'
    BY <1>6, <2>1, <2>2 DEF Beat, AgesInv
  <2>5. BeatsInv'
    BY <1>6, <2>1, <2>2 DEF Beat, BeatsInv
  <2>6. CountsInv'
    BY <1>6, <2>1, <2>2 DEF Beat, CountsInv
  <2> QED
    BY <2>3, <2>4, <2>5, <2>6
<1>7. CASE BeatFails(c)
  BY <1>7 DEF BeatFails, Fault, AgesInv, BeatsInv, CountsInv
<1>8. CASE Stop(c)
  <2>1. /\ row' \in [Consumers -> [total : Nat, age : Int]]
        /\ \A d \in Consumers :
              /\ row'[d].age = IF d = c THEN 0 ELSE row[d].age
              /\ row'[d].total = IF d = c THEN base[c] + delta[c] ELSE row[d].total
    BY <1>8, BeatWrites DEF Stop
  <2>2. /\ step' \in [Consumers -> {"down", "reading", "firstBeat", "running"}]
        /\ \A d \in Consumers : step'[d] = IF d = c THEN "down" ELSE step[d]
    BY <1>8 DEF Stop
  <2>3. HeartbeatTypes'
    BY <1>8, <2>1, <2>2 DEF Stop
  <2>4. AgesInv'
    BY <1>8, <2>1, <2>2 DEF Stop, AgesInv
  <2>5. BeatsInv'
    BY <1>8, <2>1, <2>2 DEF Stop, BeatsInv
  <2>6. CountsInv'
    BY <1>8, <2>1, <2>2 DEF Stop, CountsInv
  <2> QED
    BY <2>3, <2>4, <2>5, <2>6
<1>9. CASE Crash(c)
  BY <1>9 DEF Crash, AgesInv, BeatsInv, CountsInv
<1> QED
  BY <1>1, <1>2, <1>3, <1>4, <1>5, <1>6, <1>7, <1>8, <1>9 DEF Life

LEMMA TickKeeps ==
    ASSUME HeartbeatInv, Tick
    PROVE  HeartbeatInv'
<1> USE HeartbeatAssumption DEF HeartbeatInv, HeartbeatTypes, process, Up
<1>1. \A c \in Consumers :
          /\ row'[c].total = row[c].total
          /\ row'[c].age = IF row[c].age = -1 \/ row[c].age = StaleAge
                           THEN row[c].age ELSE row[c].age + 1
          /\ away'[c] = IF step[c] = "down" /\ away[c] < StaleAge
                        THEN away[c] + 1 ELSE away[c]
  BY DEF Tick
<1>2. /\ due = {} /\ due' = Up /\ UNCHANGED <<step, base, delta, handled>>
      /\ faults' \in Nat /\ (faults' = 0 => faults = 0)
      /\ faults' = 0 => \A c \in Consumers : step[c] \notin {"reading", "firstBeat"}
  BY DEF Tick, Fault
<1>3. HeartbeatTypes'
  BY <1>1, <1>2 DEF Tick
<1>4. AgesInv'
  BY <1>1, <1>2 DEF AgesInv
<1>5. BeatsInv'
  BY <1>1, <1>2 DEF BeatsInv, AgesInv
<1>6. CountsInv'
  BY <1>1, <1>2 DEF CountsInv
<1> QED
  BY <1>3, <1>4, <1>5, <1>6

LEMMA HeartbeatNext == HeartbeatInv /\ [Next]_vars => HeartbeatInv'
<1> SUFFICES ASSUME HeartbeatInv, [Next]_vars PROVE HeartbeatInv'
    OBVIOUS
<1>1. CASE UNCHANGED vars
  BY <1>1 DEF vars, process, HeartbeatInv, HeartbeatTypes, AgesInv, BeatsInv, CountsInv, Up
<1> QED
  BY <1>1, LifeKeeps, TickKeeps DEF Next

LEMMA HeartbeatCorrect == Spec => []HeartbeatInv
BY HeartbeatInit, HeartbeatNext, PTL DEF Spec

-----------------------------------------------------------------------------
(* FR-030 for any consumers: a worker that has been gone for the stale age *)
(* is reported, however it went and whatever it wrote last.                *)
THEOREM SilenceIsReported == Spec => []SilenceIsNoticed
<1>1. ASSUME AgesInv, NEW c \in Consumers, away[c] = StaleAge, step[c] = "down"
      PROVE  ~Fresh(c)
  <2>1. row[c].age = -1 \/ row[c].age >= StaleAge
    BY <1>1 DEF AgesInv
  <2> QED
    BY <2>1, HeartbeatAssumption DEF Fresh
<1>2. HeartbeatInv => SilenceIsNoticed
  BY <1>1 DEF HeartbeatInv, SilenceIsNoticed, Ready, WorkerHealthy, Observed, Latest
<1> QED
  BY <1>2, HeartbeatCorrect, PTL

(* The first row of the primary key exists once there is a row at all.     *)
LEMMA FirstRow ==
    ASSUME NEW S \in SUBSET Nat, S # {}
    PROVE  \E c \in S : \A d \in S : c <= d
<1> DEFINE Less == OpToRel(<, Nat)
<1>1. \E c \in S : \A d \in S : <<d, c>> \notin Less
  <2>1. IsWellFoundedOn(Less, Nat)
    BY NatLessThanWellFounded
  <2> HIDE DEF Less
  <2> QED
    BY <2>1, WFMin
<1>2. \A c, d \in S : <<d, c>> \notin Less => c <= d
  BY DEF OpToRel
<1> QED
  BY <1>1, <1>2

(* Without a fault the dashboard sees a running consumer, and readiness    *)
(* all of them, at any moment, if a beat may be one tick old.              *)
THEOREM RunningIsSeen ==
    ASSUME StaleAge > 1, Consumers # {}
    PROVE  Spec => []RunningIsReady
<1>1. ASSUME HeartbeatInv, faults = 0, NEW c \in Consumers, step[c] = "running"
      PROVE  WorkerHealthy
  <2>1. row[c].age \in 0..1 /\ \A d \in Consumers : row[d].age \in -1..StaleAge
    BY <1>1 DEF HeartbeatInv, BeatsInv, AgesInv
  <2>2. CASE \E d \in Consumers : row[d].age = 0
    <3>1. PICK d \in Consumers : row[d].age = 0
      BY <2>2
    <3>2. d \in Latest /\ Fresh(d)
      BY <2>1, <3>1, HeartbeatAssumption DEF Latest, Fresh
    <3> QED
      BY <3>2 DEF WorkerHealthy
  <2>3. CASE ~ \E d \in Consumers : row[d].age = 0
    <3>1. c \in Latest /\ Fresh(c)
      BY <2>1, <2>3, HeartbeatAssumption DEF Latest, Fresh
    <3> QED
      BY <3>1 DEF WorkerHealthy
  <2> QED
    BY <2>2, <2>3
<1>2. ASSUME HeartbeatInv, faults = 0, \A c \in Consumers : step[c] = "running"
      PROVE  Ready
  <2>1. \A d \in Consumers : row[d].age \in 0..1
    BY <1>2 DEF HeartbeatInv, BeatsInv
  <2>2. PICK c \in Consumers : \A d \in Consumers : c <= d
    BY FirstRow, HeartbeatAssumption
  <2>3. c \in Observed /\ Fresh(c)
    BY <2>1, <2>2, HeartbeatAssumption DEF Observed, Fresh
  <2> QED
    BY <2>3 DEF Ready
<1>3. HeartbeatInv => RunningIsReady
  BY <1>1, <1>2 DEF RunningIsReady
<1> QED
  BY <1>3, HeartbeatCorrect, PTL

(* Without a fault no message is counted twice, over any crashes and       *)
(* restarts.                                                               *)
THEOREM CountedAtMostOnce == Spec => []NeverOvercounts
<1>1. HeartbeatInv => NeverOvercounts
  BY DEF HeartbeatInv, CountsInv, NeverOvercounts
<1> QED
  BY <1>1, HeartbeatCorrect, PTL

(* data-model.md:160, "Cumulative counter": it never falls, restarts and   *)
(* crashes included, unless an initial read failed or was late.            *)
THEOREM TotalIsCumulative == Spec => TotalNeverFalls
<1>1. ASSUME HeartbeatInv, [Next]_vars, faults' = 0, NEW c \in Consumers
      PROVE  row'[c].total >= row[c].total
  <2>0. HeartbeatTypes /\ row[c].total \in Nat /\ faults \in Nat /\ CountsInv
    BY <1>1 DEF HeartbeatInv, HeartbeatTypes
  <2>1. CASE row' = row
    BY <2>0, <2>1
  <2>2. CASE Tick
    <3>1. row'[c].total = row[c].total
      BY <2>0, <2>2 DEF Tick, HeartbeatTypes
    <3> QED
      BY <2>0, <3>1
  <2>3. ASSUME NEW d \in Consumers, WriteBeat(d), faults = 0,
               step[d] = "running" \/ step[d] = "firstBeat"
        PROVE  row'[c].total >= row[c].total
    <3>1. row[d].total <= base[d] + delta[d]
      BY <2>0, <2>3 DEF CountsInv, HeartbeatTypes
    <3>2. row'[d].total = base[d] + delta[d] /\ (c # d => row'[c] = row[c])
      BY <2>0, <2>3, BeatWrites
    <3>3. row'[d].total >= row[d].total
      BY <2>0, <3>1, <3>2 DEF HeartbeatTypes
    <3> QED
      BY <2>0, <3>2, <3>3
  <2>4. ASSUME NEW d \in Consumers, FirstBeat(d) \/ Beat(d) \/ Stop(d)
        PROVE  row'[c].total >= row[c].total
    <3>1. WriteBeat(d) /\ faults = 0
      BY <1>1, <2>0, <2>4 DEF FirstBeat, Beat, Stop, process
    <3>2. step[d] = "running" \/ step[d] = "firstBeat"
      BY <2>0, <2>4, <3>1 DEF FirstBeat, Beat, Stop, CountsInv, HeartbeatTypes, Up
    <3> QED
      BY <2>3, <3>1, <3>2
  <2>5. \/ row' = row
        \/ Tick
        \/ \E d \in Consumers : FirstBeat(d) \/ Beat(d) \/ Stop(d)
    BY <1>1 DEF Next, vars, process, Life, Start, ReadBase, ReadBaseFails, Process, BeatFails, Crash
  <2> QED
    BY <2>1, <2>2, <2>4, <2>5
<1>2. HeartbeatInv /\ [Next]_vars =>
          [faults' = 0 => \A c \in Consumers : row'[c].total >= row[c].total]_vars
  BY <1>1
<1> QED
  BY <1>2, HeartbeatCorrect, PTL DEF Spec, TotalNeverFalls

-----------------------------------------------------------------------------
(* A process counts no more than was handled, and the bounds of the model  *)
(* hold.                                                                   *)
BoundsInv ==
    \A c \in Consumers :
        /\ delta[c] \in Nat /\ handled[c] \in Nat
        /\ delta[c] <= handled[c] /\ handled[c] <= MaxHandled
        /\ starts[c] \in 0..MaxRestarts

LEMMA BoundsStep ==
    ASSUME HeartbeatTypes, BoundsInv, starts \in [Consumers -> Nat], faults \in 0..MaxFaults,
           [Next]_vars
    PROVE  BoundsInv' /\ starts' \in [Consumers -> Nat] /\ faults' \in 0..MaxFaults
<1> USE HeartbeatAssumption DEF HeartbeatTypes, BoundsInv
<1>1. CASE UNCHANGED <<delta, handled, starts>>
  <2>1. faults' \in 0..MaxFaults
    BY DEF Next, vars, process, Life, Tick, Start, ReadBase, ReadBaseFails, FirstBeat, Process,
           Beat, BeatFails, Stop, Crash, Fault
  <2> QED
    BY <1>1, <2>1
<1>2. ASSUME NEW c \in Consumers, Start(c) \/ Process(c)
      PROVE  BoundsInv' /\ starts' \in [Consumers -> Nat] /\ faults' \in 0..MaxFaults
  <2>1. CASE Start(c)
    BY <2>1 DEF Start
  <2>2. CASE Process(c)
    BY <2>2 DEF Process
  <2> QED
    BY <1>2, <2>1, <2>2
<1>3. UNCHANGED <<delta, handled, starts>> \/ \E c \in Consumers : Start(c) \/ Process(c)
  BY DEF Next, vars, process, Life, Tick, ReadBase, ReadBaseFails, FirstBeat, Beat, BeatFails,
         Stop, Crash
<1> QED
  BY <1>1, <1>2, <1>3

(* Rows, counters and timers are what the code can hold.                   *)
THEOREM HeartbeatTypeCorrect == Spec => []TypeOK
<1> DEFINE Inv == BoundsInv /\ starts \in [Consumers -> Nat] /\ faults \in 0..MaxFaults
<1>1. Init => Inv
  BY HeartbeatAssumption DEF Init, BoundsInv
<1>2. HeartbeatInv /\ Inv /\ [Next]_vars => Inv'
  BY BoundsStep DEF HeartbeatInv
<1>3. HeartbeatInv /\ Inv => TypeOK
  BY HeartbeatAssumption DEF HeartbeatInv, HeartbeatTypes, AgesInv, BoundsInv, TypeOK
<1> HIDE DEF Inv
<1> QED
  BY <1>1, <1>2, <1>3, HeartbeatCorrect, PTL DEF Spec
=============================================================================
