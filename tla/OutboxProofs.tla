---------------------------- MODULE OutboxProofs ----------------------------
(***************************************************************************)
(* The outbox for any number of messages, consumers, administrators and    *)
(* faults: it is well typed and closes only what was handled.  As long as  *)
(* no consumer stalls and replay requests come one at a time, no two       *)
(* consumers share a message and every step is one of DurableQueue or none.*)
(* With replay requests one at a time, whatever stalls, the attempts a     *)
(* message gets past the limit are paid for by faults.                     *)
(* A single consumer takes a backlog up in the order of its capture.       *)
(* Then what becomes of a lead: the outbox inside Delivery is the one of   *)
(* module Outbox, and no lead without a verdict loses its last message.    *)
(***************************************************************************)
EXTENDS Delivery, SequenceTheorems, FiniteSetTheorems, TLAPS

ConsumerState == [step : {"off", "down", "idle", "locked", "next"} \cup Working,
                  batch : Seq(Messages), seen : Nat]

Busy(c) == consumer[c].step \notin {"off", "down", "idle"}

(* A busy consumer has a message to work on, and none of them twice.       *)
BatchOK ==
    \A c \in Consumers :
        /\ Busy(c) => consumer[c].batch # <<>>
        /\ ~Busy(c) => consumer[c].batch = <<>>
        /\ IsInjective(consumer[c].batch)

BatchOf(c) == Range(consumer[c].batch)

OldIsProcessing == \A m \in old : status[m] = "PROCESSING"

HandledBeforeDone ==
    \A c \in Consumers : consumer[c].step = "done" => Current(c) \in handled

OutboxInv ==
    /\ TypeOK /\ BatchOK /\ OldIsProcessing
    /\ HandledBeforeDone /\ DoneMeansHandled

FaultCounts == [crash : Nat, stall : Nat, error : Nat, replay : Nat]

LEMMA OneMoreFault ==
    ASSUME NEW f \in FaultCounts
    PROVE  /\ [f EXCEPT !.crash = @ + 1] \in FaultCounts
           /\ [f EXCEPT !.stall = @ + 1] \in FaultCounts
           /\ [f EXCEPT !.error = @ + 1] \in FaultCounts
           /\ [f EXCEPT !.replay = @ + 1] \in FaultCounts
BY DEF FaultCounts

-----------------------------------------------------------------------------
(* Batches.                                                                *)

LEMMA TailOfBatch ==
    ASSUME NEW b \in Seq(Messages), b # <<>>, IsInjective(b)
    PROVE  /\ Head(b) \in Messages /\ Head(b) \in Range(b)
           /\ Tail(b) \in Seq(Messages) /\ IsInjective(Tail(b))
           /\ Range(Tail(b)) \subseteq Range(b) \ {Head(b)}
           /\ Len(b) \in Nat \ {0} /\ (Len(b) > 1 => Tail(b) # <<>>)
<1>1. /\ Len(b) \in Nat \ {0} /\ b \in [1..Len(b) -> Messages] /\ DOMAIN b = 1..Len(b)
  BY EmptySeq, LenProperties
<1>2. /\ Head(b) = b[1] /\ Tail(b) \in Seq(Messages) /\ Len(Tail(b)) = Len(b) - 1
      /\ \A i \in 1 .. Len(Tail(b)) : Tail(b)[i] = b[i + 1]
  BY HeadTailProperties
<1>3. DOMAIN Tail(b) = 1 .. (Len(b) - 1)
  BY <1>2, LenProperties
<1>4. IsInjective(Tail(b))
  BY <1>1, <1>2, <1>3 DEF IsInjective
<1>5. \A i \in 1 .. (Len(b) - 1) : Tail(b)[i] \in Range(b) /\ Tail(b)[i] # b[1]
  BY <1>1, <1>2 DEF IsInjective, Range
<1>6. Range(Tail(b)) \subseteq Range(b) \ {Head(b)}
  BY <1>2, <1>3, <1>5 DEF Range
<1>7. Len(b) > 1 => Tail(b) # <<>>
  <2> DEFINE t == Tail(b)
  <2>1. Len(<<>>) = 0
    BY EmptySeq
  <2>2. Len(t) = Len(b) - 1
    BY <1>2
  <2> HIDE DEF t
  <2>3. Len(b) > 1 => Len(t) # Len(<<>>)
    BY <1>1, <2>1, <2>2
  <2>4. Len(b) > 1 => t # <<>>
    BY <2>3
  <2> QED
    BY <2>4 DEF t
<1> QED
  BY <1>1, <1>2, <1>4, <1>6, <1>7 DEF Range

LEMMA BatchType ==
    ASSUME OutboxInv, NEW c \in Consumers
    PROVE  /\ consumer[c] \in ConsumerState /\ consumer[c].batch \in Seq(Messages)
           /\ Range(consumer[c].batch) \subseteq Messages
           /\ Busy(c) => Current(c) \in Range(consumer[c].batch) /\ Current(c) \in Messages
<1>1. consumer[c] \in ConsumerState /\ consumer[c].batch \in Seq(Messages)
  BY DEF OutboxInv, TypeOK, ConsumerState
<1>2. Range(consumer[c].batch) \subseteq Messages
  BY <1>1, RangeOfSeq
<1>3. Busy(c) => Current(c) \in Range(consumer[c].batch) /\ Current(c) \in Messages
  BY <1>1, TailOfBatch DEF OutboxInv, BatchOK, Current
<1> QED
  BY <1>1, <1>2, <1>3

(* What Advance leaves: the rest of the batch, or nothing.                 *)
LEMMA AdvanceType ==
    ASSUME OutboxInv, NEW c \in Consumers, Busy(c), Advance(c)
    PROVE  /\ consumer' \in [Consumers -> ConsumerState]
           /\ \A d \in Consumers \ {c} : consumer'[d] = consumer[d]
           /\ Range(consumer'[c].batch) \subseteq Range(consumer[c].batch) \ {Current(c)}
           /\ IsInjective(consumer'[c].batch)
           /\ \/ consumer'[c].step = "next" /\ consumer'[c].batch # <<>>
              \/ consumer'[c].step = "idle" /\ consumer'[c].batch = <<>>
<1> DEFINE b == consumer[c].batch
           r == IF Len(b) > 1 THEN [step |-> "next", batch |-> Tail(b), seen |-> 0] ELSE Ready
<1>1. consumer' = [consumer EXCEPT ![c] = r] /\ consumer \in [Consumers -> ConsumerState]
  BY DEF Advance, OutboxInv, TypeOK, ConsumerState
<1>2. b \in Seq(Messages) /\ b # <<>> /\ IsInjective(b)
  BY BatchType DEF OutboxInv, BatchOK
<1>3. /\ Tail(b) \in Seq(Messages) /\ IsInjective(Tail(b)) /\ Len(b) \in Nat \ {0}
      /\ Range(Tail(b)) \subseteq Range(b) \ {Head(b)} /\ (Len(b) > 1 => Tail(b) # <<>>)
  BY <1>2, TailOfBatch
<1>4. <<>> \in Seq(Messages) /\ Range(<<>>) = {} /\ IsInjective(<<>>)
  BY DEF Range, IsInjective
<1>5. r \in ConsumerState
  BY <1>3, <1>4 DEF ConsumerState, Ready
<1>6. /\ Range(r.batch) \subseteq Range(b) \ {Head(b)} /\ IsInjective(r.batch)
      /\ \/ r.step = "next" /\ r.batch # <<>>
         \/ r.step = "idle" /\ r.batch = <<>>
  BY <1>3, <1>4 DEF Ready
<1> HIDE DEF r
<1> QED
  BY <1>1, <1>5, <1>6 DEF Current

(* What TakeBatch takes: due messages, none of them twice.                 *)
LEMMA TakeBatchType ==
    ASSUME OutboxInv, NEW c \in Consumers, NEW due \in SUBSET Messages, TakeBatch(c, due)
    PROVE  /\ consumer' \in [Consumers -> ConsumerState]
           /\ \A d \in Consumers \ {c} : consumer'[d] = consumer[d]
           /\ Range(consumer'[c].batch) \subseteq due
           /\ IsInjective(consumer'[c].batch)
           /\ consumer'[c].step = "locked" /\ consumer'[c].batch # <<>>
<1>1. PICK n \in 1..BatchSize : \E batch \in [1..n -> due] :
          /\ \A i, j \in 1..n : i < j => batch[i] # batch[j]
          /\ consumer' = [consumer EXCEPT ![c] =
                             [step |-> "locked", batch |-> batch, seen |-> 0]]
  BY DEF TakeBatch
<1>8. PICK batch \in [1..n -> due] :
          /\ \A i, j \in 1..n : i < j => batch[i] # batch[j]
          /\ consumer' = [consumer EXCEPT ![c] =
                             [step |-> "locked", batch |-> batch, seen |-> 0]]
  BY <1>1
<1>2. n \in Nat \ {0} /\ BatchSize \in Nat
  BY OutboxAssumption
<1>3. batch \in [1..n -> Messages] /\ batch \in Seq(Messages)
  BY <1>2, SeqDef
<1>4. DOMAIN batch = 1..n /\ 1 \in DOMAIN batch /\ DOMAIN <<>> = {}
  BY <1>2
<1>5. Range(batch) \subseteq due /\ batch # <<>>
  BY <1>4 DEF Range
<1>6. IsInjective(batch)
  BY <1>2, <1>4, <1>8 DEF IsInjective
<1>7. [step |-> "locked", batch |-> batch, seen |-> 0] \in ConsumerState
  BY <1>3 DEF ConsumerState
<1> QED
  BY <1>8, <1>5, <1>6, <1>7 DEF OutboxInv, TypeOK, ConsumerState

(* The other steps move one consumer and leave its batch.                  *)
LEMMA StepType ==
    ASSUME OutboxInv, NEW c \in Consumers, NEW s \in {"locked", "next"} \cup Working,
           \/ consumer' = [consumer EXCEPT ![c].step = s]
           \/ \E n \in Nat : consumer' = [consumer EXCEPT ![c].step = s, ![c].seen = n]
    PROVE  /\ consumer' \in [Consumers -> ConsumerState]
           /\ \A d \in Consumers \ {c} : consumer'[d] = consumer[d]
           /\ consumer'[c].batch = consumer[c].batch /\ consumer'[c].step = s
<1>1. consumer[c] \in ConsumerState /\ consumer \in [Consumers -> ConsumerState]
  BY BatchType DEF OutboxInv, TypeOK, ConsumerState
<1>2. CASE consumer' = [consumer EXCEPT ![c].step = s]
  <2> DEFINE r == [consumer[c] EXCEPT !.step = s]
  <2>1. r \in ConsumerState /\ r.batch = consumer[c].batch /\ r.step = s
    BY <1>1 DEF ConsumerState
  <2>2. consumer' = [consumer EXCEPT ![c] = r]
    BY <1>2
  <2> HIDE DEF r
  <2> QED
    BY <1>1, <2>1, <2>2
<1>3. ASSUME NEW n \in Nat, consumer' = [consumer EXCEPT ![c].step = s, ![c].seen = n]
      PROVE  /\ consumer' \in [Consumers -> ConsumerState]
             /\ \A d \in Consumers \ {c} : consumer'[d] = consumer[d]
             /\ consumer'[c].batch = consumer[c].batch /\ consumer'[c].step = s
  BY <1>1, <1>3 DEF ConsumerState
<1> QED
  BY <1>2, <1>3

-----------------------------------------------------------------------------
(* The invariant of every run, one lemma per group of actions.             *)

(* Every consumer is ready or never runs.                                  *)
LEMMA InitIdle ==
    ASSUME Init
    PROVE  /\ consumer \in [Consumers -> ConsumerState]
           /\ \A c \in Consumers : /\ consumer[c].step \in {"idle", "off"}
                                   /\ consumer[c].batch = <<>> /\ BatchOf(c) = {}
<1>1. <<>> \in Seq(Messages) /\ Range(<<>>) = {}
  BY DEF Range
<1>2. Ready \in ConsumerState /\ Off \in ConsumerState
  BY <1>1 DEF Ready, Off, ConsumerState
<1>3. PICK crew \in Crews :
          consumer = [c \in Consumers |-> IF c \in crew THEN Ready ELSE Off]
  BY DEF Init
<1>4. \A c \in Consumers : consumer[c] = Ready \/ consumer[c] = Off
  BY <1>3
<1> QED
  BY <1>1, <1>2, <1>3, <1>4 DEF Ready, Off, BatchOf

LEMMA InitOK == Init => OutboxInv
<1> SUFFICES ASSUME Init PROVE OutboxInv
  OBVIOUS
<1>1. IsInjective(<<>>)
  BY DEF IsInjective
<1>2. TypeOK
  BY InitIdle, OutboxAssumption DEF Init, TypeOK, ConsumerState
<1>3. BatchOK /\ HandledBeforeDone
  BY <1>1, InitIdle DEF BatchOK, HandledBeforeDone, Busy
<1> QED
  BY <1>2, <1>3 DEF Init, OutboxInv, OldIsProcessing, DoneMeansHandled

(* A new place in the order concerns one message and no other.             *)
LEMMA PlacedType ==
    ASSUME OutboxInv, NEW m \in Messages, NEW e \in Placed(m)
    PROVE  /\ e \subseteq Messages \X Messages
           /\ \A k, n \in Messages : k # m /\ n # m => (<<k, n>> \in e <=> <<k, n>> \in earlier)
<1>1. PICK before \in SUBSET (Posted \ {m}), after \in SUBSET (Posted \ {m}) :
          e = {p \in earlier : m \notin {p[1], p[2]}} \cup (before \X {m}) \cup ({m} \X after)
  BY DEF Placed
<1>2. earlier \subseteq Messages \X Messages /\ Posted \subseteq Messages
  BY DEF OutboxInv, TypeOK, Posted
<1> QED
  BY <1>1, <1>2

(* Consumers untouched: what is left to show is about the rows.            *)
LEMMA RowsOnly ==
    ASSUME OutboxInv, UNCHANGED <<consumer, handled>>,
           TypeOK', OldIsProcessing', DoneMeansHandled'
    PROVE  OutboxInv'
BY DEF OutboxInv, BatchOK, HandledBeforeDone, Busy, Current

(* Rows untouched but for status: the consumer moved as the lemmas above   *)
(* say.                                                                    *)
LEMMA ConsumerOnly ==
    ASSUME OutboxInv, NEW c \in Consumers, handled \subseteq handled',
           TypeOK', OldIsProcessing', DoneMeansHandled',
           \A d \in Consumers \ {c} : consumer'[d] = consumer[d],
           Busy(c)' => consumer'[c].batch # <<>>,
           ~Busy(c)' => consumer'[c].batch = <<>>,
           IsInjective(consumer'[c].batch),
           consumer'[c].step = "done" => Current(c)' \in handled'
    PROVE  OutboxInv'
BY DEF OutboxInv, BatchOK, HandledBeforeDone, Busy, Current

LEMMA PostOK == ASSUME OutboxInv, NEW m \in Messages, Post(m) PROVE OutboxInv'
<1>1. TypeOK'
  BY PlacedType DEF OutboxInv, TypeOK, Post
<1>3. OldIsProcessing' /\ DoneMeansHandled'
  BY DEF OutboxInv, OldIsProcessing, DoneMeansHandled, Post, TypeOK
<1> QED
  BY <1>1, <1>3, RowsOnly DEF Post

LEMMA DueOK == ASSUME OutboxInv, NEW m \in Messages, Due(m) PROVE OutboxInv'
<1>1. TypeOK'
  BY PlacedType DEF OutboxInv, TypeOK, Due
<1>2. OldIsProcessing' /\ DoneMeansHandled'
  BY DEF OutboxInv, OldIsProcessing, DoneMeansHandled, Due
<1> QED
  BY <1>1, <1>2, RowsOnly DEF Due

LEMMA AgeOK ==
    ASSUME OutboxInv, NEW m \in Messages, Age(m) \/ Stall(m)
    PROVE  OutboxInv'
<1>1. TypeOK'
  <2>1. old' \subseteq Messages
    BY DEF OutboxInv, TypeOK, Age, Stall
  <2>0. faults \in FaultCounts
    BY DEF OutboxInv, TypeOK, FaultCounts
  <2>2. faults' \in FaultCounts
    BY <2>0, OneMoreFault DEF Age, Stall
  <2> QED
    BY <2>1, <2>2 DEF OutboxInv, TypeOK, Age, Stall, FaultCounts
<1>2. OldIsProcessing' /\ DoneMeansHandled'
  BY DEF OutboxInv, OldIsProcessing, DoneMeansHandled, Age, Stall
<1> QED
  BY <1>1, <1>2, RowsOnly DEF Age, Stall

LEMMA ReapOK == ASSUME OutboxInv, NEW c \in Consumers, Reap(c) PROVE OutboxInv'
<1>1. TypeOK'
  BY DEF OutboxInv, TypeOK, Reap
<1>2. OldIsProcessing' /\ DoneMeansHandled'
  BY DEF OutboxInv, TypeOK, OldIsProcessing, DoneMeansHandled, Reap
<1> QED
  BY <1>1, <1>2, RowsOnly DEF Reap

LEMMA ReadForReplayOK ==
    ASSUME OutboxInv, NEW a \in Admins, NEW m \in Messages, ReadForReplay(a, m)
    PROVE  OutboxInv'
<1>0. faults \in FaultCounts
  BY DEF OutboxInv, TypeOK, FaultCounts
<1>4. faults' \in FaultCounts
  BY <1>0, OneMoreFault DEF ReadForReplay
<1>1. TypeOK'
  BY <1>4 DEF OutboxInv, TypeOK, ReadForReplay, rows, FaultCounts
<1>2. OldIsProcessing' /\ DoneMeansHandled'
  BY DEF OutboxInv, OldIsProcessing, DoneMeansHandled, ReadForReplay, rows
<1> QED
  BY <1>1, <1>2, RowsOnly DEF ReadForReplay

LEMMA ReplayOK == ASSUME OutboxInv, NEW a \in Admins, Replay(a) PROVE OutboxInv'
<1> DEFINE m == replay[a]
<1>0. m \in Messages
  BY DEF OutboxInv, TypeOK, Replay
<1>1. TypeOK'
  BY <1>0, PlacedType DEF OutboxInv, TypeOK, Replay
<1>2. OldIsProcessing' /\ DoneMeansHandled'
  BY <1>0 DEF OutboxInv, TypeOK, OldIsProcessing, DoneMeansHandled, Replay
<1> QED
  BY <1>1, <1>2, RowsOnly DEF Replay

LEMMA LockOK == ASSUME OutboxInv, NEW c \in Consumers, Lock(c) PROVE OutboxInv'
<1> DEFINE due == {m \in Messages : Claimable(m) /\ ~Locked(m)}
<1>1. /\ consumer' \in [Consumers -> ConsumerState]
      /\ \A d \in Consumers \ {c} : consumer'[d] = consumer[d]
      /\ IsInjective(consumer'[c].batch)
      /\ consumer'[c].step = "locked" /\ consumer'[c].batch # <<>>
  BY TakeBatchType DEF Lock
<1>2. UNCHANGED <<rows, handled, replay, faults>>
  BY DEF Lock
<1>3. TypeOK'
  BY <1>1, <1>2 DEF OutboxInv, TypeOK, rows, ConsumerState
<1>4. OldIsProcessing' /\ DoneMeansHandled'
  BY <1>2 DEF OutboxInv, OldIsProcessing, DoneMeansHandled, rows
<1> QED
  BY <1>1, <1>2, <1>3, <1>4, ConsumerOnly DEF Busy, rows

LEMMA ClaimOK == ASSUME OutboxInv, NEW c \in Consumers, Claim(c) PROVE OutboxInv'
<1>1. /\ consumer' \in [Consumers -> ConsumerState]
      /\ \A d \in Consumers \ {c} : consumer'[d] = consumer[d]
      /\ consumer'[c].batch = consumer[c].batch /\ consumer'[c].step = "next"
  BY StepType DEF Claim
<1>2. TypeOK'
  BY <1>1 DEF OutboxInv, TypeOK, ConsumerState, Claim
<1>3. OldIsProcessing' /\ DoneMeansHandled'
  BY DEF OutboxInv, TypeOK, OldIsProcessing, DoneMeansHandled, Claim
<1>4. Busy(c) /\ Busy(c)'
  BY <1>1 DEF Busy, Claim
<1> QED
  BY <1>1, <1>2, <1>3, <1>4, ConsumerOnly DEF OutboxInv, BatchOK, Claim

LEMMA ReadMessageOK == ASSUME OutboxInv, NEW c \in Consumers, ReadMessage(c) PROVE OutboxInv'
<1>0. Busy(c) /\ UNCHANGED <<rows, handled, replay, faults>>
  BY DEF ReadMessage, Busy
<1>1. OldIsProcessing' /\ DoneMeansHandled'
  BY <1>0 DEF OutboxInv, OldIsProcessing, DoneMeansHandled, rows
<1>2. CASE status[Current(c)] = "PROCESSING"
  <2>1. /\ attempts[Current(c)] \in Nat
        /\ consumer' = [consumer EXCEPT ![c].step = "handle",
                                        ![c].seen = attempts[Current(c)]]
    BY <1>0, <1>2, BatchType DEF ReadMessage, OutboxInv, TypeOK
  <2>2. /\ consumer' \in [Consumers -> ConsumerState]
        /\ \A d \in Consumers \ {c} : consumer'[d] = consumer[d]
        /\ consumer'[c].batch = consumer[c].batch /\ consumer'[c].step = "handle"
    BY <2>1, StepType DEF Working
  <2>3. TypeOK'
    BY <1>0, <2>2 DEF OutboxInv, TypeOK, ConsumerState, rows
  <2> QED
    BY <1>0, <1>1, <2>2, <2>3, ConsumerOnly DEF OutboxInv, BatchOK, Busy, rows
<1>3. CASE status[Current(c)] # "PROCESSING"
  <2>1. /\ consumer' \in [Consumers -> ConsumerState]
        /\ \A d \in Consumers \ {c} : consumer'[d] = consumer[d]
        /\ IsInjective(consumer'[c].batch)
        /\ \/ consumer'[c].step = "next" /\ consumer'[c].batch # <<>>
           \/ consumer'[c].step = "idle" /\ consumer'[c].batch = <<>>
    BY <1>0, <1>3, AdvanceType DEF ReadMessage
  <2>2. TypeOK'
    BY <1>0, <2>1 DEF OutboxInv, TypeOK, ConsumerState, rows
  <2> QED
    BY <1>0, <1>1, <2>1, <2>2, ConsumerOnly DEF Busy, rows
<1> QED
  BY <1>2, <1>3

LEMMA HandlerReturnsOK ==
    ASSUME OutboxInv, NEW c \in Consumers, HandlerReturns(c)
    PROVE  OutboxInv'
<1>0. Busy(c) /\ Current(c) \in Messages /\ UNCHANGED <<rows, replay, faults>>
  BY BatchType DEF HandlerReturns, Busy
<1>1. /\ consumer' \in [Consumers -> ConsumerState]
      /\ \A d \in Consumers \ {c} : consumer'[d] = consumer[d]
      /\ consumer'[c].batch = consumer[c].batch /\ consumer'[c].step = "done"
  BY StepType DEF HandlerReturns, Working
<1>2. handled' = handled \cup {Current(c)} /\ Current(c)' = Current(c)
  BY <1>1 DEF HandlerReturns, Current
<1>3. TypeOK'
  BY <1>0, <1>1, <1>2 DEF OutboxInv, TypeOK, ConsumerState, rows
<1>4. OldIsProcessing' /\ DoneMeansHandled'
  BY <1>0, <1>2 DEF OutboxInv, OldIsProcessing, DoneMeansHandled, rows
<1> QED
  BY <1>0, <1>1, <1>2, <1>3, <1>4, ConsumerOnly DEF OutboxInv, BatchOK, Busy, rows

LEMMA HandlerThrowsOK ==
    ASSUME OutboxInv, NEW c \in Consumers, HandlerThrows(c)
    PROVE  OutboxInv'
<1>0. Busy(c) /\ UNCHANGED <<rows, handled, replay, faults>>
  BY DEF HandlerThrows, Busy
<1>1. /\ consumer' \in [Consumers -> ConsumerState]
      /\ \A d \in Consumers \ {c} : consumer'[d] = consumer[d]
      /\ consumer'[c].batch = consumer[c].batch /\ consumer'[c].step = "failed"
  BY StepType DEF HandlerThrows, Working
<1>2. TypeOK' /\ OldIsProcessing' /\ DoneMeansHandled'
  BY <1>0, <1>1 DEF OutboxInv, TypeOK, ConsumerState, rows, OldIsProcessing, DoneMeansHandled
<1> QED
  BY <1>0, <1>1, <1>2, ConsumerOnly DEF OutboxInv, BatchOK, Busy, rows

LEMMA MarkDoneOK == ASSUME OutboxInv, NEW c \in Consumers, MarkDone(c) PROVE OutboxInv'
<1>0. Busy(c) /\ Current(c) \in Messages /\ Advance(c) /\ Current(c) \in handled
  BY BatchType DEF MarkDone, Busy, OutboxInv, HandledBeforeDone
<1>1. /\ consumer' \in [Consumers -> ConsumerState]
      /\ \A d \in Consumers \ {c} : consumer'[d] = consumer[d]
      /\ IsInjective(consumer'[c].batch)
      /\ \/ consumer'[c].step = "next" /\ consumer'[c].batch # <<>>
         \/ consumer'[c].step = "idle" /\ consumer'[c].batch = <<>>
  BY <1>0, AdvanceType
<1>2. /\ status' = [status EXCEPT ![Current(c)] = "DONE"] /\ old' = old \ {Current(c)}
      /\ UNCHANGED <<attempts, waiting, earlier, handled, replay, faults>>
  BY DEF MarkDone
<1>3. TypeOK'
  BY <1>0, <1>1, <1>2 DEF OutboxInv, TypeOK, ConsumerState
<1>4. OldIsProcessing' /\ DoneMeansHandled'
  BY <1>0, <1>2 DEF OutboxInv, TypeOK, OldIsProcessing, DoneMeansHandled
<1> QED
  BY <1>1, <1>2, <1>3, <1>4, ConsumerOnly DEF Busy

LEMMA MarkFailedOK == ASSUME OutboxInv, NEW c \in Consumers, MarkFailed(c) PROVE OutboxInv'
<1>0. Busy(c) /\ Current(c) \in Messages /\ Advance(c)
  BY BatchType DEF MarkFailed, Busy
<1>1. /\ consumer' \in [Consumers -> ConsumerState]
      /\ \A d \in Consumers \ {c} : consumer'[d] = consumer[d]
      /\ IsInjective(consumer'[c].batch)
      /\ \/ consumer'[c].step = "next" /\ consumer'[c].batch # <<>>
         \/ consumer'[c].step = "idle" /\ consumer'[c].batch = <<>>
  BY <1>0, AdvanceType
<1>2. /\ \E s \in {"DEAD", "PENDING"} : status' = [status EXCEPT ![Current(c)] = s]
      /\ old' = old \ {Current(c)} /\ waiting' \subseteq waiting \cup {Current(c)}
      /\ UNCHANGED <<attempts, earlier, handled, replay, faults>>
  BY DEF MarkFailed
<1>3. TypeOK'
  BY <1>0, <1>1, <1>2 DEF OutboxInv, TypeOK, ConsumerState
<1>4. OldIsProcessing' /\ DoneMeansHandled'
  BY <1>0, <1>2 DEF OutboxInv, TypeOK, OldIsProcessing, DoneMeansHandled
<1> QED
  BY <1>1, <1>2, <1>3, <1>4, ConsumerOnly DEF Busy

(* Crash, restart and a database error that drops the batch.               *)
LEMMA DropOK ==
    ASSUME OutboxInv, NEW c \in Consumers, NEW s \in {"down", "idle"},
           consumer' = [consumer EXCEPT ![c] = [step |-> s, batch |-> <<>>, seen |-> 0]],
           UNCHANGED <<rows, handled, replay>>,
           faults' \in FaultCounts
    PROVE  OutboxInv'
<1>0. <<>> \in Seq(Messages) /\ IsInjective(<<>>)
  BY DEF IsInjective
<1>1. [step |-> s, batch |-> <<>>, seen |-> 0] \in ConsumerState
  BY <1>0 DEF ConsumerState
<1>2. /\ consumer' \in [Consumers -> ConsumerState]
      /\ \A d \in Consumers \ {c} : consumer'[d] = consumer[d]
      /\ consumer'[c].batch = <<>> /\ consumer'[c].step = s
  BY <1>1 DEF OutboxInv, TypeOK, ConsumerState
<1>3. TypeOK' /\ OldIsProcessing' /\ DoneMeansHandled'
  BY <1>2 DEF OutboxInv, TypeOK, ConsumerState, rows, OldIsProcessing, DoneMeansHandled,
     FaultCounts
<1> QED
  BY <1>0, <1>2, <1>3, ConsumerOnly DEF Busy, rows

LEMMA FaultOK ==
    ASSUME OutboxInv, NEW c \in Consumers, Crash(c) \/ Restart(c) \/ DatabaseError(c)
    PROVE  OutboxInv'
<1>4. faults \in FaultCounts
  BY DEF OutboxInv, TypeOK, FaultCounts
<1>0. faults' \in FaultCounts /\ UNCHANGED <<rows, handled, replay>>
  BY <1>4, OneMoreFault DEF Crash, Restart, DatabaseError
<1>1. CASE Crash(c)
  BY <1>0, <1>1, DropOK DEF Crash, Down
<1>2. CASE consumer' = [consumer EXCEPT ![c] = Ready]
  BY <1>0, <1>2, DropOK DEF Ready
<1> QED
  BY <1>1, <1>2 DEF Restart, DatabaseError

LEMMA DoneErrorOK == ASSUME OutboxInv, NEW c \in Consumers, DoneError(c) PROVE OutboxInv'
<1>0. /\ Busy(c) /\ Current(c) \in Messages /\ Current(c) \in handled
      /\ faults \in FaultCounts
  BY BatchType DEF DoneError, Busy, OutboxInv, HandledBeforeDone, TypeOK, FaultCounts
<1>1. /\ consumer' \in [Consumers -> ConsumerState]
      /\ \A d \in Consumers \ {c} : consumer'[d] = consumer[d]
      /\ consumer'[c].batch = consumer[c].batch /\ consumer'[c].step = "failed"
  BY StepType DEF DoneError, Working
<1>2. /\ faults' \in FaultCounts /\ UNCHANGED <<attempts, waiting, earlier, handled, replay>>
      /\ \/ UNCHANGED <<status, old>>
         \/ status' = [status EXCEPT ![Current(c)] = "DONE"] /\ old' = old \ {Current(c)}
  BY <1>0, OneMoreFault DEF DoneError
<1>3. TypeOK'
  BY <1>0, <1>1, <1>2 DEF OutboxInv, TypeOK, ConsumerState, FaultCounts
<1>4. OldIsProcessing' /\ DoneMeansHandled'
  BY <1>0, <1>2 DEF OutboxInv, TypeOK, OldIsProcessing, DoneMeansHandled
<1> QED
  BY <1>0, <1>1, <1>2, <1>3, <1>4, ConsumerOnly DEF OutboxInv, BatchOK, Busy

LEMMA OutboxStep == ASSUME OutboxInv, [Next]_vars PROVE OutboxInv'
<1>1. CASE UNCHANGED vars
  BY <1>1 DEF vars, rows, OutboxInv, TypeOK, BatchOK, OldIsProcessing,
     HandledBeforeDone, DoneMeansHandled, Busy, Current
<1>2. CASE \E m \in Messages : Post(m) \/ Due(m) \/ Age(m) \/ Stall(m)
  BY <1>2, PostOK, DueOK, AgeOK
<1>3. ASSUME NEW c \in Consumers,
             \/ Poll(c) \/ Reap(c) \/ Crash(c) \/ Restart(c)
             \/ DatabaseError(c) \/ DoneError(c)
      PROVE  OutboxInv'
  BY <1>3, LockOK, ClaimOK, ReadMessageOK, HandlerReturnsOK, HandlerThrowsOK, MarkDoneOK,
     MarkFailedOK, ReapOK, FaultOK, DoneErrorOK DEF Poll, Handler
<1>4. CASE \E a \in Admins : Replay(a) \/ \E m \in Messages : ReadForReplay(a, m)
  BY <1>4, ReplayOK, ReadForReplayOK
<1> QED
  BY <1>1, <1>2, <1>3, <1>4 DEF Next

LEMMA OutboxAlways == Spec => []OutboxInv
BY InitOK, OutboxStep, PTL DEF Spec

(* The outbox is well typed.                                               *)
THEOREM OutboxTypeCorrect == Spec => []TypeOK
BY OutboxAlways, PTL DEF OutboxInv

(* No crash, error, stall, reaped claim, replay or attempt limit closes a  *)
(* message whose handler has never returned.                               *)
THEOREM ClosedWasHandled == Spec => []DoneMeansHandled
BY OutboxAlways, PTL DEF OutboxInv

-----------------------------------------------------------------------------
(* Nobody shares a message, and the queue is durable.                      *)

(* POST /ops/outbox/:id/replay is not asked for twice at once: a second    *)
(* request that read DEAD before the first one wrote would reset a message *)
(* some consumer is at (ops.routes.ts:83).                                 *)
OneReplayAtATime == \A a, b \in Admins : a = b

LockedIsPending ==
    \A c \in Consumers : consumer[c].step = "locked" =>
        \A m \in BatchOf(c) : status[m] = "PENDING"

(* Whoever was told that its DONE has failed finds the row DONE, or not.    *)
HeldIsProcessing ==
    \A c \in Consumers : consumer[c].step # "locked" =>
        \A m \in BatchOf(c) :
            /\ m \notin old
            /\ \/ status[m] = "PROCESSING"
               \/ status[m] = "DONE" /\ consumer[c].step = "failed" /\ Current(c) = m

Disjoint ==
    \A c, d \in Consumers : c # d => \A m \in BatchOf(c) : m \notin BatchOf(d)

AskedIsDead == \A a \in Admins : replay[a] # 0 => status[replay[a]] = "DEAD"

Exclusive == LockedIsPending /\ HeldIsProcessing /\ Disjoint /\ AskedIsDead

ExclusiveInv == faults.stall = 0 => Exclusive

-----------------------------------------------------------------------------
LEMMA HeldStatus ==
    ASSUME Exclusive, NEW c \in Consumers, NEW m \in BatchOf(c)
    PROVE  status[m] \in {"PENDING", "PROCESSING", "DONE"}
BY DEF Exclusive, LockedIsPending, HeldIsProcessing

(* Steps that leave the consumers alone.                                   *)
LEMMA RowsExclusive ==
    ASSUME Exclusive, UNCHANGED consumer,
           \A c \in Consumers : \A m \in BatchOf(c) :
               status'[m] = status[m] /\ (m \in old' => m \in old),
           AskedIsDead'
    PROVE  Exclusive'
BY DEF Exclusive, LockedIsPending, HeldIsProcessing, Disjoint, BatchOf, Current

(* Steps of one consumer that leave the rows alone.                        *)
LEMMA ConsumerExclusive ==
    ASSUME Exclusive, NEW c \in Consumers, UNCHANGED <<status, old, replay>>,
           \A d \in Consumers \ {c} : consumer'[d] = consumer[d],
           BatchOf(c)' \subseteq BatchOf(c),
           BatchOf(c)' # {} => /\ consumer[c].step \notin {"locked", "failed"}
                               /\ consumer'[c].step # "locked"
    PROVE  Exclusive'
<1>1. LockedIsPending' /\ HeldIsProcessing'
  BY DEF Exclusive, LockedIsPending, HeldIsProcessing, BatchOf, Current
<1>2. Disjoint' /\ AskedIsDead'
  BY DEF Exclusive, Disjoint, AskedIsDead, BatchOf
<1> QED
  BY <1>1, <1>2 DEF Exclusive

(* The update at the end of a message, DONE, PENDING or DEAD.              *)
LEMMA SettleExclusive ==
    ASSUME OutboxInv, Exclusive, NEW c \in Consumers, consumer[c].step \in {"done", "failed"},
           NEW s, status' = [status EXCEPT ![Current(c)] = s],
           old' = old \ {Current(c)}, Advance(c), UNCHANGED replay
    PROVE  Exclusive'
<1>1. Busy(c) /\ Current(c) \in BatchOf(c) /\ Current(c) \in Messages
  BY BatchType DEF Busy, BatchOf
<1>2. /\ \A d \in Consumers \ {c} : consumer'[d] = consumer[d]
      /\ BatchOf(c)' \subseteq BatchOf(c) \ {Current(c)}
      /\ consumer'[c].step # "locked"
  BY <1>1, AdvanceType DEF BatchOf
<1>3. \A m \in Messages \ {Current(c)} : status'[m] = status[m]
  BY DEF OutboxInv, TypeOK
<1>4. \A d \in Consumers : BatchOf(d) \subseteq Messages
  BY BatchType DEF BatchOf
<1>5. \A d \in Consumers \ {c} : /\ BatchOf(d)' = BatchOf(d) /\ Current(d)' = Current(d)
                               /\ Current(c) \notin BatchOf(d)
  BY <1>1, <1>2 DEF Exclusive, Disjoint, BatchOf, Current
<1>6. status[Current(c)] # "DEAD"
  BY <1>1 DEF Exclusive, HeldIsProcessing
<1>7. LockedIsPending' /\ HeldIsProcessing'
  <2>1. \A m \in BatchOf(c)' : status[m] = "PROCESSING" /\ m \notin old /\ status'[m] = status[m]
    BY <1>2, <1>3, <1>4 DEF Exclusive, HeldIsProcessing
  <2> QED
    BY <1>2, <1>3, <1>4, <1>5, <2>1 DEF Exclusive, LockedIsPending, HeldIsProcessing
<1>8. Disjoint'
  BY <1>2, <1>5 DEF Exclusive, Disjoint
<1>9. AskedIsDead'
  BY <1>3, <1>6 DEF Exclusive, AskedIsDead, OutboxInv, TypeOK
<1> QED
  BY <1>7, <1>8, <1>9 DEF Exclusive

LEMMA LockExclusive ==
    ASSUME OutboxInv, Exclusive, NEW c \in Consumers, Lock(c)
    PROVE  Exclusive'
<1> DEFINE due == {m \in Messages : Claimable(m) /\ ~Locked(m)}
<1>1. /\ \A d \in Consumers \ {c} : consumer'[d] = consumer[d]
      /\ BatchOf(c)' \subseteq due /\ consumer'[c].step = "locked"
  BY TakeBatchType DEF Lock, BatchOf
<1>2. UNCHANGED <<status, old, replay>>
  BY DEF Lock, rows
<1>3. \A d \in Consumers \ {c} : BatchOf(d)' = BatchOf(d) /\ Current(d)' = Current(d)
  BY <1>1 DEF BatchOf, Current
<1>4. \A d \in Consumers \ {c} : \A m \in BatchOf(d) : m \notin due
  BY DEF Exclusive, HeldIsProcessing, Claimable, Locked, BatchOf
<1>5. \A m \in due : status[m] = "PENDING"
  BY DEF Claimable
<1> HIDE DEF due
<1>6. LockedIsPending' /\ HeldIsProcessing'
  BY <1>1, <1>2, <1>3, <1>5 DEF Exclusive, LockedIsPending, HeldIsProcessing
<1>7. Disjoint' /\ AskedIsDead'
  BY <1>1, <1>2, <1>3, <1>4 DEF Exclusive, Disjoint, AskedIsDead
<1> QED
  BY <1>6, <1>7 DEF Exclusive

LEMMA ClaimExclusive ==
    ASSUME OutboxInv, Exclusive, NEW c \in Consumers, Claim(c)
    PROVE  Exclusive'
<1>1. /\ \A d \in Consumers : BatchOf(d)' = BatchOf(d) /\ Current(d)' = Current(d)
      /\ \A d \in Consumers \ {c} : consumer'[d] = consumer[d]
      /\ consumer[c].step = "locked" /\ consumer'[c].step = "next"
  BY StepType DEF Claim, BatchOf, Current
<1>2. /\ \A m \in BatchOf(c) : status'[m] = "PROCESSING" /\ m \notin old
      /\ \A m \in Messages \ BatchOf(c) : status'[m] = status[m]
      /\ UNCHANGED <<old, replay>>
  BY BatchType DEF Claim, BatchOf, Exclusive, LockedIsPending, OutboxInv, OldIsProcessing
<1>3. \A d \in Consumers : BatchOf(d) \subseteq Messages
  BY BatchType DEF BatchOf
<1>4. LockedIsPending' /\ HeldIsProcessing'
  BY <1>1, <1>2, <1>3 DEF Exclusive, LockedIsPending, HeldIsProcessing, Disjoint
<1>5. Disjoint'
  BY <1>1 DEF Exclusive, Disjoint
<1>6. \A m \in BatchOf(c) : status[m] # "DEAD"
  BY HeldStatus
<1>7. AskedIsDead'
  BY <1>2, <1>6 DEF Exclusive, AskedIsDead, OutboxInv, TypeOK
<1> QED
  BY <1>4, <1>5, <1>7 DEF Exclusive

LEMMA WorkExclusive ==
    ASSUME OutboxInv, Exclusive, NEW c \in Consumers,
           ReadMessage(c) \/ Handler(c) \/ MarkDone(c) \/ MarkFailed(c)
    PROVE  Exclusive'
<1>1. CASE ReadMessage(c) /\ status[Current(c)] = "PROCESSING"
  <2>1. consumer[c].step = "next" /\ Busy(c) /\ UNCHANGED <<status, old, replay>>
    BY <1>1 DEF ReadMessage, Busy, rows
  <2>2. attempts[Current(c)] \in Nat
    BY <2>1, BatchType DEF OutboxInv, TypeOK
  <2>3. /\ \A d \in Consumers \ {c} : consumer'[d] = consumer[d]
        /\ consumer'[c].batch = consumer[c].batch /\ consumer'[c].step = "handle"
    <3>1. /\ "handle" \in {"next"} \cup Working
          /\ consumer' = [consumer EXCEPT ![c].step = "handle",
                                          ![c].seen = attempts[Current(c)]]
      BY <1>1 DEF ReadMessage, Working
    <3> QED
      BY <2>1, <2>2, <3>1, StepType
  <2> QED
    BY <2>1, <2>3, ConsumerExclusive DEF BatchOf
<1>2. CASE ReadMessage(c) /\ status[Current(c)] # "PROCESSING"
  <2>1. consumer[c].step = "next" /\ Busy(c) /\ UNCHANGED <<status, old, replay>> /\ Advance(c)
    BY <1>2 DEF ReadMessage, Busy, rows
  <2>2. /\ \A d \in Consumers \ {c} : consumer'[d] = consumer[d]
        /\ BatchOf(c)' \subseteq BatchOf(c) /\ consumer'[c].step # "locked"
    BY <2>1, AdvanceType DEF BatchOf
  <2> QED
    BY <2>1, <2>2, ConsumerExclusive
<1>3. CASE Handler(c)
  <2>1. consumer[c].step = "handle" /\ UNCHANGED <<status, old, replay>>
    BY <1>3 DEF Handler, HandlerReturns, HandlerThrows, rows
  <2>2. /\ \A d \in Consumers \ {c} : consumer'[d] = consumer[d]
        /\ consumer'[c].batch = consumer[c].batch /\ consumer'[c].step # "locked"
    <3>1. \E s \in {"done", "failed"} : consumer' = [consumer EXCEPT ![c].step = s]
      BY <1>3 DEF Handler, HandlerReturns, HandlerThrows
    <3> QED
      BY <2>1, <3>1, StepType DEF Busy, Working
  <2> QED
    BY <2>1, <2>2, ConsumerExclusive DEF BatchOf
<1>4. CASE MarkDone(c)
  BY <1>4, SettleExclusive DEF MarkDone
<1>5. CASE MarkFailed(c)
  <2>1. PICK s \in {"DEAD", "PENDING"} : status' = [status EXCEPT ![Current(c)] = s]
    BY <1>5 DEF MarkFailed
  <2> QED
    BY <1>5, <2>1, SettleExclusive DEF MarkFailed
<1> QED
  BY <1>1, <1>2, <1>3, <1>4, <1>5

LEMMA FaultExclusive ==
    ASSUME OutboxInv, Exclusive, NEW c \in Consumers,
           Crash(c) \/ Restart(c) \/ DatabaseError(c)
    PROVE  Exclusive'
<1>0. UNCHANGED <<status, old, replay>> /\ consumer \in [Consumers -> ConsumerState]
  BY DEF Crash, Restart, DatabaseError, rows, OutboxInv, TypeOK, ConsumerState
<1>1. /\ \A d \in Consumers \ {c} : consumer'[d] = consumer[d]
      /\ BatchOf(c)' = {}
  BY <1>0 DEF Crash, Restart, DatabaseError, Down, Ready, BatchOf, Range
<1> QED
  BY <1>0, <1>1, ConsumerExclusive

LEMMA DoneErrorExclusive ==
    ASSUME OutboxInv, Exclusive, NEW c \in Consumers, DoneError(c)
    PROVE  Exclusive'
<1>0. /\ Busy(c) /\ Current(c) \in BatchOf(c) /\ Current(c) \in Messages
      /\ consumer[c].step = "done" /\ UNCHANGED replay
  BY BatchType DEF DoneError, Busy, BatchOf
<1>1. /\ \A d \in Consumers \ {c} : consumer'[d] = consumer[d]
      /\ consumer'[c].batch = consumer[c].batch /\ consumer'[c].step = "failed"
  BY StepType DEF DoneError, Working
<1>2. CASE UNCHANGED <<status, old>>
  BY <1>0, <1>1, <1>2, ConsumerExclusive DEF BatchOf
<1>3. CASE status' = [status EXCEPT ![Current(c)] = "DONE"] /\ old' = old \ {Current(c)}
  <2>1. \A d \in Consumers : /\ BatchOf(d)' = BatchOf(d) /\ Current(d)' = Current(d)
                             /\ BatchOf(d) \subseteq Messages
    BY <1>1, BatchType DEF BatchOf, Current
  <2>2. /\ \A m \in Messages \ {Current(c)} : status'[m] = status[m]
        /\ status'[Current(c)] = "DONE" /\ status[Current(c)] = "PROCESSING"
    BY <1>0, <1>3 DEF OutboxInv, TypeOK, Exclusive, HeldIsProcessing
  <2>3. \A d \in Consumers \ {c} : Current(c) \notin BatchOf(d)
    BY <1>0 DEF Exclusive, Disjoint
  <2>4. LockedIsPending'
    BY <1>1, <2>1, <2>2, <2>3 DEF Exclusive, LockedIsPending
  <2>5. \A d \in Consumers \ {c} : consumer'[d].step # "locked" => \A m \in BatchOf(d)' :
            /\ m \notin old'
            /\ \/ status'[m] = "PROCESSING"
               \/ status'[m] = "DONE" /\ consumer'[d].step = "failed" /\ Current(d)' = m
    BY <1>1, <1>3, <2>1, <2>2, <2>3 DEF Exclusive, HeldIsProcessing
  <2>6. \A m \in BatchOf(c)' : /\ m \notin old'
                               /\ status'[m] = "PROCESSING" \/ m = Current(c)'
    BY <1>0, <1>3, <2>1, <2>2 DEF Exclusive, HeldIsProcessing
  <2>7. HeldIsProcessing'
    BY <1>1, <2>1, <2>2, <2>5, <2>6 DEF HeldIsProcessing
  <2>8. Disjoint' /\ AskedIsDead'
    BY <1>0, <2>1, <2>2 DEF Exclusive, Disjoint, AskedIsDead, OutboxInv, TypeOK
  <2> QED
    BY <2>4, <2>7, <2>8 DEF Exclusive
<1> QED
  BY <1>2, <1>3 DEF DoneError

LEMMA TimeExclusive ==
    ASSUME OutboxInv, Exclusive, NEW m \in Messages, Post(m) \/ Due(m) \/ Age(m)
    PROVE  Exclusive'
<1>1. UNCHANGED <<consumer, replay>>
  BY DEF Post, Due, Age
<1>2. CASE Post(m)
  <2>1. \A c \in Consumers : m \notin BatchOf(c)
    BY <1>2, HeldStatus DEF Post
  <2>2. \A n \in Messages \ {m} : status'[n] = status[n]
    BY <1>2 DEF Post, OutboxInv, TypeOK
  <2>3. \A c \in Consumers : BatchOf(c) \subseteq Messages
    BY BatchType DEF BatchOf
  <2>4. AskedIsDead'
    BY <1>1, <1>2, <2>2 DEF Exclusive, AskedIsDead, Post, OutboxInv, TypeOK
  <2> QED
    BY <1>1, <1>2, <2>1, <2>2, <2>3, <2>4, RowsExclusive DEF Post
<1>3. CASE Due(m)
  BY <1>3, RowsExclusive DEF Due, Exclusive, AskedIsDead
<1>4. CASE Age(m)
  <2>1. \A c \in Consumers : m \notin BatchOf(c)
    BY <1>4 DEF Age, Held, BatchOf
  <2>2. AskedIsDead'
    BY <1>4 DEF Age, Exclusive, AskedIsDead
  <2> QED
    BY <1>4, <2>1, <2>2, RowsExclusive DEF Age
<1> QED
  BY <1>2, <1>3, <1>4

LEMMA ReapExclusive ==
    ASSUME OutboxInv, Exclusive, NEW c \in Consumers, Reap(c)
    PROVE  Exclusive'
<1>1. \A d \in Consumers : \A m \in BatchOf(d) : m \in Messages /\ m \notin old
  BY BatchType DEF BatchOf, Exclusive, LockedIsPending, HeldIsProcessing, OutboxInv,
     OldIsProcessing
<1>2. \A m \in Messages \ old : status'[m] = status[m]
  BY DEF Reap
<1>3. AskedIsDead'
  BY <1>2 DEF Reap, Exclusive, AskedIsDead, OutboxInv, OldIsProcessing, TypeOK
<1> QED
  BY <1>1, <1>2, <1>3, RowsExclusive DEF Reap

LEMMA ReplayExclusive ==
    ASSUME OutboxInv, Exclusive, OneReplayAtATime, NEW a \in Admins,
           Replay(a) \/ \E m \in Messages : ReadForReplay(a, m)
    PROVE  Exclusive'
<1>1. CASE Replay(a)
  <2> DEFINE m == replay[a]
  <2>1. m \in Messages /\ status[m] = "DEAD"
    BY <1>1 DEF Replay, OutboxInv, TypeOK, Exclusive, AskedIsDead
  <2>2. \A c \in Consumers : BatchOf(c) \subseteq Messages /\ m \notin BatchOf(c)
    BY <2>1, HeldStatus, BatchType DEF BatchOf
  <2>3. \A n \in Messages \ {m} : status'[n] = status[n]
    BY <1>1 DEF Replay, OutboxInv, TypeOK
  <2>4. AskedIsDead'
    BY <1>1 DEF Replay, AskedIsDead, OneReplayAtATime, OutboxInv, TypeOK
  <2> QED
    BY <1>1, <2>2, <2>3, <2>4, RowsExclusive DEF Replay
<1>2. ASSUME NEW m \in Messages, ReadForReplay(a, m)
      PROVE  Exclusive'
  <2>1. UNCHANGED <<consumer, status, old>>
    BY <1>2 DEF ReadForReplay, rows
  <2>2. AskedIsDead'
    BY <1>2, <2>1 DEF ReadForReplay, Exclusive, AskedIsDead, OutboxInv, TypeOK
  <2> QED
    BY <2>1, <2>2, RowsExclusive
<1> QED
  BY <1>1, <1>2

(* A step that is no stall keeps the messages apart.                       *)
LEMMA ExclusiveStep ==
    ASSUME OutboxInv, Exclusive, OneReplayAtATime, [Next]_vars,
           ~\E m \in Messages : Stall(m)
    PROVE  Exclusive'
<1>1. CASE UNCHANGED vars
  BY <1>1 DEF vars, rows, Exclusive, LockedIsPending, HeldIsProcessing, Disjoint,
     AskedIsDead, BatchOf, Current
<1>2. CASE \E m \in Messages : Post(m) \/ Due(m) \/ Age(m)
  BY <1>2, TimeExclusive
<1>3. ASSUME NEW c \in Consumers,
             \/ Poll(c) \/ Reap(c) \/ Crash(c) \/ Restart(c)
             \/ DatabaseError(c) \/ DoneError(c)
      PROVE  Exclusive'
  BY <1>3, LockExclusive, ClaimExclusive, WorkExclusive, ReapExclusive, FaultExclusive,
     DoneErrorExclusive DEF Poll
<1>4. CASE \E a \in Admins : Replay(a) \/ \E m \in Messages : ReadForReplay(a, m)
  BY <1>4, ReplayExclusive
<1> QED
  BY <1>1, <1>2, <1>3, <1>4 DEF Next

LEMMA StallsCount ==
    ASSUME OutboxInv, [Next]_vars
    PROVE  /\ faults'.stall = 0 => faults.stall = 0 /\ ~\E m \in Messages : Stall(m)
           /\ faults'.stall \in Nat
           /\ (~\E m \in Messages : Stall(m)) => faults'.stall = faults.stall
<1>0. faults \in FaultCounts
  BY DEF OutboxInv, TypeOK, FaultCounts
<1>1. CASE \E m \in Messages : Stall(m)
  BY <1>0, <1>1 DEF Stall, FaultCounts
<1>2. CASE ~\E m \in Messages : Stall(m)
  <2>1. faults'.stall = faults.stall
    BY <1>0, <1>2 DEF FaultCounts, Next, vars, Post, Due, Age, Poll, Lock, Claim, ReadMessage,
       Handler, HandlerReturns, HandlerThrows, MarkDone, MarkFailed, Reap, Crash, Restart,
       DatabaseError, DoneError, Replay, ReadForReplay
  <2> QED
    BY <1>0, <1>2, <2>1 DEF FaultCounts
<1> QED
  BY <1>1, <1>2

LEMMA ExclusiveAlways == ASSUME OneReplayAtATime PROVE Spec => []ExclusiveInv
<1>1. Init => ExclusiveInv
  <2> SUFFICES ASSUME Init PROVE Exclusive
    BY DEF ExclusiveInv
  <2>1. \A c \in Consumers : BatchOf(c) = {} /\ consumer[c].step # "locked"
    BY InitIdle
  <2> QED
    BY <2>1 DEF Init, Exclusive, LockedIsPending, HeldIsProcessing, Disjoint, AskedIsDead
<1>2. OutboxInv /\ ExclusiveInv /\ [Next]_vars => ExclusiveInv'
  BY ExclusiveStep, StallsCount DEF ExclusiveInv
<1> QED
  BY <1>1, <1>2, OutboxAlways, PTL DEF Spec

(* INV-6, as far as it holds: two consumers work on one message only after *)
(* a stall, whatever crashes, fails, is reaped or replayed.                *)
THEOREM NobodyShares == ASSUME OneReplayAtATime PROVE Spec => []SharedOnlyAfterStall
<1>1. OutboxInv /\ ExclusiveInv => SharedOnlyAfterStall
  <2>1. SUFFICES ASSUME OutboxInv, ExclusiveInv, NEW m \in Messages, Shared(m)
                 PROVE  faults.stall > 0
    BY DEF SharedOnlyAfterStall
  <2>2. PICK c \in Consumers, d \in Consumers :
            /\ c # d
            /\ consumer[c].step \in Working /\ Current(c) = m
            /\ consumer[d].step \in Working /\ Current(d) = m
    BY <2>1 DEF Shared
  <2>3. m \in BatchOf(c) /\ m \in BatchOf(d)
    BY <2>1, <2>2, BatchType DEF BatchOf, Busy, Working
  <2>4. ~Exclusive
    BY <2>2, <2>3 DEF Exclusive, Disjoint
  <2>5. faults.stall \in Nat
    BY <2>1 DEF OutboxInv, TypeOK
  <2> QED
    BY <2>1, <2>4, <2>5 DEF ExclusiveInv
<1> QED
  BY <1>1, OutboxAlways, ExclusiveAlways, PTL

-----------------------------------------------------------------------------
(* How many attempts a message gets.                                       *)

(* Whatever stalls, a claim has to itself what it has locked.              *)
LockedApart ==
    \A c, d \in Consumers :
        c # d /\ consumer[c].step = "locked" /\ consumer[d].step = "locked" =>
            \A m \in BatchOf(c) : m \notin BatchOf(d)

LockedInv == LockedIsPending /\ LockedApart

(* Who has m in a committed batch, and which of them would put it back     *)
(* because their attempt was not the last one.                             *)
Holders(m) == {c \in Consumers : consumer[c].step # "locked" /\ m \in BatchOf(c)}

Early(m) == {c \in Consumers : /\ consumer[c].step \in Working
                               /\ Current(c) = m
                               /\ consumer[c].seen < MaxAttempts}

One(p) == IF p THEN 1 ELSE 0

(* m may be claimed in spite of its holders, now, once it is reaped or once*)
(* it is replayed.                                                         *)
Spare(m) == status[m] \notin {"PROCESSING", "DONE"} \/ m \in old

(* A holder was faster than the replay that read m as dead.                *)
Overtaken(m) == status[m] # "DEAD" /\ \E a \in Admins : replay[a] = m

(* m waits for its next attempt, or will: its claim is old, or was left.   *)
Retried(m) ==
    \/ status[m] \in {"NONE", "PENDING"}
    \/ status[m] = "PROCESSING" /\ (m \in old \/ Holders(m) = {})

HoldersOf(m) ==
    /\ IsFiniteSet(Holders(m))
    /\ Cardinality(Holders(m)) + One(Spare(m)) + One(Overtaken(m)) <= 1 + faults.stall

AttemptsOf(m) ==
    attempts[m] >= MaxAttempts =>
        attempts[m] + One(Retried(m)) + Cardinality(Early(m))
            <= MaxAttempts + faults.crash + faults.error + faults.stall

Bounds(m) == HoldersOf(m) /\ AttemptsOf(m)

BoundsInv == LockedInv /\ \A m \in Messages : Bounds(m)

(* Sets of consumers that differ by one.                                   *)
LEMMA CountOne ==
    ASSUME NEW S, IsFiniteSet(S), NEW c, NEW T, T \subseteq S \cup {c}
    PROVE  /\ IsFiniteSet(T) /\ Cardinality(T) \in Nat /\ Cardinality(S) \in Nat
           /\ Cardinality(T) <= Cardinality(S) + 1
           /\ T \subseteq S => Cardinality(T) <= Cardinality(S)
           /\ T \subseteq S \ {c} /\ c \in S => Cardinality(T) + 1 <= Cardinality(S)
<1>1. IsFiniteSet(S \cup {c}) /\ Cardinality(S \cup {c}) <= Cardinality(S) + 1
      /\ Cardinality(S) \in Nat /\ Cardinality(S \cup {c}) \in Nat
  <2>1. IsFiniteSet(S \cup {c})
        /\ Cardinality(S \cup {c}) = IF c \in S THEN Cardinality(S) ELSE Cardinality(S) + 1
    BY FS_AddElement
  <2>2. Cardinality(S) \in Nat /\ Cardinality(S \cup {c}) \in Nat
    BY <2>1, FS_CardinalityType
  <2> QED
    BY <2>1, <2>2
<1>2. IsFiniteSet(T) /\ Cardinality(T) <= Cardinality(S \cup {c})
  BY <1>1, FS_Subset
<1>3. Cardinality(T) \in Nat
  BY <1>2, FS_CardinalityType
<1>4. T \subseteq S => Cardinality(T) <= Cardinality(S)
  BY FS_Subset
<1>5. ASSUME T \subseteq S \ {c}, c \in S
      PROVE  Cardinality(T) + 1 <= Cardinality(S)
  <2>1. IsFiniteSet(S \ {c}) /\ Cardinality(S \ {c}) = Cardinality(S) - 1
    BY <1>5, FS_RemoveElement
  <2>2. Cardinality(T) <= Cardinality(S \ {c})
    BY <1>5, <2>1, FS_Subset
  <2> QED
    BY <1>1, <1>3, <2>1, <2>2
<1> QED
  BY <1>1, <1>2, <1>3, <1>4, <1>5

LEMMA EarlyHolds ==
    ASSUME OutboxInv, NEW m
    PROVE  Early(m) \subseteq Holders(m)
BY BatchType DEF Early, Holders, Working, Busy, BatchOf

-----------------------------------------------------------------------------
(* What is locked stays pending and apart.                                 *)

LEMMA LockedSame ==
    ASSUME LockedInv,
           \A d \in Consumers : consumer'[d].step = "locked" =>
               /\ consumer'[d] = consumer[d]
               /\ \A m \in BatchOf(d) : status'[m] = status[m]
    PROVE  LockedInv'
BY DEF LockedInv, LockedIsPending, LockedApart, BatchOf

LEMMA LockedStep ==
    ASSUME OutboxInv, LockedInv, [Next]_vars
    PROVE  LockedInv'
<1>0. /\ \A c \in Consumers : BatchOf(c) \subseteq Messages
      /\ consumer \in [Consumers -> ConsumerState]
      /\ status \in [Messages -> {"NONE", "PENDING", "PROCESSING", "DONE", "DEAD"}]
  BY BatchType DEF BatchOf, OutboxInv, TypeOK, ConsumerState
<1>1. CASE UNCHANGED vars
  BY <1>1, LockedSame DEF vars, rows
<1>2. ASSUME NEW m \in Messages, Post(m) \/ Due(m) \/ Age(m) \/ Stall(m)
      PROVE  LockedInv'
  <2>1. consumer' = consumer
    BY <1>2 DEF Post, Due, Age, Stall
  <2>2. ASSUME NEW d \in Consumers, consumer[d].step = "locked", NEW n \in BatchOf(d)
        PROVE  status'[n] = status[n]
    <3>1. n \in Messages /\ status[n] = "PENDING"
      BY <1>0, <2>2 DEF LockedInv, LockedIsPending
    <3> QED
      BY <1>0, <1>2, <3>1 DEF Post, Due, Age, Stall
  <2> QED
    BY <2>1, <2>2, LockedSame
<1>3. ASSUME NEW c \in Consumers, Lock(c) PROVE LockedInv'
  <2> DEFINE due == {m \in Messages : Claimable(m) /\ ~Locked(m)}
  <2>1. /\ \A d \in Consumers \ {c} : consumer'[d] = consumer[d]
        /\ BatchOf(c)' \subseteq due
    BY <1>3, TakeBatchType DEF Lock, BatchOf
  <2>2. UNCHANGED status
    BY <1>3 DEF Lock, rows
  <2>3. \A d \in Consumers \ {c} : BatchOf(d)' = BatchOf(d)
    BY <2>1 DEF BatchOf
  <2>4. \A m \in due : status[m] = "PENDING"
    BY DEF Claimable
  <2>5. \A d \in Consumers \ {c} : consumer[d].step = "locked" =>
            \A m \in BatchOf(d) : m \notin due
    BY DEF Locked, BatchOf
  <2> HIDE DEF due
  <2>6. LockedIsPending'
    BY <2>1, <2>2, <2>3, <2>4 DEF LockedInv, LockedIsPending
  <2>7. LockedApart'
    BY <2>1, <2>3, <2>5 DEF LockedInv, LockedApart
  <2> QED
    BY <2>6, <2>7 DEF LockedInv
<1>4. ASSUME NEW c \in Consumers, Claim(c) PROVE LockedInv'
  <2>1. /\ \A d \in Consumers \ {c} : consumer'[d] = consumer[d]
        /\ consumer'[c].step = "next"
    BY <1>4, StepType DEF Claim
  <2>2. \A m \in Messages \ BatchOf(c) : status'[m] = status[m]
    BY <1>0, <1>4 DEF Claim, BatchOf
  <2>3. \A d \in Consumers \ {c} : consumer[d].step = "locked" =>
            \A m \in BatchOf(d) : m \in Messages \ BatchOf(c)
    BY <1>0, <1>4 DEF Claim, LockedInv, LockedApart
  <2> QED
    BY <2>1, <2>2, <2>3, LockedSame
<1>5. ASSUME NEW c \in Consumers,
             ReadMessage(c) \/ Handler(c) \/ Crash(c) \/ Restart(c) \/ DatabaseError(c)
      PROVE  LockedInv'
  <2>1. UNCHANGED status /\ \A d \in Consumers \ {c} : consumer'[d] = consumer[d]
    BY <1>0, <1>5 DEF ReadMessage, Advance, Handler, HandlerReturns, HandlerThrows, Crash,
       Restart, DatabaseError, rows
  <2>2. consumer'[c].step # "locked"
    <3>1. CASE ReadMessage(c) /\ status[Current(c)] = "PROCESSING"
      BY <1>0, <3>1 DEF ReadMessage, ConsumerState
    <3>2. CASE ReadMessage(c) /\ status[Current(c)] # "PROCESSING"
      BY <1>0, <3>2 DEF ReadMessage, Advance, ConsumerState, Ready
    <3>3. CASE Handler(c)
      BY <1>0, <3>3 DEF Handler, HandlerReturns, HandlerThrows, ConsumerState
    <3>4. CASE Crash(c) \/ Restart(c) \/ DatabaseError(c)
      BY <1>0, <3>4 DEF Crash, Restart, DatabaseError, ConsumerState, Down, Ready
    <3> QED
      BY <1>5, <3>1, <3>2, <3>3, <3>4
  <2> QED
    BY <2>1, <2>2, LockedSame
<1>6. ASSUME NEW c \in Consumers, MarkDone(c) \/ MarkFailed(c) PROVE LockedInv'
  <2>1. /\ ~Locked(Current(c)) /\ Advance(c)
        /\ \A n \in Messages \ {Current(c)} : status'[n] = status[n]
    BY <1>0, <1>6 DEF MarkDone, MarkFailed
  <2>2. /\ \A d \in Consumers \ {c} : consumer'[d] = consumer[d]
        /\ consumer'[c].step # "locked"
    BY <1>0, <2>1 DEF Advance, Ready, ConsumerState
  <2>3. \A d \in Consumers : consumer[d].step = "locked" =>
            \A n \in BatchOf(d) : n \in Messages \ {Current(c)}
    BY <1>0, <2>1 DEF Locked, BatchOf
  <2> QED
    BY <2>1, <2>2, <2>3, LockedSame
<1>7. ASSUME NEW c \in Consumers, Reap(c) PROVE LockedInv'
  <2>1. \A d \in Consumers : consumer[d].step = "locked" =>
            \A n \in BatchOf(d) : n \in Messages \ old
    BY <1>0 DEF LockedInv, LockedIsPending, OutboxInv, OldIsProcessing
  <2> QED
    BY <1>7, <2>1, LockedSame DEF Reap
<1>8. ASSUME NEW a \in Admins, Replay(a) PROVE LockedInv'
  <2>1. \A d \in Consumers : consumer[d].step = "locked" =>
            \A n \in BatchOf(d) : n \in Messages \ {replay[a]}
    BY <1>0, <1>8 DEF Replay, Locked, BatchOf
  <2>2. UNCHANGED consumer /\ \A n \in Messages \ {replay[a]} : status'[n] = status[n]
    BY <1>0, <1>8 DEF Replay
  <2> QED
    BY <2>1, <2>2, LockedSame
<1>9. ASSUME NEW a \in Admins, NEW m \in Messages, ReadForReplay(a, m) PROVE LockedInv'
  BY <1>9, LockedSame DEF ReadForReplay, rows
<1>10. ASSUME NEW c \in Consumers, DoneError(c) PROVE LockedInv'
  <2>1. /\ \A d \in Consumers \ {c} : consumer'[d] = consumer[d]
        /\ consumer'[c].step = "failed"
    BY <1>10, StepType DEF DoneError, Working
  <2>2. ASSUME NEW d \in Consumers, consumer[d].step = "locked", NEW n \in BatchOf(d)
        PROVE  status'[n] = status[n]
    BY <1>0, <1>10, <2>2 DEF DoneError, Locked, BatchOf
  <2> QED
    BY <2>1, <2>2, LockedSame
<1> QED
  BY <1>1, <1>2, <1>3, <1>4, <1>5, <1>6, <1>7, <1>8, <1>9, <1>10 DEF Next, Poll

-----------------------------------------------------------------------------
(* Who holds what after a step.                                            *)

LEMMA NobodyMoves ==
    ASSUME UNCHANGED consumer, NEW m
    PROVE  Holders(m)' = Holders(m) /\ Early(m)' = Early(m)
BY DEF Holders, Early, BatchOf, Current

LEMMA KeepsItsBatch ==
    ASSUME NEW c \in Consumers, NEW m,
           \A d \in Consumers \ {c} : consumer'[d] = consumer[d],
           consumer'[c].batch = consumer[c].batch,
           consumer'[c].step = "locked" <=> consumer[c].step = "locked"
    PROVE  Holders(m)' = Holders(m) /\ Early(m)' \subseteq Early(m) \cup {c}
BY DEF Holders, Early, BatchOf, Current

LEMMA DropsItsBatch ==
    ASSUME NEW c \in Consumers, NEW m,
           \A d \in Consumers \ {c} : consumer'[d] = consumer[d],
           m \notin BatchOf(c)', consumer'[c].step \notin Working
    PROVE  Holders(m)' = Holders(m) \ {c} /\ Early(m)' = Early(m) \ {c}
BY DEF Holders, Early, BatchOf, Current

(* A batch loses the message it was at, and no other.                      *)
LEMMA AdvanceKeepsRest ==
    ASSUME OutboxInv, NEW c \in Consumers, Busy(c), Advance(c)
    PROVE  BatchOf(c)' = BatchOf(c) \ {Current(c)}
<1> DEFINE b == consumer[c].batch
<1>1. b \in Seq(Messages) /\ b # <<>>
  BY BatchType DEF OutboxInv, BatchOK
<1>2. /\ Len(b) \in Nat \ {0} /\ DOMAIN b = 1..Len(b) /\ Head(b) = b[1]
      /\ Tail(b) \in Seq(Messages) /\ Len(Tail(b)) = Len(b) - 1
      /\ \A i \in 1..Len(Tail(b)) : Tail(b)[i] = b[i + 1]
  BY <1>1, EmptySeq, LenProperties, HeadTailProperties
<1>3. Range(b) \subseteq Range(Tail(b)) \cup {Head(b)}
  <2>1. SUFFICES ASSUME NEW i \in 1..Len(b), i # 1 PROVE b[i] \in Range(Tail(b))
    BY <1>2 DEF Range
  <2>2. i - 1 \in 1..Len(Tail(b)) /\ (i - 1) + 1 = i
    BY <1>2, <2>1
  <2>3. DOMAIN Tail(b) = 1..Len(Tail(b))
    BY <1>2, LenProperties
  <2> QED
    BY <1>2, <2>2, <2>3 DEF Range
<1>4. Len(b) = 1 => Range(b) = {Head(b)}
  BY <1>2 DEF Range
<1>5. consumer'[c].batch = IF Len(b) > 1 THEN Tail(b) ELSE <<>>
  <2> DEFINE r == IF Len(b) > 1 THEN [step |-> "next", batch |-> Tail(b), seen |-> 0] ELSE Ready
  <2>1. consumer' = [consumer EXCEPT ![c] = r] /\ consumer \in [Consumers -> ConsumerState]
    BY DEF Advance, OutboxInv, TypeOK, ConsumerState
  <2>2. r.batch = IF Len(b) > 1 THEN Tail(b) ELSE <<>>
    BY DEF Ready
  <2> HIDE DEF r
  <2> QED
    BY <2>1, <2>2
<1>6. BatchOf(c)' \subseteq BatchOf(c) \ {Current(c)}
  BY AdvanceType DEF BatchOf
<1>7. BatchOf(c) \ {Current(c)} \subseteq BatchOf(c)'
  <2>1. BatchOf(c) = Range(b) /\ Current(c) = Head(b) /\ BatchOf(c)' = Range(consumer'[c].batch)
    BY DEF BatchOf, Current
  <2>2. CASE Len(b) > 1
    <3>1. consumer'[c].batch = Tail(b)
      BY <1>5, <2>2
    <3>2. BatchOf(c)' = Range(Tail(b))
      BY <2>1, <3>1
    <3> QED
      BY <1>3, <2>1, <3>2
  <2>3. CASE Len(b) = 1
    <3>1. BatchOf(c) \ {Current(c)} = {}
      BY <1>4, <2>1, <2>3
    <3> QED
      BY <3>1
  <2>4. Len(b) > 1 \/ Len(b) = 1
    <3>1. Len(b) \in Nat \ {0}
      BY <1>2
    <3> HIDE DEF b
    <3> QED
      BY <3>1
  <2> QED
    BY <2>2, <2>3, <2>4
<1> QED
  BY <1>6, <1>7

LEMMA AdvanceCounts ==
    ASSUME OutboxInv, NEW c \in Consumers, Busy(c), consumer[c].step # "locked", Advance(c),
           NEW m
    PROVE  /\ Holders(m)' = IF m = Current(c) THEN Holders(m) \ {c} ELSE Holders(m)
           /\ Early(m)' = Early(m) \ {c}
           /\ c \in Holders(Current(c))
<1>1. /\ BatchOf(c)' = BatchOf(c) \ {Current(c)} /\ Current(c) \in BatchOf(c)
      /\ \A d \in Consumers \ {c} : consumer'[d] = consumer[d]
      /\ consumer'[c].step \in {"next", "idle"}
  BY BatchType, AdvanceType, AdvanceKeepsRest DEF BatchOf
<1>2. \A d \in Consumers \ {c} : BatchOf(d)' = BatchOf(d) /\ Current(d)' = Current(d)
  BY <1>1 DEF BatchOf, Current
<1>3. Early(m)' = Early(m) \ {c}
  <2>1. c \notin Early(m)'
    BY <1>1 DEF Early, Working
  <2>2. \A d \in Consumers \ {c} : d \in Early(m)' <=> d \in Early(m)
    BY <1>1, <1>2 DEF Early
  <2>3. Early(m)' \subseteq Consumers /\ Early(m) \subseteq Consumers
    BY DEF Early
  <2> QED
    BY <2>1, <2>2, <2>3
<1>4. /\ \A d \in Consumers \ {c} : d \in Holders(m)' <=> d \in Holders(m)
      /\ Holders(m)' \subseteq Consumers /\ Holders(m) \subseteq Consumers
  BY <1>1, <1>2 DEF Holders
<1>5. /\ c \in Holders(m)' <=> m \in BatchOf(c)'
      /\ c \in Holders(m) <=> m \in BatchOf(c)
      /\ c \in Holders(Current(c))
  BY <1>1 DEF Holders
<1> QED
  BY <1>1, <1>3, <1>4, <1>5

-----------------------------------------------------------------------------
(* One message through one step.                                           *)

LEMMA Numbers ==
    ASSUME OutboxInv, NEW m \in Messages, HoldersOf(m)
    PROVE  /\ attempts[m] \in Nat /\ MaxAttempts \in Nat /\ MaxAttempts > 0
           /\ faults.crash \in Nat /\ faults.error \in Nat /\ faults.stall \in Nat
           /\ IsFiniteSet(Early(m)) /\ Cardinality(Early(m)) \in Nat
           /\ IsFiniteSet(Holders(m)) /\ Cardinality(Holders(m)) \in Nat
           /\ Cardinality(Early(m)) <= Cardinality(Holders(m))
<1>1. IsFiniteSet(Holders(m)) /\ Early(m) \subseteq Holders(m)
  BY EarlyHolds DEF HoldersOf
<1>2. IsFiniteSet(Early(m)) /\ Cardinality(Early(m)) <= Cardinality(Holders(m))
  BY <1>1, FS_Subset
<1>3. Cardinality(Early(m)) \in Nat /\ Cardinality(Holders(m)) \in Nat
  BY <1>1, <1>2, FS_CardinalityType
<1> QED
  BY <1>1, <1>2, <1>3, OutboxAssumption DEF OutboxInv, TypeOK

(* The row is left as it is; nobody lets go of it unless a fault has been  *)
(* counted.                                                                *)
LEMMA RowStays ==
    ASSUME OutboxInv, OutboxInv', NEW m \in Messages, Bounds(m),
           status'[m] = status[m], attempts'[m] = attempts[m],
           m \in old' <=> m \in old, Overtaken(m)' => Overtaken(m),
           Holders(m)' \subseteq Holders(m),
           attempts[m] >= MaxAttempts => Early(m)' \subseteq Early(m),
           /\ faults'.crash >= faults.crash /\ faults'.error >= faults.error
           /\ faults'.stall >= faults.stall,
           \/ Retried(m)' => Retried(m)
           \/ faults'.crash + faults'.error > faults.crash + faults.error
    PROVE  Bounds(m)'
<1>0. /\ attempts[m] \in Nat /\ MaxAttempts \in Nat
      /\ faults.crash \in Nat /\ faults.error \in Nat /\ faults.stall \in Nat
      /\ faults'.crash \in Nat /\ faults'.error \in Nat /\ faults'.stall \in Nat
  BY OutboxAssumption DEF OutboxInv, TypeOK
<1>1. /\ IsFiniteSet(Holders(m)) /\ Cardinality(Holders(m)) \in Nat
      /\ IsFiniteSet(Early(m)) /\ Cardinality(Early(m)) \in Nat
  BY Numbers DEF Bounds
<1>2. /\ IsFiniteSet(Holders(m)') /\ Cardinality(Holders(m)') \in Nat
      /\ Cardinality(Holders(m)') <= Cardinality(Holders(m))
  BY <1>1, FS_Subset, FS_CardinalityType
<1>3. attempts[m] >= MaxAttempts =>
          Cardinality(Early(m)') \in Nat /\ Cardinality(Early(m)') <= Cardinality(Early(m))
  BY <1>1, FS_Subset, FS_CardinalityType
<1>4. Spare(m)' <=> Spare(m)
  BY DEF Spare
<1>5. HoldersOf(m)'
  BY <1>0, <1>1, <1>2, <1>4 DEF Bounds, HoldersOf, One
<1>6. AttemptsOf(m)'
  BY <1>0, <1>1, <1>3 DEF Bounds, AttemptsOf, One
<1> QED
  BY <1>5, <1>6 DEF Bounds

(* A row changes and the consumers do not: the budget is kept if a row     *)
(* that becomes free to be claimed was so before, and a reset count is low.*)
LEMMA RowChanges ==
    ASSUME OutboxInv, OutboxInv', NEW m \in Messages, Bounds(m), UNCHANGED consumer,
           attempts'[m] = attempts[m] \/ attempts'[m] = 0,
           /\ faults'.crash >= faults.crash /\ faults'.error >= faults.error
           /\ faults'.stall >= faults.stall,
           One(Spare(m)') + One(Overtaken(m)') + faults.stall
               <= One(Spare(m)) + One(Overtaken(m)) + faults'.stall,
           attempts'[m] # 0 =>
               One(Retried(m)') + faults.stall <= One(Retried(m)) + faults'.stall
    PROVE  Bounds(m)'
<1>0. /\ attempts[m] \in Nat /\ MaxAttempts \in Nat /\ MaxAttempts > 0
      /\ faults.crash \in Nat /\ faults.error \in Nat /\ faults.stall \in Nat
      /\ faults'.crash \in Nat /\ faults'.error \in Nat /\ faults'.stall \in Nat
  BY OutboxAssumption DEF OutboxInv, TypeOK
<1>1. /\ IsFiniteSet(Holders(m)) /\ Cardinality(Holders(m)) \in Nat
      /\ Cardinality(Early(m)) \in Nat
  BY Numbers DEF Bounds
<1>2. Holders(m)' = Holders(m) /\ Early(m)' = Early(m)
  BY NobodyMoves
<1>3. /\ One(Spare(m)) \in Nat /\ One(Overtaken(m)) \in Nat /\ One(Retried(m)) \in Nat
      /\ One(Spare(m)') \in Nat /\ One(Overtaken(m)') \in Nat /\ One(Retried(m)') \in Nat
  BY DEF One
<1>4. HoldersOf(m)'
  BY <1>0, <1>1, <1>2, <1>3 DEF Bounds, HoldersOf
<1>5. AttemptsOf(m)'
  BY <1>0, <1>1, <1>2, <1>3 DEF Bounds, AttemptsOf
<1> QED
  BY <1>4, <1>5 DEF Bounds

LEMMA TimeBounds ==
    ASSUME OutboxInv, OutboxInv', ExclusiveInv, NEW m \in Messages, Bounds(m),
           NEW n \in Messages, Post(n) \/ Due(n) \/ Age(n) \/ Stall(n)
    PROVE  Bounds(m)'
<1>0. /\ faults \in FaultCounts /\ UNCHANGED <<consumer, attempts, replay>>
      /\ status \in [Messages -> {"NONE", "PENDING", "PROCESSING", "DONE", "DEAD"}]
  BY DEF Post, Due, Age, Stall, OutboxInv, TypeOK, FaultCounts
<1>1. Holders(m)' = Holders(m)
  BY <1>0, NobodyMoves
<1>2. CASE Post(n) \/ Due(n)
  <2>1. faults' = faults /\ old' = old
    BY <1>2 DEF Post, Due
  <2>2. status'[m] = status[m] \/ (status[m] = "NONE" /\ status'[m] = "PENDING")
    BY <1>0, <1>2 DEF Post, Due
  <2>3. (Spare(m)' <=> Spare(m)) /\ (Overtaken(m)' <=> Overtaken(m))
        /\ (Retried(m)' <=> Retried(m))
    BY <1>0, <1>1, <2>1, <2>2 DEF Spare, Overtaken, Retried
  <2> QED
    BY <1>0, <2>1, <2>3, RowChanges DEF One, FaultCounts
<1>3. CASE Age(n)
  <2>1. /\ faults' = faults /\ status' = status /\ old' = old \cup {n}
        /\ status[n] = "PROCESSING" /\ ~Held(n)
    BY <1>3 DEF Age
  <2>2. CASE m = n
    <3>1. Holders(m) = {}
      BY <2>1, <2>2 DEF Held, Holders, BatchOf
    <3>2. (Overtaken(m)' <=> Overtaken(m)) /\ (Overtaken(m) => faults.stall > 0)
      <4>1. m # 0
        BY OutboxAssumption DEF Messages
      <4>2. Overtaken(m)' <=> Overtaken(m)
        BY <1>0, <2>1 DEF Overtaken
      <4>3. Overtaken(m) => faults.stall # 0
        BY <4>1 DEF Overtaken, ExclusiveInv, Exclusive, AskedIsDead
      <4> QED
        BY <1>0, <4>2, <4>3 DEF FaultCounts
    <3>3. Retried(m)
      BY <2>1, <2>2, <3>1 DEF Retried
    <3>4. Cardinality(Holders(m)) = 0
      BY <3>1, FS_EmptySet
    <3>5. HoldersOf(m)'
      BY <1>0, <1>1, <2>1, <3>2, <3>4 DEF Bounds, HoldersOf, One, FaultCounts
    <3>6. AttemptsOf(m)'
      <4>1. Early(m)' = Early(m)
        BY <1>0, NobodyMoves
      <4>2. Cardinality(Early(m)) \in Nat /\ attempts[m] \in Nat /\ MaxAttempts \in Nat
        BY Numbers DEF Bounds
      <4> QED
        BY <1>0, <2>1, <3>3, <4>1, <4>2 DEF Bounds, AttemptsOf, One, FaultCounts
    <3> QED
      BY <3>5, <3>6 DEF Bounds
  <2>3. CASE m # n
    <3>1. (Spare(m)' <=> Spare(m)) /\ (Overtaken(m)' <=> Overtaken(m))
          /\ (Retried(m)' <=> Retried(m))
      BY <1>0, <1>1, <2>1, <2>3 DEF Spare, Overtaken, Retried
    <3> QED
      BY <1>0, <2>1, <3>1, RowChanges DEF One, FaultCounts
  <2> QED
    BY <2>2, <2>3
<1>4. CASE Stall(n)
  <2>1. /\ status' = status /\ faults'.stall = faults.stall + 1
        /\ faults'.crash = faults.crash /\ faults'.error = faults.error
    BY <1>0, <1>4 DEF Stall, FaultCounts
  <2>2. Overtaken(m)' <=> Overtaken(m)
    BY <1>0, <2>1 DEF Overtaken
  <2>3. faults.stall \in Nat /\ faults.crash \in Nat /\ faults.error \in Nat
    BY <1>0 DEF FaultCounts
  <2> QED
    BY <1>0, <2>1, <2>2, <2>3, RowChanges DEF One
<1> QED
  BY <1>2, <1>3, <1>4

LEMMA ReapBounds ==
    ASSUME OutboxInv, OutboxInv', NEW m \in Messages, Bounds(m), NEW c \in Consumers, Reap(c)
    PROVE  Bounds(m)'
<1>0. /\ faults \in FaultCounts /\ UNCHANGED <<consumer, attempts, replay, faults>>
      /\ old' = {} /\ (m \in old => status[m] = "PROCESSING" /\ status'[m] = "PENDING")
      /\ (m \notin old => status'[m] = status[m])
  BY DEF Reap, OutboxInv, TypeOK, OldIsProcessing, FaultCounts
<1>1. Holders(m)' = Holders(m)
  BY <1>0, NobodyMoves
<1>2. (Spare(m)' <=> Spare(m)) /\ (Overtaken(m)' <=> Overtaken(m)) /\ (Retried(m)' <=> Retried(m))
  BY <1>0, <1>1 DEF Spare, Overtaken, Retried
<1> QED
  BY <1>0, <1>2, RowChanges DEF One, FaultCounts

LEMMA ReplayBounds ==
    ASSUME OutboxInv, OutboxInv', OneReplayAtATime, NEW m \in Messages, Bounds(m),
           NEW a \in Admins, Replay(a) \/ \E n \in Messages : ReadForReplay(a, n)
    PROVE  Bounds(m)'
<1>0. /\ faults \in FaultCounts /\ UNCHANGED consumer
      /\ status \in [Messages -> {"NONE", "PENDING", "PROCESSING", "DONE", "DEAD"}]
      /\ replay \in [Admins -> Messages \cup {0}] /\ attempts \in [Messages -> Nat]
      /\ \A x \in Admins : x = a
  BY DEF Replay, ReadForReplay, OutboxInv, TypeOK, FaultCounts, OneReplayAtATime
<1>1. Holders(m)' = Holders(m)
  BY <1>0, NobodyMoves
<1>2. CASE Replay(a)
  <2> DEFINE n == replay[a]
  <2>1. /\ n \in Messages /\ faults' = faults /\ old' = old \ {n} /\ replay'[a] = 0
        /\ status' = [status EXCEPT ![n] = "PENDING"]
        /\ attempts' = [attempts EXCEPT ![n] = 0]
    BY <1>0, <1>2 DEF Replay
  <2>2. ~Overtaken(m)'
    <3>1. m # 0
      BY OutboxAssumption DEF Messages
    <3>2. \A x \in Admins : replay'[x] # m
      BY <1>0, <2>1, <3>1
    <3> QED
      BY <3>2 DEF Overtaken
  <2>3. CASE m = n
    <3>1. Overtaken(m) \/ Spare(m)
      BY <2>1, <2>3 DEF Overtaken, Spare
    <3>2. attempts'[m] = 0
      BY <1>0, <2>1, <2>3
    <3> HIDE DEF n
    <3>3. faults.stall \in Nat /\ faults.crash \in Nat /\ faults.error \in Nat
      BY <1>0 DEF FaultCounts
    <3> QED
      BY <1>0, <2>1, <2>2, <3>1, <3>2, <3>3, RowChanges DEF One
  <2>4. CASE m # n
    <3>1. status'[m] = status[m] /\ attempts'[m] = attempts[m] /\ (m \in old' <=> m \in old)
      BY <1>0, <2>1, <2>4
    <3>2. (Spare(m)' <=> Spare(m)) /\ (Retried(m)' <=> Retried(m))
      BY <1>1, <3>1 DEF Spare, Retried
    <3>3. faults.stall \in Nat /\ faults.crash \in Nat /\ faults.error \in Nat
      BY <1>0 DEF FaultCounts
    <3> HIDE DEF n
    <3> QED
      BY <1>0, <2>1, <2>2, <3>1, <3>2, <3>3, RowChanges DEF One
  <2> QED
    BY <2>3, <2>4
<1>3. ASSUME NEW n \in Messages, ReadForReplay(a, n)
      PROVE  Bounds(m)'
  <2>1. /\ UNCHANGED <<status, attempts, old>> /\ status[n] = "DEAD" /\ replay'[a] = n
        /\ faults'.crash = faults.crash /\ faults'.error = faults.error
        /\ faults'.stall = faults.stall
    BY <1>0, <1>3 DEF ReadForReplay, rows, FaultCounts
  <2>2. ~Overtaken(m)'
    BY <1>0, <2>1 DEF Overtaken
  <2>3. (Spare(m)' <=> Spare(m)) /\ (Retried(m)' <=> Retried(m))
    BY <1>1, <2>1 DEF Spare, Retried
  <2>4. faults.stall \in Nat /\ faults.crash \in Nat /\ faults.error \in Nat
    BY <1>0 DEF FaultCounts
  <2> QED
    BY <1>0, <2>1, <2>2, <2>3, <2>4, RowChanges DEF One
<1> QED
  BY <1>2, <1>3

(* A claim uses the room the row had: one attempt more, nobody waits.      *)
LEMMA ClaimBounds ==
    ASSUME OutboxInv, OutboxInv', LockedInv, NEW m \in Messages, Bounds(m),
           NEW c \in Consumers, Claim(c)
    PROVE  Bounds(m)'
<1>0. /\ faults \in FaultCounts /\ UNCHANGED <<faults, old, replay>>
      /\ \A d \in Consumers \ {c} : consumer'[d] = consumer[d]
      /\ consumer'[c].batch = consumer[c].batch /\ consumer'[c].step = "next"
      /\ consumer[c].step = "locked"
  BY StepType DEF Claim, OutboxInv, TypeOK, FaultCounts
<1>1. \A d \in Consumers : BatchOf(d)' = BatchOf(d) /\ Current(d)' = Current(d)
  BY <1>0 DEF BatchOf, Current
<1>2. Early(m)' = Early(m)
  <2>1. c \notin Early(m)' /\ c \notin Early(m)
    BY <1>0 DEF Early, Working
  <2>2. \A d \in Consumers \ {c} : d \in Early(m)' <=> d \in Early(m)
    BY <1>0, <1>1 DEF Early
  <2> QED
    BY <2>1, <2>2 DEF Early
<1>3. /\ c \notin Holders(m) /\ (c \in Holders(m)' <=> m \in BatchOf(c))
      /\ \A d \in Consumers \ {c} : d \in Holders(m)' <=> d \in Holders(m)
  BY <1>0, <1>1 DEF Holders
<1>4. CASE m \notin BatchOf(c)
  <2>1. Holders(m)' = Holders(m)
    BY <1>3, <1>4 DEF Holders
  <2>2. status'[m] = status[m] /\ attempts'[m] = attempts[m]
    BY <1>4 DEF Claim, BatchOf
  <2>3. (Overtaken(m)' <=> Overtaken(m)) /\ (Retried(m)' <=> Retried(m))
    BY <1>0, <2>1, <2>2 DEF Overtaken, Retried
  <2> QED
    BY <1>0, <1>2, <2>1, <2>2, <2>3, RowStays DEF FaultCounts
<1>5. CASE m \in BatchOf(c)
  <2>1. status[m] = "PENDING" /\ m \notin old
    BY <1>0, <1>5 DEF LockedInv, LockedIsPending, OutboxInv, OldIsProcessing
  <2>2. status'[m] = "PROCESSING" /\ attempts'[m] = attempts[m] + 1
    BY <1>5, <2>1 DEF Claim, BatchOf
  <2>3. ~Spare(m)' /\ Spare(m) /\ (Overtaken(m)' <=> Overtaken(m))
        /\ ~Retried(m)' /\ Retried(m)
    BY <1>0, <1>3, <1>5, <2>1, <2>2 DEF Spare, Overtaken, Retried
  <2>4. Holders(m)' \subseteq Holders(m) \cup {c}
    BY <1>3 DEF Holders
  <2>5. /\ attempts[m] \in Nat /\ MaxAttempts \in Nat
        /\ faults.crash \in Nat /\ faults.error \in Nat /\ faults.stall \in Nat
        /\ Cardinality(Early(m)) \in Nat /\ Cardinality(Holders(m)) \in Nat
        /\ Cardinality(Early(m)) <= Cardinality(Holders(m)) /\ IsFiniteSet(Holders(m))
    BY Numbers DEF Bounds
  <2>6. /\ IsFiniteSet(Holders(m)') /\ Cardinality(Holders(m)') \in Nat
        /\ Cardinality(Holders(m)') <= Cardinality(Holders(m)) + 1
    BY <2>4, <2>5, CountOne
  <2>7. HoldersOf(m)'
    BY <1>0, <2>3, <2>5, <2>6 DEF Bounds, HoldersOf, One
  <2>8. AttemptsOf(m)'
    <3>1. Cardinality(Holders(m)) <= faults.stall
      BY <2>3, <2>5 DEF Bounds, HoldersOf, One
    <3>2. CASE attempts[m] >= MaxAttempts
      BY <1>0, <1>2, <2>2, <2>3, <2>5, <3>2 DEF Bounds, AttemptsOf, One
    <3>3. CASE attempts[m] < MaxAttempts
      BY <1>0, <1>2, <2>2, <2>3, <2>5, <3>1, <3>3 DEF Bounds, AttemptsOf, One
    <3> QED
      BY <2>5, <3>2, <3>3
  <2> QED
    BY <2>7, <2>8 DEF Bounds
<1> QED
  BY <1>4, <1>5

(* What a consumer does with its batch while the rows stay as they are.    *)
LEMMA WorkBounds ==
    ASSUME OutboxInv, OutboxInv', NEW m \in Messages, Bounds(m), NEW c \in Consumers,
           Lock(c) \/ ReadMessage(c) \/ Handler(c)
    PROVE  Bounds(m)'
<1>0. /\ faults \in FaultCounts /\ UNCHANGED <<status, attempts, old, replay, faults>>
      /\ consumer \in [Consumers -> ConsumerState]
  BY DEF Lock, ReadMessage, Handler, HandlerReturns, HandlerThrows, rows, OutboxInv, TypeOK,
     FaultCounts, ConsumerState
<1>1. Overtaken(m)' <=> Overtaken(m)
  BY <1>0 DEF Overtaken
<1>2. ASSUME Holders(m)' \subseteq Holders(m), Retried(m)' => Retried(m),
             attempts[m] >= MaxAttempts => Early(m)' \subseteq Early(m)
      PROVE  Bounds(m)'
  BY <1>0, <1>1, <1>2, RowStays DEF FaultCounts
<1>3. Holders(m)' = Holders(m) => (Retried(m)' => Retried(m))
  BY <1>0 DEF Retried
<1>4. CASE Lock(c)
  <2> DEFINE due == {n \in Messages : Claimable(n) /\ ~Locked(n)}
  <2>1. /\ \A d \in Consumers \ {c} : consumer'[d] = consumer[d]
        /\ consumer'[c].step = "locked"
    BY <1>4, TakeBatchType DEF Lock
  <2>2. BatchOf(c) = {} /\ consumer[c].step = "idle"
    BY <1>4 DEF Lock, OutboxInv, BatchOK, Busy, BatchOf, Range
  <2>3. c \notin Holders(m)' /\ c \notin Holders(m) /\ c \notin Early(m)'
    BY <2>1, <2>2 DEF Holders, Early, Working
  <2>4. \A d \in Consumers \ {c} : BatchOf(d)' = BatchOf(d) /\ Current(d)' = Current(d)
    BY <2>1 DEF BatchOf, Current
  <2>5. \A d \in Consumers \ {c} : /\ d \in Holders(m)' <=> d \in Holders(m)
                                   /\ d \in Early(m)' <=> d \in Early(m)
    BY <2>1, <2>4 DEF Holders, Early
  <2>6. /\ Holders(m)' \subseteq Consumers /\ Holders(m) \subseteq Consumers
        /\ Early(m)' \subseteq Consumers
    BY DEF Holders, Early
  <2>7. Holders(m)' = Holders(m) /\ Early(m)' \subseteq Early(m)
    BY <2>3, <2>5, <2>6
  <2> QED
    BY <1>2, <1>3, <2>7
<1>5. CASE ReadMessage(c) /\ status[Current(c)] = "PROCESSING"
  <2>1. /\ consumer[c].step = "next" /\ Busy(c)
        /\ consumer' = [consumer EXCEPT ![c].step = "handle",
                                        ![c].seen = attempts[Current(c)]]
    BY <1>5 DEF ReadMessage, Busy
  <2>2. Current(c) \in Messages /\ attempts[Current(c)] \in Nat
    BY <2>1, BatchType DEF OutboxInv, TypeOK
  <2>3. /\ \A d \in Consumers \ {c} : consumer'[d] = consumer[d]
        /\ consumer'[c].batch = consumer[c].batch /\ consumer'[c].step = "handle"
    BY <2>1, <2>2, StepType DEF Working
  <2>4. Holders(m)' = Holders(m) /\ Early(m)' \subseteq Early(m) \cup {c}
    BY <2>1, <2>3, KeepsItsBatch
  <2>5. consumer'[c].seen = attempts[Current(c)] /\ Current(c)' = Current(c)
    BY <1>0, <2>1, <2>3 DEF ConsumerState, Current
  <2>6. attempts[m] >= MaxAttempts => c \notin Early(m)'
    <3>1. attempts[m] \in Nat /\ MaxAttempts \in Nat
      BY OutboxAssumption DEF OutboxInv, TypeOK
    <3>2. c \in Early(m)' => attempts[m] < MaxAttempts
      BY <2>5 DEF Early
    <3> QED
      BY <3>1, <3>2
  <2> QED
    BY <1>2, <1>3, <2>4, <2>6
<1>6. CASE ReadMessage(c) /\ status[Current(c)] # "PROCESSING"
  <2>1. consumer[c].step = "next" /\ Busy(c) /\ Advance(c)
    BY <1>6 DEF ReadMessage, Busy
  <2>2. /\ Holders(m)' = IF m = Current(c) THEN Holders(m) \ {c} ELSE Holders(m)
        /\ Early(m)' = Early(m) \ {c}
    BY <2>1, AdvanceCounts
  <2>3. Retried(m)' => Retried(m)
    BY <1>0, <1>6, <2>2 DEF Retried
  <2> QED
    BY <1>2, <2>2, <2>3
<1>7. CASE Handler(c)
  <2>1. PICK s \in {"done", "failed"} : consumer' = [consumer EXCEPT ![c].step = s]
    BY <1>7 DEF Handler, HandlerReturns, HandlerThrows
  <2>2. consumer[c].step = "handle"
    BY <1>7 DEF Handler, HandlerReturns, HandlerThrows
  <2>3. /\ \A d \in Consumers \ {c} : consumer'[d] = consumer[d]
        /\ consumer'[c].batch = consumer[c].batch /\ consumer'[c].step = s
    BY <2>1, StepType DEF Working
  <2>4. consumer'[c].seen = consumer[c].seen /\ Current(c)' = Current(c)
    BY <1>0, <2>1, <2>3 DEF ConsumerState, Current
  <2>5. Holders(m)' = Holders(m) /\ Early(m)' \subseteq Early(m) \cup {c}
    BY <2>2, <2>3, KeepsItsBatch
  <2>6. c \in Early(m)' => c \in Early(m)
    BY <2>2, <2>4 DEF Early, Working
  <2> QED
    BY <1>2, <1>3, <2>5, <2>6
<1> QED
  BY <1>4, <1>5, <1>6, <1>7

(* The update at the end: whoever puts m back was early, and is no more.   *)
LEMMA SettleBounds ==
    ASSUME OutboxInv, OutboxInv', NEW m \in Messages, Bounds(m), NEW c \in Consumers,
           MarkDone(c) \/ MarkFailed(c)
    PROVE  Bounds(m)'
<1> DEFINE n == Current(c)
<1>0. /\ faults \in FaultCounts /\ UNCHANGED <<attempts, replay, faults>>
      /\ consumer[c].step \in {"done", "failed"} /\ Advance(c) /\ old' = old \ {n}
  BY DEF MarkDone, MarkFailed, OutboxInv, TypeOK, FaultCounts
<1>1. Busy(c) /\ consumer[c].step # "locked" /\ n \in Messages
  BY <1>0, BatchType DEF Busy
<1>2. PICK s \in {"DONE", "PENDING", "DEAD"} :
          /\ status' = [status EXCEPT ![n] = s]
          /\ s = "PENDING" => consumer[c].step = "failed" /\ consumer[c].seen < MaxAttempts
  <2>1. CASE MarkDone(c)
    BY <2>1 DEF MarkDone
  <2>2. CASE MarkFailed(c)
    <3>1. consumer[c].seen \in Nat /\ MaxAttempts \in Nat
      BY OutboxAssumption, BatchType DEF ConsumerState
    <3> QED
      BY <2>2, <3>1 DEF MarkFailed
  <2> QED
    BY <2>1, <2>2
<1>3. /\ Holders(m)' = IF m = n THEN Holders(m) \ {c} ELSE Holders(m)
      /\ Early(m)' = Early(m) \ {c} /\ c \in Holders(n)
  BY <1>0, <1>1, AdvanceCounts
<1>4. CASE m # n
  <2>1. status'[m] = status[m] /\ (m \in old' <=> m \in old) /\ attempts'[m] = attempts[m]
    BY <1>0, <1>1, <1>2, <1>4 DEF OutboxInv, TypeOK
  <2>2. Holders(m)' = Holders(m)
    BY <1>3, <1>4
  <2>3. (Overtaken(m)' <=> Overtaken(m)) /\ (Retried(m)' <=> Retried(m))
    BY <1>0, <2>1, <2>2 DEF Overtaken, Retried
  <2> QED
    BY <1>0, <1>3, <2>1, <2>2, <2>3, RowStays DEF FaultCounts
<1>5. CASE m = n
  <2>1. status'[m] = s /\ attempts'[m] = attempts[m]
    BY <1>0, <1>1, <1>2, <1>5 DEF OutboxInv, TypeOK
  <2>2. /\ attempts[m] \in Nat /\ MaxAttempts \in Nat
        /\ faults.crash \in Nat /\ faults.error \in Nat /\ faults.stall \in Nat
        /\ IsFiniteSet(Early(m)) /\ Cardinality(Early(m)) \in Nat
        /\ IsFiniteSet(Holders(m)) /\ Cardinality(Holders(m)) \in Nat
    BY Numbers DEF Bounds
  <2>3. /\ IsFiniteSet(Holders(m)') /\ Cardinality(Holders(m)') \in Nat
        /\ Cardinality(Holders(m)') + 1 <= Cardinality(Holders(m))
    <3>1. Holders(m)' \subseteq Holders(m) \ {c} /\ c \in Holders(m)
      BY <1>3, <1>5
    <3> QED
      BY <2>2, <3>1, CountOne
  <2>4. /\ Cardinality(Early(m)') \in Nat /\ Cardinality(Early(m)') <= Cardinality(Early(m))
        /\ c \in Early(m) => Cardinality(Early(m)') + 1 <= Cardinality(Early(m))
    BY <1>3, <2>2, CountOne
  <2>5. s = "PENDING" => c \in Early(m)
    BY <1>2, <1>5 DEF Early, Working
  <2>6. /\ Overtaken(m)' => Spare(m) \/ Overtaken(m)
        /\ Retried(m)' => s = "PENDING"
    BY <1>0, <2>1 DEF Spare, Overtaken, Retried
  <2>7. HoldersOf(m)'
    BY <1>0, <2>2, <2>3, <2>6 DEF Bounds, HoldersOf, One
  <2>8. AttemptsOf(m)'
    BY <1>0, <2>1, <2>2, <2>4, <2>5, <2>6 DEF Bounds, AttemptsOf, One
  <2> QED
    BY <2>7, <2>8 DEF Bounds
<1> QED
  BY <1>4, <1>5

(* Each fault pays for the attempt it may cost.                            *)
LEMMA FaultBounds ==
    ASSUME OutboxInv, OutboxInv', NEW m \in Messages, Bounds(m), NEW c \in Consumers,
           Crash(c) \/ Restart(c) \/ DatabaseError(c)
    PROVE  Bounds(m)'
<1>0. /\ faults \in FaultCounts /\ UNCHANGED <<status, attempts, old, replay>>
      /\ consumer \in [Consumers -> ConsumerState]
  BY DEF Crash, Restart, DatabaseError, rows, OutboxInv, TypeOK, FaultCounts, ConsumerState
<1>1. Overtaken(m)' <=> Overtaken(m)
  BY <1>0 DEF Overtaken
<1>2. faults.stall \in Nat /\ faults.crash \in Nat /\ faults.error \in Nat
  BY <1>0 DEF FaultCounts
<1>3. /\ faults'.crash >= faults.crash /\ faults'.error >= faults.error
      /\ faults'.stall >= faults.stall
      /\ Restart(c) \/ faults'.crash + faults'.error > faults.crash + faults.error
  BY <1>0, <1>2 DEF Crash, Restart, DatabaseError, FaultCounts
<1>4. /\ \A d \in Consumers \ {c} : consumer'[d] = consumer[d]
      /\ BatchOf(c)' = {} /\ consumer'[c].step \notin Working
  BY <1>0 DEF Crash, Restart, DatabaseError, Down, Ready, BatchOf, Range, Working
<1>5. Holders(m)' = Holders(m) \ {c} /\ Early(m)' = Early(m) \ {c}
  BY <1>4, DropsItsBatch
<1>6. Restart(c) => c \notin Holders(m)
  BY DEF Restart, OutboxInv, BatchOK, Busy, Holders, BatchOf, Range
<1>7. Restart(c) => (Retried(m)' => Retried(m))
  BY <1>0, <1>5, <1>6 DEF Retried
<1> QED
  BY <1>0, <1>1, <1>3, <1>5, <1>7, RowStays

(* The consumer still holds a row that is DONE: nobody claims it, and an   *)
(* early attempt may still put it back.                                    *)
LEMMA DoneErrorBounds ==
    ASSUME OutboxInv, OutboxInv', NEW m \in Messages, Bounds(m), NEW c \in Consumers,
           DoneError(c)
    PROVE  Bounds(m)'
<1> DEFINE n == Current(c)
<1>0. /\ faults \in FaultCounts /\ UNCHANGED <<attempts, replay>>
      /\ consumer \in [Consumers -> ConsumerState] /\ consumer[c].step = "done"
      /\ consumer' = [consumer EXCEPT ![c].step = "failed"]
  BY DEF DoneError, OutboxInv, TypeOK, FaultCounts, ConsumerState
<1>1. /\ faults.stall \in Nat /\ faults.crash \in Nat /\ faults.error \in Nat
      /\ faults'.stall = faults.stall /\ faults'.crash = faults.crash
      /\ faults'.error = faults.error + 1
  BY <1>0 DEF DoneError, FaultCounts
<1>2. /\ \A d \in Consumers \ {c} : consumer'[d] = consumer[d]
      /\ consumer'[c].batch = consumer[c].batch /\ consumer'[c].step = "failed"
  BY <1>0, StepType DEF Working
<1>3. consumer'[c].seen = consumer[c].seen /\ Current(c)' = Current(c)
  BY <1>0, <1>2 DEF ConsumerState, Current
<1>4. Holders(m)' = Holders(m) /\ Early(m)' \subseteq Early(m) \cup {c}
  BY <1>0, <1>2, KeepsItsBatch
<1>5. c \in Early(m)' => c \in Early(m)
  BY <1>0, <1>3 DEF Early, Working
<1>6. CASE status'[m] = status[m] /\ (m \in old' <=> m \in old)
  <2>1. (Overtaken(m)' <=> Overtaken(m)) /\ (Retried(m)' <=> Retried(m))
    BY <1>0, <1>4, <1>6 DEF Overtaken, Retried
  <2> QED
    BY <1>0, <1>1, <1>4, <1>5, <1>6, <2>1, RowStays
<1>7. CASE m = n /\ status'[m] = "DONE" /\ m \notin old'
  <2>1. /\ ~Spare(m)' /\ (Overtaken(m)' => Spare(m) \/ Overtaken(m)) /\ ~Retried(m)'
    BY <1>0, <1>7 DEF Spare, Overtaken, Retried
  <2>2. /\ attempts[m] \in Nat /\ MaxAttempts \in Nat
        /\ IsFiniteSet(Early(m)) /\ Cardinality(Early(m)) \in Nat
        /\ IsFiniteSet(Holders(m)) /\ Cardinality(Holders(m)) \in Nat
    BY Numbers DEF Bounds
  <2>3. Cardinality(Early(m)') \in Nat /\ Cardinality(Early(m)') <= Cardinality(Early(m))
    BY <1>4, <1>5, <2>2, FS_Subset, FS_CardinalityType
  <2>4. HoldersOf(m)'
    BY <1>1, <1>4, <2>1, <2>2 DEF Bounds, HoldersOf, One
  <2>5. AttemptsOf(m)'
    BY <1>0, <1>1, <2>1, <2>2, <2>3 DEF Bounds, AttemptsOf, One
  <2> QED
    BY <2>4, <2>5 DEF Bounds
<1> QED
  <2>1. status \in [Messages -> {"NONE", "PENDING", "PROCESSING", "DONE", "DEAD"}]
    BY DEF OutboxInv, TypeOK
  <2> QED
    BY <1>6, <1>7, <2>1 DEF DoneError

LEMMA BoundsInit == Init => BoundsInv
<1> SUFFICES ASSUME Init PROVE BoundsInv
  OBVIOUS
<1>1. \A c \in Consumers : BatchOf(c) = {} /\ consumer[c].step # "locked"
  BY InitIdle
<1>2. LockedInv
  BY <1>1 DEF LockedInv, LockedIsPending, LockedApart
<1>3. ASSUME NEW m \in Messages PROVE Bounds(m)
  <2>1. Holders(m) = {}
    BY <1>1 DEF Holders
  <2>2. IsFiniteSet(Holders(m)) /\ Cardinality(Holders(m)) = 0
    BY <2>1, FS_EmptySet
  <2>3. ~Overtaken(m)
    <3>1. m # 0
      BY OutboxAssumption DEF Messages
    <3> QED
      BY <3>1 DEF Init, Overtaken
  <2>4. attempts[m] = 0 /\ faults.stall = 0 /\ MaxAttempts > 0
    BY OutboxAssumption DEF Init
  <2> QED
    BY <2>2, <2>3, <2>4, OutboxAssumption DEF Bounds, HoldersOf, AttemptsOf, One
<1> QED
  BY <1>2, <1>3 DEF BoundsInv

LEMMA BoundsStep ==
    ASSUME OutboxInv, OutboxInv', ExclusiveInv, BoundsInv, OneReplayAtATime, [Next]_vars
    PROVE  BoundsInv'
<1>1. LockedInv'
  BY LockedStep DEF BoundsInv
<1>2. ASSUME NEW m \in Messages PROVE Bounds(m)'
  <2>1. Bounds(m) /\ LockedInv
    BY DEF BoundsInv
  <2>2. CASE UNCHANGED vars
    <3>1. UNCHANGED <<status, attempts, old, consumer, replay, faults>>
      BY <2>2 DEF vars, rows
    <3> QED
      BY <2>1, <3>1 DEF Bounds, HoldersOf, AttemptsOf, Holders, Early, BatchOf, Current,
         Spare, Overtaken, Retried
  <2>3. CASE \E n \in Messages : Post(n) \/ Due(n) \/ Age(n) \/ Stall(n)
    BY <2>1, <2>3, TimeBounds
  <2>4. ASSUME NEW c \in Consumers,
               \/ Poll(c) \/ Reap(c) \/ Crash(c) \/ Restart(c)
               \/ DatabaseError(c) \/ DoneError(c)
        PROVE  Bounds(m)'
    BY <2>1, <2>4, ClaimBounds, WorkBounds, SettleBounds, ReapBounds, FaultBounds,
       DoneErrorBounds DEF Poll
  <2>5. CASE \E a \in Admins : Replay(a) \/ \E n \in Messages : ReadForReplay(a, n)
    BY <2>1, <2>5, ReplayBounds
  <2> QED
    BY <2>2, <2>3, <2>4, <2>5 DEF Next
<1> QED
  BY <1>1, <1>2 DEF BoundsInv

(* FR-022, as far as it holds: attempts past the limit are no more than    *)
(* the crashes, database errors and stalls that have happened, for any     *)
(* number of consumers and replays, with one replay request at a time.     *)
THEOREM LimitedAttempts == ASSUME OneReplayAtATime PROVE Spec => []ExtraAttemptsAreFaults
<1>1. OutboxInv /\ BoundsInv => ExtraAttemptsAreFaults
  <2> SUFFICES ASSUME OutboxInv, BoundsInv, NEW m \in Messages
               PROVE  attempts[m] <= MaxAttempts + faults.crash + faults.error + faults.stall
    BY DEF ExtraAttemptsAreFaults
  <2>1. Bounds(m)
    BY DEF BoundsInv
  <2>2. /\ attempts[m] \in Nat /\ MaxAttempts \in Nat
        /\ faults.crash \in Nat /\ faults.error \in Nat /\ faults.stall \in Nat
        /\ Cardinality(Early(m)) \in Nat
    BY <2>1, Numbers DEF Bounds
  <2> QED
    BY <2>1, <2>2 DEF Bounds, AttemptsOf, One
<1> QED
  BY <1>1, BoundsInit, BoundsStep, OutboxAlways, ExclusiveAlways, PTL DEF Spec

-----------------------------------------------------------------------------
(* The order in which a single consumer takes up its messages.             *)

PostedInOrder == \A m, n \in Messages : m < n /\ status[n] # "NONE" => status[m] # "NONE"

(* What has had no attempt is due, or not yet captured.                    *)
UntriedIsDue == \A m \in Messages :
    /\ attempts[m] = 0 => status[m] \in {"NONE", "PENDING"} /\ m \notin waiting
    /\ attempts[m] > 0 => status[m] # "NONE"

(* A batch leaves behind nothing untried that comes before, and what comes *)
(* in it after a message that should be second has had an earlier attempt. *)
TakesInOrder(c) ==
    /\ consumer[c].step = "locked" =>
          \A n \in BatchOf(c) : \A m \in Messages :
              m < n /\ <<m, n>> \in earlier /\ attempts[m] = 0 /\ attempts[n] = 0
                  => m \in BatchOf(c)
    /\ \A m \in BatchOf(c) :
          m \notin waiting /\ (consumer[c].step # "locked" => attempts[m] > 0)
    /\ \A i, j \in DOMAIN consumer[c].batch :
          /\ i < j /\ consumer[c].batch[j] < consumer[c].batch[i]
          /\ <<consumer[c].batch[j], consumer[c].batch[i]>> \in earlier
          /\ attempts[consumer[c].batch[i]] = One(consumer[c].step # "locked")
          => attempts[consumer[c].batch[j]] > One(consumer[c].step # "locked")

InOrder ==
    /\ \A a \in Admins : replay[a] = 0
    /\ PostedInOrder /\ UntriedIsDue
    /\ \A c \in Consumers : TakesInOrder(c)

OrderInv == OneRuns /\ faults.replay = 0 => InOrder

LEMMA OrderTypes ==
    ASSUME OutboxInv
    PROVE  /\ Messages \subseteq Nat /\ attempts \in [Messages -> Nat]
           /\ status \in [Messages -> {"NONE", "PENDING", "PROCESSING", "DONE", "DEAD"}]
           /\ waiting \subseteq Messages /\ old \subseteq Messages
           /\ earlier \subseteq Messages \X Messages
           /\ consumer \in [Consumers -> ConsumerState]
           /\ replay \in [Admins -> Messages \cup {0}]
           /\ \A c \in Consumers : BatchOf(c) \subseteq Messages
<1>1. Messages \subseteq Nat
  BY OutboxAssumption DEF Messages
<1>2. \A c \in Consumers : BatchOf(c) \subseteq Messages
  BY BatchType DEF BatchOf
<1> QED
  BY <1>1, <1>2 DEF OutboxInv, TypeOK, ConsumerState

(* Who is not running never will.                                          *)
LEMMA OneStillRuns ==
    ASSUME OutboxInv, [Next]_vars, OneRuns'
    PROVE  OneRuns
<1> DEFINE MovesOnly(d) == /\ consumer'[d].step # "off"
                           /\ \A c \in Consumers \ {d} : consumer'[c] = consumer[c]
<1>0. consumer \in [Consumers -> ConsumerState]
  BY OrderTypes
<1>1. ASSUME NEW d \in Consumers, Lock(d)
      PROVE  MovesOnly(d)
  BY <1>1, TakeBatchType DEF Lock
<1>2. ASSUME NEW d \in Consumers, Busy(d), Advance(d)
      PROVE  MovesOnly(d)
  BY <1>2, AdvanceType
<1>3. ASSUME NEW d \in Consumers, ReadMessage(d)
      PROVE  MovesOnly(d)
  BY <1>0, <1>2, <1>3 DEF ReadMessage, Busy, ConsumerState
<1>4. ASSUME NEW d \in Consumers, Claim(d) \/ Handler(d) \/ DoneError(d)
      PROVE  MovesOnly(d)
  BY <1>0, <1>4 DEF Claim, Handler, HandlerReturns, HandlerThrows, DoneError, ConsumerState
<1>5. ASSUME NEW d \in Consumers, MarkDone(d) \/ MarkFailed(d)
      PROVE  MovesOnly(d)
  BY <1>2, <1>5 DEF MarkDone, MarkFailed, Busy
<1>6. ASSUME NEW d \in Consumers, Crash(d) \/ Restart(d) \/ DatabaseError(d)
      PROVE  MovesOnly(d)
  BY <1>0, <1>6 DEF Crash, Restart, DatabaseError, Down, Ready
<1>7. \/ UNCHANGED consumer
      \/ \E d \in Consumers : \/ Poll(d) \/ Crash(d) \/ Restart(d)
                              \/ DatabaseError(d) \/ DoneError(d)
  BY DEF Next, vars, Post, Due, Age, Stall, Reap, Replay, ReadForReplay
<1>8. UNCHANGED consumer \/ \E d \in Consumers : MovesOnly(d)
  BY <1>1, <1>3, <1>4, <1>5, <1>6, <1>7 DEF Poll
<1>9. \A c \in Consumers : consumer'[c].step = "off" => consumer[c].step = "off"
  BY <1>8
<1> QED
  BY <1>9 DEF OneRuns

LEMMA OthersAreOff ==
    ASSUME OutboxInv, OneRuns, NEW c \in Consumers, consumer[c].step # "off",
           NEW d \in Consumers \ {c}
    PROVE  consumer[d].step = "off" /\ consumer[d].batch = <<>> /\ BatchOf(d) = {}
<1>1. consumer[d].step = "off"
  BY DEF OneRuns
<1>2. consumer[d].batch = <<>>
  BY <1>1 DEF OutboxInv, BatchOK, Busy
<1> QED
  BY <1>1, <1>2 DEF BatchOf, Range

LEMMA BatchDropped ==
    ASSUME NEW c \in Consumers, consumer'[c].batch = <<>>, consumer'[c].step # "locked"
    PROVE  TakesInOrder(c)'
BY DEF TakesInOrder, BatchOf, Range

(* Rows change in a way that leaves the untried ones alone.                *)
LEMMA UntriedKept ==
    ASSUME InOrder, UNCHANGED <<attempts, replay>>,
           \A m \in Messages : /\ status'[m] = "NONE" <=> status[m] = "NONE"
                               /\ attempts[m] = 0 => /\ status'[m] = status[m]
                                                     /\ m \in waiting' <=> m \in waiting,
           \A c \in Consumers : TakesInOrder(c)'
    PROVE  InOrder'
<1>1. PostedInOrder' /\ UntriedIsDue'
  BY DEF InOrder, PostedInOrder, UntriedIsDue
<1> QED
  BY <1>1 DEF InOrder

(* The same, by a step of one consumer.                                    *)
LEMMA UntriedKeptBy ==
    ASSUME OutboxInv, OneRuns, InOrder, UNCHANGED <<attempts, replay>>,
           \A m \in Messages : /\ status'[m] = "NONE" <=> status[m] = "NONE"
                               /\ attempts[m] = 0 => /\ status'[m] = status[m]
                                                     /\ m \in waiting' <=> m \in waiting,
           NEW c \in Consumers, consumer[c].step # "off",
           \A d \in Consumers \ {c} : consumer'[d] = consumer[d],
           TakesInOrder(c)'
    PROVE  InOrder'
<1>1. ASSUME NEW d \in Consumers \ {c} PROVE TakesInOrder(d)'
  BY <1>1, OthersAreOff, BatchDropped
<1> QED
  BY <1>1, UntriedKept

LEMMA BatchKept ==
    ASSUME OutboxInv, NEW c \in Consumers, TakesInOrder(c), UNCHANGED attempts,
           consumer'[c].batch = consumer[c].batch,
           consumer'[c].step = "locked" <=> consumer[c].step = "locked",
           \A n \in BatchOf(c) :
               /\ n \in waiting' => n \in waiting
               /\ \A m \in Messages :
                     m < n /\ <<m, n>> \in earlier' =>
                        <<m, n>> \in earlier \/ (m \notin BatchOf(c) /\ attempts[m] > 0)
    PROVE  TakesInOrder(c)'
<1> DEFINE b == consumer[c].batch
           base == One(consumer[c].step # "locked")
<1>1. /\ BatchOf(c) \subseteq Messages /\ BatchOf(c)' = BatchOf(c)
      /\ \A i \in DOMAIN b : b[i] \in BatchOf(c)
  BY OrderTypes DEF BatchOf, Range
<1>2. \A m \in Messages : attempts[m] \in Nat
  BY OrderTypes
<1>3. base' = base
  BY DEF One
<1>4. \A i, j \in DOMAIN b :
          i < j /\ b[j] < b[i] /\ <<b[j], b[i]>> \in earlier /\ attempts[b[i]] = base
              => attempts[b[j]] > base
  BY DEF TakesInOrder
<1>5. \A i, j \in DOMAIN b :
          i < j /\ b[j] < b[i] /\ <<b[j], b[i]>> \in earlier' /\ attempts[b[i]] = base
              => attempts[b[j]] > base
  BY <1>1, <1>4
<1>6. \A n \in BatchOf(c) : \A m \in Messages :
          consumer[c].step = "locked" /\ m < n /\ <<m, n>> \in earlier'
          /\ attempts[m] = 0 /\ attempts[n] = 0 => m \in BatchOf(c)
  BY DEF TakesInOrder
<1>7. \A m \in BatchOf(c) :
          m \notin waiting' /\ (consumer[c].step # "locked" => attempts[m] > 0)
  BY DEF TakesInOrder
<1> QED
  BY <1>1, <1>3, <1>5, <1>6, <1>7 DEF TakesInOrder

LEMMA BatchAdvanced ==
    ASSUME OutboxInv, NEW c \in Consumers, TakesInOrder(c), UNCHANGED <<attempts, earlier>>,
           waiting' \subseteq waiting \cup {Current(c)},
           Busy(c), consumer[c].step # "locked", Advance(c)
    PROVE  TakesInOrder(c)'
<1> DEFINE b == consumer[c].batch
           t == Tail(b)
<1>1. b \in Seq(Messages) /\ b # <<>> /\ consumer \in [Consumers -> ConsumerState]
  BY BatchType, OrderTypes DEF OutboxInv, BatchOK
<1>2. CASE Len(b) > 1
  <2>1. consumer'[c] = [step |-> "next", batch |-> t, seen |-> 0]
    BY <1>1, <1>2 DEF Advance
  <2>2. /\ t \in Seq(Messages) /\ Len(t) = Len(b) - 1
        /\ \A i \in 1..Len(t) : t[i] = b[i + 1]
    BY <1>1, HeadTailProperties
  <2>3. Len(b) \in Nat /\ DOMAIN b = 1..Len(b) /\ DOMAIN t = 1..Len(t)
    BY <1>1, <2>2, LenProperties
  <2>9. Range(t) \subseteq Range(b) \ {Current(c)}
    BY <1>1, TailOfBatch DEF OutboxInv, BatchOK, Current
  <2> HIDE DEF t
  <2>4. \A i \in DOMAIN t : i + 1 \in DOMAIN b /\ t[i] = b[i + 1]
    BY <2>2, <2>3
  <2>5. /\ \A m \in Range(b) : attempts[m] > 0 /\ m \notin waiting
        /\ \A i, j \in DOMAIN b :
              i < j /\ b[j] < b[i] /\ <<b[j], b[i]>> \in earlier /\ attempts[b[i]] = 1
                  => attempts[b[j]] > 1
    BY DEF TakesInOrder, One, BatchOf
  <2>6. \A m \in Range(t) : attempts[m] > 0 /\ m \notin waiting'
    BY <2>5, <2>9
  <2>7. ASSUME NEW i \in DOMAIN t, NEW j \in DOMAIN t, i < j, t[j] < t[i],
               <<t[j], t[i]>> \in earlier, attempts[t[i]] = 1
        PROVE  attempts[t[j]] > 1
    <3>1. i + 1 \in DOMAIN b /\ j + 1 \in DOMAIN b /\ i + 1 < j + 1
      BY <2>3, <2>4, <2>7
    <3>2. t[i] = b[i + 1] /\ t[j] = b[j + 1]
      BY <2>4
    <3> QED
      BY <2>5, <2>7, <3>1, <3>2
  <2> QED
    BY <2>1, <2>6, <2>7 DEF TakesInOrder, BatchOf, One
<1>3. CASE ~(Len(b) > 1)
  <2>1. consumer'[c] = Ready
    BY <1>1, <1>3 DEF Advance
  <2> QED
    BY <2>1, BatchDropped DEF Ready
<1> QED
  BY <1>2, <1>3

(* A capture is numbered after all that are there, and no batch has it.    *)
LEMMA PostInOrder ==
    ASSUME OutboxInv, InOrder, LockedIsPending, NEW k \in Messages, Post(k)
    PROVE  InOrder'
<1>0. /\ UNCHANGED <<attempts, waiting, consumer, replay>> /\ status[k] = "NONE"
      /\ status' = [status EXCEPT ![k] = "PENDING"] /\ earlier' \in Placed(k)
      /\ k > 1 => status[k - 1] # "NONE"
  BY DEF Post
<1>1. \A m \in Messages : status'[m] = IF m = k THEN "PENDING" ELSE status[m]
  BY <1>0, OrderTypes
<1>2. \A m \in Messages : m < k => status[m] # "NONE"
  <2> SUFFICES ASSUME NEW m \in Messages, m < k PROVE status[m] # "NONE"
    OBVIOUS
  <2>1. k > 1 /\ k - 1 \in Messages /\ (m = k - 1 \/ m < k - 1)
    BY OutboxAssumption DEF Messages
  <2> QED
    BY <1>0, <2>1 DEF InOrder, PostedInOrder
<1>3. \A n \in Messages : k < n => status[n] = "NONE"
  BY <1>0 DEF InOrder, PostedInOrder
<1>4. PostedInOrder'
  BY <1>0, <1>1, <1>2, <1>3 DEF InOrder, PostedInOrder
<1>5. UntriedIsDue'
  BY <1>0, <1>1 DEF InOrder, UntriedIsDue
<1>6. ASSUME NEW c \in Consumers PROVE TakesInOrder(c)'
  <2>0. TakesInOrder(c) /\ BatchOf(c) \subseteq Messages
    BY OrderTypes DEF InOrder
  <2>1. \A n \in BatchOf(c) : status[n] # "NONE"
    <3>1. CASE consumer[c].step = "locked"
      BY <3>1 DEF LockedIsPending
    <3>2. CASE consumer[c].step # "locked"
      <4>1. \A n \in BatchOf(c) : attempts[n] > 0
        BY <2>0, <3>2 DEF TakesInOrder
      <4> QED
        BY <2>0, <4>1 DEF InOrder, UntriedIsDue
    <3> QED
      BY <3>1, <3>2
  <2>2. \A n \in BatchOf(c) : \A m \in Messages : m < n => n # k /\ m # k
    BY <1>0, <1>3, <2>0, <2>1
  <2>3. \A n \in BatchOf(c) : \A m \in Messages :
            m < n /\ <<m, n>> \in earlier' => <<m, n>> \in earlier
    BY <1>0, <2>0, <2>2, PlacedType
  <2> QED
    BY <1>0, <2>0, <2>3, BatchKept
<1> QED
  BY <1>0, <1>4, <1>5, <1>6 DEF InOrder

(* A backoff that ends is that of a message that has been tried, and that  *)
(* is in no batch.                                                         *)
LEMMA DueInOrder ==
    ASSUME OutboxInv, InOrder, NEW k \in Messages, Due(k)
    PROVE  InOrder'
<1>0. /\ UNCHANGED <<status, attempts, consumer, replay>> /\ k \in waiting
      /\ waiting' = waiting \ {k} /\ earlier' \in Placed(k)
  BY DEF Due
<1>1. attempts[k] # 0 /\ attempts[k] > 0
  BY <1>0, OrderTypes DEF InOrder, UntriedIsDue
<1>2. ASSUME NEW c \in Consumers PROVE TakesInOrder(c)'
  <2>0. TakesInOrder(c) /\ BatchOf(c) \subseteq Messages
    BY OrderTypes DEF InOrder
  <2>1. k \notin BatchOf(c)
    BY <1>0, <2>0 DEF TakesInOrder
  <2>2. \A n \in BatchOf(c) : \A m \in Messages :
            m # k /\ <<m, n>> \in earlier' => <<m, n>> \in earlier
    BY <1>0, <2>0, <2>1, PlacedType
  <2>3. \A n \in BatchOf(c) : n \in waiting' => n \in waiting
    BY <1>0
  <2> QED
    BY <1>0, <1>1, <2>0, <2>1, <2>2, <2>3, BatchKept
<1> QED
  BY <1>0, <1>1, <1>2, UntriedKept

(* Only rows in PROCESSING grow old or are reaped, and those are tried.    *)
LEMMA ReapInOrder ==
    ASSUME OutboxInv, InOrder,
           (\E m \in Messages : Age(m) \/ Stall(m)) \/ (\E c \in Consumers : Reap(c))
    PROVE  InOrder'
<1>1. UNCHANGED <<attempts, waiting, earlier, consumer, replay>>
  BY DEF Age, Stall, Reap
<1>2. \A m \in Messages : status'[m] = status[m] \/ (status[m] = "PROCESSING" /\ status'[m] = "PENDING")
  BY OrderTypes DEF Age, Stall, Reap, OutboxInv, OldIsProcessing
<1>3. \A m \in Messages : attempts[m] = 0 => status[m] # "PROCESSING"
  BY DEF InOrder, UntriedIsDue
<1>4. \A c \in Consumers : TakesInOrder(c)'
  BY <1>1, BatchKept DEF InOrder
<1> QED
  BY <1>1, <1>2, <1>3, <1>4, UntriedKept

LEMMA LockInOrder ==
    ASSUME OneRuns, OutboxInv, InOrder, NEW c \in Consumers, Lock(c)
    PROVE  InOrder'
<1> DEFINE due == {m \in Messages : Claimable(m) /\ ~Locked(m)}
<1>0. /\ UNCHANGED rows /\ UNCHANGED replay /\ TakeBatch(c, due) /\ consumer[c].step = "idle"
      /\ \A d \in Consumers \ {c} : consumer'[d] = consumer[d]
  BY TakeBatchType DEF Lock
<1>1. \A m \in Messages : m \in due <=> status[m] = "PENDING" /\ m \notin waiting
  <2>1. \A d \in Consumers : consumer[d].step # "locked"
    BY <1>0, OthersAreOff
  <2> QED
    BY <2>1 DEF Claimable, Locked
<1>2. due \subseteq Messages
  OBVIOUS
<1> HIDE DEF due
<1>3. PICK k \in 1..BatchSize : \E batch \in [1..k -> due] :
        /\ \A i, j \in 1..k : i < j => batch[i] # batch[j] /\ <<batch[j], batch[i]>> \notin earlier
        /\ \A m \in due \ {batch[i] : i \in 1..k} :
              k = BatchSize /\ \A i \in 1..k : <<m, batch[i]>> \notin earlier
        /\ consumer' = [consumer EXCEPT ![c] =
                           [step |-> "locked", batch |-> batch, seen |-> 0]]
  BY <1>0 DEF TakeBatch
<1>4. PICK batch \in [1..k -> due] :
        /\ \A i, j \in 1..k : i < j => <<batch[j], batch[i]>> \notin earlier
        /\ \A m \in due \ {batch[i] : i \in 1..k} : \A i \in 1..k : <<m, batch[i]>> \notin earlier
        /\ consumer' = [consumer EXCEPT ![c] =
                           [step |-> "locked", batch |-> batch, seen |-> 0]]
  BY <1>3
<1>5. consumer'[c].step = "locked" /\ consumer'[c].batch = batch /\ DOMAIN batch = 1..k
  BY <1>4, OrderTypes
<1>6. \A i \in 1..k : batch[i] \in Messages /\ status[batch[i]] = "PENDING" /\ batch[i] \notin waiting
  BY <1>1, <1>2
<1>7. ASSUME NEW i \in 1..k, NEW m \in Messages, m < batch[i], <<m, batch[i]>> \in earlier,
             attempts[m] = 0
      PROVE  m \in Range(batch)
  <2>1. status[m] # "NONE"
    BY <1>6, <1>7 DEF InOrder, PostedInOrder
  <2>2. m \in due
    BY <1>1, <1>7, <2>1 DEF InOrder, UntriedIsDue
  <2>3. m \in {batch[j] : j \in 1..k}
    BY <1>4, <1>7, <2>2
  <2> QED
    BY <1>5, <2>3 DEF Range
<1>8. TakesInOrder(c)'
  <2>1. \A n \in Range(batch) : \A m \in Messages :
            m < n /\ <<m, n>> \in earlier /\ attempts[m] = 0 => m \in Range(batch)
    BY <1>5, <1>7 DEF Range
  <2>2. attempts' = attempts /\ earlier' = earlier /\ waiting' = waiting
    BY <1>0 DEF rows
  <2>3. \A m \in Range(batch) : m \notin waiting
    BY <1>5, <1>6 DEF Range
  <2> QED
    BY <1>4, <1>5, <2>1, <2>2, <2>3 DEF TakesInOrder, BatchOf
<1> QED
  BY <1>0, <1>8, UntriedKeptBy DEF rows

LEMMA ClaimInOrder ==
    ASSUME OneRuns, OutboxInv, InOrder, LockedIsPending, NEW c \in Consumers, Claim(c)
    PROVE  InOrder'
<1> DEFINE B == BatchOf(c)
           b == consumer[c].batch
<1>0. /\ consumer[c].step = "locked" /\ B \subseteq Messages
      /\ UNCHANGED <<waiting, earlier, replay>>
      /\ consumer'[c].batch = b /\ consumer'[c].step = "next"
      /\ \A d \in Consumers \ {c} : consumer'[d] = consumer[d]
  BY OrderTypes, StepType DEF Claim
<1>1. \A m \in B : status[m] = "PENDING"
  BY <1>0 DEF LockedIsPending
<1>2. \A m \in Messages : /\ status'[m] = IF m \in B THEN "PROCESSING" ELSE status[m]
                          /\ attempts'[m] = IF m \in B THEN attempts[m] + 1 ELSE attempts[m]
  BY <1>0, <1>1 DEF Claim, BatchOf
<1>3. \A m \in Messages : attempts[m] \in Nat
  BY OrderTypes
<1>4. \A m \in B : m \notin waiting
  BY DEF InOrder, TakesInOrder
<1>5. \A i, j \in DOMAIN b :
          i < j /\ b[j] < b[i] /\ <<b[j], b[i]>> \in earlier /\ attempts[b[i]] = 0
              => attempts[b[j]] > 0
  BY <1>0 DEF InOrder, TakesInOrder, One
<1>6. \A i \in DOMAIN b : b[i] \in B
  BY DEF BatchOf, Range
<1>7. BatchOf(c)' = B
  BY <1>0 DEF BatchOf
<1> HIDE DEF B
<1>8. PostedInOrder'
  BY <1>1, <1>2 DEF InOrder, PostedInOrder
<1>9. UntriedIsDue'
  BY <1>0, <1>1, <1>2, <1>3 DEF InOrder, UntriedIsDue
<1>10. TakesInOrder(c)'
  <2>1. \A m \in B : attempts'[m] > 0 /\ m \notin waiting'
    BY <1>0, <1>2, <1>3, <1>4
  <2>2. ASSUME NEW i \in DOMAIN b, NEW j \in DOMAIN b, i < j, b[j] < b[i],
               <<b[j], b[i]>> \in earlier', attempts'[b[i]] = 1
        PROVE  attempts'[b[j]] > 1
    <3> DEFINE m == b[j]
               n == b[i]
    <3>1. m \in B /\ m \in Messages /\ n \in B /\ n \in Messages
      BY <1>0, <1>6
    <3>2. attempts[n] = 0 => attempts[m] > 0
      BY <1>0, <1>5, <2>2
    <3>3. attempts'[n] = 1
      BY <2>2
    <3> HIDE DEF m, n
    <3>4. attempts'[m] > 1
      BY <1>2, <1>3, <3>1, <3>2, <3>3
    <3> QED
      BY <3>4 DEF m
  <2> QED
    BY <1>0, <1>7, <2>1, <2>2 DEF TakesInOrder, One
<1>11. ASSUME NEW d \in Consumers \ {c} PROVE TakesInOrder(d)'
  BY <1>0, <1>11, OthersAreOff, BatchDropped
<1> QED
  BY <1>0, <1>8, <1>9, <1>10, <1>11 DEF InOrder

LEMMA WorkInOrder ==
    ASSUME OneRuns, OutboxInv, InOrder, NEW c \in Consumers,
           ReadMessage(c) \/ Handler(c) \/ Crash(c) \/ Restart(c) \/ DatabaseError(c)
    PROVE  InOrder'
<1>0. /\ UNCHANGED rows /\ UNCHANGED replay /\ TakesInOrder(c)
      /\ consumer \in [Consumers -> ConsumerState] /\ consumer[c].step # "off"
      /\ \A d \in Consumers \ {c} : consumer'[d] = consumer[d]
  BY OrderTypes DEF ReadMessage, Advance, Handler, HandlerReturns, HandlerThrows, Crash, Up,
     Restart, DatabaseError, InOrder
<1>1. ASSUME consumer'[c].batch = consumer[c].batch,
             consumer'[c].step = "locked" <=> consumer[c].step = "locked"
      PROVE  TakesInOrder(c)'
  BY <1>0, <1>1, BatchKept DEF rows
<1>2. TakesInOrder(c)'
  <2>1. CASE ReadMessage(c) /\ status[Current(c)] = "PROCESSING"
    <3>1. consumer'[c].batch = consumer[c].batch /\ consumer'[c].step = "handle"
      BY <1>0, <2>1 DEF ReadMessage, ConsumerState
    <3> QED
      BY <1>1, <2>1, <3>1 DEF ReadMessage
  <2>2. CASE ReadMessage(c) /\ status[Current(c)] # "PROCESSING"
    BY <1>0, <2>2, BatchAdvanced DEF ReadMessage, Busy, rows
  <2>3. CASE Handler(c)
    <3>1. /\ consumer'[c].batch = consumer[c].batch
          /\ consumer'[c].step # "locked" /\ consumer[c].step # "locked"
      BY <1>0, <2>3 DEF Handler, HandlerReturns, HandlerThrows, ConsumerState
    <3> QED
      BY <1>1, <3>1
  <2>4. CASE Crash(c) \/ Restart(c) \/ DatabaseError(c)
    <3>1. consumer'[c].batch = <<>> /\ consumer'[c].step # "locked"
      BY <1>0, <2>4 DEF Crash, Restart, DatabaseError, Down, Ready
    <3> QED
      BY <3>1, BatchDropped
  <2> QED
    BY <2>1, <2>2, <2>3, <2>4
<1> QED
  BY <1>0, <1>2, UntriedKeptBy DEF rows

(* The message a consumer is done with, or not: it has been tried.         *)
LEMMA SettleInOrder ==
    ASSUME OneRuns, OutboxInv, InOrder, NEW c \in Consumers,
           MarkDone(c) \/ MarkFailed(c) \/ DoneError(c)
    PROVE  InOrder'
<1> DEFINE m == Current(c)
<1>0. /\ UNCHANGED <<attempts, earlier, replay>> /\ waiting' \subseteq waiting \cup {m}
      /\ consumer[c].step \in {"done", "failed"} /\ m \in BatchOf(c) /\ m \in Messages
      /\ Busy(c) /\ TakesInOrder(c)
  BY BatchType DEF MarkDone, MarkFailed, DoneError, Busy, BatchOf, InOrder
<1>1. /\ \A n \in Messages \ {m} : status'[n] = status[n] /\ (n \in waiting' <=> n \in waiting)
      /\ status'[m] = status[m] \/ status'[m] # "NONE"
  BY <1>0, OrderTypes DEF MarkDone, MarkFailed, DoneError
<1>2. attempts[m] > 0 /\ status[m] # "NONE"
  BY <1>0 DEF InOrder, TakesInOrder, UntriedIsDue
<1>3. attempts[m] # 0
  BY <1>2
<1>4. TakesInOrder(c)' /\ \A d \in Consumers \ {c} : consumer'[d] = consumer[d]
  <2>1. CASE Advance(c)
    BY <1>0, <2>1, AdvanceType, BatchAdvanced
  <2>2. CASE DoneError(c)
    <3>1. /\ \A d \in Consumers \ {c} : consumer'[d] = consumer[d]
          /\ consumer'[c].batch = consumer[c].batch /\ consumer'[c].step = "failed"
      BY <2>2, StepType DEF DoneError, Working
    <3> QED
      BY <1>0, <2>2, <3>1, BatchKept DEF DoneError
  <2> QED
    BY <2>1, <2>2 DEF MarkDone, MarkFailed
<1> HIDE DEF m
<1>5. \A n \in Messages : /\ status'[n] = "NONE" <=> status[n] = "NONE"
                          /\ attempts[n] = 0 => /\ status'[n] = status[n]
                                                /\ n \in waiting' <=> n \in waiting
  BY <1>1, <1>2, <1>3
<1> QED
  BY <1>0, <1>4, <1>5, UntriedKeptBy

(* The first replay request ends the order, and nothing before it does.    *)
LEMMA NoReplayYet ==
    ASSUME OutboxInv, [Next]_vars, faults'.replay = 0
    PROVE  faults.replay = 0 /\ ~\E a \in Admins, m \in Messages : ReadForReplay(a, m)
<1>0. faults \in FaultCounts
  BY DEF OutboxInv, TypeOK, FaultCounts
<1>1. ASSUME NEW a \in Admins, NEW m \in Messages, ReadForReplay(a, m) PROVE FALSE
  BY <1>0, <1>1 DEF ReadForReplay, FaultCounts
<1>2. UNCHANGED faults \/ (\E m \in Messages : Stall(m))
      \/ \E c \in Consumers : Crash(c) \/ DatabaseError(c) \/ DoneError(c)
  BY <1>1 DEF Next, vars, Post, Due, Age, Poll, Lock, Claim, ReadMessage, Handler,
     HandlerReturns, HandlerThrows, MarkDone, MarkFailed, Reap, Restart, Replay
<1>3. faults'.replay = faults.replay
  BY <1>0, <1>2 DEF Stall, Crash, DatabaseError, DoneError, FaultCounts
<1> QED
  BY <1>1, <1>3

LEMMA OrderStep ==
    ASSUME OutboxInv, LockedInv, OrderInv, [Next]_vars
    PROVE  OrderInv'
<1> SUFFICES ASSUME faults'.replay = 0, OneRuns' PROVE InOrder'
  BY DEF OrderInv
<1>0. LockedIsPending /\ OneRuns /\ InOrder
  BY OneStillRuns, NoReplayYet DEF LockedInv, OrderInv
<1>1. CASE UNCHANGED vars
  <2>1. UNCHANGED <<rows, consumer, replay>>
    BY <1>1 DEF vars
  <2>2. \A c \in Consumers : TakesInOrder(c)'
    BY <1>0, <2>1, BatchKept DEF InOrder, rows
  <2> QED
    BY <1>0, <2>1, <2>2, UntriedKept DEF rows
<1>2. ASSUME NEW a \in Admins, Replay(a) PROVE FALSE
  BY <1>0, <1>2 DEF InOrder, Replay
<1>3. CASE \E m \in Messages : Post(m) \/ Due(m) \/ Age(m) \/ Stall(m)
  BY <1>0, <1>3, PostInOrder, DueInOrder, ReapInOrder
<1>4. ASSUME NEW c \in Consumers,
             \/ Poll(c) \/ Reap(c) \/ Crash(c) \/ Restart(c)
             \/ DatabaseError(c) \/ DoneError(c)
      PROVE  InOrder'
  BY <1>0, <1>4, LockInOrder, ClaimInOrder, WorkInOrder, SettleInOrder, ReapInOrder DEF Poll
<1> QED
  BY <1>1, <1>2, <1>3, <1>4, NoReplayYet DEF Next

LEMMA OrderInit == Init => LockedInv /\ OrderInv
<1> SUFFICES ASSUME Init PROVE LockedInv /\ OrderInv
  OBVIOUS
<1>1. LockedInv
  BY BoundsInit DEF BoundsInv
<1>2. \A c \in Consumers : TakesInOrder(c)
  <2>1. \A c \in Consumers : /\ consumer[c].step # "locked" /\ BatchOf(c) = {}
                             /\ consumer[c].batch = <<>>
    BY InitIdle
  <2> QED
    BY <2>1 DEF TakesInOrder
<1>3. PostedInOrder /\ UntriedIsDue
  BY DEF Init, PostedInOrder, UntriedIsDue
<1>4. \A a \in Admins : replay[a] = 0
  BY DEF Init
<1> QED
  BY <1>1, <1>2, <1>3, <1>4 DEF OrderInv, InOrder

(* "Backlog routes in order on resume": as long as one consumer runs and   *)
(* nothing dead has been replayed, no message gets its first attempt before*)
(* one that was captured earlier, by commit and by time, has had its own,  *)
(* and none passes such a one in its batch except on that one's retry,     *)
(* whatever crashes, fails, stalls or is reaped.                           *)
THEOREM TakenUpInOrder == Spec => TakenInOrder
<1> DEFINE Ordered ==
      OneRuns /\ faults'.replay = 0 =>
          \A m, n \in Messages : m < n /\ <<m, n>> \in earlier =>
              /\ attempts[n] = 0 /\ attempts'[n] > 0 => attempts'[m] > 0
              /\ \A c \in Consumers :
                    /\ consumer[c].step \in Working /\ Current(c) = n
                    /\ attempts[n] = 1 /\ m \in Range(consumer[c].batch)
                    => attempts[m] > 1
<1>1. ASSUME OutboxInv, LockedInv, OrderInv, [Next]_vars
      PROVE  Ordered
  <2> SUFFICES ASSUME OneRuns, faults'.replay = 0, NEW m \in Messages, NEW n \in Messages,
                      m < n, <<m, n>> \in earlier
               PROVE  /\ attempts[n] = 0 /\ attempts'[n] > 0 => attempts'[m] > 0
                      /\ \A c \in Consumers :
                            /\ consumer[c].step \in Working /\ Current(c) = n
                            /\ attempts[n] = 1 /\ m \in Range(consumer[c].batch)
                            => attempts[m] > 1
    OBVIOUS
  <2>0. InOrder
    BY <1>1, NoReplayYet DEF OrderInv
  <2>1. ASSUME attempts[n] = 0, attempts'[n] > 0
        PROVE  attempts'[m] > 0
    <3>1. ASSUME NEW a \in Admins, Replay(a) PROVE FALSE
      BY <2>0, <3>1 DEF InOrder, Replay
    <3>2. attempts' # attempts
      BY <2>1
    <3>3. PICK c \in Consumers : Claim(c)
      BY <1>1, <3>1, <3>2 DEF Next, vars, rows, Post, Due, Age, Stall, Poll, Lock, ReadMessage,
         Handler, HandlerReturns, HandlerThrows, MarkDone, MarkFailed, Reap, Crash, Restart,
         DatabaseError, DoneError, ReadForReplay
    <3>4. /\ consumer[c].step = "locked" /\ TakesInOrder(c)
          /\ \A k \in BatchOf(c) : status[k] = "PENDING"
      BY <1>1, <2>0, <3>3 DEF Claim, InOrder, LockedInv, LockedIsPending
    <3>5. \A k \in Messages : attempts'[k] = IF k \in BatchOf(c) THEN attempts[k] + 1
                                                                ELSE attempts[k]
      BY <3>3, <3>4 DEF Claim, BatchOf
    <3>6. n \in BatchOf(c)
      BY <2>1, <3>5
    <3>7. attempts[m] \in Nat
      BY <1>1, OrderTypes
    <3>8. attempts[m] = 0 => m \in BatchOf(c)
      BY <2>1, <3>4, <3>6 DEF TakesInOrder
    <3> QED
      BY <3>5, <3>7, <3>8
  <2>2. ASSUME NEW c \in Consumers, consumer[c].step \in Working, Current(c) = n,
               attempts[n] = 1, m \in Range(consumer[c].batch)
        PROVE  attempts[m] > 1
    <3> DEFINE b == consumer[c].batch
    <3>1. b \in Seq(Messages) /\ b # <<>>
      BY <1>1, <2>2, BatchType DEF OutboxInv, BatchOK, Busy, Working
    <3>2. Len(b) \in Nat \ {0} /\ DOMAIN b = 1..Len(b) /\ b[1] = n
      BY <2>2, <3>1, EmptySeq, LenProperties, HeadTailProperties DEF Current
    <3>3. PICK j \in DOMAIN b : b[j] = m
      BY <2>2 DEF Range
    <3>4. m # n
      BY <1>1, OrderTypes
    <3>5. 1 \in DOMAIN b /\ 1 < j
      BY <3>2, <3>3, <3>4
    <3>6. \A i, k \in DOMAIN b :
              i < k /\ b[k] < b[i] /\ <<b[k], b[i]>> \in earlier /\ attempts[b[i]] = 1
                  => attempts[b[k]] > 1
      BY <2>0, <2>2 DEF InOrder, TakesInOrder, One, Working
    <3> HIDE DEF b
    <3> QED
      BY <2>2, <3>2, <3>3, <3>5, <3>6
  <2> QED
    BY <2>1, <2>2
<1> HIDE DEF Ordered
<1>2. OutboxInv /\ LockedInv /\ OrderInv /\ [Next]_vars => LockedInv' /\ OrderInv'
  BY LockedStep, OrderStep
<1>3. Spec => [][Ordered]_vars
  BY <1>1, <1>2, OrderInit, OutboxAlways, PTL DEF Spec
<1> QED
  BY <1>3 DEF TakenInOrder, Ordered

-----------------------------------------------------------------------------
(* The refinement of DurableQueue.                                         *)

RowStatus == {"NONE", "PENDING", "PROCESSING", "DONE", "DEAD"}

(* A message is in the queue until its row says otherwise and its consumer *)
(* knows.                                                                  *)
InQueue(m) ==
    status[m] \in {"PENDING", "PROCESSING"} \/ (status[m] = "DONE" /\ Unsettled(m))

SameInQueue(m) ==
    \/ InQueue(m) /\ InQueue(m)'
    \/ status'[m] = status[m] /\ (status[m] = "DONE" => (Unsettled(m)' <=> Unsettled(m)))

LEMMA AbstractState ==
    ASSUME status \in [Messages -> RowStatus], NEW m \in Messages
    PROVE  /\ queueState \in [Messages -> {"none", "queued", "delivered", "dead"}]
           /\ queueState[m] = "queued" <=> InQueue(m)
           /\ status[m] = "NONE" => queueState[m] = "none"
           /\ status[m] = "DONE" /\ ~Unsettled(m) => queueState[m] = "delivered"
           /\ status[m] = "DEAD" => queueState[m] = "dead"
BY DEF queueState, QueueStatus, RowStatus, InQueue

LEMMA AbstractSameAt ==
    ASSUME status \in [Messages -> RowStatus], status' \in [Messages -> RowStatus],
           NEW m \in Messages, SameInQueue(m)
    PROVE  queueState'[m] = queueState[m]
<1>1. queueState[m] = IF status[m] = "DONE" /\ Unsettled(m) THEN "queued"
                                                           ELSE QueueStatus(status[m])
  BY DEF queueState
<1>2. queueState'[m] = IF status'[m] = "DONE" /\ Unsettled(m)' THEN "queued"
                                                              ELSE QueueStatus(status'[m])
  BY DEF queueState
<1> QED
  BY <1>1, <1>2 DEF SameInQueue, InQueue, QueueStatus, RowStatus

LEMMA AbstractSame ==
    ASSUME status \in [Messages -> RowStatus], status' \in [Messages -> RowStatus],
           \A m \in Messages : SameInQueue(m)
    PROVE  queueState' = queueState
<1>1. \A m \in Messages : queueState'[m] = queueState[m]
  BY AbstractSameAt
<1> QED
  BY <1>1 DEF queueState

LEMMA AbstractChange ==
    ASSUME status \in [Messages -> RowStatus], status' \in [Messages -> RowStatus],
           NEW m \in Messages, \A n \in Messages \ {m} : SameInQueue(n),
           NEW s, queueState'[m] = s
    PROVE  queueState' = [queueState EXCEPT ![m] = s]
<1>1. \A n \in Messages \ {m} : queueState'[n] = queueState[n]
  BY AbstractSameAt
<1> QED
  BY <1>1 DEF queueState

(* A row that stays, at which no consumer starts or stops to be failing.   *)
LEMMA SameRow ==
    ASSUME NEW m, status'[m] = status[m],
           \A d \in Consumers : (consumer'[d].step = "failed" /\ Current(d)' = m)
                                    <=> (consumer[d].step = "failed" /\ Current(d) = m)
    PROVE  SameInQueue(m)
BY DEF SameInQueue, Unsettled

(* One consumer moves, at Current(c): the other messages are as before.   *)
LEMMA SameForOthers ==
    ASSUME NEW c \in Consumers, \A d \in Consumers \ {c} : consumer'[d] = consumer[d],
           NEW m, m # Current(c), status'[m] = status[m],
           consumer'[c].step = "failed" => Current(c)' = Current(c)
    PROVE  SameInQueue(m)
<1>1. \A d \in Consumers \ {c} : Current(d)' = Current(d)
  BY DEF Current
<1> QED
  BY <1>1, SameRow

LEMMA SameWithoutFailure ==
    ASSUME NEW c \in Consumers, \A d \in Consumers \ {c} : consumer'[d] = consumer[d],
           NEW m, status'[m] = status[m],
           consumer[c].step # "failed", consumer'[c].step # "failed"
    PROVE  SameInQueue(m)
<1>1. \A d \in Consumers \ {c} : Current(d)' = Current(d)
  BY DEF Current
<1> QED
  BY <1>1, SameRow

(* Nobody else works on the message of a consumer.                         *)
LEMMA Alone ==
    ASSUME OutboxInv, Exclusive, NEW c \in Consumers, consumer[c].step \in Working
    PROVE  /\ Current(c) \in Messages /\ status[Current(c)] \in {"PROCESSING", "DONE"}
           /\ status[Current(c)] = "DONE" => consumer[c].step = "failed"
           /\ InQueue(Current(c))
           /\ \A d \in Consumers \ {c} : consumer[d].step = "failed" => Current(d) # Current(c)
<1>1. Current(c) \in Messages /\ Current(c) \in BatchOf(c) /\ consumer[c].step # "locked"
  BY BatchType DEF Busy, Working, BatchOf
<1>2. \/ status[Current(c)] = "PROCESSING"
      \/ status[Current(c)] = "DONE" /\ consumer[c].step = "failed"
  BY <1>1 DEF Exclusive, HeldIsProcessing
<1>3. ASSUME NEW d \in Consumers \ {c}, consumer[d].step = "failed"
      PROVE  Current(d) # Current(c)
  <2>1. Current(d) \in BatchOf(d)
    BY <1>3, BatchType DEF Busy, BatchOf
  <2> QED
    BY <1>1, <2>1 DEF Exclusive, Disjoint
<1> QED
  BY <1>1, <1>2, <1>3 DEF InQueue, Unsettled

(* A consumer leaves its message: a row that is DONE is now delivered.     *)
LEMMA LeftIsDelivered ==
    ASSUME OutboxInv, OutboxInv', Exclusive, NEW c \in Consumers, consumer[c].step \in Working,
           \A d \in Consumers \ {c} : consumer'[d] = consumer[d],
           consumer'[c].step # "failed", status'[Current(c)] = "DONE"
    PROVE  queueState'[Current(c)] = "delivered"
<1> DEFINE m == Current(c)
<1>1. /\ m \in Messages
      /\ \A d \in Consumers \ {c} : consumer[d].step = "failed" => Current(d) # m
  BY Alone
<1>2. \A d \in Consumers \ {c} : Current(d)' = Current(d)
  BY DEF Current
<1> HIDE DEF m
<1>3. \A d \in Consumers : consumer'[d].step = "failed" => Current(d)' # m
  BY <1>1, <1>2
<1>4. queueState'[m] = IF status'[m] = "DONE" /\ (\E d \in Consumers : consumer'[d].step = "failed" /\ Current(d)' = m)
                       THEN "queued" ELSE QueueStatus(status'[m])
  BY <1>1 DEF queueState, Unsettled
<1> QED
  BY <1>3, <1>4 DEF QueueStatus, m

(* A crash or an error makes a consumer drop its batch.                    *)
LEMMA DropInQueue ==
    ASSUME OutboxInv, OutboxInv', Exclusive, NEW c \in Consumers, UNCHANGED <<status, handled>>,
           \A d \in Consumers \ {c} : consumer'[d] = consumer[d],
           consumer'[c].step # "failed"
    PROVE  [Queue!Next]_(Queue!queue)
<1> USE DEF Queue!queue
<1>0. status \in [Messages -> RowStatus] /\ status' \in [Messages -> RowStatus]
  BY DEF OutboxInv, TypeOK, RowStatus
<1>1. CASE consumer[c].step # "failed"
  BY <1>0, <1>1, SameWithoutFailure, AbstractSame
<1>2. CASE consumer[c].step = "failed"
  <2>1. /\ Current(c) \in Messages /\ InQueue(Current(c))
        /\ status[Current(c)] \in {"PROCESSING", "DONE"}
    BY <1>2, Alone DEF Working
  <2>2. \A m \in Messages \ {Current(c)} : SameInQueue(m)
    BY <1>2, SameForOthers
  <2>3. CASE status[Current(c)] = "PROCESSING"
    <3>1. \A m \in Messages : m = Current(c) => SameInQueue(m)
      BY <2>3 DEF SameInQueue
    <3> QED
      BY <1>0, <2>2, <3>1, AbstractSame
  <2>4. CASE status[Current(c)] = "DONE"
    <3>1. queueState'[Current(c)] = "delivered"
      BY <1>2, <2>4, LeftIsDelivered DEF Working
    <3>2. queueState' = [queueState EXCEPT ![Current(c)] = "delivered"]
      BY <1>0, <2>1, <2>2, <3>1, AbstractChange
    <3>3. queueState[Current(c)] = "queued" /\ Current(c) \in handled
      BY <1>0, <2>1, <2>4, AbstractState DEF OutboxInv, DoneMeansHandled
    <3> QED
      BY <2>1, <3>2, <3>3 DEF Queue!Next, Queue!Settle
  <2> QED
    BY <2>1, <2>3, <2>4
<1> QED
  BY <1>1, <1>2

(* Steps of the rows alone.                                                *)
LEMMA RowsInQueue ==
    ASSUME OutboxInv, OutboxInv', Exclusive,
           \/ \E m \in Messages : Post(m) \/ Due(m) \/ Age(m) \/ Stall(m)
           \/ \E c \in Consumers : Reap(c)
           \/ \E a \in Admins : Replay(a) \/ \E m \in Messages : ReadForReplay(a, m)
    PROVE  [Queue!Next]_(Queue!queue)
<1> USE DEF Queue!queue
<1>0. status \in [Messages -> RowStatus] /\ status' \in [Messages -> RowStatus]
  BY DEF OutboxInv, TypeOK, RowStatus
<1>1. UNCHANGED <<consumer, handled>>
  BY DEF Post, Due, Age, Stall, Reap, Replay, ReadForReplay
<1>2. \A m \in Messages : status'[m] = status[m] => SameInQueue(m)
  BY <1>1, SameRow DEF Current
<1>3. CASE UNCHANGED status
  BY <1>0, <1>1, <1>2, <1>3, AbstractSame
<1>4. ASSUME NEW m \in Messages, Post(m) PROVE Queue!Next
  <2>1. /\ \A n \in Messages \ {m} : SameInQueue(n)
        /\ status[m] = "NONE" /\ status'[m] = "PENDING"
    BY <1>0, <1>2, <1>4 DEF Post
  <2>2. queueState[m] = "none" /\ queueState'[m] = "queued"
    BY <1>0, <2>1 DEF queueState, QueueStatus
  <2>3. queueState' = [queueState EXCEPT ![m] = "queued"]
    BY <1>0, <2>1, <2>2, AbstractChange
  <2> QED
    BY <1>1, <2>2, <2>3 DEF Queue!Next, Queue!Enqueue
<1>5. ASSUME NEW c \in Consumers, Reap(c) PROVE UNCHANGED Queue!queue
  <2>1. \A m \in Messages : status'[m] = status[m] \/
            (status[m] = "PROCESSING" /\ status'[m] = "PENDING")
    BY <1>5 DEF Reap, OutboxInv, OldIsProcessing
  <2>2. \A m \in Messages : SameInQueue(m)
    BY <1>2, <2>1 DEF SameInQueue, InQueue
  <2> QED
    BY <1>0, <1>1, <2>2, AbstractSame
<1>6. ASSUME NEW a \in Admins, Replay(a) PROVE Queue!Next
  <2> DEFINE m == replay[a]
  <2>1. /\ m \in Messages /\ status[m] = "DEAD" /\ status'[m] = "PENDING"
        /\ \A n \in Messages \ {m} : SameInQueue(n)
    BY <1>0, <1>2, <1>6 DEF Replay, OutboxInv, TypeOK, Exclusive, AskedIsDead
  <2> HIDE DEF m
  <2>2. queueState[m] = "dead" /\ queueState'[m] = "queued"
    BY <1>0, <2>1 DEF queueState, QueueStatus
  <2>3. queueState' = [queueState EXCEPT ![m] = "queued"]
    BY <1>0, <2>1, <2>2, AbstractChange
  <2> QED
    BY <1>1, <2>1, <2>2, <2>3 DEF Queue!Next, Queue!Requeue
<1> QED
  BY <1>3, <1>4, <1>5, <1>6 DEF Due, Age, Stall, ReadForReplay, rows

(* Steps of a consumer up to the update at the end.                        *)
LEMMA WorkInQueue ==
    ASSUME OutboxInv, OutboxInv', Exclusive, NEW c \in Consumers,
           Lock(c) \/ Claim(c) \/ ReadMessage(c) \/ Handler(c) \/ DoneError(c)
    PROVE  [Queue!Next]_(Queue!queue)
<1> USE DEF Queue!queue
<1>0. /\ status \in [Messages -> RowStatus] /\ status' \in [Messages -> RowStatus]
      /\ consumer \in [Consumers -> ConsumerState]
  BY DEF OutboxInv, TypeOK, RowStatus, ConsumerState
<1>1. CASE Lock(c) \/ ReadMessage(c)
  <2>1. UNCHANGED <<status, handled>> /\ consumer[c].step # "failed"
    BY <1>1 DEF Lock, ReadMessage, rows
  <2>2. /\ \A d \in Consumers \ {c} : consumer'[d] = consumer[d]
        /\ consumer'[c].step # "failed"
    <3>1. CASE Lock(c)
      BY <3>1, TakeBatchType DEF Lock
    <3>2. CASE ReadMessage(c) /\ Advance(c)
      BY <3>2, AdvanceType DEF ReadMessage, Busy
    <3>3. CASE ReadMessage(c) /\ consumer' = [consumer EXCEPT ![c].step = "handle",
                                                  ![c].seen = attempts[Current(c)]]
      BY <1>0, <3>3 DEF ConsumerState
    <3> QED
      BY <1>1, <3>1, <3>2, <3>3 DEF ReadMessage
  <2> QED
    BY <1>0, <2>1, <2>2, SameWithoutFailure, AbstractSame
<1>2. CASE Claim(c)
  <2>1. /\ \A d \in Consumers \ {c} : consumer'[d] = consumer[d]
        /\ consumer[c].step = "locked" /\ consumer'[c].step = "next"
        /\ UNCHANGED handled
    BY <1>2, StepType DEF Claim
  <2>2. \A m \in Messages : status'[m] = status[m] \/
            (status[m] = "PENDING" /\ status'[m] = "PROCESSING")
    BY <1>2 DEF Claim
  <2>3. \A m \in Messages : SameInQueue(m)
    BY <2>1, <2>2, SameWithoutFailure DEF SameInQueue, InQueue
  <2> QED
    BY <1>0, <2>1, <2>3, AbstractSame
<1>3. CASE Handler(c) \/ DoneError(c)
  <2>1. /\ consumer[c].step \in {"handle", "done"} /\ consumer[c].step \in Working
        /\ \E s \in {"done", "failed"} : consumer' = [consumer EXCEPT ![c].step = s]
    BY <1>3 DEF Handler, HandlerReturns, HandlerThrows, DoneError, Working
  <2>2. /\ Current(c) \in Messages /\ status[Current(c)] = "PROCESSING"
        /\ InQueue(Current(c))
    BY <2>1, Alone
  <2>3. /\ \A d \in Consumers \ {c} : consumer'[d] = consumer[d]
        /\ consumer'[c].batch = consumer[c].batch /\ Current(c)' = Current(c)
    BY <2>1, StepType DEF Working, Current
  <2>4. /\ \A m \in Messages \ {Current(c)} : status'[m] = status[m]
        /\ status'[Current(c)] = "PROCESSING"
              \/ (status'[Current(c)] = "DONE" /\ consumer'[c].step = "failed")
    BY <1>0, <1>3, <2>2 DEF Handler, HandlerReturns, HandlerThrows, DoneError, rows,
       ConsumerState
  <2>5. \A m \in Messages : m = Current(c) => InQueue(m) /\ InQueue(m)'
    BY <2>2, <2>3, <2>4 DEF InQueue, Unsettled
  <2>6. \A m \in Messages : SameInQueue(m)
    BY <2>3, <2>4, <2>5, SameForOthers DEF SameInQueue
  <2>7. queueState' = queueState
    BY <1>0, <2>6, AbstractSame
  <2>8. queueState[Current(c)] = "queued"
    BY <1>0, <2>2, AbstractState
  <2> QED
    BY <1>3, <2>2, <2>7, <2>8 DEF Handler, HandlerReturns, HandlerThrows, DoneError,
       Queue!Next, Queue!Handle
<1> QED
  BY <1>1, <1>2, <1>3

(* The update at the end.                                                  *)
LEMMA SettleInQueue ==
    ASSUME OutboxInv, OutboxInv', Exclusive, NEW c \in Consumers, MarkDone(c) \/ MarkFailed(c)
    PROVE  [Queue!Next]_(Queue!queue)
<1> DEFINE m == Current(c)
<1> USE DEF Queue!queue
<1>0. status \in [Messages -> RowStatus] /\ status' \in [Messages -> RowStatus]
  BY DEF OutboxInv, TypeOK, RowStatus
<1>1. /\ consumer[c].step \in {"done", "failed"} /\ consumer[c].step \in Working
      /\ Busy(c) /\ Advance(c) /\ UNCHANGED handled
  BY DEF MarkDone, MarkFailed, Working, Busy
<1>2. m \in Messages /\ InQueue(m) /\ queueState[m] = "queued"
  BY <1>0, <1>1, Alone, AbstractState
<1>3. /\ \A d \in Consumers \ {c} : consumer'[d] = consumer[d]
      /\ consumer'[c].step # "failed"
  BY <1>1, AdvanceType
<1>4. PICK s \in {"DONE", "DEAD", "PENDING"} :
          status' = [status EXCEPT ![m] = s] /\ (s = "DONE" => MarkDone(c))
  BY DEF MarkDone, MarkFailed
<1>5. status'[m] = s /\ \A n \in Messages \ {m} : status'[n] = status[n]
  BY <1>0, <1>2, <1>4
<1>6. \A n \in Messages \ {m} : SameInQueue(n)
  BY <1>3, <1>5, SameForOthers
<1>7. CASE s = "DONE"
  <2>1. m \in handled
    BY <1>4, <1>7 DEF MarkDone, OutboxInv, HandledBeforeDone
  <2>2. queueState'[m] = "delivered"
    BY <1>1, <1>3, <1>5, <1>7, LeftIsDelivered
  <2>3. queueState' = [queueState EXCEPT ![m] = "delivered"]
    BY <1>0, <1>2, <1>6, <2>2, AbstractChange
  <2> QED
    BY <1>1, <1>2, <2>1, <2>3 DEF Queue!Next, Queue!Settle
<1>8. CASE s = "DEAD"
  <2>1. queueState'[m] = "dead"
    BY <1>0, <1>2, <1>5, <1>8 DEF queueState, QueueStatus
  <2>2. queueState' = [queueState EXCEPT ![m] = "dead"]
    BY <1>0, <1>2, <1>6, <2>1, AbstractChange
  <2> QED
    BY <1>1, <1>2, <2>2 DEF Queue!Next, Queue!Settle
<1>9. CASE s = "PENDING"
  <2>1. \A n \in Messages : n = m => SameInQueue(n)
    BY <1>2, <1>5, <1>9 DEF SameInQueue, InQueue
  <2>2. \A n \in Messages : SameInQueue(n)
    BY <1>6, <2>1
  <2> HIDE DEF m
  <2>3. queueState' = queueState
    BY <1>0, <2>2, AbstractSame
  <2> QED
    BY <1>1, <2>3
<1> QED
  BY <1>4, <1>7, <1>8, <1>9

LEMMA QueueStep ==
    ASSUME OutboxInv, OutboxInv', Exclusive, [Next]_vars
    PROVE  [Queue!Next]_(Queue!queue)
<1>1. CASE UNCHANGED vars
  <2>1. status \in [Messages -> RowStatus] /\ UNCHANGED <<status, consumer, handled>>
    BY <1>1 DEF OutboxInv, TypeOK, RowStatus, vars, rows
  <2>2. \A m \in Messages : SameInQueue(m)
    BY <2>1, SameRow DEF Current
  <2> QED
    BY <2>1, <2>2, AbstractSame DEF Queue!queue
<1>2. ASSUME NEW c \in Consumers, Crash(c) \/ Restart(c) \/ DatabaseError(c)
      PROVE  [Queue!Next]_(Queue!queue)
  <2>1. /\ UNCHANGED <<status, handled>> /\ consumer'[c].step # "failed"
        /\ \A d \in Consumers \ {c} : consumer'[d] = consumer[d]
    BY <1>2 DEF Crash, Restart, DatabaseError, rows, Down, Ready, OutboxInv, TypeOK
  <2> QED
    BY <2>1, DropInQueue
<1>3. ASSUME NEW c \in Consumers, Poll(c) \/ DoneError(c)
      PROVE  [Queue!Next]_(Queue!queue)
  BY <1>3, WorkInQueue, SettleInQueue DEF Poll
<1> QED
  BY <1>1, <1>2, <1>3, RowsInQueue DEF Next

(* The outbox implements the durable queue (its safety part), when nothing *)
(* stalls: through crashes, lost updates, reaping and replay, a message is *)
(* queued until it is handled or visibly dead, and only a dead one returns.*)
THEOREM QueueIsDurable ==
    ASSUME OneReplayAtATime, MaxStalls = 0
    PROVE  Spec => Queue!Init /\ [][Queue!Next]_(Queue!queue)
<1> DEFINE NoStall == faults.stall = 0
<1>1. Init => NoStall
  BY DEF Init
<1>2. OutboxInv /\ NoStall /\ [Next]_vars => NoStall'
  <2>1. NoStall => ~\E m \in Messages : Stall(m)
    BY DEF Stall
  <2> QED
    BY <2>1, StallsCount
<1>3. Init => Queue!Init
  <2> SUFFICES ASSUME Init PROVE Queue!Init
    OBVIOUS
  <2>1. \A m \in Messages : status[m] = "NONE"
    BY DEF Init
  <2> QED
    BY <2>1 DEF Init, Queue!Init, queueState, QueueStatus
<1>4. OutboxInv /\ OutboxInv' /\ NoStall /\ ExclusiveInv /\ [Next]_vars
        => [Queue!Next]_(Queue!queue)
  BY QueueStep DEF ExclusiveInv
<1> QED
  BY <1>1, <1>2, <1>3, <1>4, OutboxAlways, ExclusiveAlways, PTL DEF Spec

-----------------------------------------------------------------------------
(* Delivery.                                                               *)

DeliveryTypeOK ==
    /\ lead \in [Leads -> {"NEW", "UNSENT", "SETTLED", "REFUSED"}]
    /\ carries \in [Messages -> Leads \cup {NoLead}]
    /\ routed \subseteq Consumers
    /\ retry \in [Retriers -> Leads \cup {NoLead}]

(* Every message in the table, and nothing else, carries a lead.           *)
PostedCarries == \A m \in Messages : status[m] # "NONE" <=> carries[m] \in Leads

BatchPosted == \A c \in Consumers : \A m \in BatchOf(c) : status[m] # "NONE"

AskedIsPosted == \A a \in Admins : \A m \in Messages : replay[a] = m => status[m] # "NONE"

(* From the commit of the routing transaction to the DONE update.          *)
RoutedIsDecided ==
    \A c \in Consumers :
        /\ c \in routed => consumer[c].step = "handle"
        /\ c \in routed \/ consumer[c].step = "done" => Decided(carries[Current(c)])

ClosedIsDecided == \A m \in Messages : status[m] = "DONE" => Decided(carries[m])

HasMessage == \A l \in Leads : lead[l] = "UNSENT" => MessagesOf(l) # {}

DeliveryInv ==
    /\ OutboxInv /\ DeliveryTypeOK /\ PostedCarries /\ BatchPosted
    /\ AskedIsPosted /\ RoutedIsDecided /\ ClosedIsDecided /\ HasMessage

-----------------------------------------------------------------------------
LEMMA StepOfOutbox == ASSUME [DeliveryNext]_deliveryVars PROVE [Next]_vars
<1>1. CASE UNCHANGED deliveryVars
  BY <1>1 DEF deliveryVars
<1>2. CASE \E l \in Leads : Capture(l) \/ Assign(l)
  BY <1>2 DEF Capture, Assign, PostFor, Next
<1>3. ASSUME NEW c \in Consumers, Consume(c)
      PROVE  [Next]_vars
  <2>1. \/ UNCHANGED vars
        \/ Poll(c) \/ Reap(c) \/ Crash(c) \/ Restart(c) \/ DatabaseError(c) \/ DoneError(c)
    BY <1>3 DEF Consume, Deliver, Route, HandlerEnds, CrashHandler, Poll, Handler
  <2> QED
    BY <2>1 DEF Next
<1>4. CASE \E m \in Messages : TimePasses(m)
  BY <1>4 DEF TimePasses, Next
<1>5. CASE \E a \in Admins : ReplayStep(a)
  BY <1>5 DEF ReplayStep, Next
<1>6. CASE \E r \in Retriers : RetryStep(r)
  BY <1>6 DEF RetryStep, Retry, ReadForRetry, PostFor, Next
<1> QED
  BY <1>1, <1>2, <1>3, <1>4, <1>5, <1>6 DEF DeliveryNext

(* The messages of the composition behave as the outbox alone does.        *)
THEOREM DeliveryRunsOutbox == DeliverySpec => Spec
<1>1. DeliveryInit => Init
  BY DEF DeliveryInit
<1> QED
  BY <1>1, StepOfOutbox, PTL DEF DeliverySpec, Spec

-----------------------------------------------------------------------------
LEMMA CarriedLead ==
    ASSUME DeliveryInv, NEW c \in Consumers, Busy(c)
    PROVE  /\ Current(c) \in Messages /\ Current(c) \in BatchOf(c)
           /\ carries[Current(c)] \in Leads
<1>1. Current(c) \in Messages /\ Current(c) \in BatchOf(c)
  BY BatchType DEF DeliveryInv, BatchOf
<1> QED
  BY <1>1 DEF DeliveryInv, BatchPosted, PostedCarries

(* A new message for a lead that has been captured.                        *)
LEMMA PostDelivers ==
    ASSUME DeliveryInv, OutboxInv', NEW l \in Leads, NEW m \in Messages, PostFor(l, m),
           \/ UNCHANGED lead
           \/ lead[l] = "NEW" /\ lead' = [lead EXCEPT ![l] = "UNSENT"],
           UNCHANGED routed, retry' \in [Retriers -> Leads \cup {NoLead}]
    PROVE  DeliveryInv'
<1>1. /\ status[m] = "NONE" /\ status' = [status EXCEPT ![m] = "PENDING"]
      /\ carries' = [carries EXCEPT ![m] = l] /\ UNCHANGED <<consumer, replay>>
  BY DEF PostFor, Post
<1>2. DeliveryTypeOK'
  BY <1>1 DEF DeliveryInv, DeliveryTypeOK
<1>3. /\ \A n \in Messages \ {m} : status'[n] = status[n] /\ carries'[n] = carries[n]
      /\ status'[m] = "PENDING" /\ carries'[m] = l
  BY <1>1 DEF DeliveryInv, OutboxInv, TypeOK, DeliveryTypeOK
<1>4. PostedCarries' /\ BatchPosted' /\ AskedIsPosted'
  <2>1. \A c \in Consumers : BatchOf(c)' = BatchOf(c) /\ BatchOf(c) \subseteq Messages
    BY <1>1, BatchType DEF BatchOf, DeliveryInv
  <2> QED
    BY <1>1, <1>3, <2>1 DEF DeliveryInv, PostedCarries, BatchPosted, AskedIsPosted
<1>5. \A k \in Leads : Decided(k) => Decided(k)'
  BY DEF Decided, DeliveryInv, DeliveryTypeOK
<1>6. RoutedIsDecided'
  <2>1. ASSUME NEW c \in Consumers, c \in routed \/ consumer[c].step = "done"
        PROVE  Decided(carries[Current(c)])'
    <3>1. Busy(c) /\ Current(c)' = Current(c)
      BY <1>1, <2>1 DEF Busy, Current, DeliveryInv, RoutedIsDecided
    <3>2. Current(c) # m /\ Current(c) \in Messages /\ carries[Current(c)] \in Leads
      BY <1>1, <3>1, CarriedLead DEF DeliveryInv, BatchPosted
    <3>3. carries'[Current(c)] = carries[Current(c)] /\ Decided(carries[Current(c)])
      BY <1>3, <2>1, <3>2 DEF DeliveryInv, RoutedIsDecided
    <3> QED
      BY <1>5, <3>1, <3>2, <3>3 DEF Decided
  <2> QED
    BY <1>1, <2>1 DEF DeliveryInv, RoutedIsDecided
<1>7. ClosedIsDecided'
  BY <1>3, <1>5 DEF DeliveryInv, ClosedIsDecided, PostedCarries, Decided
<1>8. HasMessage'
  <2>1. \A k \in Leads : MessagesOf(k) \subseteq MessagesOf(k)'
    BY <1>1, <1>3 DEF MessagesOf, DeliveryInv, PostedCarries
  <2>2. m \in MessagesOf(l)'
    BY <1>3 DEF MessagesOf
  <2>3. \A k \in Leads \ {l} : lead'[k] = lead[k]
    BY DEF DeliveryInv, DeliveryTypeOK
  <2> QED
    BY <2>1, <2>2, <2>3 DEF DeliveryInv, HasMessage
<1> QED
  BY <1>2, <1>4, <1>6, <1>7, <1>8 DEF DeliveryInv

(* Verdicts, given or read: the outbox stands still.                       *)
LEMMA VerdictDelivers ==
    ASSUME DeliveryInv, UNCHANGED <<vars, carries>>, DeliveryTypeOK',
           \A l \in Leads : lead'[l] = lead[l] \/ Decided(l)',
           \A c \in routed' \ routed :
               /\ c \in Consumers /\ consumer[c].step = "handle"
               /\ Decided(carries[Current(c)])'
    PROVE  DeliveryInv'
<1>1. UNCHANGED <<status, consumer, replay>>
  BY DEF vars, rows
<1>2. OutboxInv'
  BY OutboxStep DEF DeliveryInv
<1>3. PostedCarries' /\ BatchPosted' /\ AskedIsPosted'
  BY <1>1 DEF DeliveryInv, PostedCarries, BatchPosted, BatchOf, AskedIsPosted
<1>4. \A l \in Leads : Decided(l) => Decided(l)'
  BY DEF Decided
<1>5. RoutedIsDecided'
  <2>1. ASSUME NEW c \in Consumers, c \in routed \/ consumer[c].step = "done"
        PROVE  Decided(carries[Current(c)])'
    <3>1. Busy(c) /\ Decided(carries[Current(c)])
      BY <2>1 DEF Busy, DeliveryInv, RoutedIsDecided
    <3>2. carries[Current(c)] \in Leads
      BY <3>1, CarriedLead
    <3> QED
      BY <1>1, <1>4, <3>1, <3>2 DEF Decided, Current
  <2> QED
    BY <1>1, <2>1 DEF DeliveryInv, RoutedIsDecided
<1>6. ClosedIsDecided'
  BY <1>1, <1>4 DEF DeliveryInv, ClosedIsDecided, PostedCarries, Decided
<1>7. HasMessage'
  BY DEF DeliveryInv, HasMessage, MessagesOf, Decided
<1> QED
  BY <1>2, <1>3, <1>5, <1>6, <1>7 DEF DeliveryInv

(* Messages are rescheduled, reaped or replayed.                           *)
LEMMA RowsDeliver ==
    ASSUME DeliveryInv, OutboxInv', AskedIsPosted', UNCHANGED <<consumer, leads>>,
           \A m \in Messages : \/ status'[m] = status[m]
                               \/ status[m] # "NONE" /\ status'[m] = "PENDING"
    PROVE  DeliveryInv'
<1>0. UNCHANGED <<lead, carries, routed, retry>>
  BY DEF leads
<1>1. DeliveryTypeOK' /\ HasMessage' /\ RoutedIsDecided'
  BY <1>0 DEF DeliveryInv, DeliveryTypeOK, HasMessage, MessagesOf, RoutedIsDecided, Decided,
     Current
<1>2. PostedCarries' /\ ClosedIsDecided'
  BY <1>0 DEF DeliveryInv, PostedCarries, ClosedIsDecided, Decided
<1>3. \A c \in Consumers : BatchOf(c)' = BatchOf(c) /\ BatchOf(c) \subseteq Messages
  BY BatchType DEF BatchOf, DeliveryInv
<1>4. BatchPosted'
  BY <1>3 DEF DeliveryInv, BatchPosted
<1> QED
  BY <1>1, <1>2, <1>4 DEF DeliveryInv

(* One consumer moves; if it was routing, it no longer is.                 *)
LEMMA ConsumerDelivers ==
    ASSUME DeliveryInv, OutboxInv', NEW c \in Consumers,
           UNCHANGED <<lead, carries, retry, replay>>, routed' = routed \ {c},
           \A d \in Consumers \ {c} : consumer'[d] = consumer[d],
           BatchOf(c)' \subseteq BatchOf(c) \cup {m \in Messages : status[m] # "NONE"},
           consumer'[c].step = "done" =>
               Current(c)' = Current(c) /\ Decided(carries[Current(c)]),
           \A m \in Messages :
               \/ status'[m] = status[m]
               \/ /\ status[m] # "NONE" /\ status'[m] # "NONE"
                  /\ status'[m] = "DONE" => Decided(carries[m])
    PROVE  DeliveryInv'
<1>1. DeliveryTypeOK' /\ HasMessage' /\ PostedCarries' /\ ClosedIsDecided' /\ AskedIsPosted'
  BY DEF DeliveryInv, AskedIsPosted, DeliveryTypeOK, HasMessage, MessagesOf, PostedCarries, ClosedIsDecided,
     Decided
<1>2. \A d \in Consumers : BatchOf(d) \subseteq Messages
  BY BatchType DEF BatchOf, DeliveryInv
<1>3. BatchPosted'
  BY <1>2 DEF DeliveryInv, BatchPosted, BatchOf
<1>4. RoutedIsDecided'
  <2>1. \A d \in Consumers \ {c} : Current(d)' = Current(d)
    BY DEF Current
  <2> QED
    BY <2>1 DEF DeliveryInv, RoutedIsDecided, Decided
<1> QED
  BY <1>1, <1>3, <1>4 DEF DeliveryInv

(* The outbox's own steps of a consumer: not in a routing transaction.     *)
LEMMA PollDelivers ==
    ASSUME DeliveryInv, OutboxInv', UNCHANGED leads, NEW c \in Consumers,
           \/ Lock(c) \/ Claim(c) \/ ReadMessage(c) \/ MarkDone(c) \/ MarkFailed(c)
           \/ Restart(c) \/ DatabaseError(c) \/ DoneError(c)
    PROVE  DeliveryInv'
<1>0. /\ UNCHANGED <<lead, carries, retry, replay>> /\ routed' = routed \ {c}
      /\ OutboxInv /\ consumer \in [Consumers -> ConsumerState]
  <2>1. consumer[c].step # "handle"
    BY DEF Lock, Claim, ReadMessage, MarkDone, MarkFailed, Restart, DatabaseError, DoneError
  <2>2. UNCHANGED replay
    BY DEF Lock, Claim, ReadMessage, MarkDone, MarkFailed, Restart, DatabaseError, DoneError
  <2>3. routed' = routed /\ c \notin routed
    BY <2>1 DEF leads, DeliveryInv, RoutedIsDecided
  <2> QED
    BY <2>2, <2>3 DEF leads, DeliveryInv, OutboxInv, TypeOK, ConsumerState
<1>1. CASE Lock(c)
  <2>1. /\ \A d \in Consumers \ {c} : consumer'[d] = consumer[d]
        /\ BatchOf(c)' \subseteq {m \in Messages : Claimable(m) /\ ~Locked(m)}
        /\ consumer'[c].step = "locked"
    BY <1>0, <1>1, TakeBatchType DEF Lock, BatchOf
  <2>2. UNCHANGED status
    BY <1>1 DEF Lock, rows
  <2> QED
    BY <1>0, <2>1, <2>2, ConsumerDelivers DEF Claimable
<1>2. CASE Claim(c)
  <2>1. /\ \A d \in Consumers \ {c} : consumer'[d] = consumer[d]
        /\ consumer'[c].batch = consumer[c].batch /\ consumer'[c].step = "next"
    BY <1>0, <1>2, StepType DEF Claim
  <2>2. \A m \in Messages : \/ status'[m] = status[m]
                            \/ status[m] = "PENDING" /\ status'[m] = "PROCESSING"
    BY <1>2 DEF Claim
  <2> QED
    BY <1>0, <2>1, <2>2, ConsumerDelivers DEF BatchOf
<1>3. CASE ReadMessage(c)
  <2>0. Busy(c) /\ UNCHANGED status
    BY <1>3 DEF ReadMessage, Busy, rows
  <2>1. CASE status[Current(c)] = "PROCESSING"
    <3>1. /\ attempts[Current(c)] \in Nat /\ "handle" \in {"next"} \cup Working
          /\ consumer' = [consumer EXCEPT ![c].step = "handle",
                                          ![c].seen = attempts[Current(c)]]
      BY <1>0, <1>3, <2>0, <2>1, BatchType DEF ReadMessage, OutboxInv, TypeOK, Working
    <3>2. /\ \A d \in Consumers \ {c} : consumer'[d] = consumer[d]
          /\ consumer'[c].batch = consumer[c].batch /\ consumer'[c].step = "handle"
      BY <1>0, <3>1, StepType
    <3> QED
      BY <1>0, <2>0, <3>2, ConsumerDelivers DEF BatchOf
  <2>2. CASE Advance(c)
    <3>1. /\ \A d \in Consumers \ {c} : consumer'[d] = consumer[d]
          /\ BatchOf(c)' \subseteq BatchOf(c) /\ consumer'[c].step # "done"
      BY <1>0, <2>0, <2>2, AdvanceType DEF BatchOf
    <3> QED
      BY <1>0, <2>0, <3>1, ConsumerDelivers
  <2> QED
    BY <1>3, <2>1, <2>2 DEF ReadMessage
<1>4. CASE MarkDone(c) \/ MarkFailed(c)
  <2>1. Busy(c) /\ Advance(c)
    BY <1>4 DEF MarkDone, MarkFailed, Busy
  <2>2. /\ \A d \in Consumers \ {c} : consumer'[d] = consumer[d]
        /\ BatchOf(c)' \subseteq BatchOf(c) /\ consumer'[c].step # "done"
    BY <1>0, <2>1, AdvanceType DEF BatchOf
  <2>3. Current(c) \in Messages /\ status[Current(c)] # "NONE"
    BY <2>1, CarriedLead DEF DeliveryInv, BatchPosted
  <2>4. \E s \in {"DONE", "PENDING", "DEAD"} :
            /\ status' = [status EXCEPT ![Current(c)] = s]
            /\ s = "DONE" => Decided(carries[Current(c)])
    BY <1>4 DEF MarkDone, MarkFailed, DeliveryInv, RoutedIsDecided
  <2>5. \A m \in Messages :
            \/ status'[m] = status[m]
            \/ /\ status[m] # "NONE" /\ status'[m] # "NONE"
               /\ status'[m] = "DONE" => Decided(carries[m])
    BY <1>0, <2>3, <2>4 DEF OutboxInv, TypeOK
  <2> QED
    BY <1>0, <2>2, <2>5, ConsumerDelivers
<1>5. CASE consumer' = [consumer EXCEPT ![c] = Ready] /\ UNCHANGED status
  <2>1. /\ \A d \in Consumers \ {c} : consumer'[d] = consumer[d]
        /\ BatchOf(c)' = {} /\ consumer'[c].step = "idle"
    BY <1>0, <1>5 DEF Ready, BatchOf, Range
  <2> QED
    BY <1>0, <1>5, <2>1, ConsumerDelivers
<1>6. CASE DoneError(c)
  <2>1. /\ \A d \in Consumers \ {c} : consumer'[d] = consumer[d]
        /\ consumer'[c].batch = consumer[c].batch /\ consumer'[c].step = "failed"
    BY <1>0, <1>6, StepType DEF DoneError, Working
  <2>2. /\ Current(c) \in Messages /\ status[Current(c)] # "NONE"
        /\ Decided(carries[Current(c)])
    BY <1>6, CarriedLead DEF DoneError, Busy, DeliveryInv, BatchPosted, RoutedIsDecided
  <2>3. \A m \in Messages :
            \/ status'[m] = status[m]
            \/ /\ status[m] # "NONE" /\ status'[m] # "NONE"
               /\ status'[m] = "DONE" => Decided(carries[m])
    BY <1>0, <1>6, <2>2 DEF DoneError, OutboxInv, TypeOK
  <2> QED
    BY <1>0, <2>1, <2>3, ConsumerDelivers DEF BatchOf
<1>7. Restart(c) \/ DatabaseError(c) => UNCHANGED status
  BY DEF Restart, DatabaseError, rows
<1> QED
  BY <1>1, <1>2, <1>3, <1>4, <1>5, <1>6, <1>7 DEF Restart, DatabaseError

(* The routing transaction commits; its handler returns, throws or dies.   *)
LEMMA HandlerDelivers ==
    ASSUME DeliveryInv, OutboxInv', NEW c \in Consumers,
           Route(c) \/ HandlerEnds(c) \/ CrashHandler(c)
    PROVE  DeliveryInv'
<1>0. OutboxInv /\ consumer \in [Consumers -> ConsumerState]
  BY DEF DeliveryInv, OutboxInv, TypeOK, ConsumerState
<1>1. CASE Route(c)
  <2> DEFINE l == carries[Current(c)]
  <2>1. Busy(c) /\ consumer[c].step = "handle" /\ UNCHANGED <<vars, carries, retry>>
        /\ routed' = routed \cup {c}
    BY <1>1 DEF Route, Busy
  <2>2. l \in Leads
    BY <2>1, CarriedLead
  <2>3. /\ \A k \in Leads \ {l} : lead'[k] = lead[k]
        /\ lead' \in [Leads -> {"NEW", "UNSENT", "SETTLED", "REFUSED"}]
        /\ lead'[l] \in {"SETTLED", "REFUSED"}
    BY <1>1, <2>2 DEF Route, DeliveryInv, DeliveryTypeOK
  <2>4. Current(c)' = Current(c)
    BY <2>1 DEF vars, Current
  <2>5. Decided(l)' /\ DeliveryTypeOK'
    BY <2>1, <2>3, <2>4 DEF Decided, DeliveryInv, DeliveryTypeOK
  <2> QED
    BY <2>1, <2>2, <2>3, <2>4, <2>5, VerdictDelivers DEF Decided
<1>2. CASE HandlerEnds(c)
  <2>1. /\ \E s \in {"done", "failed"} : consumer' = [consumer EXCEPT ![c].step = s]
        /\ {"done", "failed"} \subseteq Working
        /\ UNCHANGED <<status, lead, carries, retry, replay>> /\ routed' = routed \ {c}
    BY <1>2 DEF HandlerEnds, HandlerReturns, HandlerThrows, rows, Working
  <2>2. /\ \A d \in Consumers \ {c} : consumer'[d] = consumer[d]
        /\ consumer'[c].batch = consumer[c].batch
    BY <1>0, <2>1, StepType
  <2>3. consumer'[c].step = "done" => Decided(carries[Current(c)])
    <3>1. c \in routed => Decided(carries[Current(c)])
      BY DEF DeliveryInv, RoutedIsDecided
    <3>2. HandlerThrows(c) => consumer'[c].step = "failed"
      BY <1>0 DEF HandlerThrows, ConsumerState
    <3> QED
      BY <1>2, <3>1, <3>2 DEF HandlerEnds
  <2> QED
    BY <2>1, <2>2, <2>3, ConsumerDelivers DEF BatchOf, Current
<1>3. CASE CrashHandler(c)
  <2>1. /\ \A d \in Consumers \ {c} : consumer'[d] = consumer[d]
        /\ BatchOf(c)' = {} /\ consumer'[c].step = "down"
        /\ UNCHANGED <<status, lead, carries, retry, replay>> /\ routed' = routed \ {c}
    BY <1>0, <1>3 DEF CrashHandler, Crash, Down, BatchOf, Range, rows
  <2> QED
    BY <2>1, ConsumerDelivers
<1> QED
  BY <1>1, <1>2, <1>3

LEMMA DeliveryStep == ASSUME DeliveryInv, [DeliveryNext]_deliveryVars PROVE DeliveryInv'
<1>0. OutboxInv'
  BY StepOfOutbox, OutboxStep DEF DeliveryInv
<1>1. CASE UNCHANGED deliveryVars
  BY <1>0, <1>1, RowsDeliver DEF deliveryVars, vars, rows, DeliveryInv, AskedIsPosted
<1>2. ASSUME NEW l \in Leads, Capture(l) \/ Assign(l)
      PROVE  DeliveryInv'
  <2>1. CASE Capture(l)
    BY <1>0, <2>1, PostDelivers DEF Capture, DeliveryInv, DeliveryTypeOK
  <2>2. CASE Assign(l)
    <3>1. DeliveryTypeOK'
      BY <2>2 DEF Assign, DeliveryInv, DeliveryTypeOK
    <3> QED
      BY <2>2, <3>1, VerdictDelivers DEF Assign, DeliveryInv, DeliveryTypeOK, Decided
  <2> QED
    BY <1>2, <2>1, <2>2
<1>3. ASSUME NEW c \in Consumers, Consume(c)
      PROVE  DeliveryInv'
  <2>1. CASE Reap(c) /\ UNCHANGED leads
    BY <1>0, <2>1, RowsDeliver DEF Reap, DeliveryInv, OutboxInv, OldIsProcessing,
       AskedIsPosted
  <2> QED
    BY <1>0, <1>3, <2>1, PollDelivers, HandlerDelivers DEF Consume, Deliver
<1>4. ASSUME NEW m \in Messages, TimePasses(m)
      PROVE  DeliveryInv'
  BY <1>0, <1>4, RowsDeliver DEF TimePasses, Due, Age, Stall, DeliveryInv, AskedIsPosted
<1>5. ASSUME NEW a \in Admins, ReplayStep(a)
      PROVE  DeliveryInv'
  <2>1. CASE Replay(a)
    <3>1. /\ replay[a] \in Messages /\ status[replay[a]] # "NONE"
          /\ status' = [status EXCEPT ![replay[a]] = "PENDING"]
          /\ replay' = [replay EXCEPT ![a] = 0] /\ UNCHANGED <<consumer, leads>>
      BY <1>5, <2>1 DEF ReplayStep, Replay, DeliveryInv, AskedIsPosted, OutboxInv, TypeOK
    <3>2. 0 \notin Messages
      BY OutboxAssumption DEF Messages
    <3>3. \A n \in Messages : status[n] # "NONE" => status'[n] # "NONE"
      BY <3>1 DEF DeliveryInv, OutboxInv, TypeOK
    <3>4. AskedIsPosted'
      BY <3>1, <3>2, <3>3 DEF DeliveryInv, AskedIsPosted, OutboxInv, TypeOK
    <3> QED
      BY <1>0, <3>1, <3>4, RowsDeliver DEF DeliveryInv, OutboxInv, TypeOK
  <2>2. ASSUME NEW m \in Messages, ReadForReplay(a, m)
        PROVE  DeliveryInv'
    <3>1. /\ status[m] = "DEAD" /\ UNCHANGED <<status, consumer, leads>>
          /\ replay' = [replay EXCEPT ![a] = m]
      BY <1>5, <2>2 DEF ReplayStep, ReadForReplay, rows, Replay
    <3>2. AskedIsPosted'
      BY <3>1 DEF DeliveryInv, AskedIsPosted, OutboxInv, TypeOK
    <3> QED
      BY <1>0, <3>1, <3>2, RowsDeliver
  <2> QED
    BY <1>5, <2>1, <2>2 DEF ReplayStep
<1>6. ASSUME NEW r \in Retriers, RetryStep(r)
      PROVE  DeliveryInv'
  <2>1. CASE Retry(r)
    <3>1. retry[r] \in Leads /\ retry' \in [Retriers -> Leads \cup {NoLead}]
      BY <2>1 DEF Retry, DeliveryInv, DeliveryTypeOK
    <3> QED
      BY <1>0, <2>1, <3>1, PostDelivers DEF Retry
  <2>2. CASE \E l \in Leads : ReadForRetry(r, l)
    <3>1. DeliveryTypeOK'
      BY <2>2 DEF ReadForRetry, DeliveryInv, DeliveryTypeOK
    <3> QED
      BY <2>2, <3>1, VerdictDelivers DEF ReadForRetry
  <2> QED
    BY <1>6, <2>1, <2>2 DEF RetryStep
<1> QED
  BY <1>1, <1>2, <1>3, <1>4, <1>5, <1>6 DEF DeliveryNext

(* INV-5 for every instance: a captured lead nobody has decided on keeps a *)
(* message that is queued, being worked on or dead in sight, through       *)
(* crashes, lost commits, stalls, reaped claims, retries and replays.      *)
THEOREM NoLeadIsStranded == DeliverySpec => []NoLeadStranded
<1>1. DeliveryInit => DeliveryInv
  <2>1. SUFFICES ASSUME DeliveryInit PROVE DeliveryInv
    OBVIOUS
  <2>2. OutboxInv
    BY <2>1, InitOK DEF DeliveryInit
  <2>3. \A c \in Consumers : consumer[c].step \in {"idle", "off"} /\ BatchOf(c) = {}
    BY <2>1, InitIdle DEF DeliveryInit
  <2>4. DeliveryTypeOK /\ PostedCarries /\ ClosedIsDecided /\ HasMessage
    BY <2>1, DeliveryAssumption
       DEF DeliveryInit, Init, DeliveryTypeOK, PostedCarries, ClosedIsDecided, HasMessage
  <2>5. BatchPosted /\ RoutedIsDecided
    BY <2>1, <2>3 DEF DeliveryInit, BatchPosted, RoutedIsDecided
  <2>6. AskedIsPosted
    BY <2>1, OutboxAssumption DEF DeliveryInit, Init, AskedIsPosted, Messages
  <2> QED
    BY <2>2, <2>4, <2>5, <2>6 DEF DeliveryInv
<1>2. DeliveryInv => NoLeadStranded
  BY DEF DeliveryInv, NoLeadStranded, HasMessage, ClosedIsDecided, MessagesOf, Decided
<1> QED
  BY <1>1, <1>2, DeliveryStep, PTL DEF DeliverySpec
=============================================================================
