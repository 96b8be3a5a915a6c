--------------------------- MODULE RoutingProofs ---------------------------
(***************************************************************************)
(* Theorems about Routing, for every set of leads, emails, brokers,        *)
(* configurations, workers and administrators.  First type correctness,    *)
(* the permanent uniqueness of a sale (INV-3), the daily cap (INV-4) and   *)
(* that no lead is forgotten.  Then: every sale is counted by its broker's *)
(* counter, who may wait in a circle for counters, the transactions        *)
(* together implement LeadSale, where a lead is decided in one indivisible *)
(* step, and what holds when one consumer decides alone.                   *)
(***************************************************************************)
EXTENDS Routing, FiniteSetTheorems, TLAPS

(* What the record of a running transaction holds at each of its steps.    *)
TxShape ==
    \A p \in Procs :
        /\ tx[p].step # "idle" => tx[p].lead \in Leads
        /\ tx[p].step \in {"slot", "insert", "email", "sent", "duplicate"} =>
               tx[p].broker \in Brokers
        /\ tx[p].step = "duplicate" => tx[p].prior \in Brokers

TypeInv == TypeOK /\ TxShape

(* AssignedEmail, as its two unique keys keep it.                          *)
Registry ==
    /\ \A c \in claims : c.email = EmailOf[c.lead]
    /\ \A c, d \in claims : c.email = d.email => c = d

(* Rows of the registry are never removed, so a snapshot shows a part of it*)
SnapshotsArePast == \A p \in Procs : tx[p].snap.claims \subseteq claims

(* An uncommitted insert is the only one for its email.                    *)
FreshIsExclusive ==
    \A p \in Procs : tx[p].fresh =>
        /\ tx[p].step = "sent"
        /\ \A c \in claims : c.email # EmailOf[tx[p].lead]
        /\ \A q \in Procs \ {p} :
              tx[q].fresh => EmailOf[tx[q].lead] # EmailOf[tx[p].lead]

(* Who is about to commit SENT has, or will have, the lead in the registry.*)
SentIsBacked ==
    \A p \in Procs : tx[p].step = "sent" /\ ~tx[p].fresh =>
        \E c \in claims : c.lead = tx[p].lead

(* Who is about to commit DUPLICATE has seen the sale it duplicates.       *)
DuplicateIsBacked ==
    \A p \in Procs : tx[p].step = "duplicate" =>
        \E c \in claims : /\ c.email = EmailOf[tx[p].lead]
                          /\ c.lead # tx[p].lead
                          /\ c.broker = tx[p].prior

SalesRegistered ==
    \A l \in Leads : lead[l].status = "SENT" => \E c \in claims : c.lead = l

SaleInv ==
    /\ Registry
    /\ SnapshotsArePast
    /\ FreshIsExclusive
    /\ SentIsBacked
    /\ DuplicateIsBacked
    /\ SalesRegistered
    /\ DuplicateNamesTheSale

(* A counter row is locked by one transaction at most, and whoever has     *)
(* taken a slot holds the lock of its row until it commits.                *)
LocksAreExclusive ==
    /\ \A p, q \in Procs : p # q => tx[p].locks \cap tx[q].locks = {}
    /\ \A p \in Procs : tx[p].step \in {"email", "sent", "duplicate"} =>
           tx[p].broker \in tx[p].locks

Holding == {"email", "sent", "duplicate"}

(* Whoever has taken a slot of a counter under a cap left room for it.     *)
SlotHasRoom ==
    \A p \in Procs :
        /\ tx[p].step \in Holding
        /\ counter[tx[p].broker].exists
        /\ counter[tx[p].broker].capAtTime > 0
        => counter[tx[p].broker].sent < Cap(tx[p])

AbsentRowsEmpty ==
    \A b \in Brokers : ~counter[b].exists => counter[b].sent = 0 /\ counter[b].capAtTime = 0

(* A gap somebody has locked keeps everyone else's row out of it.          *)
GapsKeepOut ==
    \A p \in Procs :
        /\ tx[p].step = "insert" => tx[p].broker \in tx[p].gaps
        /\ \A b \in tx[p].gaps :
              ~counter[b].exists /\ \A q \in Procs \ {p} : b \notin tx[q].locks

CapInv ==
    /\ LocksAreExclusive
    /\ GapsKeepOut
    /\ SlotHasRoom
    /\ CapNeverExceeded
    /\ AbsentRowsEmpty
-----------------------------------------------------------------------------
(* Lemmas about the operators.                                             *)

(* The router only picks one of the candidates it was given.               *)
LEMMA SelectedIsCandidate ==
    ASSUME NEW cands, NEW total, NEW w \in Selected(cands, total)
    PROVE  w \in cands
BY DEF Selected, Eligible

(* A selected candidate is a broker the transaction has not lost.          *)
LEMMA WinnerIsBroker ==
    ASSUME NEW t, NEW total, NEW w \in Selected(Candidates(t), total)
    PROVE  w.id \in Brokers
<1>1. w \in Candidates(t)
    BY SelectedIsCandidate
<1> QED
    BY <1>1 DEF Candidates

(* An idle process holds a well-formed record.                             *)
LEMMA IdleType == Idle \in Tx
<1>1. (CHOOSE c \in Configs : TRUE) \in Configs
    BY RoutingAssumption
<1>2. EmptySnapshot \in Snapshot
    BY <1>1 DEF EmptySnapshot, Snapshot
<1> QED
    BY <1>2 DEF Idle, Tx, Steps, Reasons

(* What a transaction reads first is a well-formed snapshot.               *)
LEMMA SnapshotType ==
    ASSUME TypeOK
    PROVE  TakeSnapshot \in Snapshot
<1> DEFINE S == {l \in Leads : lead[l].status = "SENT"}
<1>1. IsFiniteSet(S)
    BY FS_Subset, RoutingAssumption
<1>2. Cardinality(S) \in Nat
    BY <1>1, FS_CardinalityType
<1>3. \A b \in Brokers : counter[b].sent \in Nat
    BY DEF TypeOK, CounterRow
<1> QED
    BY <1>2, <1>3 DEF TakeSnapshot, Snapshot, TypeOK

(* The caps a well-formed transaction reads are natural numbers.           *)
LEMMA CapType ==
    ASSUME TypeOK, NEW p \in Procs, tx[p].broker \in Brokers
    PROVE  Cap(tx[p]) \in Nat /\ \E c \in Configs : Cap(tx[p]) = c.dailyCap
<1>1. tx[p].snap.config[tx[p].broker] \in Configs
    BY DEF TypeOK, Tx, Snapshot
<1> QED
    BY <1>1, RoutingAssumption DEF Cap, BrokerConfig

-----------------------------------------------------------------------------
(* Type correctness.                                                       *)

LEMMA TypeInit == Init => TypeInv
<1> SUFFICES ASSUME Init PROVE TypeInv
    OBVIOUS
<1>1. TypeOK
    BY IdleType, SettingsAssumption
    DEF Init, TypeOK, LeadRow, Statuses, Reasons, NoRow, CounterRow
<1>2. TxShape
    BY DEF Init, TxShape, Idle
<1> QED
    BY <1>1, <1>2 DEF TypeInv

(* A step that only replaces one process's record by a well-formed one.    *)
LEMMA TxStepType ==
    ASSUME TypeInv, NEW p \in Procs, NEW t \in Tx,
           tx' = [tx EXCEPT ![p] = t],
           t.step # "idle" => t.lead \in Leads,
           t.step \in {"slot", "insert", "email", "sent", "duplicate"} => t.broker \in Brokers,
           t.step = "duplicate" => t.prior \in Brokers
    PROVE  tx' \in [Procs -> Tx] /\ TxShape'
BY DEF TypeInv, TypeOK, TxShape

(* Ending a transaction keeps the records well formed.                     *)
LEMMA IdleStepType ==
    ASSUME TypeInv, NEW p \in Procs, tx' = [tx EXCEPT ![p] = Idle]
    PROVE  tx' \in [Procs -> Tx] /\ TxShape'
<1>1. Idle.step = "idle"
    BY DEF Idle
<1> QED
    BY <1>1, IdleType, TxStepType

(* So does going on to the DONE update after a commit.                     *)
LEMMA FinishStepType ==
    ASSUME TypeInv, NEW p \in Procs, tx[p].step # "idle", Finish(p)
    PROVE  tx' \in [Procs -> Tx] /\ TxShape'
<1> DEFINE t == IF p \in Workers
                THEN [Idle EXCEPT !.step = "ack", !.lead = tx[p].lead, !.msg = tx[p].msg]
                ELSE Idle
<1>1. tx[p].lead \in Leads /\ tx[p].msg \in Nat
    BY DEF TypeInv, TypeOK, TxShape, Tx
<1>2. t \in Tx
    BY <1>1, IdleType DEF Tx, Steps
<1>3. /\ t.step # "idle" => t.lead \in Leads
      /\ t.step \notin {"slot", "insert", "email", "sent", "duplicate"}
    BY <1>1 DEF Idle
<1>4. tx' = [tx EXCEPT ![p] = t]
    BY DEF Finish
<1> HIDE DEF t
<1> QED
    BY <1>2, <1>3, <1>4, TxStepType

(* What tryClaimSlot makes of a transaction's record t: a slot of a row    *)
(* that has room, or of the row it has inserted; the gap of an absent row; *)
(* or a loss, which sends it back to the selection or ends it.             *)
SlotMove(t, u) ==
    /\ u.lead = t.lead /\ u.fresh = t.fresh /\ u.snap = t.snap
    /\ \/ /\ t.step = "slot" /\ counter[t.broker].exists
          /\ SlotFree(counter[t.broker], Cap(t))
          /\ u.step = "email" /\ u.broker = t.broker /\ u.losses = t.losses
          /\ u.locks = t.locks \cup {t.broker} /\ u.gaps = t.gaps
       \/ /\ t.step = "insert"
          /\ u.step = "email" /\ u.broker = t.broker /\ u.losses = t.losses
          /\ u.locks = t.locks \cup {t.broker} /\ u.gaps = t.gaps
       \/ /\ t.step = "slot" /\ ~counter[t.broker].exists
          /\ u.step = "insert" /\ u.broker = t.broker /\ u.losses = t.losses
          /\ u.locks = t.locks /\ u.gaps \in Gaps(t.broker)
       \/ /\ t.step = "slot" /\ counter[t.broker].exists
          /\ u.step \in {"select", "unsent"} /\ u.losses # {}
          /\ u.step = "unsent" => u.reason # "none"
          /\ u.locks = t.locks \cup {t.broker} /\ u.gaps = t.gaps

(* Both statements of tryClaimSlot move one process, or end it, and nothing*)
(* else.                                                                   *)
LEMMA SlotOutcome ==
    ASSUME TypeInv, NEW p \in Workers \cup Assigners, ClaimSlot(p) \/ InsertCounter(p)
    PROVE  /\ p \in Procs /\ tx[p] \in Tx /\ tx[p].step \in {"slot", "insert"}
           /\ tx[p].lead \in Leads /\ tx[p].broker \in Brokers
           /\ UNCHANGED <<setting, lead, claims, counter, config, pending, posted>>
           /\ tx[p].step = "slot" => ~CounterLocked(p, tx[p].broker)
           /\ tx[p].step = "insert" => \A q \in Procs \ {p} : tx[p].broker \notin tx[q].gaps
           /\ \/ tx' = [tx EXCEPT ![p] = Idle]
              \/ \E u \in Tx : tx' = [tx EXCEPT ![p] = u] /\ SlotMove(tx[p], u)
<1> DEFINE t == tx[p]
           b == tx[p].broker
<1>1. p \in Procs /\ t \in Tx /\ t.step \in {"slot", "insert"}
    BY DEF Procs, ClaimSlot, InsertCounter, TypeInv, TypeOK
<1>2. t.lead \in Leads /\ b \in Brokers
    BY <1>1 DEF TypeInv, TxShape
<1>3. UNCHANGED <<setting, lead, claims, counter, config, pending, posted>>
    BY DEF ClaimSlot, InsertCounter
<1>4. /\ t.step = "slot" => ~CounterLocked(p, b)
      /\ t.step = "insert" => \A q \in Procs \ {p} : b \notin tx[q].gaps
    BY DEF ClaimSlot, InsertCounter
<1>5. CASE /\ t.step = "insert" \/ (/\ t.step = "slot" /\ counter[b].exists
                                    /\ SlotFree(counter[b], Cap(t)))
           /\ tx' = [tx EXCEPT ![p] = [t EXCEPT !.step = "email", !.locks = t.locks \cup {b}]]
  <2> DEFINE u == [t EXCEPT !.step = "email", !.locks = t.locks \cup {b}]
  <2>1. /\ u \in Tx /\ u.step = "email" /\ u.lead = t.lead /\ u.fresh = t.fresh
        /\ u.snap = t.snap /\ u.broker = b /\ u.losses = t.losses
        /\ u.locks = t.locks \cup {b} /\ u.gaps = t.gaps
      BY <1>1, <1>2 DEF Tx, Steps
  <2>2. tx' = [tx EXCEPT ![p] = u]
      BY <1>5
  <2> HIDE DEF u
  <2>3. SlotMove(t, u)
      BY <1>5, <2>1 DEF SlotMove
  <2> QED
      BY <1>1, <1>2, <1>3, <1>4, <2>1, <2>2, <2>3
<1>6. ASSUME NEW g \in Gaps(b), t.step = "slot", ~counter[b].exists,
             tx' = [tx EXCEPT ![p] = [t EXCEPT !.step = "insert", !.gaps = g]]
      PROVE  \E u \in Tx : tx' = [tx EXCEPT ![p] = u] /\ SlotMove(t, u)
  <2> DEFINE u == [t EXCEPT !.step = "insert", !.gaps = g]
  <2>1. g \in SUBSET Brokers
      BY <1>6 DEF Gaps
  <2>2. /\ u \in Tx /\ u.step = "insert" /\ u.lead = t.lead /\ u.fresh = t.fresh
        /\ u.snap = t.snap /\ u.broker = b /\ u.losses = t.losses
        /\ u.locks = t.locks /\ u.gaps = g
      BY <1>1, <1>2, <2>1 DEF Tx, Steps
  <2>3. tx' = [tx EXCEPT ![p] = u]
      BY <1>6
  <2> HIDE DEF u
  <2>4. SlotMove(t, u)
      BY <1>6, <2>2 DEF SlotMove
  <2> QED
      BY <2>2, <2>3, <2>4
<1>7. ASSUME t.step = "slot", counter[b].exists, LoseSlot(p)
      PROVE  \/ tx' = [tx EXCEPT ![p] = Idle]
             \/ \E u \in Tx : tx' = [tx EXCEPT ![p] = u] /\ SlotMove(t, u)
  <2> DEFINE lost == t.losses \cup {b}
             again == Cardinality(lost) < MaxSelectionAttempts
             step == IF again THEN "select" ELSE "unsent"
             reason == IF again THEN t.reason ELSE "CAP_CONTENTION_EXHAUSTED"
             u == [t EXCEPT !.locks = t.locks \cup {b}, !.losses = lost, !.broker = 0,
                            !.step = step, !.reason = reason]
  <2>1. /\ lost \in SUBSET Brokers /\ lost # {} /\ t.locks \cup {b} \in SUBSET Brokers
      BY <1>1, <1>2 DEF Tx
  <2>2. /\ step \in {"select", "unsent"} /\ reason \in Reasons
        /\ step = "unsent" => reason # "none"
      BY <1>1 DEF Tx, Reasons
  <2>3. tx' = [tx EXCEPT ![p] = u] \/ tx' = [tx EXCEPT ![p] = Idle]
      BY <1>7, Zenon DEF LoseSlot
  <2> HIDE DEF lost, step, reason
  <2>4. /\ u \in Tx /\ u.step = step /\ u.reason = reason /\ u.lead = t.lead
        /\ u.fresh = t.fresh /\ u.snap = t.snap /\ u.losses = lost
        /\ u.locks = t.locks \cup {b} /\ u.gaps = t.gaps
      BY <1>1, <1>2, <2>1, <2>2 DEF Tx, Steps
  <2> HIDE DEF u
  <2>5. SlotMove(t, u)
      BY <1>7, <2>1, <2>2, <2>4 DEF SlotMove
  <2> QED
      BY <2>3, <2>4, <2>5
<1>8. \/ /\ t.step = "insert" \/ (/\ t.step = "slot" /\ counter[b].exists
                                  /\ SlotFree(counter[b], Cap(t)))
         /\ tx' = [tx EXCEPT ![p] = [t EXCEPT !.step = "email", !.locks = t.locks \cup {b}]]
      \/ t.step = "slot" /\ counter[b].exists /\ LoseSlot(p)
      \/ /\ t.step = "slot" /\ ~counter[b].exists
         /\ \E g \in Gaps(b) :
               tx' = [tx EXCEPT ![p] = [t EXCEPT !.step = "insert", !.gaps = g]]
    BY Zenon DEF ClaimSlot, InsertCounter
<1> HIDE DEF t, b
<1>9. \/ tx' = [tx EXCEPT ![p] = Idle]
      \/ \E u \in Tx : tx' = [tx EXCEPT ![p] = u] /\ SlotMove(t, u)
    BY <1>5, <1>6, <1>7, <1>8 DEF t, b
<1> QED
    BY <1>1, <1>2, <1>3, <1>4, <1>9 DEF t, b

(* Every action of the router keeps the type invariant.                    *)
LEMMA TypeNext == TypeInv /\ [Next]_vars => TypeInv'
<1> SUFFICES ASSUME TypeInv, [Next]_vars PROVE TypeInv'
    OBVIOUS
<1> USE DEF TypeInv
<1>1. ASSUME NEW l \in Leads, Capture(l)
      PROVE  TypeInv'
  <2>1. lead' \in [Leads -> LeadRow]
    BY <1>1 DEF Capture, TypeOK, LeadRow, Statuses
  <2>2. pending' \in SUBSET (Leads \X Nat) /\ posted' \in [Leads -> Nat]
    BY <1>1 DEF Capture, Post, TypeOK
  <2> QED
    BY <1>1, <2>1, <2>2 DEF Capture, TypeOK, TxShape
<1>2. ASSUME NEW b \in Brokers, Reconfigure(b)
      PROVE  TypeInv'
    BY <1>2, SettingsAssumption DEF Reconfigure, TypeOK, TxShape
<1>3. ASSUME NEW p \in Procs, Abort(p)
      PROVE  TypeInv'
    BY <1>3, IdleStepType DEF Abort, TypeOK
<1>4. ASSUME NEW p \in Workers, NEW m \in pending, BeginRouting(p, m)
      PROVE  TypeInv'
  <2> DEFINE t == [Idle EXCEPT !.lead = m[1], !.msg = m[2], !.snap = TakeSnapshot,
                               !.step = IF lead[m[1]].status \in {"SENT", "DUPLICATE"}
                                        THEN "ack" ELSE "select"]
  <2>1. m[1] \in Leads /\ m[2] \in Nat
      BY DEF TypeOK
  <2>2. t \in Tx
      BY <2>1, IdleType, SnapshotType DEF Tx, Steps
  <2>3. t.lead = m[1] /\ t.step \in {"ack", "select"}
      BY DEF Idle
  <2>4. p \in Procs /\ tx' = [tx EXCEPT ![p] = t]
      BY <1>4 DEF BeginRouting, Procs
  <2> HIDE DEF t
  <2>5. tx' \in [Procs -> Tx] /\ TxShape'
      BY <2>1, <2>2, <2>3, <2>4, TxStepType
  <2> QED
      BY <2>5, <1>4 DEF BeginRouting, TypeOK
<1>5. ASSUME NEW p \in Workers, Select(p)
      PROVE  TypeInv'
  <2>1. p \in Procs
      BY DEF Procs
  <2>2. tx' \in [Procs -> Tx] /\ TxShape'
    <3>1. ASSUME NEW w \in Selected(Candidates(tx[p]), tx[p].snap.total),
                 tx' = [tx EXCEPT ![p] = [tx[p] EXCEPT !.step = "slot", !.broker = w.id]]
          PROVE  tx' \in [Procs -> Tx] /\ TxShape'
      <4>1. w.id \in Brokers
          BY WinnerIsBroker
      <4>2. tx[p].lead \in Leads
          BY <1>5, <2>1 DEF TxShape, Select
      <4> DEFINE t == [tx[p] EXCEPT !.step = "slot", !.broker = w.id]
      <4>3. t \in Tx /\ t.step = "slot" /\ t.lead = tx[p].lead /\ t.broker = w.id
          BY <2>1, <4>1 DEF TypeOK, Tx, Steps
      <4>4. tx' = [tx EXCEPT ![p] = t]
          BY <3>1
      <4> HIDE DEF t
      <4> QED
          BY <2>1, <4>1, <4>2, <4>3, <4>4, TxStepType
    <3>2. ASSUME NEW r \in Reasons,
                 tx' = [tx EXCEPT ![p] = [tx[p] EXCEPT !.step = "unsent", !.reason = r]]
          PROVE  tx' \in [Procs -> Tx] /\ TxShape'
      <4>1. tx[p].lead \in Leads
          BY <1>5, <2>1 DEF TxShape, Select
      <4> DEFINE t == [tx[p] EXCEPT !.step = "unsent", !.reason = r]
      <4>2. t \in Tx /\ t.step = "unsent" /\ t.lead = tx[p].lead
          BY <2>1 DEF TypeOK, Tx, Steps
      <4>3. tx' = [tx EXCEPT ![p] = t]
          BY <3>2
      <4> HIDE DEF t
      <4> QED
          BY <2>1, <4>1, <4>2, <4>3, TxStepType
    <3>3. (IF tx[p].losses # {} THEN "CAP_CONTENTION_EXHAUSTED"
                               ELSE NoWinnerReason(Candidates(tx[p]))) \in Reasons
        BY DEF NoWinnerReason, Reasons
    <3> QED
        BY <1>5, <3>1, <3>2, <3>3 DEF Select
  <2> QED
      BY <2>2, <1>5 DEF Select, TypeOK
<1>6. ASSUME NEW p \in Assigners, NEW l \in Leads, NEW b \in Brokers,
             BeginManual(p, l, b)
      PROVE  TypeInv'
  <2> DEFINE t == [Idle EXCEPT !.lead = l, !.broker = b,
                               !.snap = TakeSnapshot, !.step = "slot"]
  <2>1. t \in Tx
      BY IdleType, SnapshotType DEF Tx, Steps
  <2>2. t.lead = l /\ t.broker = b /\ t.step = "slot"
      BY DEF Idle
  <2>3. p \in Procs /\ tx' = [tx EXCEPT ![p] = t]
      BY <1>6 DEF BeginManual, Procs
  <2> HIDE DEF t
  <2>4. tx' \in [Procs -> Tx] /\ TxShape'
      BY <2>1, <2>2, <2>3, TxStepType
  <2> QED
      BY <2>4, <1>6 DEF BeginManual, TypeOK
<1>7. ASSUME NEW p \in Workers \cup Assigners, ClaimSlot(p) \/ InsertCounter(p)
      PROVE  TypeInv'
  <2>1. /\ p \in Procs /\ tx[p].lead \in Leads /\ tx[p].broker \in Brokers
        /\ UNCHANGED <<setting, lead, claims, counter, config, pending, posted>>
      BY <1>7, SlotOutcome
  <2>2. CASE tx' = [tx EXCEPT ![p] = Idle]
      BY <2>1, <2>2, IdleStepType DEF TypeOK
  <2>3. ASSUME NEW u \in Tx, tx' = [tx EXCEPT ![p] = u], SlotMove(tx[p], u)
        PROVE  TypeInv'
    <3>1. tx' \in [Procs -> Tx] /\ TxShape'
        BY <2>1, <2>3, TxStepType DEF SlotMove
    <3> QED
        BY <2>1, <3>1 DEF TypeOK
  <2> QED
      BY <1>7, <2>2, <2>3, SlotOutcome
<1>8. ASSUME NEW p \in Workers \cup Assigners, ClaimEmail(p)
      PROVE  TypeInv'
  <2>1. p \in Procs
      BY DEF Procs
  <2>2. tx[p].lead \in Leads /\ tx[p].broker \in Brokers
      BY <1>8, <2>1 DEF ClaimEmail, TxShape
  <2>3. ASSUME NEW f \in BOOLEAN,
               tx' = [tx EXCEPT ![p] = [tx[p] EXCEPT !.step = "sent", !.fresh = f]]
        PROVE  TypeInv'
    <3> DEFINE t == [tx[p] EXCEPT !.step = "sent", !.fresh = f]
    <3>1. /\ t \in Tx /\ t.step = "sent" /\ t.lead = tx[p].lead
          /\ t.broker = tx[p].broker
        BY <2>1, <2>2 DEF TypeOK, Tx, Steps
    <3> HIDE DEF t
    <3>2. tx' \in [Procs -> Tx] /\ TxShape'
        BY <2>1, <2>2, <2>3, <3>1, TxStepType DEF t
    <3> QED
        BY <3>2, <1>8 DEF ClaimEmail, TypeOK
  <2>4. ASSUME NEW c \in TakenBy(tx[p]),
               tx' = [tx EXCEPT ![p] =
                        [tx[p] EXCEPT !.step = "duplicate", !.prior = c.broker]]
        PROVE  TypeInv'
    <3>1. c.broker \in Brokers
        BY <2>1 DEF TypeOK, Tx, Snapshot, ClaimRow, TakenBy, PriorByEmail, PriorByLead
    <3> DEFINE t == [tx[p] EXCEPT !.step = "duplicate", !.prior = c.broker]
    <3>2. /\ t \in Tx /\ t.step = "duplicate" /\ t.lead = tx[p].lead
          /\ t.broker = tx[p].broker /\ t.prior = c.broker
        BY <2>1, <2>2, <3>1 DEF TypeOK, Tx, Steps
    <3> HIDE DEF t
    <3>3. tx' \in [Procs -> Tx] /\ TxShape'
        BY <2>1, <2>2, <2>4, <3>1, <3>2, TxStepType DEF t
    <3> QED
        BY <3>3, <1>8 DEF ClaimEmail, TypeOK
  <2>5. CASE tx' = [tx EXCEPT ![p] = Idle]
      BY <2>1, <2>5, <1>8, IdleStepType DEF ClaimEmail, TypeOK
  <2>6. [tx[p] EXCEPT !.step = "sent"] = [tx[p] EXCEPT !.step = "sent", !.fresh = tx[p].fresh]
        /\ tx[p].fresh \in BOOLEAN
      BY <2>1 DEF TypeOK, Tx
  <2> QED
      BY <1>8, <2>3, <2>4, <2>5, <2>6 DEF ClaimEmail
<1>9. ASSUME NEW p \in Workers \cup Assigners, CommitSent(p)
      PROVE  TypeInv'
  <2>1. p \in Procs
      BY DEF Procs
  <2>2. tx[p].lead \in Leads /\ tx[p].broker \in Brokers /\ tx[p].step # "idle"
      BY <1>9, <2>1 DEF CommitSent, TxShape
  <2>3. tx' \in [Procs -> Tx] /\ TxShape'
      BY <1>9, <2>1, <2>2, FinishStepType DEF CommitSent
  <2>4. CountedRow(tx[p]) \in CounterRow
      BY <2>1, <2>2, CapType DEF CountedRow, CounterRow, TypeOK
  <2>5. OwnClaim(tx[p]) \in ClaimRow
      BY <2>2, RoutingAssumption DEF OwnClaim, ClaimRow
  <2>6. claims' \in SUBSET ClaimRow /\ counter' \in [Brokers -> CounterRow]
      BY <1>9, <2>4, <2>5 DEF CommitSent, TypeOK
  <2>7. lead' \in [Leads -> LeadRow]
      BY <1>9, <2>2 DEF CommitSent, TypeOK, LeadRow, Statuses, Reasons
  <2> QED
      BY <1>9, <2>3, <2>6, <2>7 DEF CommitSent, TypeOK
<1>10. ASSUME NEW p \in Workers, CommitDuplicate(p)
      PROVE  TypeInv'
  <2>1. p \in Procs
      BY DEF Procs
  <2>2. /\ tx[p].lead \in Leads /\ tx[p].broker \in Brokers
        /\ tx[p].prior \in Brokers /\ tx[p].step # "idle"
      BY <1>10, <2>1 DEF CommitDuplicate, TxShape
  <2>3. tx' \in [Procs -> Tx] /\ TxShape'
      BY <1>10, <2>1, <2>2, FinishStepType DEF CommitDuplicate
  <2>4. CountedRow(tx[p]) \in CounterRow
      BY <2>1, <2>2, CapType DEF CountedRow, CounterRow, TypeOK
  <2>5. lead' \in [Leads -> LeadRow] /\ counter' \in [Brokers -> CounterRow]
      BY <1>10, <2>2, <2>4 DEF CommitDuplicate, TypeOK, LeadRow, Statuses, Reasons
  <2> QED
      BY <1>10, <2>3, <2>5 DEF CommitDuplicate, TypeOK
<1>11. ASSUME NEW p \in Workers, CommitUnsent(p)
      PROVE  TypeInv'
  <2>1. p \in Procs
      BY DEF Procs
  <2>2. tx[p].step # "idle" /\ tx[p].reason \in Reasons
      BY <1>11, <2>1 DEF CommitUnsent, TypeOK, Tx
  <2>3. tx' \in [Procs -> Tx] /\ TxShape'
      BY <1>11, <2>1, <2>2, FinishStepType DEF CommitUnsent
  <2>4. lead' \in [Leads -> LeadRow]
    <3>1. ASSUME tx[p].lead \in Leads
          PROVE  [lead[tx[p].lead] EXCEPT !.status = "UNSENT", !.reason = tx[p].reason]
                   \in LeadRow
        BY <2>2, <3>1 DEF TypeOK, LeadRow, Statuses
    <3> QED
        BY <1>11, <3>1 DEF CommitUnsent, TypeOK
  <2> QED
      BY <1>11, <2>3, <2>4 DEF CommitUnsent, TypeOK
<1>12. ASSUME NEW p \in Workers, Acknowledge(p)
      PROVE  TypeInv'
  <2>1. p \in Procs
      BY DEF Procs
  <2> QED
      BY <1>12, <2>1, IdleStepType DEF Acknowledge, TypeOK
<1>13. ASSUME NEW p \in Retriers, NEW l \in Leads, ReadForRetry(p, l)
      PROVE  TypeInv'
  <2>1. p \in Procs
      BY DEF Procs
  <2>2. tx' \in [Procs -> Tx] /\ TxShape'
    <3> DEFINE t == [tx[p] EXCEPT !.step = "requeue", !.lead = l]
    <3>1. t \in Tx /\ t.step = "requeue" /\ t.lead = l
        BY <2>1 DEF TypeOK, Tx, Steps
    <3>2. tx' = [tx EXCEPT ![p] = t]
        BY <1>13 DEF ReadForRetry
    <3> HIDE DEF t
    <3> QED
        BY <2>1, <3>1, <3>2, TxStepType
  <2> QED
      BY <1>13, <2>2 DEF ReadForRetry, TypeOK
<1>14. ASSUME NEW p \in Retriers, Requeue(p)
      PROVE  TypeInv'
  <2>1. p \in Procs /\ tx[p].lead \in Leads
      BY <1>14 DEF Procs, Requeue, TxShape
  <2>2. tx' \in [Procs -> Tx] /\ TxShape'
      BY <1>14, <2>1, IdleStepType DEF Requeue
  <2> QED
      BY <1>14, <2>1, <2>2 DEF Requeue, Post, TypeOK
<1>15. CASE UNCHANGED vars
    BY <1>15 DEF vars, TypeOK, TxShape
<1> QED
    BY <1>1, <1>2, <1>3, <1>4, <1>5, <1>6, <1>7, <1>8, <1>9, <1>10, <1>11, <1>12,
       <1>13, <1>14, <1>15
    DEF Next, WorkerStep, AssignStep, ClaimStep, RetryStep

(* Every variable keeps its type, and a running transaction's record names *)
(* the lead, broker and prior owner its step needs.                        *)
THEOREM TypeCorrect == Spec => []TypeOK
<1>1. Spec => []TypeInv
    BY TypeInit, TypeNext, PTL DEF Spec
<1>2. TypeInv => TypeOK
    BY DEF TypeInv
<1> QED
    BY <1>1, <1>2, PTL
-----------------------------------------------------------------------------
(* One sale per email.                                                     *)

(* The fields of an idle process the invariants below look at.             *)
LEMMA IdleFields ==
    /\ Idle.step = "idle"
    /\ Idle.fresh = FALSE
    /\ Idle.locks = {}
    /\ Idle.gaps = {}
    /\ Idle.snap.claims = {}
BY DEF Idle, EmptySnapshot

(* Nothing is sold, registered or in flight at the start.                  *)
LEMMA SaleInit == Init => SaleInv
BY IdleFields
DEF Init, SaleInv, Registry, SnapshotsArePast, FreshIsExclusive, SentIsBacked,
    DuplicateIsBacked, SalesRegistered, DuplicateNamesTheSale

(* A step that writes neither the registry nor a settled status, and leaves*)
(* its process away from the last statement of a sale, keeps the invariant.*)
LEMMA QuietStep ==
    ASSUME TypeInv, SaleInv, NEW p \in Procs, NEW t,
           tx' = [tx EXCEPT ![p] = t],
           claims' = claims,
           t.fresh = FALSE,
           t.snap.claims \subseteq claims,
           t.step \notin {"sent", "duplicate"},
           \A l \in Leads : lead'[l].status \in {"SENT", "DUPLICATE"} =>
                                lead'[l] = lead[l]
    PROVE  SaleInv'
<1>1. \A q \in Procs : tx'[q] = IF q = p THEN t ELSE tx[q]
    BY DEF TypeInv, TypeOK
<1> USE DEF SaleInv
<1>2. Registry'
    BY DEF Registry
<1>3. SnapshotsArePast'
    BY <1>1 DEF SnapshotsArePast
<1>4. FreshIsExclusive'
    BY <1>1 DEF FreshIsExclusive
<1>5. SentIsBacked'
    BY <1>1 DEF SentIsBacked
<1>6. DuplicateIsBacked'
    BY <1>1 DEF DuplicateIsBacked
<1>7. SalesRegistered'
    BY DEF SalesRegistered
<1>8. DuplicateNamesTheSale'
    BY DEF DuplicateNamesTheSale
<1> QED
    BY <1>2, <1>3, <1>4, <1>5, <1>6, <1>7, <1>8

(* The registry and the lead rows are untouched: what the email claim and  *)
(* the other statements before a commit do.                                *)
LEMMA SaleClaimEmail ==
    ASSUME TypeInv, SaleInv, NEW p \in Workers \cup Assigners, ClaimEmail(p)
    PROVE  SaleInv'
<1>1. /\ p \in Procs /\ tx[p].step = "email" /\ tx[p].fresh = FALSE
      /\ tx[p].lead \in Leads /\ claims' = claims /\ lead' = lead
    BY DEF Procs, ClaimEmail, SaleInv, FreshIsExclusive, TypeInv, TypeOK, TxShape, Tx
<1>2. CASE tx' = [tx EXCEPT ![p] = Idle]
    BY <1>1, <1>2, IdleFields, QuietStep
<1>3. CASE ~UniqueViolation(tx[p])
  <2> DEFINE t == [tx[p] EXCEPT !.step = "sent", !.fresh = TRUE]
  <2>1. tx' = [tx EXCEPT ![p] = t]
      BY <1>3 DEF ClaimEmail
  <2>2. t.lead = tx[p].lead /\ t.snap = tx[p].snap /\ t.step = "sent" /\ t.fresh = TRUE
      BY <1>1 DEF TypeInv, TypeOK, Tx
  <2> HIDE DEF t
  <2>3. \A q \in Procs : tx'[q] = IF q = p THEN t ELSE tx[q]
      BY <2>1 DEF TypeInv, TypeOK
  <2>4. \A c \in claims : c.email # EmailOf[t.lead]
      BY <1>3, <2>2 DEF UniqueViolation
  <2>5. \A q \in Procs \ {p} : tx[q].fresh => EmailOf[tx[q].lead] # EmailOf[t.lead]
      BY <2>2 DEF ClaimEmail, EmailLocked, HoldsEmail
  <2>6. FreshIsExclusive'
      BY <1>1, <2>2, <2>3, <2>4, <2>5 DEF SaleInv, FreshIsExclusive
  <2>7. SnapshotsArePast' /\ SentIsBacked' /\ DuplicateIsBacked'
      BY <1>1, <2>2, <2>3
      DEF SaleInv, SnapshotsArePast, SentIsBacked, DuplicateIsBacked
  <2> QED
      BY <1>1, <2>6, <2>7
      DEF SaleInv, Registry, SalesRegistered, DuplicateNamesTheSale
<1>4. CASE /\ \E c \in PriorByEmail(tx[p]) : c.lead = tx[p].lead
           /\ tx' = [tx EXCEPT ![p] = [tx[p] EXCEPT !.step = "sent"]]
  <2> DEFINE t == [tx[p] EXCEPT !.step = "sent"]
  <2>1. t.lead = tx[p].lead /\ t.snap = tx[p].snap /\ t.step = "sent" /\ t.fresh = FALSE
      BY <1>1 DEF TypeInv, TypeOK, Tx
  <2>2. tx' = [tx EXCEPT ![p] = t]
      BY <1>4
  <2> HIDE DEF t
  <2>3. \A q \in Procs : tx'[q] = IF q = p THEN t ELSE tx[q]
      BY <2>2 DEF TypeInv, TypeOK
  <2>4. \E c \in claims : c.lead = tx[p].lead
      BY <1>1, <1>4 DEF SaleInv, SnapshotsArePast, PriorByEmail
  <2>5. SentIsBacked'
      BY <1>1, <2>1, <2>3, <2>4 DEF SaleInv, SentIsBacked
  <2>6. SnapshotsArePast' /\ FreshIsExclusive' /\ DuplicateIsBacked'
      BY <1>1, <2>1, <2>3
      DEF SaleInv, SnapshotsArePast, FreshIsExclusive, DuplicateIsBacked
  <2> QED
      BY <1>1, <2>5, <2>6
      DEF SaleInv, Registry, SalesRegistered, DuplicateNamesTheSale
<1>5. ASSUME NEW c \in TakenBy(tx[p]),
             tx' = [tx EXCEPT ![p] =
                      [tx[p] EXCEPT !.step = "duplicate", !.prior = c.broker]]
      PROVE  SaleInv'
  <2> DEFINE t == [tx[p] EXCEPT !.step = "duplicate", !.prior = c.broker]
  <2>1. /\ t.lead = tx[p].lead /\ t.snap = tx[p].snap /\ t.step = "duplicate"
        /\ t.fresh = FALSE /\ t.prior = c.broker
      BY <1>1 DEF TypeInv, TypeOK, Tx
  <2>2. tx' = [tx EXCEPT ![p] = t]
      BY <1>5
  <2> HIDE DEF t
  <2>3. \A q \in Procs : tx'[q] = IF q = p THEN t ELSE tx[q]
      BY <2>2 DEF TypeInv, TypeOK
  <2>4. tx[p].snap.claims \subseteq claims
      BY <1>1 DEF SaleInv, SnapshotsArePast
  <2>5. c \in claims /\ c.email = EmailOf[tx[p].lead] /\ c.lead # tx[p].lead
    <3>1. CASE PriorByEmail(tx[p]) # {}
        BY <2>4, <3>1 DEF TakenBy, PriorByEmail
    <3>2. CASE PriorByEmail(tx[p]) = {}
        BY <2>4, <3>2 DEF TakenBy, PriorByEmail, PriorByLead, SaleInv, Registry
    <3> QED
        BY <3>1, <3>2
  <2>6. DuplicateIsBacked'
      BY <1>1, <2>1, <2>3, <2>5 DEF SaleInv, DuplicateIsBacked
  <2>7. SnapshotsArePast' /\ FreshIsExclusive' /\ SentIsBacked'
      BY <1>1, <2>1, <2>3
      DEF SaleInv, SnapshotsArePast, FreshIsExclusive, SentIsBacked
  <2> QED
      BY <1>1, <2>6, <2>7
      DEF SaleInv, Registry, SalesRegistered, DuplicateNamesTheSale
<1> QED
    BY <1>2, <1>3, <1>4, <1>5 DEF ClaimEmail

(* Committing a sale adds the row nobody else can be adding.               *)
LEMMA SaleCommitSent ==
    ASSUME TypeInv, SaleInv, NEW p \in Workers \cup Assigners, CommitSent(p)
    PROVE  SaleInv'
<1> DEFINE l == tx[p].lead
           own == OwnClaim(tx[p])
<1>1. p \in Procs /\ tx[p].step = "sent" /\ l \in Leads /\ tx[p].fresh \in BOOLEAN
    BY DEF Procs, CommitSent, TypeInv, TypeOK, TxShape, Tx
<1>2. own.email = EmailOf[l] /\ own.lead = l
    BY DEF OwnClaim
<1>3. claims' = claims \cup (IF tx[p].fresh THEN {own} ELSE {})
    BY DEF CommitSent
<1>4. \A k \in Leads : k # l => lead'[k] = lead[k]
    BY DEF CommitSent, TypeInv, TypeOK
<1>5. lead'[l].status = "SENT"
    BY <1>1 DEF CommitSent, TypeInv, TypeOK
<1>6. /\ tx'[p].fresh = FALSE /\ tx'[p].snap.claims = {}
      /\ tx'[p].step \in {"idle", "ack"}
    BY <1>1, IdleFields DEF CommitSent, Finish, TypeInv, TypeOK, Idle, EmptySnapshot
<1>7. \A q \in Procs : q # p => tx'[q] = tx[q]
    BY DEF CommitSent, Finish, TypeInv, TypeOK
<1>8. \E c \in claims' : c.lead = l
    BY <1>1, <1>2, <1>3 DEF SaleInv, SentIsBacked
<1> HIDE DEF own, l
<1>9. Registry'
    BY <1>1, <1>2, <1>3 DEF SaleInv, Registry, FreshIsExclusive, l
<1>10. SnapshotsArePast'
    BY <1>3, <1>6, <1>7 DEF SaleInv, SnapshotsArePast
<1>11. FreshIsExclusive'
  <2> SUFFICES ASSUME NEW q \in Procs, tx'[q].fresh
               PROVE  /\ tx'[q].step = "sent"
                      /\ \A c \in claims' : c.email # EmailOf[tx'[q].lead]
                      /\ \A r \in Procs \ {q} :
                            tx'[r].fresh => EmailOf[tx'[r].lead] # EmailOf[tx'[q].lead]
      BY DEF FreshIsExclusive
  <2>1. q # p /\ tx'[q] = tx[q]
      BY <1>6, <1>7
  <2>2. tx[p].fresh => EmailOf[l] # EmailOf[tx[q].lead]
      BY <1>1, <2>1 DEF SaleInv, FreshIsExclusive, l
  <2> QED
      BY <1>2, <1>3, <1>6, <1>7, <2>1, <2>2 DEF SaleInv, FreshIsExclusive
<1>12. SentIsBacked'
    BY <1>3, <1>6, <1>7 DEF SaleInv, SentIsBacked
<1>13. DuplicateIsBacked'
    BY <1>3, <1>6, <1>7 DEF SaleInv, DuplicateIsBacked
<1>14. SalesRegistered'
    BY <1>3, <1>4, <1>8 DEF SaleInv, SalesRegistered
<1>15. DuplicateNamesTheSale'
    BY <1>3, <1>4, <1>5 DEF SaleInv, DuplicateNamesTheSale
<1> QED
    BY <1>9, <1>10, <1>11, <1>12, <1>13, <1>14, <1>15 DEF SaleInv

(* Committing a duplicate writes the owner of a row it has read.           *)
LEMMA SaleCommitDuplicate ==
    ASSUME TypeInv, SaleInv, NEW p \in Workers, CommitDuplicate(p)
    PROVE  SaleInv'
<1>1. p \in Procs /\ tx[p].step = "duplicate" /\ tx[p].lead \in Leads
    BY DEF Procs, CommitDuplicate, TypeInv, TypeOK, TxShape, Tx
<1>2. claims' = claims
    BY DEF CommitDuplicate
<1>3. \A k \in Leads : k # tx[p].lead => lead'[k] = lead[k]
    BY DEF CommitDuplicate, TypeInv, TypeOK
<1>4. lead'[tx[p].lead].status = "DUPLICATE" /\ lead'[tx[p].lead].broker = tx[p].prior
    BY <1>1 DEF CommitDuplicate, TypeInv, TypeOK
<1>5. /\ tx'[p].fresh = FALSE /\ tx'[p].snap.claims = {}
      /\ tx'[p].step \in {"idle", "ack"}
    BY <1>1, IdleFields DEF CommitDuplicate, Finish, TypeInv, TypeOK, Idle, EmptySnapshot
<1>6. \A q \in Procs : q # p => tx'[q] = tx[q]
    BY DEF CommitDuplicate, Finish, TypeInv, TypeOK
<1>7. DuplicateNamesTheSale'
    BY <1>1, <1>2, <1>3, <1>4 DEF SaleInv, DuplicateNamesTheSale, DuplicateIsBacked
<1>8. SalesRegistered'
    BY <1>2, <1>3, <1>4 DEF SaleInv, SalesRegistered
<1>9. SnapshotsArePast' /\ FreshIsExclusive' /\ SentIsBacked' /\ DuplicateIsBacked'
    BY <1>2, <1>5, <1>6
    DEF SaleInv, SnapshotsArePast, FreshIsExclusive, SentIsBacked, DuplicateIsBacked
<1> QED
    BY <1>2, <1>7, <1>8, <1>9 DEF SaleInv, Registry
(* A process away from its last statement has no uncommitted insert and    *)
(* reads a snapshot that is part of the registry.                          *)
LEMMA BeforeCommit ==
    ASSUME TypeInv, SaleInv, NEW p \in Procs, tx[p].step # "sent"
    PROVE  tx[p].fresh = FALSE /\ tx[p].snap.claims \subseteq claims
BY DEF TypeInv, TypeOK, Tx, SaleInv, FreshIsExclusive, SnapshotsArePast

(* Ending a transaction changes no fact about sales.                       *)
LEMMA SaleIdle ==
    ASSUME TypeInv, SaleInv, NEW p \in Procs,
           tx' = [tx EXCEPT ![p] = Idle], claims' = claims, lead' = lead
    PROVE  SaleInv'
BY IdleFields, QuietStep

(* Every action of the router keeps the facts about sales.                 *)
LEMMA SaleNext == TypeInv /\ SaleInv /\ [Next]_vars => SaleInv'
<1> SUFFICES ASSUME TypeInv, SaleInv, [Next]_vars PROVE SaleInv'
    OBVIOUS
<1> USE DEF SaleInv
<1>1. ASSUME NEW l \in Leads, Capture(l)
      PROVE  SaleInv'
  <2>1. /\ claims' = claims /\ tx' = tx
        /\ \A k \in Leads : k # l => lead'[k] = lead[k]
        /\ lead'[l].status = "UNSENT"
      BY <1>1 DEF Capture, TypeInv, TypeOK, LeadRow
  <2> QED
      BY <2>1 DEF Registry, SnapshotsArePast, FreshIsExclusive, SentIsBacked,
                  DuplicateIsBacked, SalesRegistered, DuplicateNamesTheSale
<1>2. ASSUME NEW b \in Brokers, Reconfigure(b)
      PROVE  SaleInv'
    BY <1>2 DEF Reconfigure, Registry, SnapshotsArePast, FreshIsExclusive, SentIsBacked,
                DuplicateIsBacked, SalesRegistered, DuplicateNamesTheSale
<1>3. ASSUME NEW p \in Procs, Abort(p)
      PROVE  SaleInv'
    BY <1>3, SaleIdle DEF Abort
<1>4. ASSUME NEW p \in Workers, NEW m \in pending, BeginRouting(p, m)
      PROVE  SaleInv'
  <2> DEFINE s == IF lead[m[1]].status \in {"SENT", "DUPLICATE"} THEN "ack" ELSE "select"
             t == [Idle EXCEPT !.lead = m[1], !.msg = m[2], !.snap = TakeSnapshot, !.step = s]
  <2>1. p \in Procs /\ claims' = claims /\ lead' = lead /\ tx' = [tx EXCEPT ![p] = t]
      BY <1>4 DEF BeginRouting, Procs
  <2>2. /\ t.fresh = FALSE /\ t.snap.claims \subseteq claims
        /\ t.step \notin {"sent", "duplicate"}
      BY DEF Idle, TakeSnapshot
  <2> HIDE DEF t
  <2> QED
      BY <2>1, <2>2, QuietStep
<1>5. ASSUME NEW p \in Workers, Select(p)
      PROVE  SaleInv'
  <2>1. p \in Procs /\ claims' = claims /\ lead' = lead /\ tx[p].step # "sent"
      BY <1>5 DEF Select, Procs
  <2>2. tx[p].fresh = FALSE /\ tx[p].snap.claims \subseteq claims /\ tx[p] \in Tx
      BY <2>1, BeforeCommit DEF TypeInv, TypeOK
  <2>3. ASSUME NEW w,
               tx' = [tx EXCEPT ![p] = [tx[p] EXCEPT !.step = "slot", !.broker = w]]
        PROVE  SaleInv'
    <3> DEFINE t == [tx[p] EXCEPT !.step = "slot", !.broker = w]
    <3>1. /\ t.fresh = FALSE /\ t.snap.claims \subseteq claims
          /\ t.step \notin {"sent", "duplicate"} /\ tx' = [tx EXCEPT ![p] = t]
        BY <2>2, <2>3 DEF Tx
    <3> HIDE DEF t
    <3> QED
        BY <2>1, <3>1, QuietStep
  <2>4. ASSUME NEW r,
               tx' = [tx EXCEPT ![p] = [tx[p] EXCEPT !.step = "unsent", !.reason = r]]
        PROVE  SaleInv'
    <3> DEFINE t == [tx[p] EXCEPT !.step = "unsent", !.reason = r]
    <3>1. /\ t.fresh = FALSE /\ t.snap.claims \subseteq claims
          /\ t.step \notin {"sent", "duplicate"} /\ tx' = [tx EXCEPT ![p] = t]
        BY <2>2, <2>4 DEF Tx
    <3> HIDE DEF t
    <3> QED
        BY <2>1, <3>1, QuietStep
  <2> QED
      BY <1>5, <2>3, <2>4 DEF Select
<1>6. ASSUME NEW p \in Assigners, NEW l \in Leads, NEW b \in Brokers,
             BeginManual(p, l, b)
      PROVE  SaleInv'
  <2> DEFINE t == [Idle EXCEPT !.lead = l, !.broker = b, !.snap = TakeSnapshot,
                               !.step = "slot"]
  <2>1. p \in Procs /\ claims' = claims /\ lead' = lead /\ tx' = [tx EXCEPT ![p] = t]
      BY <1>6 DEF BeginManual, Procs
  <2>2. /\ t.fresh = FALSE /\ t.snap.claims \subseteq claims
        /\ t.step \notin {"sent", "duplicate"}
      BY DEF Idle, TakeSnapshot
  <2> HIDE DEF t
  <2> QED
      BY <2>1, <2>2, QuietStep
<1>7. ASSUME NEW p \in Workers \cup Assigners, ClaimSlot(p) \/ InsertCounter(p)
      PROVE  SaleInv'
  <2>1. p \in Procs /\ claims' = claims /\ lead' = lead /\ tx[p].step # "sent"
      BY <1>7, SlotOutcome
  <2>2. tx[p].fresh = FALSE /\ tx[p].snap.claims \subseteq claims
      BY <2>1, BeforeCommit
  <2>3. CASE tx' = [tx EXCEPT ![p] = Idle]
      BY <2>1, <2>3, SaleIdle
  <2>4. ASSUME NEW u \in Tx, tx' = [tx EXCEPT ![p] = u], SlotMove(tx[p], u)
        PROVE  SaleInv'
    <3>1. /\ u.fresh = FALSE /\ u.snap.claims \subseteq claims
          /\ u.step \notin {"sent", "duplicate"}
        BY <2>2, <2>4 DEF SlotMove
    <3> QED
        BY <2>1, <2>4, <3>1, QuietStep
  <2> QED
      BY <1>7, <2>3, <2>4, SlotOutcome
<1>8. ASSUME NEW p \in Workers \cup Assigners, ClaimEmail(p)
      PROVE  SaleInv'
    BY <1>8, SaleClaimEmail
<1>9. ASSUME NEW p \in Workers \cup Assigners, CommitSent(p)
      PROVE  SaleInv'
    BY <1>9, SaleCommitSent
<1>10. ASSUME NEW p \in Workers, CommitDuplicate(p)
      PROVE  SaleInv'
    BY <1>10, SaleCommitDuplicate
<1>11. ASSUME NEW p \in Workers, CommitUnsent(p)
      PROVE  SaleInv'
  <2>1. p \in Procs /\ claims' = claims
      BY <1>11 DEF CommitUnsent, Procs
  <2> DEFINE t == [Idle EXCEPT !.step = "ack", !.lead = tx[p].lead, !.msg = tx[p].msg]
  <2>2. tx' = [tx EXCEPT ![p] = t]
      BY <1>11 DEF CommitUnsent, Finish
  <2>3. /\ t.fresh = FALSE /\ t.snap.claims \subseteq claims
        /\ t.step \notin {"sent", "duplicate"}
      BY DEF Idle, EmptySnapshot
  <2>4. \A l \in Leads : lead'[l].status \in {"SENT", "DUPLICATE"} => lead'[l] = lead[l]
      BY <1>11 DEF CommitUnsent, TypeInv, TypeOK, LeadRow
  <2> HIDE DEF t
  <2> QED
      BY <2>1, <2>2, <2>3, <2>4, QuietStep
<1>12. ASSUME NEW p \in Workers, Acknowledge(p)
      PROVE  SaleInv'
    BY <1>12, SaleIdle DEF Acknowledge, Procs
<1>13. ASSUME NEW p \in Retriers, NEW l \in Leads, ReadForRetry(p, l)
      PROVE  SaleInv'
  <2>1. p \in Procs /\ claims' = claims /\ lead' = lead /\ tx[p].step # "sent"
      BY <1>13 DEF ReadForRetry, Procs
  <2>2. tx[p].fresh = FALSE /\ tx[p].snap.claims \subseteq claims /\ tx[p] \in Tx
      BY <2>1, BeforeCommit DEF TypeInv, TypeOK
  <2> DEFINE t == [tx[p] EXCEPT !.step = "requeue", !.lead = l]
  <2>3. /\ t.fresh = FALSE /\ t.snap.claims \subseteq claims
        /\ t.step \notin {"sent", "duplicate"} /\ tx' = [tx EXCEPT ![p] = t]
      BY <1>13, <2>2 DEF Tx, ReadForRetry
  <2> HIDE DEF t
  <2> QED
      BY <2>1, <2>3, QuietStep
<1>14. ASSUME NEW p \in Retriers, Requeue(p)
      PROVE  SaleInv'
    BY <1>14, SaleIdle DEF Requeue, Procs
<1>15. CASE UNCHANGED vars
    BY <1>15 DEF vars, Registry, SnapshotsArePast, FreshIsExclusive, SentIsBacked,
                 DuplicateIsBacked, SalesRegistered, DuplicateNamesTheSale
<1> QED
    BY <1>1, <1>2, <1>3, <1>4, <1>5, <1>6, <1>7, <1>8, <1>9, <1>10, <1>11, <1>12,
       <1>13, <1>14, <1>15
    DEF Next, WorkerStep, AssignStep, ClaimStep, RetryStep

(* The facts about sales hold in every reachable state.                    *)
LEMMA SaleCorrect == Spec => [](TypeInv /\ SaleInv)
BY TypeInit, TypeNext, SaleInit, SaleNext, PTL DEF Spec

(* INV-3 for every number of leads, brokers, consumers and administrators: *)
(* an email is sold at most once and every sale is in the registry.  The   *)
(* registry has one row per email (Registry), whoever commits SENT has its *)
(* row there or is the only one about to insert it (FreshIsExclusive).     *)
THEOREM EmailSoldOnce == Spec => []OneSalePerEmail
<1>1. TypeInv /\ SaleInv => OneSalePerEmail
    BY DEF SaleInv, Registry, SalesRegistered, OneSalePerEmail
<1> QED
    BY <1>1, SaleCorrect, PTL

(* A lead is only ever turned away as a duplicate of a committed sale of   *)
(* its email through another lead, and carries that sale's broker.         *)
THEOREM DuplicatesAreReal == Spec => []DuplicateNamesTheSale
BY SaleCorrect, PTL DEF SaleInv

-----------------------------------------------------------------------------
(* The daily cap.                                                          *)

LEMMA CapInit == Init => CapInv
BY IdleFields
DEF Init, NoRow, CapInv, LocksAreExclusive, SlotHasRoom, AbsentRowsEmpty,
    CapNeverExceeded, GapsKeepOut, Holding

(* A step that counts nothing and takes no slot: the process keeps what it *)
(* held or lets go of it.                                                  *)
LEMMA CapQuiet ==
    ASSUME TypeInv, CapInv, NEW p \in Procs, NEW t,
           tx' = [tx EXCEPT ![p] = t], counter' = counter,
           t.locks \subseteq tx[p].locks, t.gaps \subseteq tx[p].gaps, t.step # "insert",
           t.step \in Holding => /\ tx[p].step \in Holding
                                 /\ t.broker = tx[p].broker
                                 /\ t.snap = tx[p].snap
                                 /\ t.locks = tx[p].locks
    PROVE  CapInv'
<1>1. \A q \in Procs : tx'[q] = IF q = p THEN t ELSE tx[q]
    BY DEF TypeInv, TypeOK
<1>2. LocksAreExclusive'
  <2>1. \A q, r \in Procs : q # r => tx'[q].locks \cap tx'[r].locks = {}
      BY <1>1 DEF CapInv, LocksAreExclusive
  <2>2. \A q \in Procs : tx'[q].step \in Holding => tx'[q].broker \in tx'[q].locks
      BY <1>1 DEF CapInv, LocksAreExclusive, Holding
  <2> QED
      BY <2>1, <2>2 DEF LocksAreExclusive, Holding
<1>3. SlotHasRoom'
    BY <1>1 DEF CapInv, SlotHasRoom, Cap
<1>4. GapsKeepOut'
    BY <1>1 DEF CapInv, GapsKeepOut
<1> QED
    BY <1>2, <1>3, <1>4 DEF CapInv, CapNeverExceeded, AbsentRowsEmpty

(* Ending a transaction lets go of its slot and its locks.                 *)
LEMMA CapIdle ==
    ASSUME TypeInv, CapInv, NEW p \in Procs,
           tx' = [tx EXCEPT ![p] = Idle], counter' = counter
    PROVE  CapInv'
BY IdleFields, CapQuiet DEF Holding

(* Taking a slot: the row was not locked by another transaction and it has *)
(* room under the cap the transaction read, or it is this transaction's own*)
(* row in a gap it has kept the others out of.                             *)
LEMMA CapTakeSlot ==
    ASSUME TypeInv, CapInv, NEW p \in Workers \cup Assigners,
           ClaimSlot(p) \/ InsertCounter(p)
    PROVE  CapInv'
<1> DEFINE b == tx[p].broker
<1>1. p \in Procs /\ counter' = counter /\ b \in Brokers
    BY SlotOutcome
<1>2. CASE tx' = [tx EXCEPT ![p] = Idle]
    BY <1>1, <1>2, CapIdle
<1>3. ASSUME NEW u \in Tx, tx' = [tx EXCEPT ![p] = u], SlotMove(tx[p], u)
      PROVE  CapInv'
  <2>1. \A q \in Procs : tx'[q] = IF q = p THEN u ELSE tx[q]
      BY <1>3 DEF TypeInv, TypeOK
  <2>2. /\ tx[p].step = "slot" => ~CounterLocked(p, b)
        /\ tx[p].step = "insert" => \A q \in Procs \ {p} : b \notin tx[q].gaps
      BY SlotOutcome
  <2>3. ASSUME u.step # "insert"
        PROVE  \A q \in Procs \ {p} : b \notin tx[q].locks /\ b \notin tx[q].gaps
    <3>1. CASE tx[p].step = "slot"
        BY <1>3, <2>2, <2>3, <3>1 DEF SlotMove, CounterLocked, CapInv, GapsKeepOut
    <3>2. CASE tx[p].step = "insert"
        BY <1>1, <2>2, <3>2 DEF CapInv, GapsKeepOut
    <3> QED
        BY <1>3, <3>1, <3>2 DEF SlotMove
  <2>4. /\ u.locks = (IF u.step = "insert" THEN tx[p].locks ELSE tx[p].locks \cup {b})
        /\ u.step = "insert" => u.broker = b /\ u.gaps \in Gaps(b)
        /\ u.step # "insert" => u.gaps = tx[p].gaps
        /\ u.step \in Holding => u.step = "email" /\ u.broker = b /\ u.snap = tx[p].snap
      BY <1>3 DEF SlotMove, Holding
  <2>5. LocksAreExclusive'
    <3>1. \A q, r \in Procs : q # r => tx'[q].locks \cap tx'[r].locks = {}
        BY <2>1, <2>3, <2>4 DEF CapInv, LocksAreExclusive
    <3>2. \A q \in Procs : tx'[q].step \in Holding => tx'[q].broker \in tx'[q].locks
      <4>1. u.step \in Holding => u.broker \in u.locks
          BY <2>4
      <4> QED
          BY <2>1, <4>1 DEF CapInv, LocksAreExclusive, Holding
    <3> QED
        BY <3>1, <3>2 DEF LocksAreExclusive, Holding
  <2>6. GapsKeepOut'
    <3>1. \A x \in u.gaps : ~counter[x].exists /\ \A q \in Procs \ {p} : x \notin tx[q].locks
        BY <1>1, <2>4 DEF Gaps, CapInv, GapsKeepOut
    <3>2. \A q \in Procs \ {p} : \A x \in tx[q].gaps : ~counter[x].exists /\ x \notin u.locks
        BY <1>1, <2>3, <2>4 DEF CapInv, GapsKeepOut
    <3>3. u.step = "insert" => u.broker \in u.gaps
        BY <2>4 DEF Gaps
    <3> QED
        BY <1>1, <2>1, <3>1, <3>2, <3>3 DEF CapInv, GapsKeepOut
  <2>7. SlotHasRoom'
    <3>1. ASSUME u.step \in Holding, counter[b].exists, counter[b].capAtTime > 0
          PROVE  counter[b].sent < Cap(tx[p])
      <4>1. CASE tx[p].step = "slot"
          BY <1>3, <2>4, <3>1, <4>1 DEF SlotMove, SlotFree
      <4>2. CASE tx[p].step = "insert"
          BY <1>1, <3>1, <4>2 DEF CapInv, GapsKeepOut
      <4> QED
          BY <1>3, <4>1, <4>2 DEF SlotMove
    <3> QED
        BY <1>1, <2>1, <2>4, <3>1 DEF CapInv, SlotHasRoom, Cap
  <2> QED
      BY <1>1, <2>5, <2>6, <2>7 DEF CapInv, CapNeverExceeded, AbsentRowsEmpty
<1> QED
    BY <1>2, <1>3, SlotOutcome

(* Committing a taken slot: nobody else holds the row, so no other slot    *)
(* under it is outstanding, and the new count is within the cap read.      *)
LEMMA CapCommit ==
    ASSUME TypeInv, CapInv, NEW p \in Procs, tx[p].step \in Holding,
           counter' = [counter EXCEPT ![tx[p].broker] = CountedRow(tx[p])],
           Finish(p)
    PROVE  CapInv'
<1> DEFINE b == tx[p].broker
<1>1. b \in Brokers /\ b \in tx[p].locks
    BY DEF TypeInv, TxShape, CapInv, LocksAreExclusive, Holding
<1>2. \A q \in Procs \ {p} : tx'[q] = tx[q] /\ b \notin tx[q].locks
    BY <1>1 DEF Finish, TypeInv, TypeOK, CapInv, LocksAreExclusive
<1>3. /\ tx'[p].step \notin Holding /\ tx'[p].locks = {}
      /\ tx'[p].step # "insert" /\ tx'[p].gaps = {}
    BY DEF Finish, Holding, Idle, TypeInv, TypeOK
<1>4. /\ \A x \in Brokers \ {b} : counter'[x] = counter[x]
      /\ counter'[b].exists /\ counter'[b].sent = counter[b].sent + 1
      /\ counter'[b].capAtTime = IF counter[b].exists THEN counter[b].capAtTime
                                 ELSE Cap(tx[p])
    BY <1>1 DEF CountedRow, TypeInv, TypeOK
<1>5. counter[b].sent \in Nat /\ Cap(tx[p]) \in Nat
      /\ \E c \in Configs : Cap(tx[p]) = c.dailyCap
    BY <1>1, CapType DEF TypeInv, TypeOK, CounterRow
<1>6. LocksAreExclusive'
  <2>1. \A q, r \in Procs : q # r => tx'[q].locks \cap tx'[r].locks = {}
      BY <1>2, <1>3 DEF CapInv, LocksAreExclusive
  <2>2. \A q \in Procs : tx'[q].step \in Holding => tx'[q].broker \in tx'[q].locks
      BY <1>2, <1>3 DEF CapInv, LocksAreExclusive, Holding
  <2> QED
      BY <2>1, <2>2 DEF LocksAreExclusive, Holding
<1>7. SlotHasRoom'
  <2> SUFFICES ASSUME NEW q \in Procs, tx'[q].step \in Holding,
                      counter'[tx'[q].broker].exists,
                      counter'[tx'[q].broker].capAtTime > 0
               PROVE  counter'[tx'[q].broker].sent < Cap(tx'[q])
      BY DEF SlotHasRoom, Cap
  <2>1. q # p /\ tx'[q] = tx[q]
      BY <1>2, <1>3
  <2>2. tx[q].broker \in tx[q].locks /\ tx[q].broker \in Brokers
      BY <2>1 DEF CapInv, LocksAreExclusive, Holding, TypeInv, TxShape
  <2>3. counter'[tx[q].broker] = counter[tx[q].broker]
      BY <1>2, <1>4, <2>1, <2>2
  <2> QED
      BY <2>1, <2>3 DEF CapInv, SlotHasRoom
<1>8. AbsentRowsEmpty'
    BY <1>4 DEF CapInv, AbsentRowsEmpty
<1>9. CapNeverExceeded'
  <2>1. ASSUME counter'[b].capAtTime > 0
        PROVE  \E c \in Configs : counter'[b].sent <= c.dailyCap
    <3>1. CASE counter[b].exists
        BY <1>4, <1>5, <2>1, <3>1 DEF CapInv, SlotHasRoom
    <3>2. CASE ~counter[b].exists
        BY <1>1, <1>4, <1>5, <2>1, <3>2 DEF CapInv, AbsentRowsEmpty
    <3> QED
        BY <3>1, <3>2
  <2>2. ASSUME NEW x \in Brokers \ {b}, counter'[x].capAtTime > 0
        PROVE  \E c \in Configs : counter'[x].sent <= c.dailyCap
      BY <1>4, <2>2 DEF CapInv, CapNeverExceeded
  <2> QED
      BY <2>1, <2>2 DEF CapNeverExceeded
<1>10. GapsKeepOut'
  <2>1. \A q \in Procs \ {p} : b \notin tx[q].gaps
      BY <1>1 DEF CapInv, GapsKeepOut
  <2>2. \A q \in Procs : \A x \in tx[q].gaps : x \in Brokers
      BY DEF TypeInv, TypeOK, Tx
  <2> QED
      BY <1>2, <1>3, <1>4, <2>1, <2>2 DEF CapInv, GapsKeepOut
<1> QED
    BY <1>6, <1>7, <1>8, <1>9, <1>10 DEF CapInv

(* Every action of the router keeps the facts about slots and caps.        *)
LEMMA CapNext == TypeInv /\ CapInv /\ [Next]_vars => CapInv'
<1> SUFFICES ASSUME TypeInv, CapInv, [Next]_vars PROVE CapInv'
    OBVIOUS
<1>1. ASSUME tx' = tx, counter' = counter
      PROVE  CapInv'
    BY <1>1 DEF CapInv, LocksAreExclusive, GapsKeepOut, SlotHasRoom, Cap,
                CapNeverExceeded, AbsentRowsEmpty
<1>2. ASSUME NEW p \in Procs, tx' = [tx EXCEPT ![p] = Idle], counter' = counter
      PROVE  CapInv'
    BY <1>2, CapIdle
<1>3. ASSUME NEW p \in Workers, NEW m \in pending, BeginRouting(p, m)
      PROVE  CapInv'
  <2> DEFINE s == IF lead[m[1]].status \in {"SENT", "DUPLICATE"} THEN "ack" ELSE "select"
             t == [Idle EXCEPT !.lead = m[1], !.msg = m[2], !.snap = TakeSnapshot, !.step = s]
  <2>1. p \in Procs /\ counter' = counter /\ tx' = [tx EXCEPT ![p] = t]
      BY <1>3 DEF BeginRouting, Procs
  <2>2. t.locks = {} /\ t.gaps = {} /\ t.step \notin Holding \cup {"insert"}
      BY DEF Idle, Holding
  <2> HIDE DEF t
  <2> QED
      BY <2>1, <2>2, CapQuiet
<1>4. ASSUME NEW p \in Workers, Select(p)
      PROVE  CapInv'
  <2>1. p \in Procs /\ counter' = counter /\ tx[p] \in Tx
      BY <1>4 DEF Select, Procs, TypeInv, TypeOK
  <2>2. ASSUME NEW w,
               tx' = [tx EXCEPT ![p] = [tx[p] EXCEPT !.step = "slot", !.broker = w]]
        PROVE  CapInv'
    <3> DEFINE t == [tx[p] EXCEPT !.step = "slot", !.broker = w]
    <3>1. /\ t.locks = tx[p].locks /\ t.gaps = tx[p].gaps
          /\ t.step \notin Holding \cup {"insert"}
          /\ tx' = [tx EXCEPT ![p] = t]
        BY <2>1, <2>2 DEF Tx, Holding
    <3> HIDE DEF t
    <3> QED
        BY <2>1, <3>1, CapQuiet
  <2>3. ASSUME NEW r,
               tx' = [tx EXCEPT ![p] = [tx[p] EXCEPT !.step = "unsent", !.reason = r]]
        PROVE  CapInv'
    <3> DEFINE t == [tx[p] EXCEPT !.step = "unsent", !.reason = r]
    <3>1. /\ t.locks = tx[p].locks /\ t.gaps = tx[p].gaps
          /\ t.step \notin Holding \cup {"insert"}
          /\ tx' = [tx EXCEPT ![p] = t]
        BY <2>1, <2>3 DEF Tx, Holding
    <3> HIDE DEF t
    <3> QED
        BY <2>1, <3>1, CapQuiet
  <2> QED
      BY <1>4, <2>2, <2>3 DEF Select
<1>5. ASSUME NEW p \in Assigners, NEW l \in Leads, NEW b \in Brokers,
             BeginManual(p, l, b)
      PROVE  CapInv'
  <2> DEFINE t == [Idle EXCEPT !.lead = l, !.broker = b, !.snap = TakeSnapshot,
                               !.step = "slot"]
  <2>1. p \in Procs /\ counter' = counter /\ tx' = [tx EXCEPT ![p] = t]
      BY <1>5 DEF BeginManual, Procs
  <2>2. t.locks = {} /\ t.gaps = {} /\ t.step \notin Holding \cup {"insert"}
      BY DEF Idle, Holding
  <2> HIDE DEF t
  <2> QED
      BY <2>1, <2>2, CapQuiet
<1>6. ASSUME NEW p \in Workers \cup Assigners, ClaimEmail(p)
      PROVE  CapInv'
  <2>1. /\ p \in Procs /\ counter' = counter /\ tx[p] \in Tx
        /\ tx[p].step \in Holding
      BY <1>6 DEF ClaimEmail, Procs, TypeInv, TypeOK, Holding
  <2>2. ASSUME NEW t, tx' = [tx EXCEPT ![p] = t], t.locks = tx[p].locks,
               t.gaps = tx[p].gaps, t.step # "insert",
               t.broker = tx[p].broker, t.snap = tx[p].snap
        PROVE  CapInv'
      BY <2>1, <2>2, CapQuiet
  <2>3. CASE tx' = [tx EXCEPT ![p] = [tx[p] EXCEPT !.step = "sent", !.fresh = TRUE]]
    <3> DEFINE t == [tx[p] EXCEPT !.step = "sent", !.fresh = TRUE]
    <3>1. /\ t.locks = tx[p].locks /\ t.broker = tx[p].broker /\ t.snap = tx[p].snap
          /\ t.gaps = tx[p].gaps /\ t.step # "insert"
          /\ tx' = [tx EXCEPT ![p] = t]
        BY <2>1, <2>3 DEF Tx
    <3> HIDE DEF t
    <3> QED
        BY <2>2, <3>1
  <2>4. CASE tx' = [tx EXCEPT ![p] = [tx[p] EXCEPT !.step = "sent"]]
    <3> DEFINE t == [tx[p] EXCEPT !.step = "sent"]
    <3>1. /\ t.locks = tx[p].locks /\ t.broker = tx[p].broker /\ t.snap = tx[p].snap
          /\ t.gaps = tx[p].gaps /\ t.step # "insert"
          /\ tx' = [tx EXCEPT ![p] = t]
        BY <2>1, <2>4 DEF Tx
    <3> HIDE DEF t
    <3> QED
        BY <2>2, <3>1
  <2>5. ASSUME NEW x,
               tx' = [tx EXCEPT ![p] = [tx[p] EXCEPT !.step = "duplicate", !.prior = x]]
        PROVE  CapInv'
    <3> DEFINE t == [tx[p] EXCEPT !.step = "duplicate", !.prior = x]
    <3>1. /\ t.locks = tx[p].locks /\ t.broker = tx[p].broker /\ t.snap = tx[p].snap
          /\ t.gaps = tx[p].gaps /\ t.step # "insert"
          /\ tx' = [tx EXCEPT ![p] = t]
        BY <2>1, <2>5 DEF Tx
    <3> HIDE DEF t
    <3> QED
        BY <2>2, <3>1
  <2> QED
      BY <1>2, <1>6, <2>1, <2>3, <2>4, <2>5 DEF ClaimEmail
<1>7. ASSUME NEW p \in Workers \cup Assigners, CommitSent(p)
      PROVE  CapInv'
    BY <1>7, CapCommit DEF CommitSent, Holding, Procs
<1>8. ASSUME NEW p \in Workers, CommitDuplicate(p)
      PROVE  CapInv'
    BY <1>8, CapCommit DEF CommitDuplicate, Holding, Procs
<1>9. ASSUME NEW p \in Workers, CommitUnsent(p)
      PROVE  CapInv'
  <2> DEFINE t == [Idle EXCEPT !.step = "ack", !.lead = tx[p].lead, !.msg = tx[p].msg]
  <2>1. p \in Procs /\ counter' = counter /\ tx' = [tx EXCEPT ![p] = t]
      BY <1>9 DEF CommitUnsent, Finish, Procs
  <2>2. t.locks = {} /\ t.gaps = {} /\ t.step \notin Holding \cup {"insert"}
      BY DEF Idle, Holding
  <2> HIDE DEF t
  <2> QED
      BY <2>1, <2>2, CapQuiet
<1>10. ASSUME NEW p \in Retriers, NEW l \in Leads, ReadForRetry(p, l)
      PROVE  CapInv'
  <2> DEFINE t == [tx[p] EXCEPT !.step = "requeue", !.lead = l]
  <2>1. p \in Procs /\ counter' = counter /\ tx[p] \in Tx /\ tx' = [tx EXCEPT ![p] = t]
      BY <1>10 DEF ReadForRetry, Procs, TypeInv, TypeOK
  <2>2. t.locks = tx[p].locks /\ t.gaps = tx[p].gaps /\ t.step \notin Holding \cup {"insert"}
      BY <2>1 DEF Tx, Holding
  <2> HIDE DEF t
  <2> QED
      BY <2>1, <2>2, CapQuiet
<1>11. ASSUME NEW p \in Workers \cup Assigners, ClaimSlot(p) \/ InsertCounter(p)
       PROVE  CapInv'
    BY <1>11, CapTakeSlot
<1>12. ASSUME NEW p \in Workers, Acknowledge(p)
       PROVE  CapInv'
    BY <1>2, <1>12 DEF Acknowledge, Procs
<1>13. ASSUME NEW p \in Retriers, Requeue(p)
       PROVE  CapInv'
    BY <1>2, <1>13 DEF Requeue, Procs
<1>14. ASSUME NEW p \in Procs, Abort(p)
       PROVE  CapInv'
    BY <1>2, <1>14 DEF Abort
<1>15. ASSUME NEW l \in Leads, Capture(l)
       PROVE  CapInv'
    BY <1>1, <1>15 DEF Capture
<1>16. ASSUME NEW b \in Brokers, Reconfigure(b)
       PROVE  CapInv'
    BY <1>1, <1>16 DEF Reconfigure
<1>17. CASE UNCHANGED vars
    BY <1>1, <1>17 DEF vars
<1> QED
    BY <1>3, <1>4, <1>5, <1>6, <1>7, <1>8, <1>9, <1>10, <1>11, <1>12, <1>13,
       <1>14, <1>15, <1>16, <1>17
    DEF Next, WorkerStep, AssignStep, ClaimStep, RetryStep

LEMMA CapCorrect == Spec => [](TypeInv /\ CapInv)
BY TypeInit, TypeNext, CapInit, CapNext, PTL DEF Spec

(* INV-4 for every number of brokers, consumers and administrators, caps   *)
(* changed, lifted and imposed during the day included: a counter that     *)
(* began the day under a cap stays within the largest one given.  Whoever  *)
(* holds a slot holds its counter row locked, so nobody else can use the   *)
(* room it has seen.                                                       *)
THEOREM CapHolds == Spec => []CapNeverExceeded
<1>1. CapInv => CapNeverExceeded
    BY DEF CapInv
<1> QED
    BY <1>1, CapCorrect, PTL

(* INV-4 at the claim, for any number of transactions: whoever has taken a *)
(* slot of a counter under a cap still finds room for it at its commit.    *)
THEOREM SlotsFit == Spec => []SlotWithinCap
<1>1. TypeInv /\ CapInv => SlotWithinCap
  <2> SUFFICES ASSUME TypeInv, CapInv, NEW p \in Procs, tx[p].step \in Holding,
                      Cap(tx[p]) > 0,
                      counter[tx[p].broker].exists => counter[tx[p].broker].capAtTime > 0
               PROVE  counter[tx[p].broker].sent < Cap(tx[p])
      BY DEF SlotWithinCap, Holding
  <2>1. tx[p].broker \in Brokers
      BY DEF TypeInv, TxShape, Holding
  <2> QED
      BY <2>1 DEF CapInv, SlotHasRoom, AbsentRowsEmpty
<1> QED
    BY <1>1, CapCorrect, PTL

-----------------------------------------------------------------------------
(* No lead is forgotten.                                                   *)

(* A lead somebody has decided on stays decided: every commit leaves it    *)
(* sold, duplicate, or unsent for a reason.                                *)
Decided(l) == lead[l].status \in {"SENT", "DUPLICATE"} \/ lead[l].reason # "none"

(* Who is about to mark a message DONE has decided on its lead, and whoever*)
(* gives up on a lead has a reason.                                        *)
DoneIsDecided ==
    \A p \in Procs : /\ tx[p].step = "ack" => Decided(tx[p].lead)
                     /\ tx[p].step = "unsent" => tx[p].reason # "none"

QueueInv == DoneIsDecided /\ NoLeadForgotten

LEMMA QueueInit == Init => QueueInv
BY IdleFields DEF Init, QueueInv, DoneIsDecided, NoLeadForgotten

(* A step that moves one process and leaves the leads alone.               *)
LEMMA QueueQuiet ==
    ASSUME TypeInv, QueueInv, NEW p \in Procs, NEW t,
           tx' = [tx EXCEPT ![p] = t],
           lead' = lead, pending \subseteq pending',
           t.step = "ack" => Decided(t.lead),
           t.step = "unsent" => t.reason # "none"
    PROVE  QueueInv'
<1>1. \A q \in Procs : tx'[q] = IF q = p THEN t ELSE tx[q]
    BY DEF TypeInv, TypeOK
<1>2. DoneIsDecided'
    BY <1>1 DEF QueueInv, DoneIsDecided, Decided
<1>3. NoLeadForgotten'
    BY DEF QueueInv, NoLeadForgotten
<1> QED
    BY <1>2, <1>3 DEF QueueInv

(* Ending a transaction, or a request, forgets nothing.                    *)
LEMMA QueueIdle ==
    ASSUME TypeInv, QueueInv, NEW p \in Procs, tx' = [tx EXCEPT ![p] = Idle],
           lead' = lead, pending \subseteq pending'
    PROVE  QueueInv'
BY IdleFields, QueueQuiet

(* A commit decides on its lead and only then goes on to the DONE update.  *)
LEMMA QueueCommit ==
    ASSUME TypeInv, QueueInv, NEW p \in Procs, tx[p].step # "idle", NEW r,
           lead' = [lead EXCEPT ![tx[p].lead] = r],
           r.status \in {"SENT", "DUPLICATE"} \/ r.reason # "none",
           Finish(p), pending' = pending
    PROVE  QueueInv'
<1> DEFINE t == IF p \in Workers
                THEN [Idle EXCEPT !.step = "ack", !.lead = tx[p].lead, !.msg = tx[p].msg]
                ELSE Idle
<1>1. /\ tx[p].lead \in Leads
      /\ \A l \in Leads : lead'[l] = IF l = tx[p].lead THEN r ELSE lead[l]
    BY DEF TypeInv, TypeOK, TxShape
<1>2. \A q \in Procs : tx'[q] = IF q = p THEN t ELSE tx[q]
    BY DEF Finish, TypeInv, TypeOK
<1>3. /\ t.step = "ack" => t.lead = tx[p].lead
      /\ t.step # "unsent"
    BY DEF Idle
<1> HIDE DEF t
<1>4. \A q \in Procs : tx[q].step = "ack" => tx[q].lead \in Leads
    BY DEF TypeInv, TxShape
<1>5. DoneIsDecided'
    BY <1>1, <1>2, <1>3, <1>4 DEF QueueInv, DoneIsDecided, Decided
<1>6. NoLeadForgotten'
    BY <1>1 DEF QueueInv, NoLeadForgotten
<1> QED
    BY <1>5, <1>6 DEF QueueInv

(* Every action of the router keeps the undecided leads in the queue.      *)
LEMMA QueueNext == TypeInv /\ QueueInv /\ [Next]_vars => QueueInv'
<1> SUFFICES ASSUME TypeInv, QueueInv, [Next]_vars PROVE QueueInv'
    OBVIOUS
<1>1. ASSUME NEW l \in Leads, Capture(l)
      PROVE  QueueInv'
  <2>1. /\ tx' = tx /\ pending' = pending \cup {<<l, posted[l] + 1>>}
        /\ lead[l].status = "NEW"
        /\ lead'[l].reason = lead[l].reason
        /\ \A k \in Leads : k # l => lead'[k] = lead[k]
      BY <1>1 DEF Capture, Post, TypeInv, TypeOK, LeadRow
  <2>2. \A p \in Procs : tx[p].step = "ack" => tx[p].lead \in Leads
      BY DEF TypeInv, TxShape
  <2>3. DoneIsDecided'
      BY <2>1, <2>2 DEF QueueInv, DoneIsDecided, Decided
  <2>4. \E m \in pending' : m[1] = l
    <3> DEFINE m == <<l, posted[l] + 1>>
    <3>1. m \in pending' /\ m[1] = l
        BY <2>1
    <3> HIDE DEF m
    <3> QED
        BY <3>1
  <2>5. NoLeadForgotten'
      BY <2>1, <2>4 DEF QueueInv, NoLeadForgotten
  <2> QED
      BY <2>3, <2>5 DEF QueueInv
<1>2. ASSUME NEW b \in Brokers, Reconfigure(b)
      PROVE  QueueInv'
    BY <1>2 DEF Reconfigure, QueueInv, DoneIsDecided, Decided, NoLeadForgotten
<1>3. ASSUME NEW p \in Procs, Abort(p)
      PROVE  QueueInv'
    BY <1>3, QueueIdle DEF Abort
<1>4. ASSUME NEW p \in Workers, NEW m \in pending, BeginRouting(p, m)
      PROVE  QueueInv'
  <2> DEFINE s == IF lead[m[1]].status \in {"SENT", "DUPLICATE"} THEN "ack" ELSE "select"
             t == [Idle EXCEPT !.lead = m[1], !.msg = m[2], !.snap = TakeSnapshot, !.step = s]
  <2>1. p \in Procs /\ pending' = pending /\ lead' = lead /\ tx' = [tx EXCEPT ![p] = t]
      BY <1>4 DEF BeginRouting, Procs
  <2>2. (t.step = "ack" => Decided(t.lead)) /\ t.step # "unsent"
      BY DEF Idle, Decided
  <2> HIDE DEF t
  <2> QED
      BY <2>1, <2>2, QueueQuiet
<1>5. ASSUME NEW p \in Workers, Select(p)
      PROVE  QueueInv'
  <2>1. p \in Procs /\ pending' = pending /\ lead' = lead /\ tx[p] \in Tx
      BY <1>5 DEF Select, Procs, TypeInv, TypeOK
  <2>2. ASSUME NEW w,
               tx' = [tx EXCEPT ![p] = [tx[p] EXCEPT !.step = "slot", !.broker = w]]
        PROVE  QueueInv'
    <3> DEFINE t == [tx[p] EXCEPT !.step = "slot", !.broker = w]
    <3>1. t.step = "slot" /\ tx' = [tx EXCEPT ![p] = t]
        BY <2>1, <2>2 DEF Tx
    <3> HIDE DEF t
    <3> QED
        BY <2>1, <3>1, QueueQuiet
  <2>3. ASSUME NEW r, r # "none",
               tx' = [tx EXCEPT ![p] = [tx[p] EXCEPT !.step = "unsent", !.reason = r]]
        PROVE  QueueInv'
    <3> DEFINE t == [tx[p] EXCEPT !.step = "unsent", !.reason = r]
    <3>1. t.step = "unsent" /\ t.reason = r /\ tx' = [tx EXCEPT ![p] = t]
        BY <2>1, <2>3 DEF Tx
    <3> HIDE DEF t
    <3> QED
        BY <2>1, <2>3, <3>1, QueueQuiet
  <2>4. (IF tx[p].losses # {} THEN "CAP_CONTENTION_EXHAUSTED"
                              ELSE NoWinnerReason(Candidates(tx[p]))) # "none"
      BY DEF NoWinnerReason
  <2> QED
      BY <1>5, <2>2, <2>3, <2>4 DEF Select
<1>6. ASSUME NEW p \in Assigners, NEW l \in Leads, NEW b \in Brokers,
             BeginManual(p, l, b)
      PROVE  QueueInv'
  <2> DEFINE t == [Idle EXCEPT !.lead = l, !.broker = b, !.snap = TakeSnapshot,
                               !.step = "slot"]
  <2>1. p \in Procs /\ pending' = pending /\ lead' = lead /\ tx' = [tx EXCEPT ![p] = t]
      BY <1>6 DEF BeginManual, Procs
  <2>2. t.step = "slot"
      BY DEF Idle
  <2> HIDE DEF t
  <2> QED
      BY <2>1, <2>2, QueueQuiet
<1>7. ASSUME NEW p \in Workers \cup Assigners, ClaimSlot(p) \/ InsertCounter(p)
      PROVE  QueueInv'
  <2>1. p \in Procs /\ pending' = pending /\ lead' = lead
      BY <1>7, SlotOutcome
  <2>2. CASE tx' = [tx EXCEPT ![p] = Idle]
      BY <2>1, <2>2, QueueIdle
  <2>3. ASSUME NEW u \in Tx, tx' = [tx EXCEPT ![p] = u], SlotMove(tx[p], u)
        PROVE  QueueInv'
    <3>1. u.step # "ack" /\ (u.step = "unsent" => u.reason # "none")
        BY <2>3 DEF SlotMove
    <3> QED
        BY <2>1, <2>3, <3>1, QueueQuiet
  <2> QED
      BY <1>7, <2>2, <2>3, SlotOutcome
<1>8. ASSUME NEW p \in Workers \cup Assigners, ClaimEmail(p)
      PROVE  QueueInv'
  <2>1. p \in Procs /\ pending' = pending /\ lead' = lead /\ tx[p] \in Tx
      BY <1>8 DEF ClaimEmail, Procs, TypeInv, TypeOK
  <2>2. CASE tx' = [tx EXCEPT ![p] = Idle]
      BY <2>1, <2>2, QueueIdle
  <2>3. ASSUME NEW t \in Tx, tx' = [tx EXCEPT ![p] = t], t.step \in {"sent", "duplicate"}
        PROVE  QueueInv'
      BY <2>1, <2>3, QueueQuiet
  <2>4. CASE tx' = [tx EXCEPT ![p] = [tx[p] EXCEPT !.step = "sent", !.fresh = TRUE]]
      BY <2>1, <2>3, <2>4 DEF Tx, Steps
  <2>5. CASE tx' = [tx EXCEPT ![p] = [tx[p] EXCEPT !.step = "sent"]]
      BY <2>1, <2>3, <2>5 DEF Tx, Steps
  <2>6. ASSUME NEW b,
               tx' = [tx EXCEPT ![p] = [tx[p] EXCEPT !.step = "duplicate", !.prior = b]]
        PROVE  QueueInv'
    <3> DEFINE t == [tx[p] EXCEPT !.step = "duplicate", !.prior = b]
    <3>1. t.step = "duplicate" /\ tx' = [tx EXCEPT ![p] = t]
        BY <2>1, <2>6 DEF Tx
    <3> HIDE DEF t
    <3> QED
        BY <2>1, <3>1, QueueQuiet
  <2> QED
      BY <1>8, <2>2, <2>4, <2>5, <2>6 DEF ClaimEmail
<1>9. ASSUME NEW p \in Workers \cup Assigners, CommitSent(p)
      PROVE  QueueInv'
  <2> DEFINE r == [status |-> "SENT", broker |-> tx[p].broker, reason |-> "none",
                   type |-> IF p \in Workers THEN "AUTO" ELSE "MANUAL"]
  <2>1. r.status = "SENT"
      OBVIOUS
  <2>2. lead' = [lead EXCEPT ![tx[p].lead] = r]
      BY <1>9 DEF CommitSent
  <2> HIDE DEF r
  <2> QED
      BY <1>9, <2>1, <2>2, QueueCommit DEF CommitSent, Procs
<1>10. ASSUME NEW p \in Workers, CommitDuplicate(p)
       PROVE  QueueInv'
  <2>1. \E r : /\ r.status = "DUPLICATE"
               /\ lead' = [lead EXCEPT ![tx[p].lead] = r]
      BY <1>10 DEF CommitDuplicate
  <2> QED
      BY <1>10, <2>1, QueueCommit DEF CommitDuplicate, Procs
<1>11. ASSUME NEW p \in Workers, CommitUnsent(p)
       PROVE  QueueInv'
  <2>1. p \in Procs /\ tx[p].step = "unsent" /\ tx[p].reason # "none"
      BY <1>11 DEF CommitUnsent, Procs, QueueInv, DoneIsDecided
  <2>2. lead[tx[p].lead] \in LeadRow
      BY <2>1 DEF TypeInv, TypeOK, TxShape
  <2>3. \E r : /\ r.reason # "none"
               /\ lead' = [lead EXCEPT ![tx[p].lead] = r]
      BY <1>11, <2>1, <2>2 DEF CommitUnsent, LeadRow
  <2> QED
      BY <1>11, <2>1, <2>3, QueueCommit DEF CommitUnsent
<1>12. ASSUME NEW p \in Workers, Acknowledge(p)
       PROVE  QueueInv'
  <2>1. /\ p \in Procs /\ lead' = lead /\ Decided(tx[p].lead)
        /\ tx' = [tx EXCEPT ![p] = Idle]
        /\ pending' = pending \ {<<tx[p].lead, tx[p].msg>>}
      BY <1>12 DEF Acknowledge, Procs, QueueInv, DoneIsDecided
  <2>2. \A q \in Procs : tx'[q] = IF q = p THEN Idle ELSE tx[q]
      BY <2>1 DEF TypeInv, TypeOK
  <2>3. DoneIsDecided'
      BY <2>1, <2>2, IdleFields DEF QueueInv, DoneIsDecided, Decided
  <2>4. ASSUME NEW l \in Leads, lead[l].status = "UNSENT", lead[l].reason = "none"
        PROVE  \E m \in pending' : m[1] = l
    <3>1. PICK m \in pending : m[1] = l
        BY <2>4 DEF QueueInv, NoLeadForgotten
    <3>2. m # <<tx[p].lead, tx[p].msg>>
        BY <2>1, <2>4, <3>1 DEF Decided
    <3> QED
        BY <2>1, <3>1, <3>2
  <2>5. NoLeadForgotten'
      BY <2>1, <2>4 DEF NoLeadForgotten
  <2> QED
      BY <2>3, <2>5 DEF QueueInv
<1>13. ASSUME NEW p \in Retriers, NEW l \in Leads, ReadForRetry(p, l)
       PROVE  QueueInv'
  <2> DEFINE t == [tx[p] EXCEPT !.step = "requeue", !.lead = l]
  <2>1. /\ p \in Procs /\ pending' = pending /\ lead' = lead /\ tx[p] \in Tx
        /\ tx' = [tx EXCEPT ![p] = t]
      BY <1>13 DEF ReadForRetry, Procs, TypeInv, TypeOK
  <2>2. t.step = "requeue"
      BY <2>1 DEF Tx
  <2> HIDE DEF t
  <2> QED
      BY <2>1, <2>2, QueueQuiet
<1>14. ASSUME NEW p \in Retriers, Requeue(p)
       PROVE  QueueInv'
    BY <1>14, QueueIdle DEF Requeue, Post, Procs
<1>15. CASE UNCHANGED vars
    BY <1>15 DEF vars, QueueInv, DoneIsDecided, Decided, NoLeadForgotten
<1> QED
    BY <1>1, <1>2, <1>3, <1>4, <1>5, <1>6, <1>7, <1>8, <1>9, <1>10, <1>11, <1>12,
       <1>13, <1>14, <1>15
    DEF Next, WorkerStep, AssignStep, ClaimStep, RetryStep

(* INV-5 for every number of leads, messages, consumers and administrators:*)
(* a captured lead nobody has decided on still has its message.  Messages  *)
(* leave the queue only by a DONE update, and that follows a decision.     *)
THEOREM NothingForgotten == Spec => []NoLeadForgotten
<1>1. Spec => [](TypeInv /\ QueueInv)
    BY TypeInit, TypeNext, QueueInit, QueueNext, PTL DEF Spec
<1>2. QueueInv => NoLeadForgotten
    BY DEF QueueInv
<1> QED
    BY <1>1, <1>2, PTL
-----------------------------------------------------------------------------
(* How a process's record is replaced by any of the actions.               *)
LEMMA OneProcessMoves ==
    ASSUME TypeInv, NEW p \in Procs, NEW t, tx' = [tx EXCEPT ![p] = t]
    PROVE  \A q \in Procs : tx'[q] = IF q = p THEN t ELSE tx[q]
BY DEF TypeInv, TypeOK

-----------------------------------------------------------------------------
(* Every sale took a slot.                                                 *)

SlotInv == IsFiniteSet(claims) /\ EverySaleTookASlot

LEMMA SlotInit == Init => SlotInv
<1> SUFFICES ASSUME Init PROVE SlotInv
    OBVIOUS
<1>1. claims = {} /\ \A b \in Brokers : counter[b].sent = 0
    BY DEF Init, NoRow
<1>2. \A b : {c \in claims : c.broker = b} = {}
    BY <1>1
<1>3. IsFiniteSet({}) /\ Cardinality({}) = 0
    BY FS_EmptySet
<1> QED
    BY <1>1, <1>2, <1>3 DEF SlotInv, EverySaleTookASlot

(* Steps that register no sale and take no count back.                     *)
LEMMA SlotQuiet ==
    ASSUME TypeInv, SlotInv, claims' = claims, TypeOK',
           \A b \in Brokers : counter[b].sent <= counter'[b].sent
    PROVE  SlotInv'
<1>1. ASSUME NEW b \in Brokers
      PROVE  Cardinality({c \in claims : c.broker = b}) <= counter'[b].sent
  <2>1. IsFiniteSet({c \in claims : c.broker = b})
      BY FS_Subset DEF SlotInv
  <2>2. /\ Cardinality({c \in claims : c.broker = b}) \in Nat
        /\ counter[b].sent \in Nat /\ counter'[b].sent \in Nat
      BY <2>1, FS_CardinalityType DEF TypeInv, TypeOK, CounterRow
  <2> QED
      BY <2>2 DEF SlotInv, EverySaleTookASlot
<1> QED
    BY <1>1 DEF SlotInv, EverySaleTookASlot

(* One element more is at most one in cardinality.                         *)
LEMMA OneMore ==
    ASSUME NEW S, NEW x, IsFiniteSet(S)
    PROVE  /\ Cardinality(S) <= Cardinality(S) + 1
           /\ Cardinality(S \cup {x}) <= Cardinality(S) + 1
           /\ Cardinality(S \cup {x}) \in Nat
<1>1. Cardinality(S) \in Nat
    BY FS_CardinalityType
<1>2. Cardinality(S \cup {x}) = IF x \in S THEN Cardinality(S) ELSE Cardinality(S) + 1
    BY FS_AddElement
<1> QED
    BY <1>1, <1>2

(* The commit of a sale adds at most one row for its broker, and one count.*)
LEMMA SlotCommitSent ==
    ASSUME TypeInv, SlotInv, NEW p \in Workers \cup Assigners, CommitSent(p)
    PROVE  SlotInv'
<1> DEFINE own == OwnClaim(tx[p])
           Of(b) == {c \in claims : c.broker = b}
<1>1. p \in Procs /\ tx[p].broker \in Brokers
    BY DEF Procs, CommitSent, TypeInv, TxShape
<1>2. /\ claims' = claims \/ claims' = claims \cup {own}
      /\ own.broker = tx[p].broker
    BY DEF CommitSent, OwnClaim
<1>3. /\ counter'[tx[p].broker].sent = counter[tx[p].broker].sent + 1
      /\ \A b \in Brokers \ {tx[p].broker} : counter'[b] = counter[b]
    BY <1>1 DEF CommitSent, CountedRow, TypeInv, TypeOK
<1> HIDE DEF own
<1>4. IsFiniteSet(claims')
    BY <1>2, FS_AddElement DEF SlotInv
<1>5. ASSUME NEW b \in Brokers
      PROVE  Cardinality({c \in claims' : c.broker = b}) <= counter'[b].sent
  <2>1. IsFiniteSet(Of(b))
      BY FS_Subset DEF SlotInv
  <2>2. /\ Cardinality(Of(b)) \in Nat
        /\ Cardinality(Of(b)) <= counter[b].sent
        /\ counter[b].sent \in Nat
      BY <2>1, FS_CardinalityType DEF SlotInv, EverySaleTookASlot, TypeInv, TypeOK, CounterRow
  <2> DEFINE Now == {c \in claims' : c.broker = b}
             Before == Of(b)
  <2>3. CASE b = tx[p].broker
    <3>1. Now = Before \/ Now = Before \cup {own}
        BY <1>2, <2>3
    <3>2. /\ IsFiniteSet(Before)
          /\ Cardinality(Before) \in Nat
          /\ Cardinality(Before) <= counter[b].sent
        BY <2>1, <2>2
    <3> HIDE DEF Now, Before
    <3>3. Cardinality(Now) <= Cardinality(Before) + 1 /\ Cardinality(Now) \in Nat
        BY <3>1, <3>2, OneMore
    <3>4. Cardinality(Now) <= counter'[b].sent
        BY <1>3, <2>2, <2>3, <3>2, <3>3
    <3> QED
        BY <3>4 DEF Now
  <2>4. CASE b # tx[p].broker
    <3>1. Now = Before
        BY <1>2, <2>4
    <3>2. Cardinality(Before) <= counter[b].sent
        BY <2>2
    <3> HIDE DEF Now, Before
    <3>3. Cardinality(Now) <= counter'[b].sent
        BY <1>3, <2>4, <3>1, <3>2
    <3> QED
        BY <3>3 DEF Now
  <2> QED
      BY <2>3, <2>4
<1> QED
    BY <1>4, <1>5 DEF SlotInv, EverySaleTookASlot

(* Every other action leaves the registry alone and never lowers a count.  *)
LEMMA SlotNext == TypeInv /\ SlotInv /\ [Next]_vars => SlotInv'
<1> SUFFICES ASSUME TypeInv, SlotInv, [Next]_vars PROVE SlotInv'
    OBVIOUS
<1>1. TypeOK'
    BY TypeNext DEF TypeInv
<1>2. \A b \in Brokers : counter[b].sent \in Nat
    BY DEF TypeInv, TypeOK, CounterRow
<1>3. ASSUME claims' = claims, counter' = counter
      PROVE  SlotInv'
    BY <1>1, <1>2, <1>3, SlotQuiet
<1>4. ASSUME NEW p \in Workers, CommitDuplicate(p)
      PROVE  SlotInv'
  <2>1. p \in Procs /\ tx[p].broker \in Brokers
      BY <1>4 DEF Procs, CommitDuplicate, TypeInv, TxShape
  <2>2. /\ claims' = claims
        /\ counter'[tx[p].broker].sent = counter[tx[p].broker].sent + 1
        /\ \A b \in Brokers \ {tx[p].broker} : counter'[b] = counter[b]
      BY <1>4, <2>1 DEF CommitDuplicate, CountedRow, TypeInv, TypeOK
  <2> QED
      BY <1>1, <1>2, <2>1, <2>2, SlotQuiet
<1>5. ASSUME NEW p \in Workers \cup Assigners, CommitSent(p)
      PROVE  SlotInv'
    BY <1>5, SlotCommitSent
<1>6. CASE UNCHANGED vars
    BY <1>3, <1>6 DEF vars
<1>7. \/ claims' = claims /\ counter' = counter
      \/ \E p \in Workers : CommitDuplicate(p)
      \/ \E p \in Workers \cup Assigners : CommitSent(p)
      \/ UNCHANGED vars
    BY DEF Next, WorkerStep, AssignStep, ClaimStep, RetryStep, Capture, Reconfigure,
           BeginRouting, Select, CommitUnsent, Acknowledge, BeginManual, ClaimSlot, InsertCounter,
           ClaimEmail, ReadForRetry, Requeue, Abort
<1> QED
    BY <1>3, <1>4, <1>5, <1>6, <1>7

(* FR-021's other half, for every instance: the sales of a broker never    *)
(* outnumber the slots its counter has counted, so a cap on slots is a cap *)
(* on sales.                                                               *)
THEOREM SalesAreCounted == Spec => []EverySaleTookASlot
<1>1. Spec => [](TypeInv /\ SlotInv)
    BY TypeInit, TypeNext, SlotInit, SlotNext, PTL DEF Spec
<1>2. SlotInv => EverySaleTookASlot
    BY DEF SlotInv
<1> QED
    BY <1>1, <1>2, PTL
-----------------------------------------------------------------------------
(* Who waits for whom.                                                     *)

(* A transaction that chooses or claims a broker while it holds a counter  *)
(* row has lost a cap race, and it locks a gap only to insert next.        *)
ClaimsInOrder(t) ==
    /\ t.step \in {"select", "slot", "insert"} /\ t.locks # {} => t.losses # {}
    /\ t.step \in {"select", "slot"} => t.gaps = {}

HoldersHaveLost == \A p \in Procs : ClaimsInOrder(tx[p])

LEMMA LostInit == Init => HoldersHaveLost
BY IdleFields DEF Init, HoldersHaveLost, ClaimsInOrder

LEMMA LostNext == TypeInv /\ HoldersHaveLost /\ [Next]_vars => HoldersHaveLost'
<1> SUFFICES ASSUME TypeInv, HoldersHaveLost, [Next]_vars PROVE HoldersHaveLost'
    OBVIOUS
<1>1. ASSUME NEW p \in Procs, NEW t, tx' = [tx EXCEPT ![p] = t],
             ClaimsInOrder(t)
      PROVE  HoldersHaveLost'
  <2>1. \A q \in Procs : tx'[q] = IF q = p THEN t ELSE tx[q]
      BY <1>1, OneProcessMoves
  <2> QED
      BY <1>1, <2>1 DEF HoldersHaveLost
<1>2. ASSUME NEW p \in Procs, tx' = [tx EXCEPT ![p] = Idle]
      PROVE  HoldersHaveLost'
  <2>1. ClaimsInOrder(Idle)
      BY IdleFields DEF ClaimsInOrder
  <2> QED
      BY <1>1, <1>2, <2>1
<1>3. ASSUME tx' = tx
      PROVE  HoldersHaveLost'
    BY <1>3 DEF HoldersHaveLost
<1>4. ASSUME NEW p \in Procs, Finish(p)
      PROVE  HoldersHaveLost'
  <2> DEFINE t == IF p \in Workers
                  THEN [Idle EXCEPT !.step = "ack", !.lead = tx[p].lead, !.msg = tx[p].msg]
                  ELSE Idle
  <2>1. ClaimsInOrder(t) /\ tx' = [tx EXCEPT ![p] = t]
      BY <1>4 DEF Finish, Idle, ClaimsInOrder
  <2> HIDE DEF t
  <2> QED
      BY <1>1, <2>1
<1>5. ASSUME NEW p \in Workers, NEW m \in pending, BeginRouting(p, m)
      PROVE  HoldersHaveLost'
  <2> DEFINE s == IF lead[m[1]].status \in {"SENT", "DUPLICATE"} THEN "ack" ELSE "select"
             t == [Idle EXCEPT !.lead = m[1], !.msg = m[2], !.snap = TakeSnapshot, !.step = s]
  <2>1. p \in Procs /\ ClaimsInOrder(t) /\ tx' = [tx EXCEPT ![p] = t]
      BY <1>5 DEF BeginRouting, Procs, Idle, ClaimsInOrder
  <2> HIDE DEF t
  <2> QED
      BY <1>1, <2>1
<1>6. ASSUME NEW p \in Assigners, NEW l \in Leads, NEW b \in Brokers, BeginManual(p, l, b)
      PROVE  HoldersHaveLost'
  <2> DEFINE t == [Idle EXCEPT !.lead = l, !.broker = b, !.snap = TakeSnapshot,
                               !.step = "slot"]
  <2>1. p \in Procs /\ ClaimsInOrder(t) /\ tx' = [tx EXCEPT ![p] = t]
      BY <1>6 DEF BeginManual, Procs, Idle, ClaimsInOrder
  <2> HIDE DEF t
  <2> QED
      BY <1>1, <2>1
<1>7. ASSUME NEW p \in Workers, Select(p)
      PROVE  HoldersHaveLost'
  <2>1. p \in Procs /\ tx[p] \in Tx /\ tx[p].step = "select"
      BY <1>7 DEF Select, Procs, TypeInv, TypeOK
  <2>2. ClaimsInOrder(tx[p])
      BY <2>1 DEF HoldersHaveLost
  <2>3. ASSUME NEW w,
               tx' = [tx EXCEPT ![p] = [tx[p] EXCEPT !.step = "slot", !.broker = w]]
        PROVE  HoldersHaveLost'
    <3> DEFINE t == [tx[p] EXCEPT !.step = "slot", !.broker = w]
    <3>1. ClaimsInOrder(t) /\ tx' = [tx EXCEPT ![p] = t]
        BY <2>1, <2>2, <2>3 DEF Tx, ClaimsInOrder
    <3> HIDE DEF t
    <3> QED
        BY <1>1, <2>1, <3>1
  <2>4. ASSUME NEW r,
               tx' = [tx EXCEPT ![p] = [tx[p] EXCEPT !.step = "unsent", !.reason = r]]
        PROVE  HoldersHaveLost'
    <3> DEFINE t == [tx[p] EXCEPT !.step = "unsent", !.reason = r]
    <3>1. ClaimsInOrder(t) /\ tx' = [tx EXCEPT ![p] = t]
        BY <2>1, <2>4 DEF Tx, ClaimsInOrder
    <3> HIDE DEF t
    <3> QED
        BY <1>1, <2>1, <3>1
  <2> QED
      BY <1>7, <2>3, <2>4 DEF Select
<1>8. ASSUME NEW p \in Workers \cup Assigners, ClaimSlot(p) \/ InsertCounter(p)
      PROVE  HoldersHaveLost'
  <2>1. p \in Procs /\ ClaimsInOrder(tx[p])
      BY <1>8, SlotOutcome DEF HoldersHaveLost
  <2>2. ASSUME NEW u \in Tx, tx' = [tx EXCEPT ![p] = u], SlotMove(tx[p], u)
        PROVE  HoldersHaveLost'
    <3>1. ClaimsInOrder(u)
        BY <2>1, <2>2 DEF SlotMove, ClaimsInOrder
    <3> QED
        BY <1>1, <2>1, <2>2, <3>1
  <2> QED
      BY <1>2, <1>8, <2>1, <2>2, SlotOutcome
<1>9. ASSUME NEW p \in Workers \cup Assigners, ClaimEmail(p)
      PROVE  HoldersHaveLost'
  <2>1. p \in Procs /\ tx[p] \in Tx
      BY DEF Procs, TypeInv, TypeOK
  <2>2. CASE tx' = [tx EXCEPT ![p] = Idle]
      BY <1>2, <2>1, <2>2
  <2>3. ASSUME NEW f,
               tx' = [tx EXCEPT ![p] = [tx[p] EXCEPT !.step = "sent", !.fresh = f]]
        PROVE  HoldersHaveLost'
    <3> DEFINE t == [tx[p] EXCEPT !.step = "sent", !.fresh = f]
    <3>1. ClaimsInOrder(t) /\ tx' = [tx EXCEPT ![p] = t]
        BY <2>1, <2>3 DEF Tx, ClaimsInOrder
    <3> HIDE DEF t
    <3> QED
        BY <1>1, <2>1, <3>1
  <2>4. CASE tx' = [tx EXCEPT ![p] = [tx[p] EXCEPT !.step = "sent"]]
    <3> DEFINE t == [tx[p] EXCEPT !.step = "sent"]
    <3>1. ClaimsInOrder(t) /\ tx' = [tx EXCEPT ![p] = t]
        BY <2>1, <2>4 DEF Tx, ClaimsInOrder
    <3> HIDE DEF t
    <3> QED
        BY <1>1, <2>1, <3>1
  <2>5. ASSUME NEW b,
               tx' = [tx EXCEPT ![p] = [tx[p] EXCEPT !.step = "duplicate", !.prior = b]]
        PROVE  HoldersHaveLost'
    <3> DEFINE t == [tx[p] EXCEPT !.step = "duplicate", !.prior = b]
    <3>1. ClaimsInOrder(t) /\ tx' = [tx EXCEPT ![p] = t]
        BY <2>1, <2>5 DEF Tx, ClaimsInOrder
    <3> HIDE DEF t
    <3> QED
        BY <1>1, <2>1, <3>1
  <2> QED
      BY <1>9, <2>2, <2>3, <2>4, <2>5 DEF ClaimEmail
<1>10. ASSUME NEW p \in Retriers, NEW l \in Leads, ReadForRetry(p, l)
       PROVE  HoldersHaveLost'
  <2> DEFINE t == [tx[p] EXCEPT !.step = "requeue", !.lead = l]
  <2>1. /\ p \in Procs /\ tx[p] \in Tx /\ tx' = [tx EXCEPT ![p] = t]
      BY <1>10 DEF ReadForRetry, Procs, TypeInv, TypeOK
  <2>2. ClaimsInOrder(t)
      BY <2>1 DEF Tx, ClaimsInOrder
  <2> HIDE DEF t
  <2> QED
      BY <1>1, <2>1, <2>2
<1>11. \/ tx' = tx
       \/ \E p \in Procs : tx' = [tx EXCEPT ![p] = Idle] \/ Finish(p)
       \/ \E p \in Workers : (\E m \in pending : BeginRouting(p, m)) \/ Select(p)
       \/ \E p \in Assigners, l \in Leads, b \in Brokers : BeginManual(p, l, b)
       \/ \E p \in Workers \cup Assigners :
             ClaimSlot(p) \/ InsertCounter(p) \/ ClaimEmail(p)
       \/ \E p \in Retriers, l \in Leads : ReadForRetry(p, l)
  <2>1. ASSUME NEW p \in Workers \cup Assigners PROVE p \in Procs
      BY DEF Procs
  <2>2. ASSUME NEW p \in Retriers PROVE p \in Procs
      BY DEF Procs
  <2> QED
      BY <2>1, <2>2
      DEF Next, vars, WorkerStep, AssignStep, ClaimStep, RetryStep, Capture, Reconfigure,
          CommitSent, CommitDuplicate, CommitUnsent, Acknowledge, Requeue, Abort
<1> QED
    BY <1>2, <1>3, <1>4, <1>5, <1>6, <1>7, <1>8, <1>9, <1>10, <1>11

(* For any number of transactions: whoever is waited for at a counter while*)
(* it waits for a counter has lost a cap race, or makes a first claim of   *)
(* the day as the one that waits for it does.  A transaction that still    *)
(* claims holds a row only of a broker it has lost, and a gap only where it*)
(* is about to insert (HoldersHaveLost).                                   *)
THEOREM CounterDeadlocks == Spec => []WhoMayDeadlock
<1>1. Spec => [](TypeInv /\ HoldersHaveLost)
    BY TypeInit, TypeNext, LostInit, LostNext, PTL DEF Spec
<1>2. HoldersHaveLost => WhoMayDeadlock
  <2> SUFFICES ASSUME HoldersHaveLost, NEW p \in Procs, NEW q \in Procs, NEW r \in Procs,
                      WaitsForCounter(p, q), WaitsForCounter(q, r)
               PROVE  \/ tx[q].losses # {}
                      \/ tx[p].step = "insert" /\ tx[q].step = "insert"
      BY DEF WhoMayDeadlock
  <2>1. ClaimsInOrder(tx[q]) /\ tx[q].step \in {"slot", "insert"}
      BY DEF HoldersHaveLost, WaitsForCounter
  <2>2. CASE tx[p].step = "slot"
      BY <2>1, <2>2 DEF WaitsForCounter, ClaimsInOrder
  <2>3. CASE tx[p].step = "insert"
      BY <2>1, <2>3 DEF WaitsForCounter, ClaimsInOrder
  <2> QED
      BY <2>2, <2>3 DEF WaitsForCounter
<1> QED
    BY <1>1, <1>2, PTL
-----------------------------------------------------------------------------
(* The transactions implement LeadSale.                                    *)

(* Only captured leads have messages and transactions.                     *)
Captured ==
    /\ \A m \in pending : lead[m[1]].status # "NEW"
    /\ \A p \in Procs : tx[p].step # "idle" => lead[tx[p].lead].status # "NEW"

LEMMA CapturedInit == Init => Captured
BY IdleFields DEF Init, Captured

(* A step that leaves the leads alone and moves one process.               *)
LEMMA CapturedQuiet ==
    ASSUME TypeInv, Captured, NEW p \in Procs, NEW t,
           tx' = [tx EXCEPT ![p] = t], lead' = lead,
           \A m \in pending' : m \in pending \/ lead[m[1]].status # "NEW",
           t.step # "idle" => lead[t.lead].status # "NEW"
    PROVE  Captured'
<1>1. \A q \in Procs : tx'[q] = IF q = p THEN t ELSE tx[q]
    BY OneProcessMoves
<1> QED
    BY <1>1 DEF Captured

(* The commits write a status other than NEW and end the transaction.      *)
LEMMA CapturedCommit ==
    ASSUME TypeInv, Captured, NEW p \in Procs, tx[p].step # "idle", NEW r,
           lead' = [lead EXCEPT ![tx[p].lead] = r], r.status # "NEW",
           Finish(p), pending' = pending
    PROVE  Captured'
<1> DEFINE t == IF p \in Workers
                THEN [Idle EXCEPT !.step = "ack", !.lead = tx[p].lead, !.msg = tx[p].msg]
                ELSE Idle
<1>1. /\ tx[p].lead \in Leads
      /\ \A l \in Leads : lead'[l] = IF l = tx[p].lead THEN r ELSE lead[l]
    BY DEF TypeInv, TypeOK, TxShape
<1>2. t.step # "idle" => t.lead = tx[p].lead
    BY DEF Idle
<1>3. tx' = [tx EXCEPT ![p] = t]
    BY DEF Finish
<1> HIDE DEF t
<1>4. \A q \in Procs : tx'[q] = IF q = p THEN t ELSE tx[q]
    BY <1>3, OneProcessMoves
<1>5. \A q \in Procs : tx[q].step # "idle" => tx[q].lead \in Leads
    BY DEF TypeInv, TxShape
<1>6. \A m \in pending : m[1] \in Leads
    BY DEF TypeInv, TypeOK
<1> QED
    BY <1>1, <1>2, <1>4, <1>5, <1>6 DEF Captured

LEMMA CapturedNext == TypeInv /\ Captured /\ [Next]_vars => Captured'
<1> SUFFICES ASSUME TypeInv, Captured, [Next]_vars PROVE Captured'
    OBVIOUS
<1>1. ASSUME NEW p \in Procs, NEW t, tx' = [tx EXCEPT ![p] = t], lead' = lead,
             pending' \subseteq pending,
             t.step # "idle" => tx[p].step # "idle" /\ t.lead = tx[p].lead
      PROVE  Captured'
    BY <1>1, CapturedQuiet DEF Captured
<1>2. ASSUME NEW p \in Procs, tx' = [tx EXCEPT ![p] = Idle], lead' = lead,
             pending' \subseteq pending
      PROVE  Captured'
    BY <1>1, <1>2, IdleFields
<1>3. ASSUME NEW l \in Leads, Capture(l)
      PROVE  Captured'
  <2>1. /\ tx' = tx /\ pending' = pending \cup {<<l, posted[l] + 1>>}
        /\ lead'[l].status = "UNSENT"
        /\ \A k \in Leads \ {l} : lead'[k] = lead[k]
      BY <1>3 DEF Capture, Post, TypeInv, TypeOK, LeadRow
  <2>2. \A k \in Leads : lead[k].status # "NEW" => lead'[k].status # "NEW"
      BY <2>1
  <2>3. \A p \in Procs : tx[p].step # "idle" => tx[p].lead \in Leads
      BY DEF TypeInv, TxShape
  <2>4. \A m \in pending : m[1] \in Leads
      BY DEF TypeInv, TypeOK
  <2> QED
      BY <2>1, <2>2, <2>3, <2>4 DEF Captured
<1>4. ASSUME NEW p \in Workers, NEW m \in pending, BeginRouting(p, m)
      PROVE  Captured'
  <2> DEFINE s == IF lead[m[1]].status \in {"SENT", "DUPLICATE"} THEN "ack" ELSE "select"
             t == [Idle EXCEPT !.lead = m[1], !.msg = m[2], !.snap = TakeSnapshot, !.step = s]
  <2>1. /\ p \in Procs /\ t.lead = m[1] /\ tx' = [tx EXCEPT ![p] = t]
        /\ lead' = lead /\ pending' = pending
      BY <1>4 DEF BeginRouting, Procs, Idle
  <2>2. lead[m[1]].status # "NEW"
      BY DEF Captured
  <2> HIDE DEF t
  <2> QED
      BY <2>1, <2>2, CapturedQuiet
<1>5. ASSUME NEW p \in Assigners, NEW l \in Leads, NEW b \in Brokers, BeginManual(p, l, b)
      PROVE  Captured'
  <2> DEFINE t == [Idle EXCEPT !.lead = l, !.broker = b, !.snap = TakeSnapshot,
                               !.step = "slot"]
  <2>1. /\ p \in Procs /\ t.lead = l /\ tx' = [tx EXCEPT ![p] = t]
        /\ lead' = lead /\ pending' = pending /\ lead[l].status # "NEW"
      BY <1>5 DEF BeginManual, Procs, Idle
  <2> HIDE DEF t
  <2> QED
      BY <2>1, CapturedQuiet
<1>6. ASSUME NEW p \in Retriers, NEW l \in Leads, ReadForRetry(p, l)
      PROVE  Captured'
  <2> DEFINE t == [tx[p] EXCEPT !.step = "requeue", !.lead = l]
  <2>1. /\ p \in Procs /\ tx[p] \in Tx /\ tx' = [tx EXCEPT ![p] = t]
        /\ lead' = lead /\ pending' = pending /\ lead[l].status # "NEW"
      BY <1>6 DEF ReadForRetry, Procs, TypeInv, TypeOK
  <2>2. t.lead = l
      BY <2>1 DEF Tx
  <2> HIDE DEF t
  <2> QED
      BY <2>1, <2>2, CapturedQuiet
<1>7. ASSUME NEW p \in Retriers, Requeue(p)
      PROVE  Captured'
  <2>1. /\ p \in Procs /\ tx[p].step # "idle" /\ lead' = lead
        /\ tx' = [tx EXCEPT ![p] = Idle]
        /\ pending' = pending \cup {<<tx[p].lead, posted[tx[p].lead] + 1>>}
      BY <1>7 DEF Requeue, Post, Procs
  <2>2. lead[tx[p].lead].status # "NEW"
      BY <2>1 DEF Captured
  <2>3. \A m \in pending' : m \in pending \/ lead[m[1]].status # "NEW"
      BY <2>1, <2>2
  <2>4. Idle.step = "idle"
      BY IdleFields
  <2> QED
      BY <2>1, <2>3, <2>4, CapturedQuiet
<1>8. ASSUME NEW p \in Workers \cup Assigners, CommitSent(p)
      PROVE  Captured'
  <2> DEFINE r == [status |-> "SENT", broker |-> tx[p].broker, reason |-> "none",
                   type |-> IF p \in Workers THEN "AUTO" ELSE "MANUAL"]
  <2>1. r.status # "NEW" /\ lead' = [lead EXCEPT ![tx[p].lead] = r]
      BY <1>8 DEF CommitSent
  <2> HIDE DEF r
  <2> QED
      BY <1>8, <2>1, CapturedCommit DEF CommitSent, Procs
<1>9. ASSUME NEW p \in Workers, CommitDuplicate(p)
      PROVE  Captured'
  <2>1. \E r : r.status # "NEW" /\ lead' = [lead EXCEPT ![tx[p].lead] = r]
      BY <1>9 DEF CommitDuplicate
  <2> QED
      BY <1>9, <2>1, CapturedCommit DEF CommitDuplicate, Procs
<1>10. ASSUME NEW p \in Workers, CommitUnsent(p)
       PROVE  Captured'
  <2>1. p \in Procs /\ tx[p].step # "idle"
      BY <1>10 DEF CommitUnsent, Procs
  <2>2. lead[tx[p].lead] \in LeadRow
      BY <2>1 DEF TypeInv, TypeOK, TxShape
  <2>3. \E r : r.status # "NEW" /\ lead' = [lead EXCEPT ![tx[p].lead] = r]
      BY <1>10, <2>2 DEF CommitUnsent, LeadRow
  <2> QED
      BY <1>10, <2>1, <2>3, CapturedCommit DEF CommitUnsent
<1>11. ASSUME NEW p \in Workers, Select(p)
       PROVE  Captured'
  <2>1. /\ p \in Procs /\ tx[p] \in Tx /\ tx[p].step = "select"
        /\ lead' = lead /\ pending' = pending
      BY <1>11 DEF Select, Procs, TypeInv, TypeOK
  <2>2. ASSUME NEW w,
               tx' = [tx EXCEPT ![p] = [tx[p] EXCEPT !.step = "slot", !.broker = w]]
        PROVE  Captured'
    <3> DEFINE t == [tx[p] EXCEPT !.step = "slot", !.broker = w]
    <3>1. t.lead = tx[p].lead /\ tx' = [tx EXCEPT ![p] = t]
        BY <2>1, <2>2 DEF Tx
    <3> HIDE DEF t
    <3> QED
        BY <1>1, <2>1, <3>1
  <2>3. ASSUME NEW r,
               tx' = [tx EXCEPT ![p] = [tx[p] EXCEPT !.step = "unsent", !.reason = r]]
        PROVE  Captured'
    <3> DEFINE t == [tx[p] EXCEPT !.step = "unsent", !.reason = r]
    <3>1. t.lead = tx[p].lead /\ tx' = [tx EXCEPT ![p] = t]
        BY <2>1, <2>3 DEF Tx
    <3> HIDE DEF t
    <3> QED
        BY <1>1, <2>1, <3>1
  <2> QED
      BY <1>11, <2>2, <2>3 DEF Select
<1>12. ASSUME NEW p \in Workers \cup Assigners, ClaimSlot(p) \/ InsertCounter(p)
       PROVE  Captured'
  <2>1. /\ p \in Procs /\ tx[p].step # "idle" /\ lead' = lead /\ pending' = pending
      BY <1>12, SlotOutcome
  <2>2. ASSUME NEW u \in Tx, tx' = [tx EXCEPT ![p] = u], SlotMove(tx[p], u)
        PROVE  Captured'
    <3>1. u.lead = tx[p].lead
        BY <2>2 DEF SlotMove
    <3> QED
        BY <1>1, <2>1, <2>2, <3>1
  <2> QED
      BY <1>2, <1>12, <2>1, <2>2, SlotOutcome
<1>13. ASSUME NEW p \in Workers \cup Assigners, ClaimEmail(p)
       PROVE  Captured'
  <2>1. /\ p \in Procs /\ tx[p] \in Tx /\ tx[p].step = "email"
        /\ lead' = lead /\ pending' = pending
      BY <1>13 DEF ClaimEmail, Procs, TypeInv, TypeOK
  <2>2. CASE tx' = [tx EXCEPT ![p] = Idle]
      BY <1>2, <2>1, <2>2
  <2>3. ASSUME NEW f,
               tx' = [tx EXCEPT ![p] = [tx[p] EXCEPT !.step = "sent", !.fresh = f]]
        PROVE  Captured'
    <3> DEFINE t == [tx[p] EXCEPT !.step = "sent", !.fresh = f]
    <3>1. t.lead = tx[p].lead /\ tx' = [tx EXCEPT ![p] = t]
        BY <2>1, <2>3 DEF Tx
    <3> HIDE DEF t
    <3> QED
        BY <1>1, <2>1, <3>1
  <2>4. CASE tx' = [tx EXCEPT ![p] = [tx[p] EXCEPT !.step = "sent"]]
    <3> DEFINE t == [tx[p] EXCEPT !.step = "sent"]
    <3>1. t.lead = tx[p].lead /\ tx' = [tx EXCEPT ![p] = t]
        BY <2>1, <2>4 DEF Tx
    <3> HIDE DEF t
    <3> QED
        BY <1>1, <2>1, <3>1
  <2>5. ASSUME NEW b,
               tx' = [tx EXCEPT ![p] = [tx[p] EXCEPT !.step = "duplicate", !.prior = b]]
        PROVE  Captured'
    <3> DEFINE t == [tx[p] EXCEPT !.step = "duplicate", !.prior = b]
    <3>1. t.lead = tx[p].lead /\ tx' = [tx EXCEPT ![p] = t]
        BY <2>1, <2>5 DEF Tx
    <3> HIDE DEF t
    <3> QED
        BY <1>1, <2>1, <3>1
  <2> QED
      BY <1>13, <2>2, <2>3, <2>4, <2>5 DEF ClaimEmail
<1>14. ASSUME NEW p \in Workers, Acknowledge(p)
       PROVE  Captured'
  <2>1. p \in Procs /\ lead' = lead /\ tx' = [tx EXCEPT ![p] = Idle]
        /\ pending' \subseteq pending
      BY <1>14 DEF Acknowledge, Procs
  <2> QED
      BY <1>2, <2>1
<1>15. ASSUME NEW p \in Procs, Abort(p)
       PROVE  Captured'
    BY <1>2, <1>15 DEF Abort
<1>16. ASSUME tx' = tx, lead' = lead, pending' = pending
       PROVE  Captured'
    BY <1>16 DEF Captured
<1> QED
    BY <1>3, <1>4, <1>5, <1>6, <1>7, <1>8, <1>9, <1>10, <1>11, <1>12, <1>13, <1>14,
       <1>15, <1>16
    DEF Next, WorkerStep, AssignStep, ClaimStep, RetryStep, vars, Reconfigure

(* The mapped variables of LeadSale.                                       *)
AbsSlots == [b \in Brokers |-> counter[b].sent]
AbsVerdict == [l \in Leads |-> Verdict(l)]

(* A step that decides nothing is a stutter of LeadSale.                   *)
LEMMA NothingDecided ==
    ASSUME lead' = lead, claims' = claims, counter' = counter
    PROVE  UNCHANGED <<claims, AbsSlots, AbsVerdict>>
BY DEF AbsSlots, AbsVerdict, Verdict

(* A transaction that counts its slot does just that to the mapped counts. *)
LEMMA CountedOnce ==
    ASSUME TypeInv, NEW p \in Procs, tx[p].broker \in Brokers,
           counter' = [counter EXCEPT ![tx[p].broker] = CountedRow(tx[p])]
    PROVE  AbsSlots' = [AbsSlots EXCEPT ![tx[p].broker] = @ + 1]
BY DEF AbsSlots, CountedRow, TypeInv, TypeOK

(* Writing one lead's row changes one verdict.                             *)
LEMMA OneVerdict ==
    ASSUME TypeInv, NEW l \in Leads, NEW r, lead' = [lead EXCEPT ![l] = r], NEW v,
           Verdict(l)' = v
    PROVE  AbsVerdict' = [AbsVerdict EXCEPT ![l] = v]
<1>1. \A k \in Leads : k # l => lead'[k] = lead[k]
    BY DEF TypeInv, TypeOK
<1>2. \A k \in Leads : k # l => Verdict(k)' = Verdict(k)
    BY <1>1 DEF Verdict
<1> QED
    BY <1>2 DEF AbsVerdict

(* Every commit of a sale is the first sale of its e-mail or confirms it.  *)
LEMMA CommitSentDecides ==
    ASSUME TypeInv, SaleInv, Captured, NEW p \in Workers \cup Assigners, CommitSent(p),
           NEW l \in Leads, l = tx[p].lead, NEW b \in Brokers, b = tx[p].broker
    PROVE  Sale!Sell(l, b) \/ Sale!Confirm(l, b)
<1> DEFINE r == [status |-> "SENT", broker |-> tx[p].broker, reason |-> "none",
                 type |-> IF p \in Workers THEN "AUTO" ELSE "MANUAL"]
<1>1. /\ p \in Procs /\ tx[p].step = "sent" /\ tx[p].fresh \in BOOLEAN
    BY DEF Procs, CommitSent, TypeInv, TypeOK, Tx
<1>2. AbsSlots' = [AbsSlots EXCEPT ![b] = @ + 1]
    BY <1>1, CountedOnce DEF CommitSent
<1>3. lead' = [lead EXCEPT ![l] = r] /\ r.status = "SENT"
    BY DEF CommitSent
<1> HIDE DEF r
<1>4. Verdict(l)' = "sold"
  <2>1. lead'[l].status = "SENT"
      BY <1>3 DEF TypeInv, TypeOK
  <2> QED
      BY <2>1 DEF Verdict
<1>5. AbsVerdict' = [AbsVerdict EXCEPT ![l] = "sold"]
    BY <1>3, <1>4, OneVerdict
<1>6. lead[l].status \in Statuses /\ lead[l].status # "NEW"
    BY <1>1 DEF TypeInv, TypeOK, LeadRow, Captured
<1>7. CASE tx[p].fresh
  <2>1. \A c \in claims : c.email # EmailOf[l]
      BY <1>1, <1>7 DEF SaleInv, FreshIsExclusive
  <2>2. lead[l].status # "SENT" /\ lead[l].status # "DUPLICATE"
      BY <2>1 DEF SaleInv, SalesRegistered, DuplicateNamesTheSale, Registry
  <2>3. AbsVerdict[l] = "open"
      BY <1>6, <2>2 DEF AbsVerdict, Verdict, Statuses
  <2>4. claims' = claims \cup {[email |-> EmailOf[l], broker |-> b, lead |-> l]}
      BY <1>7 DEF CommitSent, OwnClaim
  <2> QED
      BY <1>2, <1>5, <2>1, <2>3, <2>4
      DEF Sale!Sell, Sale!SoldTo, Sale!TakeSlot, AbsSlots, AbsVerdict
<1>8. CASE ~tx[p].fresh
  <2>1. \E c \in claims : c.lead = l /\ c.email = EmailOf[l]
      BY <1>1, <1>8 DEF SaleInv, SentIsBacked, Registry
  <2>2. lead[l].status # "DUPLICATE"
      BY <2>1 DEF SaleInv, DuplicateNamesTheSale, Registry
  <2>3. AbsVerdict[l] \in {"open", "sold"}
      BY <1>6, <2>2 DEF AbsVerdict, Verdict, Statuses
  <2>4. claims' = claims
      BY <1>8 DEF CommitSent
  <2> QED
      BY <1>2, <1>5, <2>1, <2>3, <2>4
      DEF Sale!Confirm, Sale!SoldTo, Sale!TakeSlot, AbsSlots, AbsVerdict
<1> QED
    BY <1>1, <1>7, <1>8

(* Every commit of a duplicate refuses an e-mail sold through another lead.*)
LEMMA CommitDuplicateRefuses ==
    ASSUME TypeInv, SaleInv, Captured, NEW p \in Workers, CommitDuplicate(p),
           NEW l \in Leads, l = tx[p].lead, NEW b \in Brokers, b = tx[p].broker
    PROVE  Sale!Refuse(l, b)
<1> DEFINE r == [status |-> "DUPLICATE", broker |-> tx[p].prior, type |-> "none",
                 reason |-> "DUPLICATE_EMAIL"]
<1>1. p \in Procs /\ tx[p].step = "duplicate"
    BY DEF Procs, CommitDuplicate
<1>2. AbsSlots' = [AbsSlots EXCEPT ![b] = @ + 1]
    BY <1>1, CountedOnce DEF CommitDuplicate
<1>3. lead' = [lead EXCEPT ![l] = r] /\ r.status = "DUPLICATE"
    BY DEF CommitDuplicate
<1> HIDE DEF r
<1>4. Verdict(l)' = "duplicate"
  <2>1. lead'[l].status = "DUPLICATE"
      BY <1>3 DEF TypeInv, TypeOK
  <2> QED
      BY <2>1 DEF Verdict
<1>5. AbsVerdict' = [AbsVerdict EXCEPT ![l] = "duplicate"]
    BY <1>3, <1>4, OneVerdict
<1>6. \E c \in claims : c.email = EmailOf[l] /\ c.lead # l
    BY <1>1 DEF SaleInv, DuplicateIsBacked
<1>7. lead[l].status \in Statuses /\ lead[l].status # "NEW" /\ lead[l].status # "SENT"
    BY <1>1, <1>6 DEF TypeInv, TypeOK, LeadRow, Captured, SaleInv, SalesRegistered, Registry
<1>8. AbsVerdict[l] \in {"open", "duplicate"}
    BY <1>7 DEF AbsVerdict, Verdict, Statuses
<1>9. claims' = claims
    BY DEF CommitDuplicate
<1> QED
    BY <1>2, <1>5, <1>6, <1>8, <1>9
    DEF Sale!Refuse, Sale!SoldTo, Sale!TakeSlot, AbsSlots, AbsVerdict

(* Giving up on a lead opens it again, or leaves it open.                  *)
LEMMA CommitUnsentReopens ==
    ASSUME TypeInv, Captured, NEW p \in Workers, CommitUnsent(p),
           NEW l \in Leads, l = tx[p].lead
    PROVE  Sale!Reopen(l) \/ UNCHANGED <<claims, AbsSlots, AbsVerdict>>
<1> DEFINE r == [lead[l] EXCEPT !.status = "UNSENT", !.reason = tx[p].reason]
<1>1. p \in Procs /\ tx[p].step = "unsent"
    BY DEF Procs, CommitUnsent
<1>2. lead[l] \in LeadRow /\ lead[l].status # "NEW"
    BY <1>1 DEF TypeInv, TypeOK, Captured
<1>3. lead' = [lead EXCEPT ![l] = r] /\ r.status = "UNSENT"
    BY <1>2 DEF CommitUnsent, LeadRow
<1> HIDE DEF r
<1>4. Verdict(l)' = "open"
  <2>1. lead'[l].status = "UNSENT"
      BY <1>3 DEF TypeInv, TypeOK
  <2> QED
      BY <2>1 DEF Verdict
<1>5. AbsVerdict' = [AbsVerdict EXCEPT ![l] = "open"]
    BY <1>3, <1>4, OneVerdict
<1>6. AbsVerdict[l] \in {"open", "sold", "duplicate"}
    BY <1>2 DEF AbsVerdict, Verdict, LeadRow, Statuses
<1>7. claims' = claims /\ AbsSlots' = AbsSlots
    BY DEF CommitUnsent, AbsSlots
<1>8. CASE AbsVerdict[l] = "open"
    BY <1>5, <1>7, <1>8 DEF AbsVerdict
<1>9. CASE AbsVerdict[l] \in {"sold", "duplicate"}
    BY <1>5, <1>7, <1>9 DEF Sale!Reopen, AbsSlots, AbsVerdict
<1> QED
    BY <1>6, <1>8, <1>9

(* Every step of the transactions is a step of LeadSale or a stutter.      *)
LEMMA StepDecides ==
    TypeInv /\ SaleInv /\ Captured /\ [Next]_vars =>
        [Sale!Next]_<<claims, AbsSlots, AbsVerdict>>
<1> SUFFICES ASSUME TypeInv, SaleInv, Captured, [Next]_vars
             PROVE  Sale!Next \/ UNCHANGED <<claims, AbsSlots, AbsVerdict>>
    OBVIOUS
<1>1. ASSUME NEW l \in Leads, Capture(l)
      PROVE  Sale!Next
  <2> DEFINE r == [lead[l] EXCEPT !.status = "UNSENT"]
  <2>1. /\ claims' = claims /\ AbsSlots' = AbsSlots /\ AbsVerdict[l] = "new"
        /\ lead[l] \in LeadRow
      BY <1>1 DEF Capture, AbsSlots, AbsVerdict, Verdict, TypeInv, TypeOK
  <2>2. lead' = [lead EXCEPT ![l] = r] /\ r.status = "UNSENT"
      BY <1>1, <2>1 DEF Capture, LeadRow
  <2>3. Verdict(l)' = "open"
      BY <2>2 DEF Verdict, TypeInv, TypeOK
  <2> HIDE DEF r
  <2>4. AbsVerdict' = [AbsVerdict EXCEPT ![l] = "open"]
      BY <2>2, <2>3, OneVerdict
  <2>5. Sale!Arrive(l)
      BY <2>1, <2>4 DEF Sale!Arrive, AbsSlots, AbsVerdict
  <2> QED
      BY <2>5 DEF Sale!Next
<1>2. ASSUME NEW p \in Workers \cup Assigners, CommitSent(p)
      PROVE  Sale!Next
  <2>1. tx[p].lead \in Leads /\ tx[p].broker \in Brokers
      BY <1>2 DEF CommitSent, Procs, TypeInv, TxShape
  <2>2. PICK l \in Leads, b \in Brokers : l = tx[p].lead /\ b = tx[p].broker
      BY <2>1
  <2>3. Sale!Sell(l, b) \/ Sale!Confirm(l, b)
      BY <1>2, <2>2, CommitSentDecides
  <2> QED
      BY <2>3 DEF Sale!Next
<1>3. ASSUME NEW p \in Workers, CommitDuplicate(p)
      PROVE  Sale!Next
  <2>1. tx[p].lead \in Leads /\ tx[p].broker \in Brokers
      BY <1>3 DEF CommitDuplicate, Procs, TypeInv, TxShape
  <2>2. PICK l \in Leads, b \in Brokers : l = tx[p].lead /\ b = tx[p].broker
      BY <2>1
  <2>3. Sale!Refuse(l, b)
      BY <1>3, <2>2, CommitDuplicateRefuses
  <2> QED
      BY <2>3 DEF Sale!Next
<1>4. ASSUME NEW p \in Workers, CommitUnsent(p)
      PROVE  Sale!Next \/ UNCHANGED <<claims, AbsSlots, AbsVerdict>>
  <2>1. tx[p].lead \in Leads
      BY <1>4 DEF CommitUnsent, Procs, TypeInv, TxShape
  <2>2. PICK l \in Leads : l = tx[p].lead
      BY <2>1
  <2>3. Sale!Reopen(l) \/ UNCHANGED <<claims, AbsSlots, AbsVerdict>>
      BY <1>4, <2>2, CommitUnsentReopens
  <2> QED
      BY <2>3 DEF Sale!Next
<1>5. \/ \E l \in Leads : Capture(l)
      \/ \E p \in Workers \cup Assigners : CommitSent(p)
      \/ \E p \in Workers : CommitDuplicate(p) \/ CommitUnsent(p)
      \/ lead' = lead /\ claims' = claims /\ counter' = counter
    BY DEF Next, vars, WorkerStep, AssignStep, ClaimStep, RetryStep, Reconfigure,
           BeginRouting, Select, Acknowledge, BeginManual, ClaimSlot, InsertCounter, ClaimEmail,
           ReadForRetry, Requeue, Abort
<1> QED
    BY <1>1, <1>2, <1>3, <1>4, <1>5, NothingDecided

LEMMA SaleStarts == Init => Sale!Init
BY DEF Init, NoRow, Sale!Init, Verdict

(* The transactions of any number of consumers and administrators, with    *)
(* aborts and redeliveries at every point, behave like indivisible         *)
(* decisions: LeadSale.                                                    *)
THEOREM DecisionsAreAtomic == Spec => ImplementsLeadSale
<1>1. Spec => [](TypeInv /\ SaleInv /\ Captured)
    BY SaleCorrect, TypeInit, TypeNext, CapturedInit, CapturedNext, PTL DEF Spec
<1>2. TypeInv /\ SaleInv /\ Captured /\ [Next]_vars => [Sale!Next]_Sale!saleVars
    BY StepDecides DEF Sale!saleVars, AbsSlots, AbsVerdict
<1> QED
    BY <1>1, <1>2, SaleStarts, PTL DEF Spec, ImplementsLeadSale, Sale!Spec

-----------------------------------------------------------------------------
(* What one consumer keeps.                                                *)

(* Only the processes of the deployment ever do anything.                  *)
Crewed == \A p \in Procs : tx[p].step # "idle" => p \in setting.crew

LEMMA CrewInit == Init => Crewed
BY IdleFields DEF Init, Crewed

LEMMA CrewNext == TypeInv /\ Crewed /\ [Next]_vars => Crewed'
<1> SUFFICES ASSUME TypeInv, Crewed, [Next]_vars PROVE Crewed'
    OBVIOUS
<1> USE DEF TypeInv, TypeOK
<1>1. ASSUME NEW p \in Procs, p \in setting.crew, setting' = setting,
             \A q \in Procs \ {p} : tx'[q] = tx[q]
      PROVE  Crewed'
    BY <1>1 DEF Crewed
<1>2. ASSUME NEW p \in Procs, setting' = setting, tx' = [tx EXCEPT ![p] = Idle]
      PROVE  Crewed'
    BY <1>2, IdleFields DEF Crewed
<1>3. ASSUME setting' = setting, tx' = tx
      PROVE  Crewed'
    BY <1>3 DEF Crewed
<1>4. ASSUME NEW p \in Workers \cap setting.crew, WorkerStep(p)
      PROVE  Crewed'
  <2>1. p \in Procs /\ setting' = setting /\ \A q \in Procs \ {p} : tx'[q] = tx[q]
      BY <1>4 DEF WorkerStep, BeginRouting, Select, CommitDuplicate, CommitUnsent,
                  Acknowledge, Finish, Procs
  <2> QED
      BY <1>1, <1>4, <2>1
<1>5. ASSUME NEW p \in Assigners \cap setting.crew, AssignStep(p)
      PROVE  Crewed'
  <2>1. p \in Procs /\ setting' = setting /\ \A q \in Procs \ {p} : tx'[q] = tx[q]
      BY <1>5 DEF AssignStep, BeginManual, Procs
  <2> QED
      BY <1>1, <1>5, <2>1
<1>6. ASSUME NEW p \in (Workers \cup Assigners) \cap setting.crew, ClaimStep(p)
      PROVE  Crewed'
  <2>1. p \in Procs
      BY <1>6 DEF Procs
  <2>2. CASE ClaimSlot(p) \/ InsertCounter(p)
      BY <1>1, <1>2, <1>6, <2>1, <2>2, SlotOutcome
  <2>3. CASE ClaimEmail(p)
    <3>1. setting' = setting /\ \A q \in Procs \ {p} : tx'[q] = tx[q]
        BY <2>3 DEF ClaimEmail
    <3> QED
        BY <1>1, <1>6, <2>1, <3>1
  <2>4. CASE CommitSent(p)
    <3>1. setting' = setting /\ \A q \in Procs \ {p} : tx'[q] = tx[q]
        BY <2>1, <2>4 DEF CommitSent, Finish
    <3> QED
        BY <1>1, <1>6, <2>1, <3>1
  <2> QED
      BY <1>6, <2>2, <2>3, <2>4 DEF ClaimStep
<1>7. ASSUME NEW p \in Retriers \cap setting.crew, RetryStep(p)
      PROVE  Crewed'
  <2>1. p \in Procs /\ setting' = setting /\ \A q \in Procs \ {p} : tx'[q] = tx[q]
      BY <1>7 DEF RetryStep, ReadForRetry, Requeue, Procs
  <2> QED
      BY <1>1, <1>7, <2>1
<1>8. ASSUME NEW p \in Procs, Abort(p)
      PROVE  Crewed'
    BY <1>2, <1>8 DEF Abort
<1> QED
    BY <1>3, <1>4, <1>5, <1>6, <1>7, <1>8 DEF Next, vars, Capture, Reconfigure

(* The deployment stays what it is.                                        *)
LEMMA SettingStays == [Next]_vars => setting' = setting
BY DEF Next, vars, Capture, Reconfigure, Abort, WorkerStep, BeginRouting, Select,
       CommitDuplicate, CommitUnsent, Acknowledge, AssignStep, BeginManual, ClaimStep,
       ClaimSlot, InsertCounter, ClaimEmail, CommitSent, RetryStep, ReadForRetry, Requeue

Deciding == {"select", "slot", "insert", "email", "sent", "duplicate", "unsent"}
Settled == {"SENT", "DUPLICATE"}

(* A transaction that is still deciding has an unsettled lead, and the     *)
(* lead of every row of the registry shows that sale.                      *)
DeciderInv ==
    /\ \A p \in Procs : tx[p].step \in Deciding => lead[tx[p].lead].status \notin Settled
    /\ \A c \in claims : lead[c.lead].status = "SENT" /\ lead[c.lead].broker = c.broker

(* Steps that touch neither the leads nor the registry.                    *)
LEMMA DeciderQuiet ==
    ASSUME TypeInv, DeciderInv, NEW p \in Procs, NEW t, tx' = [tx EXCEPT ![p] = t],
           UNCHANGED <<lead, claims>>,
           t.step \in Deciding => lead[t.lead].status \notin Settled
    PROVE  DeciderInv'
<1>1. \A q \in Procs : tx'[q] = IF q = p THEN t ELSE tx[q]
    BY OneProcessMoves
<1> QED
    BY <1>1 DEF DeciderInv

LEMMA DeciderIdle ==
    ASSUME TypeInv, DeciderInv, NEW p \in Procs, tx' = [tx EXCEPT ![p] = Idle],
           UNCHANGED <<lead, claims>>
    PROVE  DeciderInv'
BY DeciderQuiet, IdleFields DEF Deciding

(* Retries wait in a step of their own.                                    *)
RetriersWait == \A p \in Retriers : tx[p].step \notin Deciding

(* A commit: nobody else is deciding.                                      *)
LEMMA DeciderCommits ==
    ASSUME TypeInv, SaleInv, Crewed, DeciderInv, RetriersWait, OneDecider,
           NEW p \in Workers \cup Assigners, tx[p].step \in Deciding,
           CommitSent(p) \/ CommitDuplicate(p) \/ CommitUnsent(p)
    PROVE  /\ DeciderInv'
           /\ \A l \in Leads : lead[l].status = "SENT" => lead'[l] = lead[l]
<1> DEFINE t == tx[p]
<1>0. p \in Procs /\ t \in Tx /\ t.lead \in Leads /\ lead[t.lead].status \notin Settled
  <2>1. p \in Procs
    BY DEF Procs
  <2> QED
    BY <2>1 DEF TypeInv, TypeOK, TxShape, DeciderInv, Deciding
<1>1. \A l \in Leads \ {t.lead} : lead'[l] = lead[l]
  BY <1>0 DEF CommitSent, CommitDuplicate, CommitUnsent, TypeInv, TypeOK
<1>2. \A q \in Procs : tx'[q].step \notin Deciding
  <2> DEFINE r == IF p \in Workers
                  THEN [Idle EXCEPT !.step = "ack", !.lead = t.lead, !.msg = t.msg]
                  ELSE Idle
  <2>1. tx' = [tx EXCEPT ![p] = r] /\ r.step \notin Deciding
    <3>1. r.step \in {"ack", "idle"}
      BY DEF Idle
    <3> QED
      BY <3>1 DEF CommitSent, CommitDuplicate, CommitUnsent, Finish, Deciding
  <2> HIDE DEF r, t
  <2>2. \A q \in Procs : tx'[q] = IF q = p THEN r ELSE tx[q]
    BY <1>0, <2>1 DEF TypeInv, TypeOK
  <2>3. ASSUME NEW q \in Procs, q # p PROVE tx[q].step \notin Deciding
    <3>1. p \in setting.crew
      BY <1>0 DEF Crewed, Deciding, t
    <3>2. q \notin Workers \cup Assigners \/ q \notin setting.crew
      BY <2>3, <3>1 DEF OneDecider
    <3> QED
      BY <2>3, <3>2 DEF Procs, RetriersWait, Crewed, Deciding
  <2> QED
    BY <2>1, <2>2, <2>3
<1>3. \A c \in claims : c.lead \in Leads /\ c.lead # t.lead
  BY <1>0 DEF DeciderInv, Settled, TypeInv, TypeOK, ClaimRow
<1>4. \A c \in claims' : lead'[c.lead].status = "SENT" /\ lead'[c.lead].broker = c.broker
  <2>1. CASE claims' = claims
    BY <1>1, <1>3, <2>1 DEF DeciderInv
  <2>2. CASE CommitSent(p) /\ t.fresh
    <3>1. claims' = claims \cup {OwnClaim(t)}
      BY <2>2 DEF CommitSent
    <3>2. lead'[t.lead].status = "SENT" /\ lead'[t.lead].broker = t.broker
      BY <1>0, <2>2 DEF CommitSent, TypeInv, TypeOK
    <3>3. OwnClaim(t).lead = t.lead /\ OwnClaim(t).broker = t.broker
      BY DEF OwnClaim
    <3> QED
      BY <1>1, <1>3, <3>1, <3>2, <3>3 DEF DeciderInv
  <2> QED
    BY <2>1, <2>2 DEF CommitSent, CommitDuplicate, CommitUnsent
<1> QED
  BY <1>0, <1>1, <1>2, <1>4 DEF DeciderInv, Settled

LEMMA DeciderNext ==
    ASSUME TypeInv, SaleInv, Crewed, DeciderInv, RetriersWait, OneDecider, [Next]_vars
    PROVE  DeciderInv' /\ \A l \in Leads : lead[l].status = "SENT" => lead'[l] = lead[l]
<1> DEFINE Kept == DeciderInv' /\ \A l \in Leads : lead[l].status = "SENT" => lead'[l] = lead[l]
<1>1. ASSUME UNCHANGED <<lead, claims, tx>> PROVE Kept
  BY <1>1 DEF DeciderInv
<1>2. ASSUME NEW l \in Leads, Capture(l) PROVE Kept
  <2>1. \A k \in Leads : lead'[k].status # lead[k].status \/ lead'[k] # lead[k] =>
            lead[k].status = "NEW" /\ lead'[k].status = "UNSENT"
    BY <1>2 DEF Capture, TypeInv, TypeOK, LeadRow
  <2>2. UNCHANGED <<claims, tx>> /\ \A p \in Procs : tx[p].step \in Deciding => tx[p].lead \in Leads
    BY <1>2 DEF Capture, TypeInv, TxShape, Deciding
  <2>3. \A c \in claims : c.lead \in Leads
    BY DEF TypeInv, TypeOK, ClaimRow
  <2> QED
    BY <2>1, <2>2, <2>3 DEF DeciderInv, Settled
<1>3. ASSUME NEW p \in Procs, UNCHANGED <<lead, claims>>, tx' = [tx EXCEPT ![p] = Idle]
      PROVE  Kept
  BY <1>3, DeciderIdle
<1>4. ASSUME NEW p \in Workers, NEW m \in pending, BeginRouting(p, m) PROVE Kept
  <2> DEFINE s == IF lead[m[1]].status \in {"SENT", "DUPLICATE"} THEN "ack" ELSE "select"
             t == [Idle EXCEPT !.lead = m[1], !.msg = m[2], !.snap = TakeSnapshot, !.step = s]
  <2>1. p \in Procs /\ tx' = [tx EXCEPT ![p] = t] /\ UNCHANGED <<lead, claims>>
    BY <1>4 DEF BeginRouting, Procs
  <2>2. t.step = s /\ t.lead = m[1]
    BY DEF Idle
  <2>3. s \in Deciding => lead[m[1]].status \notin Settled
    BY DEF Deciding, Settled
  <2> HIDE DEF t, s
  <2> QED
    BY <2>1, <2>2, <2>3, DeciderQuiet
<1>5. ASSUME NEW p \in Assigners, NEW l \in Leads, NEW b \in Brokers, BeginManual(p, l, b)
      PROVE  Kept
  <2> DEFINE t == [Idle EXCEPT !.lead = l, !.broker = b, !.snap = TakeSnapshot, !.step = "slot"]
  <2>1. p \in Procs /\ tx' = [tx EXCEPT ![p] = t] /\ UNCHANGED <<lead, claims>>
        /\ lead[l].status \notin Settled
    BY <1>5 DEF BeginManual, Procs, Settled
  <2>2. t.lead = l
    BY DEF Idle
  <2> HIDE DEF t
  <2> QED
    BY <2>1, <2>2, DeciderQuiet
<1>6. ASSUME NEW p \in Retriers, NEW l \in Leads, ReadForRetry(p, l) PROVE Kept
  <2> DEFINE t == [tx[p] EXCEPT !.step = "requeue", !.lead = l]
  <2>1. p \in Procs /\ tx' = [tx EXCEPT ![p] = t] /\ UNCHANGED <<lead, claims>>
        /\ tx[p] \in Tx
    BY <1>6 DEF ReadForRetry, Procs, TypeInv, TypeOK
  <2>2. t.step \notin Deciding
    BY <2>1 DEF Tx, Deciding
  <2> HIDE DEF t
  <2> QED
    BY <2>1, <2>2, DeciderQuiet
<1>7. ASSUME NEW p \in Workers \cup Assigners, tx[p].step \in Deciding,
             UNCHANGED <<lead, claims>>, NEW t, tx' = [tx EXCEPT ![p] = t], t.lead = tx[p].lead
      PROVE  Kept
  <2>1. p \in Procs /\ lead[tx[p].lead].status \notin Settled
    BY <1>7 DEF Procs, DeciderInv
  <2> QED
    BY <1>7, <2>1, DeciderQuiet
<1>8. ASSUME NEW p \in Workers \cup Assigners, Select(p) PROVE Kept
  <2>1. p \in Procs /\ tx[p] \in Tx /\ UNCHANGED <<lead, claims>> /\ tx[p].step \in Deciding
    BY <1>8 DEF Select, Procs, TypeInv, TypeOK, Deciding
  <2>2. ASSUME NEW w,
               tx' = [tx EXCEPT ![p] = [tx[p] EXCEPT !.step = "slot", !.broker = w]]
        PROVE  Kept
    <3> DEFINE t == [tx[p] EXCEPT !.step = "slot", !.broker = w]
    <3>1. t.lead = tx[p].lead /\ tx' = [tx EXCEPT ![p] = t]
      BY <2>1, <2>2 DEF Tx
    <3> HIDE DEF t, Kept
    <3> QED
      BY <1>7, <2>1, <3>1
  <2>3. ASSUME NEW r,
               tx' = [tx EXCEPT ![p] = [tx[p] EXCEPT !.step = "unsent", !.reason = r]]
        PROVE  Kept
    <3> DEFINE t == [tx[p] EXCEPT !.step = "unsent", !.reason = r]
    <3>1. t.lead = tx[p].lead /\ tx' = [tx EXCEPT ![p] = t]
      BY <2>1, <2>3 DEF Tx
    <3> HIDE DEF t, Kept
    <3> QED
      BY <1>7, <2>1, <3>1
  <2> HIDE DEF Kept
  <2> QED
    BY <1>8, <2>2, <2>3 DEF Select
<1>9. ASSUME NEW p \in Workers \cup Assigners, ClaimSlot(p) \/ InsertCounter(p) PROVE Kept
  <2>1. p \in Procs /\ UNCHANGED <<lead, claims>> /\ tx[p].step \in Deciding
    BY <1>9, SlotOutcome DEF Deciding
  <2>2. ASSUME NEW u \in Tx, tx' = [tx EXCEPT ![p] = u], SlotMove(tx[p], u) PROVE Kept
    <3>1. u.lead = tx[p].lead
      BY <2>2 DEF SlotMove
    <3> HIDE DEF Kept
    <3> QED
      BY <1>7, <2>1, <2>2, <3>1
  <2> HIDE DEF Kept
  <2> QED
    BY <1>3, <1>9, <2>1, <2>2, SlotOutcome
<1>10. ASSUME NEW p \in Workers \cup Assigners, ClaimEmail(p) PROVE Kept
  <2>1. p \in Procs /\ tx[p] \in Tx /\ UNCHANGED <<lead, claims>> /\ tx[p].step \in Deciding
    BY <1>10 DEF ClaimEmail, Procs, TypeInv, TypeOK, Deciding
  <2>2. CASE tx' = [tx EXCEPT ![p] = Idle]
    BY <1>3, <2>1, <2>2
  <2>3. ASSUME NEW f,
               tx' = [tx EXCEPT ![p] = [tx[p] EXCEPT !.step = "sent", !.fresh = f]]
        PROVE  Kept
    <3> DEFINE t == [tx[p] EXCEPT !.step = "sent", !.fresh = f]
    <3>1. t.lead = tx[p].lead /\ tx' = [tx EXCEPT ![p] = t]
      BY <2>1, <2>3 DEF Tx
    <3> HIDE DEF t, Kept
    <3> QED
      BY <1>7, <2>1, <3>1
  <2>4. CASE tx' = [tx EXCEPT ![p] = [tx[p] EXCEPT !.step = "sent"]]
    <3> DEFINE t == [tx[p] EXCEPT !.step = "sent"]
    <3>1. t.lead = tx[p].lead /\ tx' = [tx EXCEPT ![p] = t]
      BY <2>1, <2>4 DEF Tx
    <3> HIDE DEF t, Kept
    <3> QED
      BY <1>7, <2>1, <3>1
  <2>5. ASSUME NEW b,
               tx' = [tx EXCEPT ![p] = [tx[p] EXCEPT !.step = "duplicate", !.prior = b]]
        PROVE  Kept
    <3> DEFINE t == [tx[p] EXCEPT !.step = "duplicate", !.prior = b]
    <3>1. t.lead = tx[p].lead /\ tx' = [tx EXCEPT ![p] = t]
      BY <2>1, <2>5 DEF Tx
    <3> HIDE DEF t, Kept
    <3> QED
      BY <1>7, <2>1, <3>1
  <2> HIDE DEF Kept
  <2> QED
    BY <1>10, <2>2, <2>3, <2>4, <2>5 DEF ClaimEmail
<1>11. ASSUME NEW p \in Workers \cup Assigners,
             CommitSent(p) \/ CommitDuplicate(p) \/ CommitUnsent(p)
      PROVE  Kept
  <2>1. tx[p].step \in Deciding
    BY <1>11 DEF CommitSent, CommitDuplicate, CommitUnsent, Deciding
  <2> QED
    BY <1>11, <2>1, DeciderCommits
<1>12. \/ UNCHANGED <<lead, claims, tx>>
       \/ \E l \in Leads : Capture(l)
       \/ \E p \in Procs : UNCHANGED <<lead, claims>> /\ tx' = [tx EXCEPT ![p] = Idle]
       \/ \E p \in Workers : \E m \in pending : BeginRouting(p, m)
       \/ \E p \in Assigners, l \in Leads, b \in Brokers : BeginManual(p, l, b)
       \/ \E p \in Retriers, l \in Leads : ReadForRetry(p, l)
       \/ \E p \in Workers \cup Assigners :
             Select(p) \/ ClaimSlot(p) \/ InsertCounter(p) \/ ClaimEmail(p)
       \/ \E p \in Workers \cup Assigners :
             CommitSent(p) \/ CommitDuplicate(p) \/ CommitUnsent(p)
  <2>1. (Workers \cup Assigners) \cup Retriers = Procs
    BY DEF Procs
  <2> QED
    BY <2>1 DEF Next, vars, WorkerStep, AssignStep, ClaimStep, RetryStep, Reconfigure,
       Acknowledge, Requeue, Abort
<1> HIDE DEF Kept
<1>13. Kept
  BY <1>1, <1>2, <1>3, <1>4, <1>5, <1>6, <1>8, <1>9, <1>10, <1>11, <1>12
<1> QED
  BY <1>13 DEF Kept

(* Requests for a retry never decide on a lead.                            *)
LEMMA RetriersNext == TypeInv /\ RetriersWait /\ [Next]_vars => RetriersWait'
<1> SUFFICES ASSUME TypeInv, RetriersWait, [Next]_vars PROVE RetriersWait'
    OBVIOUS
<1> USE DEF TypeInv, TypeOK
<1>1. ASSUME NEW p \in Workers \cup Assigners, \A q \in Procs \ {p} : tx'[q] = tx[q]
      PROVE  RetriersWait'
  BY <1>1, RoutingAssumption DEF RetriersWait, Procs
<1>2. ASSUME NEW p \in Procs, NEW t, tx' = [tx EXCEPT ![p] = t], t.step \notin Deciding
      PROVE  RetriersWait'
  <2>1. \A q \in Procs : tx'[q] = IF q = p THEN t ELSE tx[q]
    BY <1>2, OneProcessMoves
  <2> QED
    BY <1>2, <2>1 DEF RetriersWait, Procs
<1>3. ASSUME tx' = tx PROVE RetriersWait'
  BY <1>3 DEF RetriersWait
<1>4. ASSUME NEW p \in Procs, tx' = [tx EXCEPT ![p] = Idle] PROVE RetriersWait'
  BY <1>2, <1>4, IdleFields DEF Deciding
<1>5. ASSUME NEW p \in Retriers, NEW l \in Leads, ReadForRetry(p, l) PROVE RetriersWait'
  <2> DEFINE t == [tx[p] EXCEPT !.step = "requeue", !.lead = l]
  <2>1. p \in Procs /\ tx[p] \in Tx /\ tx' = [tx EXCEPT ![p] = t]
    BY <1>5 DEF ReadForRetry, Procs
  <2>2. t.step \notin Deciding
    BY <2>1 DEF Tx, Deciding
  <2> HIDE DEF t
  <2> QED
    BY <1>2, <2>1, <2>2
<1>6. ASSUME NEW p \in Workers, NEW m \in pending, BeginRouting(p, m) PROVE RetriersWait'
  BY <1>1, <1>6 DEF BeginRouting
<1>7. ASSUME NEW p \in Assigners, NEW l \in Leads, NEW b \in Brokers, BeginManual(p, l, b)
      PROVE  RetriersWait'
  BY <1>1, <1>7 DEF BeginManual
<1>8. ASSUME NEW p \in Workers \cup Assigners, Select(p) PROVE RetriersWait'
  BY <1>1, <1>8 DEF Select
<1>9. ASSUME NEW p \in Workers \cup Assigners, ClaimSlot(p) \/ InsertCounter(p)
      PROVE  RetriersWait'
  <2>1. \A q \in Procs \ {p} : tx'[q] = tx[q]
    BY <1>9, SlotOutcome
  <2> QED
    BY <1>1, <2>1
<1>10. ASSUME NEW p \in Workers \cup Assigners, ClaimEmail(p) PROVE RetriersWait'
  BY <1>1, <1>10 DEF ClaimEmail
<1>11. ASSUME NEW p \in Workers \cup Assigners,
              CommitSent(p) \/ CommitDuplicate(p) \/ CommitUnsent(p)
       PROVE  RetriersWait'
  BY <1>1, <1>11 DEF CommitSent, CommitDuplicate, CommitUnsent, Finish
<1>12. \/ tx' = tx
       \/ \E p \in Procs : tx' = [tx EXCEPT ![p] = Idle]
       \/ \E p \in Workers : \E m \in pending : BeginRouting(p, m)
       \/ \E p \in Assigners, l \in Leads, b \in Brokers : BeginManual(p, l, b)
       \/ \E p \in Retriers, l \in Leads : ReadForRetry(p, l)
       \/ \E p \in Workers \cup Assigners :
             Select(p) \/ ClaimSlot(p) \/ InsertCounter(p) \/ ClaimEmail(p)
       \/ \E p \in Workers \cup Assigners :
             CommitSent(p) \/ CommitDuplicate(p) \/ CommitUnsent(p)
  <2>1. (Workers \cup Assigners) \cup Retriers = Procs
    BY DEF Procs
  <2> QED
    BY <2>1 DEF Next, vars, WorkerStep, AssignStep, ClaimStep, RetryStep, Reconfigure,
       Acknowledge, Requeue, Abort, Capture
<1> QED
  BY <1>3, <1>4, <1>5, <1>6, <1>7, <1>8, <1>9, <1>10, <1>11, <1>12

LEMMA DeciderInit == Init => DeciderInv /\ RetriersWait
BY IdleFields DEF Init, DeciderInv, RetriersWait, Deciding, Procs

LEMMA DeciderCorrect ==
    Spec => [](/\ TypeInv /\ SaleInv /\ Crewed /\ RetriersWait
               /\ OneDecider => DeciderInv)
<1>1. /\ TypeInv /\ SaleInv /\ Crewed /\ RetriersWait /\ [Next]_vars
      /\ OneDecider => DeciderInv
      => (OneDecider => DeciderInv)'
  <2> SUFFICES ASSUME TypeInv, SaleInv, Crewed, RetriersWait, [Next]_vars,
                      OneDecider => DeciderInv, OneDecider'
               PROVE  DeciderInv'
      OBVIOUS
  <2>1. OneDecider
      BY SettingStays DEF OneDecider
  <2> QED
      BY <2>1, DeciderNext
<1>2. Init => (OneDecider => DeciderInv) /\ RetriersWait
    BY DeciderInit
<1> QED
    BY <1>1, <1>2, TypeInit, TypeNext, SaleInit, SaleNext, CrewInit, CrewNext, RetriersNext,
       PTL DEF Spec

(* data-model.md:203, "SENT is terminal": true as long as one consumer     *)
(* decides alone, whatever crashes, retries and configuration changes come *)
(* between (with a manual assignment beside it, it is not:                 *)
(* prisma-lead.repository.ts:80).                                          *)
THEOREM SalesStand == Spec => SentStaysSold
<1>1. /\ TypeInv /\ SaleInv /\ Crewed /\ RetriersWait /\ [Next]_vars
      /\ OneDecider => DeciderInv
      => [OneDecider => \A l \in Leads : SaleStands(l)]_vars
    BY DeciderNext DEF SaleStands
<1> QED
    BY <1>1, DeciderCorrect, PTL DEF Spec, SentStaysSold

(* With one consumer the lead row and the permanent registry agree on the  *)
(* buyer, although the guard's "claimed" for the lead's own row does not   *)
(* look at the broker (prisma-email-guard.ts:47).                          *)
THEOREM RegisteredBuyer == Spec => []SoldToRegisteredBroker
<1>1. TypeInv /\ SaleInv /\ (OneDecider => DeciderInv) => SoldToRegisteredBroker
    BY DEF SaleInv, SalesRegistered, DeciderInv, SoldToRegisteredBroker
<1> QED
    BY <1>1, DeciderCorrect, PTL

(* One slot for each settled lead: the two sets grow together.             *)
SettledLeads == {l \in Leads : lead[l].status \in Settled}

SettledInv == IsFiniteSet(SlotsTaken) /\ Cardinality(SlotsTaken) = Cardinality(SettledLeads)

(* A counter has counted fewer slots than there are leads as long as one   *)
(* lead is not settled.                                                    *)
LEMMA SlotsBelowLeads ==
    ASSUME TypeInv, SettledInv, NEW l \in Leads \ SettledLeads, NEW b \in Brokers
    PROVE  /\ counter[b].sent + 1 \in 1..Cardinality(Leads) * MaxMessages
           /\ IsFiniteSet(SettledLeads)
<1> DEFINE L == Cardinality(Leads)
           sold == Cardinality(SettledLeads)
           n == counter[b].sent
           k == IF n < L THEN n ELSE L
           column == [i \in 1..k |-> <<b, i>>]
<1>1. L \in Nat /\ n \in Nat /\ k \in Nat /\ k <= n /\ k <= L
  <2>1. L \in Nat
    BY RoutingAssumption, FS_CardinalityType
  <2>2. n \in Nat
    BY DEF TypeInv, TypeOK, CounterRow
  <2> QED
    BY <2>1, <2>2
<1>2. L <= L * MaxMessages /\ L * MaxMessages \in Nat
  <2> HIDE DEF L
  <2>1. \A m \in Nat \ {0} : L <= L * m /\ L * m \in Nat
    BY <1>1
  <2> QED
    BY <2>1, RoutingAssumption
<1>3. IsFiniteSet(SettledLeads) /\ sold \in Nat /\ sold + 1 <= L
  <2>1. SettledLeads \cup {l} \in SUBSET Leads /\ l \notin SettledLeads
    BY DEF SettledLeads
  <2>2. SettledLeads \in SUBSET Leads
    BY DEF SettledLeads
  <2>3. IsFiniteSet(SettledLeads)
    BY <2>2, RoutingAssumption, FS_Subset
  <2>4. sold \in Nat
    BY <2>3, FS_CardinalityType
  <2>5. Cardinality(SettledLeads \cup {l}) <= L
    BY <2>1, RoutingAssumption, FS_Subset
  <2>6. Cardinality(SettledLeads \cup {l}) = sold + 1
    BY <2>1, <2>3, FS_AddElement
  <2> QED
    BY <2>3, <2>4, <2>5, <2>6
<1>4. column \in Injection(1..k, SlotsTaken)
  <2> HIDE DEF L, k
  <2>1. \A i \in 1..k : i \in 1..L * MaxMessages /\ i <= n
    BY <1>1, <1>2
  <2>2. \A i \in 1..k : <<b, i>> \in SlotsTaken
    BY <2>1 DEF SlotsTaken, L
  <2> QED
    BY <2>2 DEF Injection, IsInjective
<1>5. k <= sold
  <2> HIDE DEF k, column
  <2>1. Cardinality(1..k) <= Cardinality(SlotsTaken)
    BY <1>4, FS_Injection DEF SettledInv
  <2>2. Cardinality(1..k) = IF 1 > k THEN 0 ELSE k - 1 + 1
    <3>1. k \in Int
      BY <1>1
    <3> QED
      BY <3>1, FS_Interval
  <2>3. Cardinality(1..k) = k
    BY <1>1, <2>2
  <2> QED
    BY <2>1, <2>3 DEF SettledInv
<1>6. n + 1 <= L
  <2> HIDE DEF L, sold, n
  <2> QED
    BY <1>1, <1>3, <1>5
<1>7. n + 1 \in 1..L * MaxMessages
  <2> HIDE DEF L, n
  <2> QED
    BY <1>1, <1>2, <1>6
<1> QED
  BY <1>3, <1>7

(* A commit with a slot settles a lead that was not settled.               *)
LEMMA SettledCommit ==
    ASSUME TypeInv, SettledInv, NEW l \in Leads \ SettledLeads, NEW b \in Brokers,
           NEW r, r.status \in Settled, lead' = [lead EXCEPT ![l] = r],
           NEW row, row.sent = counter[b].sent + 1, counter' = [counter EXCEPT ![b] = row]
    PROVE  SettledInv'
<1> DEFINE s == <<b, counter[b].sent + 1>>
<1>1. \A k \in Leads : lead'[k] = IF k = l THEN r ELSE lead[k]
  BY DEF TypeInv, TypeOK
<1>2. SettledLeads' = SettledLeads \cup {l} /\ l \notin SettledLeads
  BY <1>1 DEF SettledLeads
<1>3. \A c \in Brokers : counter'[c] = IF c = b THEN row ELSE counter[c]
  BY DEF TypeInv, TypeOK
<1>4. \A c \in Brokers : counter[c].sent \in Nat
  BY DEF TypeInv, TypeOK, CounterRow
<1>5. counter[b].sent + 1 \in 1..Cardinality(Leads) * MaxMessages /\ IsFiniteSet(SettledLeads)
  BY SlotsBelowLeads
<1>6. SlotsTaken' = SlotsTaken \cup {s} /\ s \notin SlotsTaken
  <2> DEFINE I == 1..Cardinality(Leads) * MaxMessages
  <2>1. SlotsTaken = {x \in Brokers \X I : x[2] <= counter[x[1]].sent}
    BY DEF SlotsTaken
  <2>2. SlotsTaken' = {x \in Brokers \X I : x[2] <= counter'[x[1]].sent}
    BY DEF SlotsTaken
  <2>3. \A i \in I : i \in Int
    OBVIOUS
  <2>4. counter[b].sent + 1 \in I
    BY <1>5
  <2> HIDE DEF I
  <2>5. ASSUME NEW x \in Brokers \X I
        PROVE  x[2] <= counter'[x[1]].sent <=> x[2] <= counter[x[1]].sent \/ x = s
    <3>1. x[1] \in Brokers /\ x[2] \in Int /\ x = <<x[1], x[2]>>
      BY <2>3, <2>5
    <3>2. CASE x[1] = b
      BY <1>3, <1>4, <3>1, <3>2
    <3>3. CASE x[1] # b
      BY <1>3, <3>1, <3>3
    <3> QED
      BY <3>2, <3>3
  <2>6. s \in Brokers \X I
    BY <2>4
  <2>7. ~(s[2] <= counter[s[1]].sent)
    BY <1>4
  <2> HIDE DEF s
  <2> QED
    BY <2>1, <2>2, <2>5, <2>6, <2>7
<1>7. Cardinality(SlotsTaken)' = Cardinality(SlotsTaken) + 1 /\ IsFiniteSet(SlotsTaken)'
  <2> HIDE DEF s
  <2> QED
    BY <1>6, FS_AddElement DEF SettledInv
<1>8. Cardinality(SettledLeads)' = Cardinality(SettledLeads) + 1
  BY <1>2, <1>5, FS_AddElement
<1> QED
  BY <1>7, <1>8 DEF SettledInv

LEMMA SettledInit == Init => SettledInv
<1> SUFFICES ASSUME Init PROVE SettledInv
    OBVIOUS
<1>1. SlotsTaken = {}
  BY DEF Init, SlotsTaken, NoRow
<1>2. SettledLeads = {}
  BY DEF Init, SettledLeads, Settled
<1> QED
  BY <1>1, <1>2, FS_EmptySet DEF SettledInv

LEMMA SettledNext == TypeInv /\ DeciderInv /\ SettledInv /\ [Next]_vars => SettledInv'
<1> SUFFICES ASSUME TypeInv, DeciderInv, SettledInv, [Next]_vars PROVE SettledInv'
    OBVIOUS
<1>1. ASSUME counter' = counter,
             \A l \in Leads : lead'[l].status \in Settled <=> lead[l].status \in Settled
      PROVE  SettledInv'
  <2>1. SettledLeads' = SettledLeads /\ SlotsTaken' = SlotsTaken
    BY <1>1 DEF SettledLeads, SlotsTaken
  <2> QED
    BY <2>1 DEF SettledInv
<1>2. ASSUME NEW p \in Workers \cup Assigners, tx[p].step \in Deciding
      PROVE  /\ p \in Procs
             /\ tx[p].lead \in Leads \ SettledLeads
             /\ tx[p].step \in {"sent", "duplicate"} => tx[p].broker \in Brokers
  BY <1>2 DEF Procs, TypeInv, TxShape, DeciderInv, SettledLeads, Deciding
<1>3. ASSUME NEW p \in Workers \cup Assigners, CommitSent(p) PROVE SettledInv'
  <2>1. tx[p].lead \in Leads \ SettledLeads /\ tx[p].broker \in Brokers
    BY <1>2, <1>3 DEF CommitSent, Deciding
  <2> DEFINE r == [status |-> "SENT", broker |-> tx[p].broker, reason |-> "none",
                   type |-> IF p \in Workers THEN "AUTO" ELSE "MANUAL"]
  <2>2. lead' = [lead EXCEPT ![tx[p].lead] = r] /\ r.status \in Settled
    BY <1>3 DEF CommitSent, Settled
  <2>3. /\ counter' = [counter EXCEPT ![tx[p].broker] = CountedRow(tx[p])]
        /\ CountedRow(tx[p]).sent = counter[tx[p].broker].sent + 1
    BY <1>3 DEF CommitSent, CountedRow
  <2> HIDE DEF r
  <2> QED
    BY <2>1, <2>2, <2>3, SettledCommit
<1>4. ASSUME NEW p \in Workers \cup Assigners, CommitDuplicate(p) PROVE SettledInv'
  <2>1. tx[p].lead \in Leads \ SettledLeads /\ tx[p].broker \in Brokers
    BY <1>2, <1>4 DEF CommitDuplicate, Deciding
  <2> DEFINE r == [status |-> "DUPLICATE", broker |-> tx[p].prior, type |-> "none",
                   reason |-> "DUPLICATE_EMAIL"]
  <2>2. lead' = [lead EXCEPT ![tx[p].lead] = r] /\ r.status \in Settled
    BY <1>4 DEF CommitDuplicate, Settled
  <2>3. /\ counter' = [counter EXCEPT ![tx[p].broker] = CountedRow(tx[p])]
        /\ CountedRow(tx[p]).sent = counter[tx[p].broker].sent + 1
    BY <1>4 DEF CommitDuplicate, CountedRow
  <2> HIDE DEF r
  <2> QED
    BY <2>1, <2>2, <2>3, SettledCommit
<1>5. ASSUME NEW p \in Workers \cup Assigners, CommitUnsent(p) PROVE SettledInv'
  <2>1. tx[p].lead \in Leads \ SettledLeads
    BY <1>2, <1>5 DEF CommitUnsent, Deciding
  <2>2. /\ counter' = counter
        /\ \A l \in Leads : l # tx[p].lead => lead'[l] = lead[l]
        /\ lead'[tx[p].lead].status = "UNSENT"
    BY <1>5, <2>1 DEF CommitUnsent, TypeInv, TypeOK, LeadRow
  <2> QED
    BY <1>1, <2>1, <2>2 DEF SettledLeads, Settled
<1>6. ASSUME NEW l \in Leads, Capture(l) PROVE SettledInv'
  <2>1. /\ counter' = counter
        /\ \A k \in Leads : k # l => lead'[k] = lead[k]
        /\ lead[l].status = "NEW" /\ lead'[l].status = "UNSENT"
    BY <1>6 DEF Capture, TypeInv, TypeOK, LeadRow
  <2> QED
    BY <1>1, <2>1 DEF Settled
<1>7. ASSUME UNCHANGED <<lead, counter>> PROVE SettledInv'
  BY <1>1, <1>7
<1>8. \/ UNCHANGED <<lead, counter>>
      \/ \E l \in Leads : Capture(l)
      \/ \E p \in Workers \cup Assigners :
            CommitSent(p) \/ CommitDuplicate(p) \/ CommitUnsent(p)
  BY DEF Next, vars, WorkerStep, AssignStep, ClaimStep, RetryStep, Reconfigure,
     BeginRouting, Select, Acknowledge, BeginManual, ClaimSlot, InsertCounter, ClaimEmail,
     ReadForRetry, Requeue, Abort
<1> QED
  BY <1>3, <1>4, <1>5, <1>6, <1>7, <1>8

(* FR-021 with one consumer: every slot a counter has counted belongs to   *)
(* one settled lead, whatever is delivered again, retried or crashes       *)
(* between the commit and the DONE update.                                 *)
THEOREM SlotsAreSettled == Spec => []OneSlotPerSettledLead
<1>1. (OneDecider => SettledInv) => OneSlotPerSettledLead
    BY DEF SettledInv, SettledLeads, Settled, OneSlotPerSettledLead
<1>2. /\ TypeInv /\ (OneDecider => DeciderInv) /\ [Next]_vars
      /\ OneDecider => SettledInv
      => (OneDecider => SettledInv)'
  <2> SUFFICES ASSUME TypeInv, OneDecider => DeciderInv, [Next]_vars,
                      OneDecider => SettledInv, OneDecider'
               PROVE  SettledInv'
      OBVIOUS
  <2>1. OneDecider
      BY SettingStays DEF OneDecider
  <2> QED
      BY <2>1, SettledNext
<1>3. Init => (OneDecider => SettledInv)
    BY SettledInit
<1> QED
    BY <1>1, <1>2, <1>3, DeciderCorrect, PTL DEF Spec
=============================================================================
