---------------------------- MODULE SelectBroker ----------------------------
(***************************************************************************)
(* The pure decision of the router: who may receive a lead now, and which  *)
(* of them does (src/domain/services/select-broker.ts and the entity and   *)
(* value objects it calls).  No state: Routing and FairShare use it.       *)
(*                                                                         *)
(* A candidate is what findCandidates() returns for one distribution       *)
(* member: its configuration, its counter for today, and the clock         *)
(* projected into its zone.  Percentages are hundredths of a percent       *)
(* (Decimal(5,2)), targets and deficits hundredths of a lead.              *)
(***************************************************************************)
EXTENDS Integers

MinutesPerDay == 1440

WindowContainsClose(open, close, minute) ==     \* mutant: open at the closing minute
    \/ open = close
    \/ open < close /\ open <= minute /\ minute <= close
    \/ close < open /\ (open <= minute \/ minute <= close)

(* A closing time at or before the opening time wraps over midnight; equal *)
(* times are a window that never closes; the window is half-open.          *)
WindowContains(open, close, minute) ==
    \/ open = close
    \/ open < close /\ open <= minute /\ minute < close
    \/ close < open /\ (open <= minute \/ minute < close)

-----------------------------------------------------------------------------
(* The eligibility rules of canReceiveAt, each on its own: their order     *)
(* only decides which one the persisted trace names.                       *)

RuleFires(c) ==
    [inactive |-> ~c.isActive \/ ~c.isActiveInDistribution,
     zero_pct |-> c.percentage <= 0,
     off_day  |-> c.isoWeekday \notin c.workingDays,
     closed   |-> ~WindowContains(c.openingMinutes, c.closingMinutes, c.minute),
     capped   |-> c.dailyCap > 0 /\ c.sentToday >= c.dailyCap]

CanReceive(c) == \A r \in DOMAIN RuleFires(c) : ~RuleFires(c)[r]

-----------------------------------------------------------------------------
(* Fair share.  round2 rounds the product of two binary fractions half up  *)
(* to the hundredth.  Their error is far below a hundredth of a hundredth, *)
(* the least distance of any other product from a half, so it matters only *)
(* where the exact product is a half: it may lie on either side of it      *)
(* (28.5% of one lead is rounded down, to 0.28), the same for all who have *)
(* the percentage.  `down` are the percentages it turns down.  Differences *)
(* are rounded again, so that equal hundredths compare as equal.           *)

TargetAfterLead(pct, total, down) ==
    (pct * (total + 1) + (IF pct \in down THEN 49 ELSE 50)) \div 100

Deficit(c, total, down) ==
    TargetAfterLead(c.percentage, total, down) - 100 * c.sentToday

BeatsAscending(c, d, total, down) ==     \* mutant: the sort is ascending
    \/ Deficit(c, total, down) < Deficit(d, total, down)
    \/ Deficit(c, total, down) = Deficit(d, total, down) /\ c.id < d.id

BeatsByCount(c, d, total, down) ==     \* mutant: fewest sent first, whatever the share
    \/ c.sentToday < d.sentToday
    \/ c.sentToday = d.sentToday /\ c.id < d.id

(* The comparator of the sort: c is placed before d.                       *)
Beats(c, d, total, down) ==
    \/ Deficit(c, total, down) > Deficit(d, total, down)
    \/ /\ Deficit(c, total, down) = Deficit(d, total, down)
       /\ \/ c.sentToday < d.sentToday
          \/ c.sentToday = d.sentToday /\ c.id < d.id

Eligible(cands) == {c \in cands : CanReceive(c)}

(* The percentages whose exact target is a half.                           *)
Halves(cands, total) ==
    {pct \in {c.percentage : c \in cands} : (pct * (total + 1)) % 100 = 50}

SelectedUnderTarget(cands, total) ==     \* mutant: nobody over target is picked
    {c \in Eligible(cands) :
        /\ Deficit(c, total, {}) > 0
        /\ \A d \in Eligible(cands) \ {c} : Beats(c, d, total, {})}

(* The heads of the sorted list of eligible candidates: one for each way   *)
(* the halves may be rounded.                                              *)
Selected(cands, total) ==
    {c \in Eligible(cands) : \E down \in SUBSET Halves(cands, total) :
        \A d \in Eligible(cands) \ {c} : Beats(c, d, total, down)}

NoWinnerReason(cands) ==
    IF cands = {} THEN "NO_ACTIVE_BROKERS" ELSE "NO_ELIGIBLE_BROKER"
=============================================================================
