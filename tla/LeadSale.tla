------------------------------ MODULE LeadSale ------------------------------
(***************************************************************************)
(* What the router promises, without transactions, snapshots or locks: a   *)
(* lead is decided in one indivisible step, and every decision for which a *)
(* broker was picked takes one slot of that broker.  An e-mail is sold     *)
(* once and for good; the leads that come after the sale are duplicates.   *)
(* Routing implements this module (Routing!ImplementsLeadSale).            *)
(*                                                                         *)
(* Reopen is part of the promise because the program keeps no better one:  *)
(* a routing transaction that found nobody puts its lead back to "open"    *)
(* even when the lead was sold meanwhile.  The sale itself is never undone *)
(* and the next decision on that lead can only confirm it.                 *)
(***************************************************************************)
EXTENDS Naturals

CONSTANTS Leads, Emails, EmailOf, Brokers

VARIABLES
    sales,     \* set of [email, broker, lead]: who bought which e-mail
    slots,     \* [Brokers -> Nat]: leads counted against the daily cap
    verdict    \* [Leads -> "new", "open", "sold" or "duplicate"]

saleVars == <<sales, slots, verdict>>

Verdicts == {"new", "open", "sold", "duplicate"}

SoldTo(l) == {s \in sales : s.email = EmailOf[l]}

Init ==
    /\ sales = {}
    /\ slots = [b \in Brokers |-> 0]
    /\ verdict = [l \in Leads |-> "new"]

TakeSlot(b) == slots' = [slots EXCEPT ![b] = @ + 1]

Arrive(l) ==
    /\ verdict[l] = "new"
    /\ verdict' = [verdict EXCEPT ![l] = "open"]
    /\ UNCHANGED <<sales, slots>>

(* The first sale of the e-mail.                                           *)
Sell(l, b) ==
    /\ verdict[l] = "open"
    /\ SoldTo(l) = {}
    /\ sales' = sales \cup {[email |-> EmailOf[l], broker |-> b, lead |-> l]}
    /\ verdict' = [verdict EXCEPT ![l] = "sold"]
    /\ TakeSlot(b)

(* The e-mail was sold through this very lead: nothing new is sold.        *)
Confirm(l, b) ==
    /\ verdict[l] \in {"open", "sold"}
    /\ \E s \in SoldTo(l) : s.lead = l
    /\ verdict' = [verdict EXCEPT ![l] = "sold"]
    /\ TakeSlot(b)
    /\ UNCHANGED sales

(* The e-mail was sold through another lead.  The slot of the broker that  *)
(* had been picked is taken all the same.                                  *)
Refuse(l, b) ==
    /\ verdict[l] \in {"open", "duplicate"}
    /\ \E s \in SoldTo(l) : s.lead # l
    /\ verdict' = [verdict EXCEPT ![l] = "duplicate"]
    /\ TakeSlot(b)
    /\ UNCHANGED sales

Reopen(l) ==
    /\ verdict[l] \in {"sold", "duplicate"}
    /\ verdict' = [verdict EXCEPT ![l] = "open"]
    /\ UNCHANGED <<sales, slots>>

Next ==
    \E l \in Leads :
        \/ Arrive(l)
        \/ Reopen(l)
        \/ \E b \in Brokers : Sell(l, b) \/ Confirm(l, b) \/ Refuse(l, b)

Spec == Init /\ [][Next]_saleVars
=============================================================================
