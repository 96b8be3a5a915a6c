----------------------------- MODULE MCRouting -----------------------------
(* Instances of Routing for TLC.                                           *)
EXTENDS Routing, TLC

CONSTANTS l1, l2, e1, e2, w1, w2

Cfg(pct, cap) ==
    [member |-> TRUE, isActive |-> TRUE, isActiveInDistribution |-> TRUE,
     dailyCap |-> cap, percentage |-> pct, openingMinutes |-> 540,
     closingMinutes |-> 1080, workingDays |-> 1..5]

TwoLeads == {l1, l2}
OneEmail == {e1}
TwoEmails == {e1, e2}

SameEmail == l1 :> e1 @@ l2 :> e1
EachOwn == l1 :> e1 @@ l2 :> e2

(* Of leads only where they carry one email.                               *)
RequestSymmetry ==
    Permutations(Workers) \cup Permutations(Assigners) \cup Permutations(Leads)

TwoBrokers == {1, 2}
OneBroker == {1}

Capped == Cfg(5000, 1)
Unlimited == Cfg(5000, 0)
NoMember == [Cfg(5000, 1) EXCEPT !.member = FALSE]
CapsAndMembership == {Capped, Unlimited, NoMember}
OnOrOff == {Cfg(5000, 2), [Cfg(5000, 2) EXCEPT !.isActive = FALSE]}

Setting(crew, configs) == [crew |-> crew, configs |-> configs]
Each(cs) == [b \in Brokers |-> cs]

(* Race: two consumers and two administrators at once, every broker under a*)
(* cap of one.  Alone: one consumer beside a request for a retry, broker 1 *)
(* changing between capped and unlimited, broker 2 out of and in as well.  *)
Race == Setting(Workers \cup Assigners, Each({Capped}))
Alone(w) ==
    Setting({w} \cup Retriers,
            [b \in Brokers |-> IF b = 1 THEN {Capped, Unlimited} ELSE CapsAndMembership])

AllSettings == {Race} \cup {Alone(w) : w \in Workers}

OnlyEveryone == {Setting(Procs, Each(Configs))}
=============================================================================
