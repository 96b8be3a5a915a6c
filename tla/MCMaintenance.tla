--------------------------- MODULE MCMaintenance ---------------------------
(* Instances of Maintenance for TLC.                                       *)
EXTENDS Maintenance, TLC

CONSTANTS l1, l2, l3, alice, bob

(* The first two leads carry one email: the second is a resubmission.      *)
TwoEmails == (l1 :> alice) @@ (l2 :> alice) @@ (l3 :> bob)

Zone(before, after, change) == [before |-> before, after |-> after, change |-> change]

(* UTC, an hour of the purge that comes twice or not at all, a zone west   *)
(* of Greenwich, and one whose hour of the purge holds midnight UTC.       *)
Zones ==
    {Zone(0, 0, 0), Zone(3, 0, 12), Zone(3, 0, 3), Zone(0, 3, 3), Zone(0, 3, 12),
     Zone(7, 7, 0), Zone(9, 6, 9), Zone(4, 4, 0), Zone(5, 5, 0), Zone(5, 2, 10), Zone(4, 2, 0)}

LongRuns ==
    {[before |-> z.before, after |-> z.after, change |-> z.change,
      leads |-> {}, end |-> 28] : z \in Zones}

FullRun == [before |-> 0, after |-> 0, change |-> 0, leads |-> {l1, l2, l3}, end |-> 5]

AllSettings == {FullRun} \cup LongRuns
OnlyFullRun == {FullRun}
=============================================================================
