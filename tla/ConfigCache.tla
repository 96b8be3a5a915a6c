----------------------------- MODULE ConfigCache -----------------------------
(***************************************************************************)
(* Configuration writes and the version-gated configuration cache that     *)
(* routing reads through when CONFIG_CACHE=true                            *)
(* (cached-distribution-config.repository.ts, config-version.ts,           *)
(* broker.service.ts, distribution.controller.ts).                         *)
(*                                                                         *)
(* Every process that routes has a cache of its own.  A routing transaction*)
(* reads the lead first, which fixes its snapshot.  It then asks for the   *)
(* candidates and the time zone concurrently (Promise.all); each request   *)
(* reads the version outside the transaction and, when it is not the one   *)
(* of the cache, refills the cache inside it, from the snapshot.           *)
(***************************************************************************)
EXTENDS Integers, FiniteSets

CONSTANTS
    Brokers,      \* broker ids
    Settings,     \* values of the broker rows: caps, windows, days
    Zones,        \* time zones of the distribution
    Routers,      \* processes that run a consumer
    Admins,       \* concurrent configuration requests
    MaxVersion,   \* bound on the configuration writes
    None

Requests == {"candidates", "timezone"}     \* the two arms of Promise.all

Config == [brokers : SUBSET Brokers, members : SUBSET Brokers,
           setting : Settings, zone : Zones]

ASSUME ConfigAssumption ==
    /\ MaxVersion \in Nat
    /\ Settings # {} /\ Zones # {}
    /\ None \notin Config \cup Brokers

VARIABLES
    config,      \* brokers, distribution_brokers and distributions
    version,     \* config_version.version
    sold,        \* brokers with rows in assigned_emails and leads
    admin,       \* [Admins -> the request between its check and its write]
    cache,       \* [Routers -> [label, content]], None when never filled
    routing,     \* [Routers -> the open routing transaction]
    overlapped   \* [Routers -> versions written while its transaction was open]

vars == <<config, version, sold, admin, cache, routing, overlapped>>

Resting == [op |-> "none", broker |-> None, members |-> {}]
Closed == [step |-> "closed", snap |-> None, request |-> [k \in Requests |-> "asked"],
           label |-> [k \in Requests |-> 0], served |-> None]

(* The seed: a distribution without members, version 1.                    *)
Init ==
    /\ \E s \in Settings, z \in Zones :
          config = [brokers |-> {}, members |-> {}, setting |-> s, zone |-> z]
    /\ version = 1
    /\ sold = {}
    /\ admin = [a \in Admins |-> Resting]
    /\ cache = [r \in Routers |-> None]
    /\ routing = [r \in Routers |-> Closed]
    /\ overlapped = [r \in Routers |-> {}]

-----------------------------------------------------------------------------
(* Configuration writes: the rows and the version in one transaction.      *)

BumpVersion ==
    /\ version < MaxVersion
    /\ version' = version + 1
    /\ overlapped' = [r \in Routers |-> IF routing[r].step = "open"
                                        THEN overlapped[r] \cup {version + 1}
                                        ELSE overlapped[r]]

CreateBroker(b) ==
    /\ b \notin config.brokers
    /\ config' = [config EXCEPT !.brokers = @ \cup {b}]
    /\ BumpVersion
    /\ UNCHANGED <<sold, admin, cache, routing>>

UpdateBroker(s) ==
    /\ config.brokers # {}
    /\ config' = [config EXCEPT !.setting = s]
    /\ BumpVersion
    /\ UNCHANGED <<sold, admin, cache, routing>>

PatchDistribution(z) ==
    /\ config' = [config EXCEPT !.zone = z]
    /\ BumpVersion
    /\ UNCHANGED <<sold, admin, cache, routing>>

(* BrokerService.delete counts the leads in its snapshot; by the time it   *)
(* deletes, the broker may have been sold one.  The foreign key of         *)
(* assigned_emails (ON DELETE RESTRICT) then makes the transaction fail.   *)
CountLeads(a, b) ==
    /\ admin[a] = Resting
    /\ b \in config.brokers \ sold
    /\ admin' = [admin EXCEPT ![a] = [op |-> "delete", broker |-> b, members |-> {}]]
    /\ UNCHANGED <<config, version, sold, cache, routing, overlapped>>

DeleteBrokerNoRestrict(a) ==     \* mutant: the key cascades like the other two
    LET b == admin[a].broker
    IN  /\ admin[a].op = "delete"
        /\ admin' = [admin EXCEPT ![a] = Resting]
        /\ IF b \in config.brokers
           THEN /\ config' = [config EXCEPT !.brokers = @ \ {b}, !.members = @ \ {b}]
                /\ BumpVersion
           ELSE UNCHANGED <<config, version, overlapped>>
        /\ UNCHANGED <<sold, cache, routing>>

DeleteBrokerUnversioned(a) ==     \* mutant: the delete does not bump the version
    LET b == admin[a].broker
    IN  /\ admin[a].op = "delete"
        /\ admin' = [admin EXCEPT ![a] = Resting]
        /\ IF b \in config.brokers /\ b \notin sold
           THEN config' = [config EXCEPT !.brokers = @ \ {b}, !.members = @ \ {b}]
           ELSE config' = config
        /\ UNCHANGED <<version, sold, cache, routing, overlapped>>

DeleteBroker(a) ==
    LET b == admin[a].broker
    IN  /\ admin[a].op = "delete"
        /\ admin' = [admin EXCEPT ![a] = Resting]
        /\ IF b \in config.brokers /\ b \notin sold
           THEN /\ config' = [config EXCEPT !.brokers = @ \ {b}, !.members = @ \ {b}]
                /\ BumpVersion
           ELSE UNCHANGED <<config, version, overlapped>>
        /\ UNCHANGED <<sold, cache, routing>>

(* PUT /distribution/brokers checks the ids, then replaces the members in a*)
(* transaction that a foreign key makes fail if one of them is gone.       *)
CheckMembers(a, ms) ==
    /\ admin[a] = Resting
    /\ ms \subseteq config.brokers
    /\ admin' = [admin EXCEPT ![a] = [op |-> "members", broker |-> None, members |-> ms]]
    /\ UNCHANGED <<config, version, sold, cache, routing, overlapped>>

ReplaceMembers(a) ==
    /\ admin[a].op = "members"
    /\ admin' = [admin EXCEPT ![a] = Resting]
    /\ IF admin[a].members \subseteq config.brokers
       THEN /\ config' = [config EXCEPT !.members = admin[a].members]
            /\ BumpVersion
       ELSE UNCHANGED <<config, version, overlapped>>
    /\ UNCHANGED <<sold, cache, routing>>

-----------------------------------------------------------------------------
(* A routing transaction of one process.                                   *)

Begin(r) ==
    /\ routing[r].step = "closed"
    /\ routing' = [routing EXCEPT ![r] = [Closed EXCEPT !.step = "open", !.snap = config]]
    /\ UNCHANGED <<config, version, sold, admin, cache, overlapped>>

(* The continuation of a request whose load is over: the candidates are    *)
(* whatever the cache holds by now.                                        *)
Answer(r, k, content) ==
    [routing[r] EXCEPT !.request[k] = "answered",
                       !.served = IF k = "candidates" THEN content ELSE @]

(* loadIfStale: the version, read outside the transaction.                 *)
ReadVersion(r, k) ==
    /\ routing[r].step = "open"
    /\ routing[r].request[k] = "asked"
    /\ IF cache[r] # None /\ cache[r].label = version
       THEN routing' = [routing EXCEPT ![r] = Answer(r, k, cache[r].content)]
       ELSE routing' = [routing EXCEPT ![r].request[k] = "stale",
                                       ![r].label[k] = version]
    /\ UNCHANGED <<config, version, sold, admin, cache, overlapped>>

(* The miss: time zone and members, read inside the transaction.           *)
Refill(r, k) ==
    /\ routing[r].step = "open"
    /\ routing[r].request[k] = "stale"
    /\ cache' = [cache EXCEPT ![r] = [label |-> routing[r].label[k],
                                      content |-> routing[r].snap]]
    /\ routing' = [routing EXCEPT ![r] = Answer(r, k, routing[r].snap)]
    /\ UNCHANGED <<config, version, sold, admin, overlapped>>

(* Both answered: a member is selected and sold the lead, unless it is gone*)
(* (INSERT IGNORE skips the counter row, the slot counts as lost); or no   *)
(* sale comes of it.                                                       *)
Close(r) ==
    /\ routing[r].step = "open"
    /\ \A k \in Requests : routing[r].request[k] = "answered"
    /\ \/ \E b \in routing[r].served.members \cap config.brokers : sold' = sold \cup {b}
       \/ sold' = sold
    /\ routing' = [routing EXCEPT ![r] = Closed]
    /\ UNCHANGED <<config, version, admin, cache, overlapped>>

(* The slot was lost: the loop asks again, in the same transaction.        *)
Reselect(r) ==
    /\ routing[r].step = "open"
    /\ \A k \in Requests : routing[r].request[k] = "answered"
    /\ routing[r].served.members # {}
    /\ routing' = [routing EXCEPT ![r].request = [k \in Requests |-> "asked"]]
    /\ UNCHANGED <<config, version, sold, admin, cache, overlapped>>

(* The process dies or restarts: its cache is empty again.                 *)
Crash(r) ==
    /\ cache' = [cache EXCEPT ![r] = None]
    /\ routing' = [routing EXCEPT ![r] = Closed]
    /\ overlapped' = [overlapped EXCEPT ![r] = {}]
    /\ UNCHANGED <<config, version, sold, admin>>

Write ==
    \/ \E b \in Brokers : CreateBroker(b)
    \/ \E s \in Settings : UpdateBroker(s)
    \/ \E z \in Zones : PatchDistribution(z)
    \/ \E a \in Admins :
          \/ DeleteBroker(a)
          \/ ReplaceMembers(a)
          \/ \E b \in Brokers : CountLeads(a, b)
          \/ \E ms \in SUBSET Brokers : CheckMembers(a, ms)

Route(r) ==
    \/ Begin(r)
    \/ \E k \in Requests : ReadVersion(r, k) \/ Refill(r, k)
    \/ Close(r)
    \/ Reselect(r)
    \/ Crash(r)

Next == Write \/ \E r \in Routers : Route(r)

Spec == Init /\ [][Next]_vars

-----------------------------------------------------------------------------
TypeOK ==
    /\ config \in Config
    /\ version \in Nat
    /\ sold \subseteq Brokers
    /\ admin \in [Admins -> [op : {"none", "delete", "members"},
                             broker : Brokers \cup {None}, members : SUBSET Brokers]]
    /\ cache \in [Routers -> [label : Nat, content : Config] \cup {None}]
    /\ routing \in [Routers -> [step : {"closed", "open"}, snap : Config \cup {None},
                                request : [Requests -> {"asked", "stale", "answered"}],
                                label : [Requests -> Nat],
                                served : Config \cup {None}]]
    /\ overlapped \in [Routers -> SUBSET Nat]

(* A hit serves the configuration in force, as far as that holds: unless   *)
(* the latest write was committed while this process had a routing         *)
(* transaction open, when the refill joins the new version to an old       *)
(* snapshot.  Two concurrent refills, restarts and every kind of write are *)
(* included (cached-distribution-config.repository.ts:29: "Every read      *)
(* checks ConfigVersion first, so staleness is structurally zero").        *)
CoherentUnlessOverlapped ==
    \A r \in Routers :
        cache[r] # None /\ cache[r].label = version /\ version \notin overlapped[r]
            => cache[r].content = config

(* A broker that has bought a lead is never deleted, and no deleted broker *)
(* stays a member, however deletes, member lists and sales interleave.     *)
SoldBrokerStays == sold \cup config.members \subseteq config.brokers
=============================================================================
