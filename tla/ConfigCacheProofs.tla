-------------------------- MODULE ConfigCacheProofs --------------------------
(***************************************************************************)
(* Configuration writes and the configuration cache for any number of      *)
(* brokers, routing processes, administrators and writes.                  *)
(***************************************************************************)
EXTENDS ConfigCache, TLAPS

(* An open transaction works on the latest configuration, or was open when *)
(* the latest version was written.                                         *)
SnapshotCurrent ==
    \A r \in Routers : routing[r].step = "open" =>
        /\ routing[r].snap \in Config
        /\ routing[r].snap = config \/ version \in overlapped[r]

(* No cache and no request under way is labelled with a version to come.   *)
LabelsPast ==
    \A r \in Routers :
        /\ \A k \in Requests : routing[r].label[k] \in 0..version
        /\ cache[r] # None => cache[r].label \in 0..version

CacheInv ==
    /\ TypeOK
    /\ SnapshotCurrent
    /\ LabelsPast
    /\ CoherentUnlessOverlapped
    /\ SoldBrokerStays

AdminRequests == [op : {"none", "delete", "members"},
                  broker : Brokers \cup {None}, members : SUBSET Brokers]

Transactions ==
    [step : {"closed", "open"}, snap : Config \cup {None},
     request : [Requests -> {"asked", "stale", "answered"}],
     label : [Requests -> Nat], served : Config \cup {None}]

-----------------------------------------------------------------------------
(* Writes.                                                                 *)

(* A write makes every older label stale and marks every open transaction. *)
LEMMA VersionedWrite ==
    ASSUME CacheInv, BumpVersion, UNCHANGED <<cache, routing, sold>>, config' \in Config,
           SoldBrokerStays',
           admin' \in [Admins -> AdminRequests]
    PROVE  CacheInv'
<1>1. version' = version + 1 /\ version \in Nat
  BY DEF BumpVersion, CacheInv, TypeOK
<1>2. /\ overlapped' \in [Routers -> SUBSET Nat]
      /\ \A r \in Routers : routing[r].step = "open" => version' \in overlapped'[r]
  BY <1>1 DEF BumpVersion, CacheInv, TypeOK
<1>3. TypeOK'
  BY <1>1, <1>2 DEF CacheInv, TypeOK, AdminRequests
<1>4. SnapshotCurrent' /\ LabelsPast'
  BY <1>1, <1>2 DEF SnapshotCurrent, LabelsPast, CacheInv
<1>5. CoherentUnlessOverlapped'
  BY <1>1 DEF CoherentUnlessOverlapped, LabelsPast, CacheInv
<1> QED
  BY <1>3, <1>4, <1>5 DEF CacheInv

(* Requests that have not written yet, and refused ones.                   *)
LEMMA NoWrite ==
    ASSUME CacheInv, UNCHANGED <<config, version, sold, cache, routing, overlapped>>,
           admin' \in [Admins -> AdminRequests]
    PROVE  CacheInv'
BY DEF CacheInv, TypeOK, SnapshotCurrent, LabelsPast, CoherentUnlessOverlapped,
   SoldBrokerStays, AdminRequests

LEMMA WriteKeeps == ASSUME CacheInv, Write PROVE CacheInv'
<1>0. /\ config \in Config /\ config.brokers \subseteq Brokers
      /\ config.members \subseteq Brokers
  BY DEF CacheInv, TypeOK, Config
<1>1. ASSUME NEW b \in Brokers, CreateBroker(b) PROVE CacheInv'
  <2>1. config' \in Config /\ SoldBrokerStays'
    BY <1>0, <1>1 DEF CreateBroker, Config, CacheInv, SoldBrokerStays
  <2> QED
    BY <1>1, <2>1, VersionedWrite DEF CreateBroker, CacheInv, TypeOK, AdminRequests
<1>2. ASSUME NEW s \in Settings, UpdateBroker(s) PROVE CacheInv'
  <2>1. config' \in Config /\ SoldBrokerStays'
    BY <1>0, <1>2 DEF UpdateBroker, Config, CacheInv, SoldBrokerStays
  <2> QED
    BY <1>2, <2>1, VersionedWrite DEF UpdateBroker, CacheInv, TypeOK, AdminRequests
<1>3. ASSUME NEW z \in Zones, PatchDistribution(z) PROVE CacheInv'
  <2>1. config' \in Config /\ SoldBrokerStays'
    BY <1>0, <1>3 DEF PatchDistribution, Config, CacheInv, SoldBrokerStays
  <2> QED
    BY <1>3, <2>1, VersionedWrite DEF PatchDistribution, CacheInv, TypeOK, AdminRequests
<1>4. ASSUME NEW a \in Admins,
             \/ DeleteBroker(a) \/ ReplaceMembers(a)
             \/ \E b \in Brokers : CountLeads(a, b)
             \/ \E ms \in SUBSET Brokers : CheckMembers(a, ms)
      PROVE  CacheInv'
  <2>0. \E q \in AdminRequests : admin' = [admin EXCEPT ![a] = q]
    <3>1. Resting \in AdminRequests
      BY DEF Resting, AdminRequests
    <3>2. ASSUME NEW b \in Brokers
          PROVE  [op |-> "delete", broker |-> b, members |-> {}] \in AdminRequests
      BY DEF AdminRequests
    <3>3. ASSUME NEW ms \in SUBSET Brokers
          PROVE  [op |-> "members", broker |-> None, members |-> ms] \in AdminRequests
      BY DEF AdminRequests
    <3> QED
      BY <1>4, <3>1, <3>2, <3>3 DEF DeleteBroker, ReplaceMembers, CountLeads, CheckMembers
  <2>1. admin' \in [Admins -> AdminRequests]
    BY <2>0 DEF CacheInv, TypeOK, AdminRequests
  <2>2. CASE UNCHANGED <<config, version, overlapped>>
    BY <1>4, <2>1, <2>2, NoWrite DEF DeleteBroker, ReplaceMembers, CountLeads, CheckMembers
  <2>3. CASE BumpVersion /\ (DeleteBroker(a) \/ ReplaceMembers(a))
    <3>1. admin[a].members \subseteq Brokers /\ version \in Nat
      BY DEF CacheInv, TypeOK
    <3>2. version' # version /\ UNCHANGED sold
      BY <2>3, <3>1 DEF BumpVersion, DeleteBroker, ReplaceMembers
    <3>3. \/ /\ admin[a].broker \notin sold
             /\ config' = [config EXCEPT !.brokers = @ \ {admin[a].broker},
                                         !.members = @ \ {admin[a].broker}]
          \/ /\ admin[a].members \subseteq config.brokers
             /\ config' = [config EXCEPT !.members = admin[a].members]
      BY <2>3, <3>2 DEF DeleteBroker, ReplaceMembers
    <3>4. config' \in Config /\ SoldBrokerStays'
      BY <1>0, <3>1, <3>2, <3>3 DEF Config, CacheInv, SoldBrokerStays
    <3> QED
      BY <2>1, <2>3, <3>4, VersionedWrite DEF DeleteBroker, ReplaceMembers
  <2> QED
    BY <1>4, <2>2, <2>3 DEF DeleteBroker, ReplaceMembers, CountLeads, CheckMembers
<1> QED
  BY <1>1, <1>2, <1>3, <1>4 DEF Write

-----------------------------------------------------------------------------
(* Routing transactions.                                                   *)

(* A step of one process that does not fill its cache.                     *)
LEMMA TransactionMoves ==
    ASSUME CacheInv, NEW r \in Routers, NEW t \in Transactions,
           routing' = [routing EXCEPT ![r] = t],
           UNCHANGED <<config, version, admin, cache, overlapped>>,
           sold' \subseteq sold \cup config.brokers,
           \A k \in Requests : t.label[k] \in 0..version,
           t.step = "open" => /\ t.snap \in Config
                              /\ t.snap = config \/ version \in overlapped[r]
    PROVE  CacheInv'
<1>1. \A q \in Routers : routing'[q] = IF q = r THEN t ELSE routing[q]
  BY DEF CacheInv, TypeOK
<1>2. TypeOK'
  <2>1. config.brokers \subseteq Brokers
    BY DEF CacheInv, TypeOK, Config
  <2> QED
    BY <2>1 DEF CacheInv, TypeOK, Transactions
<1>3. SnapshotCurrent' /\ LabelsPast' /\ CoherentUnlessOverlapped'
  BY <1>1 DEF CacheInv, SnapshotCurrent, LabelsPast, CoherentUnlessOverlapped
<1>4. SoldBrokerStays'
  BY DEF CacheInv, SoldBrokerStays
<1> QED
  BY <1>2, <1>3, <1>4 DEF CacheInv

LEMMA CrashKeeps == ASSUME CacheInv, NEW r \in Routers, Crash(r) PROVE CacheInv'
<1>1. /\ UNCHANGED <<config, version, sold, admin>>
      /\ \A q \in Routers :
            /\ routing'[q] = IF q = r THEN Closed ELSE routing[q]
            /\ cache'[q] = IF q = r THEN None ELSE cache[q]
            /\ overlapped'[q] = IF q = r THEN {} ELSE overlapped[q]
  BY DEF Crash, CacheInv, TypeOK
<1>2. Closed \in Transactions /\ Closed.step = "closed"
      /\ \A k \in Requests : Closed.label[k] = 0
  BY DEF Closed, Transactions
<1>3. TypeOK'
  BY <1>2 DEF Crash, CacheInv, TypeOK, Transactions
<1>0. version \in Nat
  BY DEF CacheInv, TypeOK
<1>4. SnapshotCurrent' /\ LabelsPast' /\ CoherentUnlessOverlapped'
  BY <1>0, <1>1, <1>2 DEF CacheInv, SnapshotCurrent, LabelsPast, CoherentUnlessOverlapped
<1>5. SoldBrokerStays'
  BY <1>1 DEF CacheInv, SoldBrokerStays
<1> QED
  BY <1>3, <1>4, <1>5 DEF CacheInv

(* Within a transaction: the snapshot stays.                               *)
LEMMA RequestMoves ==
    ASSUME CacheInv, NEW r \in Routers, NEW t \in Transactions,
           routing' = [routing EXCEPT ![r] = t],
           UNCHANGED <<config, version, sold, admin, cache, overlapped>>,
           t.snap = routing[r].snap, t.step = routing[r].step,
           \A k \in Requests : t.label[k] \in 0..version
    PROVE  CacheInv'
BY TransactionMoves DEF CacheInv, SnapshotCurrent

LEMMA AnswerType ==
    ASSUME CacheInv, NEW r \in Routers, NEW k \in Requests, NEW content \in Config \cup {None}
    PROVE  /\ Answer(r, k, content) \in Transactions
           /\ Answer(r, k, content).snap = routing[r].snap
           /\ Answer(r, k, content).step = routing[r].step
           /\ Answer(r, k, content).label = routing[r].label
<1> DEFINE t == routing[r]
           request == [t.request EXCEPT ![k] = "answered"]
           served == IF k = "candidates" THEN content ELSE t.served
<1>1. t \in Transactions
  BY DEF CacheInv, TypeOK, Transactions
<1>2. Answer(r, k, content) = [t EXCEPT !.request = request, !.served = served]
  BY <1>1 DEF Answer, Transactions
<1>3. /\ request \in [Requests -> {"asked", "stale", "answered"}]
      /\ served \in Config \cup {None}
  BY <1>1 DEF Transactions
<1> HIDE DEF t, request, served
<1>4. [t EXCEPT !.request = request, !.served = served] \in Transactions
  BY <1>1, <1>3 DEF Transactions
<1>5. /\ [t EXCEPT !.request = request, !.served = served].snap = t.snap
      /\ [t EXCEPT !.request = request, !.served = served].step = t.step
      /\ [t EXCEPT !.request = request, !.served = served].label = t.label
  BY <1>1 DEF Transactions
<1> QED
  BY <1>2, <1>4, <1>5 DEF t

(* The snapshot of an open transaction becomes the content of the cache,   *)
(* under the version read for it: the current one only if nothing has been *)
(* written since, or if the write found the transaction open.              *)
LEMMA RefillKeeps ==
    ASSUME CacheInv, NEW r \in Routers, NEW k \in Requests, Refill(r, k)
    PROVE  CacheInv'
<1> DEFINE t == routing[r]
           u == Answer(r, k, t.snap)
           entry == [label |-> t.label[k], content |-> t.snap]
<1>1. /\ t \in Transactions /\ version \in Nat
      /\ \A j \in Requests : t.label[j] \in 0..version
      /\ t.step = "open" /\ t.snap \in Config
      /\ t.snap = config \/ version \in overlapped[r]
  BY DEF Refill, CacheInv, TypeOK, Transactions, SnapshotCurrent, LabelsPast
<1>2. /\ UNCHANGED <<config, version, sold, admin, overlapped>>
      /\ routing' = [routing EXCEPT ![r] = u] /\ cache' = [cache EXCEPT ![r] = entry]
  BY DEF Refill
<1>3. u \in Transactions /\ u.snap = t.snap /\ u.step = t.step /\ u.label = t.label
  BY <1>1, AnswerType
<1>4. entry \in [label : Nat, content : Config] /\ entry.label \in 0..version
      /\ (entry.label = version /\ version \notin overlapped[r] => entry.content = config)
  BY <1>1
<1> HIDE DEF u, entry
<1>5. \A q \in Routers : /\ routing'[q] = IF q = r THEN u ELSE routing[q]
                         /\ cache'[q] = IF q = r THEN entry ELSE cache[q]
  BY <1>2 DEF CacheInv, TypeOK
<1>6. TypeOK'
  BY <1>2, <1>3, <1>4 DEF CacheInv, TypeOK, Transactions
<1>7. SnapshotCurrent' /\ LabelsPast' /\ CoherentUnlessOverlapped'
  BY <1>1, <1>2, <1>3, <1>4, <1>5
     DEF CacheInv, SnapshotCurrent, LabelsPast, CoherentUnlessOverlapped
<1>8. SoldBrokerStays'
  BY <1>2 DEF CacheInv, SoldBrokerStays
<1> QED
  BY <1>6, <1>7, <1>8 DEF CacheInv

LEMMA RouteKeeps == ASSUME CacheInv, NEW r \in Routers, Route(r) PROVE CacheInv'
<1> DEFINE t == routing[r]
<1>0. /\ t \in Transactions /\ version \in Nat /\ config \in Config
      /\ \A k \in Requests : t.label[k] \in 0..version
      /\ t.step = "open" => /\ t.snap \in Config
                            /\ t.snap = config \/ version \in overlapped[r]
      /\ cache[r] \in [label : Nat, content : Config] \cup {None}
  BY DEF CacheInv, TypeOK, Transactions, SnapshotCurrent, LabelsPast
<1>1. CASE Begin(r)
  <2> DEFINE u == [Closed EXCEPT !.step = "open", !.snap = config]
  <2>0. Closed \in Transactions /\ \A k \in Requests : Closed.label[k] = 0
    BY DEF Closed, Transactions
  <2>1. u \in Transactions /\ u.snap = config /\ u.label = Closed.label
    BY <1>0, <2>0 DEF Transactions
  <2>2. routing' = [routing EXCEPT ![r] = u]
    BY <1>1 DEF Begin
  <2> HIDE DEF u
  <2>3. \A k \in Requests : u.label[k] \in 0..version
    BY <1>0, <2>0, <2>1
  <2>4. UNCHANGED <<config, version, sold, admin, cache, overlapped>>
    BY <1>1 DEF Begin
  <2> QED
    BY <1>0, <2>1, <2>2, <2>3, <2>4, TransactionMoves
<1>2. ASSUME NEW k \in Requests, ReadVersion(r, k) PROVE CacheInv'
  <2>1. CASE cache[r] # None /\ cache[r].label = version
    <3> DEFINE u == Answer(r, k, cache[r].content)
    <3>1. /\ u \in Transactions /\ u.snap = t.snap /\ u.step = t.step /\ u.label = t.label
      BY <1>0, <2>1, AnswerType
    <3>2. routing' = [routing EXCEPT ![r] = u]
      BY <1>2, <2>1 DEF ReadVersion
    <3> HIDE DEF u
    <3> QED
      BY <1>0, <1>2, <3>1, <3>2, RequestMoves DEF ReadVersion
  <2>2. CASE ~(cache[r] # None /\ cache[r].label = version)
    <3> DEFINE request == [t.request EXCEPT ![k] = "stale"]
               label == [t.label EXCEPT ![k] = version]
               u == [t EXCEPT !.request = request, !.label = label]
    <3>0. /\ request \in [Requests -> {"asked", "stale", "answered"}]
          /\ label \in [Requests -> Nat] /\ \A j \in Requests : label[j] \in 0..version
      BY <1>0 DEF Transactions
    <3>2. routing' = [routing EXCEPT ![r] = u]
      <4>1. [t EXCEPT !.request[k] = "stale", !.label[k] = version] = u
        BY <1>0 DEF Transactions
      <4> QED
        BY <1>2, <2>2, <4>1 DEF ReadVersion
    <3> HIDE DEF request, label
    <3>1. /\ u \in Transactions /\ u.snap = t.snap /\ u.step = t.step
          /\ \A j \in Requests : u.label[j] \in 0..version
      BY <1>0, <3>0 DEF Transactions
    <3> HIDE DEF u
    <3> QED
      BY <1>0, <1>2, <3>1, <3>2, RequestMoves DEF ReadVersion
  <2> QED
    BY <2>1, <2>2
<1>3. ASSUME NEW k \in Requests, Refill(r, k) PROVE CacheInv'
  BY <1>3, RefillKeeps
<1>4. CASE Close(r)
  <2>1. Closed \in Transactions /\ Closed.step = "closed"
        /\ \A k \in Requests : Closed.label[k] \in 0..version
    BY <1>0 DEF Closed, Transactions
  <2>2. sold' \subseteq sold \cup config.brokers
    BY <1>4 DEF Close
  <2> QED
    BY <1>4, <2>1, <2>2, TransactionMoves DEF Close
<1>5. CASE Reselect(r)
  <2> DEFINE u == [t EXCEPT !.request = [k \in Requests |-> "asked"]]
  <2>1. u \in Transactions /\ u.snap = t.snap /\ u.step = t.step /\ u.label = t.label
    BY <1>0 DEF Transactions
  <2>2. routing' = [routing EXCEPT ![r] = u]
    BY <1>5 DEF Reselect
  <2> HIDE DEF u
  <2> QED
    BY <1>0, <1>5, <2>1, <2>2, RequestMoves DEF Reselect
<1> QED
  BY <1>1, <1>2, <1>3, <1>4, <1>5, CrashKeeps DEF Route

-----------------------------------------------------------------------------
LEMMA CacheAlways == Spec => []CacheInv
<1>1. Init => CacheInv
  <2>1. SUFFICES ASSUME Init PROVE CacheInv
    OBVIOUS
  <2>2. config \in Config /\ config.members = {}
    BY <2>1 DEF Init, Config
  <2>3. Closed \in Transactions /\ Closed.step = "closed"
        /\ \A k \in Requests : Closed.label[k] = 0
    BY DEF Closed, Transactions
  <2>4. TypeOK
    BY <2>1, <2>2, <2>3 DEF Init, TypeOK, Transactions, Resting
  <2>5. SnapshotCurrent /\ LabelsPast /\ CoherentUnlessOverlapped /\ SoldBrokerStays
    BY <2>1, <2>2, <2>3
       DEF Init, SnapshotCurrent, LabelsPast, CoherentUnlessOverlapped, SoldBrokerStays
  <2> QED
    BY <2>4, <2>5 DEF CacheInv
<1>2. CacheInv /\ UNCHANGED vars => CacheInv'
  BY DEF vars, CacheInv, TypeOK, SnapshotCurrent, LabelsPast, CoherentUnlessOverlapped,
     SoldBrokerStays
<1>3. CacheInv /\ [Next]_vars => CacheInv'
  BY <1>2, WriteKeeps, RouteKeeps DEF Next
<1> QED
  BY <1>1, <1>3, PTL DEF Spec

(* A hit serves the configuration in force unless the latest write found   *)
(* this process with a routing transaction open, for any number of         *)
(* processes, requests and writes.                                         *)
THEOREM CacheIsCoherent == Spec => []CoherentUnlessOverlapped
BY CacheAlways, PTL DEF CacheInv

(* The broker of a sold lead is never deleted, and no deleted broker stays *)
(* a member.                                                               *)
THEOREM SoldBrokersStay == Spec => []SoldBrokerStays
BY CacheAlways, PTL DEF CacheInv

(* Labels, snapshots and rows are what the code can hold.                  *)
THEOREM ConfigCacheTypeCorrect == Spec => []TypeOK
BY CacheAlways, PTL DEF CacheInv
=============================================================================
