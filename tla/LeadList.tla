------------------------------ MODULE LeadList ------------------------------
(***************************************************************************)
(* GET /leads: the lead list, walked page by page with a cursor while      *)
(* leads are captured, decided and purged (leads.controller.ts).  The      *)
(* pages come from separate statements, so nothing ties them together but  *)
(* the key in the cursor: (createdAt, id), newest first.                   *)
(***************************************************************************)
EXTENDS Integers, FiniteSets

CONSTANTS
    MaxLeads,    \* bound: ids given out
    MaxClock,    \* bound on the clock, in milliseconds that matter
    Retention,   \* age at which purgeLeads may delete a row
    Statuses,    \* lead statuses
    Limits       \* page sizes asked for

ASSUME LeadListAssumption ==
    /\ MaxLeads \in Nat /\ MaxClock \in Nat /\ Retention \in Nat
    /\ Limits \subseteq Nat \ {0}
    /\ "UNSENT" \in Statuses /\ "any" \notin Statuses

VARIABLES
    clock,
    rows,     \* leads by id: presence, createdAt, status, and whether the
              \* search text occurs in them
    walk      \* a reader's walk through the list

vars == <<clock, rows, walk>>

Ids == 1..MaxLeads
Cursors == [createdAt : Int, id : Ids]

Row == [presence : {"none", "uncommitted", "visible", "gone"}, createdAt : Int,
        status : Statuses, found : BOOLEAN]

Walk == [step : {"idle", "open", "ended"}, status : Statuses \cup {"any"},
         search : BOOLEAN, limit : Nat, cursor : Cursors \cup {<<>>},
         page : SUBSET Ids,     \* ids of the last answer
         shown : SUBSET Ids,    \* ids of the answers before it
         due : SUBSET Ids]      \* ids there from the start that matched all along

Init ==
    /\ clock = 0
    /\ rows = [i \in Ids |-> [presence |-> "none", createdAt |-> 0,
                               status |-> "UNSENT", found |-> FALSE]]
    /\ walk = [step |-> "idle", status |-> "any", search |-> FALSE, limit |-> 1,
               cursor |-> <<>>, page |-> {}, shown |-> {}, due |-> {}]

-----------------------------------------------------------------------------
(* The table.                                                              *)

Visible == {i \in Ids : rows[i].presence = "visible"}

(* ORDER BY createdAt DESC, id DESC.                                       *)
Newer(i, j) ==
    \/ rows[i].createdAt > rows[j].createdAt
    \/ rows[i].createdAt = rows[j].createdAt /\ i > j

HasStatus(i) == walk.status \in {"any", rows[i].status}
HasText(i) == walk.search => rows[i].found

Tick ==
    /\ clock < MaxClock
    /\ clock' = clock + 1
    /\ UNCHANGED <<rows, walk>>

(* The INSERT of a capture: createdAt is taken before the id is given out, *)
(* so ids and times of two captures may come in different orders.          *)
Insert(i) ==
    /\ rows[i].presence = "none"
    /\ i > 1 => rows[i - 1].presence # "none"
    /\ \E t \in {clock - 1, clock}, found \in BOOLEAN :
          rows' = [rows EXCEPT ![i] = [presence |-> "uncommitted", createdAt |-> t,
                                       status |-> "UNSENT", found |-> found]]
    /\ UNCHANGED <<clock, walk>>

(* Its COMMIT, or its rollback.                                            *)
EndInsert(i) ==
    /\ rows[i].presence = "uncommitted"
    /\ \E p \in {"visible", "gone"} : rows' = [rows EXCEPT ![i].presence = p]
    /\ UNCHANGED <<clock, walk>>

(* A routing transaction, or an assignment by hand, commits.               *)
SetStatus(i, s) ==
    /\ i \in Visible
    /\ rows[i].status # s
    /\ rows' = [rows EXCEPT ![i].status = s]
    /\ walk' = IF walk.status \in {"any", s} THEN walk
               ELSE [walk EXCEPT !.due = @ \ {i}]
    /\ UNCHANGED clock

(* purgeLeads.                                                             *)
Purge(i) ==
    /\ i \in Visible
    /\ clock - rows[i].createdAt > Retention
    /\ rows' = [rows EXCEPT ![i].presence = "gone"]
    /\ walk' = [walk EXCEPT !.due = @ \ {i}]
    /\ UNCHANGED clock

-----------------------------------------------------------------------------
Wanted(status, search) ==
    {i \in Visible : status \in {"any", rows[i].status} /\ (search => rows[i].found)}

(* The reader asks for the first page of a list.                           *)
Ask(status, search, limit) ==
    /\ walk.step = "idle"
    /\ walk' = [step |-> "open", status |-> status, search |-> search,
                limit |-> limit, cursor |-> <<>>, page |-> {}, shown |-> {},
                due |-> Wanted(status, search)]
    /\ UNCHANGED <<clock, rows>>

BeyondByDate(i) ==     \* mutant: the cursor's id is not compared
    walk.cursor # <<>> => rows[i].createdAt < walk.cursor.createdAt

BeyondOrAt(i) ==     \* mutant: lte for lt
    walk.cursor # <<>> =>
        \/ rows[i].createdAt < walk.cursor.createdAt
        \/ rows[i].createdAt = walk.cursor.createdAt /\ i <= walk.cursor.id

(* "Keyset: strictly older than the cursor tuple."                         *)
Beyond(i) ==
    walk.cursor # <<>> =>
        \/ rows[i].createdAt < walk.cursor.createdAt
        \/ rows[i].createdAt = walk.cursor.createdAt /\ i < walk.cursor.id

(* The rows of the WHERE.  The cursor's OR replaces the search's OR, so    *)
(* only the first page is searched.                                        *)
Candidates == {i \in Visible :
                  HasStatus(i) /\ Beyond(i) /\ (walk.cursor = <<>> => HasText(i))}

(* The first rows of the order, as many as the limit allows.               *)
IsPage(page, rest) ==
    /\ \A i \in page, j \in rest : Newer(i, j)
    /\ Cardinality(page) <= walk.limit
    /\ rest # {} => Cardinality(page) = walk.limit

(* One request: the list goes on from the last row of the page if there    *)
(* was a row more than the limit.                                          *)
ReadPage ==
    /\ walk.step = "open"
    /\ \E page \in SUBSET Candidates :
          /\ IsPage(page, Candidates \ page)
          /\ \/ /\ page = Candidates
                /\ walk' = [walk EXCEPT !.step = "ended", !.page = page,
                                        !.shown = @ \cup walk.page]
             \/ /\ page # Candidates
                /\ \E last \in page :
                      /\ \A i \in page \ {last} : Newer(i, last)
                      /\ walk' = [walk EXCEPT
                            !.page = page,
                            !.shown = @ \cup walk.page,
                            !.cursor = [createdAt |-> rows[last].createdAt, id |-> last]]
    /\ UNCHANGED <<clock, rows>>

(* A bound: what happens to the table after the walk is not looked at.     *)
Others ==
    /\ walk.step # "ended"
    /\ \/ Tick
       \/ \E i \in Ids : Insert(i) \/ EndInsert(i) \/ Purge(i)
       \/ \E i \in Ids, s \in Statuses : SetStatus(i, s)

Next ==
    \/ Others
    \/ \E status \in Statuses \cup {"any"}, search \in BOOLEAN, limit \in Limits :
          Ask(status, search, limit)
    \/ ReadPage

Spec == Init /\ [][Next]_vars

-----------------------------------------------------------------------------
TypeOK ==
    /\ clock \in 0..MaxClock
    /\ rows \in [Ids -> Row]
    /\ walk \in Walk

(* A walk shows no lead twice, and every page continues the order of the   *)
(* pages before it, whatever is captured, decided, committed late or       *)
(* purged between two of its requests.                                     *)
NeverListedTwice ==
    \A i \in walk.shown, j \in walk.page : i # j /\ Newer(i, j)

(* A walk that has come to its end has shown every lead that was there     *)
(* when it began and matched the filter all along: rows of one             *)
(* millisecond, purged cursor rows and leads that leave the filter on a    *)
(* page boundary included.                                                 *)
NothingSkipped == walk.step = "ended" => walk.due \subseteq walk.shown \cup walk.page
=============================================================================
