--------------------------- MODULE LeadListProofs ---------------------------
(***************************************************************************)
(* Walks of the lead list, for any number of leads, page sizes, statuses   *)
(* and clock: no lead twice, none skipped.                                 *)
(***************************************************************************)
EXTENDS LeadList, TLAPS

(* Rows that have been in an answer, or have to be, were committed once:   *)
(* their key never changes again.                                          *)
Listed == walk.page \cup walk.shown

CommittedRows ==
    \A i \in Listed \cup walk.due : rows[i].presence \in {"visible", "gone"}

Fresh == walk.step = "idle" \/ (walk.step = "open" /\ walk.cursor = <<>>)
             => Listed = {}

(* An open walk's cursor splits the order: what was listed lies at it or   *)
(* before, what is still due lies beyond.                                  *)
Behind ==
    walk.step = "open" /\ walk.cursor # <<>> =>
        \A i \in Listed :
            \/ rows[i].createdAt > walk.cursor.createdAt
            \/ rows[i].createdAt = walk.cursor.createdAt /\ i >= walk.cursor.id

DueAhead ==
    walk.step = "open" =>
        \A i \in walk.due : /\ i \in Visible /\ HasStatus(i) /\ HasText(i)
                            /\ i \in Listed \/ Beyond(i)

Idle == walk.step = "idle" => walk.due = {}

WalkInv ==
    /\ TypeOK /\ CommittedRows /\ Fresh /\ Behind /\ DueAhead /\ Idle
    /\ NeverListedTwice /\ NothingSkipped


LEMMA InitOK == Init => WalkInv
BY LeadListAssumption DEF Init, WalkInv, TypeOK, Row, Walk, Ids, Cursors, CommittedRows,
   Listed, Fresh, Behind, DueAhead, Idle, NeverListedTwice, NothingSkipped

(* What the others do to the table: committed rows keep their keys, and a  *)
(* lead stays due only while it is visible and matches.                    *)
LEMMA OthersKeep ==
    ASSUME WalkInv, Others
    PROVE  /\ TypeOK'
           /\ walk' = [walk EXCEPT !.due = walk'.due] /\ walk'.due \subseteq walk.due
           /\ \A i \in Ids : rows[i].presence \in {"visible", "gone"} =>
                /\ rows'[i].presence \in {"visible", "gone"}
                /\ rows'[i].createdAt = rows[i].createdAt
                /\ rows'[i].found = rows[i].found
           /\ \A i \in walk'.due : i \in Visible => i \in Visible'
           /\ \A i \in walk'.due : HasStatus(i) =>
                 walk.status \in {"any", rows'[i].status}
<1> USE LeadListAssumption DEF TypeOK, WalkInv, Row, Walk
<1>1. CASE Tick
  BY <1>1 DEF Tick, Visible, HasStatus
<1>2. ASSUME NEW i \in Ids, Insert(i)
      PROVE  /\ TypeOK' /\ walk' = walk
             /\ rows[i].presence = "none" /\ rows'[i].presence = "uncommitted"
             /\ \A j \in Ids \ {i} : rows'[j] = rows[j]
  <2>1. PICK t \in {clock - 1, clock}, found \in BOOLEAN :
            rows' = [rows EXCEPT ![i] = [presence |-> "uncommitted", createdAt |-> t,
                                         status |-> "UNSENT", found |-> found]]
    BY <1>2 DEF Insert
  <2> QED
    BY <1>2, <2>1 DEF Insert
<1>3. ASSUME NEW i \in Ids, EndInsert(i)
      PROVE  /\ TypeOK' /\ walk' = walk
             /\ rows[i].presence = "uncommitted"
             /\ \A j \in Ids \ {i} : rows'[j] = rows[j]
  BY <1>3 DEF EndInsert
<1>4. ASSUME NEW i \in Ids, Purge(i)
      PROVE  /\ TypeOK'
             /\ walk' = [walk EXCEPT !.due = walk.due \ {i}]
             /\ rows'[i].presence = "gone" /\ rows'[i].createdAt = rows[i].createdAt
             /\ rows'[i].found = rows[i].found
             /\ \A j \in Ids \ {i} : rows'[j] = rows[j]
  BY <1>4 DEF Purge
<1>5. ASSUME NEW i \in Ids, NEW s \in Statuses, SetStatus(i, s)
      PROVE  /\ TypeOK'
             /\ walk' = [walk EXCEPT !.due = IF walk.status \in {"any", s} THEN walk.due
                                             ELSE walk.due \ {i}]
             /\ rows'[i].presence = "visible" /\ rows'[i].createdAt = rows[i].createdAt
             /\ rows'[i].found = rows[i].found /\ rows'[i].status = s
             /\ \A j \in Ids \ {i} : rows'[j] = rows[j]
  BY <1>5 DEF SetStatus, Visible
<1>6. CASE \E i \in Ids : Insert(i)
  BY <1>2, <1>6 DEF Visible, HasStatus, CommittedRows
<1>7. CASE \E i \in Ids : EndInsert(i)
  BY <1>3, <1>7 DEF Visible, HasStatus, CommittedRows
<1>8. CASE \E i \in Ids : Purge(i)
  <2>1. PICK i \in Ids : Purge(i)
    BY <1>8
  <2>2. walk'.due = walk.due \ {i} /\ walk' = [walk EXCEPT !.due = walk'.due]
    BY <1>4, <2>1
  <2>3. i \notin walk'.due /\ walk'.due \subseteq Ids
    BY <2>2
  <2> QED
    BY <1>4, <2>1, <2>2, <2>3 DEF Visible, HasStatus
<1>9. CASE \E i \in Ids, s \in Statuses : SetStatus(i, s)
  BY <1>5, <1>9 DEF Visible, HasStatus
<1> QED
  BY <1>1, <1>6, <1>7, <1>8, <1>9 DEF Others

LEMMA OthersOK == ASSUME WalkInv, Others PROVE WalkInv'
<1> USE DEF WalkInv
<1>0. walk \in Walk /\ walk.step # "ended"
  BY DEF TypeOK, Others
<1>1. /\ walk'.step = walk.step /\ walk'.status = walk.status
      /\ walk'.search = walk.search /\ walk'.cursor = walk.cursor
      /\ walk'.page = walk.page /\ walk'.shown = walk.shown
      /\ walk'.due \subseteq walk.due
  BY OthersKeep, <1>0 DEF Walk
<1>2. /\ Listed' = Listed /\ Listed \subseteq Ids /\ walk.due \subseteq Ids
      /\ walk.page \subseteq Ids /\ walk.shown \subseteq Ids
  BY <1>0, <1>1 DEF Listed, Walk
<1>3. \A i \in Listed \cup walk.due :
          rows'[i].presence \in {"visible", "gone"} /\ rows'[i].createdAt = rows[i].createdAt
          /\ rows'[i].found = rows[i].found
  BY OthersKeep, <1>2 DEF CommittedRows
<1>4. CommittedRows' /\ Fresh' /\ Behind' /\ Idle'
  BY <1>1, <1>2, <1>3 DEF CommittedRows, Fresh, Behind, Idle
<1>5. DueAhead'
  BY OthersKeep, <1>1, <1>2, <1>3 DEF DueAhead, HasStatus, HasText, Beyond
<1>6. NeverListedTwice'
  BY <1>1, <1>2, <1>3 DEF NeverListedTwice, Newer, Listed
<1>7. NothingSkipped'
  BY <1>0, <1>1 DEF NothingSkipped
<1> QED
  BY <1>4, <1>5, <1>6, <1>7, OthersKeep

LEMMA AskOK ==
    ASSUME WalkInv, NEW status \in Statuses \cup {"any"}, NEW search \in BOOLEAN,
           NEW limit \in Limits, Ask(status, search, limit)
    PROVE  WalkInv'
<1> USE LeadListAssumption DEF Ask
<1>1. TypeOK'
  BY DEF WalkInv, TypeOK, Walk, Visible, Wanted
<1>2. /\ walk'.due = Wanted(status, search)
      /\ walk'.step = "open" /\ walk'.cursor = <<>> /\ walk'.page = {} /\ walk'.shown = {}
      /\ walk'.status = status /\ walk'.search = search /\ rows' = rows
  OBVIOUS
<1>3. DueAhead'
  BY <1>2 DEF DueAhead, HasStatus, HasText, Beyond, Visible, Wanted
<1> QED
  BY <1>1, <1>2, <1>3 DEF WalkInv, CommittedRows, Fresh, Behind, Idle, NeverListedTwice,
     NothingSkipped, Listed, Visible, Wanted

LEMMA ReadPageOK == ASSUME WalkInv, ReadPage PROVE WalkInv'
<1>1. PICK page \in SUBSET Candidates :
          /\ IsPage(page, Candidates \ page)
          /\ \/ /\ page = Candidates
                /\ walk' = [walk EXCEPT !.step = "ended", !.page = page,
                                        !.shown = @ \cup walk.page]
             \/ /\ page # Candidates
                /\ \E last \in page :
                      /\ \A i \in page \ {last} : Newer(i, last)
                      /\ walk' = [walk EXCEPT
                            !.page = page,
                            !.shown = @ \cup walk.page,
                            !.cursor = [createdAt |-> rows[last].createdAt, id |-> last]]
  BY DEF ReadPage
<1>2. /\ walk.step = "open" /\ rows' = rows /\ clock' = clock /\ walk \in Walk
      /\ rows \in [Ids -> Row]
  BY DEF ReadPage, WalkInv, TypeOK
<1>3. /\ walk'.page = page /\ walk'.shown = walk.shown \cup walk.page
      /\ walk'.due = walk.due /\ walk'.status = walk.status /\ walk'.search = walk.search
      /\ Listed' = Listed \cup page /\ page \subseteq Visible /\ Visible' = Visible
      /\ page \subseteq Ids /\ Listed \subseteq Ids /\ Visible \subseteq Ids
  BY <1>1, <1>2 DEF Walk, Candidates, Listed, Visible
<1>4. \A i \in Ids : rows[i].createdAt \in Int /\ i \in Int
  BY <1>2 DEF Row, Ids
<1>5. walk.cursor # <<>> => walk.cursor.createdAt \in Int /\ walk.cursor.id \in Int
  BY <1>2 DEF Walk, Cursors, Ids
<1>6. TypeOK'
  <2>1. walk.shown \cup walk.page \in SUBSET Ids /\ page \in SUBSET Ids
    BY <1>2, <1>3 DEF Walk
  <2>2. walk' \in Walk
    <3>1. CASE walk' = [walk EXCEPT !.step = "ended", !.page = page,
                                    !.shown = walk.shown \cup walk.page]
      BY <1>2, <2>1, <3>1 DEF Walk
    <3>2. ASSUME NEW last \in page,
                 walk' = [walk EXCEPT
                            !.page = page,
                            !.shown = walk.shown \cup walk.page,
                            !.cursor = [createdAt |-> rows[last].createdAt, id |-> last]]
          PROVE  walk' \in Walk
      <4>1. [createdAt |-> rows[last].createdAt, id |-> last] \in Cursors
        BY <1>3, <1>4 DEF Cursors
      <4> QED
        BY <1>2, <2>1, <3>2, <4>1 DEF Walk
    <3> QED
      BY <1>1, <3>1, <3>2
  <2> QED
    BY <1>2, <2>2 DEF WalkInv, TypeOK
<1>7. CommittedRows'
  BY <1>2, <1>3 DEF CommittedRows, WalkInv, Listed, Visible
<1>8. \A i \in Listed, j \in page : i # j /\ Newer(i, j)
  <2> TAKE i \in Listed, j \in page
  <2>1. walk.cursor # <<>>
    BY <1>2 DEF WalkInv, Fresh
  <2>2. Beyond(j)
    BY <1>3 DEF Candidates
  <2>3. \/ rows[i].createdAt > walk.cursor.createdAt
        \/ rows[i].createdAt = walk.cursor.createdAt /\ i >= walk.cursor.id
    BY <1>2, <2>1 DEF WalkInv, Behind
  <2> QED
    BY <1>3, <1>4, <1>5, <2>1, <2>2, <2>3 DEF Beyond, Newer
<1>9. NeverListedTwice'
  BY <1>2, <1>3, <1>8 DEF NeverListedTwice, Listed, Newer
<1>10. \A i \in walk.due : i \in Listed \/ i \in Candidates
  BY <1>2 DEF WalkInv, DueAhead, Candidates
<1>11. CASE page = Candidates
  <2>1. walk'.step = "ended"
    BY <1>1, <1>2, <1>11 DEF Walk
  <2> QED
    BY <1>3, <1>6, <1>7, <1>9, <1>10, <1>11, <2>1
       DEF WalkInv, Fresh, Behind, DueAhead, Idle, NothingSkipped, Listed
<1>12. CASE page # Candidates
  <2>1. PICK last \in page :
          /\ \A i \in page \ {last} : Newer(i, last)
          /\ walk' = [walk EXCEPT
                            !.page = page,
                            !.shown = @ \cup walk.page,
                            !.cursor = [createdAt |-> rows[last].createdAt, id |-> last]]
    BY <1>1, <1>12
  <2>2. /\ walk'.step = "open" /\ walk'.cursor # <<>>
        /\ walk'.cursor.createdAt = rows[last].createdAt /\ walk'.cursor.id = last
    BY <2>1, <1>2 DEF Walk
  <2>3. Behind'
    BY <1>2, <1>3, <1>4, <1>8, <2>1, <2>2 DEF Behind, Newer
  <2>4. ASSUME NEW i \in walk.due, i \notin Listed \cup page
        PROVE  \/ rows[i].createdAt < rows[last].createdAt
               \/ rows[i].createdAt = rows[last].createdAt /\ i < last
    BY <1>1, <1>3, <1>4, <1>10, <2>4 DEF IsPage, Newer, Candidates
  <2>5. DueAhead'
    BY <1>2, <1>3, <2>2, <2>4 DEF WalkInv, DueAhead, HasStatus, HasText, Beyond, Visible
  <2> QED
    BY <1>6, <1>7, <1>9, <2>2, <2>3, <2>5 DEF WalkInv, Fresh, Idle, NothingSkipped
<1> QED
  BY <1>11, <1>12

LEMMA StepOK == WalkInv /\ [Next]_vars => WalkInv'
<1> SUFFICES ASSUME WalkInv, [Next]_vars PROVE WalkInv'
  OBVIOUS
<1>1. CASE UNCHANGED vars
  BY <1>1 DEF vars, WalkInv, TypeOK, CommittedRows, Listed, Fresh, Behind, DueAhead, Idle,
     NeverListedTwice, NothingSkipped, Visible, HasStatus, HasText, Beyond, Newer
<1> QED
  BY <1>1, OthersOK, AskOK, ReadPageOK DEF Next

LEMMA WalksAreSound == Spec => []WalkInv
BY InitOK, StepOK, PTL DEF Spec

(* No walk shows a lead twice or out of order.                             *)
THEOREM ListedOnce == Spec => []NeverListedTwice
BY WalksAreSound, PTL DEF WalkInv

(* No walk that came to its end has skipped a lead that was there and      *)
(* matched all along.                                                      *)
THEOREM ListedAll == Spec => []NothingSkipped
BY WalksAreSound, PTL DEF WalkInv

(* Rows, cursors and walks are what the list can hold.                     *)
THEOREM LeadListTypeCorrect == Spec => []TypeOK
BY WalksAreSound, PTL DEF WalkInv
=============================================================================
