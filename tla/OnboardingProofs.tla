-------------------------- MODULE OnboardingProofs --------------------------
(***************************************************************************)
(* One form, one distribution and a bounded negative cache, for any number *)
(* of racing creators, founders and visitors, any names, slugs and limit.  *)
(***************************************************************************)
EXTENDS Onboarding, FiniteSetTheorems, TLAPS

CreatorRow == [step : {"start", "slug", "insert", "clear", "created", "refused"},
               name : DOMAIN Candidates \cup {None}, slug : Slugs \cup {None},
               attempt : Nat]
FounderRow == [step : {"start", "insert", "created", "refused"}, form : Slugs \cup {None}]

HasForm == {c \in Creators : creator[c].step \in {"clear", "created"}}
HasDistribution == {d \in Founders : founder[d].step = "created"}

(* Where a request of the slug loop is in its list of candidates.          *)
LoopWithinNames ==
    \A c \in Creators : creator[c].step = "slug" =>
        /\ creator[c].name \in DOMAIN Candidates
        /\ creator[c].attempt \in 1..Len(Candidates[creator[c].name])

(* A request that is about to insert has a slug a form may have, or the    *)
(* slug of the form that is there.                                         *)
InsertsAreSound ==
    /\ \A c \in Creators : creator[c].step = "insert" =>
          creator[c].slug \in Slugs \ ReservedSlugs
    /\ \A d \in Founders : founder[d].step = "insert" =>
          \E f \in forms : f.slug = founder[d].form

(* Whoever was told "created" is the only one who was.                     *)
OnlyForm ==
    \/ forms = {} /\ HasForm = {}
    \/ \E c \in Creators, slug \in Slugs \ ReservedSlugs :
          forms = {[by |-> c, slug |-> slug]} /\ HasForm = {c}

OnlyDistribution ==
    \/ distributions = {} /\ HasDistribution = {}
    \/ \E d \in Founders : \E f \in forms :
          distributions = {[by |-> d, form |-> f.slug]} /\ HasDistribution = {d}

VersionCounts == version = 1 + Cardinality(forms) + Cardinality(distributions)

SingletonInv ==
    /\ creator \in [Creators -> CreatorRow]
    /\ founder \in [Founders -> FounderRow]
    /\ LoopWithinNames /\ InsertsAreSound
    /\ OnlyForm /\ OnlyDistribution /\ VersionCounts

-----------------------------------------------------------------------------
LEMMA OneElement == ASSUME NEW x PROVE Cardinality({x}) = 1 /\ Cardinality({}) = 0
BY FS_Singleton, FS_EmptySet

LEMMA Sizes ==
    ASSUME SingletonInv
    PROVE  /\ Cardinality(forms) \in {0, 1} /\ Cardinality(distributions) \in {0, 1}
           /\ forms = {} => Cardinality(forms) = 0 /\ distributions = {}
           /\ distributions = {} => Cardinality(distributions) = 0
BY OneElement DEF SingletonInv, OnlyForm, OnlyDistribution

LEMMA CreatorKeeps ==
    ASSUME SingletonInv, NEW c \in Creators, Create(c)
    PROVE  SingletonInv'
<1>0. creator[c] \in CreatorRow
  BY DEF SingletonInv
<1>1. ASSUME NEW row \in CreatorRow, creator' = [creator EXCEPT ![c] = row],
             UNCHANGED <<tables, founder>>,
             row.step \in {"clear", "created"} <=> creator[c].step \in {"clear", "created"},
             row.step = "slug" => /\ row.name \in DOMAIN Candidates
                                  /\ row.attempt \in 1..Len(Candidates[row.name]),
             row.step = "insert" => row.slug \in Slugs \ ReservedSlugs
      PROVE  SingletonInv'
  <2>1. \A x \in Creators : creator'[x] = IF x = c THEN row ELSE creator[x]
    BY <1>1 DEF SingletonInv
  <2>2. creator' \in [Creators -> CreatorRow] /\ founder' \in [Founders -> FounderRow]
    BY <1>1 DEF SingletonInv
  <2>3. LoopWithinNames' /\ InsertsAreSound'
    BY <1>1, <2>1 DEF SingletonInv, LoopWithinNames, InsertsAreSound, tables
  <2>4. HasForm' = HasForm /\ HasDistribution' = HasDistribution
    BY <1>1, <2>1 DEF HasForm, HasDistribution
  <2> QED
    BY <1>1, <2>2, <2>3, <2>4 DEF SingletonInv, OnlyForm, OnlyDistribution, VersionCounts, tables
<1>2. ASSUME NEW name \in DOMAIN Candidates, FindForm(c, name) PROVE SingletonInv'
  <2> DEFINE row == [step |-> "slug", name |-> name, slug |-> None, attempt |-> 1]
  <2>1. row \in CreatorRow /\ row.attempt \in 1..Len(Candidates[row.name])
    BY OnboardingAssumption DEF CreatorRow
  <2> QED
    BY <1>1, <1>2, <2>1 DEF FindForm
<1>3. CASE TrySlug(c)
  <2> DEFINE t == creator[c]
             slug == Candidates[t.name][t.attempt]
             refused == slug \in ReservedSlugs \/ \E f \in forms : f.slug = slug
  <2>1. /\ t.step = "slug" /\ t \in CreatorRow /\ t.name \in DOMAIN Candidates
        /\ t.attempt \in 1..Len(Candidates[t.name])
        /\ Candidates[t.name] \in Seq(Slugs)
    BY <1>0, <1>3, OnboardingAssumption DEF TrySlug, SingletonInv, LoopWithinNames
  <2>2. slug \in Slugs
    BY <2>1
  <2>3. UNCHANGED <<tables, founder>>
    BY <1>3 DEF TrySlug
  <2>4. CASE ~refused
    <3> DEFINE row == [t EXCEPT !.step = "insert", !.slug = slug]
    <3>1. creator' = [creator EXCEPT ![c] = row]
      BY <1>3, <2>4 DEF TrySlug
    <3>2. row \in CreatorRow /\ row.step = "insert" /\ row.slug = slug
      BY <2>1, <2>2 DEF CreatorRow
    <3>3. slug \notin ReservedSlugs
      BY <2>4
    <3> HIDE DEF row
    <3> QED
      BY <1>1, <2>1, <2>2, <2>3, <3>1, <3>2, <3>3
  <2>5. CASE refused /\ t.attempt < Len(Candidates[t.name])
    <3> DEFINE row == [t EXCEPT !.attempt = t.attempt + 1]
    <3>1. creator' = [creator EXCEPT ![c] = row]
      BY <1>3, <2>5 DEF TrySlug
    <3>2. /\ row \in CreatorRow /\ row.step = "slug" /\ row.name = t.name
          /\ row.attempt = t.attempt + 1
      BY <2>1 DEF CreatorRow
    <3>3. Len(Candidates[t.name]) \in Nat
      BY <2>1
    <3>4. row.attempt \in 1..Len(Candidates[row.name])
      BY <2>1, <2>5, <3>2, <3>3
    <3> HIDE DEF row
    <3> QED
      BY <1>1, <2>1, <2>3, <3>1, <3>2, <3>4
  <2>6. CASE refused /\ ~(t.attempt < Len(Candidates[t.name]))
    <3> DEFINE row == [t EXCEPT !.step = "refused"]
    <3>1. creator' = [creator EXCEPT ![c] = row]
      BY <1>3, <2>6 DEF TrySlug
    <3>2. row \in CreatorRow /\ row.step = "refused"
      BY <2>1 DEF CreatorRow
    <3> HIDE DEF row
    <3> QED
      BY <1>1, <2>1, <2>3, <3>1, <3>2
  <2> QED
    BY <2>4, <2>5, <2>6
<1>4. CASE InsertForm(c) /\ forms # {}
  <2> DEFINE row == [creator[c] EXCEPT !.step = "refused"]
  <2>1. creator' = [creator EXCEPT ![c] = row] /\ UNCHANGED <<tables, founder>>
        /\ creator[c].step = "insert"
    BY <1>4 DEF InsertForm, tables
  <2>2. row \in CreatorRow /\ row.step = "refused"
    BY <1>0 DEF CreatorRow
  <2> HIDE DEF row
  <2> QED
    BY <1>1, <2>1, <2>2
<1>5. CASE InsertForm(c) /\ forms = {}
  <2> DEFINE slug == creator[c].slug
             new == [by |-> c, slug |-> slug]
  <2>1. /\ creator[c].step = "insert" /\ slug \in Slugs \ ReservedSlugs
        /\ forms' = {new} /\ version' = version + 1
        /\ creator' = [creator EXCEPT ![c].step = "clear"]
        /\ UNCHANGED <<distributions, founder>>
    BY <1>5 DEF InsertForm, SingletonInv, InsertsAreSound
  <2>2. \A x \in Creators : creator'[x] = IF x = c THEN [creator[c] EXCEPT !.step = "clear"]
                                                   ELSE creator[x]
    BY <2>1 DEF SingletonInv
  <2>3. creator' \in [Creators -> CreatorRow] /\ founder' \in [Founders -> FounderRow]
    BY <1>0, <2>1 DEF SingletonInv, CreatorRow
  <2>4. HasForm = {} /\ distributions = {}
    BY <1>5 DEF SingletonInv, OnlyForm, OnlyDistribution
  <2>5. HasForm' = {c} /\ HasDistribution' = HasDistribution
    <3>1. creator'[c].step = "clear"
      BY <1>0, <2>2 DEF CreatorRow
    <3>2. \A x \in Creators \ {c} : creator'[x].step \notin {"clear", "created"}
      BY <2>2, <2>4 DEF HasForm
    <3> QED
      BY <2>1, <3>1, <3>2 DEF HasForm, HasDistribution
  <2>6. LoopWithinNames' /\ InsertsAreSound'
    <3>1. creator'[c].step = "clear"
      BY <1>0, <2>2 DEF CreatorRow
    <3>2. \A d \in Founders : founder[d].step # "insert"
      BY <1>5 DEF SingletonInv, InsertsAreSound
    <3> QED
      BY <2>1, <2>2, <3>1, <3>2 DEF SingletonInv, LoopWithinNames, InsertsAreSound
  <2>7. OnlyForm' /\ OnlyDistribution'
    BY <2>1, <2>4, <2>5 DEF OnlyForm, OnlyDistribution, SingletonInv
  <2>8. VersionCounts'
    <3>1. Cardinality(forms') = 1 /\ Cardinality(forms) = 0 /\ Cardinality(distributions) = 0
      BY <1>5, <2>1, <2>4, OneElement
    <3> QED
      BY <2>1, <3>1 DEF VersionCounts, SingletonInv
  <2> QED
    BY <2>3, <2>6, <2>7, <2>8 DEF SingletonInv
<1>6. CASE ClearAndAnswer(c)
  <2> DEFINE row == [creator[c] EXCEPT !.step = "created"]
  <2>1. creator' = [creator EXCEPT ![c] = row] /\ UNCHANGED <<tables, founder>>
        /\ creator[c].step = "clear"
    BY <1>6 DEF ClearAndAnswer
  <2>2. row \in CreatorRow /\ row.step = "created"
    BY <1>0 DEF CreatorRow
  <2> HIDE DEF row
  <2> QED
    BY <1>1, <2>1, <2>2
<1> QED
  BY <1>2, <1>3, <1>4, <1>5, <1>6 DEF Create

LEMMA FounderKeeps ==
    ASSUME SingletonInv, NEW d \in Founders, Found(d)
    PROVE  SingletonInv'
<1>0. founder[d] \in FounderRow /\ \A f \in forms : f.slug \in Slugs
  BY DEF SingletonInv, OnlyForm
<1>1. ASSUME NEW row \in FounderRow, founder' = [founder EXCEPT ![d] = row],
             UNCHANGED <<tables, creator>>,
             row.step # "created", founder[d].step # "created",
             row.step = "insert" => \E f \in forms : f.slug = row.form
      PROVE  SingletonInv'
  <2>1. \A x \in Founders : founder'[x] = IF x = d THEN row ELSE founder[x]
    BY <1>1 DEF SingletonInv
  <2>2. creator' \in [Creators -> CreatorRow] /\ founder' \in [Founders -> FounderRow]
    BY <1>1 DEF SingletonInv
  <2>3. LoopWithinNames' /\ InsertsAreSound'
    BY <1>1, <2>1 DEF SingletonInv, LoopWithinNames, InsertsAreSound, tables
  <2>4. HasForm' = HasForm /\ HasDistribution' = HasDistribution
    BY <1>1, <2>1 DEF HasForm, HasDistribution
  <2> QED
    BY <1>1, <2>2, <2>3, <2>4 DEF SingletonInv, OnlyForm, OnlyDistribution, VersionCounts, tables
<1>2. CASE FindDistribution(d)
  <2>1. PICK f \in forms : founder' = [founder EXCEPT ![d] = [step |-> "insert", form |-> f.slug]]
    BY <1>2 DEF FindDistribution
  <2>2. [step |-> "insert", form |-> f.slug] \in FounderRow
    BY <1>0 DEF FounderRow
  <2>3. founder[d].step = "start" /\ UNCHANGED <<tables, creator>>
    BY <1>2 DEF FindDistribution
  <2> QED
    BY <1>1, <2>1, <2>2, <2>3
<1>3. CASE InsertDistribution(d) /\ distributions # {}
  <2> DEFINE row == [founder[d] EXCEPT !.step = "refused"]
  <2>1. founder' = [founder EXCEPT ![d] = row] /\ UNCHANGED <<tables, creator>>
        /\ founder[d].step = "insert"
    BY <1>3 DEF InsertDistribution, tables
  <2>2. row \in FounderRow /\ row.step = "refused"
    BY <1>0 DEF FounderRow
  <2> HIDE DEF row
  <2> QED
    BY <1>1, <2>1, <2>2
<1>4. CASE InsertDistribution(d) /\ distributions = {}
  <2>1. /\ founder[d].step = "insert" /\ version' = version + 1
        /\ distributions' = {[by |-> d, form |-> founder[d].form]}
        /\ founder' = [founder EXCEPT ![d].step = "created"]
        /\ UNCHANGED <<forms, creator>>
    BY <1>4 DEF InsertDistribution
  <2>2. PICK f \in forms : f.slug = founder[d].form
    BY <2>1 DEF SingletonInv, InsertsAreSound
  <2>3. \A x \in Founders : founder'[x] = IF x = d THEN [founder[d] EXCEPT !.step = "created"]
                                                   ELSE founder[x]
    BY <2>1 DEF SingletonInv
  <2>4. founder'[d].step = "created"
    BY <1>0, <2>3 DEF FounderRow
  <2>5. creator' \in [Creators -> CreatorRow] /\ founder' \in [Founders -> FounderRow]
    BY <1>0, <2>1 DEF SingletonInv, FounderRow
  <2>6. HasDistribution = {}
    BY <1>4 DEF SingletonInv, OnlyDistribution
  <2>7. HasDistribution' = {d} /\ HasForm' = HasForm
    <3>1. \A x \in Founders \ {d} : founder'[x].step # "created"
      BY <2>3, <2>6 DEF HasDistribution
    <3> QED
      BY <2>1, <2>4, <3>1 DEF HasForm, HasDistribution
  <2>8. LoopWithinNames' /\ InsertsAreSound'
    BY <2>1, <2>3, <2>4 DEF SingletonInv, LoopWithinNames, InsertsAreSound
  <2>9. OnlyForm' /\ OnlyDistribution'
    BY <2>1, <2>2, <2>7 DEF OnlyForm, OnlyDistribution, SingletonInv
  <2>10. VersionCounts'
    <3>1. Cardinality(distributions') = 1 /\ Cardinality(distributions) = 0
          /\ Cardinality(forms) \in {0, 1}
      BY <1>4, <2>1, OneElement, Sizes
    <3> QED
      BY <2>1, <3>1 DEF VersionCounts, SingletonInv
  <2> QED
    BY <2>5, <2>8, <2>9, <2>10 DEF SingletonInv
<1> QED
  BY <1>2, <1>3, <1>4 DEF Found

(* Visitors read the tables and change the negative cache alone.           *)
LEMMA OthersKeep ==
    ASSUME SingletonInv, UNCHANGED <<tables, creator, founder>>
    PROVE  SingletonInv'
BY DEF SingletonInv, tables, LoopWithinNames, InsertsAreSound, OnlyForm, OnlyDistribution,
   VersionCounts, HasForm, HasDistribution

LEMMA SingletonStep == ASSUME SingletonInv, [Next]_vars PROVE SingletonInv'
<1>1. CASE UNCHANGED vars
  BY <1>1, OthersKeep DEF vars
<1>2. CASE (\E v \in Visitors : Visit(v)) \/ \E slug \in Slugs : Expire(slug)
  BY <1>2, OthersKeep DEF Visit, Lookup, Query, Answer, Expire
<1> QED
  BY <1>1, <1>2, CreatorKeeps, FounderKeeps DEF Next

LEMMA SingletonInit == Init => SingletonInv
<1> SUFFICES ASSUME Init PROVE SingletonInv
  OBVIOUS
<1>1. /\ \A c \in Creators : creator[c] = NewRequest
      /\ \A d \in Founders : founder[d] = [step |-> "start", form |-> None]
  BY DEF Init
<1>2. NewRequest \in CreatorRow /\ [step |-> "start", form |-> None] \in FounderRow
  BY DEF NewRequest, CreatorRow, FounderRow
<1>3. creator \in [Creators -> CreatorRow] /\ founder \in [Founders -> FounderRow]
  BY <1>2 DEF Init
<1>4. HasForm = {} /\ HasDistribution = {} /\ LoopWithinNames /\ InsertsAreSound
  <2>1. /\ \A c \in Creators : creator[c].step = "start"
        /\ \A d \in Founders : founder[d].step = "start"
    BY <1>1 DEF NewRequest
  <2> QED
    BY <2>1 DEF HasForm, HasDistribution, LoopWithinNames, InsertsAreSound
<1>5. VersionCounts
  <2>1. version = 1 /\ forms = {} /\ distributions = {}
    BY DEF Init
  <2>2. Cardinality(forms) = 0 /\ Cardinality(distributions) = 0
    BY <2>1, FS_EmptySet
  <2> QED
    BY <2>1, <2>2 DEF VersionCounts
<1> QED
  BY <1>3, <1>4, <1>5 DEF Init, SingletonInv, OnlyForm, OnlyDistribution

(* INV-1 and INV-2 for any number of racing requests: one form and one     *)
(* distribution on it, each made by the request that was told so, and the  *)
(* configuration version counts them.                                      *)
THEOREM OneFormOneDistribution == Spec => []OneOfEach
<1>1. SingletonInv => OneOfEach
  <2> SUFFICES ASSUME SingletonInv PROVE OneOfEach
    OBVIOUS
  <2>1. HasForm = {f.by : f \in forms} /\ HasDistribution = {d.by : d \in distributions}
    <3>1. HasForm = {f.by : f \in forms}
      <4>1. CASE forms = {} /\ HasForm = {}
        BY <4>1
      <4>2. ASSUME NEW c \in Creators, NEW slug \in Slugs,
                   forms = {[by |-> c, slug |-> slug]}, HasForm = {c}
            PROVE  HasForm = {f.by : f \in forms}
        BY <4>2
      <4> QED
        BY <4>1, <4>2 DEF SingletonInv, OnlyForm
    <3>2. HasDistribution = {d.by : d \in distributions}
      <4>1. CASE distributions = {} /\ HasDistribution = {}
        BY <4>1
      <4>2. ASSUME NEW d \in Founders, NEW slug,
                   distributions = {[by |-> d, form |-> slug]}, HasDistribution = {d}
            PROVE  HasDistribution = {x.by : x \in distributions}
        BY <4>2
      <4> QED
        BY <4>1, <4>2 DEF SingletonInv, OnlyDistribution
    <3> QED
      BY <3>1, <3>2
  <2>2. {d.form : d \in distributions} \subseteq {f.slug : f \in forms} \ ReservedSlugs
    BY DEF SingletonInv, OnlyForm, OnlyDistribution
  <2>3. Cardinality(forms) <= 1 /\ Cardinality(distributions) <= 1
    BY Sizes
  <2> QED
    BY <2>1, <2>2, <2>3 DEF OneOfEach, SingletonInv, VersionCounts, HasForm, HasDistribution
<1> QED
  BY <1>1, SingletonInit, SingletonStep, PTL DEF Spec

-----------------------------------------------------------------------------
(* The negative cache.                                                     *)

EntryRow == [slug : Slugs, expired : BOOLEAN]
VisitRow == [step : {"start", "query", "answer"}, slug : Slugs \cup {None}, found : BOOLEAN]

OnePerSlug(s) == \A i, j \in DOMAIN s : s[i].slug = s[j].slug => i = j

(* A content of the cache with at most n entries.                          *)
Holds(s, n) == s \in Seq(EntryRow) /\ Len(s) <= n /\ OnePerSlug(s)

CacheInv ==
    /\ Holds(negative, MaxEntries)
    /\ visitor \in [Visitors -> VisitRow]
    /\ \A v \in Visitors : visitor[v].step # "start" => visitor[v].slug \in Slugs

(* What is left of a sequence without its i-th element.                    *)
LEMMA RemoveOne ==
    ASSUME NEW S, NEW s \in Seq(S), NEW i \in 1..Len(s)
    PROVE  /\ RemoveAt(s, i) \in Seq(S)
           /\ Len(RemoveAt(s, i)) = Len(s) - 1
           /\ \A j \in 1..(Len(s) - 1) :
                  RemoveAt(s, i)[j] = IF j < i THEN s[j] ELSE s[j + 1]
<1> DEFINE a == SubSeq(s, 1, i - 1)
           z == SubSeq(s, i + 1, Len(s))
<1>0. Len(s) \in Nat
    OBVIOUS
<1>1. /\ a \in Seq(S) /\ Len(a) = i - 1
      /\ \A j \in 1..(i - 1) : a[j] = s[j]
    BY <1>0
<1>2. /\ z \in Seq(S) /\ Len(z) = Len(s) - i
      /\ \A j \in 1..(Len(s) - i) : z[j] = s[i + j]
    BY <1>0
<1>3. RemoveAt(s, i) = a \o z
    BY DEF RemoveAt
<1> HIDE DEF a, z
<1>4. a \in Seq(S) /\ z \in Seq(S)
    BY <1>1, <1>2
<1>5. a \o z \in Seq(S) /\ Len(a \o z) = Len(a) + Len(z)
    BY <1>4
<1>6. Len(a) + Len(z) = Len(s) - 1
    BY <1>0, <1>1, <1>2
<1>7. ASSUME NEW j \in 1..(Len(s) - 1)
      PROVE  (a \o z)[j] = IF j < i THEN s[j] ELSE s[j + 1]
    <2>1. CASE j < i
        <3>1. j \in 1..(i - 1) /\ j \in 1..Len(a)
            BY <1>0, <1>1, <2>1
        <3>2. (a \o z)[j] = a[j]
            BY <1>4, <3>1
        <3> QED
            BY <1>1, <2>1, <3>1, <3>2
    <2>2. CASE ~(j < i)
        <3>1. j - Len(a) \in 1..Len(z) /\ j - Len(a) \in 1..(Len(s) - i)
              /\ i + (j - Len(a)) = j + 1
            BY <1>0, <1>1, <1>2, <2>2
        <3>2. (a \o z)[j] = z[j - Len(a)]
            BY <1>4, <3>1
        <3> QED
            BY <1>2, <2>2, <3>1, <3>2
    <2> QED
        BY <2>1, <2>2
<1> QED
    BY <1>3, <1>5, <1>6, <1>7

(* The evicted entry, and the one taken out by its slug, are one entry.    *)
LEMMA EvictOne ==
    ASSUME NEW n \in Nat, NEW s, Holds(s, n), s # <<>>
    PROVE  Holds(Tail(s), n) /\ Len(Tail(s)) = Len(s) - 1
<1>1. s \in Seq(EntryRow) /\ Len(s) <= n /\ Len(s) \in Nat
    BY DEF Holds
<1>2. /\ Tail(s) \in Seq(EntryRow) /\ Len(Tail(s)) = Len(s) - 1
      /\ \A j \in 1..(Len(s) - 1) : Tail(s)[j] = s[j + 1]
    BY <1>1
<1>3. OnePerSlug(Tail(s))
    BY <1>1, <1>2 DEF Holds, OnePerSlug
<1> QED
    BY <1>1, <1>2, <1>3 DEF Holds

LEMMA WithoutSlug ==
    ASSUME CacheInv, NEW slug
    PROVE  /\ Holds(Without(slug), MaxEntries)
           /\ \A i \in DOMAIN Without(slug) : Without(slug)[i].slug # slug
           /\ Entry(slug) # {} => Len(Without(slug)) = Len(negative) - 1
<1>1. CASE Entry(slug) = {}
    BY <1>1 DEF CacheInv, Entry, ToSet, Without
<1>2. CASE Entry(slug) # {}
    <2> DEFINE k == CHOOSE i \in DOMAIN negative : negative[i].slug = slug
               r == RemoveAt(negative, k)
    <2>0. negative \in Seq(EntryRow) /\ Len(negative) \in Nat
          /\ Len(negative) <= MaxEntries /\ MaxEntries \in Nat
        BY OnboardingAssumption DEF CacheInv, Holds
    <2>1. \E i \in DOMAIN negative : negative[i].slug = slug
        BY <1>2 DEF Entry, ToSet
    <2>2. k \in 1..Len(negative) /\ negative[k].slug = slug
        BY <2>0, <2>1
    <2>3. Without(slug) = r
        BY <1>2 DEF Without
    <2> HIDE DEF k
    <2>4. /\ r \in Seq(EntryRow) /\ Len(r) = Len(negative) - 1
          /\ \A j \in 1..(Len(negative) - 1) :
                 r[j] = IF j < k THEN negative[j] ELSE negative[j + 1]
        BY <2>0, <2>2, RemoveOne
    <2> HIDE DEF r
    <2>5. \A i, j \in 1..Len(negative) : negative[i].slug = negative[j].slug => i = j
        BY <2>0 DEF CacheInv, Holds, OnePerSlug
    <2>6. DOMAIN r = 1..(Len(negative) - 1)
        BY <2>0, <2>4
    <2>7. OnePerSlug(r)
        BY <2>0, <2>2, <2>4, <2>5, <2>6 DEF OnePerSlug
    <2>8. \A i \in DOMAIN r : r[i].slug # slug
        BY <2>0, <2>2, <2>4, <2>5, <2>6
    <2> QED
        BY <2>0, <2>3, <2>4, <2>7, <2>8 DEF Holds
<1> QED
    BY <1>1, <1>2

LEMMA AppendNew ==
    ASSUME NEW n \in Nat, NEW s, Holds(s, n), Len(s) < n, NEW e \in EntryRow,
           \A i \in DOMAIN s : s[i].slug # e.slug
    PROVE  Holds(Append(s, e), n)
<1>1. s \in Seq(EntryRow) /\ Len(s) \in Nat
    BY DEF Holds
<1>2. /\ Append(s, e) \in Seq(EntryRow) /\ Len(Append(s, e)) = Len(s) + 1
      /\ \A j \in 1..Len(s) : Append(s, e)[j] = s[j]
      /\ Append(s, e)[Len(s) + 1] = e
    BY <1>1
<1>3. \A i, j \in 1..Len(s) : s[i].slug = s[j].slug => i = j
    BY <1>1 DEF Holds, OnePerSlug
<1>4. OnePerSlug(Append(s, e))
    BY <1>1, <1>2, <1>3 DEF OnePerSlug
<1> QED
    BY <1>1, <1>2, <1>4 DEF Holds

(* Entries rewritten in place keep their slugs.                            *)
LEMMA Rewritten ==
    ASSUME NEW n \in Nat, NEW s, Holds(s, n), NEW f,
           \A i \in DOMAIN s : f[i] \in EntryRow /\ f[i].slug = s[i].slug
    PROVE  Holds([i \in DOMAIN s |-> f[i]], n)
<1> DEFINE g == [i \in DOMAIN s |-> f[i]]
<1>1. s \in Seq(EntryRow) /\ Len(s) \in Nat /\ DOMAIN s = 1..Len(s)
    BY DEF Holds
<1>2. g \in Seq(EntryRow) /\ Len(g) = Len(s) /\ DOMAIN g = DOMAIN s
    BY <1>1
<1>3. \A i \in DOMAIN s : g[i].slug = s[i].slug
    OBVIOUS
<1> HIDE DEF g
<1>4. OnePerSlug(g)
    BY <1>2, <1>3 DEF Holds, OnePerSlug
<1>5. Holds(g, n)
    BY <1>1, <1>2, <1>4 DEF Holds
<1> QED
    BY <1>5 DEF g

LEMMA AddedHolds ==
    ASSUME CacheInv, NEW slug \in Slugs
    PROVE  Holds(Added(slug), MaxEntries)
<1> DEFINE kept == IF Len(negative) >= MaxEntries THEN Tail(negative) ELSE negative
           fresh == [slug |-> slug, expired |-> FALSE]
           f == [i \in DOMAIN kept |-> IF kept[i].slug = slug THEN fresh ELSE kept[i]]
<1>0. /\ Holds(negative, MaxEntries) /\ negative \in Seq(EntryRow) /\ Len(negative) \in Nat
      /\ Len(negative) <= MaxEntries /\ MaxEntries \in Nat \ {0}
    BY OnboardingAssumption DEF CacheInv, Holds
<1>1. Holds(kept, MaxEntries) /\ Len(kept) < MaxEntries
    <2>1. CASE Len(negative) >= MaxEntries
        <3>1. negative # <<>> /\ kept = Tail(negative)
            BY <1>0, <2>1
        <3> QED
            BY <1>0, <2>1, <3>1, EvictOne
    <2> QED
        BY <1>0, <2>1
<1>2. fresh \in EntryRow /\ fresh.slug = slug
    BY DEF EntryRow
<1>3. Added(slug) = IF \E e \in ToSet(kept) : e.slug = slug
                    THEN f ELSE Append(kept, fresh)
    BY DEF Added
<1> HIDE DEF kept, fresh
<1>4. kept \in Seq(EntryRow)
    BY <1>1 DEF Holds
<1>5. CASE \E e \in ToSet(kept) : e.slug = slug
    <2>1. \A i \in DOMAIN kept : f[i] \in EntryRow /\ f[i].slug = kept[i].slug
        BY <1>2, <1>4
    <2>2. f = [i \in DOMAIN kept |-> f[i]]
        OBVIOUS
    <2>3. Added(slug) = f
        BY <1>3, <1>5
    <2> HIDE DEF f
    <2>4. Holds([i \in DOMAIN kept |-> f[i]], MaxEntries)
        BY <1>0, <1>1, <2>1, Rewritten
    <2> QED
        BY <2>2, <2>3, <2>4
<1>6. CASE ~\E e \in ToSet(kept) : e.slug = slug
    <2>1. \A i \in DOMAIN kept : kept[i].slug # fresh.slug
        BY <1>2, <1>6 DEF ToSet
    <2>2. Added(slug) = Append(kept, fresh)
        BY <1>3, <1>6
    <2> QED
        BY <1>0, <1>1, <1>2, <2>1, <2>2, AppendNew
<1> QED
    BY <1>5, <1>6

LEMMA VisitKeeps ==
    ASSUME CacheInv, NEW v \in Visitors, Visit(v)
    PROVE  CacheInv'
<1>0. MaxEntries \in Nat /\ visitor[v] \in VisitRow
    BY OnboardingAssumption DEF CacheInv
<1>1. ASSUME NEW row \in VisitRow, visitor' = [visitor EXCEPT ![v] = row],
             row.step # "start" => row.slug \in Slugs, Holds(negative', MaxEntries)
      PROVE  CacheInv'
    <2>1. \A x \in Visitors : visitor'[x] = IF x = v THEN row ELSE visitor[x]
        BY <1>1 DEF CacheInv
    <2>2. visitor' \in [Visitors -> VisitRow]
        BY <1>1 DEF CacheInv
    <2> QED
        BY <1>1, <2>1, <2>2 DEF CacheInv
<1>2. ASSUME NEW slug \in Slugs, Lookup(v, slug) PROVE CacheInv'
    <2>1. CASE Caches(slug)
        <3> DEFINE e == CHOOSE x \in Entry(slug) : TRUE
        <3>1. Entry(slug) # {}
            BY <2>1 DEF Caches
        <3>2. e \in Entry(slug)
            BY <3>1
        <3>3. negative' = Append(Without(slug), e) /\ visitor' = visitor
            BY <1>2, <2>1 DEF Lookup
        <3> HIDE DEF e
        <3>4. e \in EntryRow /\ e.slug = slug
            BY <3>2 DEF Entry, ToSet, CacheInv, Holds
        <3>5. Len(Without(slug)) = Len(negative) - 1 /\ Holds(Without(slug), MaxEntries)
              /\ \A i \in DOMAIN Without(slug) : Without(slug)[i].slug # e.slug
            BY <3>1, <3>4, WithoutSlug
        <3>6. Len(Without(slug)) < MaxEntries
            BY <1>0, <3>5 DEF CacheInv, Holds
        <3>7. Holds(negative', MaxEntries)
            BY <1>0, <3>3, <3>4, <3>5, <3>6, AppendNew
        <3> QED
            BY <3>3, <3>7 DEF CacheInv
    <2>2. CASE ~Caches(slug)
        <3> DEFINE row == [step |-> "query", slug |-> slug, found |-> FALSE]
        <3>1. visitor' = [visitor EXCEPT ![v] = row] /\ negative' = Without(slug)
            BY <1>2, <2>2 DEF Lookup
        <3>2. row \in VisitRow /\ row.slug \in Slugs
            BY DEF VisitRow
        <3> HIDE DEF row
        <3> QED
            BY <1>1, <3>1, <3>2, WithoutSlug
    <2> QED
        BY <2>1, <2>2
<1>3. CASE Query(v)
    <2> DEFINE row == [visitor[v] EXCEPT !.step = "answer",
                                         !.found = \E f \in forms : f.slug = visitor[v].slug]
    <2>1. visitor' = [visitor EXCEPT ![v] = row] /\ negative' = negative
          /\ visitor[v].step = "query"
        BY <1>3 DEF Query
    <2>2. row \in VisitRow /\ row.slug = visitor[v].slug
        BY <1>0 DEF VisitRow
    <2>3. row.slug \in Slugs
        BY <2>1, <2>2 DEF CacheInv
    <2> HIDE DEF row
    <2> QED
        BY <1>1, <2>1, <2>2, <2>3 DEF CacheInv
<1>4. CASE Answer(v)
    <2>1. /\ visitor[v].step = "answer"
          /\ negative' = IF visitor[v].found THEN negative ELSE Added(visitor[v].slug)
          /\ visitor' = [visitor EXCEPT ![v] = NoVisit]
        BY <1>4 DEF Answer
    <2>2. visitor[v].slug \in Slugs
        BY <2>1 DEF CacheInv
    <2>3. Holds(Added(visitor[v].slug), MaxEntries)
        BY <2>2, AddedHolds
    <2>4. Holds(negative', MaxEntries)
        BY <2>1, <2>3 DEF CacheInv
    <2>5. NoVisit \in VisitRow /\ NoVisit.step = "start"
        BY DEF NoVisit, VisitRow
    <2> QED
        BY <1>1, <2>1, <2>4, <2>5
<1> QED
    BY <1>2, <1>3, <1>4 DEF Visit

LEMMA ExpireKeeps ==
    ASSUME CacheInv, NEW slug \in Slugs, Expire(slug)
    PROVE  CacheInv'
<1> DEFINE f == [i \in DOMAIN negative |->
                    IF negative[i].slug = slug THEN [negative[i] EXCEPT !.expired = TRUE]
                                               ELSE negative[i]]
<1>1. negative' = f /\ visitor' = visitor /\ f = [i \in DOMAIN negative |-> f[i]]
    BY DEF Expire
<1>2. MaxEntries \in Nat /\ Holds(negative, MaxEntries) /\ negative \in Seq(EntryRow)
    BY OnboardingAssumption DEF CacheInv, Holds
<1>3. ASSUME NEW i \in DOMAIN negative
      PROVE  f[i] \in EntryRow /\ f[i].slug = negative[i].slug
    <2>1. negative[i] \in EntryRow
        BY <1>2
    <2>2. /\ [negative[i] EXCEPT !.expired = TRUE] \in EntryRow
          /\ [negative[i] EXCEPT !.expired = TRUE].slug = negative[i].slug
        BY <2>1 DEF EntryRow
    <2> QED
        BY <2>1, <2>2
<1> HIDE DEF f
<1>4. Holds([i \in DOMAIN negative |-> f[i]], MaxEntries)
    BY <1>2, <1>3, Rewritten
<1> QED
    BY <1>1, <1>4 DEF CacheInv

LEMMA EmptyHolds == Holds(<<>>, MaxEntries)
BY OnboardingAssumption DEF Holds, OnePerSlug

LEMMA CacheInit == Init => CacheInv
<1> SUFFICES ASSUME Init PROVE CacheInv
    OBVIOUS
<1>1. NoVisit \in VisitRow /\ NoVisit.step = "start"
    BY DEF NoVisit, VisitRow
<1> QED
    BY <1>1, EmptyHolds DEF Init, CacheInv

LEMMA CacheStep == ASSUME CacheInv, [Next]_vars PROVE CacheInv'
<1>1. CASE UNCHANGED vars
    BY <1>1 DEF vars, CacheInv
<1>2. ASSUME NEW c \in Creators, Create(c) PROVE CacheInv'
    <2>1. visitor' = visitor /\ (negative' = negative \/ negative' = <<>>)
        BY <1>2 DEF Create, FindForm, TrySlug, InsertForm, ClearAndAnswer
    <2> QED
        BY <2>1, EmptyHolds DEF CacheInv
<1>3. ASSUME NEW d \in Founders, Found(d) PROVE CacheInv'
    BY <1>3 DEF Found, FindDistribution, InsertDistribution, CacheInv
<1> QED
    BY <1>1, <1>2, <1>3, VisitKeeps, ExpireKeeps DEF Next

(* negative-slug-cache.ts: the cache keeps to its limit and holds a slug   *)
(* once, for any limit and however many lookups overlap.                   *)
THEOREM CacheIsBounded == Spec => []NegativeCacheBounded
<1>1. CacheInv => NegativeCacheBounded
    BY DEF CacheInv, Holds, OnePerSlug, NegativeCacheBounded
<1> QED
    BY <1>1, CacheInit, CacheStep, PTL DEF Spec

(* Requests, tables and cache stay well typed: a slug loop never runs past *)
(* its candidates and never inserts what is not a slug.                    *)
THEOREM OnboardingTypeCorrect == Spec => []TypeOK
<1>1. SingletonInv /\ CacheInv => TypeOK
    <2> SUFFICES ASSUME SingletonInv, CacheInv PROVE TypeOK
        OBVIOUS
    <2>1. forms \subseteq [by : Creators, slug : Slugs]
        BY DEF SingletonInv, OnlyForm
    <2>2. distributions \subseteq [by : Founders, form : Slugs]
        BY <2>1 DEF SingletonInv, OnlyDistribution
    <2>3. version \in Nat
        BY Sizes DEF SingletonInv, VersionCounts
    <2> QED
        BY <2>1, <2>2, <2>3 DEF SingletonInv, CacheInv, Holds, CreatorRow, FounderRow,
           VisitRow, EntryRow, TypeOK
<1> QED
    BY <1>1, SingletonInit, SingletonStep, CacheInit, CacheStep, PTL DEF Spec
=============================================================================
