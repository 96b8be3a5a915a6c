----------------------------- MODULE Onboarding -----------------------------
(***************************************************************************)
(* Creating the one form and the one distribution, and looking the form's  *)
(* public URL up through the negative-slug cache (create-form.use-case.ts, *)
(* form.controller.ts, create-distribution.use-case.ts, distribution.      *)
(* controller.ts, public-form.controller.ts, negative-slug-cache.ts).      *)
(*                                                                         *)
(* The negative cache is the one of the API process with CONFIG_CACHE=true.*)
(* Every await of these handlers is a place where the others of the same   *)
(* Node process run: one step here is what happens between two of them.    *)
(***************************************************************************)
EXTENDS Integers, Sequences, FiniteSets, SequencesExt

CONSTANTS
    Slugs,          \* slugs visitors ask for
    Candidates,     \* [names -> the slugs tried for it, in order]
    ReservedSlugs,
    Creators,       \* concurrent POST /form requests
    Founders,       \* concurrent POST /distribution requests
    Visitors,       \* concurrent GET /public/form/:slug requests
    MaxEntries,     \* capacity of the negative cache
    None

ASSUME OnboardingAssumption ==
    /\ \A name \in DOMAIN Candidates : Candidates[name] \in Seq(Slugs) \ {<<>>}
    /\ ReservedSlugs \subseteq Slugs
    /\ MaxEntries \in Nat \ {0}
    /\ None \notin Slugs

VARIABLES
    forms,          \* rows of forms: [by, slug]
    distributions,  \* rows of distributions: [by, form]
    version,        \* config_version.version
    negative,       \* the negative cache, least recently used first: [slug, expired]
    creator,        \* [Creators -> [step, name, slug, attempt]]
    founder,        \* [Founders -> [step, form]]
    visitor         \* [Visitors -> [step, slug, found]]

tables == <<forms, distributions, version>>
vars == <<tables, negative, creator, founder, visitor>>

NewRequest == [step |-> "start", name |-> None, slug |-> None, attempt |-> 0]
NoVisit == [step |-> "start", slug |-> None, found |-> FALSE]

Init ==
    /\ forms = {} /\ distributions = {}
    /\ version = 1
    /\ negative = <<>>
    /\ creator = [c \in Creators |-> NewRequest]
    /\ founder = [f \in Founders |-> [step |-> "start", form |-> None]]
    /\ visitor = [v \in Visitors |-> NoVisit]

-----------------------------------------------------------------------------
(* POST /form.                                                             *)

(* findSingleton: with a form there the answer is FORM_ALREADY_EXISTS.     *)
FindForm(c, name) ==
    /\ creator[c].step = "start"
    /\ forms = {}
    /\ creator' = [creator EXCEPT ![c] =
                     [step |-> "slug", name |-> name, slug |-> None, attempt |-> 1]]
    /\ UNCHANGED <<tables, negative, founder, visitor>>

(* One round of the slug loop; with every candidate used up, SLUG_TAKEN.   *)
TrySlug(c) ==
    LET t == creator[c]
        slug == Candidates[t.name][t.attempt]
        refused == slug \in ReservedSlugs \/ \E f \in forms : f.slug = slug
    IN  /\ t.step = "slug"
        /\ creator' = [creator EXCEPT ![c] =
              IF ~refused THEN [t EXCEPT !.step = "insert", !.slug = slug]
              ELSE IF t.attempt < Len(Candidates[t.name])
                   THEN [t EXCEPT !.attempt = @ + 1]
                   ELSE [t EXCEPT !.step = "refused"]]
        /\ UNCHANGED <<tables, negative, founder, visitor>>

(* The insert and the version in one transaction; the unique index on      *)
(* singleton turns a second form into the 409.                             *)
InsertFormTwice(c) ==     \* mutant: only the slug is unique
    /\ creator[c].step = "insert"
    /\ IF \A f \in forms : f.slug # creator[c].slug
       THEN /\ forms' = forms \cup {[by |-> c, slug |-> creator[c].slug]}
            /\ version' = version + 1
            /\ creator' = [creator EXCEPT ![c].step = "clear"]
       ELSE /\ creator' = [creator EXCEPT ![c].step = "refused"]
            /\ UNCHANGED <<forms, version>>
    /\ UNCHANGED <<distributions, negative, founder, visitor>>

InsertForm(c) ==
    /\ creator[c].step = "insert"
    /\ IF forms = {}
       THEN /\ forms' = {[by |-> c, slug |-> creator[c].slug]}
            /\ version' = version + 1
            /\ creator' = [creator EXCEPT ![c].step = "clear"]
       ELSE /\ creator' = [creator EXCEPT ![c].step = "refused"]
            /\ UNCHANGED <<forms, version>>
    /\ UNCHANGED <<distributions, negative, founder, visitor>>

(* The negative cache is cleared, and the administrator has the URL.       *)
ClearAndAnswer(c) ==
    /\ creator[c].step = "clear"
    /\ negative' = <<>>
    /\ creator' = [creator EXCEPT ![c].step = "created"]
    /\ UNCHANGED <<tables, founder, visitor>>

-----------------------------------------------------------------------------
(* POST /distribution.                                                     *)

(* findSingleton and getFormId: DISTRIBUTION_ALREADY_EXISTS, FORM_REQUIRED.*)
FindDistribution(d) ==
    /\ founder[d].step = "start"
    /\ distributions = {}
    /\ \E f \in forms : founder' = [founder EXCEPT ![d] = [step |-> "insert", form |-> f.slug]]
    /\ UNCHANGED <<tables, negative, creator, visitor>>

InsertDistribution(d) ==
    /\ founder[d].step = "insert"
    /\ IF distributions = {}
       THEN /\ distributions' = {[by |-> d, form |-> founder[d].form]}
            /\ version' = version + 1
            /\ founder' = [founder EXCEPT ![d].step = "created"]
       ELSE /\ founder' = [founder EXCEPT ![d].step = "refused"]
            /\ UNCHANGED <<distributions, version>>
    /\ UNCHANGED <<forms, negative, creator, visitor>>

-----------------------------------------------------------------------------
(* GET /public/form/:slug.                                                 *)

Entry(slug) == {e \in ToSet(negative) : e.slug = slug}
Caches(slug) == \E e \in Entry(slug) : ~e.expired

(* Map.delete: the entry of that key, if there is one, is taken out.       *)
Without(slug) ==
    IF Entry(slug) = {} THEN negative
    ELSE RemoveAt(negative, CHOOSE i \in DOMAIN negative : negative[i].slug = slug)

(* has: a live entry is the answer, and is now the most recently used; an  *)
(* expired one is dropped.                                                 *)
LookupRenews(v, slug) ==     \* mutant: refreshes the TTL before it looks at it
    /\ visitor[v].step = "start"
    /\ IF Entry(slug) # {}
       THEN /\ negative' = Append(Without(slug), [slug |-> slug, expired |-> FALSE])
            /\ UNCHANGED visitor
       ELSE /\ visitor' = [visitor EXCEPT ![v] =
                             [step |-> "query", slug |-> slug, found |-> FALSE]]
            /\ UNCHANGED negative
    /\ UNCHANGED <<tables, creator, founder>>

Lookup(v, slug) ==
    /\ visitor[v].step = "start"
    /\ IF Caches(slug)
       THEN /\ negative' = Append(Without(slug), CHOOSE e \in Entry(slug) : TRUE)
            /\ UNCHANGED visitor
       ELSE /\ negative' = Without(slug)
            /\ visitor' = [visitor EXCEPT ![v] =
                             [step |-> "query", slug |-> slug, found |-> FALSE]]
    /\ UNCHANGED <<tables, creator, founder>>

(* findUnique, as the database answers it.                                 *)
Query(v) ==
    /\ visitor[v].step = "query"
    /\ visitor' = [visitor EXCEPT ![v].step = "answer",
                                  ![v].found = \E f \in forms : f.slug = visitor[v].slug]
    /\ UNCHANGED <<tables, negative, creator, founder>>

AddedLate(slug) ==     \* mutant: size > maxEntries
    LET kept == IF Len(negative) > MaxEntries THEN Tail(negative) ELSE negative
        fresh == [slug |-> slug, expired |-> FALSE]
    IN  IF \E e \in ToSet(kept) : e.slug = slug
        THEN [i \in DOMAIN kept |-> IF kept[i].slug = slug THEN fresh ELSE kept[i]]
        ELSE Append(kept, fresh)

(* add: an existing entry keeps its place and starts a new TTL.            *)
Added(slug) ==
    LET kept == IF Len(negative) >= MaxEntries THEN Tail(negative) ELSE negative
        fresh == [slug |-> slug, expired |-> FALSE]
    IN  IF \E e \in ToSet(kept) : e.slug = slug
        THEN [i \in DOMAIN kept |-> IF kept[i].slug = slug THEN fresh ELSE kept[i]]
        ELSE Append(kept, fresh)

(* Without a form of that slug, the miss is remembered.                    *)
Answer(v) ==
    /\ visitor[v].step = "answer"
    /\ negative' = IF visitor[v].found THEN negative ELSE Added(visitor[v].slug)
    /\ visitor' = [visitor EXCEPT ![v] = NoVisit]
    /\ UNCHANGED <<tables, creator, founder>>

(* Thirty seconds pass since an entry was added; looking it up in between  *)
(* does not prolong it.                                                    *)
Expire(slug) ==
    /\ Caches(slug)
    /\ negative' = [i \in DOMAIN negative |->
                      IF negative[i].slug = slug THEN [negative[i] EXCEPT !.expired = TRUE]
                                                 ELSE negative[i]]
    /\ UNCHANGED <<tables, creator, founder, visitor>>

Create(c) ==
    \/ \E name \in DOMAIN Candidates : FindForm(c, name)
    \/ TrySlug(c) \/ InsertForm(c) \/ ClearAndAnswer(c)

Found(d) == FindDistribution(d) \/ InsertDistribution(d)

Visit(v) == (\E slug \in Slugs : Lookup(v, slug)) \/ Query(v) \/ Answer(v)

Next ==
    \/ \E c \in Creators : Create(c)
    \/ \E d \in Founders : Found(d)
    \/ \E v \in Visitors : Visit(v)
    \/ \E slug \in Slugs : Expire(slug)

Spec == Init /\ [][Next]_vars

(* Time passes, and requests under way run to their end.                   *)
Fairness ==
    /\ \A slug \in Slugs : WF_vars(Expire(slug))
    /\ \A v \in Visitors : WF_vars(Query(v)) /\ WF_vars(Answer(v))
    /\ \A c \in Creators : WF_vars(ClearAndAnswer(c))

FairSpec == Spec /\ Fairness

-----------------------------------------------------------------------------
TypeOK ==
    /\ forms \subseteq [by : Creators, slug : Slugs]
    /\ distributions \subseteq [by : Founders, form : Slugs]
    /\ version \in Nat
    /\ negative \in Seq([slug : Slugs, expired : BOOLEAN])
    /\ creator \in [Creators ->
          [step : {"start", "slug", "insert", "clear", "created", "refused"},
           name : DOMAIN Candidates \cup {None}, slug : Slugs \cup {None}, attempt : Nat]]
    /\ founder \in [Founders -> [step : {"start", "insert", "created", "refused"},
                                 form : Slugs \cup {None}]]
    /\ visitor \in [Visitors -> [step : {"start", "query", "answer"},
                                 slug : Slugs \cup {None}, found : BOOLEAN]]

(* INV-1 and INV-2 with racing requests: one form, one distribution on it, *)
(* exactly the request that made it answers "created", and each creation   *)
(* has moved the configuration version once.                               *)
OneOfEach ==
    /\ {c \in Creators : creator[c].step \in {"clear", "created"}} = {f.by : f \in forms}
    /\ {d \in Founders : founder[d].step = "created"} = {d.by : d \in distributions}
    /\ Cardinality(forms) <= 1 /\ Cardinality(distributions) <= 1
    /\ {d.form : d \in distributions} \subseteq {f.slug : f \in forms} \ ReservedSlugs
    /\ version = 1 + Cardinality(forms) + Cardinality(distributions)

(* The negative cache stays within its 500 entries, one per slug, whatever *)
(* lookups overlap between has and add.                                    *)
NegativeCacheBounded ==
    /\ Len(negative) <= MaxEntries
    /\ \A i, j \in DOMAIN negative : negative[i].slug = negative[j].slug => i = j

(* A form's URL resolves in the end and for good: negative-slug-cache.ts:5 *)
(* promises "immediately", which fails for a lookup that queried before the*)
(* form was there and caches its miss after the clear; that stale "not     *)
(* found" lasts one TTL.                                                   *)
ResolvesEventually ==
    \A slug \in Slugs :
        (\E f \in forms : f.slug = slug) ~> [](~Caches(slug))
=============================================================================
