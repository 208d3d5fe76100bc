----------------------------- MODULE RequestPath -----------------------------
(***************************************************************************)
(* The life of a protected request (api/deps.py, api/routes): authenticate *)
(* with a cached credential, draw on the rate limit, check the asserted    *)
(* tenant, and read documents through caches that all tenants share        *)
(* (services/cache_keys.py).  Tenants are disabled, get new keys and give  *)
(* keys to each other meanwhile.                                           *)
(*                                                                         *)
(* Time is a clock of ticks, of which only differences are kept: how long  *)
(* an entry may still live, how long a store has been on its way, and how  *)
(* long a credential has been out of date.  What DocumentCache,            *)
(* SearchCache and RateLimiter model in detail is here one entry per key   *)
(* that may be gone at any time, and a decision.                           *)
(***************************************************************************)
EXTENDS TenantRegistry, FiniteSets

CONSTANTS
    Reqs,             \* concurrent requests
    Docs,
    OwnerOf,          \* the tenant of every document
    Ranking,          \* the documents, best match first
    Targets,          \* what clients ask for
    TTL,              \* settings.tenant_cache_ttl_seconds, in ticks
    Latency,          \* how long a store to Redis may be on its way
    MaxPageSize,      \* settings.max_page_size
    MaxResultWindow,  \* settings.max_result_window
    MaxEntries        \* results that Redis holds at one time

\* GET /documents/{id}, and GET /search with its tenant parameter.  The route
\* refuses pages above 1000 and sizes above 50 before its handler runs (422);
\* the clamps hold for any, so the targets are not cut at these literals.
Get == [kind : {"get"}, doc : Docs]
Search == [kind : {"search"}, tenant : Tenants \cup {None}, page : Nat \ {0}, size : Nat \ {0}]

ASSUME PathAssumption ==
    /\ OwnerOf \in [Docs -> Tenants]
    /\ Ranking \in Seq(Docs)
    /\ \A i, j \in 1..Len(Ranking) : Ranking[i] = Ranking[j] => i = j
    /\ Targets \subseteq Get \cup Search
    /\ TTL \in Nat \ {0}
    /\ Latency \in Nat
    /\ MaxPageSize \in Nat \ {0}
    /\ MaxResultWindow \in Nat
    /\ MaxPageSize <= MaxResultWindow
    /\ None \notin Targets

VARIABLES
    credential,  \* Redis: auth:key:{hash}
    results,     \* Redis: cached documents and search results
    req          \* requests

vars == <<registry, credential, results, req>>

\* stale is history: for how long the tenant has not been the key's owner.
Credential == [tenant : Tenants, left : 1..TTL, stale : Nat]

\* A request has a key until it is accepted, a target from then on.  stale is
\* that of the credential that was accepted; wait counts while it is stored.
Request ==
    [pc : {"idle", "auth", "read", "store", "limit", "lookup", "origin", "fill", "done"},
     key : Keys \cup {None}, target : Targets \cup {None}, tenant : Tenants \cup {None},
     stale : Nat, wait : 0..Latency, code : {0, 200, 401, 403, 404, 429, 500, 503},
     docs : SUBSET Docs]
NoRequest ==
    [pc |-> "idle", key |-> None, target |-> None, tenant |-> None,
     stale |-> 0, wait |-> 0, code |-> 0, docs |-> {}]

\* The types; no entry outlives its TTL.
TypeOK ==
    /\ RegistryTypeOK
    /\ credential \in [Keys -> Credential \cup {None}]
    /\ \A r \in results : r.docs \subseteq Docs
    /\ req \in [Reqs -> Request]

Init ==
    /\ RegistryInit
    /\ credential = [k \in Keys |-> None]
    /\ results = {}
    /\ req = [r \in Reqs |-> NoRequest]

Goto(r, state) == req' = [req EXCEPT ![r].pc = state]
Answer(r, docs) ==
    req' = [req EXCEPT ![r].pc = "done", ![r].code = 200, ![r].docs = docs]

\* An error is all that the client is told, and all that is kept.
Refuse(r, code) ==
    req' = [req EXCEPT ![r] = [NoRequest EXCEPT !.pc = "done", !.code = code]]

-----------------------------------------------------------------------------
\* get_current_tenant.

Arrive(r, k) ==
    /\ req[r].pc = "idle"
    /\ req' = [req EXCEPT ![r] = [NoRequest EXCEPT !.pc = "auth", !.key = k]]
    /\ UNCHANGED <<registry, credential, results>>

ArriveWithoutKey(r) ==
    /\ req[r].pc = "idle"
    /\ Refuse(r, 401)
    /\ UNCHANGED <<registry, credential, results>>

Accept(r, t, stale) ==
    req' = [req EXCEPT ![r] = [NoRequest EXCEPT
        !.pc = "limit", !.tenant = t, !.stale = stale]]

\* Variant: a hit lets the entry live on.
AuthHitSliding(r) ==
    /\ req[r].pc = "auth"
    /\ credential[req[r].key] # None
    /\ Accept(r, credential[req[r].key].tenant, credential[req[r].key].stale)
    /\ credential' = [credential EXCEPT ![req[r].key].left = TTL]
    /\ UNCHANGED <<registry, results>>

AuthHit(r) ==
    /\ req[r].pc = "auth"
    /\ credential[req[r].key] # None
    /\ Accept(r, credential[req[r].key].tenant, credential[req[r].key].stale)
    /\ UNCHANGED <<registry, credential, results>>

\* There is no entry, or Redis does not answer.
AuthMiss(r) ==
    /\ req[r].pc = "auth"
    /\ Goto(r, "read")
    /\ UNCHANGED <<registry, credential, results>>

\* An unknown key and a disabled tenant get the same answer.  Postgres may fail.
ReadTenant(r) ==
    /\ req[r].pc = "read"
    /\ \/ Owners(registry, req[r].key) = {} /\ Refuse(r, 401)
       \/ Refuse(r, 500)
       \/ \E t \in Owners(registry, req[r].key) :
             req' = [req EXCEPT ![r].pc = "store", ![r].tenant = t]
    /\ UNCHANGED <<registry, credential, results>>

\* set_json, which Redis may refuse.
StoreTenant(r) ==
    /\ req[r].pc = "store"
    /\ \/ credential' = [credential EXCEPT ![req[r].key] =
             [tenant |-> req[r].tenant, left |-> TTL, stale |-> req[r].stale]]
       \/ UNCHANGED credential
    /\ Accept(r, req[r].tenant, req[r].stale)
    /\ UNCHANGED <<registry, results>>

-----------------------------------------------------------------------------
\* rate_limited, which RateLimiter decides, then enforce_tenant_scope in the
\* route, without an await in between.

\* The asserted tenant is not the authenticated one.
OutOfScope(tenant, target) ==
    target.kind = "search" /\ target.tenant \notin {None, tenant}

RateLimited(r) ==
    /\ req[r].pc = "limit"
    /\ Refuse(r, 429)
    /\ UNCHANGED <<registry, credential, results>>

Admit(r, target) ==
    /\ req[r].pc = "limit"
    /\ IF OutOfScope(req[r].tenant, target)
       THEN Refuse(r, 403)
       ELSE req' = [req EXCEPT ![r] = [NoRequest EXCEPT
                !.pc = "lookup", !.tenant = req[r].tenant, !.target = target]]
    /\ UNCHANGED <<registry, credential, results>>

-----------------------------------------------------------------------------
\* The page that is asked of the cluster.

Lesser(a, b) == IF a <= b THEN a ELSE b
Greater(a, b) == IF a >= b THEN a ELSE b

PageSize(target) == Lesser(target.size, MaxPageSize)

\* Variant: a page that begins inside the window may end outside it.
MaxPageRoundedUp(size) == Greater(1, (MaxResultWindow + size - 1) \div size)

MaxPage(size) == Greater(1, MaxResultWindow \div size)
Page(target) == Lesser(target.page, MaxPage(PageSize(target)))
Offset(target) == (Page(target) - 1) * PageSize(target)

\* The places of one tenant's documents among the n best matches.
Hits(tenant, n) == {i \in 1..n : OwnerOf[Ranking[i]] = tenant}

\* The search with its filter on the tenant, from the offset, up to the size.
EngineSearch(tenant, target) ==
    {Ranking[i] : i \in {h \in Hits(tenant, Len(Ranking)) :
        /\ Offset(target) < Cardinality(Hits(tenant, h))
        /\ Cardinality(Hits(tenant, h)) <= Offset(target) + PageSize(target)}}

-----------------------------------------------------------------------------
\* DocumentService.get and SearchService.search.

\* Variant: the key of a search has no page.
ResultKeyWithoutPage(tenant, target) ==
    IF target.kind = "get"
    THEN <<"doc", tenant, target.doc>>
    ELSE <<"search", tenant, PageSize(target)>>

\* Variant: the key of a document is its id.
ResultKeyUnscoped(tenant, target) ==
    IF target.kind = "get"
    THEN <<"doc", target.doc>>
    ELSE <<"search", tenant, Page(target), PageSize(target)>>

\* document_key and search_key; the query's other parameters are fixed.
ResultKey(tenant, target) ==
    IF target.kind = "get"
    THEN <<"doc", tenant, target.doc>>
    ELSE <<"search", tenant, Page(target), PageSize(target)>>

KeyOf(r) == ResultKey(req[r].tenant, req[r].target)

ResultHit(r) ==
    /\ req[r].pc = "lookup"
    /\ \E e \in results : e.key = KeyOf(r) /\ Answer(r, e.docs)
    /\ UNCHANGED <<registry, credential, results>>

ResultMiss(r) ==
    /\ req[r].pc = "lookup"
    /\ Goto(r, "origin")
    /\ UNCHANGED <<registry, credential, results>>

\* repository.get has the tenant in its predicate: another tenant's document
\* is a 404.
Origin(r) ==
    /\ req[r].pc = "origin"
    /\ LET tenant == req[r].tenant  target == req[r].target IN
       IF target.kind = "search"
       THEN req' = [req EXCEPT ![r].pc = "fill", ![r].docs = EngineSearch(tenant, target)]
       ELSE IF OwnerOf[target.doc] = tenant
            THEN req' = [req EXCEPT ![r].pc = "fill", ![r].docs = {target.doc}]
            ELSE Refuse(r, 404)
    /\ UNCHANGED <<registry, credential, results>>

\* An open breaker, or a query that fails; for a document, Postgres fails.
OriginFails(r) ==
    /\ req[r].pc = "origin"
    /\ Refuse(r, IF req[r].target.kind = "search" THEN 503 ELSE 500)
    /\ UNCHANGED <<registry, credential, results>>

\* Single flight: a search of the same process takes the answer of the one
\* that leads.  (SearchCache has who leads, who waits and when they wake up.)
Coalesce(r, q) ==
    /\ req[r].pc = "origin" /\ req[r].target.kind = "search"
    /\ req[q].pc = "fill" /\ req[q].target.kind = "search"
    /\ KeyOf(r) = KeyOf(q)
    /\ Answer(r, req[q].docs)
    /\ UNCHANGED <<registry, credential, results>>

\* set_json, unless Redis refuses; other entries may have met their TTL or be
\* evicted to make room.  (A hit is never certain: see ResultMiss.)
Fill(r) ==
    /\ req[r].pc = "fill"
    /\ \/ \E kept \in SUBSET {e \in results : e.key # KeyOf(r)} :
             /\ Cardinality(kept) < MaxEntries
             /\ results' = kept \cup {[key |-> KeyOf(r), docs |-> req[r].docs]}
       \/ UNCHANGED results
    /\ Answer(r, req[r].docs)
    /\ UNCHANGED <<registry, credential>>

-----------------------------------------------------------------------------
\* The client is done, and asks again.
Again(r) ==
    /\ req[r].pc = "done"
    /\ req' = [req EXCEPT ![r] = NoRequest]
    /\ UNCHANGED <<registry, credential, results>>

\* A credential c (of a request, of an entry) for the key k, as time passes or
\* as the table becomes rows: the owner of the key is not stale.
Staleness(rows, k, c, passed) ==
    IF c.tenant \in Owners(rows, k) THEN 0 ELSE c.stale + passed

\* Variant: an entry lives for one tick more than its TTL.
ExpiresLate(c) == c.left = 0

Expires(c) == c.left = 1

\* A tick: entries age, and end with their TTL.  A store arrives in time.
Tick ==
    /\ \A r \in Reqs : req[r].pc = "store" => req[r].wait < Latency
    /\ credential' = [k \in Keys |->
          IF credential[k] = None \/ Expires(credential[k])
          THEN None
          ELSE [tenant |-> credential[k].tenant, left |-> credential[k].left - 1,
                stale |-> Staleness(registry, k, credential[k], 1)]]
    /\ req' = [r \in Reqs |->
          IF req[r].pc # "store" THEN req[r]
          ELSE [req[r] EXCEPT !.wait = @ + 1,
                              !.stale = Staleness(registry, req[r].key, req[r], 1)]]
    /\ UNCHANGED <<registry, results>>

\* Whoever owns the key again is not stale any more.
ChangeRegistry ==
    /\ RegistryNext
    /\ credential' = [k \in Keys |->
          IF credential[k] = None THEN None
          ELSE [credential[k] EXCEPT !.stale = Staleness(registry', k, credential[k], 0)]]
    /\ req' = [r \in Reqs |->
          IF req[r].pc # "store" THEN req[r]
          ELSE [req[r] EXCEPT !.stale = Staleness(registry', req[r].key, req[r], 0)]]
    /\ UNCHANGED results

-----------------------------------------------------------------------------
Authenticate(r) ==
    \/ ArriveWithoutKey(r) \/ \E k \in Keys : Arrive(r, k)
    \/ AuthHit(r) \/ AuthMiss(r) \/ ReadTenant(r) \/ StoreTenant(r)

Handle(r) ==
    \/ RateLimited(r) \/ \E target \in Targets : Admit(r, target)
    \/ ResultHit(r) \/ ResultMiss(r) \/ Origin(r) \/ OriginFails(r) \/ Fill(r)
    \/ \E q \in Reqs : Coalesce(r, q)

Next ==
    \/ \E r \in Reqs : Authenticate(r) \/ Handle(r) \/ Again(r)
    \/ Tick
    \/ ChangeRegistry

Spec == Init /\ [][Next]_vars

-----------------------------------------------------------------------------
Answered(r, kind) == req[r].code = 200 /\ req[r].target.kind = kind

\* A request is answered with documents of the tenant it authenticated as, and
\* of the tenant it asserted: from the origin, from a cache all tenants share,
\* or from the search of somebody else.
AnswersStayInTenant ==
    \A r \in Reqs : req[r].code = 200 =>
        /\ \A d \in req[r].docs : OwnerOf[d] = req[r].tenant
        /\ Answered(r, "search") => req[r].target.tenant \in {None, req[r].tenant}

\* A key is accepted for a tenant only if it was that active tenant's key less
\* than a TTL ago, give or take a store that was on its way: a hit does not
\* prolong an entry, and a key that was handed on does not keep its old owner.
RevocationBounded == \A r \in Reqs : req[r].stale < TTL + Latency

\* Pages of one size cut a tenant's hits into pieces that do not overlap, and
\* the same page is the same hits, cached or not, whatever page or size beyond
\* the limits the client asked for.
PagesPartition ==
    \A r, q \in Reqs :
        /\ Answered(r, "search") /\ Answered(q, "search")
        /\ req[r].tenant = req[q].tenant
        /\ PageSize(req[r].target) = PageSize(req[q].target)
        => IF Page(req[r].target) = Page(req[q].target)
           THEN req[r].docs = req[q].docs
           ELSE req[r].docs \cap req[q].docs = {}

\* No query reaches beyond the result window, which the cluster would refuse.
WindowWithinLimit ==
    \A r \in Reqs :
        req[r].pc = "origin" /\ req[r].target.kind = "search" =>
            Offset(req[r].target) + PageSize(req[r].target) <= MaxResultWindow

=============================================================================
