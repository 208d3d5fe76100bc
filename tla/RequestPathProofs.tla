-------------------------- MODULE RequestPathProofs --------------------------
(***************************************************************************)
(* Proofs about the life of a protected request, for any number of         *)
(* requests, tenants, documents and keys, every TTL and latency, and every *)
(* page and size a client may ask for.                                     *)
(***************************************************************************)
EXTENDS RequestPath, FiniteSetTheorems, TLAPS

-----------------------------------------------------------------------------
\* What the fields of a request mean at each point of its life.

\* Before it is accepted a request has a key and nothing to be stale; the
\* credential on its way to Redis is out of date no longer than it has waited.
Authenticating(q) ==
    /\ q.pc \in {"auth", "read", "store"} => q.key \in Keys
    /\ q.pc \in {"auth", "read"} => q.stale = 0 /\ q.wait = 0
    /\ q.pc = "store" => q.tenant \in Tenants /\ q.stale <= q.wait
    /\ q.pc = "limit" => q.tenant \in Tenants

\* The documents are those that the tenant may have, and exactly those.
Rightful(tenant, target, docs) ==
    IF target.kind = "get"
    THEN OwnerOf[target.doc] = tenant /\ docs = {target.doc}
    ELSE docs = EngineSearch(tenant, target)

\* An admitted request is within its scope, and what it is about to store or
\* has answered is rightful.
Admitted(q) ==
    /\ q.code = 200 => q.pc = "done"
    /\ q.pc \in {"lookup", "origin", "fill"} \/ q.code = 200 =>
          q.tenant \in Tenants /\ q.target \in Targets /\ ~OutOfScope(q.tenant, q.target)
    /\ q.pc = "fill" \/ q.code = 200 => Rightful(q.tenant, q.target, q.docs)

\* Whatever is cached is what its key stands for.
ResultsRightful ==
    \A e \in results : \E tenant \in Tenants, target \in Targets :
        e.key = ResultKey(tenant, target) /\ Rightful(tenant, target, e.docs)

\* The time that an entry has left is no longer than the time that its
\* credential may go on being out of date.
EntriesBounded ==
    \A k \in Keys : credential[k] # None =>
        credential[k].left + credential[k].stale <= TTL + Latency

PathInv ==
    /\ TypeOK
    /\ EntriesBounded
    /\ RevocationBounded
    /\ ResultsRightful
    /\ \A r \in Reqs : Authenticating(req[r]) /\ Admitted(req[r])

-----------------------------------------------------------------------------
\* The pages.

\* Whole pages of size s within the window w do not reach beyond it.
LEMMA DivLemma ==
    ASSUME NEW w \in Nat, NEW s \in Nat \ {0}
    PROVE  w \div s \in Nat /\ (w \div s) * s <= w
  BY Z3

\* Page and page size after clamping are positive and inside their limits.
LEMMA PageType ==
    ASSUME NEW target \in Search
    PROVE  /\ PageSize(target) \in Nat \ {0} /\ PageSize(target) <= MaxPageSize
           /\ MaxPage(PageSize(target)) \in Nat \ {0}
           /\ Page(target) \in Nat \ {0} /\ Page(target) <= MaxPage(PageSize(target))
           /\ Offset(target) = (Page(target) - 1) * PageSize(target)
           /\ Offset(target) \in Nat
<1> DEFINE size == PageSize(target)
<1>1. size \in Nat \ {0} /\ size <= MaxPageSize
  BY PathAssumption DEF PageSize, Lesser, Search
<1>2. MaxPage(size) \in Nat \ {0}
  BY <1>1, PathAssumption, DivLemma DEF MaxPage, Greater
<1>3. Page(target) \in Nat \ {0} /\ Page(target) <= MaxPage(size)
  BY <1>2 DEF Page, Lesser, Search
<1>4. \A p, s \in Nat : p # 0 => (p - 1) * s \in Nat
  OBVIOUS
<1>. QED BY <1>1, <1>2, <1>3, <1>4 DEF Offset

\* A page that _search asks for ends within the result window.
LEMMA WindowLemma ==
    ASSUME NEW target \in Search
    PROVE  Offset(target) + PageSize(target) <= MaxResultWindow
<1> DEFINE size == PageSize(target)
           page == Page(target)
           last == MaxPage(size)
<1>1. /\ size \in Nat \ {0} /\ size <= MaxPageSize
      /\ last \in Nat \ {0} /\ page \in Nat \ {0} /\ page <= last
      /\ Offset(target) = (page - 1) * size
  BY PageType
<1>2. last * size <= MaxResultWindow
  <2>1. CASE last = 1
    BY <1>1, <2>1, PathAssumption
  <2>2. CASE last # 1
    <3>1. last = MaxResultWindow \div size
      BY <1>1, <2>2 DEF MaxPage, Greater
    <3>. QED BY <1>1, <3>1, DivLemma, PathAssumption
  <2>. QED BY <2>1, <2>2
<1>3. \A p, s \in Nat : p # 0 => (p - 1) * s + s = p * s
  OBVIOUS
<1>4. \A p, q, s \in Nat : p <= q => p * s <= q * s
  OBVIOUS
<1> HIDE DEF size, page, last
<1>5. (page - 1) * size + size = page * size /\ page * size <= last * size
  BY <1>1, <1>3, <1>4
<1>. QED BY <1>1, <1>2, <1>5, PathAssumption DEF size, page, last

\* The rank of a hit is a number.
LEMMA RankType ==
    ASSUME NEW tenant, NEW n \in Nat
    PROVE  Cardinality(Hits(tenant, n)) \in Nat
<1>1. IsFiniteSet(1..n)
  BY FS_Interval
<1>2. Hits(tenant, n) \subseteq 1..n
  BY DEF Hits
<1>. QED BY <1>1, <1>2, FS_Subset, FS_CardinalityType

\* Two pages of one size have no document in common, however the ranking
\* distributes the tenants.
LEMMA PagesDisjoint ==
    ASSUME NEW tenant, NEW a \in Search, NEW b \in Search,
           PageSize(a) = PageSize(b), Page(a) # Page(b)
    PROVE  EngineSearch(tenant, a) \cap EngineSearch(tenant, b) = {}
<1> SUFFICES ASSUME NEW d \in EngineSearch(tenant, a), d \in EngineSearch(tenant, b)
             PROVE  FALSE
  OBVIOUS
<1> DEFINE rank(i) == Cardinality(Hits(tenant, i))
           size == PageSize(a)
<1>1. PICK i \in Hits(tenant, Len(Ranking)) :
          d = Ranking[i] /\ Offset(a) < rank(i) /\ rank(i) <= Offset(a) + size
  BY DEF EngineSearch
<1>2. PICK j \in Hits(tenant, Len(Ranking)) :
          d = Ranking[j] /\ Offset(b) < rank(j) /\ rank(j) <= Offset(b) + size
  BY DEF EngineSearch
<1>3. i \in 1..Len(Ranking) /\ j \in 1..Len(Ranking)
  BY DEF Hits
<1>4. i = j
  BY <1>1, <1>2, <1>3, PathAssumption
<1>5. i \in Nat
  BY <1>3, PathAssumption
<1>6. rank(i) \in Nat
  BY <1>5, RankType
<1>7. /\ size \in Nat \ {0} /\ Page(a) \in Nat \ {0} /\ Page(b) \in Nat \ {0}
      /\ Offset(a) = (Page(a) - 1) * size /\ Offset(b) = (Page(b) - 1) * size
  BY PageType
<1>8. \A p, q, s \in Nat : p # 0 /\ p < q => (p - 1) * s + s <= (q - 1) * s
  OBVIOUS
<1> HIDE DEF rank, size
<1>9. CASE Page(a) < Page(b)
  BY <1>1, <1>2, <1>4, <1>6, <1>7, <1>8, <1>9
<1>10. CASE Page(b) < Page(a)
  BY <1>1, <1>2, <1>4, <1>6, <1>7, <1>8, <1>10
<1>. QED BY <1>7, <1>9, <1>10

\* A page holds documents of its tenant only.
LEMMA PageStaysInTenant ==
    ASSUME NEW tenant, NEW target
    PROVE  \A d \in EngineSearch(tenant, target) : d \in Docs /\ OwnerOf[d] = tenant
<1> TAKE d \in EngineSearch(tenant, target)
<1>1. PICK i \in Hits(tenant, Len(Ranking)) : d = Ranking[i]
  BY DEF EngineSearch
<1>2. i \in 1..Len(Ranking) /\ OwnerOf[Ranking[i]] = tenant
  BY DEF Hits
<1>. QED BY <1>1, <1>2, PathAssumption

\* What is rightful under a key is determined by the key: two requests that
\* share an entry of the cache, or a search, are owed the same documents.
LEMMA KeyDeterminesResult ==
    ASSUME NEW t \in Tenants, NEW u \in Tenants, NEW a \in Targets, NEW b \in Targets,
           ResultKey(t, a) = ResultKey(u, b), NEW docs, Rightful(t, a, docs)
    PROVE  Rightful(u, b, docs)
<1>1. a \in Get \cup Search /\ b \in Get \cup Search
  BY PathAssumption
<1>2. CASE a \in Get
  <2>1. ResultKey(t, a) = <<"doc", t, a.doc>> /\ b \in Get
    BY <1>1, <1>2 DEF ResultKey, Get, Search
  <2>2. ResultKey(u, b) = <<"doc", u, b.doc>>
    BY <2>1 DEF ResultKey, Get
  <2>3. <<"doc", t, a.doc>> = <<"doc", u, b.doc>>
    BY <2>1, <2>2
  <2>4. t = u /\ a.doc = b.doc
    BY <2>3
  <2>. QED BY <1>2, <2>1, <2>4 DEF Rightful, Get
<1>3. CASE a \in Search
  <2>1. ResultKey(t, a) = <<"search", t, Page(a), PageSize(a)>> /\ b \in Search
    BY <1>1, <1>3 DEF ResultKey, Get, Search
  <2>2. ResultKey(u, b) = <<"search", u, Page(b), PageSize(b)>>
    BY <2>1 DEF ResultKey, Search
  <2>3. <<"search", t, Page(a), PageSize(a)>> = <<"search", u, Page(b), PageSize(b)>>
    BY <2>1, <2>2
  <2>4. t = u /\ Page(a) = Page(b) /\ PageSize(a) = PageSize(b)
    BY <2>3
  <2>5. Offset(a) = Offset(b)
    BY <2>4 DEF Offset
  <2>6. EngineSearch(t, a) = EngineSearch(u, b)
    BY <2>4, <2>5 DEF EngineSearch
  <2>. QED BY <1>3, <2>1, <2>6 DEF Rightful, Search
<1>. QED BY <1>1, <1>2, <1>3

\* A rightful result has documents of its tenant only.
LEMMA RightfulType ==
    ASSUME NEW t, NEW a \in Targets, NEW docs, Rightful(t, a, docs)
    PROVE  docs \subseteq Docs /\ \A d \in docs : OwnerOf[d] = t
<1>1. a \in Get \cup Search
  BY PathAssumption
<1>2. CASE a \in Get
  BY <1>2 DEF Rightful, Get
<1>3. CASE a \in Search
  BY <1>3, PageStaysInTenant DEF Rightful, Search
<1>. QED BY <1>1, <1>2, <1>3

-----------------------------------------------------------------------------
\* The table keeps its type, whoever writes it.
LEMMA RegistryTypeStep == RegistryTypeOK /\ RegistryNext => RegistryTypeOK'
<1> SUFFICES ASSUME RegistryTypeOK, RegistryNext PROVE RegistryTypeOK'
  OBVIOUS
<1>1. ASSUME NEW c \in Configs, Provision(c) PROVE RegistryTypeOK'
  <2>1. PICK w \in WritesOf(c) : registry' = Written(w)
    BY <1>1 DEF Provision
  <2>2. w \in [Tenants -> Keys \cup {None}]
    BY DEF WritesOf
  <2>3. ASSUME NEW t \in Tenants, w[t] # None PROVE WithKey(registry[t], w[t]) \in Tenant
    BY <2>2, <2>3 DEF WithKey, Tenant, RegistryTypeOK
  <2>. QED BY <2>1, <2>2, <2>3 DEF Written, RegistryTypeOK
<1>2. ASSUME NEW t \in Tenants, SetStatus(t) PROVE RegistryTypeOK'
  BY <1>2 DEF SetStatus, RegistryTypeOK, Tenant
<1>. QED BY <1>1, <1>2 DEF RegistryNext

\* A new staleness is a number, and grows by no more than the time passed.
LEMMA StalenessType ==
    ASSUME NEW rows, NEW k, NEW c, NEW passed \in Nat, c.stale \in Nat
    PROVE  Staleness(rows, k, c, passed) \in Nat /\ Staleness(rows, k, c, passed) <= c.stale + passed
  BY DEF Staleness

-----------------------------------------------------------------------------
\* All that the invariant says of one request.
Good(q) ==
    /\ q \in Request
    /\ q.stale < TTL + Latency
    /\ Authenticating(q)
    /\ Admitted(q)

\* The invariant, for one request.
LEMMA GoodRequests == PathInv => \A r \in Reqs : Good(req[r])
  BY DEF PathInv, TypeOK, RevocationBounded, Good

\* A step of the request r alone keeps the invariant if r stays good.
LEMMA OneRequest ==
    ASSUME PathInv, NEW r \in Reqs, NEW q, Good(q), req' = [req EXCEPT ![r] = q],
           UNCHANGED <<registry, credential, results>>
    PROVE  PathInv'
<1>1. req' \in [Reqs -> Request] /\ \A s \in Reqs : Good(req'[s])
  BY GoodRequests DEF PathInv, TypeOK, Good
<1>. QED BY <1>1 DEF PathInv, Good, TypeOK, RegistryTypeOK, EntriesBounded, RevocationBounded,
       ResultsRightful

\* A request that waits, one that was refused, and one that was accepted.
LEMMA GoodIdle == Good(NoRequest)
  BY PathAssumption, RegistryAssumption
     DEF Good, NoRequest, Request, Authenticating, Admitted

Refused(code) == [NoRequest EXCEPT !.pc = "done", !.code = code]

\* A request that was refused has no answer that could leak.
LEMMA GoodRefused ==
    ASSUME NEW code \in {401, 403, 404, 429, 500, 503}
    PROVE  Good(Refused(code))
<1> DEFINE ended == [NoRequest EXCEPT !.pc = "done"]
           q == [ended EXCEPT !.code = code]
<1>1. ended \in Request /\ ended.pc = "done" /\ ended.stale = 0
  BY GoodIdle DEF Good, Request, NoRequest
<1>2. Refused(code) = q
  BY DEF Refused
<1> HIDE DEF ended
<1>3. q \in Request /\ q.pc = "done" /\ q.stale = 0 /\ q.code = code
  BY <1>1 DEF Request
<1> HIDE DEF q
<1>4. Good(q)
  BY <1>3, PathAssumption DEF Good, Authenticating, Admitted
<1>. QED BY <1>2, <1>4

\* Refusing a request keeps the invariant.
LEMMA RefusedStep ==
    ASSUME PathInv, NEW r \in Reqs, NEW code \in {401, 403, 404, 429, 500, 503}, Refuse(r, code),
           UNCHANGED <<registry, credential, results>>
    PROVE  PathInv'
<1>1. Good(Refused(code))
  BY GoodRefused
<1>2. req' = [req EXCEPT ![r] = Refused(code)]
  BY DEF Refuse, Refused
<1>. QED BY <1>1, <1>2, OneRequest

\* A request whose credential is young enough may go on.
LEMMA GoodAccepted ==
    ASSUME NEW t \in Tenants, NEW stale \in Nat, stale < TTL + Latency
    PROVE  Good([NoRequest EXCEPT !.pc = "limit", !.tenant = t, !.stale = stale])
<1> DEFINE known == [NoRequest EXCEPT !.tenant = t]
           fresh == [known EXCEPT !.pc = "limit"]
           q == [fresh EXCEPT !.stale = stale]
<1>1. known \in Request /\ known.tenant = t /\ known.code = 0
  BY GoodIdle DEF Good, Request, NoRequest
<1>2. [NoRequest EXCEPT !.pc = "limit", !.tenant = t, !.stale = stale] = q
  OBVIOUS
<1> HIDE DEF known
<1>3. fresh \in Request /\ fresh.pc = "limit" /\ fresh.tenant = t /\ fresh.code = 0
  BY <1>1 DEF Request
<1> HIDE DEF fresh
<1>4. q \in Request /\ q.pc = "limit" /\ q.tenant = t /\ q.code = 0 /\ q.stale = stale
  BY <1>3 DEF Request
<1> HIDE DEF q
<1>5. Good(q)
  BY <1>4, PathAssumption DEF Good, Authenticating, Admitted
<1>. QED BY <1>2, <1>5

\* An admitted request, given rightful documents, is good with them.
LEMMA GoodDocs ==
    ASSUME NEW q, Good(q), q.pc \in {"lookup", "origin", "fill"},
           NEW docs, Rightful(q.tenant, q.target, docs)
    PROVE  /\ Good([q EXCEPT !.pc = "done", !.code = 200, !.docs = docs])
           /\ Good([q EXCEPT !.pc = "fill", !.docs = docs])
<1> DEFINE a == [q EXCEPT !.docs = docs]
           b == [a EXCEPT !.pc = "done"]
           answered == [b EXCEPT !.code = 200]
           filling == [a EXCEPT !.pc = "fill"]
           Same(x) == x.tenant = q.tenant /\ x.target = q.target /\ x.stale = q.stale
<1>1. q.tenant \in Tenants /\ q.target \in Targets /\ ~OutOfScope(q.tenant, q.target)
  BY DEF Good, Admitted
<1>2. docs \in SUBSET Docs
  BY <1>1, RightfulType
<1>3. a \in Request /\ a.docs = docs /\ Same(a) /\ a.code = q.code
  BY <1>2 DEF Good, Request
<1>4. /\ [q EXCEPT !.pc = "done", !.code = 200, !.docs = docs] = answered
      /\ [q EXCEPT !.pc = "fill", !.docs = docs] = filling
  OBVIOUS
<1> HIDE DEF a
<1>5. b \in Request /\ b.docs = docs /\ Same(b) /\ b.pc = "done"
  BY <1>3 DEF Request
<1>6. filling \in Request /\ filling.docs = docs /\ Same(filling) /\ filling.pc = "fill"
      /\ filling.code = q.code
  BY <1>3 DEF Request
<1> HIDE DEF b, filling
<1>7. answered \in Request /\ answered.docs = docs /\ Same(answered)
      /\ answered.pc = "done" /\ answered.code = 200
  BY <1>5 DEF Request
<1> HIDE DEF answered
<1>8. Good(answered)
  BY <1>1, <1>7 DEF Good, Authenticating, Admitted
<1>9. Good(filling)
  BY <1>1, <1>6 DEF Good, Authenticating, Admitted
<1>. QED BY <1>4, <1>8, <1>9

-----------------------------------------------------------------------------
\* Empty caches and idle requests.
LEMMA PathInit == Init => PathInv
<1> SUFFICES ASSUME Init PROVE PathInv
  OBVIOUS
<1>1. \A r \in Reqs : Good(req[r])
  BY GoodIdle DEF Init
<1>2. TypeOK
  BY GoodIdle DEF Init, TypeOK, RegistryInit, RegistryTypeOK, Good
<1>3. EntriesBounded /\ ResultsRightful
  BY DEF Init, EntriesBounded, ResultsRightful
<1>. QED BY <1>1, <1>2, <1>3 DEF PathInv, RevocationBounded, Good

\* get_current_tenant, one step per action.
LEMMA AuthenticateStep ==
    ASSUME PathInv, NEW r \in Reqs, Authenticate(r)
    PROVE  PathInv'
<1>0. Good(req[r])
  BY GoodRequests
<1>1. CASE ArriveWithoutKey(r)
  BY <1>1, RefusedStep DEF ArriveWithoutKey
<1>2. ASSUME NEW k \in Keys, Arrive(r, k) PROVE PathInv'
  <2> DEFINE arrived == [NoRequest EXCEPT !.key = k]
             q == [arrived EXCEPT !.pc = "auth"]
  <2>1. arrived \in Request /\ arrived.key = k /\ arrived.stale = 0 /\ arrived.wait = 0
        /\ arrived.code = 0
    BY GoodIdle DEF Good, Request, NoRequest
  <2>2. [NoRequest EXCEPT !.pc = "auth", !.key = k] = q
    OBVIOUS
  <2> HIDE DEF arrived
  <2>3. q \in Request /\ q.key = k /\ q.stale = 0 /\ q.wait = 0 /\ q.code = 0 /\ q.pc = "auth"
    BY <2>1 DEF Request
  <2> HIDE DEF q
  <2>4. Good(q)
    BY <2>3, PathAssumption DEF Good, Authenticating, Admitted
  <2>. QED BY <1>2, <2>2, <2>4, OneRequest DEF Arrive
<1>3. CASE AuthHit(r)
  <2> DEFINE c == credential[req[r].key]
  <2>1. req[r].key \in Keys /\ c # None
    BY <1>0, <1>3 DEF AuthHit, Good, Authenticating
  <2>2. c \in Credential /\ c.left + c.stale <= TTL + Latency
    BY <2>1 DEF PathInv, TypeOK, EntriesBounded
  <2>3. c.tenant \in Tenants /\ c.stale \in Nat /\ c.stale < TTL + Latency
    BY <2>2, PathAssumption DEF Credential
  <2>. QED BY <1>3, <2>3, GoodAccepted, OneRequest DEF AuthHit, Accept
<1>4. CASE AuthMiss(r)
  <2> DEFINE q == [req[r] EXCEPT !.pc = "read"]
  <2>1. Good(q)
    BY <1>0, <1>4 DEF AuthMiss, Good, Request, Authenticating, Admitted
  <2>2. req' = [req EXCEPT ![r] = q]
    BY <1>4 DEF AuthMiss, Goto
  <2>. QED BY <1>4, <2>1, <2>2, OneRequest DEF AuthMiss
<1>5. CASE ReadTenant(r)
  <2>1. CASE Refuse(r, 401) \/ Refuse(r, 500)
    BY <1>5, <2>1, RefusedStep DEF ReadTenant
  <2>2. ASSUME NEW t \in Owners(registry, req[r].key),
               req' = [req EXCEPT ![r].pc = "store", ![r].tenant = t]
        PROVE  PathInv'
    <3> DEFINE known == [req[r] EXCEPT !.tenant = t]
               q == [known EXCEPT !.pc = "store"]
    <3>1. t \in Tenants
      BY DEF Owners
    <3>2. known \in Request /\ known.tenant = t /\ known.key \in Keys /\ known.stale = 0
          /\ known.wait = 0 /\ known.code = req[r].code
      BY <1>0, <1>5, <3>1 DEF ReadTenant, Good, Request, Authenticating
    <3>3. req' = [req EXCEPT ![r] = q]
      BY <2>2
    <3> HIDE DEF known
    <3>4. q \in Request /\ q.tenant = t /\ q.key \in Keys /\ q.stale = 0
          /\ q.wait = 0 /\ q.code = req[r].code /\ q.pc = "store"
      BY <3>2 DEF Request
    <3> HIDE DEF q
    <3>5. Good(q)
      BY <1>0, <1>5, <3>1, <3>4, PathAssumption DEF ReadTenant, Good, Authenticating, Admitted
    <3>. QED BY <1>5, <3>3, <3>5, OneRequest DEF ReadTenant
  <2>. QED BY <1>5, <2>1, <2>2 DEF ReadTenant
\* A credential that was slow on its way to Redis is the one case of an entry
\* that begins its TTL out of date.
<1>6. CASE StoreTenant(r)
  <2> DEFINE q == [NoRequest EXCEPT !.pc = "limit", !.tenant = req[r].tenant, !.stale = req[r].stale]
             c == [tenant |-> req[r].tenant, left |-> TTL, stale |-> req[r].stale]
  <2>1. /\ req[r].key \in Keys /\ req[r].tenant \in Tenants /\ req[r].stale \in Nat
        /\ req[r].stale <= Latency /\ req[r].stale < TTL + Latency
    BY <1>0, <1>6, PathAssumption DEF StoreTenant, Good, Authenticating, Request
  <2>2. Good(q)
    BY <2>1, GoodAccepted
  <2>3. req' = [req EXCEPT ![r] = q]
    BY <1>6 DEF StoreTenant, Accept
  <2>4. c \in Credential /\ c.left + c.stale <= TTL + Latency
    BY <2>1, PathAssumption DEF Credential
  <2>5. credential' \in {credential, [credential EXCEPT ![req[r].key] = c]}
    BY <1>6 DEF StoreTenant
  <2> HIDE DEF q, c
  <2>6. credential' \in [Keys -> Credential \cup {None}] /\ EntriesBounded'
    BY <2>1, <2>4, <2>5 DEF PathInv, TypeOK, EntriesBounded
  <2>7. req' \in [Reqs -> Request] /\ \A s \in Reqs : Good(req'[s])
    BY <2>2, <2>3, GoodRequests DEF PathInv, TypeOK, Good
  <2>. QED BY <1>6, <2>6, <2>7 DEF StoreTenant, PathInv, Good, TypeOK, RegistryTypeOK,
         RevocationBounded, ResultsRightful
<1>. QED BY <1>1, <1>2, <1>3, <1>4, <1>5, <1>6 DEF Authenticate

\* The route, one step per action.
LEMMA HandleStep ==
    ASSUME PathInv, NEW r \in Reqs, Handle(r)
    PROVE  PathInv'
<1>0. Good(req[r])
  BY GoodRequests
<1> DEFINE Admissible(q) == q.tenant \in Tenants /\ q.target \in Targets
<1>1. CASE RateLimited(r)
  BY <1>1, RefusedStep DEF RateLimited
<1>2. ASSUME NEW target \in Targets, Admit(r, target) PROVE PathInv'
  <2>1. CASE OutOfScope(req[r].tenant, target)
    BY <1>2, <2>1, RefusedStep DEF Admit
  <2>2. CASE ~OutOfScope(req[r].tenant, target)
    <3> DEFINE known == [NoRequest EXCEPT !.tenant = req[r].tenant]
               asking == [known EXCEPT !.target = target]
               q == [asking EXCEPT !.pc = "lookup"]
    <3>1. req[r].tenant \in Tenants
      BY <1>0, <1>2 DEF Admit, Good, Authenticating
    <3>2. [NoRequest EXCEPT !.pc = "lookup", !.tenant = req[r].tenant, !.target = target] = q
      OBVIOUS
    <3>3. known \in Request /\ known.tenant = req[r].tenant /\ known.stale = 0 /\ known.code = 0
      BY <3>1, GoodIdle DEF Good, Request, NoRequest
    <3> HIDE DEF known
    <3>4. asking \in Request /\ asking.tenant = req[r].tenant /\ asking.stale = 0
          /\ asking.code = 0 /\ asking.target = target
      BY <3>3 DEF Request
    <3> HIDE DEF asking
    <3>5. q \in Request /\ q.tenant = req[r].tenant /\ q.stale = 0
          /\ q.code = 0 /\ q.target = target /\ q.pc = "lookup"
      BY <3>4 DEF Request
    <3> HIDE DEF q
    <3>6. Good(q)
      BY <2>2, <3>1, <3>5, PathAssumption DEF Good, Authenticating, Admitted
    <3>. QED BY <1>2, <2>2, <3>2, <3>6, OneRequest DEF Admit
  <2>. QED BY <2>1, <2>2
\* A hit: the entry is what the key of this request stands for.
<1>3. CASE ResultHit(r)
  <2>1. PICK e \in results : e.key = KeyOf(r) /\ Answer(r, e.docs)
    BY <1>3 DEF ResultHit
  <2>2. Admissible(req[r])
    BY <1>0, <1>3 DEF ResultHit, Good, Admitted
  <2>3. PICK t \in Tenants, a \in Targets : e.key = ResultKey(t, a) /\ Rightful(t, a, e.docs)
    BY DEF PathInv, ResultsRightful
  <2>4. Rightful(req[r].tenant, req[r].target, e.docs)
    <3>1. ResultKey(t, a) = ResultKey(req[r].tenant, req[r].target)
      BY <2>1, <2>3 DEF KeyOf
    <3>. QED BY <2>2, <2>3, <3>1, KeyDeterminesResult
  <2> DEFINE q == [req[r] EXCEPT !.pc = "done", !.code = 200, !.docs = e.docs]
  <2>5. Good(q)
    BY <1>0, <1>3, <2>4, GoodDocs DEF ResultHit
  <2>6. req' = [req EXCEPT ![r] = q]
    BY <2>1 DEF Answer
  <2> HIDE DEF q
  <2>. QED BY <1>3, <2>5, <2>6, OneRequest DEF ResultHit
<1>4. CASE ResultMiss(r)
  <2> DEFINE q == [req[r] EXCEPT !.pc = "origin"]
  <2>1. Good(q)
    BY <1>0, <1>4 DEF ResultMiss, Good, Request, Authenticating, Admitted
  <2>2. req' = [req EXCEPT ![r] = q]
    BY <1>4 DEF ResultMiss, Goto
  <2>. QED BY <1>4, <2>1, <2>2, OneRequest DEF ResultMiss
<1>5. CASE Origin(r)
  <2> DEFINE tenant == req[r].tenant
             target == req[r].target
             q(docs) == [req[r] EXCEPT !.pc = "fill", !.docs = docs]
  <2>1. Admissible(req[r]) /\ target \in Get \cup Search
    BY <1>0, <1>5, PathAssumption DEF Origin, Good, Admitted
  <2>2. CASE target.kind = "search"
    <3>1. Rightful(tenant, target, EngineSearch(tenant, target))
      BY <2>2 DEF Rightful
    <3>2. Good(q(EngineSearch(tenant, target)))
      BY <1>0, <1>5, <3>1, GoodDocs DEF Origin
    <3>3. req' = [req EXCEPT ![r] = q(EngineSearch(tenant, target))]
      BY <1>5, <2>2 DEF Origin
    <3>. QED BY <1>5, <3>2, <3>3, OneRequest DEF Origin
  <2>3. CASE target.kind # "search" /\ OwnerOf[target.doc] = tenant
    <3>1. Rightful(tenant, target, {target.doc})
      BY <2>1, <2>3 DEF Rightful, Get, Search
    <3>2. Good(q({target.doc}))
      BY <1>0, <1>5, <3>1, GoodDocs DEF Origin
    <3>3. req' = [req EXCEPT ![r] = q({target.doc})]
      BY <1>5, <2>3 DEF Origin
    <3>. QED BY <1>5, <3>2, <3>3, OneRequest DEF Origin
  <2>4. CASE target.kind # "search" /\ OwnerOf[target.doc] # tenant
    BY <1>5, <2>4, RefusedStep DEF Origin
  <2>. QED BY <2>2, <2>3, <2>4
<1>6. CASE OriginFails(r)
  BY <1>6, RefusedStep DEF OriginFails
<1>7. CASE Fill(r)
  <2> DEFINE q == [req[r] EXCEPT !.pc = "done", !.code = 200, !.docs = req[r].docs]
             e == [key |-> KeyOf(r), docs |-> req[r].docs]
  <2>1. Admissible(req[r]) /\ Rightful(req[r].tenant, req[r].target, req[r].docs)
    BY <1>0, <1>7 DEF Fill, Good, Admitted
  <2>2. Good(q)
    BY <1>0, <1>7, <2>1, GoodDocs DEF Fill
  <2>3. req' = [req EXCEPT ![r] = q]
    BY <1>7 DEF Fill, Answer
  <2>4. e.key = ResultKey(req[r].tenant, req[r].target) /\ e.docs = req[r].docs
    BY DEF KeyOf
  <2>5. \A x \in results' : x \in results \/ x = e
    BY <1>7 DEF Fill
  <2> HIDE DEF q, e
  <2>6. req[r].docs \subseteq Docs
    BY <2>1, RightfulType
  <2>7. ResultsRightful' /\ \A x \in results' : x.docs \subseteq Docs
    BY <2>1, <2>4, <2>5, <2>6 DEF PathInv, TypeOK, ResultsRightful
  <2>8. req' \in [Reqs -> Request] /\ \A s \in Reqs : Good(req'[s])
    BY <2>2, <2>3, GoodRequests DEF PathInv, TypeOK, Good
  <2>. QED BY <1>7, <2>7, <2>8 DEF Fill, PathInv, Good, TypeOK, RegistryTypeOK,
         RevocationBounded, EntriesBounded
\* The answer of another search is what the key of both stands for.
<1>8. ASSUME NEW s \in Reqs, Coalesce(r, s) PROVE PathInv'
  <2>1. Good(req[s])
    BY GoodRequests
  <2>2. /\ Admissible(req[r]) /\ Admissible(req[s])
        /\ Rightful(req[s].tenant, req[s].target, req[s].docs)
    BY <1>0, <1>8, <2>1 DEF Coalesce, Good, Admitted
  <2>3. Rightful(req[r].tenant, req[r].target, req[s].docs)
    BY <1>8, <2>2, KeyDeterminesResult DEF Coalesce, KeyOf
  <2> DEFINE q == [req[r] EXCEPT !.pc = "done", !.code = 200, !.docs = req[s].docs]
  <2>4. Good(q)
    BY <1>0, <1>8, <2>3, GoodDocs DEF Coalesce
  <2>5. req' = [req EXCEPT ![r] = q]
    BY <1>8 DEF Coalesce, Answer
  <2> HIDE DEF q
  <2>. QED BY <1>8, <2>4, <2>5, OneRequest DEF Coalesce
<1>. QED BY <1>1, <1>2, <1>3, <1>4, <1>5, <1>6, <1>7, <1>8 DEF Handle

\* A tick takes one from what an entry has left and adds at most one to how
\* long it is out of date, and counts against a store that is on its way.
LEMMA TickStep == PathInv /\ Tick => PathInv'
<1> SUFFICES ASSUME PathInv, Tick PROVE PathInv'
  OBVIOUS
<1>1. ASSUME NEW k \in Keys
      PROVE  /\ credential'[k] \in Credential \cup {None}
             /\ credential'[k] # None => credential'[k].left + credential'[k].stale <= TTL + Latency
  <2> DEFINE c == credential[k]
             d == Staleness(registry, k, c, 1)
  <2>1. CASE c = None \/ Expires(c)
    BY <2>1 DEF Tick
  <2>2. CASE ~(c = None \/ Expires(c))
    <3>1. c \in Credential /\ c.left + c.stale <= TTL + Latency
      BY <2>2 DEF PathInv, TypeOK, EntriesBounded
    <3>2. c.tenant \in Tenants /\ c.left \in 1..TTL /\ c.left # 1 /\ c.stale \in Nat
      BY <2>2, <3>1 DEF Credential, Expires
    <3>3. d \in Nat /\ d <= c.stale + 1
      BY <3>2, StalenessType
    <3>4. credential'[k] = [tenant |-> c.tenant, left |-> c.left - 1, stale |-> d]
      BY <2>2 DEF Tick
    <3> HIDE DEF c, d
    <3>. QED BY <3>1, <3>2, <3>3, <3>4, PathAssumption DEF Credential
  <2>. QED BY <2>1, <2>2
<1>2. ASSUME NEW r \in Reqs PROVE Good(req'[r])
  <2>0. Good(req[r])
    BY GoodRequests
  <2>1. CASE req[r].pc # "store"
    BY <2>0, <2>1 DEF Tick
  <2>2. CASE req[r].pc = "store"
    <3> DEFINE d == Staleness(registry, req[r].key, req[r], 1)
               later == req[r].wait + 1
               w == [req[r] EXCEPT !.wait = later]
               q == [w EXCEPT !.stale = d]
    <3>1. req[r].wait < Latency
      BY <2>2 DEF Tick
    <3>2. req[r].stale \in Nat /\ req[r].wait \in Nat /\ req[r].stale <= req[r].wait
          /\ req[r].key \in Keys /\ req[r].tenant \in Tenants
      BY <2>0, <2>2, PathAssumption DEF Good, Request, Authenticating
    <3>3. d \in Nat /\ d <= req[r].stale + 1
      BY <3>2, StalenessType
    <3>4. req'[r] = q
      BY <2>2 DEF Tick
    <3>5. later \in 0..Latency
      BY <3>1, <3>2, PathAssumption
    <3> HIDE DEF later
    <3>6. w \in Request /\ w.wait = later /\ w.pc = "store" /\ w.key \in Keys
          /\ w.tenant \in Tenants /\ w.code = req[r].code
      BY <2>0, <2>2, <3>2, <3>5 DEF Good, Request
    <3> HIDE DEF d, w
    <3>7. q \in Request /\ q.wait = later /\ q.pc = "store" /\ q.key \in Keys
          /\ q.tenant \in Tenants /\ q.code = req[r].code /\ q.stale = d
      BY <3>3, <3>6 DEF Request
    <3> HIDE DEF q
    <3>8. q.stale <= q.wait /\ q.stale < TTL + Latency
      BY <3>1, <3>2, <3>3, <3>7, PathAssumption DEF later
    <3>9. q.code # 200
      BY <2>0, <2>2, <3>7 DEF Good, Admitted
    <3>10. Good(q)
      BY <3>7, <3>8, <3>9 DEF Good, Authenticating, Admitted
    <3>. QED BY <3>4, <3>10
  <2>. QED BY <2>1, <2>2
<1>3. credential' \in [Keys -> Credential \cup {None}] /\ EntriesBounded'
  BY <1>1 DEF Tick, EntriesBounded
<1>4. req' \in [Reqs -> Request]
  BY <1>2 DEF Tick, Good
<1>. QED BY <1>2, <1>3, <1>4 DEF Tick, PathInv, Good, TypeOK, RegistryTypeOK,
       RevocationBounded, ResultsRightful

\* A change of the table makes credentials current again, never older.
LEMMA ChangeRegistryStep == PathInv /\ ChangeRegistry => PathInv'
<1> SUFFICES ASSUME PathInv, ChangeRegistry PROVE PathInv'
  OBVIOUS
<1>1. ASSUME NEW k \in Keys
      PROVE  /\ credential'[k] \in Credential \cup {None}
             /\ credential'[k] # None => credential'[k].left + credential'[k].stale <= TTL + Latency
  <2> DEFINE c == credential[k]
             d == Staleness(registry', k, c, 0)
  <2>1. CASE c = None
    BY <2>1 DEF ChangeRegistry
  <2>2. CASE c # None
    <3>1. c \in Credential /\ c.left + c.stale <= TTL + Latency
      BY <2>2 DEF PathInv, TypeOK, EntriesBounded
    <3>2. c.tenant \in Tenants /\ c.left \in 1..TTL /\ c.stale \in Nat
      BY <2>2, <3>1 DEF Credential
    <3>3. d \in Nat /\ d <= c.stale
      BY <3>2, StalenessType
    <3>4. credential'[k] = [c EXCEPT !.stale = d]
      BY <2>2 DEF ChangeRegistry
    <3> HIDE DEF c, d
    <3>. QED BY <3>1, <3>2, <3>3, <3>4, PathAssumption DEF Credential
  <2>. QED BY <2>1, <2>2
<1>2. ASSUME NEW r \in Reqs PROVE Good(req'[r])
  <2>0. Good(req[r])
    BY GoodRequests
  <2>1. CASE req[r].pc # "store"
    BY <2>0, <2>1 DEF ChangeRegistry
  <2>2. CASE req[r].pc = "store"
    <3> DEFINE d == Staleness(registry', req[r].key, req[r], 0)
               q == [req[r] EXCEPT !.stale = d]
    <3>1. req[r].stale \in Nat
      BY <2>0, PathAssumption DEF Good, Request
    <3>2. d \in Nat /\ d <= req[r].stale
      BY <3>1, StalenessType
    <3>3. req'[r] = q
      BY <2>2 DEF ChangeRegistry
    <3> HIDE DEF d
    <3>4. q \in Request /\ q.stale = d /\ q.wait = req[r].wait /\ q.pc = "store"
          /\ q.key = req[r].key /\ q.tenant = req[r].tenant /\ q.code = req[r].code
      BY <2>0, <2>2, <3>2 DEF Good, Request
    <3> HIDE DEF q
    <3>5. q.wait \in Nat /\ req[r].stale <= q.wait /\ req[r].stale < TTL + Latency
          /\ q.key \in Keys /\ q.tenant \in Tenants /\ q.code # 200
      BY <2>0, <2>2, <3>4, PathAssumption DEF Good, Request, Authenticating, Admitted
    <3>6. q.stale <= q.wait /\ q.stale < TTL + Latency
      BY <3>1, <3>2, <3>4, <3>5, PathAssumption
    <3>7. Good(q)
      BY <3>4, <3>5, <3>6 DEF Good, Authenticating, Admitted
    <3>. QED BY <3>3, <3>7
  <2>. QED BY <2>1, <2>2
<1>3. credential' \in [Keys -> Credential \cup {None}] /\ EntriesBounded'
  BY <1>1 DEF ChangeRegistry, EntriesBounded
<1>4. req' \in [Reqs -> Request]
  BY <1>2 DEF ChangeRegistry, Good
<1>5. RegistryTypeOK'
  BY RegistryTypeStep DEF ChangeRegistry, PathInv, TypeOK
<1>. QED BY <1>2, <1>3, <1>4, <1>5 DEF ChangeRegistry, PathInv, Good, TypeOK,
       RevocationBounded, ResultsRightful

\* One case per action.
LEMMA PathStep == PathInv /\ [Next]_vars => PathInv'
<1> SUFFICES ASSUME PathInv, [Next]_vars PROVE PathInv'
  OBVIOUS
<1>1. ASSUME NEW r \in Reqs, Again(r) PROVE PathInv'
  BY <1>1, GoodIdle, OneRequest DEF Again
<1>2. CASE UNCHANGED vars
  <2>1. \A r \in Reqs : Good(req'[r])
    BY <1>2, GoodRequests DEF vars
  <2>. QED BY <1>2, <2>1 DEF vars, PathInv, Good, TypeOK, RegistryTypeOK, EntriesBounded,
         RevocationBounded, ResultsRightful
<1>. QED BY <1>1, <1>2, AuthenticateStep, HandleStep, TickStep, ChangeRegistryStep DEF Next

\* The invariant holds in every reachable state.
LEMMA PathInvariant == Spec => []PathInv
  BY PathInit, PathStep, PTL DEF Spec

-----------------------------------------------------------------------------
\* The types: no entry outlives its TTL, no store is longer on its way than
\* the latency, and what is cached and answered is documents.
THEOREM PathTypeCorrect == Spec => []TypeOK
<1>1. PathInv => TypeOK
  BY DEF PathInv
<1>. QED BY <1>1, PathInvariant, PTL

\* Whatever the caches that all tenants share hold, and whoever leads a
\* search, a request is answered with documents of its own tenant.
THEOREM AnswersStayInTenantHolds == Spec => []AnswersStayInTenant
<1>1. ASSUME PathInv PROVE AnswersStayInTenant
  <2> SUFFICES ASSUME NEW r \in Reqs, req[r].code = 200
               PROVE  /\ \A d \in req[r].docs : OwnerOf[d] = req[r].tenant
                      /\ Answered(r, "search") => req[r].target.tenant \in {None, req[r].tenant}
    BY DEF AnswersStayInTenant
  <2>1. /\ req[r].target \in Targets /\ ~OutOfScope(req[r].tenant, req[r].target)
        /\ Rightful(req[r].tenant, req[r].target, req[r].docs)
    BY <1>1 DEF PathInv, Admitted
  <2>2. \A d \in req[r].docs : OwnerOf[d] = req[r].tenant
    BY <2>1, RightfulType
  <2>. QED BY <2>1, <2>2 DEF OutOfScope, Answered
<1>. QED BY <1>1, PathInvariant, PTL

\* However long a credential is cached, looked up and stored anew, nobody is
\* accepted a TTL (and the latency of a store) after the key was taken away.
THEOREM RevocationBoundedHolds == Spec => []RevocationBounded
<1>1. PathInv => RevocationBounded
  BY DEF PathInv
<1>. QED BY <1>1, PathInvariant, PTL

\* Pages of one size neither overlap nor differ from themselves, cached or
\* not, for every ranking of the documents.
THEOREM PagesPartitionHolds == Spec => []PagesPartition
<1>1. ASSUME PathInv PROVE PagesPartition
  <2> SUFFICES ASSUME NEW r \in Reqs, NEW q \in Reqs,
                      Answered(r, "search"), Answered(q, "search"),
                      req[r].tenant = req[q].tenant,
                      PageSize(req[r].target) = PageSize(req[q].target)
               PROVE  IF Page(req[r].target) = Page(req[q].target)
                      THEN req[r].docs = req[q].docs
                      ELSE req[r].docs \cap req[q].docs = {}
    BY DEF PagesPartition
  <2> DEFINE t == req[r].tenant  a == req[r].target  b == req[q].target
  <2>1. /\ a \in Targets /\ b \in Targets /\ a.kind = "search" /\ b.kind = "search"
        /\ Rightful(t, a, req[r].docs) /\ Rightful(t, b, req[q].docs)
    BY <1>1 DEF PathInv, Admitted, Answered
  <2>2. a \in Search /\ b \in Search
    BY <2>1, PathAssumption DEF Get, Search
  <2>3. req[r].docs = EngineSearch(t, a) /\ req[q].docs = EngineSearch(t, b)
    BY <2>1 DEF Rightful
  <2> HIDE DEF t, a, b
  <2>4. CASE Page(a) = Page(b)
    <3>1. Offset(a) = Offset(b) /\ PageSize(a) = PageSize(b)
      BY <2>4 DEF Offset, a, b
    <3>2. EngineSearch(t, a) = EngineSearch(t, b)
      BY <3>1 DEF EngineSearch
    <3>. QED BY <2>3, <2>4, <3>2 DEF a, b
  <2>5. CASE Page(a) # Page(b)
    <3>1. EngineSearch(t, a) \cap EngineSearch(t, b) = {}
      BY <2>2, <2>5, PagesDisjoint DEF a, b
    <3>. QED BY <2>3, <2>5, <3>1 DEF a, b
  <2>. QED BY <2>4, <2>5
<1>. QED BY <1>1, PathInvariant, PTL

\* No query asks for more than the result window, whatever page and size the
\* client gave and whatever the limits are.
THEOREM WindowWithinLimitHolds == Spec => []WindowWithinLimit
<1>1. ASSUME PathInv PROVE WindowWithinLimit
  <2> SUFFICES ASSUME NEW r \in Reqs, req[r].pc = "origin", req[r].target.kind = "search"
               PROVE  Offset(req[r].target) + PageSize(req[r].target) <= MaxResultWindow
    BY DEF WindowWithinLimit
  <2>1. req[r].target \in Targets
    BY <1>1 DEF PathInv, Admitted
  <2>2. req[r].target \in Search
    BY <2>1, PathAssumption DEF Get, Search
  <2>. QED BY <2>2, WindowLemma
<1>. QED BY <1>1, PathInvariant, PTL

=============================================================================
