-------------------------- MODULE SearchCacheProofs --------------------------
(***************************************************************************)
(* Proofs about the cache of search results, for any number of searches,   *)
(* replicas, writes and bumps, and whichever calls fail: the bookkeeping   *)
(* of the single flight, and that settled writes are seen unless one of    *)
(* the three excused failures undid the invalidation.                      *)
(***************************************************************************)
EXTENDS SearchCache, TLAPS

\* A search that knows its generation and has no answer yet.
Active == {"lookup", "execute", "store", "wait"}
Leading == {"execute", "store"}

\* Every INCR of the worker follows a write of its own.
GenBound == gen + (IF writer = "bump" THEN 1 ELSE 0) <= written + bumps

\* A leader is registered in its process under its generation.
LeadersRegistered ==
    \A s \in Searches : search[s].pc \in Leading =>
        inflight[ReplicaOf[s]][search[s].gen] = s

\* Whatever is registered leads, under that generation.
RegisteredLead ==
    \A r \in Replicas, g \in Generations : inflight[r][g] # None =>
        /\ search[inflight[r][g]].pc \in Leading
        /\ search[inflight[r][g]].gen = g
        /\ ReplicaOf[inflight[r][g]] = r

\* A search waits for one that leads under its generation, or has ended.
WaitersFollow ==
    \A s \in Searches : search[s].pc = "wait" =>
        /\ search[s].leader \in Searches
        /\ search[search[s].leader].pc \in Leading \cup {"answered", "failed", "cancelled"}
        /\ search[search[s].leader].pc \in Leading =>
              search[search[s].leader].gen = search[s].gen

FlightInv ==
    /\ TypeOK
    /\ GenBound
    /\ LeadersRegistered
    /\ RegisteredLead
    /\ WaitersFollow

-----------------------------------------------------------------------------
\* Nothing is known about a generation that has not begun, and everything
\* stored under the current one reflects all that is settled.
CurrentIsFresh ==
    /\ settled <= written
    /\ \A g \in Generations : g > gen => cache[g] = None
    /\ cache[gen] # None => cache[gen] >= settled
    /\ \A t \in Searches : search[t].pc = "store" /\ search[t].gen = gen =>
          search[t].result >= settled

\* A search is owed no more than is settled, and what it may be given under
\* its generation is what it is owed, however old the generation is by now.
OwedIsStored ==
    \A s \in Searches : search[s].pc \in Active =>
        /\ search[s].gen <= gen
        /\ search[s].floor <= settled
        /\ cache[search[s].gen] # None => cache[search[s].gen] >= search[s].floor
        /\ \A t \in Searches : search[t].pc = "store" /\ search[t].gen = search[s].gen =>
              search[t].result >= search[s].floor

OwedIsAnswered ==
    \A s \in Searches :
        /\ search[s].pc = "wait" /\ search[search[s].leader].pc = "answered" =>
              search[search[s].leader].result >= search[s].floor
        /\ search[s].pc = "answered" => search[s].result >= search[s].floor

Fresh == ~excused => CurrentIsFresh /\ OwedIsStored /\ OwedIsAnswered

SearchInv == FlightInv /\ Fresh

-----------------------------------------------------------------------------
\* The records of searches and what a step does to them.

SearchState ==
    [pc : {"new", "lookup", "execute", "store", "wait", "answered", "failed", "cancelled"},
     gen : Generations, leader : Searches \cup {None}, result : Result, floor : Result]

\* The search s takes a step, the others do not.
Moves(s) ==
    /\ search' \in [Searches -> SearchState]
    /\ \A t \in Searches : t # s => search'[t] = search[t]

\* The first generation and the empty result.
LEMMA ZeroTypes == 0 \in Generations /\ 0 \in Result
  BY SearchAssumption DEF Generations, Result

\* What ending a search changes in it.
LEMMA FinishFields ==
    ASSUME TypeOK, NEW s \in Searches, NEW how \in {"answered", "failed", "cancelled"},
           NEW result \in Result, Finish(s, how, result)
    PROVE  /\ Moves(s) /\ search'[s].pc = how /\ search'[s].result = result
           /\ search'[s].floor = search[s].floor
<1> DEFINE x == [NoSearch EXCEPT !.floor = search[s].floor]
           y == [x EXCEPT !.result = result]
           z == [y EXCEPT !.pc = how]
<1>1. search \in [Searches -> SearchState] /\ search[s].floor \in Result
  BY DEF TypeOK, SearchState
<1>2. search' = [search EXCEPT ![s] = z]
  BY DEF Finish
<1>3. x \in SearchState /\ x.floor = search[s].floor
  BY <1>1, ZeroTypes DEF NoSearch, SearchState
<1> HIDE DEF x
<1>4. y \in SearchState /\ y.floor = search[s].floor /\ y.result = result
  BY <1>3 DEF SearchState
<1> HIDE DEF y
<1>5. z \in SearchState /\ z.floor = search[s].floor /\ z.result = result /\ z.pc = how
  BY <1>4 DEF SearchState
<1> HIDE DEF z
<1>. QED BY <1>1, <1>2, <1>5 DEF Moves

\* What beginning a search changes in it.
LEMMA BeginFields ==
    ASSUME TypeOK, NEW s \in Searches, NEW g \in Generations, NEW floor \in Result,
           search' = [search EXCEPT ![s] =
               [NoSearch EXCEPT !.pc = "lookup", !.gen = g, !.floor = floor]]
    PROVE  /\ Moves(s) /\ search'[s].pc = "lookup" /\ search'[s].gen = g
           /\ search'[s].floor = floor
<1> DEFINE x == [NoSearch EXCEPT !.floor = floor]
           y == [x EXCEPT !.gen = g]
           z == [y EXCEPT !.pc = "lookup"]
<1>1. search \in [Searches -> SearchState]
  BY DEF TypeOK, SearchState
<1>2. search' = [search EXCEPT ![s] = z]
  OBVIOUS
<1>3. x \in SearchState /\ x.floor = floor
  BY ZeroTypes DEF NoSearch, SearchState
<1> HIDE DEF x
<1>4. y \in SearchState /\ y.floor = floor /\ y.gen = g
  BY <1>3 DEF SearchState
<1> HIDE DEF y
<1>5. z \in SearchState /\ z.floor = floor /\ z.gen = g /\ z.pc = "lookup"
  BY <1>4 DEF SearchState
<1> HIDE DEF z
<1>. QED BY <1>1, <1>2, <1>5 DEF Moves

\* A step to another point of the search.
LEMMA PcFields ==
    ASSUME TypeOK, NEW s \in Searches, NEW pc \in {"execute"},
           search' = [search EXCEPT ![s].pc = pc]
    PROVE  /\ Moves(s) /\ search'[s].pc = pc /\ search'[s].gen = search[s].gen
           /\ search'[s].floor = search[s].floor
  BY DEF TypeOK, SearchState, Moves

\* A registered leader is a search.
LEMMA LeaderType ==
    ASSUME TypeOK, NEW r \in Replicas, NEW g \in Generations
    PROVE  inflight[r][g] \in Searches \cup {None} /\ None \notin Searches
  BY SearchAssumption DEF TypeOK

\* What joining a leader changes in a search.
LEMMA JoinFields ==
    ASSUME TypeOK, NEW s \in Searches, NEW leader \in Searches,
           search' = [search EXCEPT ![s].pc = "wait", ![s].leader = leader]
    PROVE  /\ Moves(s) /\ search'[s].pc = "wait" /\ search'[s].leader = leader
           /\ search'[s].gen = search[s].gen /\ search'[s].floor = search[s].floor
<1> DEFINE y == [search[s] EXCEPT !.leader = leader]
           z == [y EXCEPT !.pc = "wait"]
<1>1. search \in [Searches -> SearchState]
  BY DEF TypeOK, SearchState
<1>2. search' = [search EXCEPT ![s] = z]
  OBVIOUS
<1>3. y \in SearchState /\ y.leader = leader /\ y.gen = search[s].gen /\ y.floor = search[s].floor
  BY <1>1 DEF SearchState
<1> HIDE DEF y
<1>4. z \in SearchState /\ z.pc = "wait" /\ z.leader = leader /\ z.gen = search[s].gen
      /\ z.floor = search[s].floor
  BY <1>3 DEF SearchState
<1> HIDE DEF z
<1>. QED BY <1>1, <1>2, <1>4 DEF Moves

\* What the answer of the engine changes in a search.
LEMMA ExecuteFields ==
    ASSUME TypeOK, NEW s \in Searches,
           search' = [search EXCEPT ![s].pc = "store", ![s].result = visible]
    PROVE  /\ Moves(s) /\ search'[s].pc = "store" /\ search'[s].result = visible
           /\ search'[s].gen = search[s].gen /\ search'[s].floor = search[s].floor
<1> DEFINE y == [search[s] EXCEPT !.result = visible]
           z == [y EXCEPT !.pc = "store"]
<1>1. search \in [Searches -> SearchState] /\ visible \in Result
  BY DEF TypeOK, SearchState
<1>2. search' = [search EXCEPT ![s] = z]
  OBVIOUS
<1>3. y \in SearchState /\ y.result = visible /\ y.gen = search[s].gen /\ y.floor = search[s].floor
  BY <1>1 DEF SearchState
<1> HIDE DEF y
<1>4. z \in SearchState /\ z.pc = "store" /\ z.result = visible /\ z.gen = search[s].gen
      /\ z.floor = search[s].floor
  BY <1>3 DEF SearchState
<1> HIDE DEF z
<1>. QED BY <1>1, <1>2, <1>4 DEF Moves

\* A leader that ends takes its own registration away and no other.
LEMMA PopFields ==
    ASSUME TypeOK, NEW s \in Searches, Pop(s)
    PROVE  /\ inflight' \in [Replicas -> [Generations -> Searches \cup {None}]]
           /\ \A r \in Replicas, g \in Generations :
                 inflight'[r][g] = IF r = ReplicaOf[s] /\ g = search[s].gen THEN None
                                   ELSE inflight[r][g]
<1>1. ReplicaOf[s] \in Replicas /\ search[s].gen \in Generations
  BY SearchAssumption DEF TypeOK
<1>. QED BY <1>1 DEF TypeOK, Pop

-----------------------------------------------------------------------------
\* The single flight.

\* A leader ends and takes its registration along.
LEMMA LeaderEnds ==
    ASSUME FlightInv, NEW s \in Searches, search[s].pc \in Leading, Moves(s), Pop(s),
           search'[s].pc \in {"answered", "failed", "cancelled"}
    PROVE  LeadersRegistered' /\ RegisteredLead' /\ WaitersFollow'
<1> USE DEF FlightInv
<1>1. \A t \in Searches : ReplicaOf[t] \in Replicas /\ search[t].gen \in Generations
  BY SearchAssumption DEF TypeOK
<1>2. \A r \in Replicas, g \in Generations :
         inflight'[r][g] = IF r = ReplicaOf[s] /\ g = search[s].gen THEN None ELSE inflight[r][g]
  BY PopFields
<1>3. inflight[ReplicaOf[s]][search[s].gen] = s
  BY DEF LeadersRegistered
<1>4. LeadersRegistered'
  BY <1>1, <1>2, <1>3 DEF LeadersRegistered, Moves, Leading
<1>5. RegisteredLead'
  <2> SUFFICES ASSUME NEW r \in Replicas, NEW g \in Generations, inflight'[r][g] # None
               PROVE  /\ search'[inflight'[r][g]].pc \in Leading
                      /\ search'[inflight'[r][g]].gen = g
                      /\ ReplicaOf[inflight'[r][g]] = r
    BY DEF RegisteredLead
  <2>1. inflight'[r][g] = inflight[r][g] /\ ~(r = ReplicaOf[s] /\ g = search[s].gen)
    BY <1>2
  <2>2. inflight[r][g] \in Searches /\ inflight[r][g] # s
    BY <2>1, LeaderType DEF RegisteredLead
  <2>. QED BY <2>1, <2>2 DEF Moves, RegisteredLead
<1>6. WaitersFollow'
  BY DEF WaitersFollow, Moves, Leading
<1>. QED BY <1>4, <1>5, <1>6

\* A search that does not lead and is not waited for moves on, without leading.
LEMMA FollowerMoves ==
    ASSUME FlightInv, NEW s \in Searches, search[s].pc \in {"new", "lookup", "wait"}, Moves(s),
           inflight' = inflight, search'[s].pc \notin Leading,
           search'[s].pc = "wait" =>
               /\ search'[s].leader \in Searches
               /\ search[search'[s].leader].pc \in Leading
               /\ search[search'[s].leader].gen = search'[s].gen
    PROVE  LeadersRegistered' /\ RegisteredLead' /\ WaitersFollow'
<1> USE DEF FlightInv
<1>1. LeadersRegistered'
  BY DEF LeadersRegistered, Moves
<1>2. RegisteredLead'
  <2> SUFFICES ASSUME NEW r \in Replicas, NEW g \in Generations, inflight[r][g] # None
               PROVE  /\ search'[inflight[r][g]].pc \in Leading
                      /\ search'[inflight[r][g]].gen = g
                      /\ ReplicaOf[inflight[r][g]] = r
    BY DEF RegisteredLead
  <2>1. inflight[r][g] \in Searches /\ inflight[r][g] # s
    BY LeaderType DEF RegisteredLead, Leading
  <2>. QED BY <2>1 DEF Moves, RegisteredLead
<1>3. WaitersFollow'
  BY DEF WaitersFollow, Moves, Leading
<1>. QED BY <1>1, <1>2, <1>3

-----------------------------------------------------------------------------
\* The searches, one lemma per action: the single flight, then freshness.

\* The types that freshness compares.
LEMMA Numbers ==
    ASSUME TypeOK
    PROVE  /\ written \in Nat /\ visible \in Nat /\ settled \in Nat /\ gen \in Nat
           /\ gen \in Generations
           /\ \A s \in Searches : search[s].gen \in Nat /\ search[s].gen \in Generations
                                  /\ search[s].floor \in Nat /\ search[s].result \in Nat
           /\ \A g \in Generations : g \in Nat /\ (cache[g] # None => cache[g] \in Nat)
  BY SearchAssumption DEF TypeOK, Generations, Result

\* The type of a search.
LEMMA SearchStateType == TypeOK => search \in [Searches -> SearchState]
  BY DEF TypeOK, SearchState

\* A new search is owed what is settled and visible, and that is what the
\* current generation holds.
LEMMA ReadGenerationStep ==
    ASSUME SearchInv, NEW s \in Searches, ReadGeneration(s)
    PROVE  SearchInv'
<1> USE DEF SearchInv, FlightInv
<1>1. PICK g \in {gen} \cup (IF May("gen") THEN {0} ELSE {}) :
          /\ search' = [search EXCEPT ![s] =
                [NoSearch EXCEPT !.pc = "lookup", !.gen = g, !.floor = Floor]]
          /\ IF g = gen THEN UNCHANGED excused ELSE Excuse
  BY DEF ReadGeneration
<1>2. g \in Generations /\ Floor \in Result
  BY ZeroTypes DEF TypeOK, Floor
<1>3. /\ Moves(s) /\ search'[s].pc = "lookup" /\ search'[s].gen = g
      /\ search'[s].floor = Floor
  BY <1>1, <1>2, BeginFields, Zenon
<1>4. search[s].pc = "new" /\ UNCHANGED <<index, bumps, gen, cache, inflight>>
  BY DEF ReadGeneration
<1>5. TypeOK' /\ GenBound'
  BY <1>1, <1>3, <1>4 DEF TypeOK, GenBound, Moves, SearchState, index, Excuse
<1>6. LeadersRegistered' /\ RegisteredLead' /\ WaitersFollow'
  BY <1>3, <1>4, FollowerMoves DEF Leading
<1>7. ASSUME ~excused' PROVE CurrentIsFresh' /\ OwedIsStored' /\ OwedIsAnswered'
  <2>1. ~excused /\ g = gen
    BY <1>1, <1>7 DEF Excuse
  <2>2. CurrentIsFresh /\ OwedIsStored /\ OwedIsAnswered
    BY <2>1 DEF Fresh
  <2>3. Floor \in Nat /\ Floor <= settled
    BY Numbers DEF Floor
  <2>4. CurrentIsFresh'
    BY <1>3, <1>4, <2>2 DEF CurrentIsFresh, Moves, index
  <2>5. OwedIsStored'
    <3> SUFFICES ASSUME NEW u \in Searches, search'[u].pc \in Active
                 PROVE  /\ search'[u].gen <= gen
                        /\ search'[u].floor <= settled
                        /\ cache[search'[u].gen] # None => cache[search'[u].gen] >= search'[u].floor
                        /\ \A t \in Searches : search'[t].pc = "store" /\ search'[t].gen = search'[u].gen =>
                              search'[t].result >= search'[u].floor
      BY <1>4 DEF OwedIsStored, index
    <3>1. \A t \in Searches : search'[t].pc = "store" => search'[t] = search[t]
      BY <1>3 DEF Moves
    <3>2. CASE u # s
      BY <1>3, <2>2, <3>1, <3>2 DEF Moves, OwedIsStored
    <3>3. CASE u = s
      BY <1>3, <2>1, <2>2, <2>3, <3>1, <3>3, Numbers DEF CurrentIsFresh
    <3>. QED BY <3>2, <3>3
  <2>6. OwedIsAnswered'
    BY <1>3, <1>4, <2>2 DEF OwedIsAnswered, Moves, WaitersFollow, Leading
  <2>. QED BY <2>4, <2>5, <2>6
<1>. QED BY <1>5, <1>6, <1>7 DEF Fresh

\* A search ends that nobody waits for: with what it is owed, if it answers.
LEMMA FollowerEnds ==
    ASSUME SearchInv, NEW s \in Searches, search[s].pc \in {"lookup", "wait"},
           NEW how \in {"answered", "failed", "cancelled"}, NEW result \in Result,
           Finish(s, how, result),
           UNCHANGED <<index, bumps, gen, cache, inflight, excused>>,
           ~excused /\ how = "answered" => result >= search[s].floor
    PROVE  SearchInv'
<1> USE DEF SearchInv, FlightInv
<1>1. /\ Moves(s) /\ search'[s].pc = how /\ search'[s].result = result
      /\ search'[s].floor = search[s].floor
  BY FinishFields
<1>2. TypeOK' /\ GenBound'
  BY <1>1 DEF TypeOK, GenBound, Moves, SearchState, index
<1>3. LeadersRegistered' /\ RegisteredLead' /\ WaitersFollow'
  BY <1>1, FollowerMoves DEF Leading
<1>4. ASSUME ~excused' PROVE CurrentIsFresh' /\ OwedIsStored' /\ OwedIsAnswered'
  <2>1. ~excused /\ CurrentIsFresh /\ OwedIsStored /\ OwedIsAnswered
    BY <1>4 DEF Fresh
  <2>2. CurrentIsFresh'
    BY <1>1, <2>1 DEF CurrentIsFresh, Moves, index
  <2>3. OwedIsStored'
    BY <1>1, <2>1 DEF OwedIsStored, Moves, index, Active
  <2>4. OwedIsAnswered'
    BY <1>1, <2>1 DEF OwedIsAnswered, Moves, WaitersFollow, Leading
  <2>. QED BY <2>2, <2>3, <2>4
<1>. QED BY <1>2, <1>3, <1>4 DEF Fresh

\* A search answers from the cache.
LEMMA HitStep ==
    ASSUME SearchInv, NEW s \in Searches, Hit(s)
    PROVE  SearchInv'
<1>1. search[s].gen \in Generations /\ cache[search[s].gen] \in Result
  BY DEF Hit, SearchInv, FlightInv, TypeOK
<1>2. ~excused => cache[search[s].gen] >= search[s].floor
  BY DEF Hit, SearchInv, Fresh, OwedIsStored, Active
<1>. QED BY <1>1, <1>2, FollowerEnds DEF Hit

\* A waiter takes the result of its leader.
LEMMA ResumeStep ==
    ASSUME SearchInv, NEW s \in Searches, Resume(s)
    PROVE  SearchInv'
<1> DEFINE leader == search[s].leader
<1>1. leader \in Searches /\ search[s].pc = "wait"
  BY DEF Resume, SearchInv, FlightInv, WaitersFollow
<1>2. search[leader].result \in Result /\ search[leader].pc \in {"answered", "failed", "cancelled"}
  BY <1>1 DEF Resume, SearchInv, FlightInv, TypeOK
<1>3. ~excused /\ search[leader].pc = "answered" => search[leader].result >= search[s].floor
  BY <1>1 DEF SearchInv, Fresh, OwedIsAnswered
<1>. QED BY <1>1, <1>2, <1>3, FollowerEnds DEF Resume

\* A miss: the search joins the one that is registered, or registers itself.
LEMMA MissStep ==
    ASSUME SearchInv, NEW s \in Searches, Miss(s)
    PROVE  SearchInv'
<1> USE DEF SearchInv, FlightInv
<1> DEFINE r == ReplicaOf[s]
           g == search[s].gen
           leader == inflight[r][g]
<1>1. /\ search[s].pc = "lookup" /\ UNCHANGED <<index, bumps, gen, cache, excused>>
      /\ r \in Replicas /\ g \in Generations
  BY SearchAssumption DEF Miss, TypeOK
<1>2. leader \in Searches \cup {None} /\ None \notin Searches
  BY <1>1, LeaderType
<1>3. /\ Moves(s) /\ search'[s].pc \in {"wait", "execute"} /\ search'[s].gen = g
      /\ search'[s].floor = search[s].floor
      /\ search'[s].pc = "wait" => search'[s].leader = leader /\ leader # None /\ inflight' = inflight
      /\ search'[s].pc = "execute" =>
            leader = None /\ inflight' = [inflight EXCEPT ![r][g] = s]
  <2>1. CASE leader # None
    <3>1. search' = [search EXCEPT ![s].pc = "wait", ![s].leader = leader] /\ inflight' = inflight
      BY <2>1 DEF Miss
    <3>2. leader \in Searches
      BY <1>2, <2>1
    <3> HIDE DEF leader
    <3>. QED BY <2>1, <3>1, <3>2, JoinFields
  <2>2. CASE leader = None
    <3>1. search' = [search EXCEPT ![s].pc = "execute"] /\ inflight' = [inflight EXCEPT ![r][g] = s]
      BY <2>2 DEF Miss
    <3>. QED BY <2>2, <3>1, PcFields
  <2>. QED BY <2>1, <2>2
<1>4. inflight' \in [Replicas -> [Generations -> Searches \cup {None}]]
  BY <1>1, <1>3 DEF TypeOK
<1>5. TypeOK' /\ GenBound'
  BY <1>1, <1>3, <1>4 DEF TypeOK, GenBound, Moves, SearchState, index
<1>6. LeadersRegistered' /\ RegisteredLead' /\ WaitersFollow'
  <2>1. CASE search'[s].pc = "wait"
    <3>1. leader \in Searches /\ search[leader].pc \in Leading /\ search[leader].gen = g
      BY <1>1, <1>2, <1>3, <2>1 DEF RegisteredLead
    <3>. QED BY <1>1, <1>3, <2>1, <3>1, FollowerMoves DEF Leading
  <2>2. CASE search'[s].pc = "execute"
    <3>1. \A q \in Replicas, h \in Generations :
             inflight'[q][h] = IF q = r /\ h = g THEN s ELSE inflight[q][h]
      BY <1>1, <1>3, <2>2 DEF TypeOK
    <3>2. \A t \in Searches : ReplicaOf[t] \in Replicas /\ search[t].gen \in Generations
      BY SearchAssumption DEF TypeOK
    <3>3. LeadersRegistered'
      <4> SUFFICES ASSUME NEW t \in Searches, search'[t].pc \in Leading
                   PROVE  inflight'[ReplicaOf[t]][search'[t].gen] = t
        BY DEF LeadersRegistered
      <4>1. CASE t = s
        BY <1>1, <1>3, <3>1, <4>1
      <4>2. CASE t # s
        <5>1. search'[t] = search[t] /\ inflight[ReplicaOf[t]][search[t].gen] = t
          BY <1>3, <4>2 DEF Moves, LeadersRegistered
        <5>2. t # None /\ leader = None
          BY <1>2, <1>3, <2>2
        <5>. QED BY <3>1, <3>2, <5>1, <5>2
      <4>. QED BY <4>1, <4>2
    <3>4. RegisteredLead'
      <4> SUFFICES ASSUME NEW q \in Replicas, NEW h \in Generations, inflight'[q][h] # None
                   PROVE  /\ search'[inflight'[q][h]].pc \in Leading
                          /\ search'[inflight'[q][h]].gen = h
                          /\ ReplicaOf[inflight'[q][h]] = q
        BY DEF RegisteredLead
      <4>1. CASE q = r /\ h = g
        BY <1>3, <2>2, <3>1, <4>1 DEF Leading
      <4>2. CASE ~(q = r /\ h = g)
        <5>1. inflight'[q][h] = inflight[q][h]
          BY <3>1, <4>2
        <5>2. inflight[q][h] \in Searches /\ inflight[q][h] # s
          BY <1>1, <5>1, LeaderType DEF RegisteredLead, Leading
        <5>. QED BY <1>3, <5>1, <5>2 DEF Moves, RegisteredLead
      <4>. QED BY <4>1, <4>2
    <3>5. WaitersFollow'
      BY <1>1, <1>3, <2>2 DEF WaitersFollow, Moves, Leading
    <3>. QED BY <3>3, <3>4, <3>5
  <2>. QED BY <1>3, <2>1, <2>2
<1>7. ASSUME ~excused' PROVE CurrentIsFresh' /\ OwedIsStored' /\ OwedIsAnswered'
  <2>1. CurrentIsFresh /\ OwedIsStored /\ OwedIsAnswered
    BY <1>1, <1>7 DEF Fresh
  <2>2. \A t \in Searches : search'[t].pc = "store" => search'[t] = search[t]
    BY <1>3 DEF Moves
  <2>3. CurrentIsFresh'
    BY <1>1, <2>1, <2>2 DEF CurrentIsFresh, index
  <2>4. OwedIsStored'
    BY <1>1, <1>3, <2>1, <2>2 DEF OwedIsStored, Moves, index, Active
  <2>5. OwedIsAnswered'
    <3>1. search'[s].pc = "wait" => search'[leader].pc # "answered"
      BY <1>1, <1>2, <1>3 DEF RegisteredLead, Leading, Moves
    <3>. QED BY <1>1, <1>3, <2>1, <3>1 DEF OwedIsAnswered, Moves, WaitersFollow, Leading
  <2>. QED BY <2>3, <2>4, <2>5
<1>. QED BY <1>5, <1>6, <1>7 DEF Fresh

\* A leader ends without a store: nobody is given anything.
LEMMA LeaderFails ==
    ASSUME SearchInv, NEW s \in Searches, search[s].pc \in Leading,
           NEW how \in {"failed", "cancelled"}, Finish(s, how, 0), Pop(s),
           UNCHANGED <<index, bumps, gen, cache, excused>>
    PROVE  SearchInv'
<1> USE DEF SearchInv, FlightInv
<1>1. Moves(s) /\ search'[s].pc = how
  BY FinishFields, ZeroTypes
<1>2. inflight' \in [Replicas -> [Generations -> Searches \cup {None}]]
  BY PopFields
<1>3. TypeOK' /\ GenBound'
  BY <1>1, <1>2 DEF TypeOK, GenBound, Moves, SearchState, index
<1>4. LeadersRegistered' /\ RegisteredLead' /\ WaitersFollow'
  BY <1>1, LeaderEnds
<1>5. ASSUME ~excused' PROVE CurrentIsFresh' /\ OwedIsStored' /\ OwedIsAnswered'
  <2>1. CurrentIsFresh /\ OwedIsStored /\ OwedIsAnswered
    BY <1>5 DEF Fresh
  <2>2. \A t \in Searches : search'[t].pc \notin {"failed", "cancelled"} => search'[t] = search[t]
    BY <1>1 DEF Moves
  <2>3. CurrentIsFresh'
    BY <2>1, <2>2 DEF CurrentIsFresh, index
  <2>4. OwedIsStored'
    BY <2>1, <2>2 DEF OwedIsStored, index, Active
  <2>5. OwedIsAnswered'
    BY <1>1, <2>1, <2>2 DEF OwedIsAnswered, WaitersFollow
  <2>. QED BY <2>3, <2>4, <2>5
<1>. QED BY <1>3, <1>4, <1>5 DEF Fresh

\* The engine answers with all that is visible.  If that is less than what is
\* settled, it is excused; otherwise it is what everybody is owed.
LEMMA ExecuteStep ==
    ASSUME SearchInv, NEW s \in Searches, Execute(s)
    PROVE  SearchInv'
<1>1. search[s].pc = "execute" /\ UNCHANGED <<index, bumps, gen, cache>>
  BY DEF Execute
<1>2. CASE /\ search' = [search EXCEPT ![s].pc = "store", ![s].result = visible]
           /\ IF visible < settled THEN Excuse ELSE UNCHANGED excused
           /\ UNCHANGED inflight
  <2> USE DEF SearchInv, FlightInv
  <2>1. /\ Moves(s) /\ search'[s].pc = "store" /\ search'[s].result = visible
        /\ search'[s].gen = search[s].gen /\ search'[s].floor = search[s].floor
    BY <1>2, ExecuteFields
  <2>2. TypeOK' /\ GenBound'
    BY <1>1, <1>2, <2>1 DEF TypeOK, GenBound, Moves, SearchState, index, Excuse
  <2>3. LeadersRegistered'
    BY <1>1, <1>2, <2>1 DEF LeadersRegistered, Moves, Leading
  <2>4. RegisteredLead'
    <3>1. \A t \in Searches : search[t].pc \in Leading =>
              search'[t].pc \in Leading /\ search'[t].gen = search[t].gen
      BY <2>1 DEF Moves, Leading
    <3> SUFFICES ASSUME NEW r \in Replicas, NEW g \in Generations, inflight[r][g] # None
                 PROVE  /\ search'[inflight[r][g]].pc \in Leading
                        /\ search'[inflight[r][g]].gen = g
                        /\ ReplicaOf[inflight[r][g]] = r
      <4>1. inflight' = inflight
        BY <1>2
      <4>. QED BY <4>1 DEF RegisteredLead
    <3>2. inflight[r][g] \in Searches
      BY LeaderType
    <3>. QED BY <3>1, <3>2 DEF RegisteredLead
  <2>5. WaitersFollow'
    BY <1>1, <2>1 DEF WaitersFollow, Moves, Leading
  <2>6. ASSUME ~excused' PROVE CurrentIsFresh' /\ OwedIsStored' /\ OwedIsAnswered'
    <3>1. ~excused /\ ~(visible < settled)
      BY <1>2, <2>6 DEF Excuse
    <3>2. CurrentIsFresh /\ OwedIsStored /\ OwedIsAnswered
      BY <3>1 DEF Fresh
    <3>3. visible >= settled
      BY <3>1, Numbers
    <3>4. CurrentIsFresh'
      BY <1>1, <2>1, <3>2, <3>3 DEF CurrentIsFresh, Moves, index
    <3>5. OwedIsStored'
      <4> SUFFICES ASSUME NEW u \in Searches, search'[u].pc \in Active
                   PROVE  /\ search'[u].gen <= gen
                          /\ search'[u].floor <= settled
                          /\ cache[search'[u].gen] # None => cache[search'[u].gen] >= search'[u].floor
                          /\ \A t \in Searches : search'[t].pc = "store" /\ search'[t].gen = search'[u].gen =>
                                search'[t].result >= search'[u].floor
        BY <1>1 DEF OwedIsStored, index
      <4>1. /\ search[u].pc \in Active /\ search'[u].gen = search[u].gen
            /\ search'[u].floor = search[u].floor
        BY <1>1, <2>1 DEF Moves, Active
      <4>2. visible >= search[u].floor
        BY <3>2, <3>3, <4>1, Numbers DEF OwedIsStored
      <4>. QED BY <2>1, <3>2, <4>1, <4>2 DEF OwedIsStored, Moves
    <3>6. OwedIsAnswered'
      BY <1>1, <2>1, <3>2 DEF OwedIsAnswered, Moves, WaitersFollow
    <3>. QED BY <3>4, <3>5, <3>6
  <2>. QED BY <2>2, <2>3, <2>4, <2>5, <2>6 DEF Fresh
<1>3. CASE Finish(s, "failed", 0) /\ Pop(s) /\ UNCHANGED excused
  BY <1>1, <1>3, LeaderFails DEF Leading
<1>. QED BY <1>2, <1>3 DEF Execute

\* A store, whose leader answers or has been cancelled: what the leader found is
\* what the searches of its generation are owed, the leader and those that wait
\* for it among them.
LEMMA LeaderStores ==
    ASSUME SearchInv, NEW s \in Searches, search[s].pc = "store",
           cache' = [cache EXCEPT ![search[s].gen] = search[s].result] \/ UNCHANGED cache,
           NEW how \in {"answered", "cancelled"}, NEW result \in Result,
           how = "answered" => result = search[s].result,
           Finish(s, how, result), Pop(s), UNCHANGED <<index, bumps, gen, excused>>
    PROVE  SearchInv'
<1> USE DEF SearchInv, FlightInv
<1>1. search[s].pc = "store" /\ UNCHANGED <<index, bumps, gen, excused>>
  OBVIOUS
<1>2. search[s].gen \in Generations /\ search[s].result \in Result
  BY DEF TypeOK
<1>3. /\ Moves(s) /\ search'[s].pc = how /\ search'[s].floor = search[s].floor
      /\ how = "answered" => search'[s].result = search[s].result
  BY <1>2, FinishFields
<1>4. inflight' \in [Replicas -> [Generations -> Searches \cup {None}]]
  BY PopFields
<1>5. /\ cache' \in [Generations -> Result \cup {None}]
      /\ \A g \in Generations :
            (cache'[g] = cache[g]) \/ (g = search[s].gen /\ cache'[g] = search[s].result)
  BY <1>2 DEF TypeOK
<1>6. TypeOK' /\ GenBound'
  BY <1>1, <1>3, <1>4, <1>5 DEF TypeOK, GenBound, Moves, SearchState, index
<1>7. LeadersRegistered' /\ RegisteredLead' /\ WaitersFollow'
  BY <1>1, <1>3, LeaderEnds DEF Leading
<1>8. ASSUME ~excused' PROVE CurrentIsFresh' /\ OwedIsStored' /\ OwedIsAnswered'
  <2>1. CurrentIsFresh /\ OwedIsStored /\ OwedIsAnswered
    BY <1>1, <1>8 DEF Fresh
  <2>2. search[s].gen <= gen
    BY <1>1, <2>1 DEF OwedIsStored, Active
  <2>3. CurrentIsFresh'
    <3>1. \A g \in Generations : g > gen => cache'[g] = None
      BY <1>5, <2>1, <2>2, Numbers DEF CurrentIsFresh
    <3>2. cache'[gen] # None => cache'[gen] >= settled
      BY <1>1, <1>5, <2>1, Numbers DEF CurrentIsFresh
    <3>3. \A t \in Searches : search'[t].pc = "store" => search'[t] = search[t]
      BY <1>3 DEF Moves
    <3>. QED BY <1>1, <2>1, <3>1, <3>2, <3>3 DEF CurrentIsFresh, index
  <2>4. OwedIsStored'
    <3> SUFFICES ASSUME NEW u \in Searches, search'[u].pc \in Active
                 PROVE  /\ search'[u].gen <= gen
                        /\ search'[u].floor <= settled
                        /\ cache'[search'[u].gen] # None => cache'[search'[u].gen] >= search'[u].floor
                        /\ \A t \in Searches : search'[t].pc = "store" /\ search'[t].gen = search'[u].gen =>
                              search'[t].result >= search'[u].floor
      BY <1>1 DEF OwedIsStored, index
    <3>1. search'[u] = search[u] /\ u # s
      BY <1>3 DEF Moves, Active
    <3>2. \A t \in Searches : search'[t].pc = "store" => search'[t] = search[t]
      BY <1>3 DEF Moves
    <3>3. search[u].gen \in Generations
      BY Numbers
    <3>. QED BY <1>1, <1>5, <2>1, <3>1, <3>2, <3>3 DEF OwedIsStored
  <2>5. OwedIsAnswered'
    <3>1. search[s].result >= search[s].floor
      BY <1>1, <2>1 DEF OwedIsStored, Active
    <3>2. ASSUME NEW u \in Searches, search[u].pc = "wait", search[u].leader = s
          PROVE  search[s].result >= search[u].floor
      BY <1>1, <2>1, <3>2 DEF WaitersFollow, OwedIsStored, Active, Leading
    <3>. QED BY <1>1, <1>3, <2>1, <3>1, <3>2 DEF OwedIsAnswered, Moves, WaitersFollow
  <2>. QED BY <2>3, <2>4, <2>5
<1>. QED BY <1>6, <1>7, <1>8 DEF Fresh

\* The leader stores and answers.
LEMMA StoreStep ==
    ASSUME SearchInv, NEW s \in Searches, Store(s)
    PROVE  SearchInv'
<1>1. search[s].result \in Result
  BY DEF SearchInv, FlightInv, TypeOK
<1>. QED BY <1>1, LeaderStores DEF Store

\* The leader is cancelled, before its store or in it.
LEMMA CancelStep ==
    ASSUME SearchInv, NEW s \in Searches, CancelLeader(s)
    PROVE  SearchInv'
<1>1. CASE UNCHANGED cache
  BY <1>1, LeaderFails DEF CancelLeader, Leading
<1>2. CASE /\ search[s].pc = "store"
           /\ cache' = [cache EXCEPT ![search[s].gen] = search[s].result]
  BY <1>2, LeaderStores, ZeroTypes DEF CancelLeader
<1>. QED BY <1>1, <1>2 DEF CancelLeader

-----------------------------------------------------------------------------
\* A generation that only worker and request bumps moved is in its range.
LEMMA BoundedGeneration ==
    ASSUME NEW g \in Nat, NEW w \in Result, NEW b \in 0..MaxBumps, NEW x \in {0, 1},
           g + x <= w + b
    PROVE  g \in Generations
  BY SearchAssumption DEF Generations, Result

\* The index, the generation and the entries, which no search is needed for.
LEMMA OutsideStep ==
    ASSUME SearchInv, \/ BulkWrite \/ WorkerBump \/ Refresh \/ RequestBump \/ EvictGeneration
                      \/ (\E g \in Generations : Expire(g))
                      \/ UNCHANGED vars
    PROVE  SearchInv'
<1> USE DEF SearchInv, FlightInv
<1>1. search' = search /\ inflight' = inflight
  BY DEF BulkWrite, WorkerBump, Refresh, RequestBump, EvictGeneration, Expire, vars
<1>2. LeadersRegistered' /\ RegisteredLead' /\ WaitersFollow'
  BY <1>1 DEF LeadersRegistered, RegisteredLead, WaitersFollow
<1>3. /\ written \in Nat /\ written <= MaxWrites /\ visible \in Nat /\ visible <= MaxWrites
      /\ settled \in Nat /\ settled <= MaxWrites /\ bumps \in Nat /\ bumps <= MaxBumps
      /\ gen \in Nat /\ MaxWrites \in Nat /\ MaxBumps \in Nat
  BY SearchAssumption DEF TypeOK, Generations, Result
<1>4. GenBound'
  BY <1>3 DEF GenBound, BulkWrite, WorkerBump, Refresh, RequestBump, EvictGeneration, Expire, vars,
     index, TypeOK
<1>5. written' \in Result /\ visible' \in Result /\ settled' \in Result /\ bumps' \in 0..MaxBumps
      /\ writer' \in {"write", "bump"}
  BY <1>3 DEF BulkWrite, WorkerBump, Refresh, RequestBump, EvictGeneration, Expire, vars,
     index, TypeOK, Result
<1>6. gen' \in Generations
  <2>1. gen' \in Nat
    BY <1>3 DEF BulkWrite, WorkerBump, Refresh, RequestBump, EvictGeneration, Expire, vars
  <2>2. PICK x \in {0, 1} : gen' + x <= written' + bumps'
    BY <1>4 DEF GenBound
  <2>. QED BY <1>5, <2>1, <2>2, BoundedGeneration
<1>7. /\ cache' \in [Generations -> Result \cup {None}]
      /\ \A g \in Generations : cache'[g] \in {cache[g], None}
  BY DEF BulkWrite, WorkerBump, Refresh, RequestBump, EvictGeneration, Expire, vars, TypeOK
<1>8. excused' \in BOOLEAN
  BY DEF BulkWrite, WorkerBump, Refresh, RequestBump, EvictGeneration, Expire, vars, TypeOK, Excuse
<1>9. TypeOK'
  BY <1>1, <1>5, <1>6, <1>7, <1>8 DEF TypeOK
<1>10. ASSUME ~excused' PROVE CurrentIsFresh' /\ OwedIsStored' /\ OwedIsAnswered'
  <2>1. ~excused /\ CurrentIsFresh /\ OwedIsStored /\ OwedIsAnswered
    BY <1>10 DEF Fresh, BulkWrite, WorkerBump, Refresh, RequestBump, EvictGeneration, Expire, vars, Excuse
  \* Settled writes change only together with the generation.
  <2>2. /\ written' >= written /\ settled <= written
        /\ \/ gen' = gen /\ settled' = settled
           \/ gen' = gen + 1 /\ settled' \in {settled, written} /\ written' = written
    BY <1>3, <1>10, <2>1 DEF CurrentIsFresh, BulkWrite, WorkerBump, Refresh, RequestBump,
       EvictGeneration, Expire, vars, index, Excuse
  <2>3. settled' >= settled /\ settled' <= written' /\ settled' \in Nat /\ gen' \in Nat
    <3>1. settled' \in Nat /\ written' \in Nat
      BY <1>3, <1>5 DEF Result
    <3>. QED BY <1>3, <2>2, <3>1
  <2>4. CurrentIsFresh'
    <3>1. CASE gen' = gen /\ settled' = settled
      BY <1>1, <1>6, <1>7, <2>1, <2>3, <3>1 DEF CurrentIsFresh
    <3>2. CASE gen' = gen + 1
      <4>1. \A g \in Generations : g >= gen' => cache'[g] = None
        BY <1>3, <1>7, <2>1, <3>2, Numbers DEF CurrentIsFresh
      <4>2. cache'[gen'] = None
        BY <1>3, <1>6, <3>2, <4>1
      <4>3. \A t \in Searches : search[t].pc = "store" => search[t].gen # gen'
        BY <1>3, <2>1, <3>2, Numbers DEF OwedIsStored, Active
      <4>. QED BY <1>1, <1>3, <2>3, <4>1, <4>2, <4>3, <3>2, Numbers DEF CurrentIsFresh
    <3>. QED BY <2>2, <3>1, <3>2
  <2>5. OwedIsStored'
    <3> SUFFICES ASSUME NEW u \in Searches, search[u].pc \in Active
                 PROVE  /\ search[u].gen <= gen'
                        /\ search[u].floor <= settled'
                        /\ cache'[search[u].gen] # None => cache'[search[u].gen] >= search[u].floor
                        /\ \A t \in Searches : search[t].pc = "store" /\ search[t].gen = search[u].gen =>
                              search[t].result >= search[u].floor
      BY <1>1 DEF OwedIsStored
    <3>1. search[u].gen \in Nat /\ search[u].gen \in Generations /\ search[u].floor \in Nat
      BY Numbers
    <3>2. search[u].gen <= gen' /\ search[u].floor <= settled'
      BY <1>3, <2>1, <2>2, <2>3, <3>1 DEF OwedIsStored
    <3>. QED BY <1>7, <2>1, <3>1, <3>2 DEF OwedIsStored
  <2>6. OwedIsAnswered'
    BY <1>1, <2>1 DEF OwedIsAnswered
  <2>. QED BY <2>4, <2>5, <2>6
<1>. QED BY <1>2, <1>4, <1>9, <1>10 DEF Fresh

\* No search, no entry, nothing written.
LEMMA SearchInitial == Init => SearchInv
<1> SUFFICES ASSUME Init PROVE SearchInv
  OBVIOUS
<1>1. \A s \in Searches : search[s] = NoSearch /\ NoSearch.pc = "new"
  BY DEF Init, NoSearch
<1>2. TypeOK
  <2>1. NoSearch \in SearchState
    BY ZeroTypes DEF NoSearch, SearchState
  <2>2. search \in [Searches -> SearchState]
    BY <2>1 DEF Init
  <2>3. /\ written \in Result /\ visible \in Result /\ settled \in Result /\ gen \in Generations
        /\ writer \in {"write", "bump"} /\ excused \in BOOLEAN
    BY ZeroTypes, Zenon DEF Init
  <2>4. /\ cache \in [Generations -> Result \cup {None}]
        /\ inflight \in [Replicas -> [Generations -> Searches \cup {None}]]
    BY DEF Init
  <2>5. bumps \in 0..MaxBumps
    BY SearchAssumption DEF Init
  <2>. QED BY <2>2, <2>3, <2>4, <2>5 DEF TypeOK, SearchState
<1>3. GenBound /\ LeadersRegistered /\ RegisteredLead /\ WaitersFollow
  BY <1>1 DEF Init, GenBound, LeadersRegistered, RegisteredLead, WaitersFollow, Leading
<1>4. CurrentIsFresh /\ OwedIsStored /\ OwedIsAnswered
  BY <1>1, ZeroTypes DEF Init, CurrentIsFresh, OwedIsStored, OwedIsAnswered, Active
<1>. QED BY <1>2, <1>3, <1>4 DEF SearchInv, FlightInv, Fresh

\* One case per group of actions.
LEMMA SearchNext == SearchInv /\ [Next]_vars => SearchInv'
<1> SUFFICES ASSUME SearchInv, [Next]_vars PROVE SearchInv'
  OBVIOUS
<1>1. ASSUME NEW s \in Searches, SearchStep(s) PROVE SearchInv'
  BY <1>1, HitStep, MissStep, ExecuteStep, StoreStep, ResumeStep DEF SearchStep
<1>. QED BY <1>1, CancelStep, ReadGenerationStep, OutsideStep DEF Next

\* The invariant holds in every reachable state.
LEMMA SearchInvariant == Spec => []SearchInv
  BY SearchInitial, SearchNext, PTL DEF Spec

-----------------------------------------------------------------------------
\* The types; in particular the generation never runs ahead of the writes and
\* the bumps that move it.
THEOREM SearchTypeCorrect == Spec => []TypeOK
<1>1. SearchInv => TypeOK
  BY DEF SearchInv, FlightInv
<1>. QED BY <1>1, SearchInvariant, PTL

\* Searches of one process never run two engine queries for one key at a time,
\* whoever fails, is cancelled or finds Redis down.
THEOREM OneLeaderHolds == Spec => []OneLeader
<1>1. SearchInv => OneLeader
  BY DEF SearchInv, FlightInv, OneLeader, LeadersRegistered, Leading
<1>. QED BY <1>1, SearchInvariant, PTL

\* A search that begins after a write was settled and visible reflects it,
\* unless a bump or the generation was lost or an answer preceded the refresh.
THEOREM SettledWritesAreSeenHolds == Spec => []SettledWritesAreSeen
<1>1. SearchInv => SettledWritesAreSeen
  BY DEF SearchInv, Fresh, OwedIsAnswered, SettledWritesAreSeen
<1>. QED BY <1>1, SearchInvariant, PTL

=============================================================================
