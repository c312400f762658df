------------------------- MODULE DnsExchangeProofs -------------------------
(***************************************************************************)
(* Invariance proofs for encrypted DNS under a changing selection, for any *)
(* clients, nodes, domains, TTLs, capacities and numbers of calls.         *)
(*                                                                         *)
(* Everything rests on the numbers of the calls: a call that has not       *)
(* acquired a pool yet names no pool (Numbers), so a new pool is never one *)
(* that was cancelled; and no two calls share a number, so the flight a    *)
(* follower waits for has one leader, of the same scope (Flights).  Then   *)
(* whatever a call is given, by the cache, by its leader or by the server, *)
(* comes from the node of its scope (Origin).                              *)
(*                                                                         *)
(* The reverse table depends on the clock: an answer ends, by its TTL, no  *)
(* later than the server said when it is stored and less than a second     *)
(* later when it is remembered, because ageing rounds down (Times).        *)
(***************************************************************************)
EXTENDS DnsExchange, FiniteSetTheorems, TLAPS

\* The fields of TypeOK, without the size of the message cache.
Fields ==
  /\ current \in Node /\ control \in BOOLEAN
  /\ now \in Nat /\ calls \in Nat /\ switches \in Nat
  /\ pool \in Pools /\ pool.id <= calls
  /\ cancelled \subseteq 1..calls
  /\ flights \in [Keys -> 0..calls]
  /\ pc \in [Client -> Stages]
  /\ call \in [Client -> 0..calls]
  /\ domain \in [Client -> Domain]
  /\ scope \in [Client -> Node]
  /\ client \in [Client -> Pools]
  /\ flight \in [Client -> 0..calls]
  /\ asked \in [Client -> Nat]
  /\ reply \in [Client -> Replies]
  /\ \A c \in Client :
       pc[c] \in {"lookup", "follow", "query"} => client[c].id \in 1..calls

\* The stages in which a call has its number.
Numbered == {"pool", "lookup", "follow", "query", "store"}

\* A number belongs to one call, and names no pool before that call has made one.
Numbers ==
  /\ \A c \in Client : pc[c] \in Numbered => call[c] # 0
  /\ \A c, d \in Client : call[c] = call[d] /\ call[c] # 0 => c = d
  /\ \A c \in Client : pc[c] = "pool" =>
       /\ call[c] \notin cancelled /\ call[c] # pool.id
       /\ \A d \in Client : client[d].id # call[c]
  /\ \A c \in Client : client[c].id <= calls

\* A leader's flight is listed under its key, and a listed flight has its leader.
Flights ==
  /\ \A c \in Client : Leads(c) => flights[Key(c)] = call[c]
  /\ \A k \in Keys : flights[k] # 0 =>
       \E c \in Client : Leads(c) /\ Key(c) = k /\ call[c] = flights[k]

Message == [ok : {TRUE}, node : Node, ttl : Nat, due : Nat, stored : Nat, expires : Nat]

\* A cached message came from the node of its key, and was stored for its TTL at most.
Messages ==
  /\ messages \in [Keys -> {Nothing} \cup Message]
  /\ \A k \in Keys : messages[k].ok =>
       /\ messages[k].node = k[1]
       /\ messages[k].stored <= now
       /\ messages[k].expires <= messages[k].stored + 2 * messages[k].ttl

\* The message cache keeps its limit.
Bounded ==
  IsFiniteSet(Present(messages)) /\ Cardinality(Present(messages)) <= MessageCap

\* A pool dials through the node of the call that uses it, and a reply comes from there.
Origin ==
  /\ \A c \in Client : pc[c] \in {"lookup", "query"} => client[c].node = scope[c]
  /\ \A c \in Client : reply[c].ok => reply[c].node = scope[c]

\* An answer that is or was stored does not outlive what the server said; one that is about
\* to be remembered may by less than two half seconds.
Times ==
  /\ \A k \in Keys : messages[k].ok =>
       messages[k].stored + 2 * messages[k].ttl <= messages[k].due
  /\ \A c \in Client : reply[c].ok /\ pc[c] = "store" =>
       now + 2 * reply[c].ttl <= reply[c].due
  /\ \A c \in Client : pc[c] = "remember" =>
       reply[c].ok /\ now + 2 * reply[c].ttl < reply[c].due + 2

Record == [domain : Domain, scope : Node, due : Nat, expires : Nat]

\* The reverse table.
Table == reverse \in Seq(Record) /\ ReverseWithinTTL

-----------------------------------------------------------------------------
\* The disjuncts of the next-state relation, by the client that acts.
ClientStep(c) ==
  \/ \E d \in Domain : Ask(c, d)
  \/ AcquirePool(c) \/ Hit(c) \/ Miss(c) \/ Followed(c) \/ GiveUp(c)
  \/ Query(c) \/ Store(c) \/ Remember(c)

RouterStep ==
  \/ \E n \in Node : PutProxy(n) \/ URLTestSwitch(n)
  \/ InvalidateDNSConnections \/ PruneReverse \/ Tick

\* Zenon proves what is not said to need SMT: arithmetic, mostly.
USE ZenonT(30)

\* Ranking the positions of a finite set numbers them from 1 without gaps, so that Position
\* finds one of each rank.
LEMMA PositionOfRank ==
  ASSUME NEW I, I \subseteq Nat, IsFiniteSet(I)
  PROVE  /\ Cardinality(I) \in Nat
         /\ \A k \in 1..Cardinality(I) : Position(I, k) \in I /\ Rank(I, Position(I, k)) = k
<1> DEFINE Below(i) == {j \in I : j <= i}
           rank == [i \in I |-> Rank(I, i)]
<1>1. \A i \in I : /\ IsFiniteSet(Below(i)) /\ Cardinality(Below(i)) \in Nat
                   /\ Cardinality(Below(i)) <= Cardinality(I)
  BY FS_Subset, FS_CardinalityType
<1>2. Cardinality(I) \in Nat
  BY FS_CardinalityType
<1>3. \A i \in I : Rank(I, i) \in 1..Cardinality(I)
  <2>1. \A i \in I : i \in Below(i)
    BY SMT
  <2>2. \A i \in I : Cardinality(Below(i)) # 0
    BY <1>1, <2>1, FS_EmptySet
  <2> HIDE DEF Below
  <2>3. \A i \in I : Cardinality(Below(i)) \in 1..Cardinality(I)
    BY <1>1, <1>2, <2>2, SMT
  <2> QED
    BY <2>3 DEF Rank, Below
<1>4. \A i, j \in I : i < j => Rank(I, i) # Rank(I, j)
  <2> SUFFICES ASSUME NEW i \in I, NEW j \in I, i < j PROVE Rank(I, i) # Rank(I, j)
    OBVIOUS
  <2>1. Below(i) \subseteq Below(j) /\ j \in Below(j) /\ j \notin Below(i)
    <3>1. i \in Nat /\ j \in Nat /\ \A k \in I : k \in Nat
      OBVIOUS
    <3>2. (\A k \in I : k <= i => k <= j) /\ j <= j /\ ~(j <= i)
      BY <3>1, SMT
    <3> QED
      BY <3>2
  <2>2. Cardinality(Below(i)) # Cardinality(Below(j))
    BY <1>1, <2>1, FS_Subset
  <2> QED
    BY <2>2 DEF Rank
<1>5. rank \in Injection(I, 1..Cardinality(I))
  <2>1. \A i, j \in I : i # j => i < j \/ j < i
    BY SMT
  <2>2. \A i, j \in I : Rank(I, i) = Rank(I, j) => i = j
    BY <1>4, <2>1
  <2>3. rank \in [I -> 1..Cardinality(I)] /\ \A i \in I : rank[i] = Rank(I, i)
    BY <1>3
  <2> QED
    BY <2>2, <2>3 DEF Injection, IsInjective
<1>6. IsFiniteSet(1..Cardinality(I)) /\ Cardinality(1..Cardinality(I)) = Cardinality(I)
  <2>1. 1 \in Int /\ Cardinality(I) \in Int
    BY <1>2, SMT
  <2>2. /\ IsFiniteSet(1..Cardinality(I))
        /\ Cardinality(1..Cardinality(I))
             = IF 1 > Cardinality(I) THEN 0 ELSE Cardinality(I) - 1 + 1
    BY <2>1, FS_Interval
  <2> QED
    BY <1>2, <2>2, SMT
<1>7. rank \in Surjection(I, 1..Cardinality(I))
  <2> HIDE DEF rank
  <2> QED
    BY <1>5, <1>6, FS_Injection
<1>8. \A k \in 1..Cardinality(I) : \E i \in I : Rank(I, i) = k
  BY <1>7 DEF Surjection
<1> QED
  BY <1>2, <1>8 DEF Position

\* What Selected returns: entries of the sequence, each from a position of its own.
LEMMA SelectedEntries ==
  ASSUME NEW S, NEW s \in Seq(S), NEW I, I \subseteq 1..Len(s)
  PROVE  /\ Selected(s, I) \in Seq(S) /\ Len(Selected(s, I)) \in Nat
         /\ \A k \in 1..Len(Selected(s, I)) :
              Position(I, k) \in I /\ Selected(s, I)[k] = s[Position(I, k)]
         /\ \A k, l \in 1..Len(Selected(s, I)) : Position(I, k) = Position(I, l) => k = l
<1>1. Len(s) \in Nat /\ \A i \in 1..Len(s) : s[i] \in S
  BY SMT
<1>2. I \subseteq Nat /\ IsFiniteSet(I)
  <2>1. 1 \in Int /\ Len(s) \in Int /\ 1..Len(s) \subseteq Nat
    BY <1>1, SMT
  <2>2. IsFiniteSet(1..Len(s))
    BY <2>1, FS_Interval
  <2> QED
    BY <2>1, <2>2, FS_Subset
<1>3. /\ Cardinality(I) \in Nat
      /\ \A k \in 1..Cardinality(I) : Position(I, k) \in I /\ Rank(I, Position(I, k)) = k
  BY <1>2, PositionOfRank
<1>4. Selected(s, I) = [k \in 1..Cardinality(I) |-> s[Position(I, k)]]
  BY DEF Selected
<1>5. \A k \in 1..Cardinality(I) : s[Position(I, k)] \in S
  BY <1>1, <1>3
<1>6. Selected(s, I) \in Seq(S) /\ Len(Selected(s, I)) = Cardinality(I)
  BY <1>3, <1>4, <1>5, SMT
<1>7. \A k \in 1..Cardinality(I) : Selected(s, I)[k] = s[Position(I, k)]
  BY <1>4
<1>8. \A k, l \in 1..Cardinality(I) : Position(I, k) = Position(I, l) => k = l
  BY <1>3
<1> QED
  BY <1>3, <1>6, <1>7, <1>8

\* The values that are put into the fields, and the key of a call.
LEMMA Values ==
  /\ Nothing \in Replies /\ ~Nothing.ok
  /\ NoPool \in Pools /\ NoPool.id = 0
BY DnsAssumption DEF Nothing, Replies, NoPool, Pools

\* The parts of a pool.
LEMMA PoolParts == ASSUME NEW p \in Pools PROVE p.id \in Nat /\ p.node \in Node
BY DEF Pools

\* A pool put together from its number and its node.
LEMMA PoolMade ==
  ASSUME NEW i \in Nat, NEW n \in Node, NEW p, p = [id |-> i, node |-> n]
  PROVE  p \in Pools /\ p.id = i /\ p.node = n
BY DEF Pools

\* A message that is served has a TTL left.
LEMMA AgeBelowTTL == \A x, ttl \in Nat : x < 2 * ttl => ttl - x \div 2 \in Nat
BY SMT

\* An answer is a good reply and names the node it came from.
LEMMA AnswerType ==
  ASSUME NEW n \in Node, NEW ttl \in Nat, NEW due \in Nat
  PROVE  /\ Answer(n, ttl, due) \in Replies
         /\ Answer(n, ttl, due).ok /\ Answer(n, ttl, due).node = n
BY DEF Answer, Replies

\* Remember and PruneReverse change no table but reverse.
LEMMA RememberFrame ==
  ASSUME NEW c, Remember(c)
  PROVE  /\ pc[c] = "remember" /\ Return(c, reply[c])
         /\ UNCHANGED <<router, pool, cancelled, messages, flights, now, calls, domain, scope,
                        asked>>
BY DEF Remember

LEMMA PruneFrame ==
  PruneReverse => UNCHANGED <<router, pool, cancelled, messages, flights, now, calls, clients>>
BY DEF PruneReverse

\* The parts of a reply that succeeded.
LEMMA ReplyParts ==
  ASSUME NEW r \in Replies, r.ok PROVE r.ttl \in Nat /\ r.due \in Nat /\ r.node \in Node
<1>1. r # Nothing
  BY Values
<1> QED
  BY <1>1 DEF Replies

\* A message is not cached for longer than its TTL.
LEMMA CacheTTLBelow ==
  ASSUME NEW r, r.ttl \in Nat PROVE CacheTTL(r) \in Nat /\ CacheTTL(r) <= r.ttl
BY DnsAssumption, SMT DEF CacheTTL, Minimum

\* What Store caches of a message: its node and TTL, and an expiry within twice
\* the TTL.
LEMMA CachedParts ==
  ASSUME now \in Nat, NEW r, r.ttl \in Nat, r.due \in Nat, r.node \in Node
  PROVE  /\ Cached(r) \in Message /\ Cached(r).ok /\ Cached(r).node = r.node
         /\ Cached(r).stored = now /\ Cached(r).expires <= Cached(r).stored + 2 * Cached(r).ttl
<1>1. CacheTTL(r) \in Nat /\ CacheTTL(r) <= r.ttl
  BY CacheTTLBelow
<1>2. now + 2 * CacheTTL(r) \in Nat /\ now + 2 * CacheTTL(r) <= now + 2 * r.ttl
  BY <1>1, SMT
<1>3. Cached(r) \in Message
  BY <1>2 DEF Cached, Message
<1>4. /\ Cached(r).ok /\ Cached(r).node = r.node /\ Cached(r).stored = now
      /\ Cached(r).ttl = r.ttl /\ Cached(r).expires = now + 2 * CacheTTL(r)
  BY DEF Cached
<1> QED
  BY <1>2, <1>3, <1>4

\* The key of a call begins with the scope the call was made in.
LEMMA KeyType ==
  ASSUME Fields, NEW c \in Client PROVE Key(c) \in Keys /\ Key(c)[1] = scope[c]
BY DEF Fields, Key, Keys

\* A message that is served from the cache is an answer: its age is less than its TTL.
LEMMA AgedType ==
  ASSUME Messages, now \in Nat, NEW k \in Keys, messages[k].ok, now < messages[k].expires
  PROVE  Aged(messages[k]) \in Replies
<1> DEFINE m == messages[k]
<1>1. /\ m \in Message /\ m.stored <= now /\ m.expires <= m.stored + 2 * m.ttl
      /\ now < m.expires
  BY Values DEF Messages
<1> HIDE DEF m
<1>2. /\ m.ttl \in Nat /\ m.due \in Nat /\ m.stored \in Nat /\ m.expires \in Nat
      /\ m.node \in Node
  BY <1>1 DEF Message
<1>3. now - m.stored \in Nat /\ now - m.stored < 2 * m.ttl
  BY <1>1, <1>2, SMT
<1>4. m.ttl - (now - m.stored) \div 2 \in Nat
  BY <1>2, <1>3, AgeBelowTTL
<1>5. Answer(m.node, m.ttl - (now - m.stored) \div 2, m.due) \in Replies
  BY <1>2, <1>4, AnswerType
<1> QED
  BY <1>5 DEF Aged, m

\* A pool that is acquired has the number of a call, and so has one it replaces.
LEMMA AcquiredType ==
  ASSUME Fields, Numbers, NEW c \in Client, AcquirePool(c)
  PROVE  pool' \in Pools /\ pool'.id \in 1..calls /\ cancelled' \subseteq 1..calls
<1>1. /\ calls \in Nat /\ pool \in Pools /\ pool.id <= calls /\ cancelled \subseteq 1..calls
      /\ scope[c] \in Node
  BY DEF Fields
<1>2. call[c] \in 1..calls
  BY SMT DEF AcquirePool, Fields, Numbers, Numbered
<1>3. CASE pool.id # 0 /\ pool.node = scope[c]
  <2>1. pool' = pool /\ cancelled' = cancelled
    BY <1>3 DEF AcquirePool
  <2> QED
    BY <1>1, <1>3, <2>1, PoolParts, SMT
<1>4. CASE pool.id = 0 \/ pool.node # scope[c]
  <2>1. /\ pool' = [id |-> call[c], node |-> scope[c]]
        /\ cancelled' = cancelled \cup ({pool.id} \ {0})
    BY <1>4 DEF AcquirePool
  <2>2. pool' \in Pools /\ pool'.id = call[c]
    BY <1>1, <1>2, <2>1, PoolMade, SMT
  <2>3. {pool.id} \ {0} \subseteq 1..calls
    BY <1>1, PoolParts, SMT
  <2> QED
    BY <1>1, <1>2, <2>1, <2>2, <2>3
<1> QED
  BY <1>3, <1>4

\* The answer of a query.
LEMMA QueriedType ==
  ASSUME Fields, NEW c \in Client, NEW ttl \in TTL
  PROVE  Answer(client[c].node, ttl, now + 2 * ttl) \in Replies
<1>1. client[c].node \in Node
  BY PoolParts DEF Fields
<1>2. ttl \in Nat /\ now + 2 * ttl \in Nat
  BY DnsAssumption, SMT DEF Fields
<1> QED
  BY <1>1, <1>2, AnswerType

\* The step of a client keeps the fields in their ranges.
LEMMA FieldsOfClient ==
  ASSUME Fields, Numbers, Messages, NEW c \in Client, ClientStep(c)
  PROVE  Fields'
<1> USE DEF Fields, Stages, Goto, Return, router, dns, clients
<1>1. ASSUME NEW d \in Domain, Ask(c, d) PROVE Fields'
  <2>1. /\ calls' = calls + 1 /\ calls' \in Nat
        /\ 0..calls \subseteq 0..calls' /\ 1..calls \subseteq 1..calls'
    BY <1>1, SMT DEF Ask
  <2>2. /\ flights' \in [Keys -> 0..calls'] /\ flight' \in [Client -> 0..calls']
        /\ call' \in [Client -> 0..calls']
    BY <1>1, <2>1, SMT DEF Ask
  <2>3. pool' \in Pools /\ pool'.id <= calls'
    BY <1>1, <2>1, PoolParts, SMT DEF Ask
  <2>4. /\ domain' \in [Client -> Domain] /\ scope' \in [Client -> Node]
        /\ reply' \in [Client -> Replies] /\ pc' \in [Client -> Stages]
    BY <1>1, Values DEF Ask
  <2>5. \A e \in Client :
          pc'[e] \in {"lookup", "follow", "query"} => client'[e].id \in 1..calls'
    BY <1>1, <2>1 DEF Ask
  <2> QED
    BY <1>1, <2>1, <2>2, <2>3, <2>4, <2>5 DEF Ask
<1>2. CASE AcquirePool(c)
  <2>2. pool' \in Pools /\ pool'.id \in 1..calls /\ cancelled' \subseteq 1..calls
    BY <1>2, AcquiredType
  <2>3. client' \in [Client -> Pools]
    BY <1>2, <2>2 DEF AcquirePool
  <2>4. \A d \in Client :
          pc'[d] \in {"lookup", "follow", "query"} => client'[d].id \in 1..calls
    BY <1>2, <2>2 DEF AcquirePool
  <2> QED
    BY <1>2, <2>2, <2>3, <2>4, SMT DEF AcquirePool
<1>3. CASE Hit(c)
  <2>1. Aged(messages[Key(c)]) \in Replies
    BY <1>3, AgedType, KeyType DEF Hit
  <2> QED
    BY <1>3, <2>1 DEF Hit
<1>4. CASE Miss(c)
  <2>1. CASE flights[Key(c)] # 0
    <3>1. /\ flight' = [flight EXCEPT ![c] = flights[Key(c)]]
          /\ pc' = [pc EXCEPT ![c] = "follow"]
          /\ UNCHANGED <<flights, asked>>
      BY <1>4, <2>1 DEF Miss
    <3>2. client[c].id \in 1..calls
      BY <1>4 DEF Miss
    <3> QED
      BY <1>4, <3>1, <3>2, KeyType DEF Miss
  <2>2. CASE flights[Key(c)] = 0
    <3>1. /\ flights' = [flights EXCEPT ![Key(c)] = call[c]]
          /\ asked' = [asked EXCEPT ![c] = now] /\ pc' = [pc EXCEPT ![c] = "query"]
          /\ UNCHANGED flight
      BY <1>4, <2>2 DEF Miss
    <3>2. client[c].id \in 1..calls
      BY <1>4 DEF Miss
    <3> QED
      BY <1>4, <3>1, <3>2, KeyType DEF Miss
  <2> QED
    BY <2>1, <2>2
<1>5. CASE Followed(c)
  BY <1>5, Values DEF Followed
<1>6. CASE GiveUp(c)
  BY <1>6, Values, SMT DEF GiveUp
<1>7. CASE Query(c)
  <2>2. reply' \in [Client -> Replies]
    BY <1>7, QueriedType, Values, SMT DEF Query
  <2> QED
    BY <1>7, <2>2 DEF Query
<1>8. CASE Store(c)
  BY <1>8, Values, KeyType, SMT DEF Store
<1>9. CASE Remember(c)
  <2>1. /\ Return(c, reply[c])
        /\ UNCHANGED <<current, control, switches, pool, cancelled, flights, now, calls, domain,
                       scope, asked>>
    BY <1>9, RememberFrame
  <2> QED
    BY <2>1, Values, SMT
<1> HIDE DEF Fields, Stages, Goto, Return, router, dns, clients
<1> QED
  BY <1>1, <1>2, <1>3, <1>4, <1>5, <1>6, <1>7, <1>8, <1>9 DEF ClientStep

\* So do the steps of the router and of time.
LEMMA FieldsOfRouter == Fields /\ (RouterStep \/ UNCHANGED vars) => Fields'
<1> SUFFICES ASSUME Fields, RouterStep \/ UNCHANGED vars PROVE Fields'
  OBVIOUS
<1> USE DEF Fields, router, dns, clients
<1>1. ASSUME NEW n \in Node, PutProxy(n) \/ URLTestSwitch(n) PROVE Fields'
  <2>1. /\ current' \in Node /\ switches' \in Nat
        /\ UNCHANGED <<pool, cancelled, dns, now, calls, clients>>
    BY <1>1, SMT DEF PutProxy, URLTestSwitch, Select
  <2>2. control' \in BOOLEAN
    BY <1>1 DEF PutProxy, URLTestSwitch
  <2> QED
    BY <2>1, <2>2
<1>2. CASE InvalidateDNSConnections
  <2>1. {pool.id} \ {0} \subseteq 1..calls
    BY PoolParts, SMT
  <2> QED
    <3>1. /\ pool' = NoPool /\ control' \in BOOLEAN /\ cancelled' \subseteq 1..calls
          /\ UNCHANGED <<current, switches, dns, now, calls, clients>>
      BY <1>2, <2>1 DEF InvalidateDNSConnections
    <3>2. pool' \in Pools /\ pool'.id <= calls
      BY <3>1, Values, SMT
    <3> QED
      BY <3>1, <3>2
<1>3. CASE PruneReverse
  BY <1>3, PruneFrame
<1>4. CASE Tick
  BY <1>4, SMT DEF Tick
<1>5. CASE UNCHANGED vars
  BY <1>5 DEF vars
<1> HIDE DEF Fields, router, dns, clients
<1> QED
  BY <1>1, <1>2, <1>3, <1>4, <1>5 DEF RouterStep

-----------------------------------------------------------------------------
\* Numbers.  Only a new call gets one, and only the call that makes a pool gives it to it.
LEMMA NumbersOfClient ==
  ASSUME Fields, Numbers, NEW c \in Client, ClientStep(c)
  PROVE  Numbers'
<1>0. /\ calls \in Nat /\ pool \in Pools /\ pool.id <= calls /\ cancelled \subseteq 1..calls
      /\ pc \in [Client -> Stages] /\ call \in [Client -> 0..calls]
      /\ client \in [Client -> Pools]
      /\ pool.id \in Nat /\ \A d \in Client : client[d].id \in Nat
  BY PoolParts DEF Fields
<1> USE Values, <1>0 DEF Numbers, Numbered, Goto, Return
<1>1. ASSUME NEW d \in Domain, Ask(c, d) PROVE Numbers'
  BY <1>1, SMT DEF Ask
<1>2. CASE AcquirePool(c)
  <2>1. call[c] \in 1..calls
    BY <1>2, SMT DEF AcquirePool
  <2>2. \/ UNCHANGED <<pool, cancelled>> 
        \/ pool'.id = call[c] /\ cancelled' = cancelled \cup ({pool.id} \ {0})
    BY <1>2, <2>1, PoolMade, SMT DEF AcquirePool
  <2>3. pool'.id <= calls
    BY <2>1, <2>2, SMT
  <2>4. client' = [client EXCEPT ![c] = pool'] /\ pc' = [pc EXCEPT ![c] = "lookup"]
        /\ UNCHANGED <<call, calls>>
    BY <1>2 DEF AcquirePool
  <2>5. ASSUME NEW d \in Client, pc'[d] = "pool"
        PROVE  /\ call[d] \notin cancelled' /\ call[d] # pool'.id
               /\ \A e \in Client : client'[e].id # call[d]
    <3>1. d # c /\ call[d] # call[c]
      BY <2>1, <2>4, <2>5
    <3> QED
      BY <2>2, <2>4, <2>5, <3>1
  <2>6. \A d \in Client : pc'[d] \in Numbered => call'[d] # 0
    BY <2>1, <2>4, SMT
  <2>7. \A d \in Client : client'[d].id <= calls'
    BY <2>3, <2>4
  <2>8. \A d, e \in Client : call'[d] = call'[e] /\ call'[d] # 0 => d = e
    BY <2>4
  <2> QED
    BY <2>4, <2>5, <2>6, <2>7, <2>8
<1>3. CASE Hit(c)
  BY <1>3 DEF Hit
<1>4. CASE Miss(c)
  <2>1. /\ pc' = [pc EXCEPT ![c] = "follow"] \/ pc' = [pc EXCEPT ![c] = "query"]
        /\ pc[c] = "lookup" /\ UNCHANGED <<call, calls, client, pool, cancelled>>
    BY <1>4 DEF Miss
  <2> QED
    BY <2>1
<1>5. CASE Followed(c)
  BY <1>5, SMT DEF Followed
<1>6. CASE GiveUp(c)
  BY <1>6, SMT DEF GiveUp
<1>7. CASE Query(c)
  <2>1. /\ pc' = [pc EXCEPT ![c] = "store"] /\ pc[c] = "query"
        /\ UNCHANGED <<call, calls, client, pool, cancelled>>
    BY <1>7 DEF Query
  <2> QED
    BY <2>1
<1>8. CASE Store(c)
  <2>1. /\ pc' = [pc EXCEPT ![c] = IF reply[c].ok THEN "remember" ELSE "done"]
        /\ call' = [call EXCEPT ![c] = 0] /\ client' = [client EXCEPT ![c] = NoPool]
        /\ UNCHANGED <<calls, pool, cancelled>>
    BY <1>8 DEF Store
  <2> QED
    BY <2>1, SMT
<1>9. CASE Remember(c)
  <2>1. /\ pc' = [pc EXCEPT ![c] = "done"]
        /\ call' = [call EXCEPT ![c] = 0] /\ client' = [client EXCEPT ![c] = NoPool]
        /\ UNCHANGED <<calls, pool, cancelled>>
    BY <1>9, RememberFrame
  <2> QED
    BY <2>1, SMT
<1> HIDE Values, <1>0 DEF Numbers, Numbered, Goto, Return
<1> QED
  BY <1>1, <1>2, <1>3, <1>4, <1>5, <1>6, <1>7, <1>8, <1>9 DEF ClientStep

\* An invalidation cancels a pool that has been made.
LEMMA NumbersOfRouter == Fields /\ Numbers /\ (RouterStep \/ UNCHANGED vars) => Numbers'
<1> SUFFICES ASSUME Fields, Numbers, RouterStep \/ UNCHANGED vars PROVE Numbers'
  OBVIOUS
<1> USE DEF Numbers, router, dns, clients
<1>1. CASE InvalidateDNSConnections
  <2>1. /\ pool' = NoPool /\ cancelled' = cancelled \cup ({pool.id} \ {0})
        /\ UNCHANGED <<calls, clients>>
    BY <1>1 DEF InvalidateDNSConnections
  <2> QED
    BY <2>1, Values DEF Numbered
<1>2. ASSUME UNCHANGED <<pool, cancelled, calls, clients>> PROVE Numbers'
  BY <1>2
<1>3. ASSUME NEW n \in Node, PutProxy(n) \/ URLTestSwitch(n) PROVE Numbers'
  BY <1>2, <1>3 DEF PutProxy, URLTestSwitch, Select
<1>4. CASE PruneReverse
  BY <1>2, <1>4, PruneFrame
<1>5. CASE Tick
  BY <1>2, <1>5 DEF Tick
<1>6. CASE UNCHANGED vars
  BY <1>2, <1>6 DEF vars
<1> HIDE DEF Numbers, router, dns, clients
<1> QED
  BY <1>1, <1>3, <1>4, <1>5, <1>6 DEF RouterStep

-----------------------------------------------------------------------------
\* A pool that is replaced or invalidated is cancelled, and a new one is not: its number is
\* that of a call which had none.
LEMMA PoolStep ==
  Fields /\ Numbers /\ OnlyCurrentPoolLive /\ [Next]_vars => OnlyCurrentPoolLive'
<1> SUFFICES ASSUME Fields, Numbers, OnlyCurrentPoolLive, [Next]_vars
             PROVE  OnlyCurrentPoolLive'
  OBVIOUS
<1>0. /\ calls \in Nat /\ pool \in Pools /\ pool.id <= calls /\ cancelled \subseteq 1..calls
      /\ call \in [Client -> 0..calls] /\ client \in [Client -> Pools]
  BY DEF Fields
<1> USE <1>0, Values DEF OnlyCurrentPoolLive
<1>1. ASSUME NEW c \in Client, AcquirePool(c) PROVE OnlyCurrentPoolLive'
  <2>1. /\ call[c] \in 1..calls /\ call[c] \notin cancelled /\ call[c] # pool.id
        /\ \A d \in Client : client[d].id # call[c]
    BY <1>1, SMT DEF AcquirePool, Numbers, Numbered
  <2>2. client' = [client EXCEPT ![c] = pool']
    BY <1>1 DEF AcquirePool
  <2>3. CASE UNCHANGED <<pool, cancelled>>
    BY <2>2, <2>3
  <2>4. CASE pool'.id = call[c] /\ cancelled' = cancelled \cup ({pool.id} \ {0})
    <3>1. ASSUME NEW d \in Client, client'[d].id # 0, client'[d].id \notin cancelled'
          PROVE  client'[d] = pool'
      BY <2>2, <2>4, <3>1
    <3> QED
      BY <2>1, <2>4, <3>1
  <2> QED
    BY <1>1, <2>1, <2>3, <2>4, PoolMade, SMTT(30) DEF AcquirePool
<1>2. CASE InvalidateDNSConnections
  <2>1. /\ pool' = NoPool /\ cancelled' = cancelled \cup ({pool.id} \ {0})
        /\ client' = client
    BY <1>2 DEF InvalidateDNSConnections, clients
  <2> QED
    BY <2>1, SMT
<1>3. ASSUME UNCHANGED <<pool, cancelled>>,
             UNCHANGED client \/ \E c \in Client : client' = [client EXCEPT ![c] = NoPool]
      PROVE  OnlyCurrentPoolLive'
  BY <1>3
<1>4. ASSUME NEW c \in Client, NEW d \in Domain, Ask(c, d) PROVE OnlyCurrentPoolLive'
  BY <1>3, <1>4 DEF Ask
<1>5. ASSUME NEW c \in Client, Hit(c) \/ Miss(c) \/ Query(c) PROVE OnlyCurrentPoolLive'
  <2>1. UNCHANGED <<pool, cancelled>>
    BY <1>5 DEF Hit, Miss, Query
  <2>2. UNCHANGED client \/ client' = [client EXCEPT ![c] = NoPool]
    BY <1>5 DEF Hit, Miss, Query
  <2> QED
    BY <1>3, <2>1, <2>2
<1>6. ASSUME NEW c \in Client, Followed(c) \/ GiveUp(c) \/ Store(c) \/ Remember(c)
      PROVE  OnlyCurrentPoolLive'
  <2>1. UNCHANGED <<pool, cancelled>> /\ client' = [client EXCEPT ![c] = NoPool]
    BY <1>6, RememberFrame DEF Followed, GiveUp, Store, Return
  <2> QED
    BY <1>3, <2>1
<1>7. ASSUME NEW n \in Node, PutProxy(n) \/ URLTestSwitch(n) PROVE OnlyCurrentPoolLive'
  BY <1>3, <1>7 DEF PutProxy, URLTestSwitch, Select, clients
<1>8. CASE PruneReverse
  BY <1>3, <1>8, PruneFrame DEF clients
<1>9. CASE Tick
  BY <1>3, <1>9 DEF Tick, clients
<1>10. CASE UNCHANGED vars
  BY <1>3, <1>10 DEF vars, clients
<1> HIDE <1>0, Values DEF OnlyCurrentPoolLive
<1> QED
  BY <1>1, <1>2, <1>4, <1>5, <1>6, <1>7, <1>8, <1>9, <1>10 DEF Next

-----------------------------------------------------------------------------
\* What the flights and the followers depend on is left alone.
NoFlight == UNCHANGED <<flights, flight, call, scope, domain>>

\* Flights.  A leader lists its flight when none is listed for its key, and takes it off the
\* list when it leaves the stages of a leader.
LEMMA FlightsStep == Fields /\ Numbers /\ Flights /\ [Next]_vars => Flights'
<1> SUFFICES ASSUME Fields, Numbers, Flights, [Next]_vars PROVE Flights'
  OBVIOUS
<1>0. /\ pc \in [Client -> Stages] /\ calls \in Nat /\ call \in [Client -> 0..calls]
      /\ flights \in [Keys -> 0..calls] /\ flight \in [Client -> 0..calls]
      /\ scope \in [Client -> Node] /\ domain \in [Client -> Domain]
  BY DEF Fields
<1> USE <1>0 DEF Flights, Leads, Key
<1>1. ASSUME NoFlight, NEW c \in Client, NEW stage,
             pc' = [pc EXCEPT ![c] = stage],
             \/ pc[c] \notin {"query", "store"} /\ stage \notin {"query", "store"}
             \/ pc[c] \in {"query", "store"} /\ stage \in {"query", "store"}
      PROVE  Flights'
  BY <1>1 DEF NoFlight
<1>2. ASSUME NoFlight, UNCHANGED pc PROVE Flights'
  BY <1>2 DEF NoFlight
<1>3. ASSUME NEW c \in Client, NEW d \in Domain, Ask(c, d) PROVE Flights'
  <2>1. /\ pc[c] \notin {"query", "store"} /\ pc' = [pc EXCEPT ![c] = "pool"]
        /\ call' = [call EXCEPT ![c] = calls + 1] /\ domain' = [domain EXCEPT ![c] = d]
        /\ scope' = [scope EXCEPT ![c] = current] /\ UNCHANGED flights
    BY <1>3 DEF Ask, Goto, dns
  <2> QED
    BY <2>1
<1>4. ASSUME NEW c \in Client, AcquirePool(c) PROVE Flights'
  BY <1>1, <1>4 DEF AcquirePool, Goto, dns, NoFlight
<1>5. ASSUME NEW c \in Client, Hit(c) PROVE Flights'
  BY <1>1, <1>5 DEF Hit, Goto, dns, NoFlight
<1>6. ASSUME NEW c \in Client, Miss(c) PROVE Flights'
  <2>1. pc[c] = "lookup" /\ UNCHANGED <<call, scope, domain>>
    BY <1>6 DEF Miss
  <2>2. CASE pc' = [pc EXCEPT ![c] = "follow"] /\ UNCHANGED flights
    BY <2>1, <2>2
  <2>3. CASE /\ flights[Key(c)] = 0 /\ pc' = [pc EXCEPT ![c] = "query"]
             /\ flights' = [flights EXCEPT ![Key(c)] = call[c]]
    <3> HIDE DEF Key
    <3>1. \A e \in Client : Key(e)' = Key(e) /\ Key(e) \in Keys
      BY <2>1, KeyType DEF Key
    <3>2. ASSUME NEW e \in Client, Leads(e)' PROVE flights'[Key(e)'] = call'[e]
      <4>1. CASE e = c
        BY <2>1, <2>3, <3>1, <4>1
      <4>2. CASE e # c
        <5>1. Leads(e) /\ Key(e) # Key(c)
          BY <2>3, <3>2, <4>2, Values, SMT DEF Numbers, Numbered
        <5> QED
          BY <2>1, <2>3, <3>1, <5>1
      <4> QED
        BY <4>1, <4>2
    <3>3. ASSUME NEW k \in Keys, flights'[k] # 0
          PROVE  \E e \in Client : Leads(e)' /\ Key(e)' = k /\ call'[e] = flights'[k]
      <4>1. CASE k = Key(c)
        <5>1. Leads(c)' /\ Key(c)' = k /\ call'[c] = flights'[k]
          BY <2>1, <2>3, <3>1, <4>1
        <5> QED
          BY <5>1
      <4>2. CASE k # Key(c)
        <5>1. flights[k] = flights'[k] /\ flights[k] # 0
          BY <2>3, <3>3, <4>2
        <5>2. PICK e \in Client : Leads(e) /\ Key(e) = k /\ call[e] = flights[k]
          BY <5>1
        <5>3. Leads(e)'
          BY <2>3, <4>2, <5>2
        <5> QED
          BY <2>1, <3>1, <5>1, <5>2, <5>3
      <4> QED
        BY <4>1, <4>2
    <3> QED
      BY <3>2, <3>3
  <2> QED
    BY <1>6, <2>2, <2>3 DEF Miss, Goto
<1>7. ASSUME NEW c \in Client, Followed(c) PROVE Flights'
  <2>1. /\ pc[c] = "follow" /\ pc' = [pc EXCEPT ![c] = "done"]
        /\ call' = [call EXCEPT ![c] = 0] /\ UNCHANGED <<flights, scope, domain>>
    BY <1>7 DEF Followed, Return, Goto, dns
  <2> QED
    BY <2>1
<1>8. ASSUME NEW c \in Client, GiveUp(c) PROVE Flights'
  <2>1. /\ pc[c] = "follow" /\ pc' = [pc EXCEPT ![c] = "done"]
        /\ call' = [call EXCEPT ![c] = 0] /\ UNCHANGED <<flights, scope, domain>>
    BY <1>8 DEF GiveUp, Return, Goto, dns
  <2> QED
    BY <2>1
<1>9. ASSUME NEW c \in Client, Query(c) PROVE Flights'
  BY <1>1, <1>9 DEF Query, Goto, dns, NoFlight
<1>10. ASSUME NEW c \in Client, Store(c) PROVE Flights'
  <2>1. /\ pc[c] = "store" /\ call' = [call EXCEPT ![c] = 0]
        /\ pc' = [pc EXCEPT ![c] = IF reply[c].ok THEN "remember" ELSE "done"]
        /\ flights' = [flights EXCEPT ![Key(c)] = 0] /\ UNCHANGED <<scope, domain>>
    BY <1>10 DEF Store, Goto
  <2> HIDE DEF Key
  <2>2. \A e \in Client : Key(e)' = Key(e) /\ Key(e) \in Keys
    BY <2>1, KeyType DEF Key
  <2>3. \A e \in Client : Leads(e)' <=> Leads(e) /\ e # c
    BY <2>1
  <2>4. \A e \in Client : Leads(e) /\ e # c => Key(e) # Key(c)
    BY <2>1, SMT DEF Numbers, Numbered
  <2>5. ASSUME NEW e \in Client, Leads(e)' PROVE flights'[Key(e)'] = call'[e]
    BY <2>1, <2>2, <2>3, <2>4, <2>5, SMTT(30)
  <2>6. ASSUME NEW k \in Keys, flights'[k] # 0
        PROVE  \E e \in Client : Leads(e)' /\ Key(e)' = k /\ call'[e] = flights'[k]
    <3>1. k # Key(c) /\ flights'[k] = flights[k]
      BY <2>1, <2>2, <2>6
    <3>2. PICK e \in Client : Leads(e) /\ Key(e) = k /\ call[e] = flights[k]
      BY <2>6, <3>1
    <3> QED
      BY <2>1, <2>2, <2>3, <3>1, <3>2, SMT
  <2> QED
    BY <2>5, <2>6
<1>11. ASSUME NEW c \in Client, Remember(c) PROVE Flights'
  <2>1. /\ pc[c] = "remember" /\ pc' = [pc EXCEPT ![c] = "done"]
        /\ call' = [call EXCEPT ![c] = 0] /\ UNCHANGED <<flights, scope, domain>>
    BY <1>11, RememberFrame DEF Return, Goto
  <2> QED
    BY <2>1
<1>12. ASSUME NEW n \in Node, PutProxy(n) \/ URLTestSwitch(n) PROVE Flights'
  BY <1>2, <1>12 DEF PutProxy, URLTestSwitch, Select, clients, dns, NoFlight
<1>13. CASE InvalidateDNSConnections
  BY <1>2, <1>13 DEF InvalidateDNSConnections, clients, dns, NoFlight
<1>14. CASE PruneReverse
  BY <1>2, <1>14, PruneFrame DEF clients, NoFlight
<1>15. CASE Tick
  BY <1>2, <1>15 DEF Tick, clients, dns, NoFlight
<1>16. CASE UNCHANGED vars
  BY <1>2, <1>16 DEF vars, clients, dns, NoFlight
<1> HIDE <1>0 DEF Flights, Leads, Key
<1> QED
  BY <1>3, <1>4, <1>5, <1>6, <1>7, <1>8, <1>9, <1>10, <1>11, <1>12, <1>13, <1>14, <1>15, <1>16
  DEF Next

\* A follower waits for the flight that is listed for its key, whose leader lets it go when it
\* leaves; the numbers keep it from waiting for a later call.
LEMMA FollowerStep ==
  Fields /\ Numbers /\ Flights /\ FollowerHasLeader /\ [Next]_vars => FollowerHasLeader'
<1> SUFFICES ASSUME Fields, Numbers, Flights, FollowerHasLeader, [Next]_vars
             PROVE  FollowerHasLeader'
  OBVIOUS
<1>0. /\ pc \in [Client -> Stages] /\ calls \in Nat /\ call \in [Client -> 0..calls]
      /\ flights \in [Keys -> 0..calls] /\ flight \in [Client -> 0..calls]
      /\ scope \in [Client -> Node] /\ domain \in [Client -> Domain]
  BY DEF Fields
<1> USE <1>0 DEF FollowerHasLeader, Leads, Key
<1>1. ASSUME NEW c \in Client, NEW stage, pc' = [pc EXCEPT ![c] = stage], stage # "follow",
             pc[c] \in {"query", "store"} => stage \in {"query", "store"} /\ call'[c] = call[c],
             \A d \in Client : d # c => call'[d] = call[d] /\ flight'[d] = flight[d],
             UNCHANGED <<scope, domain>>
      PROVE  FollowerHasLeader'
  <2> SUFFICES ASSUME NEW e \in Client, pc'[e] = "follow", flight'[e] # 0
               PROVE  \E d \in Client : Leads(d)' /\ call'[d] = flight'[e] /\ Key(d)' = Key(e)'
    OBVIOUS
  <2>1. e # c /\ pc[e] = "follow" /\ flight[e] # 0
    BY <1>1
  <2>2. PICK d \in Client : Leads(d) /\ call[d] = flight[e] /\ Key(d) = Key(e)
    BY <2>1
  <2>3. Leads(d)' /\ call'[d] = call[d]
    BY <1>1, <2>2
  <2> QED
    BY <1>1, <2>1, <2>2, <2>3, SMT
<1>2. ASSUME UNCHANGED <<pc, call, flight, scope, domain>> PROVE FollowerHasLeader'
  BY <1>2
<1>3. ASSUME NEW c \in Client, NEW d \in Domain, Ask(c, d) PROVE FollowerHasLeader'
  <2>1. /\ pc[c] \in {"idle", "done"} /\ pc' = [pc EXCEPT ![c] = "pool"]
        /\ call' = [call EXCEPT ![c] = calls + 1] /\ domain' = [domain EXCEPT ![c] = d]
        /\ scope' = [scope EXCEPT ![c] = current] /\ UNCHANGED flight
    BY <1>3 DEF Ask, Goto
  <2> QED
    BY <2>1, SMT
<1>4. ASSUME NEW c \in Client, AcquirePool(c) PROVE FollowerHasLeader'
  BY <1>1, <1>4 DEF AcquirePool, Goto
<1>5. ASSUME NEW c \in Client, Hit(c) PROVE FollowerHasLeader'
  BY <1>1, <1>5 DEF Hit, Goto
<1>6. ASSUME NEW c \in Client, Miss(c) PROVE FollowerHasLeader'
  <2>1. pc[c] = "lookup" /\ UNCHANGED <<call, scope, domain>>
    BY <1>6 DEF Miss
  <2>2. CASE /\ flights[Key(c)] # 0 /\ pc' = [pc EXCEPT ![c] = "follow"]
             /\ flight' = [flight EXCEPT ![c] = flights[Key(c)]]
    <3> SUFFICES ASSUME NEW e \in Client, pc'[e] = "follow", flight'[e] # 0
                 PROVE  \E d \in Client : Leads(d)' /\ call'[d] = flight'[e] /\ Key(d)' = Key(e)'
      OBVIOUS
    <3>1. PICK d \in Client : Leads(d) /\ call[d] = flight'[e] /\ Key(d) = Key(e)
      <4>1. CASE e = c
        BY <2>2, <4>1, KeyType DEF Flights
      <4>2. CASE e # c
        BY <2>2, <4>2
      <4> QED
        BY <4>1, <4>2
    <3> QED
      BY <2>1, <2>2, <3>1
  <2>3. CASE pc' = [pc EXCEPT ![c] = "query"] /\ UNCHANGED flight
    BY <1>1, <2>1, <2>3
  <2> QED
    BY <1>6, <2>2, <2>3 DEF Miss, Goto
<1>7. ASSUME NEW c \in Client, Followed(c) \/ GiveUp(c) PROVE FollowerHasLeader'
  <2>1. /\ pc[c] = "follow" /\ pc' = [pc EXCEPT ![c] = "done"]
        /\ call' = [call EXCEPT ![c] = 0] /\ flight' = [flight EXCEPT ![c] = 0]
        /\ UNCHANGED <<scope, domain>>
    BY <1>7 DEF Followed, GiveUp, Return, Goto
  <2> QED
    BY <1>1, <2>1
<1>8. ASSUME NEW c \in Client, Query(c) PROVE FollowerHasLeader'
  BY <1>1, <1>8 DEF Query, Goto
<1>9. ASSUME NEW c \in Client, Store(c) PROVE FollowerHasLeader'
  <2>1. /\ pc[c] = "store" /\ call' = [call EXCEPT ![c] = 0]
        /\ pc' = [pc EXCEPT ![c] = IF reply[c].ok THEN "remember" ELSE "done"]
        /\ flight' = [d \in Client |-> IF d \in Followers(c) THEN 0 ELSE flight[d]]
        /\ UNCHANGED <<scope, domain>>
    BY <1>9 DEF Store, Goto
  <2> SUFFICES ASSUME NEW e \in Client, pc'[e] = "follow", flight'[e] # 0
               PROVE  \E d \in Client : Leads(d)' /\ call'[d] = flight'[e] /\ Key(d)' = Key(e)'
    OBVIOUS
  <2>2. e # c /\ pc[e] = "follow" /\ flight[e] # 0 /\ flight[e] # call[c] /\ flight'[e] = flight[e]
    BY <2>1 DEF Followers
  <2>3. PICK d \in Client : Leads(d) /\ call[d] = flight[e] /\ Key(d) = Key(e)
    BY <2>2
  <2>4. d # c
    BY <2>2, <2>3
  <2> QED
    BY <2>1, <2>2, <2>3, <2>4
<1>10. ASSUME NEW c \in Client, Remember(c) PROVE FollowerHasLeader'
  <2>1. /\ pc[c] = "remember" /\ pc' = [pc EXCEPT ![c] = "done"]
        /\ call' = [call EXCEPT ![c] = 0] /\ flight' = [flight EXCEPT ![c] = 0]
        /\ UNCHANGED <<scope, domain>>
    BY <1>10, RememberFrame DEF Return, Goto
  <2> QED
    BY <1>1, <2>1
<1>11. ASSUME NEW n \in Node, PutProxy(n) \/ URLTestSwitch(n) PROVE FollowerHasLeader'
  BY <1>2, <1>11 DEF PutProxy, URLTestSwitch, Select, clients
<1>12. CASE InvalidateDNSConnections
  BY <1>2, <1>12 DEF InvalidateDNSConnections, clients
<1>13. CASE PruneReverse
  BY <1>2, <1>13, PruneFrame DEF clients
<1>14. CASE Tick
  BY <1>2, <1>14 DEF Tick, clients
<1>15. CASE UNCHANGED vars
  BY <1>2, <1>15 DEF vars, clients
<1> HIDE <1>0 DEF FollowerHasLeader, Leads, Key
<1> QED
  BY <1>3, <1>4, <1>5, <1>6, <1>7, <1>8, <1>9, <1>10, <1>11, <1>12, <1>13, <1>14, <1>15 DEF Next

-----------------------------------------------------------------------------
\* The clients a leader answers asked for the same key.
LEMMA FollowersKey ==
  ASSUME Fields, Numbers, FollowerHasLeader, NEW c \in Client, pc[c] = "store",
         NEW d \in Followers(c)
  PROVE  d \in Client /\ scope[d] = scope[c]
<1>1. d \in Client /\ pc[d] = "follow" /\ flight[d] = call[c] /\ call[c] # 0
  BY DEF Followers, Numbers, Numbered
<1>2. PICK e \in Client : call[e] = flight[d] /\ Key(e) = Key(d)
  BY <1>1 DEF FollowerHasLeader
<1>3. e = c
  BY <1>1, <1>2 DEF Numbers
<1> QED
  BY <1>1, <1>2, <1>3 DEF Key

\* Origin.  A reply is made by the pool of the call, found in the cache under its scope, or
\* left by a leader of the same scope.
LEMMA OriginStep ==
  Fields /\ Numbers /\ Messages /\ FollowerHasLeader /\ Origin /\ [Next]_vars => Origin'
<1> SUFFICES ASSUME Fields, Numbers, Messages, FollowerHasLeader, Origin, [Next]_vars
             PROVE  Origin'
  OBVIOUS
<1>0. /\ pc \in [Client -> Stages] /\ scope \in [Client -> Node]
      /\ client \in [Client -> Pools] /\ reply \in [Client -> Replies]
  BY DEF Fields
<1> USE <1>0, Values DEF Origin, Goto, Return
<1>1. ASSUME NEW c \in Client, NEW d \in Domain, Ask(c, d) PROVE Origin'
  BY <1>1 DEF Ask
<1>2. ASSUME NEW c \in Client, AcquirePool(c) PROVE Origin'
  <2>1. pool'.node = scope[c]
    BY <1>2, PoolMade, SMT DEF AcquirePool
  <2> QED
    BY <1>2, <2>1 DEF AcquirePool
<1>3. ASSUME NEW c \in Client, Hit(c) PROVE Origin'
  <2>1. Aged(messages[Key(c)]).node = scope[c]
    BY <1>3, KeyType DEF Hit, Messages, Aged, Answer
  <2> QED
    BY <1>3, <2>1 DEF Hit
<1>4. ASSUME NEW c \in Client, Miss(c) PROVE Origin'
  <2>1. /\ pc[c] = "lookup" /\ UNCHANGED <<client, scope, reply>>
        /\ pc' = [pc EXCEPT ![c] = "follow"] \/ pc' = [pc EXCEPT ![c] = "query"]
    BY <1>4 DEF Miss
  <2> QED
    BY <2>1
<1>5. ASSUME NEW c \in Client, Followed(c) PROVE Origin'
  BY <1>5 DEF Followed
<1>6. ASSUME NEW c \in Client, GiveUp(c) PROVE Origin'
  BY <1>6 DEF GiveUp
<1>7. ASSUME NEW c \in Client, Query(c) PROVE Origin'
  <2>1. \A t, u : Answer(client[c].node, t, u).node = scope[c]
    BY <1>7 DEF Query, Answer
  <2>2. reply'[c].ok => reply'[c].node = scope[c]
    BY <1>7, <2>1, SMT DEF Query
  <2>3. \A d \in Client : d # c => reply'[d] = reply[d]
    BY <1>7 DEF Query
  <2> QED
    BY <1>7, <2>2, <2>3 DEF Query
<1>8. ASSUME NEW c \in Client, Store(c) PROVE Origin'
  <2>1. /\ pc[c] = "store" /\ client' = [client EXCEPT ![c] = NoPool]
        /\ pc' = [pc EXCEPT ![c] = IF reply[c].ok THEN "remember" ELSE "done"]
        /\ reply' = [d \in Client |-> IF d \in Followers(c) THEN reply[c] ELSE reply[d]]
        /\ UNCHANGED scope
    BY <1>8 DEF Store
  <2>2. \A d \in Client : d \in Followers(c) => scope[d] = scope[c]
    BY <2>1, FollowersKey
  <2> QED
    BY <2>1, <2>2
<1>9. ASSUME NEW c \in Client, Remember(c) PROVE Origin'
  <2>1. /\ pc' = [pc EXCEPT ![c] = "done"] /\ client' = [client EXCEPT ![c] = NoPool]
        /\ reply' = [reply EXCEPT ![c] = reply[c]] /\ UNCHANGED scope
    BY <1>9, RememberFrame
  <2> QED
    BY <2>1
<1>10. ASSUME UNCHANGED clients PROVE Origin'
  BY <1>10 DEF clients
<1>11. ASSUME NEW n \in Node, PutProxy(n) \/ URLTestSwitch(n) PROVE Origin'
  BY <1>10, <1>11 DEF PutProxy, URLTestSwitch, Select
<1>12. CASE InvalidateDNSConnections
  BY <1>10, <1>12 DEF InvalidateDNSConnections
<1>13. CASE PruneReverse
  BY <1>10, <1>13, PruneFrame
<1>14. CASE Tick
  BY <1>10, <1>14 DEF Tick
<1>15. CASE UNCHANGED vars
  BY <1>10, <1>15 DEF vars
<1> HIDE <1>0, Values DEF Origin, Goto, Return
<1> QED
  BY <1>1, <1>2, <1>3, <1>4, <1>5, <1>6, <1>7, <1>8, <1>9, <1>11, <1>12, <1>13, <1>14, <1>15, SMTT(30) DEF Next

-----------------------------------------------------------------------------
\* The eviction of the message cache makes room for one more, and only drops messages.
LEMMA EvictionsFit ==
  ASSUME Messages, Bounded, NEW when \in Nat, NEW ms \in Evictions(when)
  PROVE  /\ ms \in [Keys -> {Nothing} \cup Message]
         /\ \A k \in Keys : ms[k] = messages[k] \/ ms[k] = Nothing
         /\ IsFiniteSet(Present(ms)) /\ Cardinality(Present(ms)) < MessageCap
<1> DEFINE kept == [k \in Keys |-> IF messages[k].ok /\ messages[k].expires < when
                                     THEN Nothing ELSE messages[k]]
<1>1. /\ kept \in [Keys -> {Nothing} \cup Message]
      /\ \A k \in Keys : kept[k] = messages[k] \/ kept[k] = Nothing
  BY DEF Messages
<1>2. Present(kept) \subseteq Present(messages)
  BY <1>1, Values DEF Present
<1>3. IsFiniteSet(Present(kept)) /\ Cardinality(Present(kept)) <= Cardinality(Present(messages))
  BY <1>2, FS_Subset DEF Bounded
<1>4. Cardinality(Present(messages)) \in Nat /\ Cardinality(Present(kept)) \in Nat
  BY <1>3, FS_CardinalityType DEF Bounded
<1>5. \/ ms = messages /\ Cardinality(Present(messages)) < MessageCap
      \/ ms = kept /\ Cardinality(Present(kept)) < MessageCap
      \/ \E k \in Present(kept) : ms = [kept EXCEPT ![k] = Nothing]
  BY DEF Evictions
<1> HIDE DEF kept
<1>6. CASE ms = messages /\ Cardinality(Present(messages)) < MessageCap
  BY <1>6 DEF Messages, Bounded
<1>7. CASE ms = kept /\ Cardinality(Present(kept)) < MessageCap
  BY <1>1, <1>3, <1>7
<1>8. ASSUME NEW k \in Present(kept), ms = [kept EXCEPT ![k] = Nothing]
      PROVE  /\ ms \in [Keys -> {Nothing} \cup Message]
             /\ \A j \in Keys : ms[j] = messages[j] \/ ms[j] = Nothing
             /\ IsFiniteSet(Present(ms)) /\ Cardinality(Present(ms)) < MessageCap
  <2>1. Present(ms) = Present(kept) \ {k}
    BY <1>1, <1>8, Values DEF Present
  <2>2. IsFiniteSet(Present(ms)) /\ Cardinality(Present(ms)) = Cardinality(Present(kept)) - 1
    BY <1>3, <1>8, <2>1, FS_RemoveElement
  <2>3. Cardinality(Present(ms)) < MessageCap
    BY <1>3, <1>4, <2>2, DnsAssumption, SMT DEF Bounded
  <2> QED
    BY <1>1, <1>8, <2>2, <2>3
<1> QED
  BY <1>5, <1>6, <1>7, <1>8

\* Messages and their number: only Store writes the cache.
LEMMA MessagesStep ==
  /\ Fields /\ Origin /\ Messages /\ Bounded /\ [Next]_vars
  => Messages' /\ Bounded'
<1> SUFFICES ASSUME Fields, Origin, Messages, Bounded, [Next]_vars
             PROVE  Messages' /\ Bounded'
  OBVIOUS
<1>0. now \in Nat
  BY DEF Fields
<1>1. ASSUME UNCHANGED messages, now' \in Nat, now' >= now PROVE Messages' /\ Bounded'
  <2>1. \A k \in Keys : messages[k].ok => messages[k].stored \in Nat
    BY Values DEF Messages, Message
  <2>2. Messages'
    BY <1>0, <1>1, <2>1, SMT DEF Messages
  <2> QED
    BY <1>1, <2>2 DEF Bounded, Present
<1>2. ASSUME NEW c \in Client, Store(c) PROVE Messages' /\ Bounded'
  <2>1. CASE UNCHANGED messages
    BY <1>0, <1>1, <1>2, <2>1, SMT DEF Store
  <2>2. CASE reply[c].ok /\ CacheTTL(reply[c]) > 0
    <3>1. PICK ms \in Evictions(asked[c]) : messages' = [ms EXCEPT ![Key(c)] = Cached(reply[c])]
      BY <1>2, <2>2 DEF Store
    <3>2. /\ ms \in [Keys -> {Nothing} \cup Message]
          /\ \A k \in Keys : ms[k] = messages[k] \/ ms[k] = Nothing
          /\ IsFiniteSet(Present(ms)) /\ Cardinality(Present(ms)) < MessageCap
      BY <3>1, EvictionsFit DEF Fields
    <3>3. /\ reply[c].ttl \in Nat /\ reply[c].due \in Nat /\ reply[c].node \in Node
          /\ reply[c].node = scope[c]
      BY <2>2, ReplyParts DEF Fields, Origin
    <3> DEFINE m == Cached(reply[c])
    <3>5. /\ m \in Message /\ m.ok /\ m.node = scope[c] /\ m.stored = now
          /\ m.expires <= m.stored + 2 * m.ttl
      BY <3>3, CachedParts DEF Fields
    <3>6. now' = now /\ Key(c) \in Keys /\ Key(c)[1] = scope[c] /\ now \in Nat
      BY <1>2, KeyType DEF Store, Fields
    <3> HIDE DEF m
    <3>7. messages' \in [Keys -> {Nothing} \cup Message]
      BY <3>1, <3>2, <3>5, <3>6 DEF m
    <3>8. ASSUME NEW k \in Keys, messages'[k].ok
          PROVE  /\ messages'[k].node = k[1] /\ messages'[k].stored <= now'
                 /\ messages'[k].expires <= messages'[k].stored + 2 * messages'[k].ttl
      <4>1. CASE k = Key(c)
        <5>1. messages'[k] = m
          BY <3>1, <3>2, <3>6, <4>1 DEF m
        <5> QED
          BY <3>5, <3>6, <4>1, <5>1, SMT
      <4>2. CASE k # Key(c)
        <5>1. messages'[k] = ms[k]
          BY <3>1, <3>2, <4>2
        <5>2. messages'[k] = messages[k]
          BY <3>2, <3>8, <5>1, Values
        <5> QED
          BY <3>6, <3>8, <5>2 DEF Messages
      <4> QED
        BY <4>1, <4>2
    <3>9. Present(messages') = Present(ms) \cup {Key(c)}
      BY <3>1, <3>2, <3>5, <3>6 DEF Present, m
    <3>10. /\ IsFiniteSet(Present(messages'))
           /\ Cardinality(Present(messages')) <= Cardinality(Present(ms)) + 1
      <4>1. Cardinality(Present(ms)) \in Nat
        BY <3>2, FS_CardinalityType
      <4> QED
        BY <3>2, <3>9, <4>1, FS_AddElement, SMTT(30)
    <3>11. Cardinality(Present(messages')) <= MessageCap
      <4>1. Cardinality(Present(ms)) \in Nat /\ Cardinality(Present(messages')) \in Nat
        BY <3>2, <3>10, FS_CardinalityType
      <4> QED
        BY <3>2, <3>10, <4>1, DnsAssumption, SMT
    <3>12. Messages'
      BY <3>7, <3>8 DEF Messages
    <3>13. Bounded'
      BY <3>10, <3>11 DEF Bounded, Present
    <3> QED
      BY <3>12, <3>13
  <2> QED
    BY <1>2, <2>1, <2>2 DEF Store
<1>3. ASSUME NEW c \in Client, NEW d \in Domain, Ask(c, d) PROVE Messages' /\ Bounded'
  <2>1. UNCHANGED messages /\ now' \in Nat /\ now' >= now
    BY <1>0, <1>3, SMT DEF Ask, dns
  <2> QED
    BY <1>1, <2>1
<1>4. ASSUME NEW c \in Client, AcquirePool(c) \/ Hit(c) \/ Miss(c)
      PROVE  Messages' /\ Bounded'
  <2>1. UNCHANGED messages /\ now' \in Nat /\ now' >= now
    <3>1. CASE AcquirePool(c)
      BY <1>0, <3>1, SMT DEF AcquirePool, dns
    <3>2. CASE Hit(c)
      BY <1>0, <3>2, SMTT(30) DEF Hit, dns
    <3>3. CASE Miss(c)
      BY <1>0, <3>3, SMTT(30) DEF Miss
    <3> QED
      BY <1>4, <3>1, <3>2, <3>3
  <2> QED
    BY <1>1, <2>1
<1>5. ASSUME NEW c \in Client, Followed(c) \/ GiveUp(c) \/ Query(c)
      PROVE  Messages' /\ Bounded'
  <2>1. UNCHANGED messages /\ now' \in Nat /\ now' >= now
    BY <1>0, <1>5, SMTT(30) DEF Followed, GiveUp, Query, dns
  <2> QED
    BY <1>1, <2>1
<1>6. ASSUME NEW c \in Client, Remember(c) PROVE Messages' /\ Bounded'
  <2>1. UNCHANGED messages /\ now' \in Nat /\ now' >= now
    BY <1>0, <1>6, RememberFrame, SMTT(30)
  <2> QED
    BY <1>1, <2>1
<1>7. ASSUME NEW n \in Node, PutProxy(n) \/ URLTestSwitch(n) PROVE Messages' /\ Bounded'
  <2>1. UNCHANGED messages /\ now' \in Nat /\ now' >= now
    BY <1>0, <1>7, SMT DEF PutProxy, URLTestSwitch, Select, dns
  <2> QED
    BY <1>1, <2>1
<1>8. CASE InvalidateDNSConnections
  <2>1. UNCHANGED messages /\ now' \in Nat /\ now' >= now
    BY <1>0, <1>8, SMT DEF InvalidateDNSConnections, dns
  <2> QED
    BY <1>1, <2>1
<1>9. CASE PruneReverse
  <2>1. UNCHANGED messages /\ now' \in Nat /\ now' >= now
    BY <1>0, <1>9, PruneFrame, SMTT(30)
  <2> QED
    BY <1>1, <2>1
<1>10. CASE Tick
  <2>1. UNCHANGED messages /\ now' \in Nat /\ now' >= now
    BY <1>0, <1>10, SMT DEF Tick, dns
  <2> QED
    BY <1>1, <2>1
<1>11. CASE UNCHANGED vars
  <2>1. UNCHANGED messages /\ now' \in Nat /\ now' >= now
    BY <1>0, <1>11, SMT DEF vars, dns
  <2> QED
    BY <1>1, <2>1
<1> QED
  BY <1>2, <1>3, <1>4, <1>5, <1>6, <1>7, <1>8, <1>9, <1>10, <1>11 DEF Next

-----------------------------------------------------------------------------
\* A message that is served, aged, ends less than two half seconds late.
LEMMA AgedInTime ==
  \A n, stored, ttl, due \in Nat :
    stored <= n /\ stored + 2 * ttl <= due => n + 2 * (ttl - (n - stored) \div 2) < due + 2
BY SMT

\* Times, where a step makes no reply and no message and the clock stands still.
LEMMA TimesKeep ==
  ASSUME Times, UNCHANGED <<messages, now>>,
         \A c \in Client : pc'[c] \in {"store", "remember"} => pc'[c] = pc[c] /\ reply'[c] = reply[c]
  PROVE  Times'
BY DEF Times

\* Times, step by step.
LEMMA TimesStep == Fields /\ Messages /\ Bounded /\ Times /\ [Next]_vars => Times'
<1> SUFFICES ASSUME Fields, Messages, Bounded, Times, [Next]_vars PROVE Times'
  OBVIOUS
<1>0. /\ now \in Nat /\ pc \in [Client -> Stages] /\ reply \in [Client -> Replies]
      /\ scope \in [Client -> Node] /\ domain \in [Client -> Domain]
  BY DEF Fields
<1> USE <1>0 DEF Goto, Return
<1>1. ASSUME NEW c \in Client, NEW d \in Domain, Ask(c, d) PROVE Times'
  <2>1. /\ pc' = [pc EXCEPT ![c] = "pool"] /\ reply' = [reply EXCEPT ![c] = Nothing]
        /\ UNCHANGED <<messages, now>>
    BY <1>1 DEF Ask, dns
  <2> QED
    BY <2>1, TimesKeep
<1>2. ASSUME NEW c \in Client, AcquirePool(c) PROVE Times'
  <2>1. pc' = [pc EXCEPT ![c] = "lookup"] /\ UNCHANGED <<messages, now, reply>>
    BY <1>2 DEF AcquirePool, dns
  <2> QED
    BY <2>1, TimesKeep
<1>3. ASSUME NEW c \in Client, Hit(c) PROVE Times'
  <2> DEFINE m == messages[Key(c)]
             r == Aged(m)
  <2>1. /\ m.ok /\ reply' = [reply EXCEPT ![c] = r] /\ pc' = [pc EXCEPT ![c] = "remember"]
        /\ UNCHANGED <<messages, now>>
    BY <1>3 DEF Hit, dns
  <2>2. /\ m.stored \in Nat /\ m.ttl \in Nat /\ m.due \in Nat /\ m.stored <= now
        /\ m.stored + 2 * m.ttl <= m.due
    BY <2>1, KeyType, Values DEF Messages, Message, Times
  <2>3. r.ok /\ r.ttl = m.ttl - (now - m.stored) \div 2 /\ r.due = m.due
    BY DEF Aged, Answer
  <2>4. now + 2 * r.ttl < r.due + 2
    BY <2>2, <2>3, AgedInTime
  <2> HIDE DEF m, r
  <2>5. \A d \in Client : d # c => pc'[d] = pc[d] /\ reply'[d] = reply[d]
    BY <2>1
  <2>6. pc'[c] = "remember" /\ reply'[c] = r
    BY <2>1
  <2> QED
    BY <2>1, <2>3, <2>4, <2>5, <2>6 DEF Times
<1>4. ASSUME NEW c \in Client, Miss(c) PROVE Times'
  <2>1. /\ pc' = [pc EXCEPT ![c] = "follow"] \/ pc' = [pc EXCEPT ![c] = "query"]
        /\ UNCHANGED <<messages, now, reply>>
    BY <1>4 DEF Miss
  <2> QED
    BY <2>1, TimesKeep
<1>5. ASSUME NEW c \in Client, Followed(c) \/ GiveUp(c) PROVE Times'
  <2>1. /\ pc' = [pc EXCEPT ![c] = "done"] /\ UNCHANGED <<messages, now>>
        /\ \A d \in Client : d # c => reply'[d] = reply[d]
    BY <1>5 DEF Followed, GiveUp, dns
  <2> QED
    BY <2>1, TimesKeep
<1>6. ASSUME NEW c \in Client, Query(c) PROVE Times'
  <2>1. /\ pc' = [pc EXCEPT ![c] = "store"] /\ UNCHANGED <<messages, now>>
        /\ \A d \in Client : d # c => reply'[d] = reply[d]
    BY <1>6 DEF Query, dns
  <2>2. ASSUME reply'[c].ok PROVE now + 2 * reply'[c].ttl <= reply'[c].due
    <3>1. reply'[c] # Nothing
      BY <2>2, Values
    <3>2. PICK ttl \in TTL : reply'[c] = Answer(client[c].node, ttl, now + 2 * ttl)
      BY <1>6, <3>1 DEF Query
    <3>3. \A n, t, u : Answer(n, t, u).ttl = t /\ Answer(n, t, u).due = u
      BY DEF Answer
    <3>4. reply'[c].ttl = ttl /\ reply'[c].due = now + 2 * ttl /\ ttl \in Nat
      BY <3>2, <3>3, DnsAssumption, SMT
    <3> QED
      BY <3>4, SMT
  <2> QED
    BY <2>1, <2>2 DEF Times
<1>7. ASSUME NEW c \in Client, Store(c) PROVE Times'
  <2>1. /\ pc[c] = "store" /\ now' = now
        /\ pc' = [pc EXCEPT ![c] = IF reply[c].ok THEN "remember" ELSE "done"]
        /\ reply' = [d \in Client |-> IF d \in Followers(c) THEN reply[c] ELSE reply[d]]
    BY <1>7 DEF Store
  <2>2. c \notin Followers(c) /\ \A d \in Followers(c) : pc[d] = "follow" /\ d # c
    BY <2>1 DEF Followers
  <2>3. \A d \in Client : pc'[d] \in {"store", "remember"} => reply'[d] = reply[d]
    BY <2>1, <2>2
  <2>4. \A d \in Client : reply'[d].ok /\ pc'[d] = "store" => now' + 2 * reply'[d].ttl <= reply'[d].due
    <3> SUFFICES ASSUME NEW d \in Client, reply'[d].ok, pc'[d] = "store"
                 PROVE  now' + 2 * reply'[d].ttl <= reply'[d].due
      OBVIOUS
    <3>1. d # c /\ pc[d] = "store" /\ reply'[d] = reply[d]
      BY <2>1, <2>3
    <3> QED
      BY <2>1, <3>1 DEF Times
  <2>5. \A d \in Client : pc'[d] = "remember" =>
          reply'[d].ok /\ now' + 2 * reply'[d].ttl < reply'[d].due + 2
    <3> SUFFICES ASSUME NEW d \in Client, pc'[d] = "remember"
                 PROVE  reply'[d].ok /\ now' + 2 * reply'[d].ttl < reply'[d].due + 2
      OBVIOUS
    <3>1. CASE d # c
      BY <2>1, <2>3, <3>1 DEF Times
    <3>2. CASE d = c
      <4>1. reply[c].ok /\ reply'[c] = reply[c] /\ now + 2 * reply[c].ttl <= reply[c].due
        BY <2>1, <2>3, <3>2 DEF Times
      <4>2. reply[c].ttl \in Nat /\ reply[c].due \in Nat
        BY <4>1, ReplyParts
      <4>3. now + 2 * reply[c].ttl < reply[c].due + 2
        BY <4>1, <4>2, SMT
      <4> QED
        BY <2>1, <3>2, <4>1, <4>3
    <3> QED
      BY <3>1, <3>2
  <2>6. \A k \in Keys : messages'[k].ok => messages'[k].stored + 2 * messages'[k].ttl <= messages'[k].due
    <3> SUFFICES ASSUME NEW k \in Keys, messages'[k].ok
                 PROVE  messages'[k].stored + 2 * messages'[k].ttl <= messages'[k].due
      OBVIOUS
    <3>1. CASE UNCHANGED messages
      BY <3>1 DEF Times
    <3>2. CASE reply[c].ok /\ CacheTTL(reply[c]) > 0
      <4>1. PICK ms \in Evictions(asked[c]) : messages' = [ms EXCEPT ![Key(c)] = Cached(reply[c])]
        BY <1>7, <3>2 DEF Store
      <4>2. /\ ms \in [Keys -> {Nothing} \cup Message]
            /\ \A j \in Keys : ms[j] = messages[j] \/ ms[j] = Nothing
        BY <4>1, EvictionsFit DEF Fields
      <4>3. CASE k = Key(c)
        <5>1. messages'[k] = Cached(reply[c])
          BY <4>1, <4>2, <4>3
        <5>2. /\ Cached(reply[c]).stored = now /\ Cached(reply[c]).ttl = reply[c].ttl
              /\ Cached(reply[c]).due = reply[c].due
          BY DEF Cached
        <5> QED
          BY <2>1, <3>2, <5>1, <5>2 DEF Times
      <4>4. CASE k # Key(c)
        <5>1. messages'[k] = ms[k]
          BY <4>1, <4>2, <4>4
        <5>2. messages'[k] = messages[k]
          BY <4>2, <5>1, Values
        <5> QED
          BY <5>2 DEF Times
      <4> QED
        BY <4>3, <4>4
    <3> QED
      BY <1>7, <3>1, <3>2 DEF Store
  <2> QED
    BY <2>4, <2>5, <2>6 DEF Times
<1>8. ASSUME NEW c \in Client, Remember(c) PROVE Times'
  <2>1. /\ pc' = [pc EXCEPT ![c] = "done"] /\ UNCHANGED <<messages, now>>
        /\ reply' = [reply EXCEPT ![c] = reply[c]]
    BY <1>8, RememberFrame
  <2> QED
    BY <2>1, TimesKeep
<1>9. ASSUME UNCHANGED <<messages, now, clients>> PROVE Times'
  BY <1>9, TimesKeep DEF clients
<1>10. ASSUME NEW n \in Node, PutProxy(n) \/ URLTestSwitch(n) PROVE Times'
  BY <1>9, <1>10 DEF PutProxy, URLTestSwitch, Select, dns
<1>11. CASE InvalidateDNSConnections
  BY <1>9, <1>11 DEF InvalidateDNSConnections, dns
<1>12. CASE PruneReverse
  BY <1>9, <1>12, PruneFrame
<1>13. CASE Tick
  <2>1. /\ \A c \in Client : pc[c] \in {"idle", "follow", "query", "done"}
        /\ UNCHANGED <<messages, pc, reply>>
    BY <1>13 DEF Tick, dns, clients
  <2> QED
    BY <2>1 DEF Times
<1>14. CASE UNCHANGED vars
  BY <1>9, <1>14 DEF vars, dns
<1> HIDE <1>0 DEF Goto, Return
<1> QED
  BY <1>1, <1>2, <1>3, <1>4, <1>5, <1>6, <1>7, <1>8, <1>10, <1>11, <1>12, <1>13, <1>14 DEF Next

-----------------------------------------------------------------------------
\* What is kept of a table is one: records of the table, each once, no more than before.
LEMMA TableKept ==
  ASSUME Table, NEW I, I \subseteq 1..Len(reverse)
  PROVE  LET kept == Selected(reverse, I) IN
         /\ kept \in Seq(Record) /\ Len(kept) \in Nat /\ Len(kept) <= ReverseCap
         /\ \A k \in 1..Len(kept) : \E i \in I : kept[k] = reverse[i]
         /\ \A k \in 1..Len(kept) : kept[k].expires < kept[k].due + 2
         /\ \A k, l \in 1..Len(kept) :
              kept[k].domain = kept[l].domain /\ kept[k].scope = kept[l].scope => k = l
<1> DEFINE kept == Selected(reverse, I)
<1>1. /\ kept \in Seq(Record) /\ Len(kept) \in Nat
      /\ \A k \in 1..Len(kept) : Position(I, k) \in I /\ kept[k] = reverse[Position(I, k)]
      /\ \A k, l \in 1..Len(kept) : Position(I, k) = Position(I, l) => k = l
  BY SelectedEntries DEF Table
<1>2. Len(kept) <= ReverseCap
  <2>1. Len(reverse) \in Nat /\ Len(reverse) <= ReverseCap /\ ReverseCap \in Nat
    BY DnsAssumption, SMT DEF Table, ReverseWithinTTL
  <2>2. IsFiniteSet(1..Len(reverse)) /\ Cardinality(1..Len(reverse)) = Len(reverse)
    <3>1. 1 \in Int /\ Len(reverse) \in Int
      BY <2>1, SMT
    <3>2. /\ IsFiniteSet(1..Len(reverse))
          /\ Cardinality(1..Len(reverse)) = IF 1 > Len(reverse) THEN 0 ELSE Len(reverse) - 1 + 1
      BY <3>1, FS_Interval
    <3> QED
      BY <2>1, <3>2, SMT
  <2>3. Cardinality(I) <= Len(reverse) /\ IsFiniteSet(I)
    BY <2>2, FS_Subset
  <2>4. Cardinality(I) \in Nat
    BY <2>3, FS_CardinalityType
  <2>5. Len(kept) = Cardinality(I)
    BY <2>4, SMT DEF Selected
  <2> QED
    BY <2>1, <2>3, <2>4, <2>5, SMT
<1> HIDE DEF kept
<1>3. \A k \in 1..Len(kept) : \E i \in I : kept[k] = reverse[i]
  BY <1>1
<1>4. \A k \in 1..Len(kept) : kept[k].expires < kept[k].due + 2
  BY <1>1 DEF Table, ReverseWithinTTL
<1>5. \A k, l \in 1..Len(kept) :
        kept[k].domain = kept[l].domain /\ kept[k].scope = kept[l].scope => k = l
  <2>1. \A i, j \in I : reverse[i].domain = reverse[j].domain
                         /\ reverse[i].scope = reverse[j].scope => i = j
    BY DEF Table, ReverseWithinTTL
  <2> SUFFICES ASSUME NEW k \in 1..Len(kept), NEW l \in 1..Len(kept),
                      kept[k].domain = kept[l].domain, kept[k].scope = kept[l].scope
               PROVE  k = l
    OBVIOUS
  <2>2. /\ Position(I, k) \in I /\ kept[k] = reverse[Position(I, k)]
        /\ Position(I, l) \in I /\ kept[l] = reverse[Position(I, l)]
    BY <1>1
  <2>3. Position(I, k) = Position(I, l)
    BY <2>1, <2>2
  <2> QED
    BY <1>1, <2>3
<1> QED
  BY <1>1, <1>2, <1>3, <1>4, <1>5 DEF kept

\* The table after an answer has been remembered.
LEMMA TableRemembers ==
  ASSUME Table, now \in Nat, NEW d \in Domain, NEW n \in Node, NEW m \in Replies, m.ok,
         now + 2 * m.ttl < m.due + 2, reverse' = Remembered(d, n, m)
  PROVE  Table'
<1> DEFINE I == {i \in Live : reverse[i].domain # d \/ reverse[i].scope # n}
           kept == Selected(reverse, I)
           record == [domain |-> d, scope |-> n, due |-> m.due, expires |-> now + 2 * CacheTTL(m)]
           records == <<record>> \o kept
           size == Minimum(Len(records), ReverseCap)
<1>1. /\ kept \in Seq(Record) /\ Len(kept) \in Nat
      /\ \A k \in 1..Len(kept) : \E i \in I : kept[k] = reverse[i]
      /\ \A k \in 1..Len(kept) : kept[k].expires < kept[k].due + 2
      /\ \A k, l \in 1..Len(kept) :
           kept[k].domain = kept[l].domain /\ kept[k].scope = kept[l].scope => k = l
  <2>1. I \subseteq 1..Len(reverse)
    BY DEF Live
  <2> HIDE DEF I
  <2> QED
    BY <2>1, TableKept
<1>2. \A k \in 1..Len(kept) : kept[k].domain # d \/ kept[k].scope # n
  <2> HIDE DEF kept
  <2> QED
    BY <1>1
<1>3. record \in Record /\ record.expires < record.due + 2
  <2>1. m.ttl \in Nat /\ m.due \in Nat
    BY ReplyParts
  <2>2. CacheTTL(m) \in Nat /\ CacheTTL(m) <= m.ttl
    BY <2>1, CacheTTLBelow
  <2>3. now + 2 * CacheTTL(m) \in Nat /\ now + 2 * CacheTTL(m) < m.due + 2
    BY <2>1, <2>2, SMT
  <2> QED
    BY <2>1, <2>3, SMT DEF Record
<1>4. record.domain = d /\ record.scope = n
  OBVIOUS
<1>5. reverse' = SubSeq(records, 1, size)
  BY DEF Remembered
<1> HIDE DEF kept, record
<1>6. /\ records \in Seq(Record) /\ Len(records) = Len(kept) + 1 /\ records[1] = record
      /\ \A k \in 1..Len(records) : k # 1 => k - 1 \in 1..Len(kept) /\ records[k] = kept[k - 1]
  BY <1>1, <1>3, SMTT(30)
<1> HIDE DEF records
<1>7. size \in Nat /\ size <= ReverseCap /\ size <= Len(records)
  BY <1>1, <1>6, DnsAssumption, SMTT(30) DEF Minimum
<1> HIDE DEF size
<1>8. /\ reverse' \in Seq(Record) /\ Len(reverse') = size
      /\ \A k \in 1..size : reverse'[k] = records[k] /\ k \in 1..Len(records)
  BY <1>5, <1>6, <1>7, SMT
<1>9. \A k \in 1..size : \/ k = 1 /\ reverse'[k] = record
                         \/ k # 1 /\ k - 1 \in 1..Len(kept) /\ reverse'[k] = kept[k - 1]
  BY <1>6, <1>8
<1>10. ASSUME NEW k \in 1..size PROVE reverse'[k].expires < reverse'[k].due + 2
  <2>1. CASE k = 1 /\ reverse'[k] = record
    BY <1>3, <2>1
  <2>2. CASE k # 1 /\ k - 1 \in 1..Len(kept) /\ reverse'[k] = kept[k - 1]
    <3>1. kept[k - 1].expires < kept[k - 1].due + 2
      BY <1>1, <2>2
    <3> QED
      BY <2>2, <3>1
  <2> QED
    BY <1>9, <2>1, <2>2
<1>11. ASSUME NEW k \in 1..size, NEW l \in 1..size,
              reverse'[k].domain = reverse'[l].domain, reverse'[k].scope = reverse'[l].scope
       PROVE  k = l
  <2>1. CASE k = 1 \/ l = 1
    <3>1. \A j \in 1..size : j # 1 => ~(reverse'[j].domain = d /\ reverse'[j].scope = n)
      <4> SUFFICES ASSUME NEW j \in 1..size, j # 1
                   PROVE  ~(reverse'[j].domain = d /\ reverse'[j].scope = n)
        OBVIOUS
      <4>1. j - 1 \in 1..Len(kept) /\ reverse'[j] = kept[j - 1]
        BY <1>9
      <4>2. kept[j - 1].domain # d \/ kept[j - 1].scope # n
        BY <1>2, <4>1
      <4> QED
        BY <4>1, <4>2
    <3>2. \A j \in 1..size : j = 1 => reverse'[j].domain = d /\ reverse'[j].scope = n
      BY <1>4, <1>9
    <3> QED
      BY <1>11, <2>1, <3>1, <3>2
  <2>2. CASE k # 1 /\ l # 1
    <3>1. /\ k - 1 \in 1..Len(kept) /\ reverse'[k] = kept[k - 1]
          /\ l - 1 \in 1..Len(kept) /\ reverse'[l] = kept[l - 1]
      BY <1>9, <2>2
    <3>2. k - 1 = l - 1
      <4>1. kept[k - 1].domain = kept[l - 1].domain /\ kept[k - 1].scope = kept[l - 1].scope
        BY <1>11, <3>1
      <4> QED
        BY <1>1, <3>1, <4>1
    <3> QED
      BY <1>7, <3>2, SMT
  <2> QED
    BY <2>1, <2>2
<1> QED
  BY <1>7, <1>8, <1>10, <1>11 DEF Table, ReverseWithinTTL

\* Only Remember and PruneReverse write the table.
LEMMA TableStep == Fields /\ Times /\ Table /\ [Next]_vars => Table'
<1> SUFFICES ASSUME Fields, Times, Table, [Next]_vars PROVE Table'
  OBVIOUS
<1>1. ASSUME UNCHANGED reverse PROVE Table'
  BY <1>1 DEF Table, ReverseWithinTTL
<1>2. ASSUME NEW c \in Client, Remember(c) PROVE Table'
  <2>1. CASE UNCHANGED reverse
    BY <1>1, <2>1
  <2>2. CASE reverse' = Remembered(domain[c], scope[c], reply[c])
    <3>1. pc[c] = "remember"
      BY <1>2 DEF Remember
    <3>2. /\ now \in Nat /\ domain[c] \in Domain /\ scope[c] \in Node /\ reply[c] \in Replies
          /\ reply[c].ok /\ now + 2 * reply[c].ttl < reply[c].due + 2
      BY <3>1 DEF Fields, Times
    <3> QED
      BY <2>2, <3>2, TableRemembers
  <2> QED
    BY <1>2, <2>1, <2>2 DEF Remember
<1>3. CASE PruneReverse
  <2>1. reverse' = Selected(reverse, Live) /\ Live \subseteq 1..Len(reverse)
    BY <1>3 DEF PruneReverse, Live
  <2> QED
    BY <2>1, TableKept DEF Table, ReverseWithinTTL
<1>4. ASSUME NEW c \in Client, NEW d \in Domain, Ask(c, d) PROVE Table'
  BY <1>1, <1>4 DEF Ask, dns
<1>5. ASSUME NEW c \in Client, AcquirePool(c) PROVE Table'
  BY <1>1, <1>5 DEF AcquirePool, dns
<1>6. ASSUME NEW c \in Client, Hit(c) \/ Followed(c) \/ GiveUp(c) \/ Query(c) PROVE Table'
  BY <1>1, <1>6 DEF Hit, Followed, GiveUp, Query, dns
<1>7. ASSUME NEW c \in Client, Miss(c) PROVE Table'
  BY <1>1, <1>7 DEF Miss
<1>8. ASSUME NEW c \in Client, Store(c) PROVE Table'
  BY <1>1, <1>8 DEF Store
<1>9. ASSUME NEW n \in Node, PutProxy(n) \/ URLTestSwitch(n) PROVE Table'
  BY <1>1, <1>9 DEF PutProxy, URLTestSwitch, Select, dns
<1>10. CASE InvalidateDNSConnections \/ Tick \/ UNCHANGED vars
  BY <1>1, <1>10 DEF InvalidateDNSConnections, Tick, vars, dns
<1> QED
  BY <1>2, <1>3, <1>4, <1>5, <1>6, <1>7, <1>8, <1>9, <1>10 DEF Next

-----------------------------------------------------------------------------
\* The inductive invariant.
IInv ==
  /\ Fields /\ Numbers /\ OnlyCurrentPoolLive /\ Flights /\ FollowerHasLeader
  /\ Messages /\ Bounded /\ Origin /\ Times /\ Table

\* The initial state satisfies it.
LEMMA Initial == Init => IInv
<1> SUFFICES ASSUME Init PROVE IInv
  OBVIOUS
<1> USE DnsAssumption, Values DEF Init
<1>1. Fields
  <2>1. (CHOOSE d \in Domain : TRUE) \in Domain
    OBVIOUS
  <2>2. domain \in [Client -> Domain] /\ scope \in [Client -> Node]
    BY <2>1
  <2>3. pool \in Pools /\ pool.id = 0 /\ client \in [Client -> Pools]
    OBVIOUS
  <2>4. reply \in [Client -> Replies]
    OBVIOUS
  <2>5. control \in BOOLEAN
    OBVIOUS
  <2> QED
    BY <2>2, <2>3, <2>4, <2>5, SMT DEF Fields, Stages
<1>2. Numbers
  BY SMT DEF Numbers, Numbered
<1>3. OnlyCurrentPoolLive
  BY DEF OnlyCurrentPoolLive
<1>4. Flights /\ FollowerHasLeader
  BY DEF Flights, FollowerHasLeader, Leads
<1>5. Messages
  BY DEF Messages
<1>6. Bounded
  <2>1. Present(messages) = {}
    BY DEF Present
  <2>2. IsFiniteSet({}) /\ Cardinality({}) <= MessageCap
    BY FS_EmptySet, SMT
  <2> QED
    BY <2>1, <2>2 DEF Bounded
<1>7. Origin
  BY DEF Origin
<1>8. Times
  BY DEF Times
<1>9. Table
  BY SMT DEF Table, ReverseWithinTTL
<1> QED
  BY <1>1, <1>2, <1>3, <1>4, <1>5, <1>6, <1>7, <1>8, <1>9 DEF IInv

\* Every step preserves it.
LEMMA Inductive == IInv /\ [Next]_vars => IInv'
<1> SUFFICES ASSUME IInv, [Next]_vars PROVE IInv'
  OBVIOUS
<1> USE DEF IInv
<1>1. (\E c \in Client : ClientStep(c)) \/ RouterStep \/ UNCHANGED vars
  BY DEF Next, ClientStep, RouterStep
<1>2. Fields' /\ Numbers'
  BY <1>1, FieldsOfClient, FieldsOfRouter, NumbersOfClient, NumbersOfRouter
<1> QED
  BY <1>2, PoolStep, FlightsStep, FollowerStep, OriginStep, MessagesStep, TimesStep, TableStep

\* The invariant holds in every reachable state.
THEOREM Invariance == Spec => []IInv
BY Initial, Inductive, PTL DEF Spec

\* Every field stays in its range, every call past the pool step has a pool, and the message
\* cache never outgrows its limit.
THEOREM TypeCorrect == Spec => []TypeOK
<1>1. IInv => TypeOK
  BY DEF IInv, TypeOK, Fields, Bounded
<1> QED
  BY <1>1, Invariance, PTL

\* Names are resolved through the node that was selected when they were asked for, for any
\* clients, nodes and switches.
THEOREM AnsweredBySelectedNodeHolds == Spec => []AnsweredBySelectedNode
<1>1. IInv => AnsweredBySelectedNode
  BY DEF IInv, Origin, AnsweredBySelectedNode
<1> QED
  BY <1>1, Invariance, PTL

\* An invalidation reaches every exchange in progress, and no later query is given a
\* cancelled pool.
THEOREM OnlyCurrentPoolLiveHolds == Spec => []OnlyCurrentPoolLive
<1>1. IInv => OnlyCurrentPoolLive
  BY DEF IInv
<1> QED
  BY <1>1, Invariance, PTL

\* dnsFlights lists exactly the exchanges in progress, one per key.
THEOREM FlightsHaveLeadersHolds == Spec => []FlightsHaveLeaders
<1>1. IInv => FlightsHaveLeaders
  <2> SUFFICES ASSUME IInv, NEW k \in Keys
               PROVE  /\ \A c, d \in Client :
                           Leads(c) /\ Leads(d) /\ Key(c) = k /\ Key(d) = k => c = d
                      /\ flights[k] # 0 <=>
                           \E c \in Client : Leads(c) /\ Key(c) = k /\ call[c] = flights[k]
    BY DEF FlightsHaveLeaders
  <2>1. \A c \in Client : Leads(c) => flights[Key(c)] = call[c] /\ call[c] # 0
    BY DEF IInv, Flights, Numbers, Numbered, Leads
  <2>2. \A c, d \in Client : call[c] = call[d] /\ call[c] # 0 => c = d
    BY DEF IInv, Numbers
  <2> QED
    BY <2>1, <2>2, SMT DEF IInv, Flights
<1> QED
  BY <1>1, Invariance, PTL

\* No follower is left behind.
THEOREM FollowerHasLeaderHolds == Spec => []FollowerHasLeader
<1>1. IInv => FollowerHasLeader
  BY DEF IInv
<1> QED
  BY <1>1, Invariance, PTL

\* The reverse table keeps its limit and one record per domain and scope, and associates an
\* address with a domain for less than a second longer than the server allowed, whatever the
\* TTLs, the cap and the interleaving of hits, answers and lookups.
THEOREM ReverseWithinTTLHolds == Spec => []ReverseWithinTTL
<1>1. IInv => ReverseWithinTTL
  BY DEF IInv, Table
<1> QED
  BY <1>1, Invariance, PTL
=============================================================================
