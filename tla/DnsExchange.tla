---------------------------- MODULE DnsExchange ----------------------------
(***************************************************************************)
(* Encrypted DNS of the router: the DoH connection pool, the message cache,*)
(* the merging of identical queries and the reverse (address to domain)    *)
(* table, while the selected node changes underneath.                      *)
(*                                                                         *)
(* A scope is the resolver configuration together with the real node the   *)
(* detour resolves to; the configuration is fixed, so a scope is a node.   *)
(* A call of exchangeDoHCached is numbered.  The pool it creates and the   *)
(* flight it leads are named by that number; 0 is nil.  All domains share  *)
(* one address, as the hosts of a CDN do.                                  *)
(*                                                                         *)
(* Time is counted in half seconds: TTLs are whole seconds, and ageing     *)
(* rounds the elapsed time down to one.                                    *)
(***************************************************************************)
EXTENDS Integers, Sequences, FiniteSets, Subsequences

CONSTANTS
  Client,      \* goroutines that resolve names
  Node,        \* real outbounds a selector can resolve to
  Default,     \* the one it starts with
  Domain,      \* question names
  TTL,         \* record TTLs in seconds a server may send; 0: not cacheable
  TTLCap,      \* 10 minutes
  MessageCap,  \* 4096 cached messages
  ReverseCap,  \* 8 domains per address
  MaxCalls, MaxSwitches, MaxTime   \* bounds of the exploration

ASSUME DnsAssumption ==
  /\ Default \in Node /\ Domain # {}
  /\ TTL \subseteq Nat
  /\ TTLCap \in Nat \ {0}
  /\ MessageCap \in Nat \ {0} /\ ReverseCap \in Nat \ {0}
  /\ MaxCalls \in Nat /\ MaxSwitches \in Nat /\ MaxTime \in Nat

VARIABLES
  current,    \* the node the DNS detour resolves to
  control,    \* a control request is between SetCurrent and the invalidation
  pool,       \* dohClient with dohScope and dohContext: [id, node], id 0 is nil
  cancelled,  \* pools whose context has been cancelled
  messages,   \* dnsMessages: <<node, domain>> to a message, or Nothing
  flights,    \* dnsFlights: <<node, domain>> to the call that leads, or 0
  reverse,    \* dnsReverse of the address: records, newest first
  now,        \* half seconds
  calls, switches,  \* counted up to the bounds
  pc, call, domain, scope, client, flight, asked, reply   \* locals of a call

clients == <<pc, call, domain, scope, client, flight, asked, reply>>

dns == <<messages, flights, reverse>>

router == <<current, control, switches>>

vars == <<router, pool, cancelled, dns, now, calls, clients>>

Keys == Node \X Domain

Minimum(a, b) == IF a < b THEN a ELSE b

NoPool == [id |-> 0, node |-> Default]

Nothing == [ok |-> FALSE]

\* Records of node n with ttl seconds to live; `due' is when they really end.
Answer(n, ttl, due) == [ok |-> TRUE, node |-> n, ttl |-> ttl, due |-> due]

Key(c) == <<scope[c], domain[c]>>

Stages == {"idle", "pool", "lookup", "follow", "query", "store",
           "remember", "done"}

Init ==
  /\ current = Default
  /\ control = FALSE
  /\ pool = NoPool
  /\ cancelled = {}
  /\ messages = [k \in Keys |-> Nothing]
  /\ flights = [k \in Keys |-> 0]
  /\ reverse = <<>>
  /\ now = 0
  /\ calls = 0
  /\ switches = 0
  /\ pc = [c \in Client |-> "idle"]
  /\ call = [c \in Client |-> 0]
  /\ domain = [c \in Client |-> CHOOSE d \in Domain : TRUE]
  /\ scope = [c \in Client |-> Default]
  /\ client = [c \in Client |-> NoPool]
  /\ flight = [c \in Client |-> 0]
  /\ asked = [c \in Client |-> 0]
  /\ reply = [c \in Client |-> Nothing]

Goto(c, stage) == pc' = [pc EXCEPT ![c] = stage]

\* The call returns the reply m; the caller parses the message and lets go of
\* everything else.
Return(c, m) ==
  /\ reply' = [reply EXCEPT ![c] = m]
  /\ call' = [call EXCEPT ![c] = 0]
  /\ client' = [client EXCEPT ![c] = NoPool]
  /\ flight' = [flight EXCEPT ![c] = 0]
  /\ Goto(c, "done")

-----------------------------------------------------------------------------
(* exchangeDoHCached *)

\* A client asks for a domain.  dnsTarget() reads the selected node once: it
\* is the scope in all that follows, whatever is selected meanwhile.
Ask(c, d) ==
  /\ pc[c] \in {"idle", "done"}
  /\ calls < MaxCalls
  /\ calls' = calls + 1
  /\ call' = [call EXCEPT ![c] = calls + 1]
  /\ domain' = [domain EXCEPT ![c] = d]
  /\ scope' = [scope EXCEPT ![c] = current]
  /\ reply' = [reply EXCEPT ![c] = Nothing]
  /\ Goto(c, "pool")
  /\ UNCHANGED <<router, pool, cancelled, dns, now, client, flight, asked>>

\* Mutant: the pool is reused whatever node it dials through.
AcquirePool_AnyScope(c) ==
  /\ pc[c] = "pool"
  /\ pool' = IF pool.id # 0 THEN pool ELSE [id |-> call[c], node |-> scope[c]]
  /\ client' = [client EXCEPT ![c] = pool']
  /\ Goto(c, "lookup")
  /\ UNCHANGED <<router, cancelled, dns, now, calls,
                 call, domain, scope, flight, asked, reply>>

\* Mutant: the call keeps the pool it found instead of the one it made.
AcquirePool_Stale(c) ==
  /\ pc[c] = "pool"
  /\ pool' = IF pool.id # 0 THEN pool ELSE [id |-> call[c], node |-> scope[c]]
  /\ client' = [client EXCEPT ![c] = pool]
  /\ Goto(c, "lookup")
  /\ UNCHANGED <<router, cancelled, dns, now, calls,
                 call, domain, scope, flight, asked, reply>>

\* dohHTTPClient(): reuse the pool of this scope, or cancel the current pool
\* and make one that dials through the node of this scope.  The loader of the
\* configuration has refused a detour to an unknown outbound, its only error.
AcquirePool(c) ==
  /\ pc[c] = "pool"
  /\ \/ /\ pool.id # 0 /\ pool.node = scope[c]
        /\ UNCHANGED <<pool, cancelled>>
     \/ /\ pool.id = 0 \/ pool.node # scope[c]
        /\ pool' = [id |-> call[c], node |-> scope[c]]
        /\ cancelled' = cancelled \cup ({pool.id} \ {0})
  /\ client' = [client EXCEPT ![c] = pool']
  /\ Goto(c, "lookup")
  /\ UNCHANGED <<router, dns, now, calls,
                 call, domain, scope, flight, asked, reply>>

\* Mutant: a cached message is served with its original TTL.
Aged_Not(m) == Answer(m.node, m.ttl, m.due)

\* ageDNSResponse: whole elapsed seconds are taken off the TTL.
Aged(m) == Answer(m.node, m.ttl - (now - m.stored) \div 2, m.due)

\* A live cached message answers.
Hit(c) ==
  /\ pc[c] = "lookup"
  /\ messages[Key(c)].ok
  /\ now < messages[Key(c)].expires
  /\ reply' = [reply EXCEPT ![c] = Aged(messages[Key(c)])]
  /\ Goto(c, "remember")
  /\ UNCHANGED <<router, pool, cancelled, dns, now, calls,
                 call, domain, scope, client, flight, asked>>

\* No live message: follow the flight for this key, or lead a new one.
Miss(c) ==
  /\ pc[c] = "lookup"
  /\ ~(messages[Key(c)].ok /\ now < messages[Key(c)].expires)
  /\ \/ /\ flights[Key(c)] # 0
        /\ flight' = [flight EXCEPT ![c] = flights[Key(c)]]
        /\ Goto(c, "follow")
        /\ UNCHANGED <<flights, asked>>
     \/ /\ flights[Key(c)] = 0
        /\ flights' = [flights EXCEPT ![Key(c)] = call[c]]
        /\ asked' = [asked EXCEPT ![c] = now]
        /\ Goto(c, "query")
        /\ UNCHANGED flight
  /\ UNCHANGED <<router, pool, cancelled, messages, reverse, now, calls,
                 call, domain, scope, client, reply>>

\* <-call.done: the follower returns the leader's response or error.
Followed(c) ==
  /\ pc[c] = "follow"
  /\ flight[c] = 0
  /\ Return(c, reply[c])
  /\ UNCHANGED <<router, pool, cancelled, dns, now, calls,
                 domain, scope, asked>>

\* Mutant: a follower that gives up removes the flight.
GiveUp_DropsFlight(c) ==
  /\ pc[c] = "follow"
  /\ flights' = [flights EXCEPT ![Key(c)] = 0]
  /\ Return(c, Nothing)
  /\ UNCHANGED <<router, pool, cancelled, messages, reverse, now, calls,
                 domain, scope, asked>>

\* <-ctx.Done(): the follower's own context ends, or that of its pool.
GiveUp(c) ==
  /\ pc[c] = "follow"
  /\ Return(c, Nothing)
  /\ UNCHANGED <<router, pool, cancelled, dns, now, calls,
                 domain, scope, asked>>

\* The HTTP exchange through the pool's node.  It fails, or ends after the
\* pool was cancelled, or brings an answer.
Query(c) ==
  /\ pc[c] = "query"
  /\ \/ reply' = [reply EXCEPT ![c] = Nothing]
     \/ /\ client[c].id \notin cancelled
        /\ \E ttl \in TTL :
             reply' = [reply EXCEPT ![c] =
                         Answer(client[c].node, ttl, now + 2 * ttl)]
  /\ Goto(c, "store")
  /\ UNCHANGED <<router, pool, cancelled, dns, now, calls,
                 call, domain, scope, client, flight, asked>>

Present(ms) == {k \in Keys : ms[k].ok}

\* Room for one more message: what had expired when the query was asked goes,
\* and one arbitrary message if that was not enough.
Evictions(when) ==
  LET kept == [k \in Keys |->
                 IF messages[k].ok /\ messages[k].expires < when
                   THEN Nothing ELSE messages[k]]
  IN  IF Cardinality(Present(messages)) < MessageCap THEN {messages}
      ELSE IF Cardinality(Present(kept)) < MessageCap THEN {kept}
      ELSE {[kept EXCEPT ![k] = Nothing] : k \in Present(kept)}

\* dnsResponseCacheTTL: TTLs are capped; 0 means the message is not cached.
CacheTTL(m) == Minimum(m.ttl, TTLCap)

Cached(m) == [ok |-> TRUE, node |-> m.node, ttl |-> m.ttl, due |-> m.due,
              stored |-> now, expires |-> now + 2 * CacheTTL(m)]

\* Mutant: the done channel is never closed.
Followers_None(c) == {}

\* The clients blocked on the done channel of c's flight.
Followers(c) == {d \in Client : pc[d] = "follow" /\ flight[d] = call[c]}

\* The leader caches a good answer, ends its flight and closes the done
\* channel, which leaves its response or error with every follower.  Then it
\* goes on to the reverse table, or returns its error.
Store(c) ==
  /\ pc[c] = "store"
  /\ IF reply[c].ok /\ CacheTTL(reply[c]) > 0
       THEN \E ms \in Evictions(asked[c]) :
              messages' = [ms EXCEPT ![Key(c)] = Cached(reply[c])]
       ELSE UNCHANGED messages
  /\ flights' = [flights EXCEPT ![Key(c)] = 0]
  /\ reply' = [d \in Client |->
                 IF d \in Followers(c) THEN reply[c] ELSE reply[d]]
  /\ flight' = [d \in Client |-> IF d \in Followers(c) THEN 0 ELSE flight[d]]
  /\ asked' = [asked EXCEPT ![c] = 0]
  /\ client' = [client EXCEPT ![c] = NoPool]
  /\ call' = [call EXCEPT ![c] = 0]
  /\ Goto(c, IF reply[c].ok THEN "remember" ELSE "done")
  /\ UNCHANGED <<router, pool, cancelled, reverse, now, calls, domain, scope>>

\* The positions of the records that have not expired.
Live == {i \in 1..Len(reverse) : reverse[i].expires > now}

\* rememberDNSResponseScoped: the newest record first, one record per domain
\* and scope, dead ones dropped, at most ReverseCap.  (The addresses it also
\* puts into dnsCache are not modelled; its sweep of a large table is
\* PruneReverse.)
Remembered(d, n, m) ==
  LET others == {i \in Live : reverse[i].domain # d \/ reverse[i].scope # n}
      record == [domain |-> d, scope |-> n, due |-> m.due,
                 expires |-> now + 2 * CacheTTL(m)]
      records == <<record>> \o Selected(reverse, others)
  IN  SubSeq(records, 1, Minimum(Len(records), ReverseCap))

Remember(c) ==
  /\ pc[c] = "remember"
  /\ reverse' = IF CacheTTL(reply[c]) > 0
                  THEN Remembered(domain[c], scope[c], reply[c])
                  ELSE reverse
  /\ Return(c, reply[c])
  /\ UNCHANGED <<router, pool, cancelled, messages, flights, now, calls,
                 domain, scope, asked>>

-----------------------------------------------------------------------------
(* The selected node, the control API and time *)

\* The node changes, by a selector or a URLTest group.
Select(n) ==
  /\ switches < MaxSwitches
  /\ n # current
  /\ current' = n
  /\ switches' = switches + 1
  /\ UNCHANGED <<pool, cancelled, dns, now, calls, clients>>

\* PUT /proxies/{name}: SetCurrent; the invalidation is its next step.
PutProxy(n) == ~control /\ Select(n) /\ control' = TRUE

\* A URLTest group moves by itself and invalidates nothing.
URLTestSwitch(n) == Select(n) /\ UNCHANGED control

\* Mutant: the cancelled client stays in place.
InvalidateDNSConnections_KeepsClient ==
  /\ control \/ pool.id # 0
  /\ cancelled' = cancelled \cup ({pool.id} \ {0})
  /\ control' = FALSE
  /\ UNCHANGED <<current, switches, pool, dns, now, calls, clients>>

\* InvalidateDNSConnections: after SetCurrent, on DELETE /connections and, as
\* part of Router.Close, on shutdown.
InvalidateDNSConnections ==
  /\ control \/ pool.id # 0
  /\ cancelled' = cancelled \cup ({pool.id} \ {0})
  /\ pool' = NoPool
  /\ control' = FALSE
  /\ UNCHANGED <<current, switches, dns, now, calls, clients>>

\* domainsForAddress drops the dead records of the address it looks up, and
\* rememberDNSResponseScoped those of all addresses when there are too many.
PruneReverse ==
  /\ Live # 1..Len(reverse)
  /\ reverse' = Selected(reverse, Live)
  /\ UNCHANGED <<router, pool, cancelled, messages, flights, now, calls,
                 clients>>

\* Time passes while clients wait, not inside straight-line code.
Tick ==
  /\ now < MaxTime
  /\ \A c \in Client : pc[c] \in {"idle", "follow", "query", "done"}
  /\ now' = now + 1
  /\ UNCHANGED <<router, pool, cancelled, dns, calls, clients>>

Next ==
  \/ \E c \in Client : \/ \E d \in Domain : Ask(c, d)
                       \/ AcquirePool(c)
                       \/ Hit(c) \/ Miss(c)
                       \/ Followed(c) \/ GiveUp(c)
                       \/ Query(c) \/ Store(c) \/ Remember(c)
  \/ \E n \in Node : PutProxy(n) \/ URLTestSwitch(n)
  \/ InvalidateDNSConnections
  \/ PruneReverse
  \/ Tick

Spec == Init /\ [][Next]_vars

-----------------------------------------------------------------------------
(* Properties *)

Replies == {Nothing} \cup [ok : {TRUE}, node : Node, ttl : Nat, due : Nat]

Pools == [id : Nat, node : Node]

\* Every field is in its range; a call past the pool step has a pool, and the
\* message cache stays within its limit whatever expires meanwhile.
TypeOK ==
  /\ current \in Node /\ control \in BOOLEAN
  /\ now \in Nat /\ calls \in Nat /\ switches \in Nat
  /\ pool \in Pools /\ pool.id <= calls
  /\ cancelled \subseteq 1..calls
  /\ flights \in [Keys -> 0..calls]
  /\ pc \in [Client -> Stages]
  /\ call \in [Client -> 0..calls]
  /\ domain \in [Client -> Domain]
  /\ scope \in [Client -> Node]
  /\ client \in [Client -> Pools]
  /\ flight \in [Client -> 0..calls]
  /\ asked \in [Client -> Nat]
  /\ reply \in [Client -> Replies]
  /\ \A c \in Client :
       pc[c] \in {"lookup", "follow", "query"} => client[c].id \in 1..calls
  /\ Cardinality(Present(messages)) <= MessageCap

\* A name is resolved through the node that was selected when the call began,
\* also when the answer comes from the cache or from another client's flight:
\* a switch never leaves answers of the old node behind.
AnsweredBySelectedNode ==
  \A c \in Client : pc[c] = "done" /\ reply[c].ok => reply[c].node = scope[c]

\* A client whose pool is not cancelled uses the pool the router holds, so an
\* invalidation reaches every exchange in progress; and the router never holds
\* a cancelled pool, which would fail every later query.
OnlyCurrentPoolLive ==
  /\ pool.id \notin cancelled
  /\ \A c \in Client :
       client[c].id # 0 /\ client[c].id \notin cancelled => client[c] = pool

Leads(c) == pc[c] \in {"query", "store"}

\* dnsFlights lists exactly the exchanges in progress, one per key: identical
\* queries are merged and no key is left blocked by a flight without a leader.
FlightsHaveLeaders ==
  \A k \in Keys :
    /\ \A c, d \in Client :
         Leads(c) /\ Leads(d) /\ Key(c) = k /\ Key(d) = k => c = d
    /\ flights[k] # 0 <=>
         \E c \in Client : Leads(c) /\ Key(c) = k /\ call[c] = flights[k]

\* TTLs are never raised: an address is associated with a domain for less than
\* a second longer than the server allowed, however often the answer is served
\* from the cache; and the table holds one record per domain and scope.
ReverseWithinTTL ==
  /\ Len(reverse) <= ReverseCap
  /\ \A i \in 1..Len(reverse) : reverse[i].expires < reverse[i].due + 2
  /\ \A i, j \in 1..Len(reverse) :
       /\ reverse[i].domain = reverse[j].domain
       /\ reverse[i].scope = reverse[j].scope
       => i = j

\* No follower is left behind: the outcome of its flight has been left with it
\* or the leader is still at work, whatever errors, invalidations and switches
\* come in between.
FollowerHasLeader ==
  \A c \in Client : pc[c] = "follow" /\ flight[c] # 0 =>
    \E d \in Client : Leads(d) /\ call[d] = flight[c] /\ Key(d) = Key(c)

\* The change log's promise for hijacked DNS: a connection that follows an
\* answer and carries only the address can be matched by the domain.  The
\* association exists while an answer that was returned is within its TTL
\* (for tables large enough for all domains and TTLs below the cap).
AnswerIsAssociated ==
  \A c \in Client :
    /\ pc[c] = "done" /\ reply[c].ok
    /\ reply[c].ttl > 0 /\ now < reply[c].due
    => \E i \in 1..Len(reverse) :
          reverse[i].domain = domain[c] /\ reverse[i].scope = scope[c]
=============================================================================
