------------------------- MODULE QuicSessionProofs -------------------------
(***************************************************************************)
(* Invariants of QuicSession and its refinement of SharedSession, for any  *)
(* set of callers, with or without Salamander and for any number of calls. *)
(***************************************************************************)
EXTENDS QuicSession, TLAPS

\* Call numbers are the callers' own, and a number whose dial has not come as
\* far as opening something names nothing that is open.
Numbers ==
  /\ \A c \in Caller : pc[c] # "idle" => id[c] # 0
  /\ \A c, d \in Caller : id[c] # 0 /\ id[c] = id[d] => c = d
  /\ \A c \in Caller : pc[c] \in {"enter", "wait", "socket"} =>
        id[c] \notin live /\ id[c] \notin sockets
  /\ \A c \in Caller : pc[c] = "quic" => id[c] \notin live
  /\ \A c \in Caller : pc[c] = "dialed" /\ held[c] = 0 =>
        id[c] \notin live /\ id[c] \notin sockets
  /\ \A c, d \in Caller :
        pc[c] \in Pending /\ pc[d] \in {"stream", "open"} => held[d] # id[c]
  /\ \A c \in Caller : pc[c] \in Pending => sess # id[c]

\* What a caller remembers at each stage.
Local ==
  /\ \A c \in Caller : udp[c] => pc[c] \in DialStages \cup {"udp"}
  /\ \A c \in Caller : pc[c] = "udp" => udp[c] /\ held[c] = id[c]
  /\ \A c \in Caller : pc[c] \in {"enter"} \cup DialStages => held[c] = 0
  /\ \A c \in Caller : pc[c] = "dialed" => held[c] \in {0, id[c]}

\* The flight recorded in `dialing' is the leader's, and while there is one
\* nothing is cached.
Flight ==
  /\ \A c \in Caller : Leads(c) => dialing = id[c] /\ sess = 0
  /\ dialing # 0 => \E c \in Caller : Leads(c) /\ id[c] = dialing
  /\ closed => sess = 0

IInv ==
  /\ TypeOK
  /\ Numbers
  /\ Local
  /\ Flight
  /\ NoOrphanSession
  /\ StreamsOnCachedSession
  /\ WaiterHasLeader

\* The callers' part of the type invariant.
CallersTyped ==
  /\ pc \in [Caller -> Stages]
  /\ id \in [Caller -> 0..calls]
  /\ udp \in [Caller -> BOOLEAN]
  /\ held \in [Caller -> 0..calls]
  /\ \A c \in Caller : pc[c] \in {"stream", "open", "udp", "wait"} => held[c] # 0

\* Zenon proves what is not said to need SMT: arithmetic, mostly.
USE ZenonT(30)

\* Leaving DialContext keeps what the callers remember well typed.
LEMMA ReturnTyped ==
  ASSUME TypeOK, calls' = calls, NEW c \in Caller, Return(c)
  PROVE  CallersTyped'
BY SMT DEF TypeOK, CallersTyped, Return, Stages, Pending, DialStages

\* So does a failed dial, of a leader or of a UDP association.
LEMMA DialFailedTyped ==
  ASSUME TypeOK, calls' = calls, NEW c \in Caller, DialFailed(c)
  PROVE  CallersTyped'
<1>1. CASE Return(c)
  BY <1>1, ReturnTyped
<1>2. CASE pc' = [pc EXCEPT ![c] = "dialed"] /\ UNCHANGED <<id, udp, held>>
  BY <1>2 DEF TypeOK, CallersTyped, Stages, Pending, DialStages
<1> QED
  BY <1>1, <1>2 DEF DialFailed

\* Every step preserves the inductive invariant.
LEMMA Inductive == IInv /\ [Next]_vars => IInv'
<1> SUFFICES ASSUME IInv, [Next]_vars PROVE IInv'
  OBVIOUS
<1> USE DEF IInv, Stages, Pending, DialStages
<1>1. ASSUME NEW c \in Caller, NEW isUDP \in BOOLEAN, DialContext(c, isUDP)
      PROVE  IInv'
  <2>1. TypeOK'
    BY <1>1, SMT DEF DialContext, TypeOK
  <2>2. Numbers'
    BY <1>1, SMT DEF DialContext, TypeOK, Numbers, Local, Flight
  <2>3. Local'
    BY <1>1, SMT DEF DialContext, TypeOK, Local
  <2>4. Flight'
    BY <1>1, SMT DEF DialContext, TypeOK, Numbers, Local, Flight, Leads
  <2>5. NoOrphanSession'
    BY <1>1, SMT
       DEF DialContext, TypeOK, Numbers, Local, Flight, NoOrphanSession,
           Owned, Leads
  <2>6. StreamsOnCachedSession'
    BY <1>1, SMT
       DEF DialContext, TypeOK, Numbers, Flight, Local,
           StreamsOnCachedSession, Leads
  <2>7. WaiterHasLeader'
    BY <1>1, SMT
       DEF DialContext, TypeOK, Numbers, Local, Flight, WaiterHasLeader, Leads
  <2> QED
    BY <2>1, <2>2, <2>3, <2>4, <2>5, <2>6, <2>7
<1>2. ASSUME NEW c \in Caller, ContextDone(c) PROVE IInv'
  <2> id[c] \in 1..calls /\ held[c] \in 0..calls
    BY <1>2, SMT DEF ContextDone, Return, TypeOK, Numbers
  <2>1. TypeOK'
    <3>1. CallersTyped'
      BY <1>2, ReturnTyped DEF ContextDone
    <3> QED
      BY <1>2, <3>1 DEF ContextDone, TypeOK, CallersTyped
  <2>2. Numbers'
    BY <1>2, SMT DEF ContextDone, Return, TypeOK, Numbers, Local, Flight
  <2>3. Local'
    BY <1>2, SMT DEF ContextDone, Return, TypeOK, Local
  <2>4. Flight'
    BY <1>2, SMT DEF ContextDone, Return, TypeOK, Numbers, Local, Flight, Leads
  <2>5. NoOrphanSession'
    BY <1>2, SMT
       DEF ContextDone, Return, TypeOK, Numbers, Local, Flight,
           NoOrphanSession, Owned, Leads
  <2>6. StreamsOnCachedSession'
    BY <1>2, SMT
       DEF ContextDone, Return, TypeOK, Numbers, Flight, Local,
           StreamsOnCachedSession, Leads
  <2>7. WaiterHasLeader'
    BY <1>2, SMT
       DEF ContextDone, Return, TypeOK, Numbers, Local, Flight,
           WaiterHasLeader, Leads
  <2> QED
    BY <2>1, <2>2, <2>3, <2>4, <2>5, <2>6, <2>7
<1>3. ASSUME NEW c \in Caller, EnterClosed(c) PROVE IInv'
  <2> id[c] \in 1..calls /\ held[c] \in 0..calls
    BY <1>3, SMT DEF EnterClosed, Return, TypeOK, Numbers
  <2>1. TypeOK'
    <3>1. CallersTyped'
      BY <1>3, ReturnTyped DEF EnterClosed
    <3> QED
      BY <1>3, <3>1 DEF EnterClosed, TypeOK, CallersTyped
  <2>2. Numbers'
    BY <1>3, SMT DEF EnterClosed, Return, TypeOK, Numbers, Local, Flight
  <2>3. Local'
    BY <1>3, SMT DEF EnterClosed, Return, TypeOK, Local
  <2>4. Flight'
    BY <1>3, SMT DEF EnterClosed, Return, TypeOK, Numbers, Local, Flight, Leads
  <2>5. NoOrphanSession'
    BY <1>3, SMT
       DEF EnterClosed, Return, TypeOK, Numbers, Local, Flight,
           NoOrphanSession, Owned, Leads
  <2>6. StreamsOnCachedSession'
    BY <1>3, SMT
       DEF EnterClosed, Return, TypeOK, Numbers, Flight, Local,
           StreamsOnCachedSession, Leads
  <2>7. WaiterHasLeader'
    BY <1>3, SMT
       DEF EnterClosed, Return, TypeOK, Numbers, Local, Flight,
           WaiterHasLeader, Leads
  <2> QED
    BY <2>1, <2>2, <2>3, <2>4, <2>5, <2>6, <2>7
<1>4. ASSUME NEW c \in Caller, EnterCached(c) PROVE IInv'
  <2> id[c] \in 1..calls /\ held[c] \in 0..calls
    BY <1>4, SMT DEF EnterCached, TypeOK, Numbers
  <2>1. TypeOK'
    BY <1>4 DEF EnterCached, TypeOK
  <2>2. Numbers'
    BY <1>4, SMT DEF EnterCached, TypeOK, Numbers, Local, Flight
  <2>3. Local'
    BY <1>4, SMT DEF EnterCached, TypeOK, Local
  <2>4. Flight'
    BY <1>4, SMT DEF EnterCached, TypeOK, Numbers, Local, Flight, Leads
  <2>5. NoOrphanSession'
    BY <1>4, SMT
       DEF EnterCached, TypeOK, Numbers, Local, Flight, NoOrphanSession,
           Owned, Leads
  <2>6. StreamsOnCachedSession'
    BY <1>4, SMT
       DEF EnterCached, TypeOK, Numbers, Flight, Local,
           StreamsOnCachedSession, Leads
  <2>7. WaiterHasLeader'
    BY <1>4, SMT
       DEF EnterCached, TypeOK, Numbers, Local, Flight, WaiterHasLeader, Leads
  <2> QED
    BY <2>1, <2>2, <2>3, <2>4, <2>5, <2>6, <2>7
<1>5. ASSUME NEW c \in Caller, EnterMiss(c) PROVE IInv'
  <2> id[c] \in 1..calls /\ held[c] \in 0..calls
    BY <1>5, SMT DEF EnterMiss, TypeOK, Numbers
  <2>1. TypeOK'
    BY <1>5, SMT DEF EnterMiss, TypeOK
  <2>2. Numbers'
    BY <1>5, SMT DEF EnterMiss, TypeOK, Numbers, Local, Flight
  <2>3. Local'
    BY <1>5, SMT DEF EnterMiss, TypeOK, Local
  <2>4. Flight'
    BY <1>5, SMT DEF EnterMiss, TypeOK, Numbers, Local, Flight, Leads
  <2>5. NoOrphanSession'
    BY <1>5, SMT
       DEF EnterMiss, TypeOK, Numbers, Local, Flight, NoOrphanSession, Owned,
           Leads
  <2>6. StreamsOnCachedSession'
    BY <1>5, SMT
       DEF EnterMiss, TypeOK, Numbers, Flight, Local, StreamsOnCachedSession,
           Leads
  <2>7. WaiterHasLeader'
    BY <1>5, SMT
       DEF EnterMiss, TypeOK, Numbers, Local, Flight, WaiterHasLeader, Leads
  <2> QED
    BY <2>1, <2>2, <2>3, <2>4, <2>5, <2>6, <2>7
<1>6. ASSUME NEW c \in Caller, Wake(c) PROVE IInv'
  <2> id[c] \in 1..calls /\ held[c] \in 0..calls
    BY <1>6, SMT DEF Wake, TypeOK, Numbers
  <2>1. TypeOK'
    BY <1>6, SMT DEF Wake, TypeOK
  <2>2. Numbers'
    BY <1>6, SMT DEF Wake, TypeOK, Numbers, Local, Flight
  <2>3. Local'
    BY <1>6, SMT DEF Wake, TypeOK, Local
  <2>4. Flight'
    BY <1>6, SMT DEF Wake, TypeOK, Numbers, Local, Flight, Leads
  <2>5. NoOrphanSession'
    BY <1>6, SMT
       DEF Wake, TypeOK, Numbers, Local, Flight, NoOrphanSession, Owned, Leads
  <2>6. StreamsOnCachedSession'
    BY <1>6, SMT
       DEF Wake, TypeOK, Numbers, Flight, Local, StreamsOnCachedSession, Leads
  <2>7. WaiterHasLeader'
    BY <1>6, SMT DEF Wake, TypeOK, Numbers, Local, Flight, WaiterHasLeader, Leads
  <2> QED
    BY <2>1, <2>2, <2>3, <2>4, <2>5, <2>6, <2>7
<1>7. ASSUME NEW c \in Caller, OpenSocket(c) PROVE IInv'
  <2> id[c] \in 1..calls /\ held[c] \in 0..calls
    BY <1>7, SMT DEF OpenSocket, DialFailed, Return, TypeOK, Numbers
  <2>1. TypeOK'
    <3>1. CASE DialFailed(c)
      <4>1. CallersTyped'
        BY <1>7, <3>1, DialFailedTyped DEF OpenSocket
      <4> QED
        BY <1>7, <4>1 DEF OpenSocket, TypeOK, CallersTyped
    <3>2. CASE ~DialFailed(c)
      BY <1>7, <3>2 DEF OpenSocket, TypeOK
    <3> QED
      BY <3>1, <3>2
  <2>2. Numbers'
    BY <1>7, SMT DEF OpenSocket, DialFailed, Return, TypeOK, Numbers, Local, Flight
  <2>3. Local'
    BY <1>7, SMT DEF OpenSocket, DialFailed, Return, TypeOK, Local
  <2>4. Flight'
    BY <1>7, SMT
       DEF OpenSocket, DialFailed, Return, TypeOK, Numbers, Local, Flight,
           Leads
  <2>5. NoOrphanSession'
    BY <1>7, SMT
       DEF OpenSocket, DialFailed, Return, TypeOK, Numbers, Local, Flight,
           NoOrphanSession, Owned, Leads
  <2>6. StreamsOnCachedSession'
    BY <1>7, SMT
       DEF OpenSocket, DialFailed, Return, TypeOK, Numbers, Flight, Local,
           StreamsOnCachedSession, Leads
  <2>7. WaiterHasLeader'
    BY <1>7, SMT
       DEF OpenSocket, DialFailed, Return, TypeOK, Numbers, Local, Flight,
           WaiterHasLeader, Leads
  <2> QED
    BY <2>1, <2>2, <2>3, <2>4, <2>5, <2>6, <2>7
<1>8. ASSUME NEW c \in Caller, DialQUIC(c) PROVE IInv'
  <2> id[c] \in 1..calls /\ held[c] \in 0..calls
    BY <1>8, SMT DEF DialQUIC, DialFailed, Return, TypeOK, Numbers
  <2>1. TypeOK'
    <3>1. CASE DialFailed(c)
      <4>1. CallersTyped'
        BY <1>8, <3>1, DialFailedTyped DEF DialQUIC
      <4> QED
        BY <1>8, <4>1 DEF DialQUIC, TypeOK, CallersTyped
    <3>2. CASE ~DialFailed(c)
      BY <1>8, <3>2 DEF DialQUIC, TypeOK
    <3> QED
      BY <3>1, <3>2
  <2>2. Numbers'
    BY <1>8, SMT DEF DialQUIC, DialFailed, Return, TypeOK, Numbers, Local, Flight
  <2>3. Local'
    BY <1>8, SMT DEF DialQUIC, DialFailed, Return, TypeOK, Local
  <2>4. Flight'
    BY <1>8, SMT
       DEF DialQUIC, DialFailed, Return, TypeOK, Numbers, Local, Flight, Leads
  <2>5. NoOrphanSession'
    <3> SUFFICES ASSUME NEW s \in live' \cup sockets'
                 PROVE  s # 0 /\ Owned(s)'
      BY DEF NoOrphanSession
    <3>1. sess' = sess /\ pc[c] = "quic"
      BY <1>8 DEF DialQUIC
    <3>2. CASE s = id[c]
      <4>1. pc' = [pc EXCEPT ![c] = "auth"] /\ id' = id
        BY <1>8, <3>2 DEF DialQUIC, Numbers
      <4> QED
        BY <3>2, <4>1, SMT DEF Owned, TypeOK
    <3>3. CASE s # id[c]
      <4>1. s # 0 /\ Owned(s)
        BY <1>8, <3>3 DEF DialQUIC, NoOrphanSession
      <4>2. \A d \in Caller \ {c} :
               pc'[d] = pc[d] /\ id'[d] = id[d] /\ held'[d] = held[d]
        BY <1>8 DEF DialQUIC, DialFailed, Return, TypeOK
      <4>3. ~(held[c] = s /\ pc[c] = "udp")
        BY <3>1
      <4> QED
        BY <3>1, <3>3, <4>1, <4>2, <4>3 DEF Owned
    <3> QED
      BY <3>2, <3>3
  <2>6. StreamsOnCachedSession'
    BY <1>8, SMT
       DEF DialQUIC, DialFailed, Return, TypeOK, Numbers, Flight, Local,
           StreamsOnCachedSession, Leads
  <2>7. WaiterHasLeader'
    BY <1>8, SMT
       DEF DialQUIC, DialFailed, Return, TypeOK, Numbers, Local, Flight,
           WaiterHasLeader, Leads
  <2> QED
    BY <2>1, <2>2, <2>3, <2>4, <2>5, <2>6, <2>7
<1>9. ASSUME NEW c \in Caller, AuthAccepted(c) PROVE IInv'
  <2> id[c] \in 1..calls /\ held[c] \in 0..calls
    BY <1>9 DEF AuthAccepted, TypeOK, Numbers
  <2>1. TypeOK'
    BY <1>9, SMT DEF AuthAccepted, TypeOK
  <2>2. Numbers'
    BY <1>9, SMT DEF AuthAccepted, TypeOK, Numbers, Local, Flight
  <2>3. Local'
    BY <1>9, SMT DEF AuthAccepted, TypeOK, Local
  <2>4. Flight'
    BY <1>9, SMT DEF AuthAccepted, TypeOK, Numbers, Local, Flight, Leads
  <2>5. NoOrphanSession'
    BY <1>9, SMT
       DEF AuthAccepted, TypeOK, Numbers, Local, Flight, NoOrphanSession,
           Owned, Leads
  <2>6. StreamsOnCachedSession'
    BY <1>9, SMT
       DEF AuthAccepted, TypeOK, Numbers, Flight, Local,
           StreamsOnCachedSession, Leads
  <2>7. WaiterHasLeader'
    BY <1>9, SMT
       DEF AuthAccepted, TypeOK, Numbers, Local, Flight, WaiterHasLeader,
           Leads
  <2> QED
    BY <2>1, <2>2, <2>3, <2>4, <2>5, <2>6, <2>7
<1>10. ASSUME NEW c \in Caller, AuthFailed(c) PROVE IInv'
  <2> id[c] \in 1..calls /\ held[c] \in 0..calls
    BY <1>10, SMT DEF AuthFailed, DialFailed, Return, TypeOK, Numbers
  <2>1. TypeOK'
    <3>1. CASE DialFailed(c)
      <4>1. CallersTyped'
        BY <1>10, <3>1, DialFailedTyped DEF AuthFailed
      <4> QED
        BY <1>10, <4>1 DEF AuthFailed, TypeOK, CallersTyped
    <3>2. CASE ~DialFailed(c)
      BY <1>10, <3>2 DEF AuthFailed, TypeOK
    <3> QED
      BY <3>1, <3>2
  <2>2. Numbers'
    BY <1>10, SMT DEF AuthFailed, DialFailed, Return, TypeOK, Numbers, Local, Flight
  <2>3. Local'
    BY <1>10, SMT DEF AuthFailed, DialFailed, Return, TypeOK, Local
  <2>4. Flight'
    BY <1>10, SMT
       DEF AuthFailed, DialFailed, Return, TypeOK, Numbers, Local, Flight,
           Leads
  <2>5. NoOrphanSession'
    BY <1>10, SMT
       DEF AuthFailed, DialFailed, Return, TypeOK, Numbers, Local, Flight,
           NoOrphanSession, Owned, Leads
  <2>6. StreamsOnCachedSession'
    BY <1>10, SMT
       DEF AuthFailed, DialFailed, Return, TypeOK, Numbers, Flight, Local,
           StreamsOnCachedSession, Leads
  <2>7. WaiterHasLeader'
    BY <1>10, SMT
       DEF AuthFailed, DialFailed, Return, TypeOK, Numbers, Local, Flight,
           WaiterHasLeader, Leads
  <2> QED
    BY <2>1, <2>2, <2>3, <2>4, <2>5, <2>6, <2>7
<1>11. ASSUME NEW c \in Caller, PublishError(c) PROVE IInv'
  <2> id[c] \in 1..calls /\ held[c] \in 0..calls
    BY <1>11, SMT DEF PublishError, Release, Return, TypeOK, Numbers
  <2>1. TypeOK'
    <3>1. CallersTyped'
      BY <1>11, ReturnTyped DEF PublishError
    <3> QED
      BY <1>11, <3>1 DEF PublishError, Release, TypeOK, CallersTyped
  <2>2. Numbers'
    BY <1>11, SMT DEF PublishError, Release, Return, TypeOK, Numbers, Local, Flight
  <2>3. Local'
    BY <1>11, SMT DEF PublishError, Release, Return, TypeOK, Local
  <2>4. Flight'
    BY <1>11, SMT
       DEF PublishError, Release, Return, TypeOK, Numbers, Local, Flight,
           Leads
  <2>5. NoOrphanSession'
    BY <1>11, SMT
       DEF PublishError, Release, Return, TypeOK, Numbers, Local, Flight,
           NoOrphanSession, Owned, Leads
  <2>6. StreamsOnCachedSession'
    BY <1>11, SMT
       DEF PublishError, Release, Return, TypeOK, Numbers, Flight, Local,
           StreamsOnCachedSession, Leads
  <2>7. WaiterHasLeader'
    BY <1>11, SMT
       DEF PublishError, Release, Return, TypeOK, Numbers, Local, Flight,
           WaiterHasLeader, Leads
  <2> QED
    BY <2>1, <2>2, <2>3, <2>4, <2>5, <2>6, <2>7
<1>12. ASSUME NEW c \in Caller, PublishClosed(c) PROVE IInv'
  <2> id[c] \in 1..calls /\ held[c] \in 0..calls
    BY <1>12, SMT DEF PublishClosed, Release, Return, TypeOK, Numbers
  <2>1. TypeOK'
    <3>1. CallersTyped'
      BY <1>12, ReturnTyped DEF PublishClosed
    <3>2. calls' = calls /\ dialing' = 0 /\ signalled' = signalled \cup {id[c]}
      BY <1>12 DEF PublishClosed, Release
    <3>3. signalled' \subseteq 1..calls'
      BY <3>2 DEF TypeOK
    <3>4. /\ closed' \in BOOLEAN
          /\ sess' \in 0..calls'
          /\ live' \subseteq 1..calls'
          /\ sockets' \subseteq 1..calls'
      BY <1>12 DEF PublishClosed, TypeOK
    <3> QED
      BY <3>1, <3>2, <3>3, <3>4, SMT DEF TypeOK, CallersTyped
  <2>2. Numbers'
    BY <1>12, SMT DEF PublishClosed, Release, Return, TypeOK, Numbers, Local, Flight
  <2>3. Local'
    BY <1>12, SMT DEF PublishClosed, Release, Return, TypeOK, Local
  <2>4. Flight'
    BY <1>12, SMT
       DEF PublishClosed, Release, Return, TypeOK, Numbers, Local, Flight,
           Leads
  <2>5. NoOrphanSession'
    BY <1>12, SMT
       DEF PublishClosed, Release, Return, TypeOK, Numbers, Local, Flight,
           NoOrphanSession, Owned, Leads
  <2>6. StreamsOnCachedSession'
    BY <1>12, SMT
       DEF PublishClosed, Release, Return, TypeOK, Numbers, Flight, Local,
           StreamsOnCachedSession, Leads
  <2>7. WaiterHasLeader'
    BY <1>12, SMT
       DEF PublishClosed, Release, Return, TypeOK, Numbers, Local, Flight,
           WaiterHasLeader, Leads
  <2> QED
    BY <2>1, <2>2, <2>3, <2>4, <2>5, <2>6, <2>7
<1>13. ASSUME NEW c \in Caller, PublishSession(c) PROVE IInv'
  <2> id[c] \in 1..calls /\ held[c] \in 0..calls
    BY <1>13, SMT DEF PublishSession, Release, TypeOK, Numbers
  <2>1. TypeOK'
    <3>1. CallersTyped'
      BY <1>13 DEF PublishSession, Release, TypeOK, CallersTyped
    <3>2. calls' = calls /\ dialing' = 0 /\ signalled' = signalled \cup {id[c]}
      BY <1>13 DEF PublishSession, Release
    <3>3. signalled' \subseteq 1..calls'
      BY <3>2 DEF TypeOK
    <3>4. /\ closed' \in BOOLEAN
          /\ sess' \in 0..calls'
          /\ live' \subseteq 1..calls'
          /\ sockets' \subseteq 1..calls'
      BY <1>13 DEF PublishSession, TypeOK
    <3> QED
      BY <3>1, <3>2, <3>3, <3>4, SMT DEF TypeOK, CallersTyped
  <2>2. Numbers'
    BY <1>13, SMT DEF PublishSession, Release, TypeOK, Numbers, Local, Flight
  <2>3. Local'
    BY <1>13, SMT DEF PublishSession, Release, TypeOK, Local
  <2>4. Flight'
    BY <1>13, SMT DEF PublishSession, Release, TypeOK, Numbers, Local, Flight, Leads
  <2>5. NoOrphanSession'
    BY <1>13, SMT
       DEF PublishSession, Release, TypeOK, Numbers, Local, Flight,
           NoOrphanSession, Owned, Leads
  <2>6. StreamsOnCachedSession'
    BY <1>13, SMT
       DEF PublishSession, Release, TypeOK, Numbers, Flight, Local,
           StreamsOnCachedSession, Leads
  <2>7. WaiterHasLeader'
    BY <1>13, SMT
       DEF PublishSession, Release, TypeOK, Numbers, Local, Flight,
           WaiterHasLeader, Leads
  <2> QED
    BY <2>1, <2>2, <2>3, <2>4, <2>5, <2>6, <2>7
<1>14. ASSUME NEW c \in Caller, OpenStream(c) PROVE IInv'
  <2> id[c] \in 1..calls /\ held[c] \in 0..calls
    BY <1>14, SMT DEF OpenStream, Return, TypeOK, Numbers
  <2>1. TypeOK'
    <3>1. CASE Return(c)
      <4>1. CallersTyped'
        BY <1>14, <3>1, ReturnTyped DEF OpenStream
      <4> QED
        BY <1>14, <4>1 DEF OpenStream, TypeOK, CallersTyped
    <3>2. CASE ~Return(c)
      BY <1>14, <3>2 DEF OpenStream, TypeOK
    <3> QED
      BY <3>1, <3>2
  <2>2. Numbers'
    BY <1>14, SMT DEF OpenStream, Return, TypeOK, Numbers, Local, Flight
  <2>3. Local'
    BY <1>14, SMT DEF OpenStream, Return, TypeOK, Local
  <2>4. Flight'
    BY <1>14, SMT DEF OpenStream, Return, TypeOK, Numbers, Local, Flight, Leads
  <2>5. NoOrphanSession'
    BY <1>14, SMT
       DEF OpenStream, Return, TypeOK, Numbers, Local, Flight,
           NoOrphanSession, Owned, Leads
  <2>6. StreamsOnCachedSession'
    BY <1>14, SMT
       DEF OpenStream, Return, TypeOK, Numbers, Flight, Local,
           StreamsOnCachedSession, Leads
  <2>7. WaiterHasLeader'
    BY <1>14, SMT
       DEF OpenStream, Return, TypeOK, Numbers, Local, Flight,
           WaiterHasLeader, Leads
  <2> QED
    BY <2>1, <2>2, <2>3, <2>4, <2>5, <2>6, <2>7
<1>15. ASSUME NEW c \in Caller, CloseStream(c) PROVE IInv'
  <2> id[c] \in 1..calls /\ held[c] \in 0..calls
    BY <1>15, SMT DEF CloseStream, Return, TypeOK, Numbers
  <2>1. TypeOK'
    <3>1. CallersTyped'
      BY <1>15, ReturnTyped DEF CloseStream
    <3> QED
      BY <1>15, <3>1 DEF CloseStream, TypeOK, CallersTyped
  <2>2. Numbers'
    BY <1>15, SMT DEF CloseStream, Return, TypeOK, Numbers, Local, Flight
  <2>3. Local'
    BY <1>15, SMT DEF CloseStream, Return, TypeOK, Local
  <2>4. Flight'
    BY <1>15, SMT DEF CloseStream, Return, TypeOK, Numbers, Local, Flight, Leads
  <2>5. NoOrphanSession'
    BY <1>15, SMT
       DEF CloseStream, Return, TypeOK, Numbers, Local, Flight,
           NoOrphanSession, Owned, Leads
  <2>6. StreamsOnCachedSession'
    BY <1>15, SMT
       DEF CloseStream, Return, TypeOK, Numbers, Flight, Local,
           StreamsOnCachedSession, Leads
  <2>7. WaiterHasLeader'
    BY <1>15, SMT
       DEF CloseStream, Return, TypeOK, Numbers, Local, Flight,
           WaiterHasLeader, Leads
  <2> QED
    BY <2>1, <2>2, <2>3, <2>4, <2>5, <2>6, <2>7
<1>16. ASSUME NEW c \in Caller, CloseUDP(c) PROVE IInv'
  <2> id[c] \in 1..calls /\ held[c] \in 0..calls
    BY <1>16, SMT DEF CloseUDP, Return, TypeOK, Numbers
  <2>1. TypeOK'
    <3>1. CallersTyped'
      BY <1>16, ReturnTyped DEF CloseUDP
    <3> QED
      BY <1>16, <3>1 DEF CloseUDP, TypeOK, CallersTyped
  <2>2. Numbers'
    BY <1>16, SMT DEF CloseUDP, Return, TypeOK, Numbers, Local, Flight
  <2>3. Local'
    BY <1>16, SMT DEF CloseUDP, Return, TypeOK, Local
  <2>4. Flight'
    BY <1>16, SMT DEF CloseUDP, Return, TypeOK, Numbers, Local, Flight, Leads
  <2>5. NoOrphanSession'
    BY <1>16, SMT
       DEF CloseUDP, Return, TypeOK, Numbers, Local, Flight, NoOrphanSession,
           Owned, Leads
  <2>6. StreamsOnCachedSession'
    BY <1>16, SMT
       DEF CloseUDP, Return, TypeOK, Numbers, Flight, Local,
           StreamsOnCachedSession, Leads
  <2>7. WaiterHasLeader'
    BY <1>16, SMT
       DEF CloseUDP, Return, TypeOK, Numbers, Local, Flight, WaiterHasLeader,
           Leads
  <2> QED
    BY <2>1, <2>2, <2>3, <2>4, <2>5, <2>6, <2>7
<1>17. ASSUME Close PROVE IInv'
  <2>1. TypeOK'
    BY <1>17, SMT DEF Close, TypeOK
  <2>2. Numbers'
    BY <1>17 DEF Close, TypeOK, Numbers, Local, Flight
  <2>3. Local'
    BY <1>17 DEF Close, TypeOK, Local
  <2>4. Flight'
    BY <1>17 DEF Close, TypeOK, Numbers, Local, Flight, Leads
  <2>5. NoOrphanSession'
    BY <1>17, SMT
       DEF Close, TypeOK, Numbers, Local, Flight, NoOrphanSession, Owned,
           Leads
  <2>6. StreamsOnCachedSession'
    BY <1>17
       DEF Close, TypeOK, Numbers, Flight, Local, StreamsOnCachedSession,
           Leads
  <2>7. WaiterHasLeader'
    BY <1>17 DEF Close, TypeOK, Numbers, Local, Flight, WaiterHasLeader, Leads
  <2> QED
    BY <2>1, <2>2, <2>3, <2>4, <2>5, <2>6, <2>7
<1>18. ASSUME NEW s \in live, ConnectionLost(s) PROVE IInv'
  <2>1. TypeOK'
    BY <1>18 DEF ConnectionLost, TypeOK
  <2>2. Numbers'
    BY <1>18 DEF ConnectionLost, TypeOK, Numbers, Local, Flight
  <2>3. Local'
    BY <1>18 DEF ConnectionLost, TypeOK, Local
  <2>4. Flight'
    BY <1>18 DEF ConnectionLost, TypeOK, Numbers, Local, Flight, Leads
  <2>5. NoOrphanSession'
    BY <1>18, SMT
       DEF ConnectionLost, TypeOK, Numbers, Local, Flight, NoOrphanSession,
           Owned, Leads
  <2>6. StreamsOnCachedSession'
    BY <1>18
       DEF ConnectionLost, TypeOK, Numbers, Flight, Local,
           StreamsOnCachedSession, Leads
  <2>7. WaiterHasLeader'
    BY <1>18
       DEF ConnectionLost, TypeOK, Numbers, Local, Flight, WaiterHasLeader,
           Leads
  <2> QED
    BY <2>1, <2>2, <2>3, <2>4, <2>5, <2>6, <2>7
<1>19. ASSUME UNCHANGED vars PROVE IInv'
  <2>1. TypeOK'
    BY <1>19 DEF vars, TypeOK
  <2>2. Numbers'
    BY <1>19 DEF vars, TypeOK, Numbers, Local, Flight
  <2>3. Local'
    BY <1>19 DEF vars, TypeOK, Local
  <2>4. Flight'
    BY <1>19 DEF vars, TypeOK, Numbers, Local, Flight, Leads
  <2>5. NoOrphanSession'
    BY <1>19, SMT
       DEF vars, TypeOK, Numbers, Local, Flight, NoOrphanSession, Owned, Leads
  <2>6. StreamsOnCachedSession'
    BY <1>19
       DEF vars, TypeOK, Numbers, Flight, Local, StreamsOnCachedSession, Leads
  <2>7. WaiterHasLeader'
    BY <1>19 DEF vars, TypeOK, Numbers, Local, Flight, WaiterHasLeader, Leads
  <2> QED
    BY <2>1, <2>2, <2>3, <2>4, <2>5, <2>6, <2>7
<1> QED
  BY <1>1, <1>2, <1>3, <1>4, <1>5, <1>6, <1>7, <1>8, <1>9, <1>10,
     <1>11, <1>12, <1>13, <1>14, <1>15, <1>16, <1>17, <1>18, <1>19
     DEF Next, CallerStep

\* The initial state satisfies the inductive invariant.
LEMMA Initial == Init => IInv
<1> SUFFICES ASSUME Init PROVE IInv
  OBVIOUS
<1> USE DEF Init, Stages, Pending, DialStages
<1>1. TypeOK
  <2>1. calls \in Nat /\ 0 \in 0..calls
    BY SMT
  <2>2. /\ pc \in [Caller -> Stages]
        /\ id \in [Caller -> 0..calls]
        /\ udp \in [Caller -> BOOLEAN]
        /\ held \in [Caller -> 0..calls]
    BY <2>1
  <2>3. \A c \in Caller : pc[c] \notin {"stream", "open", "udp", "wait"}
    OBVIOUS
  <2>4. /\ closed \in BOOLEAN
        /\ sess \in 0..calls
        /\ dialing \in 0..calls
        /\ signalled \subseteq 1..calls
        /\ live \subseteq 1..calls
        /\ sockets \subseteq 1..calls
    BY <2>1
  <2> QED
    BY <2>1, <2>2, <2>3, <2>4 DEF TypeOK
<1>2. Numbers
  BY DEF Numbers
<1>3. Local
  BY DEF Local
<1>4. Flight
  BY DEF Flight, Leads
<1>5. NoOrphanSession
  BY DEF NoOrphanSession
<1>6. StreamsOnCachedSession /\ WaiterHasLeader
  BY DEF StreamsOnCachedSession, WaiterHasLeader
<1> QED
  BY <1>1, <1>2, <1>3, <1>4, <1>5, <1>6 DEF IInv

\* The inductive invariant holds throughout.
THEOREM Invariance == Spec => []IInv
<1>1. IInv /\ UNCHANGED vars => IInv'
  BY Inductive
<1> QED
  BY Initial, Inductive, <1>1, PTL DEF Spec

\* Every field stays in its range, and session() and dialSession() never hand
\* out a nil session: for all callers and any number of calls.
THEOREM TypeCorrect == Spec => []TypeOK
BY Invariance, PTL DEF IInv

\* session() never runs two dials for the shared session at a time.
THEOREM SingleFlightHolds == Spec => []SingleFlight
<1>1. IInv => SingleFlight
  BY SMT
     DEF IInv, TypeOK, Numbers, Flight, SingleFlight, Leads, DialStages,
         Stages, Pending
<1> QED
  BY Invariance, <1>1, PTL

\* No QUIC connection or UDP socket is left without an owner, whatever order
\* dials, failures, expiries and Close() come in.
THEOREM NoOrphanSessionHolds == Spec => []NoOrphanSession
BY Invariance, PTL DEF IInv

\* All TCP streams on a live session are on the cached one.
THEOREM StreamsOnCachedSessionHolds == Spec => []StreamsOnCachedSession
BY Invariance, PTL DEF IInv

\* A caller that waits in session() has a leader still to wake it, or has been
\* woken: the safety half of "no lost wakeup".
THEOREM WaiterHasLeaderHolds == Spec => []WaiterHasLeader
BY Invariance, PTL DEF IInv

\* A dial's number is not used up before session() has answered, and no number
\* is past the bound on the calls.
Fresh ==
  /\ calls \in 0..MaxCalls
  /\ \A c \in Caller : pc[c] \in Pending => id[c] \notin signalled

\* A call that leaves uses up its own number at most, and nobody shares it.
LEMMA FreshPreserved == IInv /\ Fresh /\ [Next]_vars => Fresh'
<1> SUFFICES ASSUME IInv, Fresh, [Next]_vars PROVE Fresh'
  OBVIOUS
<1>0. TypeOK
  BY DEF IInv
<1>1. ASSUME NEW c \in Caller, NEW isUDP \in BOOLEAN, DialContext(c, isUDP)
      PROVE  Fresh'
  BY <1>1, CallsAssumption, SMT DEF DialContext, IInv, TypeOK, Numbers, Fresh
<1>2. ASSUME UNCHANGED <<signalled, calls>>,
             \A d \in Caller : pc'[d] \in Pending =>
                                 pc[d] \in Pending /\ id'[d] = id[d]
      PROVE  Fresh'
  BY <1>2 DEF Fresh
<1>3. ASSUME NEW c \in Caller, Release(c), pc[c] = "dialed", calls' = calls,
             \A d \in Caller : pc'[d] \in Pending =>
                                 d # c /\ pc[d] \in Pending /\ id'[d] = id[d]
      PROVE  Fresh'
  BY <1>3 DEF Release, IInv, Numbers, Fresh, Pending
<1>4. ASSUME NEW c \in Caller, Return(c)
      PROVE  \A d \in Caller : pc'[d] \in Pending =>
                                 d # c /\ pc[d] \in Pending /\ id'[d] = id[d]
  BY <1>0, <1>4, SMT DEF TypeOK, Return, Pending, DialStages
<1>5. ASSUME NEW c \in Caller, pc[c] \in Pending, DialFailed(c)
      PROVE  \A d \in Caller : pc'[d] \in Pending =>
                                 pc[d] \in Pending /\ id'[d] = id[d]
  <2>1. CASE Return(c)
    BY <1>4, <2>1
  <2>2. CASE pc' = [pc EXCEPT ![c] = "dialed"] /\ UNCHANGED id
    BY <1>0, <1>5, <2>2 DEF TypeOK
  <2> QED
    BY <1>5, <2>1, <2>2 DEF DialFailed
<1>6. ASSUME NEW c \in Caller, \/ ContextDone(c) \/ EnterClosed(c)
                               \/ CloseStream(c) \/ CloseUDP(c)
      PROVE  Fresh'
  BY <1>2, <1>4, <1>6 DEF ContextDone, EnterClosed, CloseStream, CloseUDP
<1>7. ASSUME NEW c \in Caller, EnterCached(c) \/ EnterMiss(c) \/ Wake(c)
      PROVE  Fresh'
  BY <1>0, <1>2, <1>7 DEF TypeOK, EnterCached, EnterMiss, Wake, Pending, DialStages
<1>8. ASSUME NEW c \in Caller, OpenSocket(c) \/ DialQUIC(c) \/ AuthFailed(c)
      PROVE  Fresh'
  <2>1. pc[c] \in Pending
    BY <1>8 DEF OpenSocket, DialQUIC, AuthFailed, Pending, DialStages
  <2> QED
    <3>1. CASE DialFailed(c)
      BY <1>2, <1>5, <1>8, <2>1, <3>1 DEF OpenSocket, DialQUIC, AuthFailed
    <3>2. CASE ~DialFailed(c)
      BY <1>0, <1>2, <1>8, <3>2
         DEF TypeOK, OpenSocket, DialQUIC, AuthFailed, Pending, DialStages
    <3> QED
      BY <3>1, <3>2
<1>9. ASSUME NEW c \in Caller, AuthAccepted(c) PROVE Fresh'
  BY <1>0, <1>2, <1>9 DEF TypeOK, AuthAccepted, Pending, DialStages
<1>10. ASSUME NEW c \in Caller, PublishError(c) \/ PublishClosed(c)
       PROVE  Fresh'
  BY <1>3, <1>4, <1>10 DEF PublishError, PublishClosed
<1>11. ASSUME NEW c \in Caller, PublishSession(c) PROVE Fresh'
  <2>1. \A d \in Caller : pc'[d] \in Pending =>
                           d # c /\ pc[d] \in Pending /\ id'[d] = id[d]
    BY <1>0, <1>11 DEF TypeOK, PublishSession, Pending, DialStages
  <2> QED
    BY <1>3, <1>11, <2>1 DEF PublishSession
<1>12. ASSUME NEW c \in Caller, OpenStream(c) PROVE Fresh'
  <2>1. CASE Return(c)
    BY <1>2, <1>4, <1>12, <2>1 DEF OpenStream
  <2>2. CASE ~Return(c)
    BY <1>0, <1>2, <1>12, <2>2 DEF TypeOK, OpenStream, Pending, DialStages
  <2> QED
    BY <2>1, <2>2
<1>13. ASSUME Close \/ (\E s \in live : ConnectionLost(s)) \/ UNCHANGED vars
       PROVE  Fresh'
  BY <1>13 DEF Fresh, Close, ConnectionLost, vars
<1> QED
  BY <1>1, <1>6, <1>7, <1>8, <1>9, <1>10, <1>11, <1>12, <1>13
     DEF Next, CallerStep

-----------------------------------------------------------------------------
(* The refinement of SharedSession *)

\* How a caller looks from outside, by where it is.
Outside(c) ==
  \/ pc[c] \in {"idle", "udp"}
  \/ pc[c] \in Pending /\ udp[c]

\* The stage and the session that the refinement mapping gives a caller.
LEMMA Seen ==
  ASSUME NEW c \in Caller
  PROVE  /\ Uses(c) => Stage[c] = "using" /\ Given[c] = held[c]
         /\ Asks(c) => Stage[c] = "asking" /\ Given[c] = 0
         /\ Outside(c) => Stage[c] = "out" /\ Given[c] = 0
BY DEF Stage, Given, Uses, Asks, Outside, Pending, DialStages

\* The same after a step.
LEMMA SeenNext ==
  ASSUME NEW c \in Caller
  PROVE  /\ Uses(c)' => Stage'[c] = "using" /\ Given'[c] = held'[c]
         /\ Asks(c)' => Stage'[c] = "asking" /\ Given'[c] = 0
         /\ Outside(c)' => Stage'[c] = "out" /\ Given'[c] = 0
BY DEF Stage, Given, Uses, Asks, Outside, Pending, DialStages

\* Only caller c moves.
Alone(c) ==
  \A d \in Caller \ {c} :
    pc'[d] = pc[d] /\ udp'[d] = udp[d] /\ held'[d] = held[d]

\* A step of one caller changes the stage and the session of that caller only.
LEMMA AloneSeen ==
  ASSUME NEW c \in Caller, Alone(c)
  PROVE  /\ Stage' = [Stage EXCEPT ![c] = Stage'[c]]
         /\ Given' = [Given EXCEPT ![c] = Given'[c]]
         /\ Stage'[c] = Stage[c] => Stage' = Stage
         /\ Given'[c] = Given[c] => Given' = Given
<1>1. \A d \in Caller \ {c} : Stage'[d] = Stage[d] /\ Given'[d] = Given[d]
  BY DEF Alone, Stage, Given, Uses, Asks
<1>2. /\ Stage = [d \in Caller |-> Stage[d]]
      /\ Given = [d \in Caller |-> Given[d]]
      /\ Stage' = [d \in Caller |-> Stage'[d]]
      /\ Given' = [d \in Caller |-> Given'[d]]
  BY DEF Stage, Given
<1>3. ASSUME NEW f, NEW g, f = [d \in Caller |-> f[d]],
             g = [d \in Caller |-> g[d]],
             \A d \in Caller \ {c} : g[d] = f[d]
      PROVE  g = [f EXCEPT ![c] = g[c]] /\ (g[c] = f[c] => g = f)
  BY <1>3
<1>4. /\ Stage' = [Stage EXCEPT ![c] = Stage'[c]]
      /\ Stage'[c] = Stage[c] => Stage' = Stage
  BY <1>1, <1>2, <1>3
<1>5. /\ Given' = [Given EXCEPT ![c] = Given'[c]]
      /\ Given'[c] = Given[c] => Given' = Given
  BY <1>1, <1>2, <1>3
<1> QED
  BY <1>4, <1>5

\* Every step of QuicSession is a step of the atomic session or is invisible.
LEMMA StepRefines ==
  IInv /\ Fresh /\ [Next]_vars => [Shared!SNext]_(Shared!svars)
<1> SUFFICES ASSUME IInv, Fresh, [Next]_vars
             PROVE  [Shared!SNext]_(Shared!svars)
  OBVIOUS
<1>0. TypeOK /\ Numbers /\ Local /\ Flight /\ 0 \notin live
  BY SMT DEF IInv, TypeOK
<1>1. ASSUME NEW c \in Caller, Return(c) PROVE Alone(c) /\ Outside(c)'
  BY <1>0, <1>1 DEF TypeOK, Return, Alone, Outside

\* A step inside session(), dialSession() or of a UDP call.
<1>2. ASSUME NEW c \in Caller, Alone(c), UNCHANGED <<closed, signalled, Current>>,
             \/ Outside(c) /\ Outside(c)'
             \/ Asks(c) /\ Asks(c)'
             \/ Uses(c) /\ Uses(c)' /\ held'[c] = held[c]
      PROVE  UNCHANGED Shared!svars
  <2>1. Stage'[c] = Stage[c] /\ Given'[c] = Given[c]
    BY <1>2, Seen, SeenNext, SMT
  <2> QED
    BY <1>2, <2>1, AloneSeen DEF Shared!svars
\* A caller leaves, with a session or without one.
<1>3. ASSUME NEW c \in Caller, Alone(c), UNCHANGED <<closed, signalled, Current>>,
             Asks(c) \/ Uses(c), Outside(c)'
      PROVE  Shared!SNext
  <2>1. Stage[c] # "out" /\ Stage'[c] = "out" /\ Given'[c] = 0
    BY <1>3, Seen, SeenNext
  <2>2. Shared!Leave(c)
    BY <1>3, <2>1, AloneSeen DEF Shared!Leave
  <2> QED
    BY <1>3, <2>2 DEF Shared!SNext
<1>4. ASSUME UNCHANGED <<sess, live>> PROVE UNCHANGED Current
  BY <1>4 DEF Current
<1>5. ASSUME NEW c \in Caller, NEW isUDP \in BOOLEAN, DialContext(c, isUDP)
      PROVE  [Shared!SNext]_(Shared!svars)
  <2>1. /\ Alone(c) /\ Outside(c) /\ UNCHANGED <<closed, signalled, Current>>
        /\ IF isUDP THEN Outside(c)' ELSE Asks(c)'
    BY <1>0, <1>4, <1>5
       DEF TypeOK, DialContext, Alone, Outside, Asks, Pending, DialStages
  <2>2. CASE isUDP
    BY <1>2, <2>1, <2>2
  <2>3. CASE ~isUDP
    <3>1. Stage[c] = "out" /\ Stage'[c] = "asking" /\ Given'[c] = Given[c]
      BY <2>1, <2>3, Seen, SeenNext, SMT
    <3>2. Shared!Ask(c)
      BY <2>1, <3>1, AloneSeen DEF Shared!Ask
    <3> QED
      BY <3>2 DEF Shared!SNext
  <2> QED
    BY <2>2, <2>3
<1>6. ASSUME NEW c \in Caller, ContextDone(c) \/ EnterClosed(c) PROVE Shared!SNext
  <2>1. Asks(c) /\ UNCHANGED <<closed, signalled, Current>> /\ Return(c)
    BY <1>0, <1>4, <1>6
       DEF Local, ContextDone, EnterClosed, Asks, Pending, DialStages
  <2> QED
    BY <1>1, <1>3, <2>1
<1>7. ASSUME NEW c \in Caller, EnterCached(c) PROVE Shared!SNext
  <2>1. /\ Asks(c) /\ Alone(c) /\ Uses(c)' /\ held'[c] = Current /\ Current # 0
        /\ ~closed /\ UNCHANGED <<closed, signalled, Current>>
    BY <1>0, <1>4, <1>7
       DEF TypeOK, Local, EnterCached, Alone, Asks, Uses, Pending, DialStages,
           Current
  <2>2. Stage[c] = "asking" /\ Stage'[c] = "using" /\ Given'[c] = Current
    BY <2>1, Seen, SeenNext
  <2>3. Shared!Share(c)
    BY <2>1, <2>2, AloneSeen DEF Shared!Share, Shared!Receive
  <2> QED
    BY <2>3 DEF Shared!SNext
<1>8. ASSUME NEW c \in Caller, EnterMiss(c) PROVE UNCHANGED Shared!svars
  <2>1. UNCHANGED Current
    BY <1>0, <1>8 DEF EnterMiss, Current
  <2>2. /\ Asks(c) /\ Asks(c)' /\ Alone(c)
        /\ UNCHANGED <<closed, signalled>>
    BY <1>0, <1>8
       DEF TypeOK, Local, EnterMiss, Alone, Asks, Pending, DialStages
  <2> QED
    BY <1>2, <2>1, <2>2
<1>9. ASSUME NEW c \in Caller, Wake(c) PROVE UNCHANGED Shared!svars
  <2>1. /\ Asks(c) /\ Asks(c)' /\ Alone(c)
        /\ UNCHANGED <<closed, signalled, Current>>
    BY <1>0, <1>4, <1>9
       DEF TypeOK, Local, Wake, Alone, Asks, Pending, DialStages
  <2> QED
    BY <1>2, <2>1
<1>10. ASSUME NEW c \in Caller, pc[c] \in DialStages,
              UNCHANGED <<closed, signalled, Current>>,
              \/ DialFailed(c)
              \/ pc' = [pc EXCEPT ![c] = "quic"] /\ UNCHANGED <<udp, held>>
              \/ pc' = [pc EXCEPT ![c] = "auth"] /\ UNCHANGED <<udp, held>>
       PROVE  UNCHANGED Shared!svars
  <2>1. Outside(c) \/ Asks(c)
    BY <1>10 DEF Outside, Asks, Pending
  <2>2. CASE Return(c) /\ udp[c]
    BY <1>1, <1>2, <1>10, <2>1, <2>2 DEF Asks
  <2>3. CASE ~(Return(c) /\ udp[c])
    <3>1. Alone(c) /\ udp' = udp /\ pc'[c] \in Pending /\ pc[c] \in Pending
      BY <1>0, <1>10, <2>3
         DEF TypeOK, DialFailed, Alone, Pending, DialStages
    <3>2. \/ Outside(c) /\ Outside(c)'
          \/ Asks(c) /\ Asks(c)'
      BY <3>1 DEF Outside, Asks
    <3> QED
      BY <1>2, <1>10, <3>1, <3>2
  <2> QED
    BY <2>2, <2>3
<1>11. ASSUME NEW c \in Caller, OpenSocket(c) \/ DialQUIC(c) \/ AuthFailed(c)
       PROVE  UNCHANGED Shared!svars
  <2>1. sess # id[c] /\ pc[c] \in DialStages
    BY <1>0, <1>11
       DEF Numbers, OpenSocket, DialQUIC, AuthFailed, Pending, DialStages
  <2>2. UNCHANGED Current
    BY <1>11, <2>1 DEF OpenSocket, DialQUIC, AuthFailed, Current
  <2> QED
    BY <1>10, <1>11, <2>1, <2>2 DEF OpenSocket, DialQUIC, AuthFailed
<1>12. ASSUME NEW c \in Caller, AuthAccepted(c) PROVE UNCHANGED Shared!svars
  <2>1. Alone(c) /\ UNCHANGED <<closed, signalled, Current>>
    BY <1>0, <1>4, <1>12 DEF TypeOK, AuthAccepted, Alone
  <2>2. \/ Outside(c) /\ Outside(c)'
        \/ Asks(c) /\ Asks(c)'
    BY <1>0, <1>12
       DEF TypeOK, AuthAccepted, Outside, Asks, Pending, DialStages
  <2> QED
    BY <1>2, <2>1, <2>2
\* Whoever publishes the outcome of a dial has a number that is still unused,
\* and nothing is cached.
<1>13. ASSUME NEW c \in Caller, pc[c] = "dialed"
       PROVE  /\ id[c] \in (1..MaxCalls) \ signalled
              /\ Asks(c) /\ Current = 0 /\ sess = 0 /\ id[c] # 0
  <2>1. id[c] \in 0..calls /\ id[c] # 0 /\ id[c] \notin signalled
    BY <1>0, <1>13 DEF TypeOK, Numbers, Fresh, Pending
  <2>2. id[c] \in 1..MaxCalls
    BY <2>1, CallsAssumption, SMT DEF Fresh
  <2>3. Leads(c) /\ Asks(c)
    BY <1>0, <1>13 DEF Local, Leads, Asks, Pending, DialStages
  <2>4. sess = 0
    BY <1>0, <2>3 DEF Flight
  <2> QED
    BY <1>0, <2>1, <2>2, <2>3, <2>4 DEF Current
<1>14. ASSUME NEW c \in Caller, PublishError(c) \/ PublishClosed(c)
       PROVE  Shared!SNext
  <2>1. /\ pc[c] = "dialed" /\ Return(c) /\ sess' = sess /\ closed' = closed
        /\ signalled' = signalled \cup {id[c]}
        /\ live' \subseteq live
    BY <1>14 DEF PublishError, PublishClosed, Release
  <2>2. Current = 0 /\ Current' = 0
    BY <1>0, <1>13, <2>1 DEF Current
  <2>3. Stage[c] = "asking" /\ Stage'[c] = "out" /\ Given'[c] = 0 /\ Alone(c)
    BY <1>1, <1>13, <2>1, Seen, SeenNext
  <2>4. Shared!GiveUp(c, id[c])
    BY <2>1, <2>2, <2>3, AloneSeen DEF Shared!GiveUp, Shared!Leave
  <2> QED
    BY <1>13, <2>1, <2>4 DEF Shared!SNext
<1>15. ASSUME NEW c \in Caller, PublishSession(c) PROVE Shared!SNext
  <2>1. /\ pc[c] = "dialed" /\ held[c] = id[c] /\ ~closed /\ closed' = closed
        /\ signalled' = signalled \cup {id[c]} /\ sess' = id[c]
        /\ Alone(c) /\ Uses(c)' /\ held'[c] = id[c]
    BY <1>0, <1>15 DEF TypeOK, Local, PublishSession, Release, Alone, Uses
  <2>2. Current' \in {id[c], 0}
    BY <2>1 DEF Current
  <2>3. Stage[c] = "asking" /\ Stage'[c] = "using" /\ Given'[c] = id[c]
    BY <1>13, <2>1, Seen, SeenNext
  <2>4. Shared!Receive(c, id[c])
    BY <1>13, <2>1, <2>3, AloneSeen DEF Shared!Receive
  <2>5. Shared!Make(c, id[c])
    BY <1>13, <2>1, <2>2, <2>4 DEF Shared!Make
  <2> QED
    BY <1>13, <2>1, <2>5 DEF Shared!SNext
<1>16. ASSUME NEW c \in Caller, OpenStream(c) \/ CloseStream(c)
       PROVE  [Shared!SNext]_(Shared!svars)
  <2>1. Uses(c) /\ UNCHANGED <<closed, signalled, Current>>
    BY <1>4, <1>16 DEF OpenStream, CloseStream, Uses
  <2>2. CASE Return(c)
    BY <1>1, <1>3, <2>1, <2>2
  <2>3. CASE ~Return(c)
    <3>1. Alone(c) /\ Uses(c)' /\ held'[c] = held[c]
      BY <1>0, <1>16, <2>3 DEF TypeOK, OpenStream, CloseStream, Alone, Uses
    <3> QED
      BY <1>2, <2>1, <3>1
  <2> QED
    BY <2>2, <2>3
\* A connection that ends is the shared one or is invisible.
<1>17. ASSUME sess' = sess, live' \subseteq live, Stage' = Stage, Given' = Given,
              UNCHANGED <<closed, signalled>>
       PROVE  [Shared!SNext]_(Shared!svars)
  <2>1. Current' = Current \/ (Current # 0 /\ Current' = 0)
    BY <1>0, <1>17 DEF Current
  <2> QED
    BY <1>17, <2>1 DEF Shared!SNext, Shared!Lose, Shared!svars
<1>18. ASSUME NEW c \in Caller, CloseUDP(c)
       PROVE  [Shared!SNext]_(Shared!svars)
  <2>1. /\ Outside(c) /\ Return(c) /\ sess' = sess /\ live' \subseteq live
        /\ UNCHANGED <<closed, signalled>>
    BY <1>18 DEF CloseUDP, Outside
  <2>2. Stage' = Stage /\ Given' = Given
    BY <1>1, <2>1, Seen, SeenNext, AloneSeen
  <2> QED
    BY <1>17, <2>1, <2>2
<1>19. ASSUME UNCHANGED <<pc, udp, held>> PROVE Stage' = Stage /\ Given' = Given
  BY <1>19 DEF Stage, Given, Uses, Asks
<1>20. ASSUME Close PROVE Shared!SNext
  <2>1. Current' = 0
    BY <1>0, <1>20 DEF Close, Current
  <2>2. Shared!Shut
    BY <1>19, <1>20, <2>1 DEF Close, Shared!Shut
  <2> QED
    BY <2>2 DEF Shared!SNext
<1>21. ASSUME NEW s \in live, ConnectionLost(s)
       PROVE  [Shared!SNext]_(Shared!svars)
  BY <1>17, <1>19, <1>21 DEF ConnectionLost
<1>22. ASSUME UNCHANGED vars PROVE UNCHANGED Shared!svars
  BY <1>4, <1>19, <1>22 DEF vars, Shared!svars
<1> QED
  BY <1>5, <1>6, <1>7, <1>8, <1>9, <1>11, <1>12, <1>14, <1>15, <1>16, <1>18,
     <1>20, <1>21, <1>22
     DEF Next, CallerStep

\* QuicSession implements SharedSession: for any callers and any number of
\* calls, session() with its merged dials, its waiters, its dead and late
\* sessions is an atomic source of one session at a time.
THEOREM Refinement == Spec => SharesOneSession
<1>1. Init => Shared!SInit
  <2> SUFFICES ASSUME Init PROVE Shared!SInit
    OBVIOUS
  <2>1. Stage = [c \in Caller |-> "out"] /\ Given = [c \in Caller |-> 0]
    BY DEF Init, Stage, Given, Uses, Asks, Pending, DialStages
  <2> QED
    BY <2>1 DEF Init, Shared!SInit, Current
<1>2. Init => Fresh
  BY CallsAssumption, SMT DEF Init, Fresh, Pending, DialStages
<1>3. IInv /\ Fresh /\ UNCHANGED vars => Fresh'
  BY FreshPreserved
<1>4. Spec => []Fresh
  BY Invariance, FreshPreserved, <1>2, <1>3, PTL DEF Spec
<1> QED
  BY Invariance, <1>1, <1>4, StepRefines, PTL DEF Spec, SharesOneSession, Shared!SSpec

-----------------------------------------------------------------------------
(* The safety half of ClosedDrains *)

\* The outbound is closed and the last shared dial is over.
Drained == closed /\ \A c \in Caller : ~Leads(c)

\* Nobody starts to dial a shared session on a closed outbound.
LEMMA NoNewLeader ==
  ASSUME IInv, closed, [Next]_vars, NEW d \in Caller, Leads(d)'
  PROVE  Leads(d)
<1>0. TypeOK /\ Local
  BY DEF IInv
<1> USE DEF Leads, DialStages
<1>1. ASSUME NEW c \in Caller, Return(c) PROVE Leads(d)
  BY <1>0, <1>1 DEF TypeOK, Return
<1>2. ASSUME NEW c \in Caller, \E isUDP \in BOOLEAN : DialContext(c, isUDP)
      PROVE  Leads(d)
  BY <1>0, <1>2 DEF TypeOK, DialContext
<1>3. ASSUME NEW c \in Caller,
             \/ ContextDone(c) \/ EnterClosed(c) \/ CloseStream(c) \/ CloseUDP(c)
             \/ PublishError(c) \/ PublishClosed(c)
      PROVE  Leads(d)
  BY <1>1, <1>3
     DEF ContextDone, EnterClosed, CloseStream, CloseUDP, PublishError,
         PublishClosed
<1>4. ASSUME NEW c \in Caller, EnterCached(c) \/ EnterMiss(c) \/ PublishSession(c)
      PROVE  Leads(d)
  BY <1>4 DEF EnterCached, EnterMiss, PublishSession
<1>5. ASSUME NEW c \in Caller, Wake(c) \/ AuthAccepted(c) PROVE Leads(d)
  BY <1>0, <1>5 DEF TypeOK, Wake, AuthAccepted
<1>6. ASSUME NEW c \in Caller, OpenSocket(c) \/ DialQUIC(c) \/ AuthFailed(c)
      PROVE  Leads(d)
  <2>1. CASE Return(c)
    BY <1>1, <2>1
  <2>2. CASE ~Return(c)
    <3>1. /\ udp' = udp /\ pc[c] \in DialStages
          /\ \A e \in Caller \ {c} : pc'[e] = pc[e]
      BY <1>0, <1>6, <2>2
         DEF TypeOK, OpenSocket, DialQUIC, AuthFailed, DialFailed
    <3> QED
      BY <3>1
  <2> QED
    BY <2>1, <2>2
<1>7. ASSUME NEW c \in Caller, OpenStream(c) PROVE Leads(d)
  <2>1. CASE Return(c)
    BY <1>1, <2>1
  <2>2. CASE ~Return(c)
    BY <1>0, <1>7, <2>2 DEF TypeOK, OpenStream
  <2> QED
    BY <2>1, <2>2
<1>8. ASSUME Close \/ (\E s \in live : ConnectionLost(s)) \/ UNCHANGED vars
      PROVE  Leads(d)
  BY <1>8 DEF Close, ConnectionLost, vars
<1> QED
  BY <1>2, <1>3, <1>4, <1>5, <1>6, <1>7, <1>8 DEF Next, CallerStep

\* Once the outbound is closed and the dial that was running, if any, is over,
\* no shared session is up, and it stays so: what ClosedDrains adds is that the
\* dial ends.
THEOREM DrainedForGood ==
  Spec => /\ [](Drained => SharedLive = {})
          /\ [][Drained => Drained']_vars
<1>1. IInv => (Drained => SharedLive = {})
  <2> SUFFICES ASSUME IInv, Drained, NEW s \in SharedLive PROVE FALSE
    OBVIOUS
  <2>1. /\ s # 0 /\ Owned(s) /\ sess = 0
        /\ \A c \in Caller : ~(udp[c] /\ id[c] = s)
    BY DEF IInv, NoOrphanSession, Flight, Drained, SharedLive
  <2>2. PICK c \in Caller : \/ id[c] = s /\ pc[c] \in DialStages \cup {"dialed"}
                            \/ held[c] = s /\ pc[c] = "udp"
    BY <2>1 DEF Owned
  <2> QED
    BY <2>1, <2>2 DEF IInv, Local, Drained, Leads
<1>2. IInv /\ [Next]_vars => (Drained => Drained')
  <2> SUFFICES ASSUME IInv, [Next]_vars, Drained PROVE Drained'
    OBVIOUS
  <2>1. closed'
    BY DEF Drained, Next, CallerStep, vars, DialContext, ContextDone,
           EnterClosed, EnterCached, EnterMiss, Wake, OpenSocket, DialQUIC,
           AuthAccepted, AuthFailed, PublishError, PublishClosed,
           PublishSession, OpenStream, CloseStream, CloseUDP, Close,
           ConnectionLost
  <2> QED
    BY <2>1, NoNewLeader DEF Drained
<1> QED
  BY Invariance, <1>1, <1>2, PTL DEF Spec
=============================================================================
