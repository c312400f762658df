---------------------------- MODULE QuicSession ----------------------------
(***************************************************************************)
(* The QUIC session of the Hysteria2 and TUIC outbounds.                   *)
(*                                                                         *)
(* TCP dials share one cached session.  session() merges concurrent dials: *)
(* the first caller that finds no usable session becomes the leader, puts  *)
(* a `pending' channel into `dialing', and dials with the mutex released;  *)
(* the others wait on the channel and then start over.  UDP dials own a    *)
(* session each and bypass the cache.  Close() marks the outbound closed   *)
(* and drops the cached session, while dials may still be in progress.     *)
(*                                                                         *)
(* A call of DialContext gets a number of its own.  The session it dials   *)
(* and the pending channel it creates are named by that number; 0 is nil.  *)
(***************************************************************************)
EXTENDS Naturals

CONSTANTS Caller,      \* goroutines that call DialContext
          Salamander,  \* the outbound owns the UDP socket under the session
          MaxCalls     \* bound on the number of DialContext calls

ASSUME CallsAssumption == MaxCalls \in Nat

ASSUME SalamanderAssumption == Salamander \in BOOLEAN

VARIABLES
  closed,     \* Hysteria2.closed
  sess,       \* Hysteria2.sess: the cached session, or 0
  dialing,    \* Hysteria2.dialing: the pending channel, or 0
  signalled,  \* the pending channels that have been closed
  live,       \* sessions whose QUIC connection is up (Context().Err() = nil)
  sockets,    \* sessions whose packetConn is open
  calls,      \* DialContext calls made so far
  pc,         \* where each caller is
  id,         \* the number of the caller's current call
  udp,        \* the caller's current call is DialContext("udp", ...)
  held        \* pending channel the caller waits on, or session it was given

vars == <<closed, sess, dialing, signalled, live, sockets, calls,
          pc, id, udp, held>>

\* Where a caller is inside dialSession.
DialStages == {"socket", "quic", "auth"}

\* A caller that has entered DialContext and has no answer from session().
Pending == {"enter", "wait", "dialed"} \cup DialStages

Stages == {"idle", "stream", "open", "udp"} \cup Pending

\* Every field is in its range, and a caller past session() or waiting in it
\* really has a session or a channel: session() never answers (nil, nil).
TypeOK ==
  /\ closed \in BOOLEAN
  /\ calls \in Nat
  /\ sess \in 0..calls
  /\ dialing \in 0..calls
  /\ signalled \subseteq 1..calls
  /\ live \subseteq 1..calls
  /\ sockets \subseteq 1..calls
  /\ pc \in [Caller -> Stages]
  /\ id \in [Caller -> 0..calls]
  /\ udp \in [Caller -> BOOLEAN]
  /\ held \in [Caller -> 0..calls]
  /\ \A c \in Caller : pc[c] \in {"stream", "open", "udp", "wait"} => held[c] # 0

Init ==
  /\ closed = FALSE
  /\ sess = 0
  /\ dialing = 0
  /\ signalled = {}
  /\ live = {}
  /\ sockets = {}
  /\ calls = 0
  /\ pc = [c \in Caller |-> "idle"]
  /\ id = [c \in Caller |-> 0]
  /\ udp = [c \in Caller |-> FALSE]
  /\ held = [c \in Caller |-> 0]

-----------------------------------------------------------------------------
(* Calls and their contexts. *)

\* DialContext: "tcp" goes to session(), "udp" straight to dialSession().
DialContext(c, isUDP) ==
  /\ pc[c] = "idle"
  /\ calls < MaxCalls
  /\ calls' = calls + 1
  /\ id' = [id EXCEPT ![c] = calls + 1]
  /\ udp' = [udp EXCEPT ![c] = isUDP]
  /\ held' = [held EXCEPT ![c] = 0]
  /\ pc' = [pc EXCEPT ![c] = IF isUDP THEN "socket" ELSE "enter"]
  /\ UNCHANGED <<closed, sess, dialing, signalled, live, sockets>>

\* The call is over: what the caller remembered of it is forgotten.
Return(c) ==
  /\ pc' = [pc EXCEPT ![c] = "idle"]
  /\ id' = [id EXCEPT ![c] = 0]
  /\ udp' = [udp EXCEPT ![c] = FALSE]
  /\ held' = [held EXCEPT ![c] = 0]

-----------------------------------------------------------------------------
(* session() *)

\* Mutant: a waiter that gives up also clears the flight it waited for.
ContextDone_ClearsDialing(c) ==
  /\ pc[c] \in {"enter", "wait"}
  /\ dialing' = 0
  /\ Return(c)
  /\ UNCHANGED <<closed, sess, signalled, live, sockets, calls>>

\* The context is done: ctx.Err() at the top of the loop, or ctx.Done() while
\* waiting.  A context can end at any time, so this is the environment's move.
ContextDone(c) ==
  /\ pc[c] \in {"enter", "wait"}
  /\ Return(c)
  /\ UNCHANGED <<closed, sess, dialing, signalled, live, sockets, calls>>

\* The outbound is closed.
EnterClosed(c) ==
  /\ pc[c] = "enter"
  /\ closed
  /\ Return(c)
  /\ UNCHANGED <<closed, sess, dialing, signalled, live, sockets, calls>>

\* Mutant: a cached session is given away without a look at its state.
EnterCached_Dead(c) ==
  /\ pc[c] = "enter"
  /\ ~closed
  /\ sess # 0
  /\ held' = [held EXCEPT ![c] = sess]
  /\ pc' = [pc EXCEPT ![c] = "stream"]
  /\ UNCHANGED <<closed, sess, dialing, signalled, live, sockets, calls,
                 id, udp>>

\* The cached session is up: every caller gets it.
EnterCached(c) ==
  /\ pc[c] = "enter"
  /\ ~closed
  /\ sess # 0 /\ sess \in live
  /\ held' = [held EXCEPT ![c] = sess]
  /\ pc' = [pc EXCEPT ![c] = "stream"]
  /\ UNCHANGED <<closed, sess, dialing, signalled, live, sockets, calls,
                 id, udp>>

\* No usable session.  A dead one is closed and forgotten; the caller then
\* waits for the dial in progress or becomes the leader of a new one.
EnterMiss(c) ==
  /\ pc[c] = "enter"
  /\ ~closed
  /\ sess = 0 \/ sess \notin live
  /\ sess' = 0
  /\ sockets' = sockets \ {sess}
  /\ \/ /\ dialing # 0
        /\ held' = [held EXCEPT ![c] = dialing]
        /\ pc' = [pc EXCEPT ![c] = "wait"]
        /\ UNCHANGED dialing
     \/ /\ dialing = 0
        /\ dialing' = id[c]
        /\ pc' = [pc EXCEPT ![c] = "socket"]
        /\ UNCHANGED held
  /\ UNCHANGED <<closed, signalled, live, calls, id, udp>>

\* <-pending: the leader is done, start over.
Wake(c) ==
  /\ pc[c] = "wait"
  /\ held[c] \in signalled
  /\ held' = [held EXCEPT ![c] = 0]
  /\ pc' = [pc EXCEPT ![c] = "enter"]
  /\ UNCHANGED <<closed, sess, dialing, signalled, live, sockets, calls,
                 id, udp>>

-----------------------------------------------------------------------------
(* dialSession(), run with the mutex released *)

\* An error of dialSession goes to the second half of session() when a leader
\* dials, and straight out of DialContext for a UDP dial.
DialFailed(c) ==
  \/ udp[c] /\ Return(c)
  \/ ~udp[c] /\ pc' = [pc EXCEPT ![c] = "dialed"] /\ UNCHANGED <<id, udp, held>>

\* dialQUIC opens the UDP socket itself only when Salamander is configured.
OpenSocket(c) ==
  /\ pc[c] = "socket"
  /\ \/ /\ sockets' = IF Salamander THEN sockets \cup {id[c]} ELSE sockets
        /\ pc' = [pc EXCEPT ![c] = "quic"]
        /\ UNCHANGED <<id, udp, held>>
     \/ DialFailed(c) /\ UNCHANGED sockets
  /\ UNCHANGED <<closed, sess, dialing, signalled, live, calls>>

\* The QUIC handshake; on failure the socket is closed.
DialQUIC(c) ==
  /\ pc[c] = "quic"
  /\ \/ /\ live' = live \cup {id[c]}
        /\ pc' = [pc EXCEPT ![c] = "auth"]
        /\ UNCHANGED <<sockets, id, udp, held>>
     \/ /\ sockets' = sockets \ {id[c]}
        /\ DialFailed(c)
        /\ UNCHANGED live
  /\ UNCHANGED <<closed, sess, dialing, signalled, calls>>

\* Authentication accepted: dialSession returns the session.
AuthAccepted(c) ==
  /\ pc[c] = "auth"
  /\ id[c] \in live
  /\ held' = [held EXCEPT ![c] = id[c]]
  /\ pc' = [pc EXCEPT ![c] = IF udp[c] THEN "udp" ELSE "dialed"]
  /\ UNCHANGED <<closed, sess, dialing, signalled, live, sockets, calls,
                 id, udp>>

\* Mutant: the packet socket survives a refused authentication.
AuthFailed_KeepsSocket(c) ==
  /\ pc[c] = "auth"
  /\ live' = live \ {id[c]}
  /\ DialFailed(c)
  /\ UNCHANGED <<closed, sess, dialing, signalled, sockets, calls>>

\* Authentication failed: connection and socket are closed.
AuthFailed(c) ==
  /\ pc[c] = "auth"
  /\ live' = live \ {id[c]}
  /\ sockets' = sockets \ {id[c]}
  /\ DialFailed(c)
  /\ UNCHANGED <<closed, sess, dialing, signalled, calls>>

-----------------------------------------------------------------------------
(* The second half of session(), under the mutex again *)

\* Mutant: the flight ends but its channel is not closed.
Release_Silent(c) == dialing' = 0 /\ UNCHANGED signalled

\* Whatever the outcome of the dial, its waiters are released.
Release(c) ==
  /\ dialing' = 0
  /\ signalled' = signalled \cup {id[c]}

\* The leader's dial failed: the error is returned.
PublishError(c) ==
  /\ pc[c] = "dialed"
  /\ held[c] = 0
  /\ Release(c)
  /\ Return(c)
  /\ UNCHANGED <<closed, sess, live, sockets, calls>>

\* The outbound was closed during the dial: the new session is closed again.
PublishClosed(c) ==
  /\ pc[c] = "dialed"
  /\ held[c] # 0 /\ closed
  /\ live' = live \ {held[c]}
  /\ sockets' = sockets \ {held[c]}
  /\ Release(c)
  /\ Return(c)
  /\ UNCHANGED <<closed, sess, calls>>

\* Mutant: `closed' is not looked at again after the dial.
PublishSession_IgnoresClosed(c) ==
  /\ pc[c] = "dialed"
  /\ held[c] # 0
  /\ sess' = held[c]
  /\ Release(c)
  /\ pc' = [pc EXCEPT ![c] = "stream"]
  /\ UNCHANGED <<closed, live, sockets, calls, id, udp, held>>

\* The new session is cached and returned.
PublishSession(c) ==
  /\ pc[c] = "dialed"
  /\ held[c] # 0 /\ ~closed
  /\ sess' = held[c]
  /\ Release(c)
  /\ pc' = [pc EXCEPT ![c] = "stream"]
  /\ UNCHANGED <<closed, live, sockets, calls, id, udp, held>>

-----------------------------------------------------------------------------
(* Streams, UDP associations, the outbound and the network *)

\* dialTCP after session(): OpenStreamSync and the connect request.  They can
\* succeed only while the session is up.
OpenStream(c) ==
  /\ pc[c] = "stream"
  /\ \/ /\ held[c] \in live
        /\ pc' = [pc EXCEPT ![c] = "open"]
        /\ UNCHANGED <<id, udp, held>>
     \/ Return(c)
  /\ UNCHANGED <<closed, sess, dialing, signalled, live, sockets, calls>>

\* The application closes its stream; the session stays.
CloseStream(c) ==
  /\ pc[c] = "open"
  /\ Return(c)
  /\ UNCHANGED <<closed, sess, dialing, signalled, live, sockets, calls>>

\* hysteria2UDPConn.Close: the association closes the session it owns.
CloseUDP(c) ==
  /\ pc[c] = "udp"
  /\ live' = live \ {held[c]}
  /\ sockets' = sockets \ {held[c]}
  /\ Return(c)
  /\ UNCHANGED <<closed, sess, dialing, signalled, calls>>

\* Mutant: the cached session is forgotten without being closed.
Close_KeepsSession ==
  /\ ~closed
  /\ closed' = TRUE
  /\ sess' = 0
  /\ UNCHANGED <<dialing, signalled, live, sockets, calls, pc, id, udp, held>>

\* Hysteria2.Close
Close ==
  /\ ~closed
  /\ closed' = TRUE
  /\ sess' = 0
  /\ live' = live \ {sess}
  /\ sockets' = sockets \ {sess}
  /\ UNCHANGED <<dialing, signalled, calls, pc, id, udp, held>>

\* The server, an idle timeout or the network ends a QUIC connection.
ConnectionLost(s) ==
  /\ s \in live
  /\ live' = live \ {s}
  /\ UNCHANGED <<closed, sess, dialing, signalled, sockets, calls,
                 pc, id, udp, held>>

\* The steps a caller takes by itself once it is inside DialContext.
CallerStep(c) ==
  \/ EnterClosed(c) \/ EnterCached(c) \/ EnterMiss(c) \/ Wake(c)
  \/ OpenSocket(c) \/ DialQUIC(c) \/ AuthAccepted(c) \/ AuthFailed(c)
  \/ PublishError(c) \/ PublishClosed(c) \/ PublishSession(c)
  \/ OpenStream(c)

Next ==
  \/ \E c \in Caller : \/ \E isUDP \in BOOLEAN : DialContext(c, isUDP)
                       \/ ContextDone(c)
                       \/ CallerStep(c)
                       \/ CloseStream(c)
                       \/ CloseUDP(c)
  \/ Close
  \/ \E s \in live : ConnectionLost(s)

Spec == Init /\ [][Next]_vars

\* Goroutines are scheduled, and a QUIC dial ends: the handshake and the
\* authentication request run under quic-go's timeouts and the caller's ctx.
FairSpec == Spec /\ \A c \in Caller : WF_vars(CallerStep(c))

-----------------------------------------------------------------------------
(* Properties *)

\* A caller that is dialing on behalf of session().
Leads(c) == ~udp[c] /\ pc[c] \in DialStages \cup {"dialed"}

\* session() is single-flight: two callers never dial a shared session at
\* the same time, whatever fails, expires or is closed in between.
SingleFlight == \A c, d \in Caller : Leads(c) /\ Leads(d) => c = d

\* Who answers for session s: the cache, the caller that is dialing it, or
\* the UDP association that owns it.
Owned(s) ==
  \/ s = sess
  \/ \E c \in Caller : id[c] = s /\ pc[c] \in DialStages \cup {"dialed"}
  \/ \E c \in Caller : held[c] = s /\ pc[c] = "udp"

\* No QUIC connection and no UDP socket is ever left behind: whatever is open
\* can still be reached by the cache, its dialer or its UDP association.
NoOrphanSession == \A s \in live \cup sockets : s # 0 /\ Owned(s)

\* TCP streams share one session: a stream on a session that is up can only
\* be on the cached one.  So no two live sessions carry TCP streams, and
\* Close() reaches every one of them.
StreamsOnCachedSession ==
  \A c \in Caller :
    pc[c] \in {"stream", "open"} /\ held[c] \in live => held[c] = sess

\* A waiter is never stranded: the channel it waits on is closed already, or
\* the leader that will close it is still dialing.
WaiterHasLeader ==
  \A c \in Caller : pc[c] = "wait" =>
    \/ held[c] \in signalled
    \/ \E d \in Caller : Leads(d) /\ id[d] = held[c]

\* For the callers of session() all this is one atomic step: the cached
\* session is the session while it is up, a caller asks while it is anywhere in
\* session(), and a dial uses up its number when it ends.
Asks(c) == ~udp[c] /\ pc[c] \in Pending
Uses(c) == pc[c] \in {"stream", "open"}

Current == IF sess \in live THEN sess ELSE 0
Stage == [c \in Caller |-> IF Uses(c) THEN "using"
                          ELSE IF Asks(c) THEN "asking" ELSE "out"]
Given == [c \in Caller |-> IF Uses(c) THEN held[c] ELSE 0]

Shared == INSTANCE SharedSession
            WITH Session <- 1..MaxCalls, None <- 0, session <- Current,
                 used <- signalled, stage <- Stage, given <- Given

\* However its dials overlap, fail, expire and race with Close() and with the
\* network, session() is an atomic source of one session at a time: nobody is
\* given a session that was down already, a lost one never returns, and none
\* is made while another is up or after Close().
SharesOneSession == Shared!SSpec

\* Every DialContext gets an answer from session() or dialSession(): no
\* wakeup of a waiter is lost, whichever way its leader ended.
DialAnswered == \A c \in Caller : pc[c] \in Pending ~> pc[c] \notin Pending

\* Once the outbound is closed its shared sessions go away for good, also
\* those whose dial was still running.
SharedLive == {s \in live : ~\E c \in Caller : udp[c] /\ id[c] = s}
ClosedDrains == closed ~> [](SharedLive = {})
=============================================================================
