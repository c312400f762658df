------------------------------ MODULE SocksUdp ------------------------------
(***************************************************************************)
(* One SOCKS5 UDP association (inbound/mixed.go, handleUDPAssociate).      *)
(*                                                                         *)
(* The association's loop reads datagrams from its own UDP socket, finds   *)
(* or dials the session of (client, target) and writes to its upstream     *)
(* connection; a goroutine per session relays the answers.  Unlike the TUN *)
(* handler it dials while it holds the association's mutex, and a session  *)
(* that fails is removed and replaced by a new one of the same key.        *)
(* close(), run once, is called by Mixed.Close, by the goroutine that      *)
(* watches the TCP control connection and by the loop when it returns.     *)
(***************************************************************************)
EXTENDS Naturals

CONSTANTS
    Key,          \* (client address, target) pairs
    MaxSessions   \* bound: sessions dialed

ASSUME SocksUdpAssumption == MaxSessions \in Nat

VARIABLES
    pc,         \* where the loop is
    key,        \* key of the datagram in hand
    session,    \* session in hand
    held,       \* the loop holds association.mu, across a dial
    dialed,     \* sessions dialed so far
    sessions,   \* the map; 0 is no session
    keyOf,      \* the key of every session
    conn,       \* the upstream connection of every session
    relay,      \* relayFromUpstream of every session
    closing,    \* close()'s sync.Once and how far it has come
    doomed,     \* sessions close() has taken from the map
    listed      \* the association is in Mixed.associations

vars == <<pc, key, session, held, dialed, sessions, keyOf, conn, relay, closing,
          doomed, listed>>

Session == 1..MaxSessions
Loop == {"read", "lock", "dial", "write", "remove", "return", "done"}

Init ==
    /\ pc = "read" /\ key \in Key /\ session = 0 /\ held = FALSE /\ dialed = 0
    /\ sessions = [k \in Key |-> 0]
    /\ keyOf = [s \in Session |-> key]
    /\ conn = [s \in Session |-> "none"]
    /\ relay = [s \in Session |-> "none"]
    /\ closing = "no" /\ doomed = {} /\ listed = TRUE

-----------------------------------------------------------------------------
(* The loop.                                                               *)

(* ReadFromUDP returns a datagram; the loop is about to take the mutex.    *)
ReadFromUDP_SocketOpen ==
    /\ pc = "read"
    /\ key' \in Key
    /\ pc' = "lock"
    /\ UNCHANGED <<session, held, dialed, sessions, keyOf, conn, relay, closing,
                   doomed, listed>>

ReadFromUDP ==
    /\ pc = "read" /\ closing = "no"
    /\ key' \in Key
    /\ pc' = "lock"
    /\ UNCHANGED <<session, held, dialed, sessions, keyOf, conn, relay, closing,
                   doomed, listed>>

(* ReadFromUDP fails because the socket is closed, or for another reason.  *)
ReadFails ==
    /\ pc = "read"
    /\ pc' = "return"
    /\ UNCHANGED <<key, session, held, dialed, sessions, keyOf, conn, relay,
                   closing, doomed, listed>>

(* The key has a session.                                                  *)
Found ==
    /\ pc = "lock" /\ sessions[key] # 0
    /\ session' = sessions[key]
    /\ pc' = "write"
    /\ UNCHANGED <<key, held, dialed, sessions, keyOf, conn, relay, closing,
                   doomed, listed>>

(* It has none: router.Dial is called with the mutex held.                 *)
Missing ==
    /\ pc = "lock" /\ sessions[key] = 0 /\ dialed < MaxSessions
    /\ held' = TRUE
    /\ pc' = "dial"
    /\ UNCHANGED <<key, session, dialed, sessions, keyOf, conn, relay, closing,
                   doomed, listed>>

(* The dial failed: the datagram is dropped.                               *)
DialFails ==
    /\ pc = "dial"
    /\ held' = FALSE
    /\ pc' = "read"
    /\ UNCHANGED <<key, session, dialed, sessions, keyOf, conn, relay, closing,
                   doomed, listed>>

(* It succeeded: the session enters the map and its goroutine starts.      *)
Dialed ==
    /\ pc = "dial"
    /\ LET s == dialed + 1 IN
           /\ dialed' = s
           /\ session' = s
           /\ sessions' = [sessions EXCEPT ![key] = s]
           /\ keyOf' = [keyOf EXCEPT ![s] = key]
           /\ conn' = [conn EXCEPT ![s] = "open"]
           /\ relay' = [relay EXCEPT ![s] = "copy"]
    /\ held' = FALSE
    /\ pc' = "write"
    /\ UNCHANGED <<key, closing, doomed, listed>>

(* The payload is written, or the session fails and must be removed.       *)
Write ==
    /\ pc = "write"
    /\ pc' \in IF conn[session] = "open" THEN {"read", "remove"} ELSE {"remove"}
    /\ UNCHANGED <<key, session, held, dialed, sessions, keyOf, conn, relay,
                   closing, doomed, listed>>

(* removeSession: under the mutex the key is freed if it still names this  *)
(* session; then the session's connection is closed.                       *)
removeSession_AnySession(s) ==
    /\ ~held
    /\ sessions' = [sessions EXCEPT ![keyOf[s]] = 0]
    /\ conn' = [conn EXCEPT ![s] = "closed"]

removeSession_Keeps(s) ==
    /\ ~held
    /\ conn' = [conn EXCEPT ![s] = "closed"]
    /\ UNCHANGED sessions

removeSession(s) ==
    /\ ~held
    /\ sessions' = [sessions EXCEPT ![keyOf[s]] = IF @ = s THEN 0 ELSE @]
    /\ conn' = [conn EXCEPT ![s] = "closed"]

RemoveByLoop ==
    /\ pc = "remove"
    /\ removeSession(session)
    /\ pc' = "read"
    /\ UNCHANGED <<key, session, held, dialed, keyOf, relay, closing, doomed,
                   listed>>

-----------------------------------------------------------------------------
(* relayFromUpstream of session s.                                         *)

(* Its read fails: the upstream ended, or the connection was closed.       *)
RelayFails_Retries(s) ==
    /\ relay[s] = "copy" /\ conn[s] = "open"
    /\ relay' = [relay EXCEPT ![s] = "remove"]
    /\ UNCHANGED <<pc, key, session, held, dialed, sessions, keyOf, conn,
                   closing, doomed, listed>>

RelayFails(s) ==
    /\ relay[s] = "copy"
    /\ relay' = [relay EXCEPT ![s] = "remove"]
    /\ UNCHANGED <<pc, key, session, held, dialed, sessions, keyOf, conn,
                   closing, doomed, listed>>

RemoveByRelay(s) ==
    /\ relay[s] = "remove"
    /\ removeSession(s)
    /\ relay' = [relay EXCEPT ![s] = "returned"]
    /\ UNCHANGED <<pc, key, session, held, dialed, keyOf, closing, doomed, listed>>

-----------------------------------------------------------------------------
(* association.close().                                                    *)

(* A caller takes the Once and closes the UDP socket.                      *)
CloseSocket ==
    /\ closing = "no"
    /\ closing' = "lock"
    /\ UNCHANGED <<pc, key, session, held, dialed, sessions, keyOf, conn, relay,
                   doomed, listed>>

(* Under the mutex, the sessions are collected and the map is emptied.     *)
TakeSessions ==
    /\ closing = "lock" /\ ~held
    /\ closing' = "close"
    /\ doomed' = {s \in Session : \E k \in Key : sessions[k] = s}
    /\ sessions' = [k \in Key |-> 0]
    /\ UNCHANGED <<pc, key, session, held, dialed, keyOf, conn, relay, listed>>

(* Their connections are closed and the association leaves its owner.      *)
CloseSessions_KeepsListed ==
    /\ closing = "close"
    /\ closing' = "done"
    /\ conn' = [s \in Session |-> IF s \in doomed THEN "closed" ELSE conn[s]]
    /\ doomed' = {}
    /\ UNCHANGED <<pc, key, session, held, dialed, sessions, keyOf, relay, listed>>

CloseSessions ==
    /\ closing = "close"
    /\ closing' = "done"
    /\ conn' = [s \in Session |-> IF s \in doomed THEN "closed" ELSE conn[s]]
    /\ doomed' = {}
    /\ listed' = FALSE
    /\ UNCHANGED <<pc, key, session, held, dialed, sessions, keyOf, relay>>

(* The loop's deferred close(), which waits for the call under way.        *)
Return ==
    /\ pc = "return" /\ closing = "done"
    /\ pc' = "done"
    /\ UNCHANGED <<key, session, held, dialed, sessions, keyOf, conn, relay,
                   closing, doomed, listed>>

-----------------------------------------------------------------------------
Stopped ==
    /\ pc = "done" \/ (pc = "lock" /\ sessions[key] = 0 /\ dialed = MaxSessions)
    /\ UNCHANGED vars

LoopStep ==
    \/ ReadFromUDP \/ ReadFails \/ Found \/ Missing \/ DialFails \/ Dialed
    \/ Write \/ RemoveByLoop \/ Return

Next ==
    \/ LoopStep
    \/ \E s \in Session : RelayFails(s) \/ RemoveByRelay(s)
    \/ CloseSocket \/ TakeSessions \/ CloseSessions
    \/ Stopped

Spec == Init /\ [][Next]_vars

(* A read from the closed socket fails, a dial ends (15 seconds), a UDP    *)
(* write returns, the mutex is granted and close() proceeds; the loop that *)
(* returns calls close().  A goroutine waiting for the mutex gets it even  *)
(* if the loop takes it again and again for failing dials: Go's sync.Mutex *)
(* hands itself to a waiter it has kept for a millisecond.  Nothing is     *)
(* assumed of clients and upstreams.                                       *)
FairSpec ==
    /\ Spec
    /\ WF_vars(closing # "no" /\ ReadFails)
    /\ WF_vars(LoopStep /\ pc # "read")
    /\ WF_vars(pc = "return" /\ CloseSocket)
    /\ WF_vars(TakeSessions) /\ WF_vars(CloseSessions)
    /\ \A s \in Session :
           /\ WF_vars(conn[s] = "closed" /\ RelayFails(s))
           /\ SF_vars(RemoveByRelay(s))

-----------------------------------------------------------------------------
(* Properties.                                                             *)

(* Every variable is in its range, a session is in the map only under its  *)
(* own key, and the mutex is held across exactly the dial.                 *)
TypeOK ==
    /\ pc \in Loop /\ key \in Key
    /\ session \in 0..dialed /\ dialed \in 0..MaxSessions
    /\ sessions \in [Key -> 0..dialed] /\ keyOf \in [Session -> Key]
    /\ \A k \in Key : sessions[k] # 0 => keyOf[sessions[k]] = k
    /\ conn \in [Session -> {"none", "open", "closed"}]
    /\ relay \in [Session -> {"none", "copy", "remove", "returned"}]
    /\ closing \in {"no", "lock", "close", "done"}
    /\ doomed \subseteq 1..dialed /\ listed \in BOOLEAN
    /\ held \in BOOLEAN /\ (held <=> pc = "dial")

(* No upstream connection is lost: an open one is the session of its key   *)
(* or about to be closed by close().  A late removeSession of an old       *)
(* session must not free the key of its successor.                         *)
OpenIsReachable ==
    \A s \in Session : conn[s] = "open" => sessions[keyOf[s]] = s \/ s \in doomed

(* A session that has failed is not used again: once its goroutine has     *)
(* returned the map no longer names it, so the next datagram dials anew.   *)
NoDeadSession ==
    \A s \in Session : relay[s] = "returned" => \A k \in Key : sessions[k] # s

(* The association as UdpRelay sees it: a datagram is in hand while it can *)
(* still dial.                                                             *)
Phase == CASE closing = "no" -> "open" [] closing = "done" -> "closed"
           [] OTHER -> "closing"

InHand == pc \in {"lock", "dial"}
Up == {s \in Session : conn[s] = "open"}

Relay == INSTANCE UdpRelay
           WITH Conn <- Session, phase <- Phase, inHand <- InHand,
                used <- 1..dialed, up <- Up

(* The association is a relay that takes one datagram at a time and closes *)
(* when close() has run.  At most one upstream connection outlives it: that*)
(* of a datagram read before the socket was closed.  Holding the mutex     *)
(* across the dial does not exclude it, because the loop takes the mutex   *)
(* after the read.                                                         *)
ImplementsRelay == Relay!RSpec

(* A close, whoever asked for it, ends the association: it leaves its      *)
(* owner and, unless the loop waits at the bound on dials, the loop ends.  *)
CloseCompletes ==
    closing # "no" ~> ~listed /\ (pc = "done" \/ dialed = MaxSessions)

(* No goroutine is left on a closed upstream connection.                   *)
RelaysReturn ==
    \A s \in Session : conn[s] = "closed" ~> relay[s] = "returned"
=============================================================================
