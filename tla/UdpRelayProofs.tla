--------------------------- MODULE UdpRelayProofs ---------------------------
(***************************************************************************)
(* Invariants and refinement of the two relays of UDP packets: a SOCKS5 UDP*)
(* association, for every set of keys and every number of sessions, and,   *)
(* in the second part, a UDP flow of the TUN device, for every set of      *)
(* destinations and every number of packets.                               *)
(*                                                                         *)
(* The mutex that is held across a dial is what makes OpenIsReachable      *)
(* inductive: the key found free before the dial is still free after it    *)
(* (DialedIsFree), so inserting the new session replaces no other.         *)
(* That both implement UdpRelay rests on OpenIsReachable, by which close() *)
(* finds every open session, and on LastDial: the loop reads no datagram   *)
(* after the socket is closed, so it dials at most once more, and until it *)
(* has, everything else is closed.                                         *)
(***************************************************************************)
EXTENDS SocksUdp, TLAPS

(* A session has a connection and a goroutine exactly when it was dialed,  *)
(* and its goroutine returns only after closing the connection.            *)
Numbered ==
    \A s \in Session :
        /\ conn[s] = "none" <=> s > dialed
        /\ relay[s] = "none" <=> s > dialed
        /\ relay[s] = "returned" => conn[s] = "closed"

(* The loop writes to, or removes, a session that exists.                  *)
SessionInHand == pc \in {"write", "remove"} => session # 0

(* The mutex keeps the key of a dial free, and the bound leaves room.      *)
DialedIsFree == pc = "dial" => sessions[key] = 0 /\ dialed < MaxSessions

(* close() holds collected sessions only between its two last steps.       *)
DoomedInClose == doomed # {} => closing = "close"

(* The open sessions that close() has not collected.                       *)
Missed == {s \in Session : conn[s] = "open" /\ s \notin doomed}

(* While the loop may still dial after close() has emptied the map, close()*)
(* has missed nothing; later it may have missed one session.               *)
LastDial ==
    closing \in {"close", "done"} =>
        /\ pc \in {"lock", "dial"} => Missed = {}
        /\ \A r, s \in Missed : r = s

IInv ==
    /\ TypeOK
    /\ Numbered
    /\ SessionInHand
    /\ DialedIsFree
    /\ DoomedInClose
    /\ OpenIsReachable
    /\ NoDeadSession
    /\ LastDial

\* Zenon proves what is not said to need SMT: arithmetic, mostly.
USE ZenonT(30)

(* The initial state of an association satisfies the inductive invariant.  *)
LEMMA Initial == Init => IInv
<1> SUFFICES ASSUME Init PROVE IInv
    OBVIOUS
<1> USE SocksUdpAssumption DEF Init
<1>1. TypeOK
    <2>1. /\ sessions \in [Key -> 0..dialed] /\ keyOf \in [Session -> Key]
          /\ \A k \in Key : sessions[k] # 0 => keyOf[sessions[k]] = k
        BY SMT
    <2>2. /\ conn \in [Session -> {"none", "open", "closed"}]
          /\ relay \in [Session -> {"none", "copy", "remove", "returned"}]
        OBVIOUS
    <2>3. held \in BOOLEAN /\ (held <=> pc = "dial")
        OBVIOUS
    <2> QED
        BY <2>1, <2>2, <2>3, SMT DEF TypeOK, Loop
<1>2. Numbered
    BY SMT DEF Numbered, Session
<1>3. SessionInHand
    BY DEF SessionInHand
<1>4. DialedIsFree
    BY DEF DialedIsFree
<1>5. DoomedInClose
    BY DEF DoomedInClose
<1>6. OpenIsReachable
    BY DEF OpenIsReachable, Session
<1>7. NoDeadSession
    BY DEF NoDeadSession, Session
<1>8. LastDial
    BY DEF LastDial
<1> QED
    BY <1>1, <1>2, <1>3, <1>4, <1>5, <1>6, <1>7, <1>8 DEF IInv

(* Every step of the loop, of a session's goroutine and of close()         *)
(* preserves the inductive invariant.                                      *)
LEMMA Inductive == IInv /\ [Next]_vars => IInv'
<1> SUFFICES ASSUME IInv, [Next]_vars PROVE IInv'
    OBVIOUS
<1> USE SocksUdpAssumption
        DEF TypeOK, Loop, Session, Numbered, SessionInHand, DialedIsFree,
            DoomedInClose, OpenIsReachable, NoDeadSession, LastDial, Missed, IInv
<1>1. CASE ReadFromUDP
    <2>1. TypeOK'
        BY <1>1 DEF ReadFromUDP
    <2>2. Numbered'
        BY <1>1 DEF ReadFromUDP
    <2>3. SessionInHand'
        BY <1>1 DEF ReadFromUDP
    <2>4. DialedIsFree'
        BY <1>1 DEF ReadFromUDP
    <2>5. DoomedInClose'
        BY <1>1 DEF ReadFromUDP
    <2>6. OpenIsReachable'
        BY <1>1 DEF ReadFromUDP
    <2>7. NoDeadSession'
        BY <1>1 DEF ReadFromUDP
    <2>8. LastDial'
        BY <1>1 DEF ReadFromUDP
    <2> QED
        BY <2>1, <2>2, <2>3, <2>4, <2>5, <2>6, <2>7, <2>8
<1>2. CASE ReadFails
    <2>1. TypeOK'
        BY <1>2 DEF ReadFails
    <2>2. Numbered'
        BY <1>2 DEF ReadFails
    <2>3. SessionInHand'
        BY <1>2 DEF ReadFails
    <2>4. DialedIsFree'
        BY <1>2 DEF ReadFails
    <2>5. DoomedInClose'
        BY <1>2 DEF ReadFails
    <2>6. OpenIsReachable'
        BY <1>2 DEF ReadFails
    <2>7. NoDeadSession'
        BY <1>2 DEF ReadFails
    <2>8. LastDial'
        BY <1>2 DEF ReadFails
    <2> QED
        BY <2>1, <2>2, <2>3, <2>4, <2>5, <2>6, <2>7, <2>8
<1>3. CASE Found
    <2>1. TypeOK'
        BY <1>3 DEF Found
    <2>2. Numbered'
        BY <1>3 DEF Found
    <2>3. SessionInHand'
        BY <1>3 DEF Found
    <2>4. DialedIsFree'
        BY <1>3 DEF Found
    <2>5. DoomedInClose'
        BY <1>3 DEF Found
    <2>6. OpenIsReachable'
        BY <1>3 DEF Found
    <2>7. NoDeadSession'
        BY <1>3 DEF Found
    <2>8. LastDial'
        BY <1>3 DEF Found
    <2> QED
        BY <2>1, <2>2, <2>3, <2>4, <2>5, <2>6, <2>7, <2>8
<1>4. CASE Missing
    <2>1. TypeOK'
        BY <1>4 DEF Missing
    <2>2. Numbered'
        BY <1>4 DEF Missing
    <2>3. SessionInHand'
        BY <1>4 DEF Missing
    <2>4. DialedIsFree'
        BY <1>4 DEF Missing
    <2>5. DoomedInClose'
        BY <1>4 DEF Missing
    <2>6. OpenIsReachable'
        BY <1>4 DEF Missing
    <2>7. NoDeadSession'
        BY <1>4, SMT DEF Missing
    <2>8. LastDial'
        BY <1>4, SMT DEF Missing
    <2> QED
        BY <2>1, <2>2, <2>3, <2>4, <2>5, <2>6, <2>7, <2>8
<1>5. CASE DialFails
    <2>1. TypeOK'
        BY <1>5 DEF DialFails
    <2>2. Numbered'
        BY <1>5 DEF DialFails
    <2>3. SessionInHand'
        BY <1>5 DEF DialFails
    <2>4. DialedIsFree'
        BY <1>5 DEF DialFails
    <2>5. DoomedInClose'
        BY <1>5 DEF DialFails
    <2>6. OpenIsReachable'
        BY <1>5 DEF DialFails
    <2>7. NoDeadSession'
        BY <1>5 DEF DialFails
    <2>8. LastDial'
        BY <1>5 DEF DialFails
    <2> QED
        BY <2>1, <2>2, <2>3, <2>4, <2>5, <2>6, <2>7, <2>8
<1>6. CASE Dialed
    <2>1. TypeOK'
        <3>1. dialed + 1 \in Session /\ dialed' = dialed + 1
            BY <1>6, SMT DEF Dialed
        <3>2. sessions' \in [Key -> 0..dialed']
            BY <1>6, <3>1, SMT DEF Dialed
        <3>3. keyOf' \in [Session -> Key]
            BY <1>6, <3>1 DEF Dialed
        <3>4. \A k \in Key : sessions'[k] # 0 => keyOf'[sessions'[k]] = k
            BY <1>6, <3>1, SMT DEF Dialed
        <3>5. /\ conn' \in [Session -> {"none", "open", "closed"}]
              /\ relay' \in [Session -> {"none", "copy", "remove", "returned"}]
            BY <1>6, <3>1 DEF Dialed
        <3>6. session' \in 0..dialed' /\ doomed' \subseteq 1..dialed'
            BY <1>6, <3>1, SMT DEF Dialed
        <3>7. /\ pc' \in Loop /\ key' \in Key /\ dialed' \in 0..MaxSessions
              /\ closing' \in {"no", "lock", "close", "done"}
              /\ listed' \in BOOLEAN
            BY <1>6, <3>1, SMT DEF Dialed
        <3>8. held' \in BOOLEAN /\ (held' <=> pc' = "dial")
            BY <1>6 DEF Dialed
        <3> QED
            BY <3>2, <3>3, <3>4, <3>5, <3>6, <3>7, <3>8
    <2>2. Numbered'
        BY <1>6, SMT DEF Dialed
    <2>3. SessionInHand'
        BY <1>6, SMT DEF Dialed
    <2>4. DialedIsFree'
        BY <1>6 DEF Dialed
    <2>5. DoomedInClose'
        BY <1>6 DEF Dialed
    <2>6. OpenIsReachable'
        BY <1>6, SMT DEF Dialed
    <2>7. NoDeadSession'
        BY <1>6, SMT DEF Dialed
    <2>8. LastDial'
        BY <1>6, SMTT(30) DEF Dialed
    <2> QED
        BY <2>1, <2>2, <2>3, <2>4, <2>5, <2>6, <2>7, <2>8
<1>7. CASE Write
    <2>1. TypeOK'
        BY <1>7 DEF Write
    <2>2. Numbered'
        BY <1>7 DEF Write
    <2>3. SessionInHand'
        BY <1>7 DEF Write
    <2>4. DialedIsFree'
        BY <1>7 DEF Write
    <2>5. DoomedInClose'
        BY <1>7 DEF Write
    <2>6. OpenIsReachable'
        BY <1>7 DEF Write
    <2>7. NoDeadSession'
        BY <1>7 DEF Write
    <2>8. LastDial'
        BY <1>7 DEF Write
    <2> QED
        BY <2>1, <2>2, <2>3, <2>4, <2>5, <2>6, <2>7, <2>8
<1>8. CASE RemoveByLoop
    <2>1. TypeOK'
        BY <1>8, SMT DEF RemoveByLoop, removeSession
    <2>2. Numbered'
        BY <1>8, SMT DEF RemoveByLoop, removeSession
    <2>3. SessionInHand'
        BY <1>8 DEF RemoveByLoop, removeSession
    <2>4. DialedIsFree'
        BY <1>8 DEF RemoveByLoop, removeSession
    <2>5. DoomedInClose'
        BY <1>8 DEF RemoveByLoop, removeSession
    <2>6. OpenIsReachable'
        BY <1>8, SMT DEF RemoveByLoop, removeSession
    <2>7. NoDeadSession'
        BY <1>8, SMT DEF RemoveByLoop, removeSession
    <2>8. LastDial'
        BY <1>8, SMT DEF RemoveByLoop, removeSession
    <2> QED
        BY <2>1, <2>2, <2>3, <2>4, <2>5, <2>6, <2>7, <2>8
<1>9. CASE Return
    <2>1. TypeOK'
        BY <1>9 DEF Return
    <2>2. Numbered'
        BY <1>9 DEF Return
    <2>3. SessionInHand'
        BY <1>9 DEF Return
    <2>4. DialedIsFree'
        BY <1>9 DEF Return
    <2>5. DoomedInClose'
        BY <1>9 DEF Return
    <2>6. OpenIsReachable'
        BY <1>9 DEF Return
    <2>7. NoDeadSession'
        BY <1>9 DEF Return
    <2>8. LastDial'
        BY <1>9 DEF Return
    <2> QED
        BY <2>1, <2>2, <2>3, <2>4, <2>5, <2>6, <2>7, <2>8
<1>10. ASSUME NEW t \in Session, RelayFails(t) PROVE IInv'
    <2>1. TypeOK'
        BY <1>10 DEF RelayFails
    <2>2. Numbered'
        BY <1>10 DEF RelayFails
    <2>3. SessionInHand'
        BY <1>10 DEF RelayFails
    <2>4. DialedIsFree'
        BY <1>10 DEF RelayFails
    <2>5. DoomedInClose'
        BY <1>10 DEF RelayFails
    <2>6. OpenIsReachable'
        BY <1>10 DEF RelayFails
    <2>7. NoDeadSession'
        BY <1>10, SMT DEF RelayFails
    <2>8. LastDial'
        BY <1>10, SMT DEF RelayFails
    <2> QED
        BY <2>1, <2>2, <2>3, <2>4, <2>5, <2>6, <2>7, <2>8
<1>11. ASSUME NEW t \in Session, RemoveByRelay(t) PROVE IInv'
    <2>1. TypeOK'
        BY <1>11, SMT DEF RemoveByRelay, removeSession
    <2>2. Numbered'
        BY <1>11 DEF RemoveByRelay, removeSession
    <2>3. SessionInHand'
        BY <1>11 DEF RemoveByRelay, removeSession
    <2>4. DialedIsFree'
        BY <1>11 DEF RemoveByRelay, removeSession
    <2>5. DoomedInClose'
        BY <1>11 DEF RemoveByRelay, removeSession
    <2>6. OpenIsReachable'
        BY <1>11, SMT DEF RemoveByRelay, removeSession
    <2>7. NoDeadSession'
        BY <1>11, SMT DEF RemoveByRelay, removeSession
    <2>8. LastDial'
        BY <1>11, SMT DEF RemoveByRelay, removeSession
    <2> QED
        BY <2>1, <2>2, <2>3, <2>4, <2>5, <2>6, <2>7, <2>8
<1>12. CASE CloseSocket
    <2>1. TypeOK'
        BY <1>12 DEF CloseSocket
    <2>2. Numbered'
        BY <1>12 DEF CloseSocket
    <2>3. SessionInHand'
        BY <1>12 DEF CloseSocket
    <2>4. DialedIsFree'
        BY <1>12 DEF CloseSocket
    <2>5. DoomedInClose'
        BY <1>12 DEF CloseSocket
    <2>6. OpenIsReachable'
        BY <1>12 DEF CloseSocket
    <2>7. NoDeadSession'
        BY <1>12 DEF CloseSocket
    <2>8. LastDial'
        BY <1>12 DEF CloseSocket
    <2> QED
        BY <2>1, <2>2, <2>3, <2>4, <2>5, <2>6, <2>7, <2>8
<1>13. CASE TakeSessions
    <2>1. TypeOK'
        BY <1>13, SMT DEF TakeSessions
    <2>2. Numbered'
        BY <1>13 DEF TakeSessions
    <2>3. SessionInHand'
        BY <1>13 DEF TakeSessions
    <2>4. DialedIsFree'
        BY <1>13 DEF TakeSessions
    <2>5. DoomedInClose'
        BY <1>13 DEF TakeSessions
    <2>6. OpenIsReachable'
        BY <1>13 DEF TakeSessions
    <2>7. NoDeadSession'
        BY <1>13, SMT DEF TakeSessions
    <2>8. LastDial'
        BY <1>13, SMT DEF TakeSessions
    <2> QED
        BY <2>1, <2>2, <2>3, <2>4, <2>5, <2>6, <2>7, <2>8
<1>14. CASE CloseSessions
    <2>1. TypeOK'
        BY <1>14 DEF CloseSessions
    <2>2. Numbered'
        BY <1>14, SMT DEF CloseSessions
    <2>3. SessionInHand'
        BY <1>14 DEF CloseSessions
    <2>4. DialedIsFree'
        BY <1>14 DEF CloseSessions
    <2>5. DoomedInClose'
        BY <1>14 DEF CloseSessions
    <2>6. OpenIsReachable'
        BY <1>14 DEF CloseSessions
    <2>7. NoDeadSession'
        BY <1>14 DEF CloseSessions
    <2>8. LastDial'
        BY <1>14, SMT DEF CloseSessions
    <2> QED
        BY <2>1, <2>2, <2>3, <2>4, <2>5, <2>6, <2>7, <2>8
<1>15. CASE UNCHANGED vars
    <2>1. TypeOK'
        BY <1>15 DEF vars
    <2>2. Numbered'
        BY <1>15 DEF vars
    <2>3. SessionInHand'
        BY <1>15 DEF vars
    <2>4. DialedIsFree'
        BY <1>15 DEF vars
    <2>5. DoomedInClose'
        BY <1>15 DEF vars
    <2>6. OpenIsReachable'
        BY <1>15 DEF vars
    <2>7. NoDeadSession'
        BY <1>15 DEF vars
    <2>8. LastDial'
        BY <1>15, SMT DEF vars
    <2> QED
        BY <2>1, <2>2, <2>3, <2>4, <2>5, <2>6, <2>7, <2>8
<1> QED
    BY <1>1, <1>2, <1>3, <1>4, <1>5, <1>6, <1>7, <1>8, <1>9,
       <1>10, <1>11, <1>12, <1>13, <1>14, <1>15 DEF Next, LoopStep, Stopped

(* The inductive invariant holds in every reachable state.                 *)
THEOREM Invariance == Spec => []IInv
BY Initial, Inductive, PTL DEF Spec

(* Type correctness: a session is listed under its own key only, and the   *)
(* association's mutex is held across exactly the dial.                    *)
THEOREM TypeCorrect == Spec => []TypeOK
BY Invariance, PTL DEF IInv

(* No upstream connection of an association is ever lost from its map      *)
(* without being closed or about to be.                                    *)
THEOREM OpenIsReachableHolds == Spec => []OpenIsReachable
BY Invariance, PTL DEF IInv

(* A session whose goroutine has returned is never found in the map.       *)
THEOREM NoDeadSessionHolds == Spec => []NoDeadSession
BY Invariance, PTL DEF IInv

(* Every step of an association is a step of the abstract relay, or none.  *)
LEMMA StepRefines == IInv /\ [Next]_vars => [Relay!RNext]_(Relay!rvars)
<1> SUFFICES ASSUME IInv, [Next]_vars PROVE [Relay!RNext]_(Relay!rvars)
    OBVIOUS
<1>0. TypeOK /\ Numbered /\ SessionInHand /\ DialedIsFree /\ LastDial
    BY DEF IInv
<1>1. /\ closing' = closing => Phase' = Phase
      /\ conn' = conn => Up' = Up
      /\ (InHand' <=> InHand) => InHand' = InHand
      /\ InHand' => InHand' = TRUE
      /\ ~InHand' => InHand' = FALSE
    <2>1. (closing' = closing => Phase' = Phase) /\ (conn' = conn => Up' = Up)
        BY DEF Phase, Up
    <2>2. InHand \in BOOLEAN /\ InHand' \in BOOLEAN
        BY SMT DEF InHand
    <2> QED
        BY <2>1, <2>2, SMT
<1>2. ASSUME UNCHANGED <<closing, dialed, conn>>, InHand' <=> InHand
      PROVE  UNCHANGED Relay!rvars
    BY <1>1, <1>2 DEF Relay!rvars
<1>3. ASSUME UNCHANGED <<closing, dialed, conn>>, InHand, ~InHand'
      PROVE  Relay!RNext
    BY <1>1, <1>3 DEF Relay!RNext, Relay!Drop
<1>4. CASE ReadFromUDP
    <2>1. /\ Phase = "open" /\ ~InHand /\ InHand'
          /\ UNCHANGED <<closing, dialed, conn>>
        BY <1>4 DEF ReadFromUDP, Phase, InHand
    <2>2. Relay!Take
        BY <1>1, <2>1 DEF Relay!Take
    <2> QED
        BY <2>2 DEF Relay!RNext
<1>5. CASE ReadFails \/ Missing \/ Write \/ Return
    BY <1>2, <1>5 DEF ReadFails, Missing, Write, Return, InHand
<1>6. CASE Found \/ DialFails
    BY <1>3, <1>6 DEF Found, DialFails, InHand
<1>7. CASE Dialed
    <2>1. /\ InHand /\ ~InHand' /\ closing' = closing
          /\ dialed' = dialed + 1
          /\ conn' = [conn EXCEPT ![dialed + 1] = "open"]
        BY <1>7 DEF Dialed, InHand
    <2>2. /\ dialed + 1 \in Session /\ dialed + 1 \notin 1..dialed
          /\ 1..dialed' = (1..dialed) \cup {dialed + 1}
        BY <1>0, <1>7, <2>1, SocksUdpAssumption, SMT
           DEF Dialed, DialedIsFree, TypeOK, Session
    <2>3. Up' = Up \cup {dialed + 1}
        BY <1>0, <2>1, <2>2 DEF Up, TypeOK
    <2>4. Relay!Connect(dialed + 1)
        BY <1>1, <2>1, <2>2, <2>3 DEF Relay!Connect
    <2> QED
        BY <2>2, <2>4 DEF Relay!RNext
<1>8. ASSUME NEW s \in Session, removeSession(s),
             UNCHANGED <<closing, dialed>>, InHand' <=> InHand
      PROVE  [Relay!RNext]_(Relay!rvars)
    <2>1. Up' = Up \ {s}
        BY <1>0, <1>8 DEF removeSession, Up, TypeOK
    <2>2. CASE s \in Up
        <3>1. Relay!End(s)
            BY <1>1, <1>8, <2>1, <2>2 DEF Relay!End
        <3> QED
            BY <1>8, <3>1 DEF Relay!RNext
    <2>3. CASE s \notin Up
        <3>1. Up' = Up
            BY <2>1, <2>3
        <3> QED
            BY <1>1, <1>8, <3>1 DEF Relay!rvars
    <2> QED
        BY <2>2, <2>3
<1>9. CASE RemoveByLoop
    <2>1. session \in Session
        BY <1>0, <1>9, SocksUdpAssumption, SMT
           DEF RemoveByLoop, TypeOK, SessionInHand, Session
    <2> QED
        BY <1>8, <1>9, <2>1 DEF RemoveByLoop, InHand
<1>10. ASSUME NEW s \in Session, RelayFails(s) PROVE UNCHANGED Relay!rvars
    BY <1>2, <1>10 DEF RelayFails, InHand
<1>11. ASSUME NEW s \in Session, RemoveByRelay(s)
       PROVE  [Relay!RNext]_(Relay!rvars)
    BY <1>8, <1>11 DEF RemoveByRelay, InHand
<1>12. CASE CloseSocket
    <2>1. /\ Phase = "open" /\ Phase' = "closing" /\ (InHand' <=> InHand)
          /\ UNCHANGED <<dialed, conn>>
        BY <1>12 DEF CloseSocket, Phase, InHand
    <2>2. Relay!BeginClose
        BY <1>1, <2>1 DEF Relay!BeginClose
    <2> QED
        BY <2>2 DEF Relay!RNext
<1>13. CASE TakeSessions
    <2>1. Phase' = Phase /\ (InHand' <=> InHand) /\ UNCHANGED <<dialed, conn>>
        BY <1>13 DEF TakeSessions, Phase, InHand
    <2> QED
        BY <1>1, <2>1 DEF Relay!rvars
<1>14. CASE CloseSessions
    <2>1. /\ Phase = "closing" /\ Phase' = "closed" /\ (InHand' <=> InHand)
          /\ dialed' = dialed
        BY <1>14 DEF CloseSessions, Phase, InHand
    <2>2. Up' = Missed /\ Missed \subseteq Up
        BY <1>0, <1>14 DEF CloseSessions, Up, Missed, TypeOK
    <2>3. (InHand => Missed = {}) /\ \A r, s \in Missed : r = s
        BY <1>0, <1>14 DEF CloseSessions, LastDial, InHand
    <2>4. Up' \in {{}} \cup {{c} : c \in Up}
        <3>1. CASE Missed = {}
            BY <2>2, <3>1
        <3>2. CASE Missed # {}
            <4>1. PICK c \in Missed : TRUE
                BY <3>2
            <4>2. Missed = {c}
                BY <2>3, <4>1
            <4> QED
                BY <2>2, <4>1, <4>2
        <3> QED
            BY <3>1, <3>2
    <2>5. Relay!EndClose
        BY <1>1, <2>1, <2>2, <2>3, <2>4 DEF Relay!EndClose
    <2> QED
        BY <2>5 DEF Relay!RNext
<1>15. CASE UNCHANGED vars
    BY <1>2, <1>15 DEF vars, InHand
<1> QED
    BY <1>4, <1>5, <1>6, <1>7, <1>9, <1>10, <1>11, <1>12, <1>13, <1>14, <1>15
       DEF Next, LoopStep, Stopped

(* An association implements the abstract relay, for every set of keys and *)
(* every number of sessions.                                               *)
THEOREM RelayRefinement == Spec => ImplementsRelay
<1>1. Init => Relay!RInit
    BY SMT DEF Init, Relay!RInit, Phase, InHand, Up
<1> QED
    BY <1>1, StepRefines, Invariance, PTL DEF Spec, ImplementsRelay, Relay!RSpec

(* close() leaves at most one upstream connection open.                    *)
THEOREM AtMostOneSurvivorHolds == Spec => []Relay!AtMostOneSurvivor
<1>1. IInv => Relay!AtMostOneSurvivor
    <2> SUFFICES ASSUME IInv, Phase = "closed", NEW r \in Up, NEW s \in Up
                 PROVE  r = s
        BY DEF Relay!AtMostOneSurvivor
    <2>1. closing = "done"
        BY DEF IInv, TypeOK, Phase
    <2> QED
        BY <2>1 DEF IInv, LastDial, Missed, DoomedInClose, Up
<1> QED
    BY <1>1, Invariance, PTL

(* An upper bound on the steps the loop has left once close() has begun.   *)
StepsLeft ==
    CASE pc = "lock" -> 6 [] pc = "dial" -> 5 [] pc = "write" -> 4
      [] pc = "remove" -> 3 [] pc = "read" -> 2 [] pc = "return" -> 1
      [] pc = "done" -> 0

(* Once close() has begun, the loop makes at most six more steps, whatever *)
(* its dial, its writes and its goroutines do, and the close is never      *)
(* taken back.  When it returns and waits for close(), it does not hold    *)
(* the mutex that close() needs.                                           *)
THEOREM LoopWindsDown ==
    Spec => /\ [](pc = "return" => ~held)
            /\ [][closing # "no" =>
                    /\ closing' # "no"
                    /\ LoopStep => StepsLeft' < StepsLeft
                    /\ pc' # pc => LoopStep]_vars
<1>1. IInv => (pc = "return" => ~held)
    BY DEF IInv, TypeOK
<1>2. ASSUME IInv, [Next]_vars, closing # "no" PROVE closing' # "no"
    BY <1>2 DEF Next, LoopStep, ReadFromUDP, ReadFails, Found, Missing, DialFails,
                Dialed, Write, RemoveByLoop, Return, RelayFails, RemoveByRelay,
                CloseSocket, TakeSessions, CloseSessions, Stopped, vars
<1>3. ASSUME IInv, LoopStep, closing # "no" PROVE StepsLeft' < StepsLeft
    <2>1. \/ pc = "read" /\ pc' = "return"
          \/ pc = "lock" /\ pc' \in {"write", "dial"}
          \/ pc = "dial" /\ pc' \in {"read", "write"}
          \/ pc = "write" /\ pc' \in {"read", "remove"}
          \/ pc = "remove" /\ pc' = "read"
          \/ pc = "return" /\ pc' = "done"
        BY <1>3 DEF LoopStep, ReadFromUDP, ReadFails, Found, Missing, DialFails,
                    Dialed, Write, RemoveByLoop, Return
    <2> QED
        BY <2>1, SMT DEF StepsLeft
<1>4. ASSUME [Next]_vars, pc' # pc PROVE LoopStep
    BY <1>4 DEF Next, RelayFails, RemoveByRelay, CloseSocket, TakeSessions,
                CloseSessions, Stopped, vars
<1>5. IInv /\ [Next]_vars =>
        [closing # "no" => /\ closing' # "no"
                           /\ LoopStep => StepsLeft' < StepsLeft
                           /\ pc' # pc => LoopStep]_vars
    BY <1>2, <1>3, <1>4
<1> QED
    BY <1>1, <1>5, Invariance, PTL DEF Spec

-----------------------------------------------------------------------------
(* A UDP flow of the TUN device (TunUdp), whose closeAll races with a dial *)
(* as the association's close() does.  Of its variables, pc and closing    *)
(* have the names of the association's; the two specifications never meet. *)
(*                                                                         *)
(* AtMostOneSurvivor of a flow needs that the device side is closed as     *)
(* soon as closeAll has begun (ClosedWithOnce), so that no dial starts     *)
(* afterwards, and that while a dial is still under way after closeAll     *)
(* there is no survivor yet (TunLastDial).                                 *)

CONSTANTS Dest, MaxPackets

VARIABLES dest, packets, connOpen, peer, reader, tracked

Tun == INSTANCE TunUdp

(* The device side is open exactly while closeAll has not been called.     *)
ClosedWithOnce == connOpen <=> closing = "no"

(* A destination is dialed only while it has no peer.                      *)
DialedIsNew == pc \in {"dial", "insert"} => peer[dest] = "none"

(* Whoever is still dialing after closeAll is the first to survive it, and *)
(* the last.                                                               *)
TunLastDial ==
    closing = "done" =>
        /\ pc \in {"dial", "insert"} => Tun!Survivors = {}
        /\ \A d, e \in Tun!Survivors : d = e

(* The loop takes its row from the registry only when closeAll is over.    *)
RowOutlivesClose == (pc = "done" \/ ~tracked) => closing = "done"

TunInv ==
    /\ Tun!TypeOK
    /\ ClosedWithOnce
    /\ DialedIsNew
    /\ TunLastDial
    /\ RowOutlivesClose

(* The initial state of a flow satisfies the inductive invariant.          *)
LEMMA TunInitial == ASSUME MaxPackets \in Nat PROVE Tun!Init => TunInv
<1> SUFFICES ASSUME Tun!Init PROVE TunInv
    OBVIOUS
<1>1. Tun!TypeOK
    BY SMT DEF Tun!Init, Tun!TypeOK, Tun!Loop
<1>2. Tun!Survivors = {}
    BY DEF Tun!Init, Tun!Survivors
<1> QED
    BY <1>1, <1>2 DEF Tun!Init, TunInv, ClosedWithOnce, DialedIsNew, TunLastDial,
                      RowOutlivesClose

(* Every step of the loop, of closeAll, of the registry's closer and of a  *)
(* peer's goroutine preserves the inductive invariant.                     *)
LEMMA TunInductive ==
    ASSUME MaxPackets \in Nat PROVE TunInv /\ [Tun!Next]_(Tun!vars) => TunInv'
<1> SUFFICES ASSUME TunInv, [Tun!Next]_(Tun!vars) PROVE TunInv'
    OBVIOUS
<1> USE DEF TunInv, ClosedWithOnce, DialedIsNew, TunLastDial, RowOutlivesClose,
            Tun!Survivors, Tun!TypeOK, Tun!Loop
<1>1. ASSUME NEW d \in Dest, Tun!ReadPacket(d) PROVE TunInv'
    <2>1. packets' \in 0..MaxPackets
        BY <1>1, SMT DEF Tun!ReadPacket
    <2>2. Tun!TypeOK'
        BY <1>1, <2>1 DEF Tun!ReadPacket
    <2> QED
        BY <1>1, <2>2 DEF Tun!ReadPacket
<1>2. CASE Tun!ReadFails
    BY <1>2, SMT DEF Tun!ReadFails
<1>3. CASE Tun!Dial
    BY <1>3 DEF Tun!Dial
<1>4. CASE Tun!Insert
    BY <1>4 DEF Tun!Insert
<1>5. CASE Tun!Write
    BY <1>5, SMT DEF Tun!Write
<1>6. CASE Tun!Return
    BY <1>6 DEF Tun!Return, Tun!BeginCloseAll
<1>7. CASE Tun!Untrack
    BY <1>7 DEF Tun!Untrack
<1>8. CASE Tun!ClosePeers
    BY <1>8 DEF Tun!ClosePeers
<1>9. CASE Tun!Deleted
    BY <1>9 DEF Tun!Deleted, Tun!BeginCloseAll
<1>10. ASSUME NEW d \in Dest, Tun!ReaderEnds(d) PROVE TunInv'
    BY <1>10, SMT DEF Tun!ReaderEnds
<1>11. ASSUME NEW d \in Dest, Tun!ReaderFails(d) PROVE TunInv'
    BY <1>11 DEF Tun!ReaderFails, Tun!BeginCloseAll
<1>12. CASE UNCHANGED Tun!vars
    BY <1>12, SMT DEF Tun!vars
<1> QED
    BY <1>1, <1>2, <1>3, <1>4, <1>5, <1>6, <1>7, <1>8, <1>9, <1>10, <1>11,
       <1>12 DEF Tun!Next, Tun!LoopStep, Tun!Finished

(* The inductive invariant holds in every reachable state.                 *)
THEOREM TunInvariance ==
    ASSUME MaxPackets \in Nat PROVE Tun!Spec => []TunInv
BY TunInitial, TunInductive, PTL DEF Tun!Spec

(* Type correctness: every variable stays in its range and every inserted  *)
(* peer has a goroutine.                                                   *)
THEOREM TunTypeCorrect ==
    ASSUME MaxPackets \in Nat PROVE Tun!Spec => []Tun!TypeOK
BY TunInvariance, PTL DEF TunInv

(* The flow is listed in the registry until closeAll has finished.         *)
THEOREM UntrackedIsClosedHolds ==
    ASSUME MaxPackets \in Nat PROVE Tun!Spec => []Tun!UntrackedIsClosed
<1>1. TunInv => Tun!UntrackedIsClosed
    BY DEF TunInv, RowOutlivesClose, Tun!UntrackedIsClosed
<1> QED
    BY <1>1, TunInvariance, PTL

(* Every step of a flow is a step of the abstract relay, or none.          *)
LEMMA TunStepRefines ==
    TunInv /\ [Tun!Next]_(Tun!vars) => [Tun!Relay!RNext]_(Tun!Relay!rvars)
<1> SUFFICES ASSUME TunInv, [Tun!Next]_(Tun!vars)
             PROVE  [Tun!Relay!RNext]_(Tun!Relay!rvars)
    OBVIOUS
<1>0. Tun!TypeOK /\ ClosedWithOnce /\ DialedIsNew
    BY DEF TunInv
<1>1. /\ closing' = closing => Tun!Phase' = Tun!Phase
      /\ peer' = peer => Tun!Survivors' = Tun!Survivors /\ Tun!Used' = Tun!Used
      /\ (Tun!InHand' <=> Tun!InHand) => Tun!InHand' = Tun!InHand
      /\ Tun!InHand' => Tun!InHand' = TRUE
      /\ ~Tun!InHand' => Tun!InHand' = FALSE
    <2>1. closing' = closing => Tun!Phase' = Tun!Phase
        BY DEF Tun!Phase
    <2>2. peer' = peer => Tun!Survivors' = Tun!Survivors /\ Tun!Used' = Tun!Used
        BY DEF Tun!Survivors, Tun!Used
    <2>3. Tun!InHand \in BOOLEAN /\ Tun!InHand' \in BOOLEAN
        BY SMT DEF Tun!InHand
    <2> QED
        BY <2>1, <2>2, <2>3, SMT
<1>2. ASSUME UNCHANGED <<closing, peer>>, Tun!InHand' <=> Tun!InHand
      PROVE  UNCHANGED Tun!Relay!rvars
    BY <1>1, <1>2 DEF Tun!Relay!rvars
<1>3. ASSUME NEW d \in Dest, Tun!ReadPacket(d)
      PROVE  [Tun!Relay!RNext]_(Tun!Relay!rvars)
    <2>1. /\ Tun!Phase = "open" /\ ~Tun!InHand
          /\ UNCHANGED <<closing, peer>>
        BY <1>0, <1>3 DEF Tun!ReadPacket, ClosedWithOnce, Tun!Phase, Tun!InHand
    <2>2. CASE Tun!InHand'
        <3>1. Tun!Relay!Take
            BY <1>1, <2>1, <2>2 DEF Tun!Relay!Take
        <3> QED
            BY <3>1 DEF Tun!Relay!RNext
    <2>3. CASE ~Tun!InHand'
        BY <1>2, <2>1, <2>3
    <2> QED
        BY <2>2, <2>3
<1>4. CASE Tun!ReadFails \/ Tun!Write \/ Tun!Untrack
    BY <1>2, <1>4 DEF Tun!ReadFails, Tun!Write, Tun!Untrack, Tun!InHand
<1>5. CASE Tun!Dial
    <2>1. CASE pc' = "insert"
        BY <1>2, <1>5, <2>1 DEF Tun!Dial, Tun!InHand
    <2>2. CASE pc' = "return"
        <3>1. Tun!InHand /\ ~Tun!InHand' /\ UNCHANGED <<closing, peer>>
            BY <1>5, <2>2 DEF Tun!Dial, Tun!InHand
        <3> QED
            BY <1>1, <3>1 DEF Tun!Relay!RNext, Tun!Relay!Drop
    <2> QED
        BY <1>5, <2>1, <2>2 DEF Tun!Dial
<1>6. CASE Tun!Insert
    <2>1. /\ Tun!InHand /\ ~Tun!InHand' /\ closing' = closing
          /\ dest \in Dest /\ peer[dest] = "none"
          /\ peer' = [peer EXCEPT ![dest] = "open"]
        BY <1>0, <1>6 DEF Tun!Insert, Tun!InHand, Tun!TypeOK, DialedIsNew
    <2>2. /\ dest \notin Tun!Used
          /\ Tun!Used' = Tun!Used \cup {dest}
          /\ Tun!Survivors' = Tun!Survivors \cup {dest}
        BY <1>0, <2>1 DEF Tun!Used, Tun!Survivors, Tun!TypeOK
    <2>3. Tun!Relay!Connect(dest)
        BY <1>1, <2>1, <2>2 DEF Tun!Relay!Connect
    <2> QED
        BY <2>1, <2>3 DEF Tun!Relay!RNext
<1>7. ASSUME Tun!BeginCloseAll, peer' = peer, Tun!InHand' <=> Tun!InHand
      PROVE  [Tun!Relay!RNext]_(Tun!Relay!rvars)
    <2>1. CASE closing = "no"
        <3>1. Tun!Phase = "open" /\ Tun!Phase' = "closing"
            BY <1>7, <2>1 DEF Tun!BeginCloseAll, Tun!Phase
        <3>2. Tun!Relay!BeginClose
            BY <1>1, <1>7, <3>1 DEF Tun!Relay!BeginClose
        <3> QED
            BY <3>2 DEF Tun!Relay!RNext
    <2>2. CASE closing # "no"
        BY <1>2, <1>7, <2>2 DEF Tun!BeginCloseAll
    <2> QED
        BY <2>1, <2>2
<1>8. CASE Tun!Return
    BY <1>7, <1>8 DEF Tun!Return, Tun!InHand
<1>9. CASE Tun!Deleted
    BY <1>7, <1>9 DEF Tun!Deleted, Tun!InHand
<1>10. ASSUME NEW d \in Dest, Tun!ReaderFails(d)
       PROVE  [Tun!Relay!RNext]_(Tun!Relay!rvars)
    BY <1>7, <1>10 DEF Tun!ReaderFails, Tun!InHand
<1>11. ASSUME NEW d \in Dest, Tun!ReaderEnds(d) PROVE UNCHANGED Tun!Relay!rvars
    BY <1>2, <1>11 DEF Tun!ReaderEnds, Tun!InHand
<1>12. CASE Tun!ClosePeers
    <2>1. Tun!Phase = "closing" /\ Tun!Phase' = "closed"
        BY <1>12 DEF Tun!ClosePeers, Tun!Phase
    <2>2. Tun!InHand' <=> Tun!InHand
        BY <1>12 DEF Tun!ClosePeers, Tun!InHand
    <2>3. Tun!Survivors' = {} /\ Tun!Used' = Tun!Used
        BY <1>0, <1>12 DEF Tun!ClosePeers, Tun!Survivors, Tun!Used, Tun!TypeOK
    <2>4. Tun!Relay!EndClose
        BY <1>1, <2>1, <2>2, <2>3 DEF Tun!Relay!EndClose
    <2> QED
        BY <2>4 DEF Tun!Relay!RNext
<1>13. CASE UNCHANGED Tun!vars
    BY <1>2, <1>13 DEF Tun!vars, Tun!InHand
<1> QED
    BY <1>3, <1>4, <1>5, <1>6, <1>8, <1>9, <1>10, <1>11, <1>12, <1>13
       DEF Tun!Next, Tun!LoopStep, Tun!Finished

(* A flow implements the abstract relay, for every set of destinations and *)
(* every number of packets.                                                *)
THEOREM TunRelayRefinement ==
    ASSUME MaxPackets \in Nat PROVE Tun!Spec => Tun!ImplementsRelay
<1>1. Tun!Init => Tun!Relay!RInit
    BY SMT DEF Tun!Init, Tun!Relay!RInit, Tun!Phase, Tun!InHand, Tun!Used,
               Tun!Survivors
<1> QED
    BY <1>1, TunStepRefines, TunInvariance, PTL
       DEF Tun!Spec, Tun!ImplementsRelay, Tun!Relay!RSpec

(* A torn down flow keeps at most one upstream connection open, however    *)
(* closeAll races with getPeer.                                            *)
THEOREM TunAtMostOneSurvivor ==
    ASSUME MaxPackets \in Nat PROVE Tun!Spec => []Tun!Relay!AtMostOneSurvivor
<1>1. TunInv => Tun!Relay!AtMostOneSurvivor
    <2> SUFFICES ASSUME TunInv, Tun!Phase = "closed",
                        NEW d \in Tun!Survivors, NEW e \in Tun!Survivors
                 PROVE  d = e
        BY DEF Tun!Relay!AtMostOneSurvivor
    <2>1. closing = "done"
        BY DEF TunInv, Tun!TypeOK, Tun!Phase
    <2> QED
        BY <2>1 DEF TunInv, TunLastDial
<1> QED
    BY <1>1, TunInvariance, PTL

(* An upper bound on the steps the loop has left once closeAll has begun.  *)
TunStepsLeft ==
    CASE pc = "dial" -> 6 [] pc = "insert" -> 5 [] pc = "write" -> 4
      [] pc = "read" -> 3 [] pc = "return" -> 2 [] pc = "untrack" -> 1
      [] pc = "done" -> 0

(* Once closeAll has begun, whoever called it, the handler's loop makes at *)
(* most six more steps: it reads no packet from the closed device side.    *)
THEOREM TunLoopWindsDown ==
    ASSUME MaxPackets \in Nat
    PROVE  Tun!Spec => [][closing # "no" =>
                           /\ closing' # "no"
                           /\ Tun!LoopStep => TunStepsLeft' < TunStepsLeft
                           /\ pc' # pc => Tun!LoopStep]_(Tun!vars)
<1>1. ASSUME [Tun!Next]_(Tun!vars), closing # "no" PROVE closing' # "no"
    BY <1>1 DEF Tun!Next, Tun!LoopStep, Tun!ReadPacket, Tun!ReadFails, Tun!Dial,
                Tun!Insert, Tun!Write, Tun!Return, Tun!Untrack, Tun!ClosePeers,
                Tun!Deleted, Tun!ReaderEnds, Tun!ReaderFails, Tun!BeginCloseAll,
                Tun!Finished, Tun!vars
<1>2. ASSUME TunInv, Tun!LoopStep, closing # "no" PROVE TunStepsLeft' < TunStepsLeft
    <2>1. \/ pc = "read" /\ pc' = "return"
          \/ pc = "dial" /\ pc' \in {"insert", "return"}
          \/ pc = "insert" /\ pc' = "write"
          \/ pc = "write" /\ pc' \in {"read", "return"}
          \/ pc = "return" /\ pc' = "untrack"
          \/ pc = "untrack" /\ pc' = "done"
        BY <1>2 DEF TunInv, ClosedWithOnce, Tun!LoopStep, Tun!ReadPacket,
                    Tun!ReadFails, Tun!Dial, Tun!Insert, Tun!Write, Tun!Return,
                    Tun!Untrack
    <2> QED
        BY <2>1, SMT DEF TunStepsLeft
<1>3. ASSUME [Tun!Next]_(Tun!vars), pc' # pc PROVE Tun!LoopStep
    BY <1>3 DEF Tun!Next, Tun!ClosePeers, Tun!Deleted, Tun!ReaderEnds,
                Tun!ReaderFails, Tun!Finished, Tun!vars
<1>4. TunInv /\ [Tun!Next]_(Tun!vars) =>
        [closing # "no" =>
            /\ closing' # "no"
            /\ Tun!LoopStep => TunStepsLeft' < TunStepsLeft
            /\ pc' # pc => Tun!LoopStep]_(Tun!vars)
    BY <1>1, <1>2, <1>3
<1> QED
    BY <1>4, TunInvariance, PTL DEF Tun!Spec
=============================================================================
