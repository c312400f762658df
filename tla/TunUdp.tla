------------------------------- MODULE TunUdp -------------------------------
(***************************************************************************)
(* One UDP flow of the TUN device (tunnel/handler_windows.go,              *)
(* NewPacketConnectionEx).                                                 *)
(*                                                                         *)
(* The handler's loop reads a packet, finds or dials the upstream "peer"   *)
(* of its destination and writes to it; a goroutine per peer copies the    *)
(* answers back.  closeAll closes the device side of the flow and every    *)
(* peer of the map.  It runs once (sync.Once) and can be called by         *)
(* DELETE /connections through the connection registry, by a peer's        *)
(* goroutine and by the loop when it returns, all concurrently with a dial *)
(* the loop has under way: getPeer does not hold the mutex while it dials. *)
(*                                                                         *)
(* Only the loop inserts peers and nothing deletes them, so a destination  *)
(* has at most one peer and getPeer's test for an existing one after the   *)
(* dial never succeeds; it is left out.                                    *)
(***************************************************************************)
EXTENDS Naturals

CONSTANTS
    Dest,        \* destinations the application sends to
    MaxPackets   \* bound: packets the application sends

ASSUME TunUdpAssumption == MaxPackets \in Nat

VARIABLES
    pc,        \* where the loop is
    dest,      \* destination of the packet in hand
    packets,   \* packets read so far
    connOpen,  \* the device side of the flow is open
    closing,   \* closeAll's sync.Once
    peer,      \* the peers map, with the state of each connection
    reader,    \* the goroutine of each peer
    tracked    \* the flow is in the connection registry

vars == <<pc, dest, packets, connOpen, closing, peer, reader, tracked>>

Loop == {"read", "dial", "insert", "write", "return", "untrack", "done"}

Init ==
    /\ pc = "read" /\ dest \in Dest /\ packets = 0
    /\ connOpen = TRUE /\ closing = "no" /\ tracked = TRUE
    /\ peer = [d \in Dest |-> "none"]
    /\ reader = [d \in Dest |-> "none"]

-----------------------------------------------------------------------------
(* closeAll, first half: the Once is taken and the device side closed.     *)
(* A call that finds the Once taken changes nothing.                       *)
BeginCloseAll_KeepsConn ==
    /\ closing' = IF closing = "no" THEN "running" ELSE closing
    /\ UNCHANGED connOpen

BeginCloseAll ==
    /\ closing' = IF closing = "no" THEN "running" ELSE closing
    /\ connOpen' = FALSE

(* closeAll, second half: under the mutex, every peer of the map is closed.*)
ClosePeers ==
    /\ closing = "running"
    /\ closing' = "done"
    /\ peer' = [d \in Dest |-> IF peer[d] = "none" THEN "none" ELSE "closed"]
    /\ UNCHANGED <<pc, dest, packets, connOpen, reader, tracked>>

(* The registry's closer: DELETE /connections while the flow is listed.    *)
Deleted ==
    /\ tracked
    /\ BeginCloseAll
    /\ UNCHANGED <<pc, dest, packets, peer, reader, tracked>>

-----------------------------------------------------------------------------
(* The loop.                                                               *)

(* A packet arrives; getPeer looks its destination up.                     *)
ReadPacket(d) ==
    /\ pc = "read" /\ connOpen /\ packets < MaxPackets
    /\ packets' = packets + 1
    /\ dest' = d
    /\ pc' = IF peer[d] = "none" THEN "dial" ELSE "write"
    /\ UNCHANGED <<connOpen, closing, peer, reader, tracked>>

(* ReadPacket fails: the flow was closed, or the stack gave it up.         *)
ReadFails ==
    /\ pc = "read"
    /\ pc' = "return"
    /\ UNCHANGED <<dest, packets, connOpen, closing, peer, reader, tracked>>

(* router.Dial returns an upstream connection, or an error that ends the   *)
(* flow.                                                                   *)
Dial ==
    /\ pc = "dial"
    /\ pc' \in {"insert", "return"}
    /\ UNCHANGED <<dest, packets, connOpen, closing, peer, reader, tracked>>

(* The new peer enters the map and its goroutine starts.                   *)
Insert ==
    /\ pc = "insert"
    /\ peer' = [peer EXCEPT ![dest] = "open"]
    /\ reader' = [reader EXCEPT ![dest] = "copy"]
    /\ pc' = "write"
    /\ UNCHANGED <<dest, packets, connOpen, closing, tracked>>

(* The payload is written; a write to a closed peer fails, any other may.  *)
(* The loop returns on an error and when its context is done.              *)
Write ==
    /\ pc = "write"
    /\ pc' \in IF peer[dest] = "closed" THEN {"return"} ELSE {"read", "return"}
    /\ UNCHANGED <<dest, packets, connOpen, closing, peer, reader, tracked>>

(* The deferred function: closeAll, which waits for the call that is under *)
(* way, ...                                                                *)
Return ==
    /\ pc = "return"
    /\ BeginCloseAll
    /\ pc' = "untrack"
    /\ UNCHANGED <<dest, packets, peer, reader, tracked>>

(* ... then UntrackConnection.                                             *)
Untrack_KeepsRow ==
    /\ pc = "untrack" /\ closing = "done"
    /\ pc' = "done"
    /\ UNCHANGED <<dest, packets, connOpen, closing, peer, reader, tracked>>

Untrack ==
    /\ pc = "untrack" /\ closing = "done"
    /\ tracked' = FALSE
    /\ pc' = "done"
    /\ UNCHANGED <<dest, packets, connOpen, closing, peer, reader>>

-----------------------------------------------------------------------------
(* A peer's goroutine.                                                     *)

(* Its read ends with net.ErrClosed or io.EOF: it only returns.            *)
ReaderEnds_OnEOF(d) ==
    /\ reader[d] = "copy" /\ peer[d] # "closed"
    /\ reader' = [reader EXCEPT ![d] = "returned"]
    /\ UNCHANGED <<pc, dest, packets, connOpen, closing, peer, tracked>>

ReaderEnds(d) ==
    /\ reader[d] = "copy"
    /\ reader' = [reader EXCEPT ![d] = "returned"]
    /\ UNCHANGED <<pc, dest, packets, connOpen, closing, peer, tracked>>

(* Another read error, or an answer that cannot be written back: it takes  *)
(* the whole flow down.                                                    *)
ReaderFails(d) ==
    /\ reader[d] = "copy"
    /\ reader' = [reader EXCEPT ![d] = "returned"]
    /\ BeginCloseAll
    /\ UNCHANGED <<pc, dest, packets, peer, tracked>>

-----------------------------------------------------------------------------
Finished == pc = "done" /\ UNCHANGED vars

LoopStep ==
    \/ \E d \in Dest : ReadPacket(d)
    \/ ReadFails \/ Dial \/ Insert \/ Write \/ Return \/ Untrack

Next ==
    \/ LoopStep \/ ClosePeers \/ Deleted
    \/ \E d \in Dest : ReaderEnds(d) \/ ReaderFails(d)
    \/ Finished

Spec == Init /\ [][Next]_vars

(* A read from a closed flow fails, a dial ends (it has a deadline of 15   *)
(* seconds), a UDP write returns, a closeAll that has begun proceeds, and  *)
(* a read from a closed peer ends.  Nothing is assumed of the application, *)
(* the control plane or an open peer.                                      *)
FairSpec ==
    /\ Spec
    /\ WF_vars(~connOpen /\ ReadFails)
    /\ WF_vars(Dial \/ Insert \/ Write \/ Return \/ Untrack)
    /\ WF_vars(ClosePeers)
    /\ \A d \in Dest : WF_vars(peer[d] = "closed" /\ ReaderEnds(d))

-----------------------------------------------------------------------------
(* Properties.                                                             *)

(* Every variable is in its range, and a peer has a goroutine exactly when *)
(* it has been inserted.                                                   *)
TypeOK ==
    /\ pc \in Loop /\ dest \in Dest /\ packets \in 0..MaxPackets
    /\ connOpen \in BOOLEAN /\ tracked \in BOOLEAN
    /\ closing \in {"no", "running", "done"}
    /\ peer \in [Dest -> {"none", "open", "closed"}]
    /\ reader \in [Dest -> {"none", "copy", "returned"}]
    /\ \A d \in Dest : peer[d] = "none" <=> reader[d] = "none"

Survivors == {d \in Dest : peer[d] = "open"}

(* The flow as UdpRelay sees it: a packet is in hand while it can dial.    *)
Phase == CASE closing = "no" -> "open" [] closing = "running" -> "closing"
           [] closing = "done" -> "closed"

InHand == pc \in {"dial", "insert"}
Used == {d \in Dest : peer[d] # "none"}

Relay == INSTANCE UdpRelay
           WITH Conn <- Dest, phase <- Phase, inHand <- InHand,
                used <- Used, up <- Survivors

(* However closeAll is raced, the flow is a relay that takes one packet at *)
(* a time: when it has been closed at most one upstream connection is still*)
(* open, the one whose dial was under way, because closing the device side *)
(* stops the loop from dialing another.                                    *)
ImplementsRelay == Relay!RSpec

(* The flow's row leaves the registry only after closeAll has closed the   *)
(* peers it found, so that DELETE can reach a flow for as long as it has   *)
(* connections (the order of the deferred calls).                          *)
UntrackedIsClosed == ~tracked => closing = "done"

(* A teardown, whoever began it, ends the loop and removes the row.        *)
TeardownCompletes == closing # "no" ~> ~tracked

(* A teardown, whoever began it and whatever is being dialed, ends the     *)
(* flow's goroutines for good: the loop's and every peer's, but for the    *)
(* one of a peer inserted behind closeAll's back.                          *)
TeardownEndsGoroutines ==
    closing # "no" ~>
        [](pc = "done" /\ \E s \in Dest : \A d \in Dest \ {s} : reader[d] # "copy")

(* When the handler has returned, no upstream connection of its flow is    *)
(* open any more.  A dial that ends after closeAll has run inserts a peer  *)
(* nobody will close.                                                      *)
NothingSurvives == pc = "done" => Survivors = {}
=============================================================================
