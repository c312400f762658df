---------------------------- MODULE UdpFragments ----------------------------
(***************************************************************************)
(* One direction of a UDP session over QUIC datagrams: hysteria2UDPConn    *)
(* (protocol/hysteria2.go) and tuicUDPConn (protocol/tuic.go), which       *)
(* fragment and reassemble in the same way.                                *)
(*                                                                         *)
(* Write gives a packet the next packet number, cuts it into chunks and    *)
(* sends each as a datagram with the number, the index of the chunk and    *)
(* the count of chunks.  QUIC datagrams are neither repeated when lost nor *)
(* kept in order.  Read takes datagrams until handleIncomingDatagram has   *)
(* put a packet together and hands out as much of it as the caller's       *)
(* buffer holds.  The table of partly received packets is keyed by the     *)
(* packet number alone: the number has 16 bits and comes round again, and  *)
(* nothing ever drops an entry whose other fragments were lost.            *)
(*                                                                         *)
(* The peer is external; it is taken to cut its packets as Write does.     *)
(* The unit of data is the chunk, known by its packet and its index.  A    *)
(* datagram that does not parse or is of another session, a Read of a      *)
(* closed connection, and a Write or Read of nothing change nothing and    *)
(* are left out.                                                           *)
(***************************************************************************)
EXTENDS Naturals, Sequences, FiniteSets, Functions, Subsequences

CONSTANTS
    IdSpace,       \* packet numbers: 2^16
    MaxFragments,  \* most fragments of a packet: 255
    MaxBuffer,     \* bound: chunks the buffer of a Read holds
    MaxWrites,     \* bound: calls of Write
    MaxCopies      \* bound: datagrams the network repeats

ASSUME UdpFragmentsAssumption ==
    /\ IdSpace \in Nat \ {0} /\ MaxFragments \in Nat \ {0}
    /\ MaxBuffer \in Nat \ {0} /\ MaxWrites \in Nat /\ MaxCopies \in Nat

VARIABLES
    packetID,    \* the number of the last packet written
    packets,     \* per Write, the packet's number and its chunks
    next,        \* chunks of the last packet that have been sent
    writing,     \* a Write is under way
    network,     \* bag of datagrams sent and not yet received
    copies,      \* datagrams the network repeated
    received,    \* bag of datagrams handleIncomingDatagram was given
    fragments,   \* parts received per packet number
    fragCounts,  \* number of parts received per packet number
    delivered,   \* packets put together, each with the packet that
                 \* completed it and how many chunks Read returned before
    readBuf,     \* rest of a packet the last Read's buffer did not hold
    returned     \* chunks Read returned, in order

sendVars == <<packetID, packets, next, writing>>
tableVars == <<fragments, fragCounts>>
vars == <<sendVars, network, copies, received, tableVars, delivered, readBuf,
          returned>>

Chunk(p, i) == [packet |-> p, index |-> i]

Nil == Chunk(0, 0)

(* All chunks of packet p, in order.                                       *)
Chunks(p) == [i \in 1..packets[p].count |-> Chunk(p, i - 1)]

Datagram(p, i) ==
    [id |-> packets[p].id, index |-> i, count |-> packets[p].count,
     payload |-> Chunk(p, i)]

Datagrams(p) == {Datagram(p, i) : i \in 0..(packets[p].count - 1)}

(* The map m once m[k] = v.                                                *)
Put(m, k, v) == [x \in DOMAIN m \cup {k} |-> IF x = k THEN v ELSE m[x]]

(* A bag of datagrams tells how many there are of each; one with one more  *)
(* of d, and with one less.                                                *)
OneMore(bag, d) == Put(bag, d, IF d \in DOMAIN bag THEN bag[d] + 1 ELSE 1)

OneLess(bag, d) ==
    IF bag[d] > 1 THEN Put(bag, d, bag[d] - 1)
    ELSE [x \in DOMAIN bag \ {d} |-> bag[x]]

Init ==
    /\ packetID = 0 /\ packets = <<>> /\ next = 0 /\ writing = FALSE
    /\ network = <<>> /\ copies = 0 /\ received = <<>>
    /\ fragments = <<>> /\ fragCounts = <<>>
    /\ delivered = <<>> /\ readBuf = <<>> /\ returned = <<>>

-----------------------------------------------------------------------------
(* Write of a packet of n chunks.  A packet of too many chunks is refused, *)
(* but it has used up a number.                                            *)
Write(n) ==
    /\ ~writing
    /\ Len(packets) < MaxWrites
    /\ packetID' = (packetID + 1) % IdSpace
    /\ packets' = Append(packets, [id |-> packetID', count |-> n])
    /\ next' = 0
    /\ writing' = (n <= MaxFragments)
    /\ UNCHANGED <<network, copies, received, tableVars, delivered, readBuf,
                   returned>>

(* sendDatagram of the next chunk; after the last one Write returns.       *)
SendDatagram ==
    /\ writing
    /\ network' = OneMore(network, Datagram(Len(packets), next))
    /\ next' = next + 1
    /\ writing' = (next' < packets[Len(packets)].count)
    /\ UNCHANGED <<packetID, packets, copies, received, tableVars, delivered,
                   readBuf, returned>>

(* SendDatagram fails: Write returns, what it has sent stays sent.         *)
SendFails ==
    /\ writing
    /\ writing' = FALSE
    /\ UNCHANGED <<packetID, packets, next, network, copies, received,
                   tableVars, delivered, readBuf, returned>>

(* The network repeats a datagram.  One it loses is one Read never takes.  *)
Repeat(d) ==
    /\ d \in DOMAIN network /\ copies < MaxCopies
    /\ network' = OneMore(network, d)
    /\ copies' = copies + 1
    /\ UNCHANGED <<sendVars, received, tableVars, delivered, readBuf, returned>>

-----------------------------------------------------------------------------
(* The entry of d's number, made with room for d's count if there is none. *)
Parts_Short(d) ==
    IF d.id \in DOMAIN fragments THEN fragments[d.id]
    ELSE [i \in 0..(d.count - 2) |-> Nil]

Parts(d) ==
    IF d.id \in DOMAIN fragments THEN fragments[d.id]
    ELSE [i \in 0..(d.count - 1) |-> Nil]

Count(d) == IF d.id \in DOMAIN fragCounts THEN fragCounts[d.id] ELSE 0

(* The parts and their number once d is stored; a slot already taken keeps *)
(* its part.  d's index must lie in the entry.                             *)
Stored(d) == [Parts(d) EXCEPT ![d.index] = IF @ = Nil THEN d.payload ELSE @]

Counted_Always(d) == Count(d) + 1

Counted(d) == Count(d) + (IF Parts(d)[d.index] = Nil THEN 1 ELSE 0)

Filled(parts) == {i \in DOMAIN parts : parts[i] # Nil}

(* The parts joined: an empty slot adds nothing.                           *)
Joined(parts) == Selected(parts, Filled(parts))

(* Read has no rest of a packet and receives datagram d.                   *)
Take(d) ==
    /\ readBuf = <<>>
    /\ d \in DOMAIN network
    /\ network' = OneLess(network, d)
    /\ received' = OneMore(received, d)
    /\ UNCHANGED <<sendVars, copies>>

(* Read returns what its buffer of n chunks holds and keeps the rest.      *)
Hand(chunks, n) ==
    /\ returned' = returned \o
          SubSeq(chunks, 1, IF n <= Len(chunks) THEN n ELSE Len(chunks))
    /\ readBuf' = SubSeq(chunks, n + 1, Len(chunks))

Deliver(d, chunks, n) ==
    /\ delivered' = Append(delivered, [by |-> d.payload.packet, chunks |-> chunks,
                                       from |-> Len(returned)])
    /\ Hand(chunks, n)

(* Read with a buffer of n chunks finds the rest of a packet.              *)
ReadBuffered(n) ==
    /\ readBuf # <<>>
    /\ Hand(readBuf, n)
    /\ UNCHANGED <<sendVars, network, copies, received, tableVars, delivered>>

(* Read receives datagram d, and handleIncomingDatagram finds a packet of  *)
(* one fragment, ...                                                       *)
ReceiveSingle(d, n) ==
    /\ Take(d)
    /\ d.count <= 1
    /\ Deliver(d, <<d.payload>>, n)
    /\ UNCHANGED tableVars

(* ... a fragment beyond the entry of its number, which is dropped, ...    *)
ReceiveBeyond(d) ==
    /\ Take(d)
    /\ d.count > 1 /\ d.index \notin DOMAIN Parts(d)
    /\ UNCHANGED <<tableVars, delivered, readBuf, returned>>

(* ... a fragment after which others are missing, ...                      *)
ReceivePart(d) ==
    /\ Take(d)
    /\ d.count > 1 /\ d.index \in DOMAIN Parts(d) /\ Counted(d) # d.count
    /\ fragments' = Put(fragments, d.id, Stored(d))
    /\ fragCounts' = Put(fragCounts, d.id, Counted(d))
    /\ UNCHANGED <<delivered, readBuf, returned>>

(* ... or the last one: the count of the entry reaches the count of d.     *)
Forget_KeepsEntry(d) ==
    /\ fragments' = Put(fragments, d.id, Stored(d))
    /\ fragCounts' = Put(fragCounts, d.id, Counted(d))

Forget(d) ==
    /\ fragments' = Restrict(fragments, DOMAIN fragments \ {d.id})
    /\ fragCounts' = Restrict(fragCounts, DOMAIN fragCounts \ {d.id})

ReceiveLast(d, n) ==
    /\ Take(d)
    /\ d.count > 1 /\ d.index \in DOMAIN Parts(d) /\ Counted(d) = d.count
    /\ Deliver(d, Joined(Stored(d)), n)
    /\ Forget(d)

Next ==
    \/ \E n \in 1..(MaxFragments + 1) : Write(n)
    \/ SendDatagram \/ SendFails
    \/ \E d \in DOMAIN network : Repeat(d)
    \/ \E n \in 1..MaxBuffer : ReadBuffered(n)
    \/ \E d \in DOMAIN network, n \in 1..MaxBuffer :
          ReceiveSingle(d, n) \/ ReceiveLast(d, n)
    \/ \E d \in DOMAIN network : ReceiveBeyond(d) \/ ReceivePart(d)

Spec == Init /\ [][Next]_vars

-----------------------------------------------------------------------------
(* Another packet of p's number had a fragment received.                   *)
Reused(p) ==
    \E d \in DOMAIN received :
        d.payload.packet # p /\ d.id = packets[p].id /\ d.count > 1

(* What Read returned and what it still holds.                             *)
Stream == returned \o readBuf

(* s is the chunks of the messages ms, one message right after the other.  *)
Concatenates(s, ms) ==
    /\ ms = <<>> => s = <<>>
    /\ \A k \in DOMAIN ms :
          LET end == ms[k].from + Len(ms[k].chunks) IN
          /\ k = 1 => ms[k].from = 0
          /\ end = IF k = Len(ms) THEN Len(s) ELSE ms[k + 1].from
          /\ \A i \in DOMAIN ms[k].chunks : s[ms[k].from + i] = ms[k].chunks[i]

(* What Read returns is, in order, the packets put together, one right     *)
(* after the other; and a packet put together is exactly the written       *)
(* packet that its last fragment belongs to, unless it contains a chunk of *)
(* a packet written a whole round of the packet numbers before or after.   *)
(* Nothing in handleIncomingDatagram compares packets other than by their  *)
(* number.                                                                 *)
Intact ==
    /\ Concatenates(Stream, delivered)
    /\ \A k \in DOMAIN delivered :
          LET p == delivered[k].by IN
          \/ delivered[k].chunks = Chunks(p)
          \/ \E c \in Range(delivered[k].chunks) :
                c.packet + IdSpace <= p \/ p + IdSpace <= c.packet

Occurrences(s, c) == Cardinality({k \in DOMAIN s : s[k] = c})

(* No chunk reaches the application more often than the network delivered  *)
(* it: a fragment that comes again after its packet is complete does not   *)
(* bring the packet back.                                                  *)
NoReplay ==
    \A d \in DOMAIN received : Occurrences(Stream, d.payload) <= received[d]

(* A packet all of whose fragments were received has been delivered, in    *)
(* whatever order they came, and if none came twice nothing is left of it  *)
(* in the table, as long as its number has not been used by another packet.*)
CompleteIsDelivered ==
    \A p \in DOMAIN packets :
        Datagrams(p) \subseteq DOMAIN received /\ ~Reused(p) =>
            /\ \E k \in DOMAIN delivered : delivered[k].chunks = Chunks(p)
            /\ (\A d \in Datagrams(p) : received[d] = 1)
                  => packets[p].id \notin DOMAIN fragments
=============================================================================
