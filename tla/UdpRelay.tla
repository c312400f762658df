------------------------------ MODULE UdpRelay ------------------------------
(***************************************************************************)
(* What a relay of UDP packets promises about the upstream connections it  *)
(* dials for its packets, one packet at a time, however a close races with *)
(* the packet in hand.  No packet is taken once the close has begun.  The  *)
(* close ends every connection but at most one, which the packet that was  *)
(* in hand has dialed; that packet is the only one that can still dial.    *)
(* SocksUdp and TunUdp implement this specification.                       *)
(***************************************************************************)
CONSTANT Conn   \* the upstream connections that can ever be dialed

VARIABLES
    phase,    \* "open", "closing" or "closed"
    inHand,   \* a packet that may dial has been taken
    used,     \* connections dialed so far
    up        \* connections that are open

rvars == <<phase, inHand, used, up>>

RInit == phase = "open" /\ inHand = FALSE /\ used = {} /\ up = {}

Take ==
    /\ phase = "open" /\ ~inHand
    /\ inHand' = TRUE
    /\ UNCHANGED <<phase, used, up>>

(* The packet in hand gets a connection of its own, ...                    *)
Connect(c) ==
    /\ inHand /\ c \notin used
    /\ inHand' = FALSE
    /\ used' = used \cup {c} /\ up' = up \cup {c}
    /\ UNCHANGED phase

(* ... or uses an open one, or is dropped.                                 *)
Drop == inHand /\ inHand' = FALSE /\ UNCHANGED <<phase, used, up>>

(* A single connection fails or ends.                                      *)
End(c) ==
    /\ c \in up
    /\ up' = up \ {c}
    /\ UNCHANGED <<phase, inHand, used>>

BeginClose ==
    /\ phase = "open"
    /\ phase' = "closing"
    /\ UNCHANGED <<inHand, used, up>>

EndClose ==
    /\ phase = "closing"
    /\ phase' = "closed"
    /\ up' \in {{}} \cup {{c} : c \in up}
    /\ inHand => up' = {}
    /\ UNCHANGED <<inHand, used>>

RNext ==
    \/ Take \/ Drop \/ BeginClose \/ EndClose
    \/ \E c \in Conn : Connect(c) \/ End(c)

RSpec == RInit /\ [][RNext]_rvars

(* A closed relay has at most one open connection.                         *)
AtMostOneSurvivor == phase = "closed" => \A c, d \in up : c = d
=============================================================================
