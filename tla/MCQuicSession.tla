--------------------------- MODULE MCQuicSession ---------------------------
(* Small instance of QuicSession: callers are interchangeable. *)
EXTENDS QuicSession, TLC

CONSTANTS c1, c2, c3

MCCaller == {c1, c2, c3}

=============================================================================
