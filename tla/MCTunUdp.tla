------------------------------ MODULE MCTunUdp ------------------------------
EXTENDS TunUdp

CONSTANTS d1, d2, d3

MCDest == {d1, d2, d3}
=============================================================================
