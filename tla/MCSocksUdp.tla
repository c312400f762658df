----------------------------- MODULE MCSocksUdp -----------------------------
EXTENDS SocksUdp

CONSTANTS k1, k2

MCKey == {k1, k2}
=============================================================================
