--------------------------- MODULE MCConnections ---------------------------
EXTENDS Connections

CONSTANTS h1, h2

MCHandler == {h1, h2}
MCClientConn == {"tunConn"}
MCBuffered == {"bufferedConn"}
=============================================================================
