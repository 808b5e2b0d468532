---------------------------- MODULE MCFskitBridge ----------------------------
\* Two calls, of volumes of one session or of two, over two connections.
EXTENDS FskitBridge
=============================================================================
