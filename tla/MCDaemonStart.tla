---------------------------- MODULE MCDaemonStart ----------------------------
\* DaemonStart on a few processes and volumes.
EXTENDS DaemonStart
=============================================================================
