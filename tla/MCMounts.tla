------------------------------- MODULE MCMounts -------------------------------
\* Mounts on two sources of one repository.
EXTENDS Mounts

CONSTANTS i1, i2, k1, k2

MCIds == {i1, i2}
OneRepo == [i \in MCIds |-> k1]
=============================================================================
