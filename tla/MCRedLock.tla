------------------------------ MODULE MCRedLock ------------------------------
EXTENDS RedLock

CONSTANTS c1, c2

MCClients == {c1, c2}


=============================================================================
