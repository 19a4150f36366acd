---------------------------- MODULE MCCacheSim ----------------------------
EXTENDS CacheSim

CONSTANTS t1, t2

MCThreads == {t1, t2}

=============================================================================
