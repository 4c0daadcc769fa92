--------------------------- MODULE MCTableThreads --------------------------
EXTENDS TableThreads, TLC

CONSTANTS t1, t2

MCThreads == {t1, t2}
MCPks == {1, 2}
MCVals == {1}
MCZero == {0}

Symmetry == Permutations(Threads)
=============================================================================
