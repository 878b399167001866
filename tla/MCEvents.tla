------------------------------- MODULE MCEvents -------------------------------
EXTENDS EventsPromise, TLC

CONSTANTS t1, t2, r1, r2, r3

MCThreads == {t1, t2}
MCRegs == {r1, r2, r3}
Symmetry == Permutations(MCThreads) \cup Permutations(MCRegs)
===============================================================================
