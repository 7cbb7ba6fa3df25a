--------------------------- MODULE MCSessionCache ---------------------------
EXTENDS SessionCache, TLC

\* The goroutines are interchangeable: no definition chooses one of them.
\* The sessions are not, AnySession singles one out.
ProcSymmetry == Permutations(Procs)
=============================================================================
