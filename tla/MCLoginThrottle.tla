--------------------------- MODULE MCLoginThrottle ---------------------------
EXTENDS LoginThrottle, TLC

\* The logins are interchangeable.
LoginSymmetry == Permutations(Logins)
=============================================================================
