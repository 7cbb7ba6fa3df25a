--------------------------- MODULE MCTokenRefresh ---------------------------
EXTENDS TokenRefresh, TLC
=============================================================================
