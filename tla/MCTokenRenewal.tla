--------------------------- MODULE MCTokenRenewal ---------------------------
EXTENDS TokenRenewal
=============================================================================
