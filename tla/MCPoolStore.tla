---------------------------- MODULE MCPoolStore -----------------------------
EXTENDS PoolStore
=============================================================================
