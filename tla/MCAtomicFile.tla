---------------------------- MODULE MCAtomicFile ----------------------------
EXTENDS AtomicFile
=============================================================================
