----------------------------- MODULE MCModelList ------------------------------
EXTENDS ModelList
=============================================================================
