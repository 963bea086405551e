--------------------------- MODULE MCConversations ---------------------------
EXTENDS Conversations, TLC

Symmetry ==
    Permutations(User) \cup Permutations(Request) \cup Permutations(Account)
=============================================================================
