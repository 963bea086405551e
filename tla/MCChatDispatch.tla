--------------------------- MODULE MCChatDispatch ---------------------------
EXTENDS ChatDispatch
=============================================================================
