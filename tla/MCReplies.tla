------------------------------ MODULE MCReplies -------------------------------
EXTENDS Replies
=============================================================================
