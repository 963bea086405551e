-------------------------- MODULE MCOAuthSessions ---------------------------
EXTENDS OAuthSessions
=============================================================================
