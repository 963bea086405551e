-------------------------- MODULE MCQuotaWatchdog ---------------------------
EXTENDS QuotaWatchdog
=============================================================================
