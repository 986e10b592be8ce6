---------------------------- MODULE MCOfflineAgency ----------------------------
\* Small instances of OfflineAgency.
EXTENDS OfflineAgency
=============================================================================
