--------------------------- MODULE MCDetailRefresh ---------------------------
EXTENDS DetailRefresh
=============================================================================
