--------------------------- MODULE MCNotifySwitch ---------------------------
EXTENDS NotifySwitch
=============================================================================
