------------------------------ MODULE Statuses ------------------------------
(***************************************************************************)
(* The status words of a socket (driivz/const.py) and the sets of them the  *)
(* integration tells apart.  A model is given a subset of the words to play *)
(* with, at least one of each set it wants exercised.                       *)
(***************************************************************************)
CONSTANT
    Statuses,   \* the status words this instance uses
    None        \* Python's None: no status, no socket, no session

STATUS_AVAILABLE == "AVAILABLE"

\* The words of driivz/const.py; the portal sends no other.
STATUSES == { "AVAILABLE", "OCCUPIED", "CHARGING", "DISCHARGING", "PAUSED",
              "PREPARING", "FINISHING", "RESERVED", "UNAVAILABLE", "FAULTED",
              "UNKNOWN" }

\* The socket is delivering (or briefly not delivering) a charge.
CHARGING_STATUSES == { "CHARGING", "DISCHARGING", "PAUSED" }

\* Pushed in the middle of a session, these say nothing about its end.
NOT_AN_END == { "FAULTED", "UNAVAILABLE", "UNKNOWN" }

\* Somebody uses the socket.
IN_USE_STATUSES == CHARGING_STATUSES \cup { "OCCUPIED", "PREPARING", "FINISHING" }

\* A charge can be started here: free, or plugged in but not yet charging.
STARTABLE_STATUSES == { "AVAILABLE", "PREPARING", "OCCUPIED" }

ASSUME StatusesAssumption == Statuses \subseteq STATUSES /\ None \notin STATUSES
=============================================================================
