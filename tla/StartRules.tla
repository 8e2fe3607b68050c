----------------------------- MODULE StartRules -----------------------------
(***************************************************************************)
(* What the capabilities of a socket say about starting a charge on it     *)
(* (SocketCapabilities in driivz/models.py): whether its start button is   *)
(* available (MerData.start_allowed), which start a press sends and why it *)
(* is refused (Commands.start).  The button goes by the capabilities in    *)
(* the cache, the press by those it reads.                                 *)
(***************************************************************************)
EXTENDS Statuses

CONSTANT Reasons        \* the reasons the portal gives for what it denies

OP_START_CHARGE == "START_CHARGE_FROM_SERVER"
OP_START_CHARGE_NOW == "START_CHARGE_NOW"
StartOperations == { OP_START_CHARGE, OP_START_CHARGE_NOW }

DENIED_FOR_SOCKET_STATE == "OPERATION_NOT_ALLOWED_IN_CURRENT_SOCKET_STATE"

ASSUME ReasonsAssumption == DENIED_FOR_SOCKET_STATE \in Reasons /\ None \notin Reasons

\* A denied operation has a reason; one neither allowed nor denied has none.
Capabilities == [ allowed : SUBSET StartOperations,
                  denied : [ StartOperations -> Reasons \cup {None} ] ]

\* The normal start, else "Charge now", else none.
start_method(caps) ==
    IF OP_START_CHARGE \in caps.allowed THEN "start"
    ELSE IF OP_START_CHARGE_NOW \in caps.allowed THEN "charge_now"
    ELSE "none"

start_refusal(caps) ==
    IF start_method(caps) # "none" THEN None
    ELSE IF caps.denied[OP_START_CHARGE] # None THEN caps.denied[OP_START_CHARGE]
    ELSE caps.denied[OP_START_CHARGE_NOW]

\* Neither start is allowed, nor denied for the state of the socket alone: of
\* that the status knows more.
refuses_start_whatever_the_state(caps) ==
    \A op \in StartOperations :
        op \notin caps.allowed /\ caps.denied[op] # DENIED_FOR_SOCKET_STATE

\* The start button of a socket; None: its capabilities have not been read.
start_allowed(status, caps) ==
    /\ status \in STARTABLE_STATUSES
    /\ caps # None => ~refuses_start_whatever_the_state(caps)

\* What a press sends; None: they could not be read, and the portal decides.
method(caps) == IF caps = None THEN "start" ELSE start_method(caps)
=============================================================================
