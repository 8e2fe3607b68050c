------------------------------- MODULE MCOffer -------------------------------
(* Two chosen sockets of the same name, in order of preference, and a third  *)
(* you may charge at.  Those of the first denied a start for its state, as   *)
(* read while it was taken; those of the second are not for this card.       *)
EXTENDS Offer, TLC
CONSTANTS s1, s2, s3
MCPreference == << s1, s2 >>
MCNames == [ s \in {s1, s2} |-> "left" ]
MCReasons == { DENIED_FOR_SOCKET_STATE, "card" }
Denied(why) == [ allowed |-> {}, denied |-> [ op \in StartOperations |-> why ] ]
MCCapabilities == s1 :> Denied(DENIED_FOR_SOCKET_STATE) @@ s2 :> Denied("card")
=============================================================================
