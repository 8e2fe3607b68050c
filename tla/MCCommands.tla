----------------------------- MODULE MCCommands -----------------------------
(* The portal may fail to tell, allow both starts, deny both for the card, *)
(* or the normal one only.                                                 *)
EXTENDS Commands
MCReasons == { DENIED_FOR_SOCKET_STATE, "card" }
Answer(ops, why) ==
    [ allowed |-> ops,
      denied |-> [ op \in StartOperations |-> IF op \in ops THEN None ELSE why ] ]
MCAnswers == { None, Answer(StartOperations, "card"), Answer({OP_START_CHARGE_NOW}, "card"),
               Answer({}, "card") }
=============================================================================
