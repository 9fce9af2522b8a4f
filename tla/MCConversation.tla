--------------------------- MODULE MCConversation ---------------------------
(* Instances of Conversation for TLC.                                      *)
EXTENDS Conversation, TLC

MCSolo == "c1" :> {"u1"}
MCSoloTwo == "c1" :> {"u1", "u2"}
MCDistinct == "c1" :> {"u1"} @@ "c2" :> {"u2"}
MCAlike == "c1" :> {"u1"} @@ "c2" :> {"u1"}
=============================================================================
