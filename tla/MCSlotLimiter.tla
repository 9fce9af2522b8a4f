---------------------------- MODULE MCSlotLimiter ----------------------------
(* Instances of SlotLimiter for TLC.                                       *)
EXTENDS SlotLimiter, TLC

Setting(c, m, h) == [k \in Kinds |-> CASE k = "concurrent" -> c
                                       [] k = "rpm" -> m
                                       [] k = "rph" -> h]

(* All three limits bite in turn; the administrator may lower or lift them *)
MCLimits == {Setting(2, 2, 3), Setting(1, 0, 2)}
MCSwitched == {Setting(1, 0, 0), Setting(0, 0, 0)}

=============================================================================
