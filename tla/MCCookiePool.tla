---------------------------- MODULE MCCookiePool ----------------------------
(* Instances of CookiePool for TLC.                                        *)
EXTENDS CookiePool, TLC

MCAccount(proxy, slot) ==
  [on |-> TRUE, fails |-> 0, used |-> 0, proxy |-> proxy, slot |-> slot, managed |-> FALSE]
MCManaged == [MCAccount(0, 0) EXCEPT !.managed = TRUE]

MCSingle == {1 :> MCAccount(0, 0)}
MCMixed == {1 :> MCAccount(0, 0), 1 :> MCAccount(1, 0) @@ 2 :> MCManaged}
MCThree == {[i \in 1..3 |-> MCAccount(0, 0)]}
MCSlot == {1 :> [MCManaged EXCEPT !.slot = 1]}
=============================================================================
