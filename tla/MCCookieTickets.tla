--------------------------- MODULE MCCookieTickets ---------------------------
(* Instances of CookieTickets for TLC.                                     *)
EXTENDS CookieTickets, TLC
=============================================================================
