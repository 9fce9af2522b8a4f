------------------------------ MODULE MCStartup ------------------------------
EXTENDS Startup
(* The older release left the same as a parameter may hold, something the  *)
(* pool refuses, or nothing.                                               *)
MCOlds == {[kind \in Kinds |-> v] : v \in {"A", "C", None}}
(* The two pools' protocols meet nowhere: one parameter at a time.         *)
MCFlags == {[proxy |-> v, cookie |-> None] : v \in {"A", "B", "C", None}}
           \cup {[proxy |-> None, cookie |-> v] : v \in {"A", "B", Unreadable}}
(* Three starts with edits or a fault of the pools, and verifications with *)
(* saves of the configuration.                                             *)
MCBudgets == {
  [starts |-> 3, edits |-> 2, faults |-> 0, saves |-> 0, probes |-> 0],
  [starts |-> 3, edits |-> 1, faults |-> 1, saves |-> 0, probes |-> 0],
  [starts |-> 2, edits |-> 0, faults |-> 1, saves |-> 1, probes |-> 2]}
=============================================================================
