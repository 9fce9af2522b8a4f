------------------------------ MODULE ExitQuota ------------------------------
(***************************************************************************)
(* What the limiter of ratelimit.go promises, without windows, mutex or    *)
(* configuration reads: a request enters an exit only if the full history  *)
(* of that exit leaves room under some combination of configured caps.     *)
(***************************************************************************)
EXTENDS Integers, Sequences, FiniteSets

CONSTANTS Requests, Slots, Limits, Minute, Hour

VARIABLES
  now,      \* seconds
  holders,  \* the requests inside each exit
  log       \* every admission of each exit, in order

vars == <<now, holders, log>>

Kinds == {"concurrent", "rpm", "rph"}
Windowed == {"rpm", "rph"}
Width(k) == IF k = "rpm" THEN Minute ELSE Hour

(* One value per limit, each taken from some saved setting.                *)
Caps == {c \in [Kinds -> UNION {{l[k] : k \in Kinds} : l \in Limits}] :
           \A k \in Kinds : \E l \in Limits : c[k] = l[k]}

(* Admissions of s within Width(k) seconds before t, both ends included.   *)
Recent(s, k, t) == {i \in DOMAIN log[s] : log[s][i].at >= t - Width(k)}

Room(s, t, c) ==
  /\ c["concurrent"] > 0 => Cardinality(holders[s]) < c["concurrent"]
  /\ \A k \in Windowed : c[k] > 0 => Cardinality(Recent(s, k, t)) < c[k]

Init ==
  /\ now = 0
  /\ holders = [s \in Slots |-> {}]
  /\ log = [s \in Slots |-> <<>>]

(* t is the time the call read: the clock may have moved on since.         *)
Admit(r, s) ==
  /\ \A q \in Slots : r \notin holders[q]
  /\ holders' = [holders EXCEPT ![s] = @ \cup {r}]
  /\ \E t \in 0..now, c \in Caps :
       /\ Room(s, t, c)
       /\ log' = [log EXCEPT ![s] = Append(@, [at |-> t, caps |-> c])]
  /\ UNCHANGED now

Leave(r, s) ==
  /\ r \in holders[s]
  /\ holders' = [holders EXCEPT ![s] = @ \ {r}]
  /\ UNCHANGED <<now, log>>

Tick ==
  /\ now' = now + 1
  /\ UNCHANGED <<holders, log>>

Next ==
  \/ \E r \in Requests, s \in Slots : Admit(r, s) \/ Leave(r, s)
  \/ Tick

Spec == Init /\ [][Next]_vars
=============================================================================
