----------------------------- MODULE SlotLimiter -----------------------------
(***************************************************************************)
(* The per-exit rate limiter of internal/app/ratelimit.go.                 *)
(*                                                                         *)
(* An exit (a proxy of the pool, or the host's own address) has one        *)
(* ipSlot: the number of requests in flight and two sliding windows of     *)
(* admission times.  trySlotAcquire runs under the slot's mutex, but it    *)
(* re-reads the runtime configuration (rtCfg) twice for every limit, and   *)
(* an administrator may save new limits between two of those reads.        *)
(*                                                                         *)
(* A request calls trySlotAcquire, is refused or holds the slot, and       *)
(* releases it when its handler returns (defer releaseSlot).               *)
(***************************************************************************)
EXTENDS Integers, Sequences, FiniteSets

CONSTANTS
  Requests,    \* concurrent request handlers
  Slots,       \* exits: proxy ids, 0 being the direct connection
  Limits,      \* the limit settings an administrator may save
  Minute,      \* width of the rpm window in seconds (60 in the code)
  Hour,        \* width of the rph window in seconds (3600 in the code)
  MaxTime,     \* bound on the clock
  MaxGrants,   \* bound on the admissions of one slot
  NoOne        \* no request

Kinds == {"concurrent", "rpm", "rph"}
Windowed == {"rpm", "rph"}
Order == <<"concurrent", "rpm", "rph">>
Width(k) == IF k = "rpm" THEN Minute ELSE Hour

ASSUME RequestsAssumption == IsFiniteSet(Requests) /\ NoOne \notin Requests
ASSUME LimitsAssumption == Limits \subseteq [Kinds -> Nat]
ASSUME WidthAssumption == Minute \in Nat /\ Hour \in Nat

VARIABLES
  now,       \* time.Now().Unix()
  limits,    \* PerIPConcurrent, PerIPRPM and PerIPRPH of rtVal; 0 = no limit
  inflight,  \* ipSlot.inflight
  win,       \* ipSlot.minuteWin and ipSlot.hourWin
  mutex,     \* holder of ipSlot.mu while trySlotAcquire runs
  pc,        \* where each request stands
  slot,      \* the slot it asked for
  phase,     \* the limit its call examines next, an index of Order
  at,        \* the time its call read under the mutex
  caps,      \* the limits it compared with, 0 where the limit was off
  grants     \* history: every admission of a slot, in order

vars == <<now, limits, inflight, win, mutex, pc, slot, phase, at, caps, grants>>
caller == <<slot, phase, at, caps>>

NoCaps == [k \in Kinds |-> 0]

Holders(s) == {r \in Requests : pc[r] = "held" /\ slot[r] = s}
Callers(s) == {r \in Requests : pc[r] # "idle" /\ pc[r] # "held" /\ slot[r] = s}

(* What limit k bounds: the requests in flight or the length of a window.  *)
Used(s, k) == IF k = "concurrent" THEN inflight[s] ELSE Len(win[s][k])

(* pruneTimestamps drops the leading timestamps older than the cutoff.     *)
(* The deviation takes the boundary timestamp too.                         *)
ExpiredAtCutoff(ts, cutoff) == {i \in DOMAIN ts : \A j \in 1..i : ts[j] <= cutoff}
Expired(ts, cutoff) == {i \in DOMAIN ts : \A j \in 1..i : ts[j] < cutoff}
Prune(ts, cutoff) == SubSeq(ts, Cardinality(Expired(ts, cutoff)) + 1, Len(ts))

Pruned(s) == [k \in Windowed |-> Prune(win[s][k], now - Width(k))]

Init ==
  /\ now = 0
  /\ limits \in Limits
  /\ inflight = [s \in Slots |-> 0]
  /\ win = [s \in Slots |-> [k \in Windowed |-> <<>>]]
  /\ mutex = [s \in Slots |-> NoOne]
  /\ pc = [r \in Requests |-> "idle"]
  /\ slot \in [Requests -> Slots]
  /\ phase = [r \in Requests |-> 1]
  /\ at = [r \in Requests |-> 0]
  /\ caps = [r \in Requests |-> NoCaps]
  /\ grants = [s \in Slots |-> <<>>]

(* A request handler calls trySlotAcquire(s).                              *)
Call(r, s) ==
  /\ pc[r] = "idle"
  /\ Len(grants[s]) + Cardinality(Callers(s)) < MaxGrants
  /\ pc' = [pc EXCEPT ![r] = "waiting"]
  /\ slot' = [slot EXCEPT ![r] = s]
  /\ UNCHANGED <<now, limits, inflight, win, mutex, phase, at, caps, grants>>

(* It gets the mutex, reads the clock and prunes both windows.             *)
Enter(r) ==
  LET s == slot[r] IN
  /\ pc[r] = "waiting"
  /\ mutex[s] = NoOne
  /\ mutex' = [mutex EXCEPT ![s] = r]
  /\ at' = [at EXCEPT ![r] = now]
  /\ win' = [win EXCEPT ![s] = Pruned(s)]
  /\ pc' = [pc EXCEPT ![r] = "switch"]
  /\ UNCHANGED <<now, limits, inflight, slot, phase, caps, grants>>

(* The limit of the current phase is settled: on to the next, or admit.    *)
Pass(r) ==
  /\ phase' = [phase EXCEPT ![r] = @ + 1]
  /\ pc' = [pc EXCEPT ![r] = IF phase[r] = Len(Order) THEN "admit" ELSE "switch"]

(* First read of the configuration: is this limit on at all?               *)
ReadSwitch(r) ==
  LET k == Order[phase[r]] IN
  /\ pc[r] = "switch"
  /\ \/ /\ limits[k] > 0
        /\ pc' = [pc EXCEPT ![r] = "compare"]
        /\ UNCHANGED phase
     \/ /\ limits[k] = 0
        /\ Pass(r)
  /\ UNCHANGED <<now, limits, inflight, win, mutex, slot, at, caps, grants>>

(* Deviation: compares with > instead of >=.                               *)
WithinOrAt(r) ==
  LET k == Order[phase[r]] IN
  /\ pc[r] = "compare"
  /\ Used(slot[r], k) <= limits[k]
  /\ caps' = [caps EXCEPT ![r][k] = limits[k]]
  /\ Pass(r)
  /\ UNCHANGED <<now, limits, inflight, win, mutex, slot, at, grants>>

(* Second read: the value the usage is compared with.                      *)
Within(r) ==
  LET k == Order[phase[r]] IN
  /\ pc[r] = "compare"
  /\ Used(slot[r], k) < limits[k]
  /\ caps' = [caps EXCEPT ![r][k] = limits[k]]
  /\ Pass(r)
  /\ UNCHANGED <<now, limits, inflight, win, mutex, slot, at, grants>>

(* Deviation: the caller's defer releases a slot it was refused.           *)
RefuseReleasing(r) ==
  LET k == Order[phase[r]] IN
  /\ pc[r] = "compare"
  /\ Used(slot[r], k) >= limits[k]
  /\ inflight' = [inflight EXCEPT ![slot[r]] = IF @ > 0 THEN @ - 1 ELSE @]
  /\ mutex' = [mutex EXCEPT ![slot[r]] = NoOne]
  /\ pc' = [pc EXCEPT ![r] = "idle"]
  /\ phase' = [phase EXCEPT ![r] = 1]
  /\ at' = [at EXCEPT ![r] = 0]
  /\ caps' = [caps EXCEPT ![r] = NoCaps]
  /\ UNCHANGED <<now, limits, win, slot, grants>>

(* return false, reason: the mutex is released, nothing was counted.       *)
Refuse(r) ==
  LET k == Order[phase[r]] IN
  /\ pc[r] = "compare"
  /\ Used(slot[r], k) >= limits[k]
  /\ mutex' = [mutex EXCEPT ![slot[r]] = NoOne]
  /\ pc' = [pc EXCEPT ![r] = "idle"]
  /\ phase' = [phase EXCEPT ![r] = 1]
  /\ at' = [at EXCEPT ![r] = 0]
  /\ caps' = [caps EXCEPT ![r] = NoCaps]
  /\ UNCHANGED <<now, limits, inflight, win, slot, grants>>

(* return true: one more in flight, the time entered in both windows.      *)
Admit(r) ==
  LET s == slot[r] IN
  /\ pc[r] = "admit"
  /\ inflight' = [inflight EXCEPT ![s] = @ + 1]
  /\ win' = [win EXCEPT ![s] = [k \in Windowed |-> Append(win[s][k], at[r])]]
  /\ grants' = [grants EXCEPT ![s] = Append(@, [at |-> at[r], caps |-> caps[r]])]
  /\ mutex' = [mutex EXCEPT ![s] = NoOne]
  /\ pc' = [pc EXCEPT ![r] = "held"]
  /\ phase' = [phase EXCEPT ![r] = 1]
  /\ at' = [at EXCEPT ![r] = 0]
  /\ UNCHANGED <<now, limits, slot, caps>>

(* Deviation: counts down without looking whether anything is in flight,   *)
(* twice.                                                                  *)
ReleaseFully(r) ==
  LET s == slot[r] IN
  /\ pc[r] = "held"
  /\ mutex[s] = NoOne
  /\ inflight' = [inflight EXCEPT ![s] = @ - 2]
  /\ pc' = [pc EXCEPT ![r] = "idle"]
  /\ caps' = [caps EXCEPT ![r] = NoCaps]
  /\ UNCHANGED <<now, limits, win, mutex, slot, phase, at, grants>>

(* slotRelease, from the handler's defer: the windows keep their entries.  *)
Release(r) ==
  LET s == slot[r] IN
  /\ pc[r] = "held"
  /\ mutex[s] = NoOne
  /\ inflight' = [inflight EXCEPT ![s] = IF @ > 0 THEN @ - 1 ELSE @]
  /\ pc' = [pc EXCEPT ![r] = "idle"]
  /\ caps' = [caps EXCEPT ![r] = NoCaps]
  /\ UNCHANGED <<now, limits, win, mutex, slot, phase, at, grants>>

(* slotUsage, for the admin panel, prunes the windows it reports.          *)
Usage(s) ==
  /\ mutex[s] = NoOne
  /\ win' = [win EXCEPT ![s] = Pruned(s)]
  /\ UNCHANGED <<now, limits, inflight, mutex, pc, caller, grants>>

(* saveRuntimeConfig: the new limits are in force at once.                 *)
SaveLimits(l) ==
  /\ limits' = l
  /\ UNCHANGED <<now, inflight, win, mutex, pc, caller, grants>>

Tick ==
  /\ now < MaxTime
  /\ now' = now + 1
  /\ UNCHANGED <<limits, inflight, win, mutex, pc, caller, grants>>

Step(r) ==
  \/ \E s \in Slots : Call(r, s)
  \/ Enter(r) \/ ReadSwitch(r) \/ Within(r) \/ Refuse(r) \/ Admit(r)
  \/ Release(r)

Next ==
  \/ \E r \in Requests : Step(r)
  \/ \E s \in Slots : Usage(s)
  \/ \E l \in Limits : SaveLimits(l)
  \/ Tick

Spec == Init /\ [][Next]_vars

(* A goroutine inside trySlotAcquire is scheduled, and sync.Mutex hands    *)
(* the lock to a waiter that has starved for a millisecond: weak fairness  *)
(* for the steps inside, strong fairness for getting in.  Nothing obliges  *)
(* a handler to call, or the upstream to let one return.                   *)
Fairness ==
  \A r \in Requests :
    /\ SF_vars(Enter(r))
    /\ WF_vars(ReadSwitch(r) \/ Within(r) \/ Refuse(r) \/ Admit(r))

FairSpec == Spec /\ Fairness

(* The limiter seen from outside: who is in, and who was let in when.      *)
Quota == INSTANCE ExitQuota
           WITH holders <- [s \in Slots |-> Holders(s)], log <- grants

-----------------------------------------------------------------------------

(* The promise of ExitQuota: every admission leaves the full history of    *)
(* its exit within caps that were configured when they were read.          *)
ImplementsQuota == Quota!Spec

Grant == [at : Nat, caps : [Kinds -> Nat]]

TypeOK ==
  /\ now \in Nat
  /\ limits \in [Kinds -> Nat]
  /\ inflight \in [Slots -> Nat]
  /\ win \in [Slots -> [Windowed -> Seq(Nat)]]
  /\ mutex \in [Slots -> Requests \cup {NoOne}]
  /\ pc \in [Requests -> {"idle", "waiting", "switch", "compare", "admit", "held"}]
  /\ slot \in [Requests -> Slots]
  /\ phase \in [Requests -> 1..4]
  /\ at \in [Requests -> Nat]
  /\ caps \in [Requests -> [Kinds -> Nat]]
  /\ grants \in [Slots -> Seq(Grant)]

(* The counter of a slot is the number of requests that hold it: no        *)
(* refusal, release or saved limit makes it leak or drop a holder.         *)
InflightIsHolders ==
  \A s \in Slots : inflight[s] = Cardinality(Holders(s))

(* The requests that share an exit are at most as many as the cap under    *)
(* which one of them was let in: lowering the limit lets earlier holders   *)
(* finish, it never lets a later one in above it.                          *)
ConcurrencyRespected ==
  \A s \in Slots :
    Holders(s) # {} =>
      \E r \in Holders(s) :
        LET cap == caps[r]["concurrent"] IN
        cap = 0 \/ Cardinality(Holders(s)) <= cap

(* No window of Width(k) seconds, both ends included, holds more           *)
(* admissions of one exit than the cap its last admission was checked      *)
(* against, although the code only keeps the pruned tail of the history.   *)
WindowsRespected ==
  \A s \in Slots, k \in Windowed :
    \A j \in 1..Len(grants[s]) :
      LET cap == grants[s][j].caps[k]
          i   == j - cap
      IN (cap > 0 /\ i >= 1) => grants[s][j].at - grants[s][i].at > Width(k)

(* What the admin panel says of these limits: 0 means no limit.  A call    *)
(* is refused only by a limit that is set.                                 *)
ZeroMeansUnlimited ==
  [][\A r \in Requests : Refuse(r) => limits[Order[phase[r]]] > 0]_vars

(* Every call of trySlotAcquire returns.                                   *)
CallReturns ==
  \A r \in Requests : pc[r] = "waiting" ~> pc[r] \in {"idle", "held"}
=============================================================================
