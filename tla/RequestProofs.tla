---------------------------- MODULE RequestProofs ----------------------------
(***************************************************************************)
(* Proofs about the two ends of a request: the limiter that admits it to   *)
(* an exit (SlotLimiter) and the stream its client is sent (ClientStream). *)
(* Neither reads what the other keeps, they are proved side by side.       *)
(***************************************************************************)
EXTENDS SlotLimiter, ClientStream, SequenceTheorems, FiniteSetTheorems,
        WellFoundedInduction, TLAPS

(***************************************************************************)
(* SlotLimiter, for every set of requests, exits and limits                *)
(***************************************************************************)

Inside(r) == pc[r] \in {"switch", "compare", "admit"}

(* The caller inside trySlotAcquire(s) owns the mutex of s.                *)
MutexInv == \A r \in Requests : Inside(r) => mutex[slot[r]] = r

PhaseInv ==
  \A r \in Requests :
    /\ pc[r] \in {"switch", "compare"} => phase[r] \in 1..3
    /\ pc[r] = "admit" => phase[r] = 4
    /\ ~Inside(r) => phase[r] = 1

(* Limits examined so far are still respected while the mutex is held.     *)
CapOf(r) ==
  /\ pc[r] # "held" => \A i \in phase[r]..3 : caps[r][Order[i]] = 0
  /\ Inside(r) =>
       /\ at[r] <= now
       /\ \A i \in 1..(phase[r] - 1) :
            /\ caps[r][Order[i]] > 0 => Used(slot[r], Order[i]) < caps[r][Order[i]]
            /\ \E l \in Limits : caps[r][Order[i]] = l[Order[i]]

CapInv == \A r \in Requests : CapOf(r)

(* A window is the history without a prefix that is too old to matter.     *)
Dropped(s, k) == Len(grants[s]) - Len(win[s][k])

WindowOf(s, k) ==
  /\ Dropped(s, k) >= 0
  /\ \A i \in 1..Len(win[s][k]) : win[s][k][i] = grants[s][Dropped(s, k) + i].at
  /\ \A i \in 1..Dropped(s, k) : grants[s][i].at < now - Width(k)
  /\ \A r \in Requests :
       Inside(r) /\ slot[r] = s =>
         \A i \in 1..Dropped(s, k) : grants[s][i].at < at[r] - Width(k)

WindowInv == \A s \in Slots, k \in Windowed : WindowOf(s, k)

-----------------------------------------------------------------------------

LEMMA KindFacts ==
  /\ Windowed \subseteq Kinds
  /\ \A k \in Windowed : Width(k) \in Nat /\ k # "concurrent"
  /\ \A i \in 1..3 : Order[i] \in Kinds
  /\ \A k \in Kinds : \E i \in 1..3 : Order[i] = k
  /\ \A i, j \in 1..3 : Order[i] = Order[j] => i = j
  /\ Len(Order) = 3
<1>1. Order[1] = "concurrent" /\ Order[2] = "rpm" /\ Order[3] = "rph"
  BY DEF Order
<1>2. \A i \in 1..3 : i = 1 \/ i = 2 \/ i = 3
  OBVIOUS
<1>3. \A k \in Kinds : \E i \in 1..3 : Order[i] = k
  <2> SUFFICES ASSUME NEW k \in Kinds PROVE \E i \in 1..3 : Order[i] = k
    OBVIOUS
  <2>1. 1 \in 1..3 /\ 2 \in 1..3 /\ 3 \in 1..3
    OBVIOUS
  <2> QED BY <1>1, <2>1 DEF Kinds
<1>4. \A i, j \in 1..3 : Order[i] = Order[j] => i = j
  BY <1>1, <1>2
<1>5. \A i \in 1..3 : Order[i] \in Kinds
  BY <1>1, <1>2 DEF Kinds
<1>6. Len(Order) = 3
  BY DEF Order
<1> QED
  BY <1>3, <1>4, <1>5, <1>6, WidthAssumption DEF Windowed, Kinds, Width

(* What is left of a sequence without its first d elements.                *)
LEMMA SuffixOfSeq ==
  ASSUME NEW ts \in Seq(Nat), NEW d \in 0..Len(ts)
  PROVE  LET rest == SubSeq(ts, d + 1, Len(ts)) IN
         /\ rest \in Seq(Nat)
         /\ Len(rest) = Len(ts) - d
         /\ \A i \in 1..(Len(ts) - d) : rest[i] = ts[i + d]
<1> DEFINE n == Len(ts)
           m == d + 1
           rest == SubSeq(ts, m, n)
<1>1. n \in Nat /\ m \in Int /\ n \in Int
  BY LenProperties
<1>2. \A i \in m..n : ts[i] \in Nat
  BY <1>1, ElementOfSeq
<1>3. /\ rest \in Seq(Nat)
      /\ Len(rest) = IF m <= n THEN n - m + 1 ELSE 0
      /\ \A i \in 1..(n - m + 1) : rest[i] = ts[m + i - 1]
  <2> HIDE DEF m, n
  <2> QED BY <1>1, <1>2, SubSeqProperties
<1>4. Len(rest) = n - d
  BY <1>1, <1>3
<1>5. n - m + 1 = n - d /\ \A i \in 1..(n - d) : m + i - 1 = i + d
  BY <1>1
<1>6. \A i \in 1..(n - d) : rest[i] = ts[i + d]
  <2> HIDE DEF m, rest
  <2> QED BY <1>3, <1>5
<1> QED
  BY <1>3, <1>4, <1>6

(* pruneTimestamps removes a prefix of timestamps older than the cutoff.   *)
LEMMA PruneDropsPrefix ==
  ASSUME NEW ts \in Seq(Nat), NEW c \in Int
  PROVE  \E d \in 0..Len(ts) :
           /\ Prune(ts, c) \in Seq(Nat)
           /\ Len(Prune(ts, c)) = Len(ts) - d
           /\ \A i \in 1..(Len(ts) - d) : Prune(ts, c)[i] = ts[i + d]
           /\ \A i \in 1..d : ts[i] < c
<1> DEFINE n == Len(ts)
           E == Expired(ts, c)
           d == Cardinality(E)
<1>1. n \in Nat /\ DOMAIN ts = 1..n /\ \A i \in 1..n : ts[i] \in Nat
  BY LenProperties, ElementOfSeq
<1>2. E \subseteq 1..n /\ IsFiniteSet(1..n) /\ Cardinality(1..n) = n
  BY <1>1, FS_Interval, SMTT(30) DEF Expired
<1>3. IsFiniteSet(E) /\ d \in Nat /\ d <= n
  BY <1>1, <1>2, FS_Subset, FS_CardinalityType
<1>4. \A i \in E : 1..i \subseteq E
  BY <1>1 DEF Expired
<1>5. \A i \in E : i <= d
  <2> SUFFICES ASSUME NEW i \in E PROVE i <= d
    OBVIOUS
  <2>1. i \in Nat /\ 1 \in Int /\ i >= 1
    BY <1>1, <1>2
  <2>3. Cardinality(1..i) = i
    <3>1. Cardinality(1..i) = IF 1 > i THEN 0 ELSE i - 1 + 1
      BY <2>1, FS_Interval
    <3> QED BY <2>1, <3>1
  <2>2. Cardinality(1..i) <= d
    BY <1>3, <1>4, FS_Subset
  <2> QED BY <2>1, <2>2, <2>3
<1>6. E \subseteq 1..d
  BY <1>2, <1>3, <1>5
<1>7. E = 1..d
  <2>1. IsFiniteSet(1..d) /\ Cardinality(1..d) = d
    BY <1>3, FS_Interval
  <2> QED BY <2>1, <1>6, FS_Subset
<1>8. \A i \in 1..d : ts[i] < c
  BY <1>1, <1>3, <1>7 DEF Expired
<1>9. Prune(ts, c) = SubSeq(ts, d + 1, n)
  BY DEF Prune
<1>10. d \in 0..n
  BY <1>1, <1>3
<1>11. /\ SubSeq(ts, d + 1, n) \in Seq(Nat)
       /\ Len(SubSeq(ts, d + 1, n)) = n - d
       /\ \A i \in 1..(n - d) : SubSeq(ts, d + 1, n)[i] = ts[i + d]
  <2> HIDE DEF d
  <2> QED BY <1>10, SuffixOfSeq
<1>12. /\ Prune(ts, c) \in Seq(Nat)
       /\ Len(Prune(ts, c)) = n - d
       /\ \A i \in 1..(n - d) : Prune(ts, c)[i] = ts[i + d]
       /\ \A i \in 1..d : ts[i] < c
  BY <1>8, <1>9, <1>11
<1> HIDE DEF n, d
<1> QED
  BY <1>10, <1>12 DEF n

(* The same for both windows of a slot, as Enter and Usage prune them.     *)
LEMMA PrunedWindows ==
  ASSUME TypeOK, NEW s \in Slots
  PROVE  /\ Pruned(s) \in [Windowed -> Seq(Nat)]
         /\ \A k \in Windowed : \E d \in 0..Len(win[s][k]) :
              /\ Len(Pruned(s)[k]) = Len(win[s][k]) - d
              /\ \A i \in 1..(Len(win[s][k]) - d) : Pruned(s)[k][i] = win[s][k][i + d]
              /\ \A i \in 1..d : win[s][k][i] < now - Width(k)
<1> SUFFICES ASSUME NEW k \in Windowed
             PROVE  /\ Pruned(s)[k] \in Seq(Nat)
                    /\ \E d \in 0..Len(win[s][k]) :
                         /\ Len(Pruned(s)[k]) = Len(win[s][k]) - d
                         /\ \A i \in 1..(Len(win[s][k]) - d) :
                              Pruned(s)[k][i] = win[s][k][i + d]
                         /\ \A i \in 1..d : win[s][k][i] < now - Width(k)
  BY DEF Pruned
<1>1. win[s][k] \in Seq(Nat) /\ now - Width(k) \in Int
  BY KindFacts DEF TypeOK
<1>2. Pruned(s)[k] = Prune(win[s][k], now - Width(k))
  BY DEF Pruned
<1> DEFINE ts == win[s][k]
           c == now - Width(k)
<1>3. ts \in Seq(Nat) /\ c \in Int /\ Pruned(s)[k] = Prune(ts, c)
  BY <1>1, <1>2
<1> SUFFICES /\ Prune(ts, c) \in Seq(Nat)
             /\ \E d \in 0..Len(ts) :
                  /\ Len(Prune(ts, c)) = Len(ts) - d
                  /\ \A i \in 1..(Len(ts) - d) : Prune(ts, c)[i] = ts[i + d]
                  /\ \A i \in 1..d : ts[i] < c
  BY <1>3
<1> HIDE DEF ts, c
<1>4. \E d \in 0..Len(ts) :
        /\ Prune(ts, c) \in Seq(Nat)
        /\ Len(Prune(ts, c)) = Len(ts) - d
        /\ \A i \in 1..(Len(ts) - d) : Prune(ts, c)[i] = ts[i + d]
        /\ \A i \in 1..d : ts[i] < c
  BY <1>3, PruneDropsPrefix
<1> QED
  BY <1>4

-----------------------------------------------------------------------------

LEMMA TypeInit == Init => TypeOK /\ PhaseInv
<1> SUFFICES ASSUME Init PROVE TypeOK /\ PhaseInv
  OBVIOUS
<1>1. limits \in [Kinds -> Nat]
  BY LimitsAssumption DEF Init
<1>2. win \in [Slots -> [Windowed -> Seq(Nat)]]
  <2>1. [k \in Windowed |-> <<>>] \in [Windowed -> Seq(Nat)]
    BY EmptySeq
  <2> QED BY <2>1 DEF Init
<1>3. grants \in [Slots -> Seq(Grant)]
  BY EmptySeq DEF Init
<1>4. caps \in [Requests -> [Kinds -> Nat]]
  BY DEF Init, NoCaps
<1>5. TypeOK
  BY <1>1, <1>2, <1>3, <1>4 DEF Init, TypeOK
<1>6. PhaseInv
  BY DEF Init, PhaseInv, Inside
<1> QED BY <1>5, <1>6

LEMMA TypeStep == TypeOK /\ PhaseInv /\ [Next]_vars => TypeOK' /\ PhaseInv'
<1> SUFFICES ASSUME TypeOK, PhaseInv, [Next]_vars PROVE TypeOK' /\ PhaseInv'
  OBVIOUS
<1>1. ASSUME NEW r \in Requests, NEW s \in Slots, Call(r, s)
      PROVE  TypeOK' /\ PhaseInv'
  BY <1>1 DEF Call, TypeOK, PhaseInv, Inside
<1>2. ASSUME NEW r \in Requests, Enter(r) PROVE TypeOK' /\ PhaseInv'
  <2>1. slot[r] \in Slots /\ Pruned(slot[r]) \in [Windowed -> Seq(Nat)]
    BY PrunedWindows DEF TypeOK
  <2> QED BY <1>2, <2>1 DEF Enter, TypeOK, PhaseInv, Inside
<1>3. ASSUME NEW r \in Requests, ReadSwitch(r) PROVE TypeOK' /\ PhaseInv'
  <2>1. pc[r] = "switch" /\ phase[r] \in 1..3 /\ Len(Order) = 3
    BY <1>3, KindFacts DEF ReadSwitch, PhaseInv
  <2>2. CASE UNCHANGED phase /\ pc' = [pc EXCEPT ![r] = "compare"]
    BY <1>3, <2>1, <2>2 DEF ReadSwitch, TypeOK, PhaseInv, Inside
  <2>3. CASE Pass(r)
    BY <1>3, <2>1, <2>3 DEF ReadSwitch, Pass, TypeOK, PhaseInv, Inside
  <2> QED BY <1>3, <2>2, <2>3 DEF ReadSwitch
<1>4. ASSUME NEW r \in Requests, Within(r) PROVE TypeOK' /\ PhaseInv'
  <2>1. pc[r] = "compare" /\ phase[r] \in 1..3 /\ Len(Order) = 3
    BY <1>4, KindFacts DEF Within, PhaseInv
  <2>2. Order[phase[r]] \in Kinds /\ limits[Order[phase[r]]] \in Nat
    BY <2>1, KindFacts DEF TypeOK
  <2>3. caps' \in [Requests -> [Kinds -> Nat]]
    <3> DEFINE k == Order[phase[r]]
    <3>1. caps' = [caps EXCEPT ![r][k] = limits[k]]
      BY <1>4 DEF Within
    <3>2. k \in Kinds /\ limits[k] \in Nat
      BY <2>2
    <3> HIDE DEF k
    <3> QED BY <3>1, <3>2 DEF TypeOK
  <2>4. Pass(r) /\ UNCHANGED <<now, limits, inflight, win, mutex, slot, at, grants>>
    BY <1>4 DEF Within
  <2> QED BY <2>1, <2>3, <2>4 DEF Pass, TypeOK, PhaseInv, Inside
<1>5. ASSUME NEW r \in Requests, Refuse(r) PROVE TypeOK' /\ PhaseInv'
  BY <1>5 DEF Refuse, TypeOK, PhaseInv, Inside, NoCaps
<1>6. ASSUME NEW r \in Requests, Admit(r) PROVE TypeOK' /\ PhaseInv'
  <2> DEFINE s == slot[r]
             g == [at |-> at[r], caps |-> caps[r]]
             w == [k \in Windowed |-> Append(win[s][k], at[r])]
  <2>1. s \in Slots /\ at[r] \in Nat /\ g \in Grant
    BY DEF TypeOK, Grant
  <2>2. grants' \in [Slots -> Seq(Grant)]
    <3>1. grants' = [grants EXCEPT ![s] = Append(grants[s], g)]
      BY <1>6 DEF Admit
    <3>2. grants[s] \in Seq(Grant)
      BY <2>1 DEF TypeOK
    <3>3. Append(grants[s], g) \in Seq(Grant)
      BY <2>1, <3>2, AppendProperties
    <3> HIDE DEF s, g
    <3> QED BY <2>1, <3>1, <3>3 DEF TypeOK
  <2>3. win' \in [Slots -> [Windowed -> Seq(Nat)]]
    <3>1. \A k \in Windowed : win[s][k] \in Seq(Nat)
      BY <2>1 DEF TypeOK
    <3>2. w \in [Windowed -> Seq(Nat)]
      BY <2>1, <3>1, AppendProperties
    <3>3. win' = [win EXCEPT ![s] = w]
      BY <1>6 DEF Admit
    <3> HIDE DEF s, w
    <3> QED BY <2>1, <3>2, <3>3 DEF TypeOK
  <2> HIDE DEF g, w
  <2> QED BY <1>6, <2>1, <2>2, <2>3 DEF Admit, TypeOK, PhaseInv, Inside
<1>7. ASSUME NEW r \in Requests, Release(r) PROVE TypeOK' /\ PhaseInv'
  BY <1>7 DEF Release, TypeOK, PhaseInv, Inside, NoCaps
<1>8. ASSUME NEW s \in Slots, Usage(s) PROVE TypeOK' /\ PhaseInv'
  <2>1. Pruned(s) \in [Windowed -> Seq(Nat)]
    BY PrunedWindows
  <2> QED BY <1>8, <2>1 DEF Usage, caller, TypeOK, PhaseInv, Inside
<1>9. ASSUME NEW l \in Limits, SaveLimits(l) PROVE TypeOK' /\ PhaseInv'
  BY <1>9, LimitsAssumption DEF SaveLimits, caller, TypeOK, PhaseInv, Inside
<1>10. CASE Tick
  BY <1>10 DEF Tick, caller, TypeOK, PhaseInv, Inside
<1>11. CASE UNCHANGED vars
  BY <1>11 DEF vars, TypeOK, PhaseInv, Inside
<1> QED
  BY <1>1, <1>2, <1>3, <1>4, <1>5, <1>6, <1>7, <1>8, <1>9, <1>10, <1>11
  DEF Next, Step

(* Type correctness, together with where the phases stand.                 *)
THEOREM TypeCorrect == Spec => []TypeOK
<1>1. TypeOK /\ PhaseInv /\ [Next]_vars => (TypeOK /\ PhaseInv)'
  BY TypeStep
<1>2. Spec => [](TypeOK /\ PhaseInv)
  BY TypeInit, <1>1, PTL DEF Spec
<1> QED
  BY <1>2, PTL

-----------------------------------------------------------------------------

(* InflightIsHolders counts; Holders changes by at most one element.       *)
LEMMA HoldersFinite ==
  ASSUME NEW s \in Slots
  PROVE  IsFiniteSet(Holders(s)) /\ Cardinality(Holders(s)) \in Nat
<1>1. Holders(s) \subseteq Requests
  BY DEF Holders
<1> QED
  BY <1>1, RequestsAssumption, FS_Subset, FS_CardinalityType

LEMMA HoldersEnter ==
  ASSUME NEW r \in Requests, TypeOK, pc[r] # "held",
         pc' = [pc EXCEPT ![r] = "held"], UNCHANGED slot
  PROVE  /\ Holders(slot[r])' = Holders(slot[r]) \cup {r}
         /\ r \notin Holders(slot[r])
         /\ Cardinality(Holders(slot[r])') = Cardinality(Holders(slot[r])) + 1
         /\ \A s \in Slots : s # slot[r] => Holders(s)' = Holders(s)
<1>1. /\ Holders(slot[r])' = Holders(slot[r]) \cup {r}
      /\ r \notin Holders(slot[r])
      /\ \A s \in Slots : s # slot[r] => Holders(s)' = Holders(s)
  BY DEF Holders, TypeOK
<1>2. slot[r] \in Slots
  BY DEF TypeOK
<1> QED
  BY <1>1, <1>2, HoldersFinite, FS_AddElement

LEMMA HoldersLeave ==
  ASSUME NEW r \in Requests, TypeOK, pc[r] = "held",
         pc' = [pc EXCEPT ![r] = "idle"], UNCHANGED slot
  PROVE  /\ Holders(slot[r])' = Holders(slot[r]) \ {r}
         /\ r \in Holders(slot[r])
         /\ Cardinality(Holders(slot[r])') = Cardinality(Holders(slot[r])) - 1
         /\ \A s \in Slots : s # slot[r] => Holders(s)' = Holders(s)
<1>1. /\ Holders(slot[r])' = Holders(slot[r]) \ {r}
      /\ r \in Holders(slot[r])
      /\ \A s \in Slots : s # slot[r] => Holders(s)' = Holders(s)
  BY DEF Holders, TypeOK
<1>2. slot[r] \in Slots
  BY DEF TypeOK
<1> QED
  BY <1>1, <1>2, HoldersFinite, FS_RemoveElement

(* No step but Admit and Release moves a request in or out of "held".      *)
LEMMA HoldersSame ==
  ASSUME TypeOK, [Next]_vars,
         \A r \in Requests : ~Admit(r) /\ ~Release(r)
  PROVE  \A s \in Slots : Holders(s)' = Holders(s) /\ inflight'[s] = inflight[s]
<1> USE DEF Holders, TypeOK
<1>1. ASSUME NEW r \in Requests, NEW s \in Slots, Call(r, s)
      PROVE  \A q \in Slots : Holders(q)' = Holders(q) /\ inflight'[q] = inflight[q]
  BY <1>1 DEF Call
<1>2. ASSUME NEW r \in Requests, Enter(r)
      PROVE  \A q \in Slots : Holders(q)' = Holders(q) /\ inflight'[q] = inflight[q]
  BY <1>2 DEF Enter
<1>3. ASSUME NEW r \in Requests, ReadSwitch(r)
      PROVE  \A q \in Slots : Holders(q)' = Holders(q) /\ inflight'[q] = inflight[q]
  BY <1>3 DEF ReadSwitch, Pass
<1>4. ASSUME NEW r \in Requests, Within(r)
      PROVE  \A q \in Slots : Holders(q)' = Holders(q) /\ inflight'[q] = inflight[q]
  BY <1>4 DEF Within, Pass
<1>5. ASSUME NEW r \in Requests, Refuse(r)
      PROVE  \A q \in Slots : Holders(q)' = Holders(q) /\ inflight'[q] = inflight[q]
  BY <1>5 DEF Refuse
<1>6. ASSUME NEW s \in Slots, Usage(s)
      PROVE  \A q \in Slots : Holders(q)' = Holders(q) /\ inflight'[q] = inflight[q]
  BY <1>6 DEF Usage, caller
<1>7. CASE (\E l \in Limits : SaveLimits(l)) \/ Tick \/ UNCHANGED vars
  BY <1>7 DEF SaveLimits, Tick, caller, vars
<1> QED
  BY <1>1, <1>2, <1>3, <1>4, <1>5, <1>6, <1>7 DEF Next, Step

LEMMA InflightStep ==
  TypeOK /\ InflightIsHolders /\ [Next]_vars => InflightIsHolders'
<1> SUFFICES ASSUME TypeOK, InflightIsHolders, [Next]_vars
             PROVE  InflightIsHolders'
  OBVIOUS
<1>1. CASE \E r \in Requests : Admit(r)
  <2> PICK r \in Requests : Admit(r)
    BY <1>1
  <2>1. /\ pc[r] = "admit" /\ pc' = [pc EXCEPT ![r] = "held"] /\ UNCHANGED slot
        /\ inflight' = [inflight EXCEPT ![slot[r]] = @ + 1]
    BY DEF Admit
  <2>2. /\ Cardinality(Holders(slot[r])') = Cardinality(Holders(slot[r])) + 1
        /\ \A s \in Slots : s # slot[r] => Holders(s)' = Holders(s)
    BY <2>1, HoldersEnter
  <2> QED BY <2>1, <2>2 DEF InflightIsHolders, TypeOK
<1>2. CASE \E r \in Requests : Release(r)
  <2> PICK r \in Requests : Release(r)
    BY <1>2
  <2>1. /\ pc[r] = "held" /\ pc' = [pc EXCEPT ![r] = "idle"] /\ UNCHANGED slot
        /\ inflight' = [inflight EXCEPT ![slot[r]] = IF @ > 0 THEN @ - 1 ELSE @]
    BY DEF Release
  <2>2. /\ Cardinality(Holders(slot[r])') = Cardinality(Holders(slot[r])) - 1
        /\ r \in Holders(slot[r])
        /\ \A s \in Slots : s # slot[r] => Holders(s)' = Holders(s)
    BY <2>1, HoldersLeave
  <2>3. slot[r] \in Slots /\ inflight[slot[r]] > 0
    <3>1. slot[r] \in Slots
      BY DEF TypeOK
    <3>2. Cardinality(Holders(slot[r])) # 0
      BY <2>2, <3>1, HoldersFinite, FS_EmptySet
    <3> QED BY <3>1, <3>2 DEF InflightIsHolders, TypeOK
  <2> QED BY <2>1, <2>2, <2>3 DEF InflightIsHolders, TypeOK
<1>3. CASE \A r \in Requests : ~Admit(r) /\ ~Release(r)
  BY <1>3, HoldersSame DEF InflightIsHolders
<1> QED
  BY <1>1, <1>2, <1>3

(* The in-flight counter never drifts from the requests that hold the slot.*)
THEOREM InflightExact == Spec => []InflightIsHolders
<1>1. Init => InflightIsHolders
  <2> SUFFICES ASSUME Init, NEW s \in Slots
               PROVE  inflight[s] = Cardinality(Holders(s))
    BY DEF InflightIsHolders
  <2>1. Holders(s) = {}
    BY DEF Init, Holders
  <2> QED BY <2>1, FS_EmptySet DEF Init
<1>2. TypeOK /\ InflightIsHolders /\ [Next]_vars => InflightIsHolders'
  BY InflightStep
<1> QED
  BY <1>1, <1>2, TypeCorrect, PTL DEF Spec

-----------------------------------------------------------------------------

(* What holds while a call is inside: nobody else touches its slot.        *)
CoreInv ==
  TypeOK /\ PhaseInv /\ limits \in Limits /\ MutexInv /\ CapInv /\ WindowInv

LEMMA NobodyInside ==
  ASSUME TypeOK, MutexInv, NEW s \in Slots, mutex[s] = NoOne
  PROVE  \A q \in Requests : ~(Inside(q) /\ slot[q] = s)
BY RequestsAssumption DEF MutexInv, TypeOK

LEMMA AloneInside ==
  ASSUME TypeOK, MutexInv, NEW r \in Requests, Inside(r)
  PROVE  \A q \in Requests : Inside(q) /\ slot[q] = slot[r] => q = r
BY DEF MutexInv

LEMMA MutexStep == TypeOK /\ PhaseInv /\ MutexInv /\ [Next]_vars => MutexInv'
<1> SUFFICES ASSUME TypeOK, PhaseInv, MutexInv, [Next]_vars PROVE MutexInv'
  OBVIOUS
<1> USE DEF MutexInv, Inside
<1>1. ASSUME NEW r \in Requests, NEW s \in Slots, Call(r, s) PROVE MutexInv'
  BY <1>1 DEF Call, TypeOK
<1>2. ASSUME NEW r \in Requests, Enter(r) PROVE MutexInv'
  <2>1. \A q \in Requests : ~(Inside(q) /\ slot[q] = slot[r])
    BY <1>2, NobodyInside DEF Enter, TypeOK
  <2> QED BY <1>2, <2>1 DEF Enter, TypeOK
<1>3. ASSUME NEW r \in Requests, ReadSwitch(r) PROVE MutexInv'
  BY <1>3 DEF ReadSwitch, Pass, TypeOK
<1>4. ASSUME NEW r \in Requests, Within(r) PROVE MutexInv'
  BY <1>4 DEF Within, Pass, TypeOK
<1>5. ASSUME NEW r \in Requests, Refuse(r) \/ Admit(r) PROVE MutexInv'
  <2>1. \A q \in Requests : Inside(q) /\ slot[q] = slot[r] => q = r
    BY <1>5, AloneInside DEF Refuse, Admit
  <2>2. /\ pc'[r] \in {"idle", "held"}
        /\ \A q \in Requests : q # r => pc'[q] = pc[q] /\ slot'[q] = slot[q]
        /\ mutex' = [mutex EXCEPT ![slot[r]] = NoOne]
    BY <1>5 DEF Refuse, Admit, TypeOK
  <2> QED BY <2>1, <2>2 DEF TypeOK
<1>6. ASSUME NEW r \in Requests, Release(r) PROVE MutexInv'
  BY <1>6 DEF Release, TypeOK
<1>7. CASE (\E s \in Slots : Usage(s)) \/ (\E l \in Limits : SaveLimits(l)) \/ Tick
  BY <1>7 DEF Usage, SaveLimits, Tick, caller
<1>8. CASE UNCHANGED vars
  BY <1>8 DEF vars
<1> QED
  BY <1>1, <1>2, <1>3, <1>4, <1>5, <1>6, <1>7, <1>8 DEF Next, Step

(* A request whose own record and whose slot did not change keeps CapOf.   *)
Undisturbed(q) ==
  /\ pc'[q] = pc[q] /\ phase'[q] = phase[q] /\ slot'[q] = slot[q]
  /\ at'[q] = at[q] /\ caps'[q] = caps[q] /\ now' >= now
  /\ Inside(q) => inflight'[slot[q]] = inflight[slot[q]] /\ win'[slot[q]] = win[slot[q]]

LEMMA CapUndisturbed ==
  ASSUME NEW q \in Requests, TypeOK, TypeOK', CapOf(q), Undisturbed(q)
  PROVE  CapOf(q)'
<1>1. ASSUME Inside(q), NEW k PROVE Used(slot[q], k)' = Used(slot[q], k)
  BY <1>1 DEF Used, Undisturbed
<1>2. Inside(q)' = Inside(q)
  BY DEF Inside, Undisturbed
<1>3. at[q] \in Nat /\ now \in Nat /\ now' \in Nat
  BY DEF TypeOK
<1>4. ASSUME Inside(q) PROVE at'[q] <= now'
  BY <1>3, <1>4 DEF CapOf, Undisturbed
<1> QED
  BY <1>1, <1>2, <1>4 DEF CapOf, Undisturbed

LEMMA CapStep ==
  CoreInv /\ TypeOK' /\ [Next]_vars => CapInv' /\ limits' \in Limits
<1> SUFFICES ASSUME CoreInv, TypeOK', [Next]_vars
             PROVE  (\A q \in Requests : CapOf(q)') /\ limits' \in Limits
  BY DEF CapInv
<1>0. /\ TypeOK /\ PhaseInv /\ limits \in Limits /\ MutexInv
      /\ \A q \in Requests : CapOf(q)
  BY DEF CoreInv, CapInv
<1> SUFFICES (\A q \in Requests : Undisturbed(q) \/ CapOf(q)') /\ limits' \in Limits
  BY <1>0, CapUndisturbed
<1>1. ASSUME NEW r \in Requests, NEW s \in Slots, Call(r, s)
      PROVE  (\A q \in Requests : Undisturbed(q) \/ CapOf(q)') /\ limits' \in Limits
  <2>1. \A q \in Requests \ {r} : Undisturbed(q)
    BY <1>0, <1>1 DEF Call, Undisturbed, TypeOK
  <2>2. CapOf(r)'
    BY <1>0, <1>1, ZenonT(40) DEF Call, CapOf, Inside, TypeOK
  <2> QED BY <1>0, <1>1, <2>1, <2>2 DEF Call
<1>2. ASSUME NEW r \in Requests, Enter(r)
      PROVE  (\A q \in Requests : Undisturbed(q) \/ CapOf(q)') /\ limits' \in Limits
  <2>1. \A q \in Requests : ~(Inside(q) /\ slot[q] = slot[r])
    BY <1>0, <1>2, NobodyInside DEF Enter, TypeOK
  <2>2. \A q \in Requests \ {r} : Undisturbed(q)
    BY <1>0, <1>2, <2>1 DEF Enter, Undisturbed, TypeOK
  <2>3. CapOf(r)'
    <3>1. phase'[r] = 1 /\ at'[r] = now /\ now' = now /\ now \in Nat
      BY <1>0, <1>2 DEF Enter, PhaseInv, Inside, TypeOK
    <3>2. \A i \in 1..3 : caps'[r][Order[i]] = 0
      BY <1>0, <1>2, <3>1 DEF Enter, CapOf
    <3> QED BY <3>1, <3>2 DEF CapOf
  <2> QED BY <1>0, <1>2, <2>2, <2>3 DEF Enter
<1>3. ASSUME NEW r \in Requests, ReadSwitch(r)
      PROVE  (\A q \in Requests : Undisturbed(q) \/ CapOf(q)') /\ limits' \in Limits
  <2>1. \A q \in Requests \ {r} : Undisturbed(q)
    BY <1>0, <1>3 DEF ReadSwitch, Pass, Undisturbed, TypeOK
  <2>2. CapOf(r)'
    <3> DEFINE k == Order[phase[r]]
    <3>1. pc[r] = "switch" /\ phase[r] \in 1..3 /\ Inside(r)
      BY <1>0, <1>3 DEF ReadSwitch, PhaseInv, Inside
    <3>2. /\ UNCHANGED <<now, inflight, win, slot, at, caps>>
          /\ pc'[r] # "held"
          /\ \A j : Used(slot[r], j)' = Used(slot[r], j)
      BY <1>0, <1>3, <3>1 DEF ReadSwitch, Pass, Used, TypeOK
    <3>3. CASE UNCHANGED phase
      BY <1>0, <3>1, <3>2, <3>3 DEF CapOf
    <3>4. CASE limits[k] = 0 /\ Pass(r)
      <4>1. phase'[r] = phase[r] + 1
        BY <1>0, <3>4 DEF Pass, TypeOK
      <4>2. caps[r][k] = 0 /\ \E l \in Limits : caps[r][k] = l[k]
        BY <1>0, <3>1, <3>4 DEF CapOf
      <4>3. \A i \in 1..(phase'[r] - 1) : i \in 1..(phase[r] - 1) \/ i = phase[r]
        BY <3>1, <4>1
      <4>4. \A i \in phase'[r]..3 : i \in phase[r]..3
        BY <3>1, <4>1
      <4>5. \A i \in phase'[r]..3 : caps'[r][Order[i]] = 0
        BY <1>0, <3>1, <3>2, <4>4 DEF CapOf
      <4>6. \A i \in 1..(phase'[r] - 1) :
              /\ caps'[r][Order[i]] > 0 => Used(slot[r], Order[i]) < caps'[r][Order[i]]
              /\ \E l \in Limits : caps'[r][Order[i]] = l[Order[i]]
        <5>1. ASSUME NEW i \in 1..(phase[r] - 1)
              PROVE  /\ caps[r][Order[i]] > 0 => Used(slot[r], Order[i]) < caps[r][Order[i]]
                     /\ \E l \in Limits : caps[r][Order[i]] = l[Order[i]]
          BY <1>0, <3>1 DEF CapOf
        <5>2. caps' = caps /\ ~(caps[r][k] > 0)
          BY <3>2, <4>2
        <5> QED BY <4>2, <4>3, <5>1, <5>2
      <4> QED BY <1>0, <3>1, <3>2, <4>5, <4>6 DEF CapOf
    <3> QED BY <1>3, <3>3, <3>4 DEF ReadSwitch
  <2> QED BY <1>0, <1>3, <2>1, <2>2 DEF ReadSwitch
<1>4. ASSUME NEW r \in Requests, Within(r)
      PROVE  (\A q \in Requests : Undisturbed(q) \/ CapOf(q)') /\ limits' \in Limits
  <2>1. \A q \in Requests \ {r} : Undisturbed(q)
    BY <1>0, <1>4 DEF Within, Pass, Undisturbed, TypeOK
  <2>2. CapOf(r)'
    <3> DEFINE k == Order[phase[r]]
    <3>1. pc[r] = "compare" /\ phase[r] \in 1..3 /\ Inside(r) /\ k \in Kinds
      BY <1>0, <1>4, KindFacts DEF Within, PhaseInv, Inside
    <3>2. /\ UNCHANGED <<now, inflight, win, slot, at, limits>>
          /\ pc'[r] # "held"
          /\ phase'[r] = phase[r] + 1
          /\ \A j : Used(slot[r], j)' = Used(slot[r], j)
      BY <1>0, <1>4, <3>1 DEF Within, Pass, Used, TypeOK
    <3>3. caps'[r][k] = limits[k] /\ \A j \in Kinds : j # k => caps'[r][j] = caps[r][j]
      <4>1. caps' = [caps EXCEPT ![r][k] = limits[k]]
        BY <1>4 DEF Within
      <4> HIDE DEF k
      <4> QED BY <1>0, <3>1, <4>1 DEF TypeOK
    <3>4. Used(slot[r], k) < limits[k]
      BY <1>4 DEF Within
    <3>5. \A i \in 1..(phase'[r] - 1) : i = phase[r] \/ (i \in 1..(phase[r] - 1) /\ i \in 1..3 /\ i # phase[r])
      BY <3>1, <3>2
    <3>6. \A i \in phase'[r]..3 : i \in phase[r]..3 /\ i \in 1..3 /\ i # phase[r]
      BY <3>1, <3>2
    <3>7. \A i \in 1..3 : i # phase[r] => caps'[r][Order[i]] = caps[r][Order[i]]
      BY <3>1, <3>3, KindFacts
    <3>8. \A i \in phase'[r]..3 : caps'[r][Order[i]] = 0
      BY <1>0, <3>1, <3>6, <3>7 DEF CapOf
    <3>9. \A i \in 1..(phase'[r] - 1) :
            /\ caps'[r][Order[i]] > 0 => Used(slot[r], Order[i]) < caps'[r][Order[i]]
            /\ \E l \in Limits : caps'[r][Order[i]] = l[Order[i]]
      BY <1>0, <3>1, <3>3, <3>4, <3>5, <3>7 DEF CapOf
    <3> HIDE DEF k
    <3> QED BY <1>0, <3>1, <3>2, <3>8, <3>9 DEF CapOf
  <2> QED BY <1>0, <1>4, <2>1, <2>2 DEF Within
<1>5. ASSUME NEW r \in Requests, Refuse(r)
      PROVE  (\A q \in Requests : Undisturbed(q) \/ CapOf(q)') /\ limits' \in Limits
  <2>1. \A q \in Requests \ {r} : Undisturbed(q)
    BY <1>0, <1>5 DEF Refuse, Undisturbed, TypeOK
  <2>2. CapOf(r)'
    <3>1. caps'[r] = NoCaps /\ phase'[r] = 1 /\ pc'[r] = "idle"
      BY <1>0, <1>5 DEF Refuse, TypeOK
    <3> QED BY <3>1, KindFacts DEF CapOf, Inside, NoCaps
  <2> QED BY <1>0, <1>5, <2>1, <2>2 DEF Refuse
<1>6. ASSUME NEW r \in Requests, Admit(r)
      PROVE  (\A q \in Requests : Undisturbed(q) \/ CapOf(q)') /\ limits' \in Limits
  <2>1. \A q \in Requests : Inside(q) /\ slot[q] = slot[r] => q = r
    BY <1>0, <1>6, AloneInside DEF Admit, Inside
  <2>2. \A q \in Requests \ {r} : Undisturbed(q)
    BY <1>0, <1>6, <2>1 DEF Admit, Undisturbed, TypeOK
  <2>3. CapOf(r)'
    BY <1>0, <1>6 DEF Admit, CapOf, Inside, TypeOK
  <2> QED BY <1>0, <1>6, <2>2, <2>3 DEF Admit
<1>7. ASSUME NEW r \in Requests, Release(r)
      PROVE  (\A q \in Requests : Undisturbed(q) \/ CapOf(q)') /\ limits' \in Limits
  <2>1. \A q \in Requests : ~(Inside(q) /\ slot[q] = slot[r])
    BY <1>0, <1>7, NobodyInside DEF Release, TypeOK
  <2>2. \A q \in Requests \ {r} : Undisturbed(q)
    BY <1>0, <1>7, <2>1 DEF Release, Undisturbed, TypeOK
  <2>3. CapOf(r)'
    <3>1. caps'[r] = NoCaps /\ phase'[r] = 1 /\ pc'[r] = "idle"
      BY <1>0, <1>7 DEF Release, TypeOK, PhaseInv, Inside
    <3> QED BY <3>1, KindFacts DEF CapOf, Inside, NoCaps
  <2> QED BY <1>0, <1>7, <2>2, <2>3 DEF Release
<1>8. ASSUME NEW s \in Slots, Usage(s)
      PROVE  (\A q \in Requests : Undisturbed(q) \/ CapOf(q)') /\ limits' \in Limits
  <2>1. \A q \in Requests : ~(Inside(q) /\ slot[q] = s)
    BY <1>0, <1>8, NobodyInside DEF Usage
  <2> QED BY <1>0, <1>8, <2>1 DEF Usage, caller, Undisturbed, TypeOK
<1>9. CASE (\E l \in Limits : SaveLimits(l)) \/ Tick \/ UNCHANGED vars
  BY <1>0, <1>9 DEF SaveLimits, Tick, vars, caller, Undisturbed, TypeOK
<1> QED
  BY <1>1, <1>2, <1>3, <1>4, <1>5, <1>6, <1>7, <1>8, <1>9 DEF Next, Step

-----------------------------------------------------------------------------

(* Pruning a slot nobody is inside of keeps its windows a tail of history. *)
LEMMA WindowPruned ==
  ASSUME CoreInv, NEW s \in Slots, NEW k \in Windowed,
         win'[s] = Pruned(s), UNCHANGED <<now, grants>>,
         \A r \in Requests : Inside(r)' /\ slot'[r] = s => at'[r] = now
  PROVE  WindowOf(s, k)'
<1>1. TypeOK /\ WindowOf(s, k) /\ Width(k) \in Nat /\ now \in Nat
  BY KindFacts DEF CoreInv, WindowInv, TypeOK
<1>2. PICK e \in 0..Len(win[s][k]) :
        /\ Len(Pruned(s)[k]) = Len(win[s][k]) - e
        /\ \A i \in 1..(Len(win[s][k]) - e) : Pruned(s)[k][i] = win[s][k][i + e]
        /\ \A i \in 1..e : win[s][k][i] < now - Width(k)
  BY <1>1, PrunedWindows
<1> DEFINE g == grants[s]
           m == Len(win[s][k])
           d == Dropped(s, k)
<1>3. /\ g \in Seq(Grant) /\ Len(g) \in Nat /\ m \in Nat
      /\ d = Len(g) - m /\ d \in Nat
  <2>1. g \in Seq(Grant) /\ win[s][k] \in Seq(Nat)
    BY <1>1 DEF TypeOK
  <2>2. Len(g) \in Nat /\ m \in Nat
    BY <2>1, LenProperties
  <2> QED BY <1>1, <2>1, <2>2 DEF Dropped, WindowOf
<1>e. e \in 0..m
  BY <1>2
<1>4. Len(win'[s][k]) = m - e /\ Dropped(s, k)' = d + e
  BY <1>2, <1>3 DEF Dropped
<1>5. \A i \in 1..(m - e) : win'[s][k][i] = g[d + e + i].at
  <2> SUFFICES ASSUME NEW i \in 1..(m - e) PROVE win'[s][k][i] = g[d + e + i].at
    OBVIOUS
  <2>1. win'[s][k][i] = win[s][k][i + e]
    BY <1>2
  <2>2. i + e \in 1..m /\ d + (i + e) = d + e + i
    <3> HIDE DEF g, m, d
    <3> QED BY <1>e, <1>3
  <2>3. win[s][k][i + e] = g[d + (i + e)].at
    BY <1>1, <2>2 DEF WindowOf
  <2> QED BY <2>1, <2>2, <2>3
<1>6. \A i \in 1..(d + e) : g[i].at < now - Width(k)
  <2> SUFFICES ASSUME NEW i \in 1..(d + e) PROVE g[i].at < now - Width(k)
    OBVIOUS
  <2>1. CASE i \in 1..d
    BY <1>1, <2>1 DEF WindowOf
  <2>2. CASE i \notin 1..d
    <3>1. i - d \in 1..e /\ i - d \in 1..m /\ d + (i - d) = i
      <4> HIDE DEF g, m, d
      <4> QED BY <1>e, <1>3, <2>2
    <3>2. win[s][k][i - d] = g[d + (i - d)].at
      BY <1>1, <3>1 DEF WindowOf
    <3>3. win[s][k][i - d] < now - Width(k)
      BY <1>2, <3>1
    <3> QED BY <3>1, <3>2, <3>3
  <2> QED BY <2>1, <2>2
<1> HIDE DEF g, m, d
<1>7. d + e >= 0 /\ 1..(d + e) = 1..Dropped(s, k)'
  BY <1>2, <1>3, <1>4
<1>8. grants'[s] = g /\ now' = now
  BY DEF g
<1>9. /\ Dropped(s, k)' >= 0
      /\ \A i \in 1..Len(win'[s][k]) : win'[s][k][i] = grants'[s][Dropped(s, k)' + i].at
      /\ \A i \in 1..Dropped(s, k)' : grants'[s][i].at < now' - Width(k)
  BY <1>4, <1>5, <1>6, <1>7, <1>8
<1>10. \A r \in Requests : Inside(r)' /\ slot'[r] = s =>
         \A i \in 1..Dropped(s, k)' : grants'[s][i].at < at'[r] - Width(k)
  BY <1>6, <1>7, <1>8
<1> QED
  BY <1>9, <1>10 DEF WindowOf

(* A slot whose windows and history did not change, the clock not going    *)
(* back and nobody new inside, keeps its windows.                          *)
LEMMA WindowSame ==
  ASSUME CoreInv, NEW s \in Slots, NEW k \in Windowed, TypeOK',
         win'[s] = win[s], grants'[s] = grants[s], now' >= now,
         \A r \in Requests : Inside(r)' /\ slot'[r] = s =>
           Inside(r) /\ slot[r] = s /\ at'[r] = at[r]
  PROVE  WindowOf(s, k)'
<1>1. TypeOK /\ WindowOf(s, k) /\ Width(k) \in Nat
  BY KindFacts DEF CoreInv, WindowInv
<1>2. Dropped(s, k)' = Dropped(s, k)
  BY DEF Dropped
<1>3. now \in Nat /\ now' \in Nat
  BY <1>1 DEF TypeOK
<1>4. \A i \in 1..Dropped(s, k) : grants[s][i].at \in Nat
  <2>1. grants[s] \in Seq(Grant) /\ win[s][k] \in Seq(Nat)
    BY <1>1 DEF TypeOK
  <2>2. \A i \in 1..Len(grants[s]) : grants[s][i] \in Grant
    BY <2>1, ElementOfSeq
  <2>3. Len(grants[s]) \in Nat /\ Len(win[s][k]) \in Nat
    BY <2>1, LenProperties
  <2>4. \A i \in 1..Dropped(s, k) : i \in 1..Len(grants[s])
    BY <2>3 DEF Dropped
  <2> QED BY <2>2, <2>4 DEF Grant
<1>5. \A i \in 1..Dropped(s, k) : grants[s][i].at < now' - Width(k)
  BY <1>1, <1>3, <1>4 DEF WindowOf
<1> QED
  BY <1>1, <1>2, <1>5 DEF WindowOf

(* Admission puts its time at the end of history and of both windows.      *)
LEMMA WindowAppended ==
  ASSUME CoreInv, NEW r \in Requests, Admit(r), NEW k \in Windowed,
         NEW s \in Slots, s = slot[r]
  PROVE  WindowOf(s, k)'
<1> DEFINE g == grants[s]
           w == win[s][k]
           d == Dropped(s, k)
           e == [at |-> at[r], caps |-> caps[r]]
<1>1. TypeOK /\ s \in Slots /\ WindowOf(s, k) /\ MutexInv
  BY DEF CoreInv, WindowInv, TypeOK
<1>2. g \in Seq(Grant) /\ w \in Seq(Nat) /\ e \in Grant /\ at[r] \in Nat
  BY <1>1, ZenonT(40) DEF TypeOK, Grant
<1>3. grants'[s] = Append(g, e) /\ win'[s][k] = Append(w, at[r]) /\ now' = now /\ slot' = slot
  BY <1>1 DEF Admit, TypeOK
<1>4. /\ Len(g) \in Nat /\ Len(w) \in Nat
      /\ Len(grants'[s]) = Len(g) + 1 /\ Len(win'[s][k]) = Len(w) + 1
      /\ d \in Nat /\ d = Len(g) - Len(w)
  BY <1>1, <1>2, <1>3, LenProperties, AppendProperties, SMTT(30) DEF Dropped, WindowOf
<1>5. Dropped(s, k)' = d
  BY <1>4, <1>3 DEF Dropped
<1>6. \A i \in 1..Len(g) : grants'[s][i] = g[i]
  BY <1>2, <1>3, AppendProperties
<1>7. grants'[s][Len(g) + 1] = e
  BY <1>2, <1>3, AppendProperties
<1>8. /\ \A i \in 1..Len(w) : win'[s][k][i] = w[i]
      /\ win'[s][k][Len(w) + 1] = at[r]
  BY <1>2, <1>3, AppendProperties, SMTT(30)
<1>9. \A i \in 1..Len(win'[s][k]) : win'[s][k][i] = grants'[s][d + i].at
  <2> SUFFICES ASSUME NEW i \in 1..Len(win'[s][k])
               PROVE  win'[s][k][i] = grants'[s][d + i].at
    OBVIOUS
  <2>1. CASE i = Len(w) + 1
    <3>1. d + i = Len(g) + 1
      <4> HIDE DEF g, w, d
      <4> QED BY <1>4, <2>1
    <3> QED BY <1>7, <1>8, <2>1, <3>1
  <2>2. CASE i # Len(w) + 1
    <3>1. i \in 1..Len(w) /\ d + i \in 1..Len(g)
      <4> HIDE DEF g, w, d
      <4> QED BY <1>4, <2>2
    <3>2. w[i] = g[d + i].at
      BY <1>1, <3>1 DEF WindowOf
    <3> QED BY <1>6, <1>8, <3>1, <3>2
  <2> QED BY <2>1, <2>2
<1>10. \A i \in 1..d : i \in 1..Len(g) /\ grants'[s][i].at < now - Width(k)
  <2>1. \A i \in 1..d : i \in 1..Len(g)
    BY <1>4
  <2>2. \A i \in 1..d : g[i].at < now - Width(k)
    BY <1>1 DEF WindowOf
  <2> QED BY <1>6, <2>1, <2>2
<1>11. \A q \in Requests : ~(Inside(q)' /\ slot'[q] = s)
  <2>1. \A q \in Requests : Inside(q) /\ slot[q] = s => q = r
    BY <1>1, AloneInside DEF Admit, Inside
  <2>2. pc' = [pc EXCEPT ![r] = "held"]
    BY DEF Admit
  <2> QED BY <1>1, <1>3, <2>1, <2>2 DEF Inside, TypeOK
<1>12. d >= 0
  BY <1>4
<1> HIDE DEF g, w, d, e
<1> QED
  BY <1>3, <1>5, <1>9, <1>10, <1>11, <1>12 DEF WindowOf

LEMMA WindowStep == CoreInv /\ TypeOK' /\ [Next]_vars => WindowInv'
<1> SUFFICES ASSUME CoreInv, TypeOK', [Next]_vars, NEW s \in Slots, NEW k \in Windowed
             PROVE  WindowOf(s, k)'
  BY DEF WindowInv
<1>0. TypeOK /\ MutexInv /\ PhaseInv
  BY DEF CoreInv
<1>1. ASSUME NEW r \in Requests, NEW q \in Slots, Call(r, q) PROVE WindowOf(s, k)'
  <2>1. UNCHANGED <<win, grants, now, at>> /\ now \in Nat
    BY <1>0, <1>1 DEF Call, TypeOK
  <2>2. \A p \in Requests : Inside(p)' => p # r /\ Inside(p) /\ slot'[p] = slot[p]
    BY <1>0, <1>1 DEF Call, Inside, TypeOK
  <2> QED BY <2>1, <2>2, WindowSame
<1>2. ASSUME NEW r \in Requests, Enter(r) PROVE WindowOf(s, k)'
  <2>1. \A q \in Requests : ~(Inside(q) /\ slot[q] = slot[r])
    BY <1>0, <1>2, NobodyInside DEF Enter, TypeOK
  <2>2. /\ \A q \in Requests : Inside(q)' => q = r \/ Inside(q)
        /\ slot' = slot /\ at' = [at EXCEPT ![r] = now] /\ UNCHANGED <<now, grants>>
    BY <1>0, <1>2 DEF Enter, Inside, TypeOK
  <2>3. CASE s = slot[r]
    <3>1. win'[s] = Pruned(s)
      BY <1>0, <1>2, <2>3 DEF Enter, TypeOK
    <3>2. \A q \in Requests : Inside(q)' /\ slot'[q] = s => at'[q] = now
      BY <1>0, <2>1, <2>2, <2>3 DEF TypeOK
    <3> QED BY <2>2, <3>1, <3>2, WindowPruned
  <2>4. CASE s # slot[r]
    <3>1. win'[s] = win[s] /\ now' >= now /\ grants'[s] = grants[s]
      BY <1>0, <1>2, <2>2, <2>4 DEF Enter, TypeOK
    <3>2. \A q \in Requests : Inside(q)' /\ slot'[q] = s =>
            Inside(q) /\ slot[q] = s /\ at'[q] = at[q]
      BY <1>0, <2>2, <2>4 DEF TypeOK
    <3> QED BY <3>1, <3>2, WindowSame
  <2> QED BY <2>3, <2>4
<1>3. ASSUME NEW r \in Requests, ReadSwitch(r) \/ Within(r) \/ Refuse(r)
      PROVE WindowOf(s, k)'
  <2>1. /\ UNCHANGED <<win, grants, now, slot>> /\ now \in Nat
        /\ \A q \in Requests : Inside(q)' => Inside(q) /\ at'[q] = at[q]
    BY <1>0, <1>3, SMTT(30) DEF ReadSwitch, Within, Refuse, Pass, Inside, TypeOK
  <2> QED BY <2>1, WindowSame
<1>4. ASSUME NEW r \in Requests, Admit(r) PROVE WindowOf(s, k)'
  <2>1. CASE s = slot[r]
    BY <1>4, <2>1, WindowAppended DEF Admit
  <2>2. CASE s # slot[r]
    <3>1. win'[s] = win[s] /\ grants'[s] = grants[s] /\ now' >= now /\ slot' = slot
      BY <1>0, <1>4, <2>2 DEF Admit, TypeOK
    <3>2. \A q \in Requests : Inside(q)' => Inside(q) /\ at'[q] = at[q]
      BY <1>0, <1>4 DEF Admit, Inside, TypeOK
    <3> QED BY <3>1, <3>2, WindowSame
  <2> QED BY <2>1, <2>2
<1>5. ASSUME NEW r \in Requests, Release(r) PROVE WindowOf(s, k)'
  <2>1. /\ UNCHANGED <<win, grants, now, slot, at>> /\ now \in Nat
        /\ \A q \in Requests : Inside(q)' => Inside(q)
    BY <1>0, <1>5 DEF Release, Inside, TypeOK
  <2> QED BY <2>1, WindowSame
<1>6. ASSUME NEW q \in Slots, Usage(q) PROVE WindowOf(s, k)'
  <2>1. /\ UNCHANGED <<grants, now, slot, at, pc>> /\ now \in Nat
        /\ win' = [win EXCEPT ![q] = Pruned(q)]
        /\ \A p \in Requests : Inside(p)' = Inside(p)
    BY <1>0, <1>6 DEF Usage, caller, Inside, TypeOK
  <2>2. CASE s = q
    <3>1. \A p \in Requests : ~(Inside(p)' /\ slot'[p] = s)
      BY <1>0, <1>6, <2>1, <2>2, NobodyInside DEF Usage
    <3>2. win'[s] = Pruned(s)
      BY <1>0, <2>1, <2>2 DEF TypeOK
    <3> QED BY <2>1, <3>1, <3>2, WindowPruned
  <2>3. CASE s # q
    <3>1. win'[s] = win[s]
      BY <1>0, <2>1, <2>3 DEF TypeOK
    <3> QED BY <2>1, <3>1, WindowSame
  <2> QED BY <2>2, <2>3
<1>7. CASE (\E l \in Limits : SaveLimits(l)) \/ Tick \/ UNCHANGED vars
  <2>1. /\ UNCHANGED <<win, grants, slot, at, pc>> /\ now' >= now
        /\ \A p \in Requests : Inside(p)' = Inside(p)
    BY <1>0, <1>7 DEF SaveLimits, Tick, vars, caller, Inside, TypeOK
  <2> QED BY <2>1, WindowSame
<1> QED
  BY <1>1, <1>2, <1>3, <1>4, <1>5, <1>6, <1>7 DEF Next, Step

-----------------------------------------------------------------------------

LEMMA CoreInit == Init => CoreInv
<1> SUFFICES ASSUME Init PROVE CoreInv
  OBVIOUS
<1>1. TypeOK /\ PhaseInv /\ limits \in Limits
  BY TypeInit DEF Init
<1>2. MutexInv
  BY DEF Init, MutexInv, Inside
<1>3. CapInv
  <2>1. \A r \in Requests : caps[r] = NoCaps /\ ~Inside(r)
    BY DEF Init, Inside
  <2>2. \A r \in Requests : \A i \in phase[r]..3 : caps[r][Order[i]] = 0
    BY <2>1, KindFacts DEF Init, NoCaps
  <2> QED BY <2>1, <2>2 DEF CapInv, CapOf
<1>4. WindowInv
  <2> SUFFICES ASSUME NEW s \in Slots, NEW k \in Windowed PROVE WindowOf(s, k)
    BY DEF WindowInv
  <2>1. win[s][k] = <<>> /\ grants[s] = <<>> /\ Len(<<>>) = 0
    BY DEF Init
  <2>2. Dropped(s, k) = 0
    BY <2>1 DEF Dropped
  <2> QED BY <2>1, <2>2 DEF WindowOf
<1> QED BY <1>1, <1>2, <1>3, <1>4 DEF CoreInv

LEMMA CoreStep == CoreInv /\ [Next]_vars => CoreInv'
<1> SUFFICES ASSUME CoreInv, [Next]_vars PROVE CoreInv'
  OBVIOUS
<1>1. TypeOK' /\ PhaseInv'
  BY TypeStep DEF CoreInv
<1>2. MutexInv'
  BY MutexStep DEF CoreInv
<1>3. CapInv' /\ limits' \in Limits
  BY <1>1, CapStep
<1>4. WindowInv'
  BY <1>1, WindowStep
<1> QED
  BY <1>1, <1>2, <1>3, <1>4 DEF CoreInv

LEMMA Core == Spec => []CoreInv
BY CoreInit, CoreStep, PTL DEF Spec

-----------------------------------------------------------------------------

(* The step that admits r found room: the caps it was checked against are  *)
(* configured, above the in-flight count and above both window lengths.    *)
LEMMA AdmitHasRoom ==
  ASSUME CoreInv, NEW r \in Requests, Admit(r)
  PROVE  \A k \in Kinds :
           /\ caps[r][k] > 0 => Used(slot[r], k) < caps[r][k]
           /\ \E l \in Limits : caps[r][k] = l[k]
<1> SUFFICES ASSUME NEW k \in Kinds
             PROVE  /\ caps[r][k] > 0 => Used(slot[r], k) < caps[r][k]
                    /\ \E l \in Limits : caps[r][k] = l[k]
  OBVIOUS
<1>1. phase[r] = 4 /\ Inside(r) /\ CapOf(r)
  BY DEF CoreInv, PhaseInv, CapInv, Admit, Inside
<1>2. PICK i \in 1..3 : Order[i] = k
  BY KindFacts
<1>3. i \in 1..(phase[r] - 1)
  BY <1>1
<1> QED
  BY <1>1, <1>2, <1>3 DEF CapOf

(* Where the window of an admission under cap c starts, when m of the n    *)
(* earlier admissions are still kept and m < c.                            *)
LEMMA LastOfDropped ==
  ASSUME NEW n \in Nat, NEW c \in Nat, NEW m \in Nat, m < c, (n + 1) - c >= 1
  PROVE  (n + 1) - c \in 1..(n - m) /\ (n + 1) - c \in 1..n
OBVIOUS

LEMMA WindowsInit == Init => WindowsRespected
BY DEF Init, WindowsRespected

LEMMA WindowsStep ==
  CoreInv /\ WindowsRespected /\ [Next]_vars => WindowsRespected'
<1> SUFFICES ASSUME CoreInv, WindowsRespected, [Next]_vars PROVE WindowsRespected'
  OBVIOUS
<1>0. TypeOK
  BY DEF CoreInv
<1>1. ASSUME NEW r \in Requests, Admit(r) PROVE WindowsRespected'
  <2> SUFFICES ASSUME NEW s \in Slots, NEW k \in Windowed,
                      NEW j \in 1..Len(grants'[s]),
                      NEW cap, cap = grants'[s][j].caps[k],
                      cap > 0, j - cap >= 1
               PROVE  grants'[s][j].at - grants'[s][j - cap].at > Width(k)
    BY DEF WindowsRespected
  <2> DEFINE g == grants[s]
             e == [at |-> at[r], caps |-> caps[r]]
             n == Len(g)
  <2>1. g \in Seq(Grant) /\ n \in Nat /\ e \in Grant
    BY <1>0, LenProperties DEF TypeOK, Grant
  <2>2. CASE s # slot[r]
    <3>1. grants'[s] = grants[s]
      BY <1>0, <1>1, <2>2 DEF Admit, TypeOK
    <3> QED BY <3>1 DEF WindowsRespected
  <2>3. CASE s = slot[r]
    <3>1. grants'[s] = Append(g, e)
      BY <1>0, <1>1, <2>3 DEF Admit, TypeOK
    <3>2. Len(grants'[s]) = n + 1 /\ grants'[s][n + 1] = e /\ \A i \in 1..n : grants'[s][i] = g[i]
      BY <2>1, <3>1, AppendProperties
    <3>3. CASE j # n + 1
      <4>1. j \in 1..n /\ cap = g[j].caps[k]
        BY <2>1, <3>2, <3>3
      <4>2. g[j] \in Grant /\ k \in Kinds
        BY <2>1, <4>1, ElementOfSeq, KindFacts
      <4>3. cap \in Nat
        BY <4>1, <4>2 DEF Grant
      <4>4. j - cap \in 1..n
        <5> HIDE DEF g, n
        <5> QED BY <2>1, <4>1, <4>3
      <4>5. g[j].at - g[j - cap].at > Width(k)
        BY <4>1 DEF WindowsRespected
      <4> QED BY <3>2, <4>1, <4>4, <4>5
    <3>4. CASE j = n + 1
      <4>1. cap = caps[r][k] /\ grants'[s][j].at = at[r]
        BY <3>2, <3>4
      <4>2. cap \in Nat /\ k \in Kinds /\ k # "concurrent" /\ Width(k) \in Nat /\ at[r] \in Nat
        BY <1>0, <4>1, KindFacts DEF TypeOK
      <4>3. Len(win[s][k]) < cap
        BY <1>1, <2>3, <4>1, <4>2, AdmitHasRoom DEF Used
      <4>4. Len(win[s][k]) \in Nat
        BY <1>0, LenProperties DEF TypeOK
      <4>5. j - cap \in 1..Dropped(s, k) /\ j - cap \in 1..n
        <5>1. Dropped(s, k) = n - Len(win[s][k])
          BY DEF Dropped
        <5>2. (n + 1) - cap >= 1 /\ n \in Nat
          BY <2>1, <3>4, <4>2
        <5>3. (n + 1) - cap \in 1..(n - Len(win[s][k])) /\ (n + 1) - cap \in 1..n
          <6> HIDE DEF g, n
          <6> QED BY <4>2, <4>3, <4>4, <5>2, LastOfDropped
        <5>4. j - cap = (n + 1) - cap
          BY <3>4
        <5> HIDE DEF g, n
        <5> QED BY ONLY <5>1, <5>3, <5>4, Zenon
      <4>6. grants[s][j - cap].at < at[r] - Width(k)
        <5>1. WindowOf(s, k) /\ Inside(r)
          BY <1>1 DEF CoreInv, WindowInv, Admit, Inside
        <5> QED BY <2>3, <4>5, <5>1 DEF WindowOf
      <4>7. grants[s][j - cap].at \in Nat
        <5>1. grants[s][j - cap] \in Grant
          BY <2>1, <4>5, ElementOfSeq
        <5> QED BY <5>1 DEF Grant
      <4>8. grants'[s][j - cap] = grants[s][j - cap]
        BY <3>2, <4>5
      <4> QED BY <4>1, <4>2, <4>6, <4>7, <4>8, SMTT(30)
    <3> QED BY <3>3, <3>4
  <2> QED BY <2>2, <2>3
<1>2. CASE \A r \in Requests : ~Admit(r)
  <2>1. UNCHANGED grants
    BY <1>2 DEF Next, Step, Call, Enter, ReadSwitch, Within, Refuse, Release,
                Usage, SaveLimits, Tick, vars
  <2> QED BY <2>1 DEF WindowsRespected
<1> QED
  BY <1>1, <1>2

(* At most cap admissions of one exit in any window of Width(k) seconds,   *)
(* whatever is pruned, released or reconfigured meanwhile.                 *)
THEOREM WindowsHold == Spec => []WindowsRespected
BY WindowsInit, WindowsStep, Core, PTL DEF Spec

-----------------------------------------------------------------------------

(* The concurrency promise for every group of holders, not only for all of *)
(* them: inductive, because whoever leaves turns one group into another.   *)
GroupInv ==
  \A s \in Slots : \A H \in SUBSET Holders(s) :
    H # {} => \E r \in H : \/ caps[r]["concurrent"] = 0
                           \/ Cardinality(H) <= caps[r]["concurrent"]

LEMMA HoldersKeepCaps ==
  ASSUME TypeOK, [Next]_vars, \A r \in Requests : ~Admit(r), NEW s \in Slots
  PROVE  /\ Holders(s)' \subseteq Holders(s)
         /\ \A q \in Holders(s)' : caps'[q] = caps[q]
<1> USE DEF Holders, TypeOK
<1>1. ASSUME NEW r \in Requests, NEW t \in Slots, Call(r, t)
      PROVE  Holders(s)' \subseteq Holders(s) /\ caps' = caps
  BY <1>1 DEF Call
<1>2. ASSUME NEW r \in Requests, Enter(r) \/ ReadSwitch(r)
      PROVE  Holders(s)' \subseteq Holders(s) /\ caps' = caps
  BY <1>2 DEF Enter, ReadSwitch, Pass
<1>3. ASSUME NEW r \in Requests, Within(r) \/ Refuse(r) \/ Release(r)
      PROVE  /\ Holders(s)' \subseteq Holders(s)
             /\ \A q \in Holders(s)' : caps'[q] = caps[q]
  <2>1. pc'[r] # "held" /\ slot' = slot
    BY <1>3 DEF Within, Refuse, Release, Pass
  <2>2. \A q \in Requests : q # r => pc'[q] = pc[q] /\ caps'[q] = caps[q]
    BY <1>3 DEF Within, Refuse, Release, Pass
  <2> QED BY <2>1, <2>2
<1>4. CASE (\E t \in Slots : Usage(t)) \/ (\E l \in Limits : SaveLimits(l)) \/ Tick
  BY <1>4 DEF Usage, SaveLimits, Tick, caller
<1>5. CASE UNCHANGED vars
  BY <1>5 DEF vars
<1> QED
  BY <1>1, <1>2, <1>3, <1>4, <1>5 DEF Next, Step

LEMMA GroupStep ==
  CoreInv /\ InflightIsHolders /\ GroupInv /\ [Next]_vars => GroupInv'
<1> SUFFICES ASSUME CoreInv, InflightIsHolders, GroupInv, [Next]_vars,
                    NEW s \in Slots, NEW H \in SUBSET Holders(s)', H # {}
             PROVE  \E q \in H : \/ caps'[q]["concurrent"] = 0
                                 \/ Cardinality(H) <= caps'[q]["concurrent"]
  BY DEF GroupInv
<1>0. TypeOK
  BY DEF CoreInv
<1>1. ASSUME NEW r \in Requests, Admit(r)
      PROVE  \E q \in H : \/ caps'[q]["concurrent"] = 0
                          \/ Cardinality(H) <= caps'[q]["concurrent"]
  <2>1. /\ pc[r] # "held" /\ pc' = [pc EXCEPT ![r] = "held"]
        /\ UNCHANGED slot /\ caps' = caps
    BY <1>1 DEF Admit
  <2>2. IF s = slot[r] THEN H \subseteq Holders(s) \cup {r} ELSE H \subseteq Holders(s)
    BY <1>0, <2>1, HoldersEnter
  <2>3. CASE r \notin H \/ s # slot[r]
    <3>1. H \in SUBSET Holders(s)
      BY <2>2, <2>3
    <3> QED BY <2>1, <3>1 DEF GroupInv
  <2>4. CASE r \in H /\ s = slot[r]
    <3> DEFINE cap == caps[r]["concurrent"]
    <3>1. Cardinality(H) \in Nat /\ Cardinality(H) <= Cardinality(Holders(s)) + 1
      <4>1. /\ IsFiniteSet(Holders(s) \cup {r})
            /\ Cardinality(Holders(s) \cup {r}) <= Cardinality(Holders(s)) + 1
            /\ Cardinality(Holders(s)) \in Nat
        <5>1. IsFiniteSet(Holders(s)) /\ Cardinality(Holders(s)) \in Nat
          BY HoldersFinite
        <5> QED BY <5>1, FS_AddElement
      <4>2. H \in SUBSET (Holders(s) \cup {r})
        BY <2>2, <2>4
      <4> QED BY <4>1, <4>2, FS_Subset, FS_CardinalityType
    <3>2. cap \in Nat
      BY <1>0 DEF TypeOK, Kinds
    <3>3. cap > 0 => Cardinality(Holders(s)) < cap
      <4>1. cap > 0 => inflight[s] < cap
        BY <1>1, <2>4, AdmitHasRoom DEF Used, Kinds
      <4> QED BY <4>1 DEF InflightIsHolders
    <3>4. Cardinality(Holders(s)) \in Nat
      BY HoldersFinite
    <3>5. cap = 0 \/ Cardinality(H) <= cap
      <4> HIDE DEF cap
      <4> QED BY <3>1, <3>2, <3>3, <3>4
    <3> QED BY <2>1, <2>4, <3>5
  <2> QED BY <2>3, <2>4
<1>2. CASE \A r \in Requests : ~Admit(r)
  <2>1. H \in SUBSET Holders(s) /\ \A q \in H : caps'[q] = caps[q]
    BY <1>0, <1>2, HoldersKeepCaps
  <2> QED BY <2>1 DEF GroupInv
<1> QED
  BY <1>1, <1>2

(* Nobody enters an exit above the in-flight cap it was let in under, and  *)
(* lowering the cap afterwards does not change that.                       *)
THEOREM ConcurrencyHolds == Spec => []ConcurrencyRespected
<1>1. Init => GroupInv
  BY DEF Init, GroupInv, Holders
<1>2. GroupInv => ConcurrencyRespected
  BY DEF GroupInv, ConcurrencyRespected
<1>3. CoreInv /\ InflightIsHolders /\ GroupInv /\ [Next]_vars => GroupInv'
  BY GroupStep
<1>4. Spec => []GroupInv
  BY <1>1, <1>3, Core, InflightExact, PTL DEF Spec
<1> QED
  BY <1>2, <1>4, PTL

-----------------------------------------------------------------------------

(* The window the code keeps has every admission the promise looks at, so  *)
(* room in the window is room in the full history.                         *)
LEMMA RecentInWindow ==
  ASSUME CoreInv, NEW r \in Requests, Inside(r), NEW k \in Windowed
  PROVE  /\ Cardinality(Quota!Recent(slot[r], k, at[r])) \in Nat
         /\ Cardinality(Quota!Recent(slot[r], k, at[r])) <= Len(win[slot[r]][k])
<1>0. TypeOK /\ slot[r] \in Slots /\ at[r] \in Nat /\ Width(k) \in Nat
  BY KindFacts DEF CoreInv, TypeOK
<1> SUFFICES ASSUME NEW s \in Slots, s = slot[r]
             PROVE  /\ Cardinality(Quota!Recent(s, k, at[r])) \in Nat
                    /\ Cardinality(Quota!Recent(s, k, at[r])) <= Len(win[s][k])
  BY <1>0
<1> DEFINE g == grants[s]
           n == Len(g)
           m == Len(win[s][k])
           R == Quota!Recent(s, k, at[r])
<1>1. g \in Seq(Grant) /\ n \in Nat /\ m \in Nat /\ DOMAIN g = 1..n
  BY <1>0, LenProperties DEF TypeOK
<1>2. Quota!Width(k) = Width(k)
  BY DEF Quota!Width, Width
<1>3. n - m >= 0 /\ \A i \in 1..(n - m) : g[i].at < at[r] - Width(k)
  BY DEF CoreInv, WindowInv, WindowOf, Dropped
<1>4. \A i \in 1..n : g[i].at \in Nat
  <2>1. \A i \in 1..n : g[i] \in Grant
    BY <1>1, ElementOfSeq
  <2> QED BY <2>1 DEF Grant
<1>5. R = {i \in 1..n : g[i].at >= at[r] - Width(k)}
  BY <1>1, <1>2 DEF Quota!Recent
<1>6. R \subseteq (n - m + 1)..n
  <2> SUFFICES ASSUME NEW i \in R PROVE i \in (n - m + 1)..n
    OBVIOUS
  <2>1. i \in 1..n /\ g[i].at >= at[r] - Width(k) /\ g[i].at \in Nat
    BY <1>4, <1>5
  <2>2. i \notin 1..(n - m)
    BY <1>0, <1>3, <2>1
  <2> HIDE DEF g, n, m, R
  <2> QED BY <1>1, <1>3, <2>1, <2>2
<1> HIDE DEF g, n, m, R
<1>7. IsFiniteSet((n - m + 1)..n) /\ Cardinality((n - m + 1)..n) = m
  <2>1. n - m + 1 \in Int /\ n \in Int
    BY <1>1
  <2>2. /\ IsFiniteSet((n - m + 1)..n)
        /\ Cardinality((n - m + 1)..n) = IF n - m + 1 > n THEN 0 ELSE n - (n - m + 1) + 1
    BY <2>1, FS_Interval
  <2> QED BY <1>1, <2>2
<1>8. Cardinality(R) \in Nat /\ Cardinality(R) <= m
  BY <1>6, <1>7, FS_Subset, FS_CardinalityType
<1> QED
  BY <1>8 DEF R, m

(* The instance counts as the module that instantiates it does.            *)
LEMMA SameCardinality == \A S : Quota!Cardinality(S) = Cardinality(S)
BY DEF Quota!Cardinality, Quota!IsFiniteSet, Cardinality, IsFiniteSet

LEMMA AdmitRefines ==
  ASSUME CoreInv, InflightIsHolders, NEW r \in Requests, Admit(r)
  PROVE  Quota!Admit(r, slot[r])
<1>0. TypeOK /\ slot[r] \in Slots /\ Inside(r) /\ at[r] \in Nat /\ now \in Nat
  BY DEF CoreInv, TypeOK, Admit, Inside
<1> SUFFICES ASSUME NEW s \in Slots, s = slot[r] PROVE Quota!Admit(r, s)
  BY <1>0
<1>1. at[r] \in 0..now
  BY <1>0 DEF CoreInv, CapInv, CapOf
<1>2. caps[r] \in Quota!Caps
  <2>1. caps[r] \in [Kinds -> Nat] /\ \A k \in Kinds : \E l \in Limits : caps[r][k] = l[k]
    BY <1>0, AdmitHasRoom DEF TypeOK
  <2>2. Quota!Kinds = Kinds
    BY DEF Quota!Kinds, Kinds
  <2>3. caps[r] \in [Kinds -> UNION {{l[k] : k \in Kinds} : l \in Limits}]
    BY <2>1
  <2> QED BY <2>1, <2>2, <2>3 DEF Quota!Caps
<1>3. Quota!Room(s, at[r], caps[r])
  <2>1. caps[r]["concurrent"] > 0 => Cardinality(Holders(s)) < caps[r]["concurrent"]
    BY <1>0, AdmitHasRoom DEF Used, Kinds, InflightIsHolders
  <2>2. ASSUME NEW k \in Windowed, caps[r][k] > 0
        PROVE  Cardinality(Quota!Recent(s, k, at[r])) < caps[r][k]
    <3>1. Len(win[s][k]) < caps[r][k] /\ caps[r][k] \in Nat
      BY <1>0, <2>2, AdmitHasRoom, KindFacts DEF Used, TypeOK
    <3>2. Len(win[s][k]) \in Nat
      BY <1>0, LenProperties DEF TypeOK
    <3>3. /\ Cardinality(Quota!Recent(s, k, at[r])) \in Nat
          /\ Cardinality(Quota!Recent(s, k, at[r])) <= Len(win[s][k])
      BY <1>0, RecentInWindow
    <3> QED BY <3>1, <3>2, <3>3
  <2>3. Quota!Windowed = Windowed
    BY DEF Quota!Windowed, Windowed
  <2>4. [q \in Slots |-> Holders(q)][s] = Holders(s)
    OBVIOUS
  <2>5. caps[r]["concurrent"] > 0 =>
          Cardinality([q \in Slots |-> Holders(q)][s]) < caps[r]["concurrent"]
    BY <2>1, <2>4
  <2>6. \A k \in Windowed : caps[r][k] > 0 =>
          Cardinality(Quota!Recent(s, k, at[r])) < caps[r][k]
    BY <2>2
  <2> QED BY <2>3, <2>5, <2>6, SameCardinality DEF Quota!Room
<1>4. \A q \in Slots : r \notin Holders(q)
  BY DEF Admit, Holders
<1>5. [q \in Slots |-> Holders(q)]' = [[q \in Slots |-> Holders(q)] EXCEPT ![s] = @ \cup {r}]
  <2>1. pc[r] # "held" /\ pc' = [pc EXCEPT ![r] = "held"] /\ UNCHANGED slot
    BY DEF Admit
  <2>2. /\ Holders(s)' = Holders(s) \cup {r}
        /\ \A q \in Slots : q # s => Holders(q)' = Holders(q)
    BY <1>0, <2>1, HoldersEnter
  <2> QED BY <2>2
<1>6. grants' = [grants EXCEPT ![s] = Append(@, [at |-> at[r], caps |-> caps[r]])]
      /\ UNCHANGED now
  BY DEF Admit
<1> QED
  BY <1>1, <1>2, <1>3, <1>4, <1>5, <1>6 DEF Quota!Admit

LEMMA QuotaStep ==
  CoreInv /\ InflightIsHolders /\ [Next]_vars => [Quota!Next]_Quota!vars
<1> SUFFICES ASSUME CoreInv, InflightIsHolders, [Next]_vars
             PROVE  Quota!Next \/ UNCHANGED Quota!vars
  OBVIOUS
<1>0. TypeOK
  BY DEF CoreInv
<1>1. ASSUME NEW r \in Requests, Admit(r) PROVE Quota!Next
  BY <1>0, <1>1, AdmitRefines DEF Quota!Next, TypeOK
<1>2. ASSUME NEW r \in Requests, Release(r) PROVE Quota!Next
  <2>1. slot[r] \in Slots
    BY <1>0 DEF TypeOK
  <2> SUFFICES ASSUME NEW s \in Slots, s = slot[r] PROVE Quota!Leave(r, s)
    BY <2>1 DEF Quota!Next
  <2>2. /\ pc[r] = "held" /\ pc' = [pc EXCEPT ![r] = "idle"]
        /\ UNCHANGED <<slot, now, grants>>
    BY <1>2 DEF Release
  <2>3. /\ Holders(s)' = Holders(s) \ {r} /\ r \in Holders(s)
        /\ \A q \in Slots : q # s => Holders(q)' = Holders(q)
    BY <1>0, <2>2, HoldersLeave
  <2> QED BY <2>2, <2>3 DEF Quota!Leave
<1>3. CASE \A r \in Requests : ~Admit(r) /\ ~Release(r)
  <2>1. \A s \in Slots : Holders(s)' = Holders(s)
    BY <1>0, <1>3, HoldersSame
  <2>2. UNCHANGED grants
    BY <1>3 DEF Next, Step, Call, Enter, ReadSwitch, Within, Refuse,
                Usage, SaveLimits, Tick, vars
  <2>3. UNCHANGED now \/ now' = now + 1
    BY <1>3 DEF Next, Step, Call, Enter, ReadSwitch, Within, Refuse,
                Usage, SaveLimits, Tick, vars
  <2> QED BY <2>1, <2>2, <2>3 DEF Quota!Next, Quota!Tick, Quota!vars
<1> QED
  BY <1>1, <1>2, <1>3

(* SlotLimiter implements ExitQuota, for any number of exits and requests. *)
THEOREM Refinement == Spec => ImplementsQuota
<1>1. Init => Quota!Init
  <2> SUFFICES ASSUME Init PROVE Quota!Init
    OBVIOUS
  <2>1. \A s \in Slots : Holders(s) = {}
    BY DEF Init, Holders
  <2> QED BY <2>1 DEF Init, Quota!Init
<1>2. CoreInv /\ InflightIsHolders /\ [Next]_vars => [Quota!Next]_Quota!vars
  BY QuotaStep
<1> QED
  BY <1>1, <1>2, Core, InflightExact, PTL DEF Spec, ImplementsQuota, Quota!Spec

(***************************************************************************)
(* ClientStream, for every set of queries, answers and thoughts            *)
(***************************************************************************)

LEMMA SomeLeast ==
  ASSUME NEW S \in SUBSET Nat, S # {}
  PROVE  \E n \in S : \A m \in S : n <= m
<1>1. \E n \in S : \A m \in S : ~(<<m, n>> \in OpToRel(<, Nat))
  BY NatLessThanWellFounded, WFMin
<1>2. PICK n \in S : \A m \in S : ~(<<m, n>> \in OpToRel(<, Nat))
  BY <1>1
<1>3. ASSUME NEW m \in S PROVE n <= m
  <2>1. m \in Nat /\ n \in Nat /\ ~(<<m, n>> \in OpToRel(<, Nat))
    BY <1>2
  <2>2. m < n => <<m, n>> \in OpToRel(<, Nat)
    BY <2>1 DEF OpToRel
  <2> QED BY <2>1, <2>2 DEF OpToRel
<1> QED BY <1>3

(* What holds of a position when it holds of all later ones holds of every *)
(* position.                                                               *)
LEMMA Downward ==
  ASSUME NEW N \in Nat, NEW S,
         \A i \in 1..N : (\A j \in i + 1..N : j \in S) => i \in S
  PROVE  \A i \in 1..N : i \in S
<1> DEFINE T == {m \in Nat : N - m \in 1..N /\ N - m \notin S}
<1> SUFFICES ASSUME NEW i \in 1..N, i \notin S PROVE FALSE
  OBVIOUS
<1>1. N - i \in T
  <2>1. N - i \in Nat /\ N - (N - i) = i
    OBVIOUS
  <2> QED BY <2>1
<1>2. PICK m \in T : \A k \in T : m <= k
  <2> T \in SUBSET Nat /\ T # {}
    BY <1>1
  <2> HIDE DEF T
  <2> QED BY SomeLeast
<1>3. PICK j \in N - m + 1 .. N : j \notin S
  BY <1>2
<1>4. N - j \in Nat /\ N - (N - j) = j /\ j \in 1..N /\ N - j < m
  BY <1>2, <1>3
<1>5. N - j \in T
  BY <1>3, <1>4
<1> QED BY <1>2, <1>4, <1>5

(* A function defined at each position from its values at later ones.      *)
FromLater(N, V, E) ==
  /\ \A i \in 1..N, f \in [1..N -> V] : E[i][f] \in V
  /\ \A i \in 1..N, f, g \in [1..N -> V] :
       (\A j \in i + 1..N : f[j] = g[j]) => E[i][f] = E[i][g]
Solvable(N, V, E) == \E f \in [1..N -> V] : \A i \in 1..N : f[i] = E[i][f]

LEMMA DownwardRecursion ==
  ASSUME NEW N \in Nat, NEW V, NEW v \in V, NEW E, FromLater(N, V, E)
  PROVE  Solvable(N, V, E)
<1>0. /\ \A i \in 1..N, f \in [1..N -> V] : E[i][f] \in V
      /\ \A i \in 1..N, f, g \in [1..N -> V] :
           (\A j \in i + 1..N : f[j] = g[j]) => E[i][f] = E[i][g]
  BY DEF FromLater
<1> DEFINE From(k) == \E f \in [1..N -> V] : \A i \in k..N : f[i] = E[i][f]
           S == {k \in 1..N : From(k)}
<1>1. From(N + 1)
  <2>1. [i \in 1..N |-> v] \in [1..N -> V] /\ \A i \in N + 1..N : FALSE
    OBVIOUS
  <2> QED BY <2>1
<1>2. ASSUME NEW k \in 1..N, From(k + 1) PROVE From(k)
  <2>1. PICK f \in [1..N -> V] : \A i \in k + 1..N : f[i] = E[i][f]
    BY <1>2
  <2> DEFINE g == [f EXCEPT ![k] = E[k][f]]
  <2>2. g \in [1..N -> V] /\ g[k] = E[k][f] /\ \A i \in k + 1..N : g[i] = f[i]
    BY <1>0, <2>1
  <2> HIDE DEF g
  <2>3. ASSUME NEW i \in k..N PROVE g[i] = E[i][g]
    <3>0. i \in 1..N
      OBVIOUS
    <3>1. \A j \in i + 1..N : f[j] = g[j]
      BY <2>2, <3>0
    <3>2. E[i][f] = E[i][g]
      BY <1>0, <2>1, <2>2, <3>0, <3>1
    <3>3. CASE i = k
      BY <2>2, <3>2, <3>3
    <3>4. CASE i # k
      <4>1. i \in k + 1..N
        BY <3>4
      <4> QED BY <2>1, <2>2, <3>2, <4>1
    <3> QED BY <3>3, <3>4
  <2> QED BY <2>2, <2>3
<1>3. ASSUME NEW i \in 1..N, \A j \in i + 1..N : j \in S PROVE i \in S
  <2>1. CASE i = N
    BY <1>1, <1>2, <2>1
  <2>2. CASE i # N
    <3>1. i + 1 \in i + 1..N
      BY <2>2
    <3>2. i + 1 \in S
      BY <1>3, <3>1
    <3> QED BY <1>2, <3>2
  <2> QED BY <2>1, <2>2
<1>4. \A i \in 1..N : i \in S
  <2> HIDE DEF S
  <2> QED BY <1>3, Downward
<1>5. From(1)
  <2>1. CASE N = 0
    <3>1. N + 1 = 1
      BY <2>1
    <3> HIDE DEF From
    <3> QED BY <1>1, <3>1
  <2>2. CASE N # 0
    BY <1>4, <2>2
  <2> QED BY <2>1, <2>2
<1> QED BY <1>5 DEF Solvable

-----------------------------------------------------------------------------
(* Texts *)

Texts == Seq(Letters)

LEMMA LeastOf ==
  ASSUME NEW S \in SUBSET Nat, S # {}
  PROVE  Min(S) \in S /\ \A m \in S : Min(S) <= m
<1>1. Min(S) = CHOOSE n \in S : \A m \in S : n <= m
  BY DEF Min
<1>2. \E n \in S : \A m \in S : n <= m
  BY SomeLeast
<1> QED BY <1>1, <1>2

LEMMA CloseIs ==
  ASSUME NEW s \in Texts, NEW i \in 1..Len(s), NEW word, Closed(s, word, i)
  PROVE  Close(s, i) \in i + 2 .. Len(s) /\ s[Close(s, i)] = "f"
<1>1. Len(s) \in Nat
  BY DEF Texts
<1>2. Fences(s, i + 2) # {} /\ Fences(s, i + 2) \in SUBSET Nat
  BY <1>1 DEF Closed, Fences
<1>3. Min(Fences(s, i + 2)) \in Fences(s, i + 2)
  BY <1>2, LeastOf
<1> QED BY <1>3 DEF Close, Fences

(* Each piece is of one kind and every step goes on.                       *)
Onwards(piece, to, V) ==
  /\ Len(piece) \in Nat
  /\ \A i \in 1..Len(piece) : piece[i] \in Seq(V) /\ to[i] \in i + 1 .. Len(piece) + 2

GatherStep(piece, to, f, i) == IF i > Len(piece) THEN <<>> ELSE piece[i] \o f[to[i]]
Gathered(piece, to) ==
  LET n == Len(piece)
      from[i \in 1 .. n + 2] == IF i > n THEN <<>> ELSE piece[i] \o from[to[i]]
  IN from

LEMMA GatherIs ==
  ASSUME NEW piece, NEW to
  PROVE  /\ Gather(piece, to) = Gathered(piece, to)[1]
         /\ Gathered(piece, to) =
              CHOOSE f : f = [i \in 1 .. Len(piece) + 2 |-> GatherStep(piece, to, f, i)]
<1>1. Gather(piece, to) = Gathered(piece, to)[1]
  BY DEF Gather, Gathered
<1>2. Gathered(piece, to) =
        CHOOSE f : f = [i \in 1 .. Len(piece) + 2 |-> GatherStep(piece, to, f, i)]
  BY DEF Gathered, GatherStep
<1> QED BY <1>1, <1>2

LEMMA GatherStepTyped ==
  ASSUME NEW piece, NEW to, NEW V, Onwards(piece, to, V), NEW N, N = Len(piece) + 2,
         NEW f, NEW i \in 1..N, \A j \in i + 1..N : f[j] \in Seq(V)
  PROVE  GatherStep(piece, to, f, i) \in Seq(V)
<1>1. Len(piece) \in Nat
  BY DEF Onwards
<1>2. CASE i > Len(piece)
  <2>1. <<>> \in Seq(V)
    OBVIOUS
  <2> QED BY <1>2, <2>1 DEF GatherStep
<1>3. CASE ~(i > Len(piece))
  <2>1. i \in 1..Len(piece)
    BY <1>1, <1>3
  <2> DEFINE a == piece[i]
             b == f[to[i]]
  <2>2. a \in Seq(V) /\ b \in Seq(V)
    BY <2>1 DEF Onwards
  <2>3. GatherStep(piece, to, f, i) = a \o b
    BY <1>3 DEF GatherStep
  <2> HIDE DEF a, b
  <2> QED BY <2>2, <2>3
<1> QED BY <1>2, <1>3

LEMMA GatherStepLater ==
  ASSUME NEW piece, NEW to, NEW V, Onwards(piece, to, V), NEW N, N = Len(piece) + 2,
         NEW f, NEW g, NEW i \in 1..N, \A j \in i + 1..N : f[j] = g[j]
  PROVE  GatherStep(piece, to, f, i) = GatherStep(piece, to, g, i)
<1>1. Len(piece) \in Nat
  BY DEF Onwards
<1>2. CASE i > Len(piece)
  BY <1>2 DEF GatherStep
<1>3. CASE ~(i > Len(piece))
  <2>1. i \in 1..Len(piece)
    BY <1>1, <1>3
  <2>2. f[to[i]] = g[to[i]]
    BY <2>1 DEF Onwards
  <2> QED BY <1>3, <2>2 DEF GatherStep
<1> QED BY <1>2, <1>3

(* The recursion has a solution, and what is gathered from any position on *)
(* is of the kind of the pieces.                                           *)
LEMMA GatherSolved ==
  ASSUME NEW piece, NEW to, NEW V, Onwards(piece, to, V)
  PROVE  \A i \in 1 .. Len(piece) + 2 :
           /\ Gathered(piece, to)[i] \in Seq(V)
           /\ Gathered(piece, to)[i] = GatherStep(piece, to, Gathered(piece, to), i)
<1> DEFINE W == Seq(V)
           N == Len(piece) + 2
           E == [i \in 1..N |-> [f \in [1..N -> W] |-> GatherStep(piece, to, f, i)]]
           h == Gathered(piece, to)
<1>0. N \in Nat /\ 1 \in 1..N /\ <<>> \in W
  BY DEF Onwards
<1> HIDE DEF W
<1>1. \A i \in 1..N, f \in [1..N -> W] : E[i][f] = GatherStep(piece, to, f, i)
  OBVIOUS
<1>2. \A i \in 1..N, f \in [1..N -> W] : E[i][f] \in W
  <2> SUFFICES ASSUME NEW i \in 1..N, NEW f \in [1..N -> W] PROVE E[i][f] \in W
    OBVIOUS
  <2>1. \A j \in i + 1..N : f[j] \in W
    BY <1>0
  <2>2. GatherStep(piece, to, f, i) \in W
    BY <2>1, GatherStepTyped DEF W
  <2> QED BY <1>1, <2>2
<1>3. \A i \in 1..N, f, g \in [1..N -> W] :
        (\A j \in i + 1..N : f[j] = g[j]) => E[i][f] = E[i][g]
  <2> SUFFICES ASSUME NEW i \in 1..N, NEW f \in [1..N -> W], NEW g \in [1..N -> W],
                      \A j \in i + 1..N : f[j] = g[j]
               PROVE  E[i][f] = E[i][g]
    OBVIOUS
  <2>1. GatherStep(piece, to, f, i) = GatherStep(piece, to, g, i)
    BY GatherStepLater
  <2> QED BY <1>1, <2>1
<1> HIDE DEF E
<1>4. PICK f \in [1..N -> W] : \A i \in 1..N : f[i] = E[i][f]
  <2>1. FromLater(N, W, E)
    BY <1>2, <1>3 DEF FromLater
  <2>2. Solvable(N, W, E)
    <3> HIDE DEF N
    <3> QED BY <1>0, <2>1, DownwardRecursion
  <2> QED BY <2>2 DEF Solvable
<1>5. f = [i \in 1..N |-> GatherStep(piece, to, f, i)]
  BY <1>1, <1>4
<1>6. h = [i \in 1..N |-> GatherStep(piece, to, h, i)]
  BY <1>5, GatherIs
<1> DEFINE S == {i \in 1..N : h[i] \in W}
<1> HIDE DEF h
<1>7. \A i \in 1..N : h[i] = GatherStep(piece, to, h, i)
  BY <1>6
<1>8. ASSUME NEW i \in 1..N, \A j \in i + 1..N : j \in S PROVE i \in S
  <2>1. \A j \in i + 1..N : h[j] \in W
    BY <1>8
  <2>2. GatherStep(piece, to, h, i) \in W
    BY <2>1, GatherStepTyped DEF W
  <2> QED BY <1>7, <2>2
<1>9. \A i \in 1..N : i \in S
  <2> HIDE DEF S, N
  <2> QED BY <1>0, <1>8, Downward
<1>10. \A i \in 1..N : h[i] \in W
  BY <1>9
<1> QED BY <1>7, <1>10 DEF h, W

LEMMA GatherTyped ==
  ASSUME NEW piece, NEW to, NEW V, Onwards(piece, to, V)
  PROVE  Gather(piece, to) \in Seq(V)
<1>1. 1 \in 1 .. Len(piece) + 2
  BY DEF Onwards
<1>2. Gathered(piece, to)[1] \in Seq(V)
  BY <1>1, GatherSolved
<1> QED BY <1>2, GatherIs

LEMMA OnwardIs ==
  ASSUME NEW s \in Texts, NEW word, NEW i \in 1..Len(s)
  PROVE  Onward(s, word)[i] \in i + 1 .. Len(s) + 2
<1>1. Len(s) \in Nat /\ DOMAIN s = 1..Len(s)
  BY DEF Texts
<1>2. Onward(s, word)[i] =
        IF ~Closed(s, word, i) THEN i + 1
        ELSE IF word = "x" /\ Close(s, i) < Len(s) /\ s[Close(s, i) + 1] = "_" THEN Close(s, i) + 2
        ELSE Close(s, i) + 1
  BY <1>1 DEF Onward
<1>3. CASE ~Closed(s, word, i)
  BY <1>1, <1>2, <1>3
<1>4. CASE Closed(s, word, i)
  <2>1. PICK c \in i + 2..Len(s) : c = Close(s, i)
    BY <1>4, CloseIs
  <2>2. Onward(s, word)[i] \in {c + 1, c + 2}
    BY <1>2, <1>4, <2>1
  <2> QED BY <1>1, <2>1, <2>2
<1> QED BY <1>3, <1>4

LEMMA WithoutIs ==
  ASSUME NEW s \in Texts, NEW word
  PROVE  Without(s, word) \in Texts
<1> DEFINE p == [i \in DOMAIN s |-> IF Closed(s, word, i) THEN <<>> ELSE <<s[i]>>]
<1>1. Len(s) \in Nat /\ DOMAIN s = 1..Len(s) /\ \A i \in 1..Len(s) : s[i] \in Letters
  BY DEF Texts
<1>2. Len(p) = Len(s)
  BY <1>1
<1>3. \A i \in 1..Len(s) : p[i] \in Seq(Letters)
  <2>1. \A e \in Letters : <<e>> \in Seq(Letters)
    OBVIOUS
  <2>2. <<>> \in Seq(Letters)
    OBVIOUS
  <2> QED BY <1>1, <2>1, <2>2
<1>4. Without(s, word) = Gather(p, Onward(s, word))
  BY DEF Without
<1> HIDE DEF p
<1>5. Onwards(p, Onward(s, word), Letters)
  BY <1>1, <1>2, <1>3, OnwardIs DEF Onwards
<1> QED BY <1>4, <1>5, GatherTyped DEF Texts

LEMMA BlocksAre ==
  ASSUME NEW s \in Texts, NEW word
  PROVE  Len(Blocks(s, word)) \in Nat
<1> DEFINE parses(i) == Closed(s, word, i) /\ Trim(SubSeq(s, i + 2, Close(s, i) - 1)) = <<"g">>
           p == [i \in DOMAIN s |-> IF parses(i) THEN <<i>> ELSE <<>>]
<1>1. Len(s) \in Nat /\ DOMAIN s = 1..Len(s)
  BY DEF Texts
<1>2. Len(p) = Len(s)
  BY <1>1
<1>3. \A i \in 1..Len(s) : p[i] \in Seq(Nat)
  <2>1. \A e \in Nat : <<e>> \in Seq(Nat)
    OBVIOUS
  <2>2. <<>> \in Seq(Nat)
    OBVIOUS
  <2> HIDE DEF parses
  <2> QED BY <1>1, <2>1, <2>2
<1>4. Blocks(s, word) = Gather(p, Onward(s, word))
  BY DEF Blocks
<1> HIDE DEF p
<1>5. Onwards(p, Onward(s, word), Nat)
  BY <1>1, <1>2, <1>3, OnwardIs DEF Onwards
<1>6. Blocks(s, word) \in Seq(Nat)
  BY <1>4, <1>5, GatherTyped
<1> QED BY <1>6

LEMMA MostOf ==
  ASSUME NEW n \in Nat, NEW S \in SUBSET (1..n), S # {}
  PROVE  Max(S) \in S /\ \A m \in S : Max(S) >= m
<1> DEFINE T == {k \in 0..n : n - k \in S}
<1>1. T \in SUBSET Nat /\ T # {}
  <2>1. PICK i \in S : TRUE
    OBVIOUS
  <2>2. n - i \in T
    BY <2>1
  <2>3. T \subseteq Nat
    OBVIOUS
  <2> HIDE DEF T
  <2> QED BY <2>2, <2>3
<1>2. PICK m \in T : \A k \in T : m <= k
  <2> HIDE DEF T
  <2> QED BY <1>1, SomeLeast
<1>3. ASSUME NEW j \in S PROVE n - m >= j
  <2>1. n - j \in T
    OBVIOUS
  <2>2. m <= n - j
    BY <1>2, <2>1
  <2> QED BY <1>2, <2>2
<1>4. n - m \in S
  BY <1>2
<1>5. \E k \in S : \A j \in S : k >= j
  BY <1>3, <1>4
<1>6. Max(S) = CHOOSE k \in S : \A j \in S : k >= j
  BY DEF Max
<1> QED BY <1>5, <1>6

Ink(s) == {i \in DOMAIN s : s[i] # "_"}

LEMMA TrimIs ==
  ASSUME NEW s \in Texts
  PROVE  /\ Trim(s) \in Texts
         /\ Ink(s) = {} => Trim(s) = <<>>
         /\ Ink(s) # {} =>
              /\ Min(Ink(s)) \in Ink(s) /\ Max(Ink(s)) \in Ink(s)
              /\ \A i \in Ink(s) : Min(Ink(s)) <= i /\ i <= Max(Ink(s))
              /\ Trim(s) = SubSeq(s, Min(Ink(s)), Max(Ink(s)))
<1>1. Len(s) \in Nat /\ DOMAIN s = 1..Len(s)
  BY DEF Texts
<1>2. Ink(s) \subseteq 1..Len(s) /\ Ink(s) \subseteq Nat
  <2>1. Ink(s) \subseteq DOMAIN s
    BY DEF Ink
  <2> QED BY <1>1, <2>1
<1>3. Trim(s) = IF Ink(s) = {} THEN <<>> ELSE SubSeq(s, Min(Ink(s)), Max(Ink(s)))
  BY DEF Trim, Ink
<1>4. <<>> \in Texts
  BY DEF Texts
<1>5. ASSUME Ink(s) # {}
      PROVE  /\ Min(Ink(s)) \in Ink(s) /\ Max(Ink(s)) \in Ink(s)
             /\ \A i \in Ink(s) : Min(Ink(s)) <= i /\ i <= Max(Ink(s))
             /\ SubSeq(s, Min(Ink(s)), Max(Ink(s))) \in Texts
  <2>1. Min(Ink(s)) \in Ink(s) /\ \A i \in Ink(s) : Min(Ink(s)) <= i
    BY <1>2, <1>5, LeastOf
  <2>2. Max(Ink(s)) \in Ink(s) /\ \A i \in Ink(s) : Max(Ink(s)) >= i
    BY <1>1, <1>2, <1>5, MostOf
  <2>3. Min(Ink(s)) \in 1..Len(s) /\ Max(Ink(s)) \in 1..Len(s)
    BY <1>2, <2>1, <2>2
  <2>4. \A i \in Ink(s) : Min(Ink(s)) <= i /\ i <= Max(Ink(s))
    BY <1>2, <2>1, <2>2, <2>3
  <2>5. SubSeq(s, Min(Ink(s)), Max(Ink(s))) \in Texts
    BY <2>3, SubSeqProperties, <1>1 DEF Texts
  <2> QED BY <2>1, <2>2, <2>4, <2>5
<1> QED BY <1>3, <1>4, <1>5

LEMMA CleanIs ==
  ASSUME NEW s \in Texts
  PROVE  cleanGeminiText(s) \in Texts
BY WithoutIs, TrimIs DEF cleanGeminiText

LEMMA UnmarkedIs ==
  ASSUME NEW s \in Texts
  PROVE  Gather([i \in DOMAIN s |-> IF s[i] = "x" THEN <<>> ELSE <<s[i]>>],
                [i \in DOMAIN s |-> i + 1]) \in Texts
<1> DEFINE p == [i \in DOMAIN s |-> IF s[i] = "x" THEN <<>> ELSE <<s[i]>>]
           q == [i \in DOMAIN s |-> i + 1]
<1>1. Len(s) \in Nat /\ DOMAIN s = 1..Len(s) /\ \A i \in 1..Len(s) : s[i] \in Letters
  BY DEF Texts
<1>2. Len(p) = Len(s)
  BY <1>1
<1>3. \A i \in 1..Len(s) : p[i] \in Seq(Letters)
  <2>1. \A e \in Letters : <<e>> \in Seq(Letters)
    OBVIOUS
  <2>2. <<>> \in Seq(Letters)
    OBVIOUS
  <2> QED BY <1>1, <2>1, <2>2
<1>4. \A i \in 1..Len(s) : q[i] \in i + 1 .. Len(s) + 2
  BY <1>1
<1> HIDE DEF p, q
<1>5. Onwards(p, q, Letters)
  BY <1>1, <1>2, <1>3, <1>4 DEF Onwards
<1>6. Gather(p, q) \in Texts
  BY <1>5, GatherTyped DEF Texts
<1> QED BY <1>6 DEF p, q

LEMMA ExtractedIs ==
  ASSUME NEW s \in Texts
  PROVE  extractResponseText(s) \in Texts /\ ToolCalls(s) \in Nat
BY CleanIs, UnmarkedIs, TrimIs, BlocksAre DEF extractResponseText, ToolCalls

-----------------------------------------------------------------------------
(* The stream of a chat *)

Fields(o) ==
  DOMAIN o = {"log", "started", "msgIndex", "nextIdx", "heard", "thought"}

(* A chat names its chunks in this order, none of them twice.              *)
Rank(name) ==
  IF name = "role" THEN 0 ELSE IF name = "reasoning" THEN 1
  ELSE IF name = "content" THEN 2 ELSE IF name = "tool_calls" THEN 3
  ELSE IF name \in {"finish", "error"} THEN 4 ELSE 5
ChatNames == {"role", "reasoning", "content", "tool_calls", "finish", "error", "[DONE]"}

Rising(l, k) ==
  /\ l \in Seq(ChatNames \X {0})
  /\ \A i \in 1..Len(l) : Rank(l[i][1]) < k
  /\ \A i, j \in 1..Len(l) : i < j => Rank(l[i][1]) < Rank(l[j][1])
  /\ l # <<>> => l[1] = <<"role", 0>>

ChatOut(o, k) == Fields(o) /\ Rising(o.log, k) /\ (o.started <=> o.log # <<>>)

(* q is o with more in its log.                                            *)
Adds(o, q, tail) ==
  /\ Fields(q) /\ q.log = o.log \o tail
  /\ q.started = o.started /\ q.msgIndex = o.msgIndex /\ q.nextIdx = o.nextIdx

LEMMA AddsIs ==
  ASSUME NEW o, Fields(o), NEW tail
  PROVE  Adds(o, [o EXCEPT !.log = o.log \o tail], tail)
BY DEF Fields, Adds

LEMMA PutIs ==
  ASSUME NEW o, Fields(o), NEW name, NEW idx
  PROVE  Adds(o, Puts(o, <<name>>, idx), <<<<name, idx>>>>)
<1>1. [i \in DOMAIN <<name>> |-> <<<<name>>[i], idx>>] = <<<<name, idx>>>>
  OBVIOUS
<1>2. Puts(o, <<name>>, idx) = [o EXCEPT !.log = o.log \o <<<<name, idx>>>>]
  BY <1>1 DEF Puts
<1> QED BY <1>2, AddsIs

LEMMA RisingOn ==
  ASSUME NEW l, NEW k \in Nat, Rising(l, k), NEW name \in ChatNames, Rank(name) = k, l # <<>>
  PROVE  Rising(l \o <<<<name, 0>>>>, k + 1) /\ l \o <<<<name, 0>>>> # <<>>
<1> DEFINE e == <<name, 0>>
           m == l \o <<e>>
<1>1. l \in Seq(ChatNames \X {0}) /\ e \in ChatNames \X {0} /\ Len(l) \in Nat
  BY DEF Rising
<1>2. m \in Seq(ChatNames \X {0}) /\ Len(m) = Len(l) + 1 /\ m[Len(l) + 1] = e
      /\ \A i \in 1..Len(l) : m[i] = l[i]
  BY <1>1
<1>3. Rank(e[1]) = k
  OBVIOUS
<1>4. Len(l) > 0 /\ l[1] = <<"role", 0>>
  BY <1>1 DEF Rising
<1>5. \A i \in 1..Len(l) : Rank(l[i][1]) < k /\ Rank(l[i][1]) \in Nat
  BY DEF Rising, Rank
<1> HIDE DEF e, m
<1>6. \A i \in 1..Len(m) : i \in 1..Len(l) \/ i = Len(l) + 1
  BY <1>1, <1>2
<1>7. \A i \in 1..Len(m) : Rank(m[i][1]) < k + 1
  BY <1>2, <1>3, <1>5, <1>6
<1>8. \A i, j \in 1..Len(m) : i < j => Rank(m[i][1]) < Rank(m[j][1])
  <2> SUFFICES ASSUME NEW i \in 1..Len(m), NEW j \in 1..Len(m), i < j
               PROVE  Rank(m[i][1]) < Rank(m[j][1])
    OBVIOUS
  <2>1. i \in 1..Len(l)
    BY <1>1, <1>2
  <2>2. CASE j = Len(l) + 1
    BY <1>2, <1>3, <1>5, <2>1, <2>2
  <2>3. CASE j \in 1..Len(l)
    BY <1>2, <2>1, <2>3 DEF Rising
  <2> QED BY <1>6, <2>2, <2>3
<1>9. m # <<>> /\ m[1] = <<"role", 0>>
  BY <1>1, <1>2, <1>4
<1> QED BY <1>2, <1>7, <1>8, <1>9 DEF Rising, m, e

LEMMA RisingMore ==
  ASSUME NEW l, NEW k \in Nat, NEW n \in Nat, k <= n, Rising(l, k)
  PROVE  Rising(l, n)
<1>1. \A i \in 1..Len(l) : Rank(l[i][1]) < k /\ Rank(l[i][1]) \in Nat
  BY DEF Rising, Rank
<1> QED BY <1>1 DEF Rising

LEMMA ChatStart ==
  ASSUME NEW o, NEW k \in Nat \ {0}, ChatOut(o, k)
  PROVE  ChatOut(Start(o), k) /\ Start(o).log # <<>>
<1>1. CASE o.started
  BY <1>1 DEF Start, ChatOut
<1>2. CASE ~o.started
  <2> DEFINE p == [o EXCEPT !.started = TRUE]
             q == Puts(p, <<"role">>, 0)
  <2>1. Fields(p) /\ p.log = <<>> /\ p.started = TRUE
    BY <1>2 DEF ChatOut, Fields
  <2>2. q.log = p.log \o <<<<"role", 0>>>> /\ Fields(q) /\ q.started = TRUE
    <3> HIDE DEF p
    <3>1. Adds(p, q, <<<<"role", 0>>>>)
      BY <2>1, PutIs
    <3> HIDE DEF q
    <3> QED BY <2>1, <3>1 DEF Adds
  <2>3. q.log = <<<<"role", 0>>>>
    <3>1. \A e : <<>> \o <<e>> = <<e>>
      OBVIOUS
    <3> HIDE DEF p, q
    <3> QED BY <2>1, <2>2, <3>1
  <2>4. Rising(<<<<"role", 0>>>>, k)
    <3> DEFINE e == <<"role", 0>>
               l == <<e>>
    <3>1. e \in ChatNames \X {0} /\ e[1] = "role"
      BY DEF ChatNames
    <3> HIDE DEF e
    <3>2. l \in Seq(ChatNames \X {0}) /\ Len(l) = 1 /\ l[1] = e
      BY <3>1
    <3> HIDE DEF l
    <3>3. \A i \in 1..Len(l) : i = 1
      BY <3>2
    <3>4. Rank("role") = 0
      BY DEF Rank
    <3>5. Rising(l, k)
      BY <3>1, <3>2, <3>3, <3>4 DEF Rising, e
    <3> QED BY <3>5 DEF l, e
  <2>5. Start(o) = q
    BY <1>2 DEF Start
  <2> HIDE DEF q
  <2> QED BY <2>2, <2>3, <2>4, <2>5 DEF ChatOut
<1> QED BY <1>1, <1>2

LEMMA ChatPut ==
  ASSUME NEW o, NEW k \in Nat, ChatOut(o, k), o.log # <<>>,
         NEW name \in ChatNames, Rank(name) = k
  PROVE  /\ ChatOut(Puts(o, <<name>>, 0), k + 1)
         /\ Puts(o, <<name>>, 0).log = o.log \o <<<<name, 0>>>>
         /\ Puts(o, <<name>>, 0).log # <<>>
<1> DEFINE q == Puts(o, <<name>>, 0)
<1>1. Fields(q) /\ q.log = o.log \o <<<<name, 0>>>> /\ q.started = o.started
  <2>1. Fields(o)
    BY DEF ChatOut
  <2>2. Adds(o, q, <<<<name, 0>>>>)
    BY <2>1, PutIs
  <2> HIDE DEF q
  <2> QED BY <2>2 DEF Adds
<1>2. Rising(q.log, k + 1) /\ q.log # <<>>
  BY <1>1, RisingOn DEF ChatOut
<1> QED BY <1>1, <1>2 DEF ChatOut

(* Deltas of one kind in a row are one entry.                              *)
LEMMA ChatStream ==
  ASSUME NEW o, NEW name \in {"reasoning", "content"}, o.log # <<>>,
         NEW k \in Nat, k = Rank(name), ChatOut(o, k + 1)
  PROVE  ChatOut(Streams(o, name, 0), k + 1) /\ Streams(o, name, 0).log # <<>>
<1>1. CASE Last(o.log) = <<name, 0>>
  BY <1>1 DEF Streams
<1>2. CASE Last(o.log) # <<name, 0>>
  <2> DEFINE l == o.log
             n == Len(l)
  <2>1. l \in Seq(ChatNames \X {0}) /\ n \in Nat /\ n > 0
    BY DEF ChatOut, Rising
  <2>2. Last(l) = l[n]
    BY DEF Last
  <2>3. n \in 1..n /\ l[n] \in ChatNames \X {0} /\ l[n] = <<l[n][1], 0>>
    BY <2>1
  <2>4. Rank(l[n][1]) # k
    <3>1. \A m \in ChatNames : Rank(m) = Rank(name) => m = name
      BY DEF Rank, ChatNames
    <3> QED BY <1>2, <2>2, <2>3, <3>1
  <2>5. Rising(l, k + 1)
    BY DEF ChatOut
  <2>6. \A i \in 1..n : Rank(l[i][1]) < k + 1 /\ Rank(l[i][1]) \in Nat
    BY <2>5 DEF Rising, Rank
  <2>7. ASSUME NEW i \in 1..n PROVE Rank(l[i][1]) < k
    <3>1. CASE i = n
      BY <2>3, <2>4, <2>6, <3>1
    <3>2. CASE i < n
      <4>1. Rank(l[i][1]) < Rank(l[n][1])
        BY <2>3, <2>5, <3>2 DEF Rising
      <4> DEFINE a == Rank(l[i][1])
                 b == Rank(l[n][1])
      <4>2. a \in Nat /\ b \in Nat /\ a < b /\ b < k + 1
        BY <2>3, <2>6, <4>1
      <4> HIDE DEF a, b
      <4>3. a < k
        BY <4>2
      <4> QED BY <4>3 DEF a
    <3> QED BY <2>1, <3>1, <3>2
  <2>8. ChatOut(o, k)
    BY <2>5, <2>7 DEF ChatOut, Rising
  <2>9. name \in ChatNames
    BY DEF ChatNames
  <2>10. Streams(o, name, 0) = Puts(o, <<name>>, 0)
    BY <1>2 DEF Streams
  <2> QED BY <2>8, <2>9, <2>10, ChatPut
<1> QED BY <1>1, <1>2

LEMMA ChatReasoning ==
  ASSUME NEW o, ChatOut(o, 2), NEW d
  PROVE  /\ ChatOut(SendReasoning(o, d), 2)
         /\ d # <<>> => SendReasoning(o, d).log # <<>>
         /\ d = <<>> => SendReasoning(o, d) = o
<1>1. CASE d = <<>>
  BY <1>1 DEF SendReasoning
<1>2. CASE d # <<>>
  <2> DEFINE p == Start(o)
             q == [p EXCEPT !.thought = @ \o d]
  <2>1. ChatOut(p, 2) /\ p.log # <<>>
    BY ChatStart
  <2> HIDE DEF p
  <2>2. Fields(q) /\ q.log = p.log /\ q.started = p.started
    BY <2>1 DEF ChatOut, Fields
  <2>3. ChatOut(q, 2) /\ q.log # <<>>
    BY <2>1, <2>2 DEF ChatOut
  <2>4. Rank("reasoning") = 1
    BY DEF Rank
  <2>5. SendReasoning(o, d) = Streams(q, "reasoning", 0)
    BY <1>2 DEF SendReasoning, p
  <2> HIDE DEF q
  <2>6. ChatOut(q, 1 + 1)
    BY <2>3
  <2>7. ChatOut(Streams(q, "reasoning", 0), 1 + 1) /\ Streams(q, "reasoning", 0).log # <<>>
    BY <2>3, <2>4, <2>6, ChatStream
  <2> QED BY <1>2, <2>5, <2>7
<1> QED BY <1>1, <1>2

LEMMA ChatContent ==
  ASSUME NEW o, ChatOut(o, 3), NEW d
  PROVE  /\ ChatOut(SendContent(o, d), 3)
         /\ d # <<>> => SendContent(o, d).log # <<>>
         /\ d = <<>> => SendContent(o, d) = o
<1>1. CASE d = <<>>
  BY <1>1 DEF SendContent
<1>2. CASE d # <<>>
  <2> DEFINE p == Start(o)
             q == [p EXCEPT !.heard = @ \o d]
  <2>1. ChatOut(p, 3) /\ p.log # <<>>
    BY ChatStart
  <2> HIDE DEF p
  <2>2. Fields(q) /\ q.log = p.log /\ q.started = p.started
    BY <2>1 DEF ChatOut, Fields
  <2>3. ChatOut(q, 3) /\ q.log # <<>>
    BY <2>1, <2>2 DEF ChatOut
  <2>4. Rank("content") = 2
    BY DEF Rank
  <2>5. SendContent(o, d) = Streams(q, "content", 0)
    BY <1>2 DEF SendContent, p
  <2> HIDE DEF q
  <2>6. ChatOut(q, 2 + 1)
    BY <2>3
  <2>7. ChatOut(Streams(q, "content", 0), 2 + 1) /\ Streams(q, "content", 0).log # <<>>
    BY <2>3, <2>4, <2>6, ChatStream
  <2> QED BY <1>2, <2>5, <2>7
<1> QED BY <1>1, <1>2

LEMMA ChatCalls ==
  ASSUME NEW o, ChatOut(o, 3)
  PROVE  ChatOut(SendToolCalls(o), 4)
<1>1. ChatOut(Start(o), 3) /\ Start(o).log # <<>>
  BY ChatStart
<1>2. Rank("tool_calls") = 3 /\ "tool_calls" \in ChatNames
  BY DEF Rank, ChatNames
<1>3. ChatOut(Puts(Start(o), <<"tool_calls">>, 0), 3 + 1)
  BY <1>1, <1>2, ChatPut
<1> QED BY <1>3 DEF SendToolCalls

(* The end of a stream: how it ended, then [DONE].                         *)
ChatEnd(o, name) ==
  /\ ChatOut(o, 6)
  /\ Len(o.log) >= 2
  /\ o.log[Len(o.log) - 1] = <<name, 0>>
  /\ o.log[Len(o.log)] = <<"[DONE]", 0>>

LEMMA ConcatTwo ==
  ASSUME NEW S, NEW l \in Seq(S), NEW x \in S, NEW y \in S
  PROVE  (l \o <<x>>) \o <<y>> = l \o <<x, y>>
<1>1. <<x>> \in Seq(S) /\ <<y>> \in Seq(S) /\ <<x, y>> \in Seq(S)
  OBVIOUS
<1>2. <<x>> \o <<y>> \in Seq(S) /\ Len(<<x>> \o <<y>>) = 2
      /\ (<<x>> \o <<y>>)[1] = x /\ (<<x>> \o <<y>>)[2] = y
  OBVIOUS
<1>3. Len(<<x, y>>) = 2 /\ <<x, y>>[1] = x /\ <<x, y>>[2] = y
  OBVIOUS
<1>4. \A i \in 1..2 : i = 1 \/ i = 2
  OBVIOUS
<1>5. <<x>> \o <<y>> = <<x, y>>
  <2> DEFINE a == <<x>> \o <<y>>
             b == <<x, y>>
  <2>1. a \in Seq(S) /\ b \in Seq(S) /\ Len(a) = Len(b)
    BY <1>1, <1>2, <1>3
  <2>2. \A i \in 1..Len(a) : a[i] = b[i]
    BY <1>2, <1>3, <1>4
  <2> HIDE DEF a, b
  <2>3. a = b
    BY <2>1, <2>2, SeqEqual
  <2> QED BY <2>3 DEF a, b
<1>6. (l \o <<x>>) \o <<y>> = l \o (<<x>> \o <<y>>)
  BY <1>1, ConcatAssociative
<1> QED BY <1>5, <1>6

LEMMA ChatEnds ==
  ASSUME NEW o, ChatOut(o, 4), NEW name \in {"finish", "error"}
  PROVE  ChatEnd(Puts(Start(o), <<name, "[DONE]">>, 0), name)
<1> DEFINE p == Start(o)
           l == p.log
           a == Puts(p, <<name>>, 0)
           b == Puts(a, <<"[DONE]">>, 0)
           c == Puts(p, <<name, "[DONE]">>, 0)
<1>1. ChatOut(p, 4) /\ l # <<>>
  BY ChatStart
<1>2. Rank(name) = 4 /\ Rank("[DONE]") = 5 /\ name \in ChatNames /\ "[DONE]" \in ChatNames
  BY DEF Rank, ChatNames
<1> HIDE DEF p
<1>3. ChatOut(a, 4 + 1) /\ a.log = l \o <<<<name, 0>>>> /\ a.log # <<>>
  BY <1>1, <1>2, ChatPut
<1>3a. ChatOut(a, 5)
  BY <1>3
<1> HIDE DEF a
<1>4. ChatOut(b, 5 + 1) /\ b.log = a.log \o <<<<"[DONE]", 0>>>>
  BY <1>2, <1>3, <1>3a, ChatPut
<1> HIDE DEF b
<1>5. l \in Seq(ChatNames \X {0}) /\ Len(l) \in Nat /\ Len(l) > 0
  BY <1>1 DEF ChatOut, Rising
<1> DEFINE e == <<name, 0>>
           f == <<"[DONE]", 0>>
<1>6. e \in ChatNames \X {0} /\ f \in ChatNames \X {0}
  BY <1>2
<1>7. [i \in DOMAIN <<name, "[DONE]">> |-> <<<<name, "[DONE]">>[i], 0>>] = <<e, f>>
  OBVIOUS
<1>8. c = [p EXCEPT !.log = l \o <<e, f>>]
  BY <1>7 DEF Puts
<1>9. Fields(c) /\ c.log = l \o <<e, f>> /\ c.started = p.started
  BY <1>1, <1>8 DEF ChatOut, Fields
<1>10. b.log = (l \o <<e>>) \o <<f>>
  BY <1>3, <1>4
<1> HIDE DEF c, e, f
<1>11. (l \o <<e>>) \o <<f>> = l \o <<e, f>>
  BY <1>5, <1>6, ConcatTwo, ZenonT(40)
<1>12. /\ Len(l \o <<e, f>>) = Len(l) + 2
       /\ (l \o <<e, f>>)[Len(l) + 1] = e /\ (l \o <<e, f>>)[Len(l) + 2] = f
  BY <1>5, <1>6
<1>13. Rising(c.log, 6) /\ c.log # <<>> /\ c.started
  <2>1. c.log = b.log
    BY <1>9, <1>10, <1>11
  <2>2. Rising(c.log, 6)
    BY <1>4, <2>1 DEF ChatOut
  <2>3. c.log # <<>>
    BY <1>5, <1>9, <1>12
  <2> QED BY <1>1, <1>9, <2>2, <2>3 DEF ChatOut
<1>14. ChatOut(c, 6)
  BY <1>9, <1>13 DEF ChatOut
<1>15. Len(c.log) = Len(l) + 2
  BY <1>9, <1>12
<1>16. Len(c.log) >= 2 /\ Len(c.log) - 1 = Len(l) + 1
  BY <1>5, <1>15
<1>17. c.log[Len(c.log) - 1] = e /\ c.log[Len(c.log)] = f
  BY <1>9, <1>12, <1>15, <1>16
<1> QED BY <1>14, <1>16, <1>17 DEF ChatEnd, c, e, f, p

-----------------------------------------------------------------------------
(* The stream of the Responses interface *)

Uses == {"part added", "delta", "arguments done", "text done", "part done", "item done"}
Events == (Uses \cup {"created", "item added"}) \X Nat

(* pos[a] is where item a is announced, and only there.                    *)
Listed(l, k, pos) ==
  /\ pos \in [0 .. k - 1 -> 1..Len(l)]
  /\ \A a, b \in 0 .. k - 1 : a < b => pos[a] < pos[b]
  /\ \A a \in 0 .. k - 1 : l[pos[a]] = <<"item added", a>>
  /\ \A i \in 1..Len(l) : l[i][1] = "item added" => \E a \in 0 .. k - 1 : i = pos[a]
  /\ \A i \in 1..Len(l) : l[i][1] \in Uses => l[i][2] \in 0 .. k - 1 /\ pos[l[i][2]] < i

OnceDone(l) ==
  \A i, j \in 1..Len(l) :
    l[i][1] = "item done" /\ i < j /\ l[j][1] \in {"delta", "item done"} => l[i][2] # l[j][2]

Announced(l, k) == (\E pos : Listed(l, k, pos)) /\ OnceDone(l)
Quiet(l) == \A i \in 1..Len(l) : l[i][1] \notin Endings \cup {"finish", "completed"}

(* open: the items that are not finished.                                  *)
Response(l, k, open) ==
  /\ l \in Seq(Events) /\ l # <<>> /\ l[1] = <<"created", 0>>
  /\ Quiet(l) /\ Announced(l, k)
  /\ open \subseteq 0 .. k - 1
  /\ \A i \in 1..Len(l) : l[i][1] = "item done" => l[i][2] \notin open

LEMMA Earlier ==
  ASSUME NEW n \in Nat, NEW i \in 1 .. n + 1, NEW j \in 1 .. n + 1, i < j
  PROVE  i \in 1..n
OBVIOUS

LEMMA NoneAbove ==
  ASSUME NEW k \in Nat
  PROVE  \A a \in 0 .. k - 1 : ~(a >= k)
OBVIOUS

LEMMA OneMore ==
  ASSUME NEW l \in Seq(Events), NEW e \in Events
  PROVE  /\ l \o <<e>> \in Seq(Events) /\ Len(l) \in Nat
         /\ Len(l \o <<e>>) = Len(l) + 1 /\ (l \o <<e>>)[Len(l) + 1] = e
         /\ \A i \in 1..Len(l) : (l \o <<e>>)[i] = l[i]
         /\ \A i \in 1..Len(l \o <<e>>) : i \in 1..Len(l) \/ i = Len(l) + 1
OBVIOUS

LEMMA ListedBy ==
  ASSUME NEW l, NEW k, NEW open, Response(l, k, open)
  PROVE  \E pos : Listed(l, k, pos)
BY DEF Response, Announced

MayFollow(e, k, open, n, left) ==
  /\ e[1] \notin Endings \cup {"finish", "completed"}
  /\ left \subseteq 0 .. n - 1
  /\ \A i \in left : i \in open \/ i >= k
  /\ e[1] \in {"delta", "item done"} => e[2] \in open
  /\ e[1] = "item done" => e[2] \notin left

(* What any event that may follow adds to a log.                           *)
LEMMA ResponseFollows ==
  ASSUME NEW l, NEW k \in Nat, NEW open, Response(l, k, open), NEW e \in Events,
         NEW n \in Nat, NEW pos, Listed(l \o <<e>>, n, pos),
         NEW left, MayFollow(e, k, open, n, left)
  PROVE  Response(l \o <<e>>, n, left)
<1> DEFINE m == l \o <<e>>
<1>1. l \in Seq(Events) /\ l # <<>> /\ l[1] = <<"created", 0>>
  BY DEF Response
<1>2. /\ m \in Seq(Events) /\ Len(l) \in Nat
      /\ Len(m) = Len(l) + 1 /\ m[Len(l) + 1] = e
      /\ \A i \in 1..Len(l) : m[i] = l[i]
      /\ \A i \in 1..Len(m) : i \in 1..Len(l) \/ i = Len(l) + 1
  BY <1>1, OneMore
<1> HIDE DEF m
<1>2a. Len(l) \in Nat /\ Len(m) = Len(l) + 1
  BY <1>2
<1>3. m # <<>> /\ m[1] = <<"created", 0>>
  <2>1. Len(l) # 0
    BY <1>1, EmptySeq
  <2>2. 1 \in 1..Len(l) /\ Len(m) # 0
    BY <1>2a, <2>1
  <2>3. m # <<>>
    BY <2>2, <1>2, EmptySeq
  <2> QED BY <1>1, <1>2, <2>2, <2>3
<1>4. Quiet(m)
  BY <1>2 DEF Response, Quiet, MayFollow
<1>5. OnceDone(m)
  <2> SUFFICES ASSUME NEW i \in 1..Len(m), NEW j \in 1..Len(m), i < j,
                      m[i][1] = "item done", m[j][1] \in {"delta", "item done"}
               PROVE  m[i][2] # m[j][2]
    BY DEF OnceDone
  <2>1. i \in 1..Len(l)
    <3>1. i \in 1 .. Len(l) + 1 /\ j \in 1 .. Len(l) + 1
      BY <1>2a
    <3> QED BY <1>2a, <3>1, Earlier
  <2>2. CASE j \in 1..Len(l)
    <3>1. OnceDone(l) /\ m[i] = l[i] /\ m[j] = l[j]
      BY <1>2, <2>1, <2>2 DEF Response, Announced
    <3> QED BY <2>1, <2>2, <3>1 DEF OnceDone
  <2>3. CASE j = Len(l) + 1
    <3>1. m[i] = l[i] /\ m[j] = e
      BY <1>2, <2>1, <2>3
    <3>2. l[i][2] \notin open
      BY <2>1, <3>1 DEF Response
    <3>3. e[2] \in open
      BY <3>1 DEF MayFollow
    <3> QED BY <3>1, <3>2, <3>3
  <2> QED BY <1>2, <2>2, <2>3
<1>6. \A i \in 1..Len(m) : m[i][1] = "item done" => m[i][2] \notin left
  <2> SUFFICES ASSUME NEW i \in 1..Len(m), m[i][1] = "item done" PROVE m[i][2] \notin left
    OBVIOUS
  <2>1. CASE i \in 1..Len(l)
    <3>1. l[i][2] \notin open
      BY <1>2, <2>1 DEF Response
    <3>2. l[i][2] \in 0 .. k - 1
      <4>1. PICK where : Listed(l, k, where)
        BY ListedBy
      <4>2. l[i][1] \in Uses
        BY <1>2, <2>1 DEF Uses
      <4> QED BY <2>1, <4>1, <4>2 DEF Listed
    <3>3. \A a \in left : a \in open \/ a >= k
      BY DEF MayFollow
    <3>4. \A a \in 0 .. k - 1 : ~(a >= k)
      BY NoneAbove
    <3>5. l[i][2] \notin left
      BY <3>1, <3>2, <3>3, <3>4, Zenon
    <3> QED BY <1>2, <2>1, <3>5
  <2>2. CASE i = Len(l) + 1
    <3>1. e[1] = "item done" /\ m[i] = e
      BY <1>2, <2>2
    <3> QED BY <3>1 DEF MayFollow
  <2> QED BY <1>2, <2>1, <2>2
<1>7. left \subseteq 0 .. n - 1
  BY DEF MayFollow
<1>8. Announced(m, n)
  BY <1>5 DEF Announced, m
<1>9. m \in Seq(Events)
  BY <1>2
<1> QED BY <1>3, <1>4, <1>6, <1>7, <1>8, <1>9 DEF Response, m

LEMMA UseFollows ==
  ASSUME NEW l, NEW k \in Nat, NEW open, Response(l, k, open),
         NEW name \in Uses, NEW idx \in open
  PROVE  Response(l \o <<<<name, idx>>>>, k, IF name = "item done" THEN open \ {idx} ELSE open)
<1> DEFINE e == <<name, idx>>
           left == IF name = "item done" THEN open \ {idx} ELSE open
<1>1. idx \in 0 .. k - 1 /\ l \in Seq(Events)
  BY DEF Response
<1>2. e \in Events /\ e[1] = name /\ e[2] = idx
  <2>2. idx \in Nat
    BY <1>1
  <2> QED BY <2>2 DEF Events
<1>3. PICK pos : Listed(l, k, pos)
  BY ListedBy
<1> DEFINE m == l \o <<e>>
<1>4. /\ Len(l) \in Nat
      /\ Len(m) = Len(l) + 1 /\ m[Len(l) + 1] = e
      /\ \A i \in 1..Len(l) : m[i] = l[i]
      /\ \A i \in 1..Len(m) : i \in 1..Len(l) \/ i = Len(l) + 1
  BY <1>1, <1>2, OneMore
<1> HIDE DEF e, m
<1>5. Listed(m, k, pos)
  <2>1. pos \in [0 .. k - 1 -> 1..Len(m)]
    <3>1. 1..Len(l) \subseteq 1..Len(m)
      BY <1>4
    <3>2. pos \in [0 .. k - 1 -> 1..Len(l)]
      BY <1>3 DEF Listed
    <3> QED BY <3>1, <3>2
  <2>2. \A a \in 0 .. k - 1 : pos[a] \in 1..Len(l) /\ m[pos[a]] = <<"item added", a>>
    BY <1>3, <1>4 DEF Listed
  <2>3. \A i \in 1..Len(m) : m[i][1] = "item added" => \E a \in 0 .. k - 1 : i = pos[a]
    <3>1. e[1] # "item added"
      BY <1>2 DEF Uses
    <3> QED BY <1>3, <1>4, <3>1, ZenonT(40) DEF Listed
  <2>4. \A i \in 1..Len(m) : m[i][1] \in Uses => m[i][2] \in 0 .. k - 1 /\ pos[m[i][2]] < i
    <3> SUFFICES ASSUME NEW i \in 1..Len(m), m[i][1] \in Uses
                 PROVE  m[i][2] \in 0 .. k - 1 /\ pos[m[i][2]] < i
      OBVIOUS
    <3>1. CASE i \in 1..Len(l)
      BY <1>3, <1>4, <3>1 DEF Listed
    <3>2. CASE i = Len(l) + 1
      <4>1. m[i][2] = idx /\ pos[idx] \in 1..Len(l)
        BY <1>1, <1>2, <1>4, <2>2, <3>2
      <4>2. pos[idx] < i
        BY <1>4, <3>2, <4>1
      <4> QED BY <1>1, <4>1, <4>2
    <3> QED BY <1>4, <3>1, <3>2
  <2> QED BY <1>3, <2>1, <2>2, <2>3, <2>4 DEF Listed
<1>6. left \subseteq open
  OBVIOUS
<1>7. left \subseteq 0 .. k - 1
  BY <1>6 DEF Response
<1>8. name \notin Endings \cup {"finish", "completed"}
  BY DEF Uses, Endings
<1>9. name = "item done" => idx \notin left
  OBVIOUS
<1> HIDE DEF left
<1>10. MayFollow(e, k, open, k, left)
  BY <1>2, <1>6, <1>7, <1>8, <1>9 DEF MayFollow
<1>11. Response(m, k, left)
  BY <1>2, <1>5, <1>10, ResponseFollows DEF m
<1> QED BY <1>11 DEF m, e, left

LEMMA ItemFollows ==
  ASSUME NEW l, NEW k \in Nat, NEW open, Response(l, k, open)
  PROVE  Response(l \o <<<<"item added", k>>>>, k + 1, open \cup {k})
<1> DEFINE e == <<"item added", k>>
           left == open \cup {k}
           m == l \o <<e>>
<1>1. l \in Seq(Events) /\ e \in Events /\ e[1] = "item added" /\ e[2] = k
  <2>1. l \in Seq(Events)
    BY DEF Response
  <2>2. e \in Events
    BY DEF Events
  <2> QED BY <2>1, <2>2
<1>2. /\ Len(l) \in Nat
      /\ Len(m) = Len(l) + 1 /\ m[Len(l) + 1] = e
      /\ \A i \in 1..Len(l) : m[i] = l[i]
      /\ \A i \in 1..Len(m) : i \in 1..Len(l) \/ i = Len(l) + 1
  BY <1>1, OneMore
<1>3. PICK old : Listed(l, k, old)
  BY ListedBy
<1> DEFINE pos == [a \in 0 .. (k + 1) - 1 |-> IF a = k THEN Len(l) + 1 ELSE old[a]]
<1>4. \A a \in 0 .. (k + 1) - 1 : a \in 0 .. k - 1 \/ a = k
  OBVIOUS
<1>5. k \in 0 .. (k + 1) - 1 /\ \A a \in 0 .. k - 1 : a \in 0 .. (k + 1) - 1 /\ a # k
  OBVIOUS
<1>6. pos[k] = Len(l) + 1 /\ \A a \in 0 .. k - 1 : pos[a] = old[a] /\ old[a] \in 1..Len(l)
  BY <1>3, <1>5 DEF Listed
<1>7. pos \in [0 .. (k + 1) - 1 -> 1..Len(m)]
  <2>1. \A a \in 0 .. (k + 1) - 1 : (IF a = k THEN Len(l) + 1 ELSE old[a]) \in 1..Len(m)
    <3> HIDE DEF m
    <3>1. Len(l) \in Nat /\ Len(m) = Len(l) + 1
      BY <1>2
    <3>2. Len(l) + 1 \in 1..Len(m) /\ 1..Len(l) \subseteq 1..Len(m)
      BY <3>1
    <3> QED BY <1>4, <1>6, <3>2
  <2> HIDE DEF m
  <2> QED BY <2>1
<1> HIDE DEF e, m, pos
<1>8. \A a, b \in 0 .. (k + 1) - 1 : a < b => pos[a] < pos[b]
  <2> SUFFICES ASSUME NEW a \in 0 .. (k + 1) - 1, NEW b \in 0 .. (k + 1) - 1, a < b
               PROVE  pos[a] < pos[b]
    OBVIOUS
  <2>1. a \in 0 .. k - 1
    OBVIOUS
  <2>2. CASE b = k
    BY <1>2, <1>6, <2>1, <2>2
  <2>3. CASE b \in 0 .. k - 1
    BY <1>3, <1>6, <2>1, <2>3 DEF Listed
  <2> QED BY <1>4, <2>2, <2>3
<1>9. \A a \in 0 .. (k + 1) - 1 : m[pos[a]] = <<"item added", a>>
  <2> SUFFICES ASSUME NEW a \in 0 .. (k + 1) - 1 PROVE m[pos[a]] = <<"item added", a>>
    OBVIOUS
  <2>1. CASE a = k
    BY <1>2, <1>6, <2>1 DEF e
  <2>2. CASE a \in 0 .. k - 1
    BY <1>2, <1>3, <1>6, <2>2 DEF Listed
  <2> QED BY <1>4, <2>1, <2>2
<1>10. \A i \in 1..Len(m) : m[i][1] = "item added" => \E a \in 0 .. (k + 1) - 1 : i = pos[a]
  <2> SUFFICES ASSUME NEW i \in 1..Len(m), m[i][1] = "item added"
               PROVE  \E a \in 0 .. (k + 1) - 1 : i = pos[a]
    OBVIOUS
  <2>1. CASE i = Len(l) + 1
    BY <1>5, <1>6, <2>1
  <2>2. CASE i \in 1..Len(l)
    <3>1. PICK a \in 0 .. k - 1 : i = old[a]
      BY <1>2, <1>3, <2>2 DEF Listed
    <3> QED BY <1>5, <1>6, <3>1
  <2> QED BY <1>2, <2>1, <2>2
<1>11. \A i \in 1..Len(m) : m[i][1] \in Uses =>
         m[i][2] \in 0 .. (k + 1) - 1 /\ pos[m[i][2]] < i
  <2> SUFFICES ASSUME NEW i \in 1..Len(m), m[i][1] \in Uses
               PROVE  m[i][2] \in 0 .. (k + 1) - 1 /\ pos[m[i][2]] < i
    OBVIOUS
  <2>1. CASE i = Len(l) + 1
    BY <1>1, <1>2, <2>1 DEF Uses
  <2>2. CASE i \in 1..Len(l)
    <3>1. l[i][2] \in 0 .. k - 1 /\ old[l[i][2]] < i /\ m[i] = l[i]
      BY <1>2, <1>3, <2>2 DEF Listed
    <3> QED BY <1>5, <1>6, <3>1
  <2> QED BY <1>2, <2>1, <2>2
<1>12. Listed(m, k + 1, pos)
  BY <1>7, <1>8, <1>9, <1>10, <1>11 DEF Listed
<1>13. left \subseteq 0 .. (k + 1) - 1 /\ \A i \in left : i \in open \/ i >= k
  <2>1. open \subseteq 0 .. k - 1
    BY DEF Response
  <2> QED BY <2>1
<1>14. k + 1 \in Nat
  OBVIOUS
<1>15. "item added" \notin Endings \cup {"finish", "completed"}
  BY DEF Endings
<1> HIDE DEF left
<1>16. Response(m, k + 1, left)
  <2>1. MayFollow(e, k, open, k + 1, left)
    BY <1>1, <1>13, <1>15 DEF MayFollow
  <2> QED BY <1>1, <1>12, <1>14, <2>1, ResponseFollows DEF m
<1> QED BY <1>16 DEF m, e, left

(* What handleResponses has written so far; its message, once announced,   *)
(* is not finished.                                                        *)
Writing(o, open) ==
  /\ Fields(o) /\ o.nextIdx \in Nat
  /\ Response(o.log, o.nextIdx, open)
  /\ o.msgIndex # None => o.msgIndex \in open

LEMMA PutTwo ==
  ASSUME NEW o, Fields(o), NEW x, NEW y, NEW idx
  PROVE  Adds(o, Puts(o, <<x, y>>, idx), <<<<x, idx>>, <<y, idx>>>>)
<1>1. [i \in DOMAIN <<x, y>> |-> <<<<x, y>>[i], idx>>] = <<<<x, idx>>, <<y, idx>>>>
  OBVIOUS
<1>2. Puts(o, <<x, y>>, idx) = [o EXCEPT !.log = o.log \o <<<<x, idx>>, <<y, idx>>>>]
  BY <1>1 DEF Puts
<1> QED BY <1>2, AddsIs

LEMMA PutThree ==
  ASSUME NEW o, Fields(o), NEW x, NEW y, NEW z, NEW idx
  PROVE  Adds(o, Puts(o, <<x, y, z>>, idx), <<<<x, idx>>, <<y, idx>>, <<z, idx>>>>)
<1>1. [i \in DOMAIN <<x, y, z>> |-> <<<<x, y, z>>[i], idx>>] = <<<<x, idx>>, <<y, idx>>, <<z, idx>>>>
  OBVIOUS
<1>2. Puts(o, <<x, y, z>>, idx) = [o EXCEPT !.log = o.log \o <<<<x, idx>>, <<y, idx>>, <<z, idx>>>>]
  BY <1>1 DEF Puts
<1> QED BY <1>2, AddsIs

ThreeInTurn(l, x, y, z) == ((l \o <<x>>) \o <<y>>) \o <<z>> = l \o <<x, y, z>>

LEMMA ConcatThree ==
  ASSUME NEW S, NEW l \in Seq(S), NEW x \in S, NEW y \in S, NEW z \in S
  PROVE  ThreeInTurn(l, x, y, z)
<1>1. (l \o <<x>>) \o <<y>> = l \o <<x, y>>
  BY ConcatTwo
<1>2. <<x, y>> \in Seq(S) /\ <<z>> \in Seq(S) /\ <<x, y, z>> \in Seq(S)
  OBVIOUS
<1> DEFINE a == <<x, y>> \o <<z>>
           b == <<x, y, z>>
<1>3. a = b
  <2>1. a \in Seq(S) /\ Len(a) = 3 /\ a[1] = x /\ a[2] = y /\ a[3] = z
    OBVIOUS
  <2>2. b \in Seq(S) /\ Len(b) = 3 /\ b[1] = x /\ b[2] = y /\ b[3] = z
    OBVIOUS
  <2>3. \A i \in 1..3 : i = 1 \/ i = 2 \/ i = 3
    OBVIOUS
  <2> HIDE DEF a, b
  <2> QED BY <2>1, <2>2, <2>3, SeqEqual
<1>4. (l \o <<x, y>>) \o <<z>> = l \o (<<x, y>> \o <<z>>)
  BY <1>2, ConcatAssociative
<1>5. ((l \o <<x>>) \o <<y>>) \o <<z>> = (l \o <<x, y>>) \o <<z>>
  BY <1>1
<1> QED BY <1>3, <1>4, <1>5 DEF ThreeInTurn

LEMMA WritingPut ==
  ASSUME NEW o, NEW open, Writing(o, open), NEW name \in Uses, NEW idx \in open,
         name = "item done" => idx # o.msgIndex
  PROVE  /\ Writing(Puts(o, <<name>>, idx), IF name = "item done" THEN open \ {idx} ELSE open)
         /\ Puts(o, <<name>>, idx).msgIndex = o.msgIndex
         /\ Puts(o, <<name>>, idx).nextIdx = o.nextIdx
<1> DEFINE q == Puts(o, <<name>>, idx)
           left == IF name = "item done" THEN open \ {idx} ELSE open
<1>1. Fields(q) /\ q.log = o.log \o <<<<name, idx>>>> /\ q.msgIndex = o.msgIndex
      /\ q.nextIdx = o.nextIdx
  <2>1. Fields(o)
    BY DEF Writing
  <2>2. Adds(o, q, <<<<name, idx>>>>)
    BY <2>1, PutIs
  <2> HIDE DEF q
  <2> QED BY <2>2 DEF Adds
<1>2. Response(q.log, o.nextIdx, left)
  <2>1. Response(o.log, o.nextIdx, open) /\ o.nextIdx \in Nat
    BY DEF Writing
  <2>2. Response(o.log \o <<<<name, idx>>>>, o.nextIdx, left)
    BY <2>1, UseFollows
  <2> HIDE DEF q, left
  <2> QED BY <1>1, <2>2
<1>3. q.msgIndex # None => q.msgIndex \in left
  BY <1>1 DEF Writing
<1> HIDE DEF q, left
<1>4. Writing(q, left)
  BY <1>1, <1>2, <1>3 DEF Writing
<1> QED BY <1>1, <1>4 DEF q, left

(* The two events that announce the message under the next index.          *)
LEMMA EnsureWriting ==
  ASSUME NEW o, NEW open, Writing(o, open)
  PROVE  \E left : Writing(EnsureMsg(o), left) /\ EnsureMsg(o).msgIndex \in left
<1>1. CASE o.msgIndex # None
  BY <1>1 DEF EnsureMsg, Writing
<1>2. CASE o.msgIndex = None
  <2> DEFINE k == o.nextIdx
             l == o.log
             p == [o EXCEPT !.msgIndex = o.nextIdx, !.nextIdx = @ + 1]
             a == <<"item added", k>>
             b == <<"part added", k>>
             q == Puts(p, <<"item added", "part added">>, k)
  <2>1. k \in Nat /\ Response(l, k, open) /\ l \in Seq(Events)
    BY DEF Writing, Response
  <2>2. Response(l \o <<a>>, k + 1, open \cup {k})
    BY <2>1, ItemFollows
  <2>3. Response((l \o <<a>>) \o <<b>>, k + 1, open \cup {k})
    <3>1. "part added" \in Uses /\ "part added" # "item done" /\ k \in open \cup {k} /\ k + 1 \in Nat
      BY <2>1 DEF Uses
    <3> QED BY <2>2, <3>1, UseFollows
  <2>4. a \in Events /\ b \in Events
    BY <2>1 DEF Events, Uses
  <2>6. Fields(p) /\ p.log = l /\ p.msgIndex = k /\ p.nextIdx = k + 1
    BY DEF Writing, Fields
  <2> HIDE DEF p
  <2>8. Fields(q) /\ q.log = l \o <<a, b>> /\ q.msgIndex = k /\ q.nextIdx = k + 1
    <3>1. Fields(p)
      BY <2>6
    <3> HIDE DEF k
    <3>2. Adds(p, q, <<a, b>>)
      BY <3>1, PutTwo
    <3> HIDE DEF q
    <3> QED BY <2>6, <3>2 DEF Adds
  <2>9. q.log = (l \o <<a>>) \o <<b>>
    BY <2>1, <2>4, <2>8, ConcatTwo, ZenonT(40)
  <2> HIDE DEF q
  <2>10. Writing(q, open \cup {k})
    <3>1. Response(q.log, k + 1, open \cup {k})
      BY <2>3, <2>9
    <3>2. k + 1 \in Nat /\ k \in open \cup {k}
      BY <2>1
    <3> HIDE DEF k, l, a, b
    <3> QED BY <2>8, <3>1, <3>2 DEF Writing
  <2>11. EnsureMsg(o) = q
    BY <1>2 DEF EnsureMsg, p, q
  <2> HIDE DEF k, l, a, b
  <2> QED BY <2>8, <2>10, <2>11
<1> QED BY <1>1, <1>2

LEMMA DeltaWriting ==
  ASSUME NEW o, NEW open, Writing(o, open), NEW d
  PROVE  \E left : Writing(EmitDelta(o, d), left)
<1> DEFINE e == EnsureMsg(o)
           q == [e EXCEPT !.heard = @ \o d]
<1>1. PICK left : Writing(e, left) /\ e.msgIndex \in left
  BY EnsureWriting
<1> HIDE DEF e
<1>2. Fields(q) /\ q.log = e.log /\ q.msgIndex = e.msgIndex /\ q.nextIdx = e.nextIdx
  BY <1>1 DEF Writing, Fields
<1>3. Writing(q, left)
  BY <1>1, <1>2 DEF Writing
<1>4. EmitDelta(o, d) = Streams(q, "delta", e.msgIndex)
  BY DEF EmitDelta, e
<1> HIDE DEF q
<1>5. Streams(q, "delta", e.msgIndex) \in {q, Puts(q, <<"delta">>, e.msgIndex)}
  BY DEF Streams
<1>6. Writing(Puts(q, <<"delta">>, e.msgIndex), left)
  <2>1. "delta" \in Uses /\ "delta" # "item done"
    BY DEF Uses
  <2> QED BY <1>1, <1>3, <2>1, WritingPut
<1> QED BY <1>3, <1>4, <1>5, <1>6

CallEvent(k, i) == <<CallEvents[((i - 1) % 3) + 1], k + (i - 1) \div 3>>
CallTail(k, n) == [i \in 1 .. 3 * n |-> CallEvent(k, i)]

LEMMA ThreeMore ==
  ASSUME NEW n \in Nat
  PROVE  /\ 3 * (n + 1) = 3 * n + 3 /\ 3 * n \in Nat
         /\ ((3 * n + 1) - 1) % 3 = 0 /\ ((3 * n + 1) - 1) \div 3 = n
         /\ ((3 * n + 2) - 1) % 3 = 1 /\ ((3 * n + 2) - 1) \div 3 = n
         /\ ((3 * n + 3) - 1) % 3 = 2 /\ ((3 * n + 3) - 1) \div 3 = n
OBVIOUS

LEMMA CallEventsAre ==
  /\ CallEvents[1] = "item added" /\ CallEvents[2] = "arguments done"
  /\ CallEvents[3] = "item done"
BY DEF CallEvents

LEMMA CallEventIn ==
  ASSUME NEW k \in Nat, NEW i \in Nat \ {0}
  PROVE  CallEvent(k, i) \in Events
<1> DEFINE r == ((i - 1) % 3) + 1
           q == (i - 1) \div 3
<1>1. r \in 1..3 /\ q \in Nat
  OBVIOUS
<1> HIDE DEF r, q
<1>2. r = 1 \/ r = 2 \/ r = 3
  BY <1>1
<1>3. CallEvents[r] \in Uses \cup {"created", "item added"}
  BY <1>2, CallEventsAre DEF Uses
<1>4. k + q \in Nat
  BY <1>1
<1> QED BY <1>3, <1>4 DEF CallEvent, Events, r, q

LEMMA CallTailMore ==
  ASSUME NEW k \in Nat, NEW n \in Nat
  PROVE  CallTail(k, n + 1) =
           CallTail(k, n) \o <<<<"item added", k + n>>, <<"arguments done", k + n>>,
                               <<"item done", k + n>>>>
<1> DEFINE x == <<"item added", k + n>>
           y == <<"arguments done", k + n>>
           z == <<"item done", k + n>>
           s == CallTail(k, n + 1)
           t == CallTail(k, n)
           u == t \o <<x, y, z>>
           m == 3 * n
<1>1. CallEvent(k, m + 1) = x /\ CallEvent(k, m + 2) = y /\ CallEvent(k, m + 3) = z
  <2>1. CallEvent(k, m + 1) = <<CallEvents[1], k + n>>
    BY ThreeMore DEF CallEvent
  <2>2. CallEvent(k, m + 2) = <<CallEvents[2], k + n>>
    BY ThreeMore DEF CallEvent
  <2>3. CallEvent(k, m + 3) = <<CallEvents[3], k + n>>
    BY ThreeMore DEF CallEvent
  <2> QED BY <2>1, <2>2, <2>3, CallEventsAre
<1>2. m \in Nat /\ 3 * (n + 1) = m + 3
  BY ThreeMore
<1> HIDE DEF m
<1>3. t \in Seq(Events) /\ Len(t) = m /\ \A i \in 1..m : t[i] = CallEvent(k, i)
  <2>1. \A i \in 1..m : CallEvent(k, i) \in Events
    BY <1>2, CallEventIn
  <2>2. t = [i \in 1..m |-> CallEvent(k, i)]
    BY DEF CallTail, m
  <2> HIDE DEF t
  <2> QED BY <1>2, <2>1, <2>2
<1>4. s \in Seq(Events) /\ Len(s) = m + 3 /\ \A i \in 1 .. m + 3 : s[i] = CallEvent(k, i)
  <2>1. \A i \in 1 .. m + 3 : CallEvent(k, i) \in Events
    BY <1>2, CallEventIn
  <2>2. s = [i \in 1 .. m + 3 |-> CallEvent(k, i)]
    BY <1>2 DEF CallTail, m
  <2> HIDE DEF s
  <2> QED BY <1>2, <2>1, <2>2
<1>5. x \in Events /\ y \in Events /\ z \in Events
  <2>1. k + n \in Nat
    OBVIOUS
  <2> QED BY <2>1 DEF Events, Uses
<1> HIDE DEF x, y, z, s, t
<1>6. /\ u \in Seq(Events) /\ Len(u) = m + 3
      /\ \A i \in 1..m : u[i] = t[i]
      /\ u[m + 1] = x /\ u[m + 2] = y /\ u[m + 3] = z
  BY <1>2, <1>3, <1>5
<1> HIDE DEF u
<1>7. \A i \in 1 .. m + 3 : i \in 1..m \/ i = m + 1 \/ i = m + 2 \/ i = m + 3
  BY <1>2
<1>8. \A i \in 1 .. m + 3 : s[i] = u[i]
  BY <1>1, <1>3, <1>4, <1>6, <1>7, SMTT(30)
<1>9. s = u
  BY <1>4, <1>6, <1>8, SeqEqual
<1> QED BY <1>9 DEF s, t, u, x, y, z

LEMMA CallFollows ==
  ASSUME NEW l, NEW k \in Nat, NEW open, Response(l, k, open)
  PROVE  Response(l \o <<<<"item added", k>>, <<"arguments done", k>>, <<"item done", k>>>>,
                  k + 1, open)
<1> DEFINE x == <<"item added", k>>
           y == <<"arguments done", k>>
           z == <<"item done", k>>
           both == open \cup {k}
<1>1. x \in Events /\ y \in Events /\ z \in Events /\ l \in Seq(Events)
  BY DEF Events, Uses, Response
<1>2. k + 1 \in Nat /\ k \in both
  OBVIOUS
<1>3. Response(l \o <<x>>, k + 1, both)
  BY ItemFollows
<1> HIDE DEF both
<1>4. Response((l \o <<x>>) \o <<y>>, k + 1, both)
  <2>1. "arguments done" \in Uses /\ "arguments done" # "item done"
    BY DEF Uses
  <2> QED BY <1>2, <1>3, <2>1, UseFollows
<1>5. Response(((l \o <<x>>) \o <<y>>) \o <<z>>, k + 1, both \ {k})
  <2>1. "item done" \in Uses
    BY DEF Uses
  <2> QED BY <1>2, <1>4, <2>1, UseFollows
<1>6. both \ {k} = open
  <2>1. open \subseteq 0 .. k - 1
    BY DEF Response
  <2>2. k \notin open
    BY <2>1
  <2> QED BY <2>2 DEF both
<1> HIDE DEF x, y, z
<1>7. ((l \o <<x>>) \o <<y>>) \o <<z>> = l \o <<x, y, z>>
  <2>1. l \in Seq(Events)
    BY <1>1
  <2>2. x \in Events
    BY <1>1
  <2>3. y \in Events
    BY <1>1
  <2>4. z \in Events
    BY <1>1
  <2>5. ThreeInTurn(l, x, y, z)
    BY <2>1, <2>2, <2>3, <2>4, ConcatThree
  <2> QED BY <2>5 DEF ThreeInTurn
<1> QED BY <1>5, <1>6, <1>7 DEF x, y, z

LEMMA CallsFollow ==
  ASSUME NEW l, NEW k \in Nat, NEW open, Response(l, k, open), NEW n \in Nat
  PROVE  Response(l \o CallTail(k, n), k + n, open)
<1> DEFINE T == {m \in Nat : ~Response(l \o CallTail(k, m), k + m, open)}
<1> SUFFICES ASSUME n \in T PROVE FALSE
  OBVIOUS
<1>1. l \in Seq(Events)
  BY DEF Response
<1>2. PICK m \in T : \A j \in T : m <= j
  <2> T \in SUBSET Nat /\ T # {}
    OBVIOUS
  <2> HIDE DEF T
  <2> QED BY SomeLeast
<1>3. CASE m = 0
  <2>1. CallTail(k, 0) = <<>>
    BY DEF CallTail
  <2>2. l \o <<>> = l
    BY <1>1
  <2>3. k + 0 = k
    OBVIOUS
  <2> QED BY <1>3, <2>1, <2>2, <2>3
<1>4. CASE m # 0
  <2> DEFINE j == m - 1
  <2>1. j \in Nat /\ m = j + 1 /\ ~(m <= j) /\ k + j \in Nat /\ (k + j) + 1 = k + m
    BY <1>4
  <2>2. Response(l \o CallTail(k, j), k + j, open)
    BY <1>2, <2>1
  <2> DEFINE x == <<"item added", k + j>>
             y == <<"arguments done", k + j>>
             z == <<"item done", k + j>>
  <2> HIDE DEF j
  <2>3. Response((l \o CallTail(k, j)) \o <<x, y, z>>, k + m, open)
    BY <2>1, <2>2, CallFollows
  <2>4. CallTail(k, m) = CallTail(k, j) \o <<x, y, z>>
    BY <2>1, CallTailMore
  <2>5. CallTail(k, j) \in Seq(Events)
    <3>1. \A i \in 1 .. 3 * j : CallEvent(k, i) \in Events
      BY <2>1, CallEventIn
    <3>2. 3 * j \in Nat
      BY <2>1
    <3> QED BY <3>1, <3>2 DEF CallTail
  <2>6. <<x, y, z>> \in Seq(Events)
    <3>1. x \in Events /\ y \in Events /\ z \in Events
      BY <2>1 DEF Events, Uses
    <3> HIDE DEF x, y, z
    <3> QED BY <3>1
  <2> HIDE DEF x, y, z
  <2> DEFINE t == CallTail(k, j)
             c == <<x, y, z>>
  <2>7. (l \o t) \o c = l \o (t \o c)
    <3>1. t \in Seq(Events)
      BY <2>5
    <3>2. c \in Seq(Events)
      BY <2>6
    <3> HIDE DEF t, c
    <3> QED BY <1>1, <3>1, <3>2, SMTT(30)
  <2> QED BY <2>3, <2>4, <2>7
<1> QED BY <1>3, <1>4

LEMMA CallsWriting ==
  ASSUME NEW o, NEW open, Writing(o, open), NEW n \in Nat
  PROVE  Writing(CallItems(o, n), open)
<1> DEFINE q == CallItems(o, n)
           k == o.nextIdx
<1>1. k \in Nat /\ Response(o.log, k, open)
  BY DEF Writing
<1>2. Response(o.log \o CallTail(k, n), k + n, open)
  BY <1>1, CallsFollow
<1>3. Fields(q) /\ q.log = o.log \o CallTail(k, n) /\ q.nextIdx = k + n /\ q.msgIndex = o.msgIndex
  BY DEF Writing, Fields, CallItems, CallTail, CallEvent
<1>4. k + n \in Nat
  BY <1>1
<1> HIDE DEF q, k
<1>5. Writing(q, open)
  BY <1>2, <1>3, <1>4 DEF Writing
<1> QED BY <1>5 DEF q

(* The end: one more event, after which nothing is written.                *)
Ended(l, name) ==
  \E m, k, open : k \in Nat /\ Response(m, k, open) /\ l = m \o <<<<name, 0>>>>

Written(o) ==
  /\ Fields(o) /\ o.nextIdx \in Nat
  /\ \E open : Response(o.log, o.nextIdx, open)

LEMMA MessageWritten ==
  ASSUME NEW o, NEW open, Writing(o, open)
  PROVE  Written(MessageItem(o))
<1> DEFINE e == EnsureMsg(o)
           i == e.msgIndex
           x == <<"text done", i>>
           y == <<"part done", i>>
           z == <<"item done", i>>
           l == e.log
           k == e.nextIdx
           q == Puts(e, <<"text done", "part done", "item done">>, i)
<1>1. PICK left : Writing(e, left) /\ i \in left
  BY EnsureWriting
<1>2. MessageItem(o) = q
  BY DEF MessageItem
<1> HIDE DEF e
<1>3. Fields(e) /\ k \in Nat /\ Response(l, k, left)
  BY <1>1 DEF Writing
<1>4. Adds(e, q, <<x, y, z>>)
  <2>1. Fields(e)
    BY <1>3
  <2> QED BY <2>1, PutThree
<1> HIDE DEF i, q
<1>5. /\ "text done" \in Uses /\ "text done" # "item done"
      /\ "part done" \in Uses /\ "part done" # "item done" /\ "item done" \in Uses
  BY DEF Uses
<1> HIDE DEF l, k
<1>6. Response(l \o <<x>>, k, left)
  BY <1>1, <1>3, <1>5, UseFollows
<1>7. Response((l \o <<x>>) \o <<y>>, k, left)
  BY <1>1, <1>3, <1>5, <1>6, UseFollows
<1>8. Response(((l \o <<x>>) \o <<y>>) \o <<z>>, k, left \ {i})
  BY <1>1, <1>3, <1>5, <1>7, UseFollows
<1>9. ThreeInTurn(l, x, y, z)
  <2>1. l \in Seq(Events)
    BY <1>3 DEF Response
  <2>2. i \in Nat
    <3>1. left \subseteq 0 .. k - 1
      BY <1>3 DEF Response
    <3> QED BY <1>1, <3>1
  <2>3. x \in Events
    BY <2>2 DEF Events, Uses
  <2>4. y \in Events
    BY <2>2 DEF Events, Uses
  <2>5. z \in Events
    BY <2>2 DEF Events, Uses
  <2> HIDE DEF x, y, z
  <2> QED BY <2>1, <2>3, <2>4, <2>5, ConcatThree
<1>10. Fields(q) /\ q.log = l \o <<x, y, z>> /\ q.nextIdx = k
  BY <1>4 DEF Adds, l, k
<1> HIDE DEF x, y, z
<1>11. Response(q.log, q.nextIdx, left \ {i})
  BY <1>8, <1>9, <1>10 DEF ThreeInTurn
<1>12. Written(q)
  BY <1>3, <1>10, <1>11 DEF Written
<1> QED BY <1>2, <1>12

LEMMA EndsWritten ==
  ASSUME NEW o, Written(o), NEW name
  PROVE  Ended(Puts(o, <<name>>, 0).log, name)
<1>1. Fields(o)
  BY DEF Written
<1>2. Adds(o, Puts(o, <<name>>, 0), <<<<name, 0>>>>)
  BY <1>1, PutIs
<1> DEFINE q == Puts(o, <<name>>, 0)
<1> HIDE DEF q
<1>3. q.log = o.log \o <<<<name, 0>>>>
  BY <1>2 DEF Adds, q
<1>4. Ended(q.log, name)
  BY <1>3 DEF Ended, Written
<1> QED BY <1>4 DEF q

LEMMA WritingIsWritten ==
  ASSUME NEW o, NEW open, Writing(o, open)
  PROVE  Written(o)
BY DEF Writing, Written

LEMMA OutputEnds ==
  ASSUME NEW o, NEW open, Writing(o, open), NEW text, NEW calls \in Nat
  PROVE  Ended(Output(o, text, calls).log, "completed")
<1> DEFINE p == CallItems(o, calls)
           q == IF text # <<>> \/ calls = 0 THEN MessageItem(p) ELSE p
<1>1. Writing(p, open)
  BY CallsWriting
<1> HIDE DEF p
<1>2. Written(q)
  BY <1>1, MessageWritten, WritingIsWritten
<1>3. Output(o, text, calls) = Puts(q, <<"completed">>, 0)
  BY DEF Output, Completed, p
<1> HIDE DEF q
<1> QED BY <1>2, <1>3, EndsWritten

-----------------------------------------------------------------------------
(* What the logs show *)

NamedIn(l, names) == {i \in DOMAIN l : l[i][1] \in names}

ItemsShown(l) ==
  LET added == NamedIn(l, {"item added"})
      Index(i) == l[i][2]
  IN /\ \A i \in added : Index(i) = Cardinality({j \in added : j < i})
     /\ \A i \in NamedIn(l, Uses) : \E j \in added : j < i /\ Index(j) = Index(i)
     /\ \A i \in NamedIn(l, {"item done"}) : \A j \in DOMAIN l :
          j > i /\ Index(j) = Index(i) => l[j][1] \notin {"delta", "item done"}

AddedAt(l, i, a) == i \in 1..Len(l) /\ l[i][1] = "item added" /\ l[i][2] = a
AddedBefore(l, i) == {j \in NamedIn(l, {"item added"}) : j < i}

LEMMA ListedAt ==
  ASSUME NEW l, NEW k, NEW pos, Listed(l, k, pos), NEW a \in 0 .. k - 1
  PROVE  AddedAt(l, pos[a], a)
<1> DEFINE e == <<"item added", a>>
<1>1. pos[a] \in 1..Len(l)
  BY DEF Listed
<1>2. l[pos[a]] = e
  BY DEF Listed
<1>3. e[1] = "item added" /\ e[2] = a
  OBVIOUS
<1> HIDE DEF e
<1>4. l[pos[a]][1] = "item added" /\ l[pos[a]][2] = a
  BY <1>2, <1>3
<1> QED BY <1>1, <1>4 DEF AddedAt

LEMMA ListedInOrder ==
  ASSUME NEW l, NEW k \in Nat, NEW pos, Listed(l, k, pos), Len(l) \in Nat,
         NEW a \in 0 .. k - 1, NEW b \in 0 .. k - 1
  PROVE  pos[a] < pos[b] <=> a < b
<1>1. pos[a] \in 1..Len(l) /\ pos[b] \in 1..Len(l)
  BY ListedAt DEF AddedAt
<1>2. a < b => pos[a] < pos[b]
  BY DEF Listed
<1>3. b < a => pos[b] < pos[a]
  BY DEF Listed
<1> DEFINE x == pos[a]
           y == pos[b]
<1>4. x \in Nat /\ y \in Nat
  BY <1>1
<1> HIDE DEF x, y
<1>5. a < b => x < y
  BY <1>2 DEF x, y
<1>6. b < a => y < x
  BY <1>3 DEF x, y
<1>7. a = b => x = y
  BY DEF x, y
<1>8. x < y <=> a < b
  BY <1>4, <1>5, <1>6, <1>7
<1> QED BY <1>8 DEF x, y

(* As many items come before item a as its index says.                     *)
LEMMA CountBefore ==
  ASSUME NEW l, NEW k \in Nat, NEW pos, Listed(l, k, pos), Len(l) \in Nat,
         DOMAIN l = 1..Len(l), NEW a \in 0 .. k - 1
  PROVE  Cardinality(AddedBefore(l, pos[a])) = a
<1> DEFINE S == {b \in 0 .. k - 1 : b < a}
           T == AddedBefore(l, pos[a])
           f == [b \in S |-> pos[b]]
<1>1. S = 0 .. a - 1 /\ a \in Nat
  OBVIOUS
<1>2. \A b : b \in S <=> b \in 0 .. k - 1 /\ b < a
  OBVIOUS
<1>3. \A j : j \in T <=> j \in 1..Len(l) /\ l[j][1] = "item added" /\ j < pos[a]
  BY DEF NamedIn, AddedBefore
<1>4. f = [b \in S |-> pos[b]]
  OBVIOUS
<1> HIDE DEF S, T, f
<1>5. \A b \in S : f[b] = pos[b]
  BY <1>4
<1>6. ASSUME NEW b \in S PROVE f[b] \in T
  <2>1. b \in 0 .. k - 1 /\ b < a /\ f[b] = pos[b]
    BY <1>2, <1>5
  <2>2. AddedAt(l, pos[b], b)
    BY <2>1, ListedAt
  <2>3. pos[b] < pos[a]
    BY <2>1, ListedInOrder
  <2> QED BY <1>3, <2>1, <2>2, <2>3 DEF AddedAt
<1>7. ASSUME NEW b \in S, NEW c \in S, f[b] = f[c] PROVE b = c
  <2>1. b \in 0 .. k - 1 /\ c \in 0 .. k - 1 /\ pos[b] = pos[c]
    BY <1>2, <1>5, <1>7
  <2>2. pos[b] \in 1..Len(l)
    BY <2>1, ListedAt DEF AddedAt
  <2>3. ~(pos[b] < pos[c]) /\ ~(pos[c] < pos[b])
    BY <2>1, <2>2
  <2>4. ~(b < c)
    BY <2>1, <2>3, ListedInOrder
  <2>5. ~(c < b)
    BY <2>1, <2>3, ListedInOrder
  <2> QED BY <2>1, <2>4, <2>5
<1>8. ASSUME NEW j \in T PROVE \E b \in S : f[b] = j
  <2>1. j \in 1..Len(l) /\ l[j][1] = "item added" /\ j < pos[a]
    BY <1>3
  <2>2. PICK b \in 0 .. k - 1 : j = pos[b]
    BY <2>1 DEF Listed
  <2>3. b < a
    BY <2>1, <2>2, ListedInOrder
  <2> QED BY <1>2, <1>5, <2>2, <2>3
<1>9. f \in [S -> T]
  BY <1>4, <1>6, <1>5
<1>10. f \in Injection(S, T)
  <2>1. \A b, c \in S : f[b] = f[c] => b = c
    BY <1>7
  <2> QED BY <1>9, <2>1 DEF Injection, IsInjective
<1>11. f \in Surjection(S, T)
  BY <1>8, <1>9 DEF Surjection
<1>12. IsFiniteSet(S) /\ Cardinality(S) = a
  <2>1. 0 \in Int /\ a - 1 \in Int
    OBVIOUS
  <2>2. IsFiniteSet(0 .. a - 1) /\ Cardinality(0 .. a - 1) = IF 0 > a - 1 THEN 0 ELSE (a - 1) - 0 + 1
    BY <2>1, FS_Interval
  <2>3. (IF 0 > a - 1 THEN 0 ELSE (a - 1) - 0 + 1) = a
    BY <1>1
  <2> QED BY <1>1, <2>2, <2>3
<1>13. ExistsBijection(S, T)
  BY <1>10, <1>11 DEF ExistsBijection, Bijection
<1>14. Cardinality(T) = a
  BY <1>12, <1>13, FS_Bijection
<1> QED BY <1>14 DEF T

LEMMA AnnouncedShown ==
  ASSUME NEW l, NEW k \in Nat, Announced(l, k), Len(l) \in Nat, DOMAIN l = 1..Len(l)
  PROVE  ItemsShown(l)
<1>1. PICK pos : Listed(l, k, pos)
  BY DEF Announced
<1> DEFINE added == NamedIn(l, {"item added"})
<1>2. ASSUME NEW i \in added PROVE l[i][2] = Cardinality({j \in added : j < i})
  <2>1. i \in 1..Len(l) /\ l[i][1] = "item added"
    BY DEF NamedIn
  <2>2. PICK a \in 0 .. k - 1 : i = pos[a]
    BY <1>1, <2>1 DEF Listed
  <2>3. AddedAt(l, i, a)
    BY <1>1, <2>2, ListedAt
  <2>4. Cardinality(AddedBefore(l, i)) = a
    BY <1>1, <2>2, CountBefore
  <2>5. AddedBefore(l, i) = {j \in added : j < i}
    BY DEF AddedBefore
  <2> HIDE DEF added
  <2> QED BY <2>3, <2>4, <2>5 DEF AddedAt
<1>3. ASSUME NEW i \in NamedIn(l, Uses) PROVE \E j \in added : j < i /\ l[j][2] = l[i][2]
  <2>1. i \in 1..Len(l) /\ l[i][1] \in Uses
    BY DEF NamedIn
  <2> DEFINE a == l[i][2]
  <2>2. a \in 0 .. k - 1 /\ pos[a] < i
    BY <1>1, <2>1 DEF Listed
  <2> HIDE DEF a
  <2>3. AddedAt(l, pos[a], a)
    BY <1>1, <2>2, ListedAt
  <2>4. pos[a] \in added
    BY <2>3 DEF NamedIn, AddedAt
  <2> QED BY <2>2, <2>3, <2>4 DEF a, AddedAt
<1>4. ASSUME NEW i \in NamedIn(l, {"item done"}), NEW j \in DOMAIN l, j > i, l[j][2] = l[i][2]
      PROVE  l[j][1] \notin {"delta", "item done"}
  <2>1. i \in 1..Len(l) /\ j \in 1..Len(l) /\ l[i][1] = "item done" /\ i < j
    BY <1>4 DEF NamedIn
  <2> QED BY <1>4, <2>1 DEF Announced, OnceDone
<1> HIDE DEF added
<1> QED BY <1>2, <1>3, <1>4 DEF ItemsShown, added

Told(l) ==
  \/ NamedIn(l, {"finish", "completed"}) # {}
  \/ NamedIn(l, {"json"}) # {} /\ l[1][2] = 200
Alone(l) == NamedIn(l, {"json"}) # {} => Len(l) = 1
Ordered(l) ==
  l # <<>> /\ NamedIn(l, {"json"}) = {} =>
    /\ NamedIn(l, {"role"}) = {1}
    /\ \A i \in NamedIn(l, {"reasoning"}), j \in NamedIn(l, {"content", "tool_calls"}) : i < j
    /\ \A i \in NamedIn(l, {"content"}), j \in NamedIn(l, {"tool_calls"}) : i < j

Unended(l) == NamedIn(l, Endings) = {} /\ Alone(l) /\ ~Told(l)
EndedOnce(l) == NamedIn(l, Endings) = {Len(l)} /\ Alone(l)

LEMMA NothingShown == Unended(<<>>) /\ Ordered(<<>>) /\ ItemsShown(<<>>)
<1>1. \A names : NamedIn(<<>>, names) = {}
  BY DEF NamedIn
<1>2. DOMAIN <<>> = {}
  OBVIOUS
<1> QED BY <1>1, <1>2 DEF Unended, Ordered, ItemsShown, Alone, Told

JsonLog(status) == <<<<"json", status>>>>

LEMMA JsonShown ==
  ASSUME NEW status
  PROVE  /\ EndedOnce(JsonLog(status)) /\ Ordered(JsonLog(status)) /\ ItemsShown(JsonLog(status))
         /\ Told(JsonLog(status)) <=> status = 200
<1> DEFINE l == JsonLog(status)
           e == <<"json", status>>
<1>1. e[1] = "json" /\ e[2] = status
  OBVIOUS
<1>2. DOMAIN <<e>> = {1} /\ Len(<<e>>) = 1 /\ <<e>>[1] = e
  OBVIOUS
<1>3. l = <<e>>
  BY DEF JsonLog
<1> HIDE DEF e, l
<1>4. DOMAIN l = {1} /\ Len(l) = 1 /\ l[1][1] = "json" /\ l[1][2] = status
  BY <1>1, <1>2, <1>3
<1>5. \A names : NamedIn(l, names) = IF "json" \in names THEN {1} ELSE {}
  BY <1>4 DEF NamedIn
<1>6. NamedIn(l, Endings) = {1} /\ NamedIn(l, {"json"}) = {1}
  BY <1>5 DEF Endings
<1>7. /\ NamedIn(l, {"finish", "completed"}) = {} /\ NamedIn(l, {"item added"}) = {}
      /\ NamedIn(l, Uses) = {} /\ NamedIn(l, {"item done"}) = {}
  BY <1>5 DEF Uses
<1>8. EndedOnce(l)
  BY <1>4, <1>6 DEF EndedOnce, Alone
<1>9. Ordered(l)
  BY <1>6 DEF Ordered
<1>10. ItemsShown(l)
  BY <1>7 DEF ItemsShown
<1>11. Told(l) <=> status = 200
  <2>1. NamedIn(l, {"json"}) # {}
    BY <1>6
  <2>2. Told(l) <=> l[1][2] = 200
    BY <1>7, <2>1 DEF Told
  <2> QED BY <1>4, <2>2, Zenon
<1> QED BY <1>8, <1>9, <1>10, <1>11 DEF l

LEMMA RisingIs ==
  ASSUME NEW l, NEW k, Rising(l, k)
  PROVE  /\ Len(l) \in Nat /\ DOMAIN l = 1..Len(l)
         /\ \A i \in 1..Len(l) : l[i][1] \in ChatNames /\ Rank(l[i][1]) < k
         /\ NamedIn(l, {"json", "completed", "failed"}) = {}
<1>1. l \in Seq(ChatNames \X {0})
  BY DEF Rising
<1>2. Len(l) \in Nat /\ DOMAIN l = 1..Len(l)
  BY <1>1
<1>3. \A i \in 1..Len(l) : l[i] \in ChatNames \X {0}
  BY <1>1
<1>4. \A i \in 1..Len(l) : l[i][1] \in ChatNames
  BY <1>3
<1>5. \A n \in ChatNames : n \notin {"json", "completed", "failed"}
  BY DEF ChatNames
<1>6. NamedIn(l, {"json", "completed", "failed"}) = {}
  BY <1>2, <1>4, <1>5 DEF NamedIn
<1>7. \A i \in 1..Len(l) : Rank(l[i][1]) < k
  BY DEF Rising
<1> QED BY <1>2, <1>4, <1>6, <1>7

LEMMA RisingOrdered ==
  ASSUME NEW l, NEW k, Rising(l, k)
  PROVE  Ordered(l)
<1> SUFFICES ASSUME l # <<>>
             PROVE  /\ NamedIn(l, {"role"}) = {1}
                    /\ \A i \in NamedIn(l, {"reasoning"}),
                          j \in NamedIn(l, {"content", "tool_calls"}) : i < j
                    /\ \A i \in NamedIn(l, {"content"}), j \in NamedIn(l, {"tool_calls"}) : i < j
  BY DEF Ordered
<1>1. Len(l) \in Nat /\ DOMAIN l = 1..Len(l) /\ l \in Seq(ChatNames \X {0})
  BY RisingIs DEF Rising
<1>2. \A i, j \in 1..Len(l) : i < j => Rank(l[i][1]) < Rank(l[j][1])
  BY DEF Rising
<1>3. /\ Rank("role") = 0 /\ Rank("reasoning") = 1 /\ Rank("content") = 2
      /\ Rank("tool_calls") = 3
  BY DEF Rank
<1>4. 1 \in 1..Len(l) /\ l[1][1] = "role"
  <2>1. Len(l) # 0
    BY <1>1, EmptySeq
  <2>2. l[1] = <<"role", 0>>
    BY DEF Rising
  <2>3. <<"role", 0>>[1] = "role"
    OBVIOUS
  <2> QED BY <1>1, <2>1, <2>2, <2>3
<1>5. NamedIn(l, {"role"}) = {1}
  <2>1. ASSUME NEW i \in 1..Len(l), l[i][1] = "role", i # 1 PROVE FALSE
    <3>1. 1 < i
      BY <1>1, <2>1
    <3>2. Rank(l[1][1]) < Rank(l[i][1])
      BY <1>2, <1>4, <3>1
    <3>3. 0 < 0
      BY <1>3, <1>4, <2>1, <3>2
    <3> QED BY <3>3
  <2> QED BY <1>1, <1>4, <2>1 DEF NamedIn
<1>6. ASSUME NEW i \in 1..Len(l), NEW j \in 1..Len(l),
             Rank(l[i][1]) \in Nat, Rank(l[j][1]) \in Nat, Rank(l[i][1]) < Rank(l[j][1])
      PROVE  i < j
  <2>1. j < i => Rank(l[j][1]) < Rank(l[i][1])
    BY <1>2
  <2>2. i = j => FALSE
    BY <1>6
  <2> DEFINE a == Rank(l[i][1])
             b == Rank(l[j][1])
  <2>3. a \in Nat /\ b \in Nat /\ a < b /\ (j < i => b < a)
    BY <1>6, <2>1
  <2> HIDE DEF a, b
  <2>4. ~(j < i)
    BY <2>3
  <2> QED BY <1>1, <2>2, <2>4
<1>7. ASSUME NEW i \in NamedIn(l, {"reasoning"}), NEW j \in NamedIn(l, {"content", "tool_calls"})
      PROVE  i < j
  <2>1. i \in 1..Len(l) /\ j \in 1..Len(l) /\ l[i][1] = "reasoning"
        /\ l[j][1] \in {"content", "tool_calls"}
    BY <1>1 DEF NamedIn
  <2>2. Rank(l[i][1]) = 1 /\ Rank(l[j][1]) \in {2, 3}
    BY <1>3, <2>1
  <2> QED BY <1>6, <2>1, <2>2
<1>8. ASSUME NEW i \in NamedIn(l, {"content"}), NEW j \in NamedIn(l, {"tool_calls"})
      PROVE  i < j
  <2>1. i \in 1..Len(l) /\ j \in 1..Len(l) /\ l[i][1] = "content" /\ l[j][1] = "tool_calls"
    BY <1>1 DEF NamedIn
  <2>2. Rank(l[i][1]) = 2 /\ Rank(l[j][1]) = 3
    BY <1>3, <2>1
  <2> QED BY <1>6, <2>1, <2>2
<1> QED BY <1>5, <1>7, <1>8

LEMMA ChatUnended ==
  ASSUME NEW l, Rising(l, 3)
  PROVE  Unended(l) /\ Ordered(l)
<1>1. /\ Len(l) \in Nat /\ DOMAIN l = 1..Len(l)
      /\ \A i \in 1..Len(l) : l[i][1] \in ChatNames /\ Rank(l[i][1]) < 3
  BY RisingIs
<1>2. \A n \in ChatNames : Rank(n) < 3 => n \notin Endings \cup {"finish", "completed"}
  BY DEF ChatNames, Rank, Endings
<1>3. \A i \in 1..Len(l) : l[i][1] \notin Endings \cup {"finish", "completed"}
  BY <1>1, <1>2
<1>4. NamedIn(l, Endings) = {} /\ NamedIn(l, {"finish", "completed"}) = {}
  BY <1>1, <1>3 DEF NamedIn
<1>5. NamedIn(l, {"json"}) = {}
  BY <1>4 DEF NamedIn, Endings
<1>6. Unended(l)
  BY <1>4, <1>5 DEF Unended, Alone, Told
<1> QED BY <1>6, RisingOrdered

(* The last event of a chat is its [DONE], the one before says how it went. *)
LEMMA ChatEndShown ==
  ASSUME NEW o, NEW name \in {"finish", "error"}, ChatEnd(o, name)
  PROVE  /\ EndedOnce(o.log) /\ Ordered(o.log)
         /\ Told(o.log) <=> name = "finish"
<1> DEFINE l == o.log
           n == Len(l)
<1>1. Rising(l, 6) /\ n >= 2 /\ l[n - 1] = <<name, 0>> /\ l[n] = <<"[DONE]", 0>>
  BY DEF ChatEnd, ChatOut
<1> HIDE DEF l
<1>2. /\ n \in Nat /\ DOMAIN l = 1..n /\ \A i \in 1..n : l[i][1] \in ChatNames
      /\ NamedIn(l, {"json", "completed", "failed"}) = {}
  BY <1>1, RisingIs
<1>3. n \in 1..n /\ n - 1 \in 1..n /\ n - 1 < n
  BY <1>1, <1>2
<1>4. l[n - 1][1] = name /\ l[n][1] = "[DONE]"
  <2>1. <<name, 0>>[1] = name /\ <<"[DONE]", 0>>[1] = "[DONE]"
    OBVIOUS
  <2> QED BY <1>1, <2>1
<1>5. \A i, j \in 1..n : i < j => Rank(l[i][1]) < Rank(l[j][1])
  BY <1>1 DEF Rising
<1>6. Rank("[DONE]") = 5 /\ Rank("finish") = 4 /\ Rank("error") = 4
  BY DEF Rank
<1>7. ASSUME NEW i \in 1..n, NEW j \in 1..n, Rank(l[i][1]) \in Nat, Rank(l[i][1]) = Rank(l[j][1])
      PROVE  i = j
  <2>1. ~(Rank(l[i][1]) < Rank(l[j][1])) /\ ~(Rank(l[j][1]) < Rank(l[i][1]))
    BY <1>7
  <2>2. ~(i < j) /\ ~(j < i)
    BY <1>5, <2>1
  <2> QED BY <1>2, <2>2
<1> HIDE DEF n
<1>8. NamedIn(l, {"[DONE]"}) = {n}
  <2>1. ASSUME NEW i \in 1..n, l[i][1] = "[DONE]" PROVE i = n
    BY <1>3, <1>4, <1>6, <1>7, <2>1
  <2> QED BY <1>2, <1>3, <1>4, <2>1 DEF NamedIn
<1>9. NamedIn(l, Endings) = {n}
  <2>1. NamedIn(l, Endings) = NamedIn(l, {"[DONE]"}) \cup NamedIn(l, {"json", "completed", "failed"})
    BY DEF NamedIn, Endings
  <2> QED BY <1>2, <1>8, <2>1
<1>10. NamedIn(l, {"json"}) = {} /\ NamedIn(l, {"completed"}) = {}
  <2>1. /\ NamedIn(l, {"json"}) \subseteq NamedIn(l, {"json", "completed", "failed"})
        /\ NamedIn(l, {"completed"}) \subseteq NamedIn(l, {"json", "completed", "failed"})
    BY DEF NamedIn
  <2> QED BY <1>2, <2>1
<1>11. NamedIn(l, {"finish"}) # {} <=> name = "finish"
  <2>1. CASE name = "finish"
    <3>1. n - 1 \in NamedIn(l, {"finish"})
      BY <1>2, <1>3, <1>4, <2>1 DEF NamedIn
    <3> QED BY <2>1, <3>1
  <2>2. CASE name = "error"
    <3>1. ASSUME NEW i \in 1..n, l[i][1] = "finish" PROVE FALSE
      <4>1. Rank(l[i][1]) = 4 /\ Rank(l[n - 1][1]) = 4
        BY <1>4, <1>6, <2>2, <3>1
      <4>2. i = n - 1
        BY <1>3, <1>7, <4>1
      <4> QED BY <1>4, <2>2, <3>1, <4>2
    <3> QED BY <1>2, <2>2, <3>1 DEF NamedIn
  <2> QED BY <2>1, <2>2
<1>12. NamedIn(l, {"finish", "completed"}) = NamedIn(l, {"finish"}) \cup NamedIn(l, {"completed"})
  BY DEF NamedIn
<1>13. Told(l) <=> name = "finish"
  BY <1>10, <1>11, <1>12 DEF Told
<1>14. EndedOnce(l)
  BY <1>9, <1>10 DEF EndedOnce, Alone, n
<1>15. Ordered(l)
  BY <1>1, RisingOrdered
<1> QED BY <1>13, <1>14, <1>15 DEF l

LEMMA ResponseIs ==
  ASSUME NEW l, NEW k \in Nat, NEW open, Response(l, k, open)
  PROVE  /\ Len(l) \in Nat /\ DOMAIN l = 1..Len(l) /\ l \in Seq(Events)
         /\ NamedIn(l, Endings) = {} /\ NamedIn(l, {"finish", "completed"}) = {}
         /\ NamedIn(l, {"json"}) = {}
<1>1. l \in Seq(Events)
  BY DEF Response
<1>2. Len(l) \in Nat /\ DOMAIN l = 1..Len(l)
  BY <1>1
<1>3. \A i \in 1..Len(l) : l[i][1] \notin Endings \cup {"finish", "completed"}
  BY DEF Response, Quiet
<1>4. NamedIn(l, Endings) = {} /\ NamedIn(l, {"finish", "completed"}) = {}
  BY <1>2, <1>3 DEF NamedIn
<1>5. NamedIn(l, {"json"}) = {}
  BY <1>4 DEF NamedIn, Endings
<1> QED BY <1>1, <1>2, <1>4, <1>5

LEMMA ResponseUnended ==
  ASSUME NEW l, NEW k \in Nat, NEW open, Response(l, k, open)
  PROVE  Unended(l) /\ ItemsShown(l)
<1>1. Unended(l)
  BY ResponseIs DEF Unended, Alone, Told
<1>2. Announced(l, k)
  BY DEF Response
<1>3. Len(l) \in Nat /\ DOMAIN l = 1..Len(l)
  BY ResponseIs
<1>4. ItemsShown(l)
  BY <1>2, <1>3, AnnouncedShown
<1> QED BY <1>1, <1>4

LEMMA EndedShown ==
  ASSUME NEW l, NEW name \in {"completed", "failed"}, Ended(l, name)
  PROVE  /\ EndedOnce(l) /\ ItemsShown(l)
         /\ Told(l) <=> name = "completed"
<1>1. PICK m, k, open : k \in Nat /\ Response(m, k, open) /\ l = m \o <<<<name, 0>>>>
  BY DEF Ended
<1> DEFINE e == <<name, 0>>
           n == Len(m)
<1>2. e[1] = name
  OBVIOUS
<1>3. n \in Nat /\ DOMAIN m = 1..n /\ m \in Seq(Events)
  BY <1>1, ResponseIs
<1>4. /\ NamedIn(m, Endings) = {} /\ NamedIn(m, {"finish", "completed"}) = {}
      /\ NamedIn(m, {"json"}) = {}
  BY <1>1, ResponseIs
<1> HIDE DEF e
<1>5. l = m \o <<e>>
  BY <1>1 DEF e
<1>6. /\ Len(l) = n + 1 /\ DOMAIN l = 1..Len(l) /\ l[n + 1] = e
      /\ \A i \in 1..n : l[i] = m[i]
  BY <1>3, <1>5
<1> HIDE DEF n
<1>7. \A i \in 1..Len(l) : i \in 1..n \/ i = n + 1
  BY <1>3, <1>6
<1>8. n + 1 \in 1..Len(l) /\ \A i \in 1..n : i \in 1..Len(l)
  BY <1>3, <1>6
<1>9. ASSUME NEW names
      PROVE  NamedIn(l, names) = NamedIn(m, names) \cup (IF name \in names THEN {n + 1} ELSE {})
  BY <1>2, <1>3, <1>6, <1>7, <1>8 DEF NamedIn
<1>10. name \in Endings /\ name # "json"
  BY DEF Endings
<1>11. NamedIn(l, Endings) = {Len(l)}
  BY <1>4, <1>6, <1>9, <1>10
<1>12. NamedIn(l, {"json"}) = {}
  BY <1>4, <1>9, <1>10
<1>13. NamedIn(l, {"finish", "completed"}) = IF name = "completed" THEN {n + 1} ELSE {}
  BY <1>4, <1>9
<1>14. EndedOnce(l)
  BY <1>11, <1>12 DEF EndedOnce, Alone
<1>15. Told(l) <=> name = "completed"
  BY <1>12, <1>13 DEF Told
<1>16. ItemsShown(l)
  <2>1. PICK pos : Listed(m, k, pos)
    BY <1>1, ListedBy
  <2>2. name \notin Uses /\ name # "item added"
    BY DEF Uses
  <2>3. Listed(l, k, pos)
    <3>1. pos \in [0 .. k - 1 -> 1..n]
      BY <2>1 DEF Listed, n
    <3>2. pos \in [0 .. k - 1 -> 1..Len(l)]
      <4>1. 1..n \subseteq 1..Len(l)
        BY <1>8
      <4> QED BY <3>1, <4>1
    <3>3. \A a \in 0 .. k - 1 : l[pos[a]] = <<"item added", a>>
      BY <1>6, <2>1, <3>1 DEF Listed
    <3>4. \A i \in 1..Len(l) : l[i][1] = "item added" => \E a \in 0 .. k - 1 : i = pos[a]
      BY <1>2, <1>6, <1>7, <2>1, <2>2 DEF Listed, n
    <3>5. \A i \in 1..Len(l) : l[i][1] \in Uses => l[i][2] \in 0 .. k - 1 /\ pos[l[i][2]] < i
      BY <1>2, <1>6, <1>7, <2>1, <2>2 DEF Listed, n
    <3> QED BY <2>1, <3>2, <3>3, <3>4, <3>5 DEF Listed
  <2>4. OnceDone(l)
    <3> SUFFICES ASSUME NEW i \in 1..Len(l), NEW j \in 1..Len(l), i < j,
                        l[i][1] = "item done", l[j][1] \in {"delta", "item done"}
                 PROVE  l[i][2] # l[j][2]
      BY DEF OnceDone
    <3>1. name \notin {"delta", "item done"}
      OBVIOUS
    <3>2. i \in 1..n /\ j \in 1..n
      BY <1>2, <1>6, <1>7, <3>1
    <3>3. OnceDone(m)
      BY <1>1 DEF Response, Announced
    <3> QED BY <1>6, <3>2, <3>3, ZenonT(40) DEF OnceDone, n
  <2>5. Len(l) \in Nat
    BY <1>3, <1>6
  <2>6. Announced(l, k)
    BY <2>3, <2>4 DEF Announced
  <2> QED BY <1>1, <1>6, <2>5, <2>6, AnnouncedShown
<1> QED BY <1>14, <1>15, <1>16

-----------------------------------------------------------------------------
(* One step of either stream *)

LEMMA AloneIs ==
  ASSUME NEW e
  PROVE  /\ <<>> \o <<e>> = <<e>> /\ Len(<<e>>) = 1 /\ DOMAIN <<e>> = 1..1 /\ <<e>>[1] = e
         /\ \A S : e \in S => <<e>> \in Seq(S)
OBVIOUS

LEMMA SilentIs == Fields(Silent) /\ Silent.log = <<>> /\ ~Silent.started
                  /\ Silent.msgIndex = None /\ Silent.nextIdx = 0
BY DEF Silent, Fields

LEMMA JsonIs ==
  ASSUME NEW o, Fields(o), o.log = <<>>, NEW status
  PROVE  Json(o, status).log = JsonLog(status)
<1> DEFINE q == Puts(o, <<"json">>, status)
           e == <<"json", status>>
<1>1. Adds(o, q, <<<<"json", status>>>>)
  BY PutIs
<1> HIDE DEF q, e
<1>2. q.log = <<>> \o <<e>>
  BY <1>1 DEF Adds, e
<1>3. q.log = <<e>>
  BY <1>2, AloneIs
<1> QED BY <1>3 DEF Json, JsonLog, q, e

LEMMA CreatedWriting == Writing(Created(Silent), {})
<1> DEFINE p == [Silent EXCEPT !.started = TRUE]
           q == Puts(p, <<"created">>, 0)
           e == <<"created", 0>>
           l == <<e>>
<1>1. Fields(p) /\ p.log = <<>> /\ p.msgIndex = None /\ p.nextIdx = 0
  BY SilentIs DEF Fields
<1> HIDE DEF p
<1>2. Adds(p, q, <<<<"created", 0>>>>)
  BY <1>1, PutIs
<1>3. e \in Events /\ e[1] = "created"
  BY DEF Events
<1> HIDE DEF q, e
<1>4. Fields(q) /\ q.log = <<>> \o <<e>> /\ q.msgIndex = None /\ q.nextIdx = 0
  BY <1>1, <1>2 DEF Adds, e
<1>5. q.log = l
  BY <1>4, AloneIs
<1>6. l \in Seq(Events) /\ Len(l) = 1 /\ l[1] = e
  BY <1>3, AloneIs
<1> HIDE DEF l
<1>7. \A i \in 1..Len(l) : l[i][1] = "created"
  BY <1>3, <1>6
<1>8. "created" \notin Endings \cup {"finish", "completed"} /\ "created" \notin Uses
  BY DEF Endings, Uses
<1>9. Quiet(l) /\ OnceDone(l)
  BY <1>7, <1>8 DEF Quiet, OnceDone
<1>10. Listed(l, 0, [a \in {} |-> 1])
  <2>1. 0 .. 0 - 1 = {}
    OBVIOUS
  <2> DEFINE pos == [a \in {} |-> 1]
  <2>2. pos \in [{} -> 1..Len(l)]
    OBVIOUS
  <2> HIDE DEF pos
  <2>3. \A i \in 1..Len(l) : l[i][1] # "item added" /\ l[i][1] \notin Uses
    BY <1>7, <1>8
  <2>4. Listed(l, 0, pos)
    BY <2>1, <2>2, <2>3 DEF Listed
  <2> QED BY <2>4 DEF pos
<1>11. Response(l, 0, {})
  <2>1. l # <<>>
    BY <1>6
  <2>2. Announced(l, 0)
    BY <1>9, <1>10 DEF Announced
  <2>3. \A i \in 1..Len(l) : l[i][1] # "item done"
    BY <1>7
  <2> QED BY <1>6, <1>9, <2>1, <2>2, <2>3 DEF Response, e
<1>12. Writing(q, {})
  BY <1>4, <1>5, <1>11 DEF Writing
<1> QED BY <1>12 DEF Created, q, p

LEMMA WriteChat ==
  ASSUME NEW o, Chat, ChatOut(o, 3), NEW d
  PROVE  /\ ChatOut(Write(o, d), 3)
         /\ d = <<>> => Write(o, d) = o
BY ChatContent DEF Write

LEMMA WriteResponse ==
  ASSUME NEW o, ~Chat, NEW d, NEW open, Writing(o, open)
  PROVE  \E left : Writing(Write(o, d), left)
BY DeltaWriting DEF Write

LEMMA ChatMore ==
  ASSUME NEW o, NEW k \in Nat, NEW n \in Nat, k <= n, ChatOut(o, k)
  PROVE  ChatOut(o, n)
BY RisingMore DEF ChatOut

LEMMA FinishIs ==
  ASSUME NEW o, ChatOut(o, 3), NEW calls
  PROVE  ChatEnd(Finish(IF calls > 0 THEN SendToolCalls(o) ELSE o), "finish")
<1> DEFINE p == IF calls > 0 THEN SendToolCalls(o) ELSE o
<1>1. ChatOut(p, 4)
  <2>1. ChatOut(SendToolCalls(o), 4)
    BY ChatCalls
  <2>2. ChatOut(o, 4)
    BY ChatMore
  <2> QED BY <2>1, <2>2
<1> HIDE DEF p
<1>2. ChatEnd(Finish(p), "finish")
  BY <1>1, ChatEnds DEF Finish
<1> QED BY <1>2 DEF p

LEMMA FailIs ==
  ASSUME NEW o, ChatOut(o, 3)
  PROVE  ChatEnd(Fail(o), "error")
<1>1. ChatOut(o, 4)
  BY ChatMore
<1> QED BY <1>1, ChatEnds DEF Fail

-----------------------------------------------------------------------------
(* The inductive invariant *)

Stages == {"idle", "call", "prepare", "post", "reading", "done"}
Underway == stage \in {"call", "prepare", "post", "reading"}
Lines == [plan : Texts, at : Nat, text : Texts, any : BOOLEAN, thought : Texts, steady : BOOLEAN]

ClientTyped ==
  /\ pool \in BOOLEAN /\ stage \in Stages
  /\ stage # "idle" => req \in Queries
  /\ stage = "idle" => req = None
  /\ call \in [acct : BOOLEAN, attempt : Int, files : BOOLEAN, over : BOOLEAN]
  /\ line \in Lines
  /\ tracker \in [text : Texts, thought : Texts]

(* Attachments appear when the account is chosen, and stay with it.        *)
FilesInv ==
  /\ stage \in {"idle", "call", "prepare"} => ~call.files
  /\ call.files => call.acct

(* Once a chat has been sent something the call is not repeated, so that   *)
(* the reasoning is before the text; what has been read of it was sent.    *)
ChatInv ==
  /\ ChatOut(out, 3)
  /\ stage # "reading" => out.log = <<>> /\ line.thought = <<>>
  /\ out.log # <<>> => Spoken
  /\ line.at = 0 => ChatOut(out, 2)
  /\ IsPrefix(tracker.thought, line.thought) => Len(line.thought) <= Len(tracker.thought)

UnderwayInv ==
  /\ rows = <<>>
  /\ IF ~req.stream THEN Fields(out) /\ out.log = <<>>
     ELSE IF Chat THEN ChatInv ELSE \E open : Writing(out, open)

DoneInv ==
  /\ rows \in {<<>>, <<200>>, <<502>>}
  /\ rows = <<>> => rejectUnsupported(req)
  /\ EndedOnce(out.log)
  /\ Told(out.log) <=> rows = <<200>>
  /\ Chat => Ordered(out.log)
  /\ ~Chat => ItemsShown(out.log)

OutInv ==
  /\ stage = "idle" => out = Silent /\ rows = <<>> /\ line = NoLine /\ tracker = Fresh
  /\ Underway => UnderwayInv
  /\ stage = "done" => DoneInv

ClientInv == ClientTyped /\ FilesInv /\ OutInv

LEMMA ClientInit == StreamInit => ClientInv
<1> SUFFICES ASSUME StreamInit PROVE ClientInv
  OBVIOUS
<1> USE DEF StreamInit
<1>1. ClientTyped
  <2>1. <<>> \in Texts
    BY DEF Texts
  <2>2. NoLine \in Lines
    BY <2>1 DEF NoLine, Lines
  <2>3. Fresh \in [text : Texts, thought : Texts]
    BY <2>1 DEF Fresh
  <2>4. NoCall \in [acct : BOOLEAN, attempt : Int, files : BOOLEAN, over : BOOLEAN]
    BY DEF NoCall
  <2> QED BY <2>2, <2>3, <2>4 DEF ClientTyped, Stages
<1>2. FilesInv
  BY DEF FilesInv, NoCall
<1>3. OutInv
  BY DEF OutInv, Underway
<1> QED BY <1>1, <1>2, <1>3 DEF ClientInv

LEMMA ShownWhenInv ==
  ASSUME ClientInv
  PROVE  OneEnding /\ ItemsAnnounced /\ FilesHaveAccount
<1>1. \A names : Named(names) = NamedIn(out.log, names)
  BY DEF Named, NamedIn
<1> DEFINE l == out.log
<1>2. FilesHaveAccount
  BY DEF ClientInv, FilesInv, FilesHaveAccount
<1>3. CASE stage = "idle"
  <2>1. l = <<>> /\ rows = <<>> /\ req = None
    BY <1>3, SilentIs DEF ClientInv, OutInv, ClientTyped
  <2>2. Unended(l) /\ Ordered(l)
    BY <2>1, NothingShown
  <2>3. <<>> # <<200>>
    OBVIOUS
  <2>4. OneEnding
    BY <1>1, <1>3, <2>1, <2>2, <2>3 DEF OneEnding, Unended, Alone, Told
  <2>5. ItemsAnnounced
    BY <2>1 DEF ItemsAnnounced
  <2> QED BY <1>2, <2>4, <2>5
<1>4. CASE Underway
  <2>1. rows = <<>> /\ stage # "done" /\ stage # "idle"
    BY <1>4 DEF ClientInv, OutInv, UnderwayInv, Underway
  <2>2. Unended(l) /\ (Chat => Ordered(l)) /\ (~Chat => ItemsShown(l))
    <3>1. CASE ~req.stream
      <4>1. l = <<>>
        BY <1>4, <3>1 DEF ClientInv, OutInv, UnderwayInv
      <4> QED BY <4>1, NothingShown
    <3>2. CASE req.stream /\ Chat
      <4>1. Rising(l, 3)
        BY <1>4, <3>2 DEF ClientInv, OutInv, UnderwayInv, ChatInv, ChatOut
      <4> QED BY <3>2, <4>1, ChatUnended
    <3>3. CASE req.stream /\ ~Chat
      <4>1. PICK open : Writing(out, open)
        BY <1>4, <3>3 DEF ClientInv, OutInv, UnderwayInv
      <4>2. Response(l, out.nextIdx, open) /\ out.nextIdx \in Nat
        BY <4>1 DEF Writing
      <4> QED BY <3>3, <4>2, ResponseUnended
    <3> QED BY <3>1, <3>2, <3>3
  <2>3. <<>> # <<200>>
    OBVIOUS
  <2>4. OneEnding
    BY <1>1, <2>1, <2>2, <2>3 DEF OneEnding, Unended, Alone, Told, Ordered
  <2>5. ItemsAnnounced
    BY <1>1, <2>2 DEF ItemsAnnounced, ItemsShown, Uses
  <2> QED BY <1>2, <2>4, <2>5
<1>5. CASE stage = "done"
  <2>1. DoneInv
    BY <1>5 DEF ClientInv, OutInv
  <2>2. OneEnding
    BY <1>1, <1>5, <2>1 DEF OneEnding, DoneInv, EndedOnce, Alone, Told, Ordered
  <2>3. ItemsAnnounced
    BY <1>1, <2>1, ZenonT(40) DEF ItemsAnnounced, DoneInv, ItemsShown, Uses
  <2> QED BY <1>2, <2>2, <2>3
<1>6. stage = "idle" \/ Underway \/ stage = "done"
  BY DEF ClientInv, ClientTyped, Stages, Underway
<1> QED BY <1>3, <1>4, <1>5, <1>6

-----------------------------------------------------------------------------
(* How a request ends *)

Shows(l, told) ==
  /\ EndedOnce(l) /\ (Told(l) <=> told)
  /\ Chat => Ordered(l)
  /\ ~Chat => ItemsShown(l)

LEMMA FailureShows ==
  ASSUME UnderwayInv, NEW kind \in {"long", "limit", "upstream"}
  PROVE  Shows(Error(out, kind).log, FALSE)
<1> DEFINE status == Status(kind)
<1>1. status # 200
  BY DEF Status
<1> HIDE DEF status
<1>2. ASSUME Fields(out), out.log = <<>>, Error(out, kind) = Json(out, status)
      PROVE  Shows(Error(out, kind).log, FALSE)
  <2>1. Error(out, kind).log = JsonLog(status)
    BY <1>2, JsonIs
  <2> QED BY <1>1, <2>1, JsonShown DEF Shows
<1>3. CASE ~req.stream
  <2>1. Error(out, kind) = Json(out, status)
    BY <1>3 DEF Error, status
  <2>2. Fields(out) /\ out.log = <<>>
    BY <1>3 DEF UnderwayInv
  <2> QED BY <1>2, <2>1, <2>2
<1>4. CASE req.stream /\ ~Chat
  <2>1. PICK open : Writing(out, open)
    BY <1>4 DEF UnderwayInv
  <2>2. Written(out)
    BY <2>1, WritingIsWritten
  <2>3. Ended(Puts(out, <<"failed">>, 0).log, "failed")
    BY <2>2, EndsWritten
  <2>4. Error(out, kind) = Puts(out, <<"failed">>, 0)
    BY <1>4 DEF Error, Failed
  <2> DEFINE l == Error(out, kind).log
  <2>5. Ended(l, "failed")
    BY <2>3, <2>4
  <2> HIDE DEF l
  <2>6. EndedOnce(l) /\ ItemsShown(l) /\ (Told(l) <=> "failed" = "completed")
    BY <2>5, EndedShown
  <2>7. Shows(l, FALSE)
    BY <1>4, <2>6 DEF Shows
  <2> QED BY <2>7 DEF l
<1>5. CASE req.stream /\ Chat
  <2>1. ChatOut(out, 3)
    BY <1>5 DEF UnderwayInv, ChatInv
  <2>2. CASE out.started
    <3>1. Error(out, kind) = Fail(out)
      BY <1>5, <2>2 DEF Error
    <3>2. ChatEnd(Fail(out), "error")
      BY <2>1, FailIs
    <3> DEFINE o == Fail(out)
    <3> HIDE DEF o
    <3>3. EndedOnce(o.log) /\ Ordered(o.log) /\ (Told(o.log) <=> "error" = "finish")
      BY <3>2, ChatEndShown DEF o
    <3>4. Shows(o.log, FALSE)
      BY <1>5, <3>3 DEF Shows
    <3> QED BY <3>1, <3>4 DEF o
  <2>3. CASE ~out.started
    <3>1. Error(out, kind) = Json(out, status)
      BY <1>5, <2>3 DEF Error, status
    <3>2. Fields(out) /\ out.log = <<>>
      BY <2>1, <2>3 DEF ChatOut
    <3> QED BY <1>2, <3>1, <3>2
  <2> QED BY <2>2, <2>3
<1> QED BY <1>3, <1>4, <1>5

LEMMA NothingLeft ==
  ASSUME NEW full \in Texts, NEW sent \in Texts,
         IsPrefix(sent, full) => Len(full) <= Len(sent)
  PROVE  remainingOf(full, sent) = <<>>
<1>1. Len(full) \in Nat /\ Len(sent) \in Nat
  BY DEF Texts
<1>2. CASE IsPrefix(sent, full)
  <2>1. Len(sent) + 1 > Len(full)
    BY <1>1, <1>2
  <2>2. SubSeq(full, Len(sent) + 1, Len(full)) = <<>>
    BY <1>1, <2>1 DEF Texts
  <2> QED BY <1>2, <2>2 DEF remainingOf
<1>3. CASE ~IsPrefix(sent, full)
  BY <1>3 DEF remainingOf
<1> QED BY <1>2, <1>3

LEMMA SuccessShows ==
  ASSUME UnderwayInv, ClientTyped, NEW text, NEW calls \in Nat
  PROVE  req.stream => Shows(Closing(out, text, calls).log, TRUE)
<1> SUFFICES ASSUME req.stream PROVE Shows(Closing(out, text, calls).log, TRUE)
  OBVIOUS
<1> DEFINE d == remainingOf(text, sentText)
<1>1. CASE Chat
  <2>1. ChatInv
    BY <1>1 DEF UnderwayInv
  <2>2. ChatOut(out, 3)
    BY <2>1 DEF ChatInv
  <2>3. remainingOf(line.thought, tracker.thought) = <<>>
    <3>1. line.thought \in Texts /\ tracker.thought \in Texts
      BY DEF ClientTyped, Lines
    <3>2. IsPrefix(tracker.thought, line.thought) => Len(line.thought) <= Len(tracker.thought)
      BY <2>1 DEF ChatInv
    <3> QED BY <3>1, <3>2, NothingLeft
  <2>4. SendReasoning(out, <<>>) = out
    BY DEF SendReasoning
  <2> DEFINE full == Write(out, d)
             o == Finish(IF calls > 0 THEN SendToolCalls(full) ELSE full)
  <2>5. Closing(out, text, calls) = o
    BY <1>1, <2>3, <2>4 DEF Closing
  <2>6. ChatOut(full, 3)
    BY <1>1, <2>2, WriteChat
  <2> HIDE DEF full
  <2>7. ChatEnd(o, "finish")
    BY <2>6, FinishIs
  <2> HIDE DEF o
  <2>8. EndedOnce(o.log) /\ Ordered(o.log) /\ (Told(o.log) <=> "finish" = "finish")
    BY <2>7, ChatEndShown
  <2>9. Shows(o.log, TRUE)
    BY <1>1, <2>8 DEF Shows
  <2> QED BY <2>5, <2>9
<1>2. CASE ~Chat
  <2>1. PICK open : Writing(out, open)
    BY <1>2 DEF UnderwayInv
  <2> DEFINE full == Write(out, d)
             o == Output(full, text, calls)
  <2>2. PICK left : Writing(full, left)
    BY <1>2, <2>1, WriteResponse
  <2>3. Closing(out, text, calls) = o
    BY <1>2 DEF Closing
  <2> HIDE DEF full
  <2>4. Ended(o.log, "completed")
    BY <2>2, OutputEnds
  <2> HIDE DEF o
  <2>5. EndedOnce(o.log) /\ ItemsShown(o.log) /\ (Told(o.log) <=> "completed" = "completed")
    BY <2>4, EndedShown
  <2>6. Shows(o.log, TRUE)
    BY <1>2, <2>5 DEF Shows
  <2> QED BY <2>3, <2>6
<1> QED BY <1>1, <1>2

LEMMA FailsDone ==
  ASSUME ClientInv, Underway, NEW kind \in {"long", "limit", "upstream"}, Fails(kind),
         UNCHANGED <<account, req>>
  PROVE  OutInv'
<1>1. UnderwayInv /\ rows = <<>>
  BY DEF ClientInv, OutInv, UnderwayInv
<1>2. Shows(Error(out, kind).log, FALSE)
  BY <1>1, FailureShows
<1>3. rows' = <<502>> /\ stage' = "done" /\ out' = Error(out, kind) /\ req' = req /\ pool' = pool
  BY <1>1 DEF Fails, account
<1> DEFINE l == Error(out, kind).log
<1> HIDE DEF l
<1>4. out'.log = l
  BY <1>3 DEF l
<1>5. /\ EndedOnce(l) /\ ~Told(l)
      /\ (req.api = "chat" => Ordered(l)) /\ (~(req.api = "chat") => ItemsShown(l))
  BY <1>2 DEF Shows, Chat, l
<1>6. rows' # <<200>> /\ rows' # <<>>
  BY <1>3
<1>7. DoneInv'
  BY <1>3, <1>4, <1>5, <1>6 DEF DoneInv, Chat
<1> QED BY <1>3, <1>7 DEF OutInv, Underway

LEMMA SucceedsDone ==
  ASSUME ClientInv, stage = "reading", NEW text, NEW calls \in Nat, Succeeds(text, calls),
         UNCHANGED <<account, req>>
  PROVE  OutInv'
<1>1. UnderwayInv /\ rows = <<>> /\ ClientTyped
  BY DEF ClientInv, OutInv, UnderwayInv, Underway
<1>2. rows' = <<200>> /\ stage' = "done" /\ req' = req /\ pool' = pool
  BY <1>1 DEF Succeeds, account
<1>3. Shows(out'.log, TRUE)
  <2>1. CASE req.stream
    <3>1. out' = Closing(out, text, calls)
      BY <2>1 DEF Succeeds
    <3> QED BY <1>1, <2>1, <3>1, SuccessShows
  <2>2. CASE ~req.stream
    <3> DEFINE o == Json(out, 200)
    <3>1. Fields(out) /\ out.log = <<>>
      BY <1>1, <2>2 DEF UnderwayInv
    <3>2. o.log = JsonLog(200)
      BY <3>1, JsonIs
    <3>3. Fields(o)
      <4>1. Adds(out, Puts(out, <<"json">>, 200), <<<<"json", 200>>>>)
        BY <3>1, PutIs
      <4> QED BY <4>1 DEF Json, Adds
    <3>4. out' = [o EXCEPT !.heard = text, !.thought = line.thought]
      BY <2>2 DEF Succeeds
    <3> HIDE DEF o
    <3>5. out'.log = o.log
      BY <3>3, <3>4 DEF Fields
    <3> QED BY <3>2, <3>5, JsonShown DEF Shows
  <2> QED BY <2>1, <2>2
<1> DEFINE l == out'.log
<1>4. /\ EndedOnce(l) /\ Told(l)
      /\ (req.api = "chat" => Ordered(l)) /\ (~(req.api = "chat") => ItemsShown(l))
  BY <1>3 DEF Shows, Chat
<1>5. rows' # <<>>
  BY <1>2
<1>6. DoneInv'
  BY <1>2, <1>4, <1>5 DEF DoneInv, Chat
<1> QED BY <1>2, <1>6 DEF OutInv, Underway

-----------------------------------------------------------------------------
(* Steps *)

LEMMA DeltaAdds ==
  ASSUME NEW full \in Texts, NEW sent \in Texts
  PROVE  /\ Delta(full, sent) # <<>> => full # <<>>
         /\ Delta(full, sent) = <<>> => (IsPrefix(sent, full) => Len(full) <= Len(sent))
<1>1. Len(full) \in Nat /\ Len(sent) \in Nat
  BY DEF Texts
<1>2. CASE Len(full) > Len(sent) /\ IsPrefix(sent, full)
  <2>1. Delta(full, sent) = SubSeq(full, Len(sent) + 1, Len(full))
    BY <1>2 DEF Delta
  <2>2. Len(full) > 0 /\ Len(sent) + 1 <= Len(full)
    BY <1>1, <1>2
  <2>3. Len(SubSeq(full, Len(sent) + 1, Len(full))) # 0
    BY <1>1, <2>2 DEF Texts
  <2>4. Delta(full, sent) # <<>>
    <3> DEFINE x == SubSeq(full, Len(sent) + 1, Len(full))
    <3>1. Len(x) # 0
      BY <2>3
    <3> HIDE DEF x
    <3>2. x # <<>>
      BY <3>1
    <3> QED BY <2>1, <3>2 DEF x
  <2>5. full # <<>>
    BY <2>2
  <2> QED BY <2>4, <2>5
<1>3. CASE ~(Len(full) > Len(sent) /\ IsPrefix(sent, full))
  <2>1. Delta(full, sent) = <<>>
    BY <1>3 DEF Delta
  <2>2. IsPrefix(sent, full) => Len(full) <= Len(sent)
    BY <1>1, <1>3
  <2> QED BY <2>1, <2>2
<1> QED BY <1>2, <1>3

LEMMA NoneBefore ==
  ASSUME NEW o, ChatOut(o, 3), o.log = <<>>
  PROVE  ChatOut(o, 2)
<1>1. Rising(<<>>, 2)
  BY DEF Rising
<1> QED BY <1>1 DEF ChatOut

(* What a piece of text changes in the stream.                             *)
LEMMA TextSent ==
  ASSUME ClientInv, stage = "reading", NEW t \in Texts, Len(t) > 0, NEW steady \in BOOLEAN,
         Text(t, steady)
  PROVE  /\ line' \in Lines /\ tracker' \in [text : Texts, thought : Texts]
         /\ line'.at # 0 /\ line'.thought = line.thought /\ tracker'.thought = tracker.thought
         /\ \/ out' = out /\ tracker'.text = tracker.text
            \/ req.stream /\ tracker'.text # <<>> /\ \E x : out' = Write(out, x)
<1> DEFINE clean == cleanGeminiText(t)
           d == IF req.stream THEN Delta(clean, tracker.text) ELSE <<>>
           sure == steady /\ IsPrefix(tracker.text, clean)
<1>1. line \in Lines /\ tracker \in [text : Texts, thought : Texts]
  BY DEF ClientInv, ClientTyped
<1>2. clean \in Texts
  BY CleanIs
<1>3. /\ line' = [line EXCEPT !.text = IF Trim(t) = <<>> THEN @ ELSE t, !.any = TRUE,
                              !.steady = sure,
                              !.plan = IF steady THEN @ ELSE t, !.at = Len(t)]
      /\ tracker' = [tracker EXCEPT !.text = IF d = <<>> THEN @ ELSE clean]
      /\ IF d = <<>> THEN UNCHANGED <<gate, out>> ELSE PassOn(d)
  BY DEF Text
<1>4. d # <<>> => req.stream /\ clean # <<>>
  <2>1. tracker.text \in Texts
    BY <1>1
  <2> HIDE DEF clean
  <2> QED BY <1>2, <2>1, DeltaAdds
<1>5. sure \in BOOLEAN
  BY DEF IsPrefix
<1>6. Len(t) \in Nat
  BY DEF Texts
<1> HIDE DEF clean, d, sure
<1>7. line' \in Lines
  BY <1>1, <1>3, <1>5, <1>6 DEF Lines
<1>8. tracker' \in [text : Texts, thought : Texts]
  BY <1>1, <1>2, <1>3
<1>9. line'.at # 0 /\ line'.thought = line.thought
  BY <1>1, <1>3, <1>6 DEF Lines
<1>10. tracker'.thought = tracker.thought /\ tracker'.text = IF d = <<>> THEN tracker.text ELSE clean
  BY <1>1, <1>3
<1>11. CASE d = <<>>
  BY <1>3, <1>7, <1>8, <1>9, <1>10, <1>11
<1>12. CASE d # <<>>
  <2>1. PassOn(d)
    BY <1>3, <1>12
  <2>2. \E x : out' = Write(out, x)
    BY <2>1 DEF PassOn
  <2> QED BY <1>4, <1>7, <1>8, <1>9, <1>10, <1>12, <2>2
<1> QED BY <1>11, <1>12

LEMMA TextStep ==
  ASSUME ClientInv, stage = "reading", NEW t \in Texts, Len(t) > 0, NEW steady \in BOOLEAN,
         Text(t, steady)
  PROVE  ClientInv'
<1>1. /\ pool' = pool /\ req' = req /\ stage' = stage /\ call' = call /\ rows' = rows
  BY DEF Text, account
<1>2. /\ line' \in Lines /\ tracker' \in [text : Texts, thought : Texts]
      /\ line'.at # 0 /\ line'.thought = line.thought /\ tracker'.thought = tracker.thought
      /\ \/ out' = out /\ tracker'.text = tracker.text
         \/ req.stream /\ tracker'.text # <<>> /\ \E x : out' = Write(out, x)
  BY TextSent
<1>3. ClientTyped'
  BY <1>1, <1>2 DEF ClientInv, ClientTyped
<1>4. FilesInv'
  BY <1>1 DEF ClientInv, FilesInv
<1>5. UnderwayInv
  BY DEF ClientInv, OutInv, Underway
<1>6. UnderwayInv'
  <2>1. rows' = <<>>
    BY <1>1, <1>5 DEF UnderwayInv
  <2>2. CASE ~req.stream
    BY <1>1, <1>2, <1>5, <2>1, <2>2 DEF UnderwayInv
  <2>3. CASE req.stream /\ Chat
    <3>1. ChatInv
      BY <1>5, <2>3 DEF UnderwayInv
    <3>2. ChatOut(out', 3)
      <4>1. ChatOut(out, 3)
        BY <3>1 DEF ChatInv
      <4> QED BY <1>2, <2>3, <4>1, WriteChat
    <3>3. out'.log # <<>> => tracker'.text # <<>> \/ tracker'.thought # <<>>
      BY <1>2, <3>1 DEF ChatInv, Spoken
    <3>4. IsPrefix(tracker.thought, line.thought) => Len(line.thought) <= Len(tracker.thought)
      BY <3>1 DEF ChatInv
    <3>5. ChatInv'
      BY <1>1, <1>2, <3>2, <3>3, <3>4 DEF ChatInv, Spoken
    <3> QED BY <1>1, <2>1, <2>3, <3>5 DEF UnderwayInv, Chat
  <2>4. CASE req.stream /\ ~Chat
    <3>1. PICK open : Writing(out, open)
      BY <1>5, <2>4 DEF UnderwayInv
    <3>2. \E left : Writing(out', left)
      BY <1>2, <2>4, <3>1, WriteResponse
    <3> QED BY <1>1, <2>1, <2>4, <3>2 DEF UnderwayInv, Chat
  <2> QED BY <2>2, <2>3, <2>4
<1>7. OutInv'
  BY <1>1, <1>6 DEF OutInv
<1> QED BY <1>3, <1>4, <1>7 DEF ClientInv

LEMMA ReadTextStep ==
  ASSUME ClientInv, ReadText
  PROVE  ClientInv'
<1>1. PICK n \in line.at + 1 .. Len(line.plan) : Text(SubSeq(line.plan, 1, n), line.steady)
  BY DEF ReadText
<1>2. stage = "reading" /\ line \in Lines
  BY DEF ReadText, ClientInv, ClientTyped
<1>3. line.at \in Nat /\ line.plan \in Texts /\ line.steady \in BOOLEAN /\ Len(line.plan) \in Nat
  BY <1>2 DEF Lines, Texts
<1> DEFINE t == SubSeq(line.plan, 1, n)
<1>4. n \in 1..Len(line.plan)
  BY <1>3
<1>5. t \in Texts /\ Len(t) = n
  BY <1>3, <1>4 DEF Texts
<1>6. Len(t) > 0
  BY <1>4, <1>5
<1>7. Text(t, line.steady)
  BY <1>1
<1> HIDE DEF t
<1> QED BY <1>2, <1>3, <1>5, <1>6, <1>7, TextStep

LEMMA ReadRewrittenStep ==
  ASSUME ClientInv, ReadRewritten
  PROVE  ClientInv'
<1>1. PICK t \in Rewrites : Text(t, FALSE)
  BY DEF ReadRewritten
<1>2. stage = "reading"
  BY DEF ReadRewritten
<1>3. t \in Seq(Letters) \ {<<>>}
  BY TextsAssumption
<1>4. t \in Texts /\ Len(t) > 0
  BY <1>3 DEF Texts
<1> QED BY <1>1, <1>2, <1>4, TextStep

LEMMA ThoughtStep ==
  ASSUME ClientInv, ReadThought
  PROVE  ClientInv'
<1>1. stage = "reading" /\ line.at = 0 /\ line \in Lines
      /\ tracker \in [text : Texts, thought : Texts] /\ UnderwayInv
  BY DEF ReadThought, ClientInv, ClientTyped, OutInv, Underway
<1>2. PICK r \in Thoughts :
        LET d == IF req.stream /\ Chat THEN Delta(r, tracker.thought) ELSE <<>>
        IN /\ Len(r) > Len(line.thought)
           /\ line' = [line EXCEPT !.thought = r, !.any = TRUE]
           /\ tracker' = [tracker EXCEPT !.thought = IF d = <<>> THEN @ ELSE r]
           /\ out' = SendReasoning(out, d)
  BY DEF ReadThought
<1>3. /\ pool' = pool /\ req' = req /\ stage' = stage /\ call' = call /\ rows' = rows
  BY DEF ReadThought, account
<1> DEFINE d == IF req.stream /\ Chat THEN Delta(r, tracker.thought) ELSE <<>>
<1>4. r \in Texts
  BY TextsAssumption DEF Texts
<1>5. line' \in Lines /\ line'.at = line.at /\ line'.thought = r
  BY <1>1, <1>2, <1>4 DEF Lines
<1>6. /\ tracker' = [tracker EXCEPT !.thought = IF d = <<>> THEN @ ELSE r]
      /\ out' = SendReasoning(out, d)
  BY <1>2
<1>7. d = <<>> => out' = out
  BY <1>6 DEF SendReasoning
<1>8. req.stream /\ Chat => d = Delta(r, tracker.thought)
  OBVIOUS
<1>9. ~(req.stream /\ Chat) => d = <<>>
  OBVIOUS
<1> HIDE DEF d
<1>10. tracker' \in [text : Texts, thought : Texts]
       /\ tracker'.text = tracker.text
       /\ tracker'.thought = IF d = <<>> THEN tracker.thought ELSE r
  BY <1>1, <1>4, <1>6
<1>11. ClientTyped'
  BY <1>3, <1>5, <1>10 DEF ClientInv, ClientTyped
<1>12. FilesInv'
  BY <1>3 DEF ClientInv, FilesInv
<1>13. UnderwayInv'
  <2>1. rows' = <<>>
    BY <1>1, <1>3 DEF UnderwayInv
  <2>2. CASE ~req.stream
    BY <1>1, <1>3, <1>7, <1>9, <2>1, <2>2 DEF UnderwayInv
  <2>3. CASE req.stream /\ Chat
    <3>1. ChatInv
      BY <1>1, <2>3 DEF UnderwayInv
    <3>2. ChatOut(out, 2)
      BY <1>1, <3>1 DEF ChatInv
    <3>3. ChatOut(out', 2)
      BY <1>6, <3>2, ChatReasoning
    <3>4. ChatOut(out', 3)
      BY <3>3, ChatMore
    <3>5. tracker.thought \in Texts
      BY <1>1
    <3>6. /\ d # <<>> => r # <<>>
          /\ d = <<>> => (IsPrefix(tracker.thought, r) => Len(r) <= Len(tracker.thought))
      BY <1>4, <1>8, <2>3, <3>5, DeltaAdds
    <3>7. out'.log # <<>> => tracker'.text # <<>> \/ tracker'.thought # <<>>
      BY <1>7, <1>10, <3>1, <3>6 DEF ChatInv, Spoken
    <3>8. IsPrefix(tracker'.thought, r) => Len(r) <= Len(tracker'.thought)
      <4>1. CASE d = <<>>
        BY <1>10, <3>6, <4>1
      <4>2. CASE d # <<>>
        <5>1. Len(r) \in Nat
          BY <1>4 DEF Texts
        <5> QED BY <1>10, <4>2, <5>1
      <4> QED BY <4>1, <4>2
    <3>9. ChatInv'
      BY <1>1, <1>3, <1>5, <3>3, <3>4, <3>7, <3>8 DEF ChatInv, Spoken
    <3> QED BY <1>3, <2>1, <2>3, <3>9 DEF UnderwayInv, Chat
  <2>4. CASE req.stream /\ ~Chat
    BY <1>1, <1>3, <1>7, <1>9, <2>1, <2>4 DEF UnderwayInv, Chat
  <2> QED BY <2>2, <2>3, <2>4
<1>14. OutInv'
  BY <1>1, <1>3, <1>13 DEF OutInv
<1> QED BY <1>11, <1>12, <1>14 DEF ClientInv

(* A step before the answer comes sends nothing and reads nothing.         *)
LEMMA QuietStep ==
  ASSUME ClientInv, Underway, stage \in {"call", "prepare", "post"},
         stage' \in {"call", "prepare", "post"},
         UNCHANGED <<req, line, tracker, out, rows>>
  PROVE  OutInv'
<1>1. UnderwayInv
  BY DEF ClientInv, OutInv
<1>2. UnderwayInv'
  BY <1>1 DEF UnderwayInv, ChatInv, Chat, Spoken
<1> QED BY <1>2 DEF OutInv, Underway

LEMMA StillTyped ==
  ASSUME ClientInv, UNCHANGED <<pool, req, call, line, tracker>>,
         stage' \in Stages \ {"idle"}, stage # "idle"
  PROVE  ClientTyped'
BY DEF ClientInv, ClientTyped

LEMMA StillFiles ==
  ASSUME ClientInv, UNCHANGED call, stage' \in {"post", "reading", "done"}
  PROVE  FilesInv'
BY DEF ClientInv, FilesInv

LEMMA RejectStep ==
  ASSUME ClientInv, NEW r \in Queries, Reject(r)
  PROVE  ClientInv'
<1>1. /\ stage = "idle" /\ stage' = "done" /\ req' = r /\ rejectUnsupported(r)
      /\ out' = Json(out, 400)
      /\ pool' = pool /\ call' = call /\ line' = line /\ tracker' = tracker /\ rows' = rows
  BY DEF Reject, account
<1>2. out = Silent /\ rows = <<>>
  BY <1>1 DEF ClientInv, OutInv
<1>3. out'.log = JsonLog(400)
  BY <1>1, <1>2, SilentIs, JsonIs
<1>4. ClientTyped'
  BY <1>1 DEF ClientInv, ClientTyped, Stages
<1>5. FilesInv'
  BY <1>1, StillFiles
<1>6. rejectUnsupported(req)'
  BY <1>1 DEF rejectUnsupported
<1>7. rows' = <<>> /\ <<>> # <<200>>
  BY <1>1, <1>2
<1> DEFINE l == JsonLog(400)
<1> HIDE DEF l
<1>8. EndedOnce(l) /\ Ordered(l) /\ ItemsShown(l) /\ ~Told(l)
  BY JsonShown DEF l
<1>9. out'.log = l
  BY <1>3 DEF l
<1>10. DoneInv'
  BY <1>6, <1>7, <1>8, <1>9 DEF DoneInv
<1>11. OutInv'
  BY <1>1, <1>10 DEF OutInv, Underway
<1> QED BY <1>4, <1>5, <1>11 DEF ClientInv

LEMMA AcceptStep ==
  ASSUME ClientInv, NEW r \in Queries, Accept(r)
  PROVE  ClientInv'
<1>1. /\ stage = "idle" /\ stage' = "call" /\ req' = r
      /\ out' = IF r.stream /\ r.api = "responses" THEN Created(out) ELSE out
      /\ pool' = pool /\ call' = call /\ line' = line /\ tracker' = tracker /\ rows' = rows
  BY DEF Accept, account
<1>2. out = Silent /\ rows = <<>> /\ line = NoLine /\ tracker = Fresh
  BY <1>1 DEF ClientInv, OutInv
<1>3. ClientTyped'
  BY <1>1 DEF ClientInv, ClientTyped, Stages
<1>4. FilesInv'
  BY <1>1 DEF ClientInv, FilesInv
<1>5. r \in Asks
  BY QueriesAssumption
<1>6. r.api \in {"chat", "responses"}
  BY <1>5 DEF Asks
<1>7. UnderwayInv'
  <2>1. CASE ~r.stream
    BY <1>1, <1>2, <2>1, SilentIs DEF UnderwayInv
  <2>2. CASE r.stream /\ r.api = "chat"
    <3>1. out' = Silent
      BY <1>1, <1>2, <2>2
    <3>2. ChatOut(Silent, 3)
      <4>1. Rising(<<>>, 3)
        BY DEF Rising
      <4> QED BY <4>1, SilentIs DEF ChatOut
    <3>3. ChatOut(Silent, 2)
      BY <3>2, NoneBefore, SilentIs
    <3>4. NoLine.thought = <<>> /\ Len(<<>>) = 0 /\ Fresh.thought = <<>>
      BY DEF NoLine, Fresh
    <3>5. Silent.log = <<>>
      BY SilentIs
    <3>6. ChatInv'
      BY <1>1, <1>2, <3>1, <3>2, <3>3, <3>4, <3>5 DEF ChatInv
    <3> QED BY <1>1, <1>2, <2>2, <3>6 DEF UnderwayInv, Chat
  <2>3. CASE r.stream /\ r.api = "responses"
    <3>1. out' = Created(Silent)
      BY <1>1, <1>2, <2>3
    <3>2. Writing(out', {})
      BY <3>1, CreatedWriting
    <3>3. ~Chat' /\ req'.stream /\ rows' = <<>>
      BY <1>1, <1>2, <2>3 DEF Chat
    <3> QED BY <3>2, <3>3 DEF UnderwayInv
  <2> QED BY <1>6, <2>1, <2>2, <2>3
<1>8. OutInv'
  BY <1>1, <1>7 DEF OutInv
<1> QED BY <1>3, <1>4, <1>8 DEF ClientInv

LEMMA PoolStep ==
  ASSUME ClientInv, PoolChanges
  PROVE  ClientInv'
<1>1. /\ stage = "call" /\ pool' \in BOOLEAN
      /\ UNCHANGED <<req, stage, call, line, tracker, gate, out, rows, answer>>
  BY DEF PoolChanges, ClientInv, ClientTyped
<1>2. ClientTyped'
  BY <1>1 DEF ClientInv, ClientTyped
<1>3. FilesInv'
  BY <1>1 DEF ClientInv, FilesInv
<1>4. OutInv'
  BY <1>1, QuietStep DEF Underway
<1> QED BY <1>2, <1>3, <1>4 DEF ClientInv

LEMMA PickStep ==
  ASSUME ClientInv, Pick
  PROVE  ClientInv'
<1>1. /\ stage = "call" /\ stage' = "prepare"
      /\ \E a \in BOOLEAN : call' = [call EXCEPT !.acct = a]
      /\ UNCHANGED <<account, req, line, tracker, gate, out, rows, answer>>
  BY DEF Pick
<1>2. call \in [acct : BOOLEAN, attempt : Int, files : BOOLEAN, over : BOOLEAN] /\ ~call.files
  BY <1>1 DEF ClientInv, ClientTyped, FilesInv
<1>3. call' \in [acct : BOOLEAN, attempt : Int, files : BOOLEAN, over : BOOLEAN] /\ ~call'.files
  BY <1>1, <1>2
<1>4. ClientTyped'
  BY <1>1, <1>3 DEF ClientInv, ClientTyped, account, Stages
<1>5. FilesInv'
  BY <1>3 DEF FilesInv
<1>6. OutInv'
  BY <1>1, QuietStep DEF Underway
<1> QED BY <1>4, <1>5, <1>6 DEF ClientInv

LEMMA FailsStep ==
  ASSUME ClientInv, Underway, NEW kind \in {"long", "limit", "upstream"}, Fails(kind),
         UNCHANGED <<account, req, call, tracker>>, line' \in Lines
  PROVE  ClientInv'
<1>1. stage' = "done" /\ pool' = pool /\ stage # "idle"
  BY DEF Fails, account, Underway
<1>2. ClientTyped'
  BY <1>1 DEF ClientInv, ClientTyped, Stages
<1>3. FilesInv'
  BY <1>1, StillFiles
<1>4. OutInv'
  BY FailsDone
<1> QED BY <1>2, <1>3, <1>4 DEF ClientInv

LEMMA PrepareStep ==
  ASSUME ClientInv, Prepare
  PROVE  ClientInv'
<1>1. stage = "prepare" /\ UNCHANGED <<account, req, line, tracker, gate, answer>> /\ Underway
      /\ line \in Lines
  BY DEF Prepare, Underway, ClientInv, ClientTyped
<1>2. CASE req.files = "visual" /\ ~call.acct
  BY <1>1, <1>2, FailsStep DEF Prepare
<1>3. CASE ~(req.files = "visual" /\ ~call.acct) /\ (req.long /\ ~Conversing /\ ~call.acct)
  BY <1>1, <1>3, FailsStep DEF Prepare
<1>4. CASE ~(req.files = "visual" /\ ~call.acct) /\ ~(req.long /\ ~Conversing /\ ~call.acct)
  <2> DEFINE f == req.files = "visual" \/ (req.long /\ ~Conversing)
             v == req.long /\ Conversing
  <2>1. /\ call' = [call EXCEPT !.files = f, !.over = v]
        /\ stage' = "post" /\ UNCHANGED <<out, rows>>
    BY <1>4 DEF Prepare
  <2>2. call \in [acct : BOOLEAN, attempt : Int, files : BOOLEAN, over : BOOLEAN]
    BY DEF ClientInv, ClientTyped
  <2>3. req \in Asks
    BY <1>1, QueriesAssumption DEF ClientInv, ClientTyped
  <2>4. req.long \in BOOLEAN /\ req.multi \in BOOLEAN
    BY <2>3 DEF Asks
  <2>5. f \in BOOLEAN /\ v \in BOOLEAN
    BY <2>4 DEF Conversing
  <2>6. f => call.acct
    BY <1>4, <2>2
  <2> HIDE DEF f, v
  <2>7. /\ call' \in [acct : BOOLEAN, attempt : Int, files : BOOLEAN, over : BOOLEAN]
        /\ call'.files = f /\ call'.acct = call.acct
    BY <2>1, <2>2, <2>5
  <2>8. ClientTyped'
    BY <1>1, <2>1, <2>7 DEF ClientInv, ClientTyped, account, Stages
  <2>9. FilesInv'
    BY <2>1, <2>6, <2>7 DEF FilesInv
  <2>10. OutInv'
    BY <1>1, <2>1, QuietStep DEF Underway
  <2> QED BY <2>8, <2>9, <2>10 DEF ClientInv
<1> QED BY <1>2, <1>3, <1>4

LEMMA PostStep ==
  ASSUME ClientInv, Post
  PROVE  ClientInv'
<1>1. /\ stage = "post" /\ stage' = "reading"
      /\ \E plan \in Answers : line' = [NoLine EXCEPT !.plan = plan]
      /\ call' = [call EXCEPT !.attempt = @ + 1]
      /\ UNCHANGED <<account, req, tracker, gate, out, rows, answer>>
  BY DEF Post
<1>2. call \in [acct : BOOLEAN, attempt : Int, files : BOOLEAN, over : BOOLEAN]
  BY DEF ClientInv, ClientTyped
<1>3. /\ call' \in [acct : BOOLEAN, attempt : Int, files : BOOLEAN, over : BOOLEAN]
      /\ call'.files = call.files /\ call'.acct = call.acct
  BY <1>1, <1>2
<1>4. line' \in Lines /\ line'.at = 0 /\ line'.thought = <<>>
  <2>1. PICK plan \in Answers : line' = [NoLine EXCEPT !.plan = plan]
    BY <1>1
  <2>2. plan \in Texts /\ <<>> \in Texts
    BY TextsAssumption DEF Texts
  <2> QED BY <2>1, <2>2 DEF NoLine, Lines
<1>5. ClientTyped'
  BY <1>1, <1>3, <1>4 DEF ClientInv, ClientTyped, account, Stages
<1>6. FilesInv'
  BY <1>1, <1>3 DEF ClientInv, FilesInv
<1>7. UnderwayInv
  BY <1>1 DEF ClientInv, OutInv, Underway
<1>8. UnderwayInv'
  <2>1. CASE req.stream /\ Chat
    <3>1. ChatInv
      BY <1>7, <2>1 DEF UnderwayInv
    <3>2. out.log = <<>> /\ ChatOut(out, 3)
      BY <1>1, <3>1 DEF ChatInv
    <3>3. ChatOut(out, 2)
      BY <3>2, NoneBefore
    <3>4. tracker.thought \in Texts
      BY DEF ClientInv, ClientTyped
    <3>5. Len(<<>>) <= Len(tracker.thought)
      BY <3>4 DEF Texts
    <3>6. ChatInv'
      BY <1>1, <1>4, <3>2, <3>3, <3>5 DEF ChatInv
    <3> QED BY <1>1, <1>7, <2>1, <3>6 DEF UnderwayInv, Chat
  <2>2. CASE ~(req.stream /\ Chat)
    BY <1>1, <1>7, <2>2 DEF UnderwayInv, Chat
  <2> QED BY <2>1, <2>2
<1>9. OutInv'
  BY <1>1, <1>8 DEF OutInv
<1> QED BY <1>5, <1>6, <1>9 DEF ClientInv

LEMMA PostFailsStep ==
  ASSUME ClientInv, PostFails
  PROVE  ClientInv'
<1>1. /\ stage = "reading" /\ line' = NoLine /\ UNCHANGED <<account, req, call, tracker, gate, answer>>
      /\ Underway /\ UnderwayInv
  BY DEF PostFails, Underway, ClientInv, OutInv
<1>2. NoLine \in Lines /\ NoLine.thought = <<>> /\ NoLine.at = 0
  BY DEF NoLine, Lines, Texts
<1>3. CASE Spoken \/ call.attempt = RetryAttempts
  BY <1>1, <1>2, <1>3, FailsStep DEF PostFails
<1>4. CASE ~(Spoken \/ call.attempt = RetryAttempts)
  <2>1. stage' = "post" /\ UNCHANGED <<out, rows>>
    BY <1>4 DEF PostFails
  <2>2. ClientTyped'
    BY <1>1, <1>2, <2>1 DEF ClientInv, ClientTyped, account, Stages
  <2>3. FilesInv'
    BY <1>1, <2>1, StillFiles
  <2>4. UnderwayInv'
    <3>1. CASE req.stream /\ Chat
      <4>1. ChatInv
        BY <1>1, <3>1 DEF UnderwayInv
      <4>2. out.log = <<>> /\ ChatOut(out, 3)
        BY <1>4, <4>1 DEF ChatInv
      <4>3. ChatOut(out, 2)
        BY <4>2, NoneBefore
      <4>4. tracker.thought \in Texts
        BY DEF ClientInv, ClientTyped
      <4>5. Len(<<>>) <= Len(tracker.thought)
        BY <4>4 DEF Texts
      <4>6. ChatInv'
        BY <1>1, <1>2, <2>1, <4>2, <4>3, <4>5 DEF ChatInv
      <4> QED BY <1>1, <2>1, <3>1, <4>6 DEF UnderwayInv, Chat
    <3>2. CASE ~(req.stream /\ Chat)
      BY <1>1, <2>1, <3>2 DEF UnderwayInv, Chat
    <3> QED BY <3>1, <3>2
  <2>5. OutInv'
    BY <2>1, <2>4 DEF OutInv
  <2> QED BY <2>2, <2>3, <2>5 DEF ClientInv
<1> QED BY <1>3, <1>4

LEMMA CallsAre ==
  ASSUME ClientInv
  PROVE  Calls \in Nat
<1>1. line.text \in Texts
  BY DEF ClientInv, ClientTyped, Lines
<1>2. <<>> \in Texts
  BY DEF Texts
<1>3. Extracted \in Texts
  BY <1>1, <1>2, ExtractedIs DEF Extracted
<1> QED BY <1>3, ExtractedIs DEF Calls

LEMMA SucceedsStep ==
  ASSUME ClientInv, Ends, NEW text, NEW calls \in Nat, Succeeds(text, calls)
  PROVE  ClientInv'
<1>1. stage = "reading" /\ UNCHANGED <<account, req, call, line, tracker, gate>>
  BY DEF Ends
<1>2. stage' = "done" /\ pool' = pool
  BY <1>1 DEF Succeeds, account
<1>3. ClientTyped'
  BY <1>1, <1>2 DEF ClientInv, ClientTyped, Stages
<1>4. FilesInv'
  BY <1>1, <1>2, StillFiles
<1>5. OutInv'
  BY <1>1, SucceedsDone
<1> QED BY <1>3, <1>4, <1>5 DEF ClientInv

LEMMA EndsFailing ==
  ASSUME ClientInv, Ends, Fails("upstream")
  PROVE  ClientInv'
<1>1. stage = "reading" /\ UNCHANGED <<account, req, call, line, tracker, gate>> /\ Underway
  BY DEF Ends, Underway
<1>2. line' \in Lines
  BY <1>1 DEF ClientInv, ClientTyped
<1> QED BY <1>1, <1>2, FailsStep

LEMMA ClientStep == ClientInv /\ [StreamNext]_streamVars => ClientInv'
<1> SUFFICES ASSUME ClientInv, [StreamNext]_streamVars PROVE ClientInv'
  OBVIOUS
<1>1. CASE PoolChanges
  BY <1>1, PoolStep
<1>2. ASSUME NEW r \in Queries, Reject(r) PROVE ClientInv'
  BY <1>2, RejectStep
<1>3. ASSUME NEW r \in Queries, Accept(r) PROVE ClientInv'
  BY <1>3, AcceptStep
<1>4. CASE NoSlot
  <2>1. Underway /\ Fails("limit") /\ UNCHANGED <<account, req, call, line, tracker>>
    BY <1>4 DEF NoSlot, Underway
  <2>2. line' \in Lines
    BY <2>1 DEF ClientInv, ClientTyped
  <2> QED BY <2>1, <2>2, FailsStep
<1>5. CASE Pick
  BY <1>5, PickStep
<1>6. CASE PrepareFails
  <2>1. Underway /\ Fails("upstream") /\ UNCHANGED <<account, req, call, line, tracker>>
    BY <1>6 DEF PrepareFails, Underway
  <2>2. line' \in Lines
    BY <2>1 DEF ClientInv, ClientTyped
  <2> QED BY <2>1, <2>2, FailsStep
<1>7. CASE Prepare
  BY <1>7, PrepareStep
<1>8. CASE Post
  BY <1>8, PostStep
<1>9. CASE ReadText
  BY <1>9, ReadTextStep
<1>10. CASE ReadRewritten
  BY <1>10, ReadRewrittenStep
<1>11. CASE ReadThought
  BY <1>11, ThoughtStep
<1>12. CASE PostFails
  BY <1>12, PostFailsStep
<1>13. CASE Answer
  <2>1. Ends
    BY <1>13 DEF Answer
  <2>2. Fails("upstream") \/ Succeeds(Parsed, Calls)
    BY <1>13 DEF Answer
  <2>3. Calls \in Nat
    BY CallsAre
  <2> QED BY <2>1, <2>2, <2>3, EndsFailing, SucceedsStep
<1>14. CASE Canvas
  <2>1. Ends
    BY <1>14 DEF Canvas
  <2>2. Fails("upstream") \/ \E text : Succeeds(text, 0)
    BY <1>14 DEF Canvas
  <2> QED BY <2>1, <2>2, EndsFailing, SucceedsStep
<1>15. CASE Media
  <2>1. Ends
    BY <1>15 DEF Media
  <2>2. Fails("upstream") \/ \E text : Succeeds(text, 0)
    BY <1>15 DEF Media
  <2> QED BY <2>1, <2>2, EndsFailing, SucceedsStep
<1>16. CASE Done \/ UNCHANGED streamVars
  <2>1. UNCHANGED streamVars
    BY <1>16 DEF Done
  <2> QED BY <2>1 DEF streamVars, ClientInv, ClientTyped, FilesInv, OutInv, Underway, UnderwayInv,
                      DoneInv, ChatInv, Chat, Spoken, rejectUnsupported
<1> QED BY <1>1, <1>2, <1>3, <1>4, <1>5, <1>6, <1>7, <1>8, <1>9, <1>10, <1>11, <1>12, <1>13, <1>14,
           <1>15, <1>16 DEF StreamNext

LEMMA ClientInvAlways == StreamSpec => []ClientInv
<1> QED BY ClientInit, ClientStep, PTL DEF StreamSpec

(* Every client is answered once: by one JSON body, or by one stream that  *)
(* opens, thinks, speaks and ends in this order, the end a success exactly *)
(* when the row that is recorded says so (server.go, sse.go).              *)
THEOREM OneEndingAlways == StreamSpec => []OneEnding
<1>1. ClientInv => OneEnding
  BY ShownWhenInv
<1> QED BY <1>1, ClientInvAlways, PTL

(* In the stream of the Responses interface no event is about an item that *)
(* was not announced or is finished, and the items are counted from 0      *)
(* (server.go:handleResponses), however the text comes in.                 *)
THEOREM ItemsAnnouncedAlways == StreamSpec => []ItemsAnnounced
<1>1. ClientInv => ItemsAnnounced
  BY ShownWhenInv
<1> QED BY <1>1, ClientInvAlways, PTL

(* Nothing is attached to a call without an account, whatever happens to   *)
(* the pool meanwhile (gemini.go).                                         *)
THEOREM FilesHaveAccountAlways == StreamSpec => []FilesHaveAccount
<1>1. ClientInv => FilesHaveAccount
  BY ShownWhenInv
<1> QED BY <1>1, ClientInvAlways, PTL

(* What the parser makes of a text from each of its positions on.          *)
Pieces(s) == [i \in DOMAIN s |-> IF Closed(s, "t", i) THEN <<>> ELSE <<s[i]>>]
Rest(s) == Gathered(Pieces(s), Onward(s, "t"))

LEMMA RestTyped ==
  ASSUME NEW s \in Texts
  PROVE  /\ Without(s, "t") = Rest(s)[1]
         /\ Len(Pieces(s)) = Len(s)
         /\ \A i \in 1 .. Len(s) + 2 :
              /\ Rest(s)[i] \in Texts
              /\ Rest(s)[i] = GatherStep(Pieces(s), Onward(s, "t"), Rest(s), i)
<1>1. Len(s) \in Nat /\ DOMAIN s = 1..Len(s) /\ \A i \in 1..Len(s) : s[i] \in Letters
  BY DEF Texts
<1>2. Len(Pieces(s)) = Len(s)
  BY <1>1 DEF Pieces
<1>3. \A i \in 1..Len(s) : Pieces(s)[i] \in Seq(Letters)
  <2>1. \A e \in Letters : <<e>> \in Seq(Letters)
    OBVIOUS
  <2>2. <<>> \in Seq(Letters)
    OBVIOUS
  <2> QED BY <1>1, <2>1, <2>2 DEF Pieces
<1>4. Onwards(Pieces(s), Onward(s, "t"), Letters)
  BY <1>1, <1>2, <1>3, OnwardIs DEF Onwards
<1>5. Without(s, "t") = Gather(Pieces(s), Onward(s, "t"))
  BY DEF Without, Pieces
<1>6. Without(s, "t") = Rest(s)[1]
  BY <1>5, GatherIs DEF Rest
<1>7. \A i \in 1 .. Len(s) + 2 :
        /\ Rest(s)[i] \in Seq(Letters)
        /\ Rest(s)[i] = GatherStep(Pieces(s), Onward(s, "t"), Rest(s), i)
  BY <1>2, <1>4, GatherSolved DEF Rest
<1> QED BY <1>2, <1>6, <1>7 DEF Texts

LEMMA RestStep ==
  ASSUME NEW s \in Texts, NEW i \in 1..Len(s)
  PROVE  /\ ~Closed(s, "t", i) => Rest(s)[i] = <<s[i]>> \o Rest(s)[i + 1]
         /\ Closed(s, "t", i) => Rest(s)[i] = Rest(s)[Close(s, i) + 1]
<1>1. Len(s) \in Nat /\ DOMAIN s = 1..Len(s)
  BY DEF Texts
<1> DEFINE p == Pieces(s)
           o == Onward(s, "t")
           h == Rest(s)
<1>2. h[i] = p[i] \o h[o[i]]
  <2>1. i \in 1 .. Len(s) + 2 /\ ~(i > Len(s))
    BY <1>1
  <2>2. Len(p) = Len(s) /\ h[i] = GatherStep(p, o, h, i)
    BY <2>1, RestTyped
  <2> QED BY <2>1, <2>2 DEF GatherStep
<1>3. ASSUME ~Closed(s, "t", i) PROVE h[i] = <<s[i]>> \o h[i + 1]
  <2>1. p[i] = <<s[i]>>
    BY <1>1, <1>3 DEF Pieces
  <2>2. o[i] = i + 1
    BY <1>1, <1>3 DEF Onward
  <2> QED BY <1>2, <2>1, <2>2
<1>4. ASSUME Closed(s, "t", i) PROVE h[i] = h[Close(s, i) + 1]
  <2>1. p[i] = <<>>
    BY <1>1, <1>4 DEF Pieces
  <2>2. "t" # "x"
    OBVIOUS
  <2>3. o[i] = Close(s, i) + 1
    BY <1>1, <1>4, <2>2 DEF Onward
  <2>4. Close(s, i) \in i + 2 .. Len(s)
    BY <1>4, CloseIs
  <2>5. h[Close(s, i) + 1] \in Texts
    BY <1>1, <2>4, RestTyped
  <2> HIDE DEF h, p, o
  <2>6. <<>> \o h[Close(s, i) + 1] = h[Close(s, i) + 1]
    BY <2>5 DEF Texts
  <2> QED BY <1>2, <2>1, <2>3, <2>6
<1> QED BY <1>3, <1>4

LEMMA RestEnd ==
  ASSUME NEW s \in Texts
  PROVE  Rest(s)[Len(s) + 1] = <<>> /\ Rest(s)[Len(s) + 2] = <<>>
<1>1. Len(s) \in Nat
  BY DEF Texts
<1>2. Len(s) + 1 > Len(s) /\ Len(s) + 2 > Len(s)
      /\ Len(s) + 1 \in 1 .. Len(s) + 2 /\ Len(s) + 2 \in 1 .. Len(s) + 2
  BY <1>1
<1> QED BY <1>2, RestTyped DEF GatherStep

(* s from a position on.                                                   *)
From(s, j) == SubSeq(s, j, Len(s))

LEMMA FromIs ==
  ASSUME NEW s \in Texts, NEW j \in 1 .. Len(s) + 1
  PROVE  /\ From(s, j) \in Texts
         /\ Len(From(s, j)) = Len(s) - j + 1
         /\ \A k \in 1 .. Len(s) - j + 1 : From(s, j)[k] = s[j - 1 + k]
<1>1. Len(s) \in Nat /\ \A i \in 1..Len(s) : s[i] \in Letters
  BY DEF Texts
<1>2. From(s, j) = [k \in 1 .. Len(s) - j + 1 |-> s[j - 1 + k]]
  BY <1>1 DEF From, Texts
<1>3. Len(s) - j + 1 \in Nat
  BY <1>1
<1>4. \A k \in 1 .. Len(s) - j + 1 : s[j - 1 + k] \in Letters
  <2> TAKE k \in 1 .. Len(s) - j + 1
  <2>1. j - 1 + k \in 1..Len(s)
    BY <1>1
  <2> QED BY <1>1, <2>1
<1>5. From(s, j) \in [1 .. Len(s) - j + 1 -> Letters]
  BY <1>2, <1>4
<1> QED BY <1>2, <1>3, <1>5 DEF Texts

LEMMA MinIs ==
  ASSUME NEW S \in SUBSET Nat, NEW m \in S, \A k \in S : m <= k
  PROVE  Min(S) = m
<1>1. Min(S) \in S /\ Min(S) <= m
  BY LeastOf
<1>2. m <= Min(S) /\ Min(S) \in Nat /\ m \in Nat
  BY <1>1
<1> QED BY <1>1, <1>2

(* A text and one of its ends close their blocks alike.                    *)
LEMMA ClosedShift ==
  ASSUME NEW s \in Texts, NEW j \in 1 .. Len(s) + 1, NEW u, u = From(s, j),
         NEW i \in 1..Len(u)
  PROVE  /\ Opens(u, "t", i) <=> Opens(s, "t", j - 1 + i)
         /\ Closed(u, "t", i) <=> Closed(s, "t", j - 1 + i)
         /\ Closed(u, "t", i) => Close(s, j - 1 + i) = j - 1 + Close(u, i)
<1>1. /\ Len(s) \in Nat /\ Len(u) \in Nat /\ Len(u) = Len(s) - j + 1
      /\ \A k \in 1..Len(u) : u[k] = s[j - 1 + k]
  <2>1. /\ u \in Texts /\ Len(u) = Len(s) - j + 1
        /\ \A k \in 1 .. Len(s) - j + 1 : u[k] = s[j - 1 + k]
    BY FromIs
  <2> QED BY <2>1 DEF Texts
<1>2. Opens(u, "t", i) <=> Opens(s, "t", j - 1 + i)
  <2>1. i < Len(u) <=> j - 1 + i < Len(s)
    BY <1>1
  <2>2. u[i] = s[j - 1 + i]
    BY <1>1
  <2>3. i < Len(u) => u[i + 1] = s[j - 1 + i + 1]
    <3>1. i < Len(u) => i + 1 \in 1..Len(u)
      BY <1>1
    <3>2. j - 1 + (i + 1) = j - 1 + i + 1
      OBVIOUS
    <3> QED BY <1>1, <3>1, <3>2
  <2> QED BY <2>1, <2>2, <2>3 DEF Opens
<1> DEFINE A == Fences(u, i + 2)
           B == Fences(s, j - 1 + i + 2)
<1>3. A \in SUBSET Nat /\ B \in SUBSET Nat
  BY <1>1 DEF Fences
<1>4. ASSUME NEW k \in A PROVE j - 1 + k \in B
  BY <1>1, <1>4 DEF Fences
<1>5. ASSUME NEW k \in B PROVE k - (j - 1) \in A
  <2>1. k \in j - 1 + i + 2 .. Len(s) /\ s[k] = "f"
    BY <1>5 DEF Fences
  <2>2. k - (j - 1) \in i + 2 .. Len(u) /\ k - (j - 1) \in 1..Len(u) /\ j - 1 + (k - (j - 1)) = k
    BY <1>1, <2>1
  <2>3. u[k - (j - 1)] = s[k]
    BY <1>1, <2>2
  <2> QED BY <2>1, <2>2, <2>3 DEF Fences
<1>6. A # {} <=> B # {}
  BY <1>4, <1>5
<1>7. Closed(u, "t", i) <=> Closed(s, "t", j - 1 + i)
  BY <1>2, <1>6 DEF Closed
<1>8. ASSUME Closed(u, "t", i) PROVE Close(s, j - 1 + i) = j - 1 + Close(u, i)
  <2>1. A # {}
    BY <1>8 DEF Closed
  <2>2. Min(A) \in A /\ \A k \in A : Min(A) <= k
    BY <1>3, <2>1, LeastOf
  <2>3. j - 1 + Min(A) \in B
    BY <1>4, <2>2
  <2>4. \A k \in B : j - 1 + Min(A) <= k
    <3> TAKE k \in B
    <3>1. k - (j - 1) \in A
      BY <1>5
    <3>2. Min(A) <= k - (j - 1)
      BY <2>2, <3>1
    <3>3. Min(A) \in Nat /\ k \in Nat
      BY <1>3, <2>2
    <3> QED BY <3>2, <3>3
  <2>5. Min(B) = j - 1 + Min(A)
    <3> HIDE DEF A, B
    <3> QED BY <1>3, <2>3, <2>4, MinIs
  <2>6. (j - 1 + i) + 2 = j - 1 + i + 2
    OBVIOUS
  <2> QED BY <2>5 DEF Close
<1> QED BY <1>2, <1>7, <1>8

(* So what the parser makes of an end does not depend on what is before.   *)
LEMMA RestShift ==
  ASSUME NEW s \in Texts, NEW j \in 1 .. Len(s) + 1
  PROVE  Rest(s)[j] = Without(From(s, j), "t")
<1> DEFINE u == From(s, j)
           n == Len(u) + 1
           S == {i \in 1..n : Rest(u)[i] = Rest(s)[j - 1 + i]}
<1>1. /\ u \in Texts /\ Len(s) \in Nat /\ Len(u) \in Nat /\ Len(u) = Len(s) - j + 1
      /\ \A k \in 1..Len(u) : u[k] = s[j - 1 + k]
  BY FromIs DEF Texts
<1>2. n \in Nat
  BY <1>1
<1> HIDE DEF u
<1>3. ASSUME NEW i \in 1..n, \A k \in i + 1..n : k \in S PROVE i \in S
  <2>1. CASE i = n
    <3>1. Rest(u)[i] = <<>>
      BY <1>1, <2>1, RestEnd
    <3>2. j - 1 + i = Len(s) + 1
      BY <1>1, <2>1
    <3>3. Rest(s)[j - 1 + i] = <<>>
      BY <3>2, RestEnd
    <3> QED BY <3>1, <3>3
  <2>2. CASE i # n
    <3>1. i \in 1..Len(u) /\ j - 1 + i \in 1..Len(s)
      BY <1>1, <2>2
    <3>2. /\ Closed(u, "t", i) <=> Closed(s, "t", j - 1 + i)
          /\ Closed(u, "t", i) => Close(s, j - 1 + i) = j - 1 + Close(u, i)
      BY <3>1, ClosedShift DEF u
    <3>3. CASE ~Closed(u, "t", i)
      <4>1. Rest(u)[i] = <<u[i]>> \o Rest(u)[i + 1]
        BY <1>1, <3>1, <3>3, RestStep
      <4>2. Rest(s)[j - 1 + i] = <<s[j - 1 + i]>> \o Rest(s)[j - 1 + i + 1]
        BY <3>1, <3>2, <3>3, RestStep
      <4>3. i + 1 \in i + 1..n /\ j - 1 + (i + 1) = j - 1 + i + 1
        BY <1>1, <3>1
      <4>4. Rest(u)[i + 1] = Rest(s)[j - 1 + i + 1]
        BY <1>3, <4>3
      <4>5. u[i] = s[j - 1 + i]
        BY <1>1, <3>1
      <4> QED BY <4>1, <4>2, <4>4, <4>5
    <3>4. CASE Closed(u, "t", i)
      <4>1. PICK c \in i + 2 .. Len(u) : c = Close(u, i)
        BY <1>1, <3>1, <3>4, CloseIs
      <4>2. Rest(u)[i] = Rest(u)[c + 1]
        BY <1>1, <3>1, <3>4, <4>1, RestStep
      <4>3. Rest(s)[j - 1 + i] = Rest(s)[j - 1 + c + 1]
        BY <3>1, <3>2, <3>4, <4>1, RestStep
      <4>4. c + 1 \in i + 1..n /\ j - 1 + (c + 1) = j - 1 + c + 1
        BY <1>1, <4>1
      <4>5. Rest(u)[c + 1] = Rest(s)[j - 1 + c + 1]
        BY <1>3, <4>4
      <4> QED BY <4>2, <4>3, <4>5
    <3> QED BY <3>3, <3>4
  <2> QED BY <2>1, <2>2
<1>4. \A i \in 1..n : i \in S
  <2> HIDE DEF S, n
  <2> QED BY <1>2, <1>3, Downward
<1>5. 1 \in 1..n /\ j - 1 + 1 = j
  BY <1>1
<1>6. Rest(u)[1] = Rest(s)[j]
  BY <1>4, <1>5
<1> QED BY <1>1, <1>6, RestTyped DEF u

-----------------------------------------------------------------------------
(* What the gate makes of a text *)

HeldFrom(s, j) == [buf |-> From(s, j), inFence |-> TRUE, sent |-> <<>>]
PassedFrom(s, j, last) ==
  [buf |-> From(s, last + 1), inFence |-> FALSE, sent |-> SubSeq(s, j, last)]
SettleStep(s, f, j) ==
  LET open == {i \in j..Len(s) : Opens(s, "t", i)}
      i == Min(open)
      last == Len(s) - partialPrefixLen(From(s, j))
      rest == IF Fences(s, i + 2) = {} THEN HeldFrom(s, i + 2) ELSE f[Close(s, i) + 1]
  IN IF open = {} THEN PassedFrom(s, j, last)
     ELSE [rest EXCEPT !.sent = SubSeq(s, j, i - 1) \o @]
Settled(s) ==
  LET from[j \in 1 .. Len(s) + 1] ==
        LET open == {i \in j..Len(s) : Opens(s, "t", i)}
            i == Min(open)
            last == Len(s) - partialPrefixLen(From(s, j))
            rest == IF Fences(s, i + 2) = {} THEN HeldFrom(s, i + 2) ELSE from[Close(s, i) + 1]
        IN IF open = {} THEN PassedFrom(s, j, last)
           ELSE [rest EXCEPT !.sent = SubSeq(s, j, i - 1) \o @]
  IN from

LEMMA SettleIs ==
  ASSUME NEW s, NEW inFence
  PROVE  /\ Settle(s, inFence) =
              IF ~inFence THEN Settled(s)[1]
              ELSE IF Fences(s, 1) = {} THEN HeldFrom(s, 1)
              ELSE Settled(s)[Min(Fences(s, 1)) + 1]
         /\ Settled(s) = CHOOSE f : f = [j \in 1 .. Len(s) + 1 |-> SettleStep(s, f, j)]
<1>1. Settled(s) = CHOOSE f : f = [j \in 1 .. Len(s) + 1 |-> SettleStep(s, f, j)]
  BY DEF Settled, SettleStep
<1>2. Settle(s, inFence) =
        IF ~inFence THEN Settled(s)[1]
        ELSE IF Fences(s, 1) = {} THEN HeldFrom(s, 1)
        ELSE Settled(s)[Min(Fences(s, 1)) + 1]
  BY DEF Settle, Settled, HeldFrom, PassedFrom, From
<1> QED BY <1>1, <1>2

(* The first tool call from a position on, if there is one.                *)
FirstOpen(s, j, i) ==
  /\ i \in j..Len(s)
  /\ Opens(s, "t", i)
  /\ \A k \in j .. i - 1 : ~Opens(s, "t", k)
NoneOpen(s, j) == \A k \in j..Len(s) : ~Opens(s, "t", k)

LEMMA OpenCases ==
  ASSUME NEW s \in Texts, NEW j \in 1 .. Len(s) + 1
  PROVE  NoneOpen(s, j) \/ \E i : FirstOpen(s, j, i)
<1> DEFINE S == {i \in j..Len(s) : Opens(s, "t", i)}
<1> SUFFICES ASSUME S # {} PROVE FirstOpen(s, j, Min(S))
  BY DEF NoneOpen
<1>1. S \in SUBSET Nat /\ Len(s) \in Nat
  BY DEF Texts
<1>2. Min(S) \in S /\ \A m \in S : Min(S) <= m
  <2> HIDE DEF S
  <2> QED BY <1>1, LeastOf
<1>3. \A k \in j .. Min(S) - 1 : k \notin S
  BY <1>1, <1>2
<1>4. \A k \in j .. Min(S) - 1 : k \in j..Len(s)
  BY <1>1, <1>2
<1> QED BY <1>2, <1>3, <1>4 DEF FirstOpen

(* Half a fence at the end is held.                                        *)
Final(s, j) == IF j <= Len(s) /\ s[Len(s)] = "f" THEN Len(s) - 1 ELSE Len(s)

LEMMA SettleNone ==
  ASSUME NEW s \in Texts, NEW j \in 1 .. Len(s) + 1, NEW f, NoneOpen(s, j)
  PROVE  /\ SettleStep(s, f, j) = PassedFrom(s, j, Final(s, j))
         /\ Final(s, j) \in j - 1 .. Len(s)
<1>1. {i \in j..Len(s) : Opens(s, "t", i)} = {}
  BY DEF NoneOpen
<1>2. SettleStep(s, f, j) = PassedFrom(s, j, Len(s) - partialPrefixLen(From(s, j)))
  BY <1>1 DEF SettleStep
<1> DEFINE u == From(s, j)
<1>3. /\ u \in Texts /\ Len(u) = Len(s) - j + 1 /\ Len(s) \in Nat
      /\ \A k \in 1 .. Len(s) - j + 1 : u[k] = s[j - 1 + k]
  BY FromIs DEF Texts
<1> HIDE DEF u
<1>4. u # <<>> <=> j <= Len(s)
  BY <1>3 DEF Texts
<1>5. ASSUME j <= Len(s) PROVE Last(u) = s[Len(s)]
  <2>1. Last(u) = u[Len(u)]
    BY DEF Last
  <2>2. Len(u) \in 1 .. Len(s) - j + 1 /\ j - 1 + Len(u) = Len(s)
    BY <1>3, <1>5
  <2> QED BY <1>3, <2>1, <2>2
<1>6. Len(s) - partialPrefixLen(u) = Final(s, j)
  <2>1. CASE j <= Len(s)
    <3>1. partialPrefixLen(u) = IF s[Len(s)] = "f" THEN 1 ELSE 0
      BY <1>4, <1>5, <2>1 DEF partialPrefixLen
    <3> QED BY <1>3, <2>1, <3>1 DEF Final
  <2>2. CASE ~(j <= Len(s))
    BY <1>3, <1>4, <2>2 DEF partialPrefixLen, Final
  <2> QED BY <2>1, <2>2
<1>7. Final(s, j) \in j - 1 .. Len(s)
  BY <1>3 DEF Final
<1> QED BY <1>2, <1>6, <1>7 DEF u

(* What comes after a call that was opened.                                *)
Following(s, f, i) ==
  IF Fences(s, i + 2) = {} THEN HeldFrom(s, i + 2) ELSE f[Close(s, i) + 1]
After(r, x) == [r EXCEPT !.sent = x \o @]

LEMMA SettleOpen ==
  ASSUME NEW s \in Texts, NEW j \in 1 .. Len(s) + 1, NEW f, NEW i, FirstOpen(s, j, i)
  PROVE  SettleStep(s, f, j) = After(Following(s, f, i), SubSeq(s, j, i - 1))
<1> DEFINE S == {k \in j..Len(s) : Opens(s, "t", k)}
<1>1. S \in SUBSET Nat /\ Len(s) \in Nat /\ i \in S
  BY DEF Texts, FirstOpen
<1>2. \A k \in S : i <= k
  <2> TAKE k \in S
  <2>1. k \notin j .. i - 1
    BY DEF FirstOpen
  <2> QED BY <1>1, <2>1
<1>3. Min(S) = i
  <2> HIDE DEF S
  <2> QED BY <1>1, <1>2, MinIs
<1>4. S # {}
  BY <1>1
<1> QED BY <1>3, <1>4 DEF SettleStep, Following, After

(* The gate holds a call that is not closed, or half a fence.              *)
Gates ==
  {g \in [buf : Texts, inFence : BOOLEAN, sent : Texts] :
     /\ g.inFence => Fences(g.buf, 1) = {}
     /\ ~g.inFence => g.buf \in {<<>>, <<"f">>}}

LEMMA PartIs ==
  ASSUME NEW s \in Texts, NEW a \in 1 .. Len(s) + 1, NEW b \in a - 1 .. Len(s)
  PROVE  /\ SubSeq(s, a, b) \in Texts
         /\ Len(SubSeq(s, a, b)) = b - a + 1
         /\ \A k \in 1 .. b - a + 1 : SubSeq(s, a, b)[k] = s[a - 1 + k]
<1>1. Len(s) \in Nat /\ \A i \in 1..Len(s) : s[i] \in Letters
  BY DEF Texts
<1>2. SubSeq(s, a, b) = [k \in 1 .. b - a + 1 |-> s[a - 1 + k]]
  BY <1>1 DEF Texts
<1>3. b - a + 1 \in Nat
  BY <1>1
<1>4. \A k \in 1 .. b - a + 1 : s[a - 1 + k] \in Letters
  <2> TAKE k \in 1 .. b - a + 1
  <2>1. a - 1 + k \in 1..Len(s)
    BY <1>1
  <2> QED BY <1>1, <2>1
<1>5. SubSeq(s, a, b) \in [1 .. b - a + 1 -> Letters]
  BY <1>2, <1>4
<1> QED BY <1>2, <1>3, <1>5 DEF Texts

LEMMA SentMore ==
  ASSUME NEW g \in Gates, NEW x \in Texts
  PROVE  /\ After(g, x) \in Gates /\ After(g, x).sent = x \o g.sent
         /\ After(g, x).buf = g.buf /\ After(g, x).inFence = g.inFence
<1>1. g.buf \in Texts /\ g.inFence \in BOOLEAN /\ g.sent \in Texts
  BY DEF Gates
<1> DEFINE t == x \o g.sent
           h == After(g, x)
<1>2. t \in Texts
  BY <1>1 DEF Texts
<1>3. h = [g EXCEPT !.sent = t]
  BY DEF After
<1> HIDE DEF t
<1>4. h \in [buf : Texts, inFence : BOOLEAN, sent : Texts]
      /\ h.sent = t /\ h.buf = g.buf /\ h.inFence = g.inFence
  BY <1>2, <1>3 DEF Gates
<1> HIDE DEF h
<1>5. h \in Gates
  BY <1>4 DEF Gates
<1> QED BY <1>4, <1>5 DEF h, t

LEMMA OneLetter ==
  ASSUME NEW u \in Texts, Len(u) = 1
  PROVE  u = <<u[1]>>
BY DEF Texts

LEMMA HeldTyped ==
  ASSUME NEW s \in Texts, NEW i \in 1 .. Len(s) + 1, Fences(s, i) = {}
  PROVE  HeldFrom(s, i) \in Gates
<1> DEFINE u == From(s, i)
<1>1. /\ u \in Texts /\ Len(u) = Len(s) - i + 1 /\ Len(s) \in Nat
      /\ \A k \in 1 .. Len(s) - i + 1 : u[k] = s[i - 1 + k]
  <2>1. Len(s) \in Nat
    BY DEF Texts
  <2> QED BY <2>1, FromIs
<1> HIDE DEF u
<1>2. \A k \in 1..Len(u) : u[k] # "f"
  <2> TAKE k \in 1..Len(u)
  <2>1. i - 1 + k \in i..Len(s)
    BY <1>1
  <2>2. i - 1 + k \notin Fences(s, i)
    OBVIOUS
  <2> QED BY <1>1, <2>1, <2>2 DEF Fences
<1>3. Fences(u, 1) = {}
  BY <1>2 DEF Fences
<1>4. <<>> \in Texts
  BY DEF Texts
<1>5. HeldFrom(s, i) = [buf |-> u, inFence |-> TRUE, sent |-> <<>>]
  BY DEF HeldFrom, u
<1> QED BY <1>1, <1>3, <1>4, <1>5 DEF Gates

LEMMA PassedTyped ==
  ASSUME NEW s \in Texts, NEW j \in 1 .. Len(s) + 1
  PROVE  PassedFrom(s, j, Final(s, j)) \in Gates
<1> DEFINE n == Len(s)
           m == Final(s, j)
           u == From(s, m + 1)
           v == SubSeq(s, j, m)
<1>1. n \in Nat /\ m \in j - 1 .. n
  BY DEF Final, Texts
<1>2. m + 1 \in 1 .. n + 1
  BY <1>1
<1>3. /\ u \in Texts /\ Len(u) = n - (m + 1) + 1
      /\ \A k \in 1 .. n - (m + 1) + 1 : u[k] = s[(m + 1) - 1 + k]
  BY <1>2, FromIs
<1>4. v \in Texts
  BY <1>1, PartIs
<1>5. u \in {<<>>, <<"f">>}
  <2>1. CASE j <= n /\ s[n] = "f"
    <3>1. m = n - 1
      BY <2>1 DEF Final
    <3> HIDE DEF u
    <3>2. Len(u) = 1 /\ u[1] = s[(m + 1) - 1 + 1]
      BY <1>1, <1>3, <3>1
    <3>3. (m + 1) - 1 + 1 = n
      BY <1>1, <3>1
    <3>4. u[1] = "f"
      BY <2>1, <3>2, <3>3
    <3> QED BY <1>3, <3>2, <3>4, OneLetter
  <2>2. CASE ~(j <= n /\ s[n] = "f")
    <3>1. m = n
      BY <2>2 DEF Final
    <3>2. Len(u) = 0
      BY <1>1, <1>3, <3>1
    <3> HIDE DEF u
    <3> QED BY <1>3, <3>2 DEF Texts
  <2> QED BY <2>1, <2>2
<1>6. PassedFrom(s, j, m) = [buf |-> u, inFence |-> FALSE, sent |-> v]
  BY DEF PassedFrom
<1> HIDE DEF u, v, m
<1> DEFINE g == PassedFrom(s, j, m)
<1>7. g \in Gates
  <2> HIDE DEF g
  <2>1. u \in Texts /\ g = [buf |-> u, inFence |-> FALSE, sent |-> v]
    BY <1>3, <1>6 DEF g
  <2>2. g \in [buf : Texts, inFence : BOOLEAN, sent : Texts]
    BY <1>4, <2>1
  <2>3. g.buf = u /\ g.inFence = FALSE
    BY <2>1
  <2> QED BY <1>5, <2>2, <2>3 DEF Gates
<1> QED BY <1>7 DEF m

LEMMA OpenIs ==
  ASSUME NEW s \in Texts, NEW j \in 1 .. Len(s) + 1, NEW i, FirstOpen(s, j, i)
  PROVE  /\ i \in j .. Len(s) - 1 /\ i \in 1..Len(s)
         /\ SubSeq(s, j, i - 1) \in Texts
         /\ Fences(s, i + 2) # {} =>
              Close(s, i) \in i + 2 .. Len(s) /\ Close(s, i) + 1 \in j + 1 .. Len(s) + 1
<1>1. Len(s) \in Nat /\ i \in j..Len(s) /\ i < Len(s)
  BY DEF Texts, FirstOpen, Opens
<1>2. i \in j .. Len(s) - 1 /\ i \in 1..Len(s)
  BY <1>1
<1>3. SubSeq(s, j, i - 1) \in Texts
  <2>1. i - 1 \in j - 1 .. Len(s)
    BY <1>1
  <2> QED BY <2>1, PartIs
<1>4. ASSUME Fences(s, i + 2) # {}
      PROVE  Close(s, i) \in i + 2 .. Len(s) /\ Close(s, i) + 1 \in j + 1 .. Len(s) + 1
  <2>1. Closed(s, "t", i)
    BY <1>4 DEF Closed, FirstOpen
  <2>2. Close(s, i) \in i + 2 .. Len(s)
    BY <1>2, <2>1, CloseIs
  <2> QED BY <1>1, <2>2
<1> QED BY <1>2, <1>3, <1>4

LEMMA SettleStepTyped ==
  ASSUME NEW s \in Texts, NEW N, N = Len(s) + 1, NEW j \in 1..N, NEW f,
         \A k \in j + 1 .. N : f[k] \in Gates
  PROVE  SettleStep(s, f, j) \in Gates
<1>0. j \in 1 .. Len(s) + 1
  OBVIOUS
<1>1. CASE NoneOpen(s, j)
  BY <1>0, <1>1, SettleNone, PassedTyped
<1>2. ASSUME NEW i, FirstOpen(s, j, i) PROVE SettleStep(s, f, j) \in Gates
  <2> DEFINE r == Following(s, f, i)
             x == SubSeq(s, j, i - 1)
  <2>1. SettleStep(s, f, j) = After(r, x)
    BY <1>0, <1>2, SettleOpen
  <2>2. i \in j .. Len(s) - 1 /\ x \in Texts
    BY <1>0, <1>2, OpenIs
  <2>3. r \in Gates
    <3>1. CASE Fences(s, i + 2) = {}
      <4>1. i + 2 \in 1 .. Len(s) + 1
        BY <1>0, <2>2
      <4> QED BY <3>1, <4>1, HeldTyped DEF Following
    <3>2. CASE Fences(s, i + 2) # {}
      BY <1>0, <1>2, <3>2, OpenIs DEF Following
    <3> QED BY <3>1, <3>2
  <2> HIDE DEF r, x
  <2> QED BY <2>1, <2>2, <2>3, SentMore
<1> QED BY <1>0, <1>1, <1>2, OpenCases

LEMMA SettleStepLater ==
  ASSUME NEW s \in Texts, NEW N, N = Len(s) + 1, NEW j \in 1..N, NEW f, NEW g,
         \A k \in j + 1 .. N : f[k] = g[k]
  PROVE  SettleStep(s, f, j) = SettleStep(s, g, j)
<1>0. j \in 1 .. Len(s) + 1
  OBVIOUS
<1>1. CASE NoneOpen(s, j)
  BY <1>0, <1>1, SettleNone
<1>2. ASSUME NEW i, FirstOpen(s, j, i) PROVE SettleStep(s, f, j) = SettleStep(s, g, j)
  <2>1. Fences(s, i + 2) # {} => f[Close(s, i) + 1] = g[Close(s, i) + 1]
    BY <1>0, <1>2, OpenIs
  <2>2. Following(s, f, i) = Following(s, g, i)
    BY <2>1 DEF Following
  <2>3. SettleStep(s, f, j) = After(Following(s, f, i), SubSeq(s, j, i - 1))
    BY <1>0, <1>2, SettleOpen
  <2>4. SettleStep(s, g, j) = After(Following(s, g, i), SubSeq(s, j, i - 1))
    BY <1>0, <1>2, SettleOpen
  <2> QED BY <2>2, <2>3, <2>4
<1> QED BY <1>0, <1>1, <1>2, OpenCases

LEMMA SettleSolved ==
  ASSUME NEW s \in Texts
  PROVE  \A j \in 1 .. Len(s) + 1 :
           Settled(s)[j] \in Gates /\ Settled(s)[j] = SettleStep(s, Settled(s), j)
<1> DEFINE N == Len(s) + 1
           E == [j \in 1..N |-> [f \in [1..N -> Gates] |-> SettleStep(s, f, j)]]
           h == Settled(s)
<1>0. N \in Nat /\ Len(s) \in Nat
  BY DEF Texts
<1>1. \A j \in 1..N, f \in [1..N -> Gates] : E[j][f] = SettleStep(s, f, j)
  OBVIOUS
<1>2. \A j \in 1..N, f \in [1..N -> Gates] : E[j][f] \in Gates
  <2> SUFFICES ASSUME NEW j \in 1..N, NEW f \in [1..N -> Gates] PROVE E[j][f] \in Gates
    OBVIOUS
  <2>1. \A k \in j + 1 .. N : f[k] \in Gates
    BY <1>0
  <2>2. SettleStep(s, f, j) \in Gates
    BY <2>1, SettleStepTyped
  <2> QED BY <1>1, <2>2
<1>3. \A j \in 1..N, f, g \in [1..N -> Gates] :
        (\A k \in j + 1 .. N : f[k] = g[k]) => E[j][f] = E[j][g]
  <2> SUFFICES ASSUME NEW j \in 1..N, NEW f \in [1..N -> Gates], NEW g \in [1..N -> Gates],
                      \A k \in j + 1 .. N : f[k] = g[k]
               PROVE  E[j][f] = E[j][g]
    OBVIOUS
  <2>1. SettleStep(s, f, j) = SettleStep(s, g, j)
    BY SettleStepLater
  <2> QED BY <1>1, <2>1
<1> HIDE DEF E
<1>4. HeldFrom(<<>>, 1) \in Gates
  <2>1. <<>> \in Texts /\ Len(<<>>) = 0
    BY DEF Texts
  <2>2. Fences(<<>>, 1) = {} /\ 1 \in 1 .. Len(<<>>) + 1
    BY <2>1 DEF Fences
  <2> QED BY <2>1, <2>2, HeldTyped
<1>5. PICK f \in [1..N -> Gates] : \A j \in 1..N : f[j] = E[j][f]
  <2>1. FromLater(N, Gates, E)
    BY <1>2, <1>3 DEF FromLater
  <2>2. Solvable(N, Gates, E)
    <3> HIDE DEF N
    <3> QED BY <1>0, <1>4, <2>1, DownwardRecursion
  <2> QED BY <2>2 DEF Solvable
<1>6. f = [j \in 1..N |-> SettleStep(s, f, j)]
  BY <1>1, <1>5
<1>7. h = [j \in 1..N |-> SettleStep(s, h, j)]
  BY <1>6, SettleIs
<1> DEFINE S == {j \in 1..N : h[j] \in Gates}
<1> HIDE DEF h
<1>8. \A j \in 1..N : h[j] = SettleStep(s, h, j)
  BY <1>7
<1>9. ASSUME NEW j \in 1..N, \A k \in j + 1 .. N : k \in S PROVE j \in S
  <2>1. \A k \in j + 1 .. N : h[k] \in Gates
    BY <1>9
  <2>2. SettleStep(s, h, j) \in Gates
    BY <2>1, SettleStepTyped
  <2> QED BY <1>8, <2>2
<1>10. \A j \in 1..N : j \in S
  <2> HIDE DEF S, N
  <2> QED BY <1>0, <1>9, Downward
<1>11. \A j \in 1..N : h[j] \in Gates
  BY <1>10
<1> QED BY <1>8, <1>11 DEF h

-----------------------------------------------------------------------------
(* What the gate lets through and what it keeps make up what the parser    *)
(* leaves, whatever comes next                                             *)

LEMMA JoinIs ==
  ASSUME NEW a \in Texts, NEW b \in Texts
  PROVE  /\ a \o b \in Texts
         /\ Len(a \o b) = Len(a) + Len(b)
         /\ \A i \in 1 .. Len(a) + Len(b) :
              (a \o b)[i] = IF i <= Len(a) THEN a[i] ELSE b[i - Len(a)]
BY ConcatProperties DEF Texts

LEMMA JoinThree ==
  ASSUME NEW a \in Texts, NEW b \in Texts, NEW c \in Texts
  PROVE  (a \o b) \o c = a \o (b \o c)
BY ConcatAssociative DEF Texts

LEMMA JoinNone ==
  ASSUME NEW a \in Texts
  PROVE  a \o <<>> = a /\ <<>> \o a = a
BY ConcatEmptySeq DEF Texts

LEMMA SameTexts ==
  ASSUME NEW a \in Texts, NEW b \in Texts, Len(a) = Len(b), \A i \in 1..Len(a) : a[i] = b[i]
  PROVE  a = b
BY SeqEqual DEF Texts

(* A text that goes on has the same beginning and longer ends.             *)
LEMMA PartJoin ==
  ASSUME NEW s \in Texts, NEW e \in Texts, NEW j \in 1 .. Len(s) + 1, NEW m \in j - 1 .. Len(s)
  PROVE  /\ SubSeq(s \o e, j, m) = SubSeq(s, j, m)
         /\ From(s \o e, j) = From(s, j) \o e
<1> DEFINE S == s \o e
<1>1. /\ S \in Texts /\ Len(S) = Len(s) + Len(e) /\ Len(s) \in Nat /\ Len(e) \in Nat
      /\ \A i \in 1 .. Len(s) + Len(e) : S[i] = IF i <= Len(s) THEN s[i] ELSE e[i - Len(s)]
  BY JoinIs DEF Texts
<1> HIDE DEF S
<1>2. SubSeq(S, j, m) = SubSeq(s, j, m)
  <2> DEFINE a == SubSeq(S, j, m)
             b == SubSeq(s, j, m)
  <2>1. /\ a \in Texts /\ Len(a) = m - j + 1
        /\ \A k \in 1 .. m - j + 1 : a[k] = S[j - 1 + k]
    <3>1. j \in 1 .. Len(S) + 1 /\ m \in j - 1 .. Len(S)
      BY <1>1
    <3> QED BY <1>1, <3>1, PartIs
  <2>2. /\ b \in Texts /\ Len(b) = m - j + 1
        /\ \A k \in 1 .. m - j + 1 : b[k] = s[j - 1 + k]
    BY PartIs
  <2> HIDE DEF a, b
  <2>3. \A k \in 1..Len(a) : a[k] = b[k]
    <3> TAKE k \in 1..Len(a)
    <3>1. j - 1 + k \in 1..Len(s)
      BY <1>1, <2>1
    <3>2. S[j - 1 + k] = s[j - 1 + k]
      BY <1>1, <3>1
    <3> QED BY <2>1, <2>2, <3>2
  <2>4. a = b
    BY <2>1, <2>2, <2>3, SameTexts
  <2> QED BY <2>4 DEF a, b
<1>3. From(S, j) = From(s, j) \o e
  <2> DEFINE a == From(S, j)
             u == From(s, j)
             b == u \o e
  <2>1. /\ a \in Texts /\ Len(a) = Len(S) - j + 1
        /\ \A k \in 1 .. Len(S) - j + 1 : a[k] = S[j - 1 + k]
    <3>1. j \in 1 .. Len(S) + 1
      BY <1>1
    <3> QED BY <1>1, <3>1, FromIs
  <2>2. /\ u \in Texts /\ Len(u) = Len(s) - j + 1
        /\ \A k \in 1 .. Len(s) - j + 1 : u[k] = s[j - 1 + k]
    BY FromIs
  <2> HIDE DEF a, u
  <2>3. /\ b \in Texts /\ Len(b) = Len(u) + Len(e)
        /\ \A k \in 1 .. Len(u) + Len(e) : b[k] = IF k <= Len(u) THEN u[k] ELSE e[k - Len(u)]
    BY <2>2, JoinIs
  <2> HIDE DEF b
  <2>4. \A k \in 1..Len(a) : a[k] = b[k]
    <3> TAKE k \in 1..Len(a)
    <3>1. j - 1 + k \in 1 .. Len(s) + Len(e) /\ k \in 1 .. Len(u) + Len(e)
          /\ (k <= Len(u) <=> j - 1 + k <= Len(s))
      BY <1>1, <2>1, <2>2
    <3>2. CASE k <= Len(u)
      <4>1. a[k] = s[j - 1 + k]
        BY <1>1, <2>1, <3>1, <3>2
      <4>2. b[k] = u[k] /\ k \in 1 .. Len(s) - j + 1
        BY <2>2, <2>3, <3>1, <3>2
      <4> QED BY <2>2, <4>1, <4>2
    <3>3. CASE ~(k <= Len(u))
      <4>1. a[k] = e[j - 1 + k - Len(s)]
        BY <1>1, <2>1, <3>1, <3>3
      <4>2. b[k] = e[k - Len(u)]
        BY <2>3, <3>1, <3>3
      <4>3. j - 1 + k - Len(s) = k - Len(u)
        BY <1>1, <2>2
      <4> QED BY <4>1, <4>2, <4>3
    <3> QED BY <3>2, <3>3
  <2>5. Len(a) = Len(b)
    BY <1>1, <2>1, <2>2, <2>3
  <2>6. a = b
    BY <2>1, <2>3, <2>4, <2>5, SameTexts
  <2> QED BY <2>6 DEF a, b, u
<1> QED BY <1>2, <1>3 DEF S

(* Whether a call opens in a text only its last letter leaves open.        *)
LEMMA OpensJoin ==
  ASSUME NEW s \in Texts, NEW e \in Texts, NEW i \in 1..Len(s)
  PROVE  /\ Opens(s, "t", i) => Opens(s \o e, "t", i)
         /\ Opens(s \o e, "t", i) => Opens(s, "t", i) \/ (i = Len(s) /\ s[i] = "f")
<1> DEFINE S == s \o e
<1>1. /\ S \in Texts /\ Len(S) = Len(s) + Len(e) /\ Len(s) \in Nat /\ Len(e) \in Nat
      /\ \A k \in 1 .. Len(s) + Len(e) : S[k] = IF k <= Len(s) THEN s[k] ELSE e[k - Len(s)]
  BY JoinIs DEF Texts
<1> HIDE DEF S
<1>2. S[i] = s[i]
  BY <1>1
<1>3. i < Len(s) => S[i + 1] = s[i + 1]
  BY <1>1
<1>4. i < Len(s) \/ i = Len(s)
  BY <1>1
<1>5. i < Len(s) => i < Len(S)
  BY <1>1
<1>6. Opens(s, "t", i) => Opens(S, "t", i)
  BY <1>2, <1>3, <1>5 DEF Opens
<1>7. Opens(S, "t", i) => Opens(s, "t", i) \/ (i = Len(s) /\ s[i] = "f")
  BY <1>2, <1>3, <1>4 DEF Opens
<1> QED BY <1>6, <1>7 DEF S

LEMMA CloseJoin ==
  ASSUME NEW s \in Texts, NEW e \in Texts, NEW i \in 1..Len(s), Closed(s, "t", i)
  PROVE  Closed(s \o e, "t", i) /\ Close(s \o e, i) = Close(s, i)
<1> DEFINE S == s \o e
           A == Fences(s, i + 2)
           B == Fences(S, i + 2)
<1>1. /\ S \in Texts /\ Len(S) = Len(s) + Len(e) /\ Len(s) \in Nat /\ Len(e) \in Nat
      /\ \A k \in 1 .. Len(s) + Len(e) : S[k] = IF k <= Len(s) THEN s[k] ELSE e[k - Len(s)]
  BY JoinIs DEF Texts
<1>2. Opens(S, "t", i)
  BY OpensJoin DEF Closed
<1> HIDE DEF S
<1>3. A \in SUBSET Nat /\ B \in SUBSET Nat /\ A # {}
  BY <1>1 DEF Fences, Closed
<1>4. Min(A) \in A /\ \A k \in A : Min(A) <= k
  <2> HIDE DEF A
  <2> QED BY <1>3, LeastOf
<1>5. Min(A) \in i + 2 .. Len(s) /\ s[Min(A)] = "f"
  BY <1>4 DEF Fences
<1>6. Min(A) \in B
  <2> DEFINE m == Min(A)
  <2>1. m \in i + 2 .. Len(s) /\ s[m] = "f"
    BY <1>5
  <2> HIDE DEF m
  <2>2. m \in i + 2 .. Len(S) /\ S[m] = "f"
    BY <1>1, <2>1
  <2>3. m \in B
    BY <2>2 DEF Fences
  <2> QED BY <2>3 DEF m
<1>7. \A k \in B : Min(A) <= k
  <2> TAKE k \in B
  <2>1. k \in i + 2 .. Len(S) /\ S[k] = "f"
    BY DEF Fences
  <2>2. CASE k <= Len(s)
    <3>1. k \in A
      BY <1>1, <2>1, <2>2 DEF Fences
    <3> QED BY <1>4, <3>1
  <2>3. CASE ~(k <= Len(s))
    BY <1>1, <1>5, <2>1, <2>3
  <2> QED BY <2>2, <2>3
<1>8. Min(B) = Min(A)
  <2> HIDE DEF A, B
  <2> QED BY <1>3, <1>6, <1>7, MinIs
<1>9. B # {}
  BY <1>6
<1> QED BY <1>2, <1>8, <1>9 DEF Closed, Close, S

(* Letters that open no call are passed as they are.                       *)
LEMMA LettersPass ==
  ASSUME NEW s \in Texts, NEW j \in 1 .. Len(s) + 1, NEW m \in j - 1 .. Len(s),
         \A k \in j..m : ~Opens(s, "t", k)
  PROVE  Rest(s)[j] = SubSeq(s, j, m) \o Rest(s)[m + 1]
<1> DEFINE P(i) == Rest(s)[i] = SubSeq(s, i, m) \o Rest(s)[m + 1]
           S == {i \in 1 .. m + 1 : i >= j => P(i)}
<1>1. Len(s) \in Nat /\ m \in Nat /\ m + 1 \in Nat /\ m <= Len(s) /\ j \in 1 .. m + 1
  BY DEF Texts
<1>2. Rest(s)[m + 1] \in Texts
  BY <1>1, RestTyped
<1>3. P(m + 1)
  <2>1. SubSeq(s, m + 1, m) = <<>>
    BY <1>1, SubSeqEmpty
  <2> QED BY <1>2, <2>1, JoinNone
<1>4. ASSUME NEW i \in 1 .. m + 1, \A k \in i + 1 .. m + 1 : k \in S PROVE i \in S
  <2> SUFFICES ASSUME i >= j PROVE P(i)
    OBVIOUS
  <2>1. CASE i = m + 1
    <3> HIDE DEF P
    <3> QED BY <1>3, <2>1
  <2>2. CASE i # m + 1
    <3>1. i \in 1..Len(s) /\ i \in j..m /\ i \in 1..m /\ i + 1 \in i + 1 .. m + 1 /\ i + 1 >= j
          /\ m \in i .. Len(s)
      BY <1>1, <2>2
    <3>2. P(i + 1)
      <4>1. i + 1 \in S
        BY <1>4, <3>1
      <4> QED BY <3>1, <4>1
    <3>3. ~Closed(s, "t", i)
      BY <3>1 DEF Closed
    <3>4. Rest(s)[i] = <<s[i]>> \o Rest(s)[i + 1]
      BY <3>1, <3>3, RestStep
    <3>5. SubSeq(s, i, m) = <<s[i]>> \o SubSeq(s, i + 1, m)
      BY <3>1, SubSeqRecursiveFirst DEF Texts
    <3>6. <<s[i]>> \in Texts /\ SubSeq(s, i + 1, m) \in Texts
      <4>1. s[i] \in Letters
        BY <3>1 DEF Texts
      <4>2. <<s[i]>> \in Texts
        BY <4>1 DEF Texts
      <4>3. i + 1 \in 1 .. Len(s) + 1 /\ m \in (i + 1) - 1 .. Len(s)
        BY <1>1, <3>1
      <4> QED BY <4>2, <4>3, PartIs
    <3> DEFINE a == <<s[i]>>
               b == SubSeq(s, i + 1, m)
               c == Rest(s)[m + 1]
    <3>7. (a \o b) \o c = a \o (b \o c)
      <4> HIDE DEF a, b, c
      <4>1. a \in Texts /\ b \in Texts /\ c \in Texts
        BY <1>2, <3>6 DEF a, b, c
      <4> QED BY <4>1, JoinThree
    <3> QED BY <3>2, <3>4, <3>5, <3>7
  <2> QED BY <2>1, <2>2
<1>5. \A i \in 1 .. m + 1 : i \in S
  <2> HIDE DEF S
  <2> QED BY <1>1, <1>4, Downward
<1>6. j \in S
  BY <1>1, <1>5
<1>7. j >= j
  BY <1>1
<1>8. P(j)
  <2> HIDE DEF P
  <2> QED BY <1>6, <1>7
<1> QED BY <1>8

(* What the gate still has of the text.                                    *)
Kept(g) == IF g.inFence THEN <<"f", "t">> \o g.buf ELSE g.buf

Settles(s, j, g) == \A e \in Texts : Rest(s \o e)[j] = g.sent \o Without(Kept(g) \o e, "t")

LEMMA FenceTyped == <<"f", "t">> \in Texts
BY DEF Texts, Letters

LEMMA KeptTyped ==
  ASSUME NEW g \in Gates
  PROVE  Kept(g) \in Texts
<1>1. <<"f", "t">> \in Texts
  BY FenceTyped
<1>2. g.buf \in Texts
  BY DEF Gates
<1>3. <<"f", "t">> \o g.buf \in Texts
  BY <1>1, <1>2, JoinIs
<1> QED BY <1>2, <1>3 DEF Kept

LEMMA NoneSettles ==
  ASSUME NEW s \in Texts, NEW j \in 1 .. Len(s) + 1, NoneOpen(s, j)
  PROVE  Settles(s, j, PassedFrom(s, j, Final(s, j)))
<1> DEFINE n == Len(s)
           m == Final(s, j)
           g == PassedFrom(s, j, m)
<1>1. n \in Nat /\ m \in j - 1 .. n /\ m + 1 \in 1 .. n + 1
  BY DEF Final, Texts
<1>2. g.sent = SubSeq(s, j, m) /\ Kept(g) = From(s, m + 1)
  BY DEF PassedFrom, Kept
<1>3. ASSUME NEW k \in j..m PROVE ~Opens(s, "t", k) /\ k \in 1..n /\ ~(k = n /\ s[k] = "f")
  <2>1. k \in j..n /\ k \in 1..n
    BY <1>1
  <2>2. ~Opens(s, "t", k)
    BY <2>1 DEF NoneOpen
  <2>3. k = n => j <= n /\ m = n
    BY <1>1
  <2>4. ~(k = n /\ s[k] = "f")
    BY <1>1, <2>3 DEF Final
  <2> QED BY <2>1, <2>2, <2>4
<1> HIDE DEF m, g
<1> SUFFICES ASSUME NEW e \in Texts
             PROVE  Rest(s \o e)[j] = g.sent \o Without(Kept(g) \o e, "t")
  BY DEF Settles, g, m
<1> DEFINE S == s \o e
<1>4. S \in Texts /\ Len(S) \in Nat /\ n <= Len(S)
  <2>1. S \in Texts /\ Len(S) = Len(s) + Len(e) /\ Len(e) \in Nat
    BY JoinIs DEF Texts
  <2> QED BY <1>1, <2>1
<1>5. \A k \in j..m : ~Opens(S, "t", k)
  BY <1>3, OpensJoin
<1> HIDE DEF S
<1>6. Rest(S)[j] = SubSeq(S, j, m) \o Rest(S)[m + 1]
  <2>1. j \in 1 .. Len(S) + 1 /\ m \in j - 1 .. Len(S)
    BY <1>1, <1>4
  <2> QED BY <1>4, <1>5, <2>1, LettersPass
<1>7. Rest(S)[m + 1] = Without(From(S, m + 1), "t")
  <2>1. m + 1 \in 1 .. Len(S) + 1
    BY <1>1, <1>4
  <2> QED BY <1>4, <2>1, RestShift
<1>8. SubSeq(S, j, m) = SubSeq(s, j, m)
  BY <1>1, PartJoin DEF S
<1>9. From(S, m + 1) = From(s, m + 1) \o e
  <2>1. n \in (m + 1) - 1 .. n
    BY <1>1
  <2> QED BY <1>1, <2>1, PartJoin DEF S
<1> QED BY <1>2, <1>6, <1>7, <1>8, <1>9 DEF S

LEMMA HeldSettles ==
  ASSUME NEW s \in Texts, NEW i \in 1..Len(s), Opens(s, "t", i)
  PROVE  Settles(s, i, HeldFrom(s, i + 2))
<1> DEFINE ft == <<"f", "t">>
           g == HeldFrom(s, i + 2)
<1>1. Len(s) \in Nat /\ i < Len(s) /\ s[i] = "f" /\ s[i + 1] = "t"
  BY DEF Opens, Texts
<1>2. i \in 1 .. Len(s) + 1 /\ i + 2 \in 1 .. Len(s) + 1
  BY <1>1
<1>3. ft \in Texts /\ Len(ft) = 2 /\ ft[1] = "f" /\ ft[2] = "t"
  <2>1. ft \in Texts
    BY FenceTyped
  <2> QED BY <2>1
<1>4. From(s, i) = ft \o From(s, i + 2)
  <2> DEFINE u == From(s, i)
             v == From(s, i + 2)
             w == ft \o v
  <2>1. /\ u \in Texts /\ Len(u) = Len(s) - i + 1
        /\ \A k \in 1 .. Len(s) - i + 1 : u[k] = s[i - 1 + k]
    BY <1>2, FromIs
  <2>2. /\ v \in Texts /\ Len(v) = Len(s) - (i + 2) + 1
        /\ \A k \in 1 .. Len(s) - (i + 2) + 1 : v[k] = s[(i + 2) - 1 + k]
    BY <1>2, FromIs
  <2> HIDE DEF u, v, ft
  <2>3. /\ w \in Texts /\ Len(w) = 2 + Len(v)
        /\ \A k \in 1 .. 2 + Len(v) : w[k] = IF k <= 2 THEN ft[k] ELSE v[k - 2]
    <3>1. /\ w \in Texts /\ Len(w) = Len(ft) + Len(v)
          /\ \A k \in 1 .. Len(ft) + Len(v) :
               w[k] = IF k <= Len(ft) THEN ft[k] ELSE v[k - Len(ft)]
      BY <1>3, <2>2, JoinIs
    <3> QED BY <1>3, <3>1
  <2> HIDE DEF w
  <2>4. Len(u) = Len(w)
    BY <1>1, <2>1, <2>2, <2>3
  <2>5. \A k \in 1..Len(u) : u[k] = w[k]
    <3> TAKE k \in 1..Len(u)
    <3>1. u[k] = s[i - 1 + k]
      BY <2>1
    <3>2. CASE k = 1
      BY <1>1, <1>3, <2>3, <2>4, <3>1, <3>2
    <3>3. CASE k = 2
      <4>1. i - 1 + k = i + 1
        BY <3>3
      <4> QED BY <1>1, <1>3, <2>3, <2>4, <3>1, <3>3, <4>1
    <3>4. CASE k # 1 /\ k # 2
      <4>1. k - 2 \in 1 .. Len(s) - (i + 2) + 1 /\ ~(k <= 2) /\ k \in 1 .. 2 + Len(v)
        BY <1>1, <2>1, <2>2, <3>4
      <4>2. w[k] = v[k - 2]
        BY <2>3, <4>1
      <4>3. v[k - 2] = s[(i + 2) - 1 + (k - 2)]
        BY <2>2, <4>1
      <4>4. (i + 2) - 1 + (k - 2) = i - 1 + k
        BY <4>1
      <4> QED BY <3>1, <4>2, <4>3, <4>4
    <3> QED BY <3>2, <3>3, <3>4
  <2>6. u = w
    BY <2>1, <2>3, <2>4, <2>5, SameTexts
  <2> QED BY <2>6 DEF u, v, w
<1>5. g.sent = <<>> /\ Kept(g) = ft \o From(s, i + 2)
  BY DEF HeldFrom, Kept
<1> HIDE DEF g, ft
<1> SUFFICES ASSUME NEW e \in Texts
             PROVE  Rest(s \o e)[i] = g.sent \o Without(Kept(g) \o e, "t")
  BY DEF Settles, g
<1> DEFINE S == s \o e
<1>6. S \in Texts /\ i \in 1 .. Len(S) + 1
  <2>1. S \in Texts /\ Len(S) = Len(s) + Len(e) /\ Len(e) \in Nat
    BY JoinIs DEF Texts
  <2> QED BY <1>1, <2>1
<1>7. From(S, i) = From(s, i) \o e
  <2>1. Len(s) \in i - 1 .. Len(s)
    BY <1>1
  <2> QED BY <1>2, <2>1, PartJoin
<1> HIDE DEF S
<1>8. Rest(S)[i] = Without(From(S, i), "t")
  BY <1>6, RestShift
<1>9. Rest(S)[i] \in Texts
  <2>1. i \in 1 .. Len(S) + 2
    BY <1>6 DEF Texts
  <2> QED BY <1>6, <2>1, RestTyped
<1>10. Rest(S)[i] = Without(Kept(g) \o e, "t")
  BY <1>4, <1>5, <1>7, <1>8
<1>11. <<>> \o Rest(S)[i] = Rest(S)[i]
  BY <1>9, JoinNone
<1> QED BY <1>5, <1>10, <1>11 DEF S

LEMMA CloseSettles ==
  ASSUME NEW s \in Texts, NEW i \in 1..Len(s), Closed(s, "t", i), NEW g,
         Settles(s, Close(s, i) + 1, g)
  PROVE  Settles(s, i, g)
<1> SUFFICES ASSUME NEW e \in Texts
             PROVE  Rest(s \o e)[i] = g.sent \o Without(Kept(g) \o e, "t")
  BY DEF Settles
<1> DEFINE S == s \o e
<1>1. S \in Texts /\ i \in 1..Len(S)
  <2>1. S \in Texts /\ Len(S) = Len(s) + Len(e) /\ Len(e) \in Nat /\ Len(s) \in Nat
    BY JoinIs DEF Texts
  <2> QED BY <2>1
<1>2. Closed(S, "t", i) /\ Close(S, i) = Close(s, i)
  BY CloseJoin
<1> HIDE DEF S
<1>3. Rest(S)[i] = Rest(S)[Close(s, i) + 1]
  BY <1>1, <1>2, RestStep
<1> QED BY <1>3 DEF Settles, S

LEMMA BeforeOpen ==
  ASSUME NEW s \in Texts, NEW j \in 1 .. Len(s) + 1, NEW i, FirstOpen(s, j, i),
         NEW g \in Gates, Settles(s, i, g)
  PROVE  Settles(s, j, After(g, SubSeq(s, j, i - 1)))
<1> DEFINE x == SubSeq(s, j, i - 1)
           h == After(g, x)
<1>1. Len(s) \in Nat /\ i \in j .. Len(s) - 1 /\ i \in 1..Len(s) /\ x \in Texts
  BY OpenIs DEF Texts
<1>2. h.sent = x \o g.sent /\ h.buf = g.buf /\ h.inFence = g.inFence
  <2> HIDE DEF x
  <2> QED BY <1>1, SentMore
<1>3. Kept(h) = Kept(g)
  BY <1>2 DEF Kept
<1> HIDE DEF h
<1> SUFFICES ASSUME NEW e \in Texts
             PROVE  Rest(s \o e)[j] = h.sent \o Without(Kept(h) \o e, "t")
  BY DEF Settles, h
<1> DEFINE S == s \o e
           y == Without(Kept(g) \o e, "t")
<1>4. /\ S \in Texts /\ j \in 1 .. Len(S) + 1 /\ i - 1 \in j - 1 .. Len(S)
      /\ i - 1 \in j - 1 .. Len(s)
  <2>1. S \in Texts /\ Len(S) = Len(s) + Len(e) /\ Len(e) \in Nat
    BY JoinIs DEF Texts
  <2> QED BY <1>1, <2>1
<1>5. \A k \in j .. i - 1 : ~Opens(S, "t", k)
  <2> TAKE k \in j .. i - 1
  <2>1. k \in 1..Len(s) /\ k # Len(s)
    BY <1>1
  <2>2. ~Opens(s, "t", k)
    BY DEF FirstOpen
  <2> QED BY <2>1, <2>2, OpensJoin
<1>6. SubSeq(S, j, i - 1) = x
  BY <1>4, PartJoin
<1>7. Rest(S)[i] = g.sent \o y
  BY DEF Settles
<1>8. y \in Texts /\ g.sent \in Texts
  <2>1. Kept(g) \o e \in Texts
    BY KeptTyped, JoinIs
  <2> QED BY <2>1, WithoutIs DEF Gates
<1> HIDE DEF S, x, y
<1>9. Rest(S)[j] = SubSeq(S, j, i - 1) \o Rest(S)[(i - 1) + 1]
  BY <1>4, <1>5, LettersPass
<1>10. (i - 1) + 1 = i
  BY <1>1
<1>11. (x \o g.sent) \o y = x \o (g.sent \o y)
  BY <1>1, <1>8, JoinThree
<1> QED BY <1>2, <1>3, <1>6, <1>7, <1>9, <1>10, <1>11 DEF S, y

LEMMA SettledSettles ==
  ASSUME NEW s \in Texts
  PROVE  \A j \in 1 .. Len(s) + 1 : Settles(s, j, Settled(s)[j])
<1> DEFINE N == Len(s) + 1
           h == Settled(s)
           S == {j \in 1..N : Settles(s, j, h[j])}
<1>1. N \in Nat /\ Len(s) \in Nat
  BY DEF Texts
<1>2. \A j \in 1..N : h[j] \in Gates /\ h[j] = SettleStep(s, h, j)
  BY SettleSolved
<1> HIDE DEF h
<1>3. ASSUME NEW j \in 1..N, \A k \in j + 1 .. N : k \in S PROVE j \in S
  <2>1. CASE NoneOpen(s, j)
    <3>1. h[j] = PassedFrom(s, j, Final(s, j))
      BY <1>2, <2>1, SettleNone
    <3>2. Settles(s, j, PassedFrom(s, j, Final(s, j)))
      BY <2>1, NoneSettles
    <3> QED BY <3>1, <3>2
  <2>2. ASSUME NEW i, FirstOpen(s, j, i) PROVE j \in S
    <3> DEFINE g == Following(s, h, i)
    <3>1. h[j] = After(g, SubSeq(s, j, i - 1))
      BY <1>2, <2>2, SettleOpen
    <3>2. i \in 1..Len(s) /\ Opens(s, "t", i)
      BY <2>2, OpenIs DEF FirstOpen
    <3>3. g \in Gates /\ Settles(s, i, g)
      <4>1. CASE Fences(s, i + 2) = {}
        <5>1. i + 2 \in 1 .. Len(s) + 1
          BY <1>1, <3>2 DEF Opens
        <5>2. HeldFrom(s, i + 2) \in Gates
          BY <4>1, <5>1, HeldTyped
        <5>3. Settles(s, i, HeldFrom(s, i + 2))
          BY <3>2, HeldSettles
        <5> QED BY <4>1, <5>2, <5>3 DEF Following
      <4>2. CASE Fences(s, i + 2) # {}
        <5>1. Close(s, i) + 1 \in j + 1 .. N
          BY <2>2, <4>2, OpenIs
        <5>2. Closed(s, "t", i)
          BY <3>2, <4>2 DEF Closed
        <5>3. Settles(s, Close(s, i) + 1, h[Close(s, i) + 1])
          BY <1>3, <5>1
        <5>4. Settles(s, i, h[Close(s, i) + 1])
          BY <3>2, <5>2, <5>3, CloseSettles
        <5>5. h[Close(s, i) + 1] \in Gates
          <6>1. Close(s, i) + 1 \in 1..N
            BY <1>1, <5>1
          <6> QED BY <1>2, <6>1
        <5> QED BY <4>2, <5>4, <5>5 DEF Following
      <4> QED BY <4>1, <4>2
    <3> HIDE DEF g
    <3>4. Settles(s, j, After(g, SubSeq(s, j, i - 1)))
      BY <2>2, <3>3, BeforeOpen
    <3> QED BY <3>1, <3>4
  <2> QED BY <2>1, <2>2, OpenCases
<1>4. \A j \in 1..N : j \in S
  <2> HIDE DEF S, N
  <2> QED BY <1>1, <1>3, Downward
<1> QED BY <1>4 DEF h

LEMMA RestJoin ==
  ASSUME NEW s \in Texts, NEW e \in Texts, NEW j \in 1 .. Len(s) + 1
  PROVE  Rest(s \o e)[j] = Without(From(s, j) \o e, "t")
<1> DEFINE S == s \o e
<1>1. S \in Texts /\ j \in 1 .. Len(S) + 1 /\ Len(s) \in j - 1 .. Len(s)
  <2>1. S \in Texts /\ Len(S) = Len(s) + Len(e) /\ Len(e) \in Nat /\ Len(s) \in Nat
    BY JoinIs DEF Texts
  <2> QED BY <2>1
<1>2. From(S, j) = From(s, j) \o e
  BY <1>1, PartJoin
<1> HIDE DEF S
<1>3. Rest(S)[j] = Without(From(S, j), "t")
  BY <1>1, RestShift
<1> QED BY <1>2, <1>3 DEF S

Entering(s, inFence) == IF inFence THEN <<"f", "t">> \o s ELSE s

(* What the gate has seen amounts to what it let through and what it keeps.*)
Passed(t, g) == \A e \in Texts : Without(t \o e, "t") = g.sent \o Without(Kept(g) \o e, "t")

(* A call that was open is closed by the first fence.                      *)
LEMMA ClosesFirst ==
  ASSUME NEW s \in Texts, NEW m, Fences(s, 1) # {}, m = Min(Fences(s, 1))
  PROVE  /\ m \in Nat /\ m + 1 \in 1 .. Len(s) + 1
         /\ <<"f", "t">> \o s \in Texts
         /\ 1 \in 1 .. Len(<<"f", "t">> \o s)
         /\ m + 3 \in 1 .. Len(<<"f", "t">> \o s) + 1
         /\ Closed(<<"f", "t">> \o s, "t", 1) /\ Close(<<"f", "t">> \o s, 1) = m + 2
         /\ From(<<"f", "t">> \o s, m + 3) = From(s, m + 1)
<1> DEFINE ft == <<"f", "t">>
           u == ft \o s
           A == Fences(s, 1)
           B == Fences(u, 3)
<1>1. ft \in Texts /\ Len(ft) = 2 /\ ft[1] = "f" /\ ft[2] = "t"
  BY FenceTyped
<1>2. Len(s) \in Nat
  BY DEF Texts
<1> HIDE DEF ft
<1>3. /\ u \in Texts /\ Len(u) = 2 + Len(s)
      /\ \A k \in 1 .. 2 + Len(s) : u[k] = IF k <= 2 THEN ft[k] ELSE s[k - 2]
  <2>1. /\ u \in Texts /\ Len(u) = Len(ft) + Len(s)
        /\ \A k \in 1 .. Len(ft) + Len(s) :
             u[k] = IF k <= Len(ft) THEN ft[k] ELSE s[k - Len(ft)]
    BY <1>1, JoinIs
  <2> QED BY <1>1, <2>1
<1> HIDE DEF u
<1>4. A \in SUBSET Nat /\ B \in SUBSET Nat
  BY <1>2, <1>3 DEF Fences
<1>5. m \in A /\ \A k \in A : m <= k
  <2> HIDE DEF A
  <2> QED BY <1>4, LeastOf DEF A
<1>6. m \in 1..Len(s) /\ s[m] = "f"
  BY <1>5 DEF Fences
<1>7. m + 2 \in B
  <2>1. m + 2 \in 3..Len(u) /\ m + 2 \in 1 .. 2 + Len(s) /\ ~(m + 2 <= 2) /\ (m + 2) - 2 = m
    BY <1>2, <1>3, <1>6
  <2>2. u[m + 2] = s[m]
    BY <1>3, <2>1
  <2> QED BY <1>6, <2>1, <2>2 DEF Fences
<1>8. \A k \in B : m + 2 <= k
  <2> TAKE k \in B
  <2>1. k \in 3..Len(u) /\ u[k] = "f"
    BY DEF Fences
  <2>2. k \in 1 .. 2 + Len(s) /\ ~(k <= 2) /\ k - 2 \in 1..Len(s)
    BY <1>2, <1>3, <2>1
  <2>3. s[k - 2] = "f"
    BY <1>3, <2>1, <2>2
  <2>4. k - 2 \in A
    BY <2>2, <2>3 DEF Fences
  <2>5. m <= k - 2
    BY <1>5, <2>4
  <2> QED BY <1>6, <2>2, <2>5
<1>9. Min(B) = m + 2
  <2> HIDE DEF A, B
  <2> QED BY <1>4, <1>7, <1>8, MinIs
<1>10. Opens(u, "t", 1)
  <2>1. 1 < Len(u) /\ u[1] = "f" /\ u[1 + 1] = "t"
    BY <1>1, <1>2, <1>3
  <2> QED BY <2>1 DEF Opens
<1>11. Closed(u, "t", 1) /\ Close(u, 1) = m + 2
  <2>1. 1 + 2 = 3 /\ B # {}
    BY <1>7
  <2> QED BY <1>9, <1>10, <2>1 DEF Closed, Close
<1>12. From(u, m + 3) = From(s, m + 1)
  <2> DEFINE a == From(u, m + 3)
             b == From(s, m + 1)
  <2>1. m + 3 \in 1 .. Len(u) + 1 /\ m + 1 \in 1 .. Len(s) + 1
    BY <1>2, <1>3, <1>6
  <2>2. /\ a \in Texts /\ Len(a) = Len(u) - (m + 3) + 1
        /\ \A k \in 1 .. Len(u) - (m + 3) + 1 : a[k] = u[(m + 3) - 1 + k]
    BY <1>3, <2>1, FromIs
  <2>3. /\ b \in Texts /\ Len(b) = Len(s) - (m + 1) + 1
        /\ \A k \in 1 .. Len(s) - (m + 1) + 1 : b[k] = s[(m + 1) - 1 + k]
    BY <2>1, FromIs
  <2> HIDE DEF a, b
  <2>4. Len(a) = Len(b)
    BY <1>2, <1>3, <1>6, <2>2, <2>3
  <2>5. \A k \in 1..Len(a) : a[k] = b[k]
    <3> TAKE k \in 1..Len(a)
    <3>0. k \in 1 .. Len(s) - m /\ m \in 1..Len(s)
      BY <1>2, <1>3, <1>6, <2>2
    <3>1. /\ (m + 3) - 1 + k \in 1 .. 2 + Len(s) /\ ~((m + 3) - 1 + k <= 2)
          /\ ((m + 3) - 1 + k) - 2 = (m + 1) - 1 + k
      BY <1>2, <3>0
    <3>2. u[(m + 3) - 1 + k] = s[(m + 1) - 1 + k]
      BY <1>3, <3>1
    <3> QED BY <2>2, <2>3, <2>4, <3>2
  <2>6. a = b
    BY <2>2, <2>3, <2>4, <2>5, SameTexts
  <2> QED BY <2>6 DEF a, b
<1>13. m \in Nat /\ m + 1 \in 1 .. Len(s) + 1 /\ 1 \in 1..Len(u) /\ m + 3 \in 1 .. Len(u) + 1
  BY <1>2, <1>3, <1>6
<1> QED BY <1>3, <1>11, <1>12, <1>13 DEF u, ft

LEMMA SettleMeans ==
  ASSUME NEW s \in Texts, NEW inFence \in BOOLEAN
  PROVE  Settle(s, inFence) \in Gates /\ Passed(Entering(s, inFence), Settle(s, inFence))
<1> DEFINE g == Settle(s, inFence)
<1>0. 1 \in 1 .. Len(s) + 1
  BY DEF Texts
<1>1. From(s, 1) = s
  <2>1. SubSeq(s, 1, Len(s)) = s
    BY SubSeqFull DEF Texts
  <2> QED BY <2>1 DEF From
<1>2. CASE ~inFence
  <2>1. g = Settled(s)[1]
    BY <1>2, SettleIs
  <2>2. g \in Gates /\ Settles(s, 1, g)
    BY <1>0, <2>1, SettleSolved, SettledSettles
  <2> HIDE DEF g
  <2>3. ASSUME NEW e \in Texts PROVE Without(s \o e, "t") = g.sent \o Without(Kept(g) \o e, "t")
    <3>1. s \o e \in Texts
      BY JoinIs
    <3>2. Without(s \o e, "t") = Rest(s \o e)[1]
      BY <3>1, RestTyped
    <3> QED BY <2>2, <3>2 DEF Settles
  <2> QED BY <1>2, <2>2, <2>3 DEF Passed, Entering, g
<1>3. CASE inFence /\ Fences(s, 1) = {}
  <2>1. g = HeldFrom(s, 1)
    BY <1>3, SettleIs
  <2>2. g \in Gates
    BY <1>0, <1>3, <2>1, HeldTyped
  <2>3. g.sent = <<>> /\ Kept(g) = <<"f", "t">> \o s
    BY <1>1, <2>1 DEF HeldFrom, Kept
  <2> HIDE DEF g
  <2>4. ASSUME NEW e \in Texts
        PROVE  Without(Kept(g) \o e, "t") = g.sent \o Without(Kept(g) \o e, "t")
    <3>1. Kept(g) \o e \in Texts
      BY <2>2, KeptTyped, JoinIs
    <3>2. Without(Kept(g) \o e, "t") \in Texts
      BY <3>1, WithoutIs
    <3> QED BY <2>3, <3>2, JoinNone
  <2>5. Entering(s, inFence) = Kept(g)
    BY <1>3, <2>3 DEF Entering
  <2> QED BY <2>2, <2>4, <2>5 DEF Passed, g
<1>4. CASE inFence /\ Fences(s, 1) # {}
  <2> DEFINE m == Min(Fences(s, 1))
             u == <<"f", "t">> \o s
  <2>1. g = Settled(s)[m + 1]
    BY <1>4, SettleIs
  <2>2. /\ m \in Nat /\ m + 1 \in 1 .. Len(s) + 1
        /\ u \in Texts /\ 1 \in 1..Len(u) /\ m + 3 \in 1 .. Len(u) + 1
        /\ Closed(u, "t", 1) /\ Close(u, 1) = m + 2 /\ From(u, m + 3) = From(s, m + 1)
    BY <1>4, ClosesFirst
  <2>3. g \in Gates /\ Settles(s, m + 1, g)
    BY <2>1, <2>2, SettleSolved, SettledSettles
  <2>4. Entering(s, inFence) = u
    BY <1>4 DEF Entering
  <2> HIDE DEF g, m, u
  <2>5. Settles(u, m + 3, g)
    <3>1. ASSUME NEW e \in Texts PROVE Rest(u \o e)[m + 3] = Rest(s \o e)[m + 1]
      BY <2>2, RestJoin
    <3> QED BY <2>3, <3>1 DEF Settles
  <2>6. Settles(u, 1, g)
    <3>1. Close(u, 1) + 1 = m + 3
      <4>1. (m + 2) + 1 = m + 3
        BY <2>2
      <4> QED BY <2>2, <4>1
    <3> QED BY <2>2, <2>5, <3>1, CloseSettles
  <2>7. ASSUME NEW e \in Texts PROVE Without(u \o e, "t") = g.sent \o Without(Kept(g) \o e, "t")
    <3>1. u \o e \in Texts
      BY <2>2, JoinIs
    <3>2. Without(u \o e, "t") = Rest(u \o e)[1]
      BY <3>1, RestTyped
    <3> QED BY <2>6, <3>2 DEF Settles
  <2> QED BY <2>3, <2>4, <2>7 DEF Passed, g
<1> QED BY <1>2, <1>3, <1>4

LEMMA NewPasses == NewGate \in Gates /\ Passed(<<>>, NewGate)
<1>1. <<>> \in Texts
  BY DEF Texts
<1>2. NewGate \in Gates
  <2>1. NewGate \in [buf : Texts, inFence : BOOLEAN, sent : Texts]
    BY <1>1 DEF NewGate
  <2>2. ~NewGate.inFence /\ NewGate.buf = <<>>
    BY DEF NewGate
  <2> QED BY <2>1, <2>2 DEF Gates
<1>3. NewGate.sent = <<>> /\ Kept(NewGate) = <<>>
  BY DEF NewGate, Kept
<1>4. ASSUME NEW e \in Texts
      PROVE  Without(<<>> \o e, "t") = NewGate.sent \o Without(Kept(NewGate) \o e, "t")
  <2>1. <<>> \o e = e /\ Without(e, "t") \in Texts
    BY JoinNone, WithoutIs
  <2>2. <<>> \o Without(e, "t") = Without(e, "t")
    BY <2>1, JoinNone
  <2> QED BY <1>3, <2>1, <2>2
<1> QED BY <1>2, <1>4 DEF Passed

(* However a text is cut, its pieces take the gate to where the whole does.*)
LEMMA PushPasses ==
  ASSUME NEW t \in Texts, NEW d \in Texts, NEW g \in Gates, Passed(t, g)
  PROVE  /\ PushGate(g, d) \in Gates
         /\ Passed(t \o d, PushGate(g, d))
         /\ \E x \in Texts : PushGate(g, d).sent = g.sent \o x
<1> DEFINE s == g.buf \o d
           r == Settle(s, g.inFence)
           h == After(r, g.sent)
<1>1. g.buf \in Texts /\ g.inFence \in BOOLEAN /\ g.sent \in Texts
  BY DEF Gates
<1>2. s \in Texts
  BY <1>1, JoinIs
<1>3. PushGate(g, d) = h
  BY DEF PushGate, After
<1>4. r \in Gates /\ Passed(Entering(s, g.inFence), r)
  <2> HIDE DEF s
  <2> QED BY <1>1, <1>2, SettleMeans
<1>5. Entering(s, g.inFence) = Kept(g) \o d
  <2>1. CASE g.inFence
    <3>1. (<<"f", "t">> \o g.buf) \o d = <<"f", "t">> \o (g.buf \o d)
      BY <1>1, FenceTyped, JoinThree
    <3> QED BY <2>1, <3>1 DEF Entering, Kept
  <2>2. CASE ~g.inFence
    BY <2>2 DEF Entering, Kept
  <2> QED BY <2>1, <2>2
<1> HIDE DEF r, s
<1>6. h \in Gates /\ h.sent = g.sent \o r.sent /\ h.buf = r.buf /\ h.inFence = r.inFence
  BY <1>1, <1>4, SentMore
<1>7. Kept(h) = Kept(r)
  BY <1>6 DEF Kept
<1>8. r.sent \in Texts
  BY <1>4 DEF Gates
<1> HIDE DEF h
<1>9. ASSUME NEW e \in Texts
      PROVE  Without((t \o d) \o e, "t") = h.sent \o Without(Kept(h) \o e, "t")
  <2> DEFINE y == Without(Kept(r) \o e, "t")
  <2>1. (t \o d) \o e = t \o (d \o e) /\ d \o e \in Texts
    <3>1. (t \o d) \o e = t \o (d \o e)
      BY JoinThree
    <3>2. d \o e \in Texts
      BY JoinIs
    <3> QED BY <3>1, <3>2
  <2>2. Without(t \o (d \o e), "t") = g.sent \o Without(Kept(g) \o (d \o e), "t")
    BY <2>1 DEF Passed
  <2>3. Kept(g) \o (d \o e) = (Kept(g) \o d) \o e
    BY KeptTyped, JoinThree
  <2>4. Without((Kept(g) \o d) \o e, "t") = r.sent \o y
    BY <1>4, <1>5 DEF Passed
  <2>5. y \in Texts
    <3>1. Kept(r) \o e \in Texts
      BY <1>4, KeptTyped, JoinIs
    <3> QED BY <3>1, WithoutIs
  <2> HIDE DEF y
  <2>6. (g.sent \o r.sent) \o y = g.sent \o (r.sent \o y)
    <3> DEFINE a == g.sent
               b == r.sent
               c == y
    <3> HIDE DEF a, b, c
    <3>1. a \in Texts /\ b \in Texts /\ c \in Texts
      BY <1>1, <1>8, <2>5 DEF a, b, c
    <3>2. (a \o b) \o c = a \o (b \o c)
      BY <3>1, JoinThree
    <3> QED BY <3>2 DEF a, b, c
  <2> QED BY <1>6, <1>7, <2>1, <2>2, <2>3, <2>4, <2>6 DEF y
<1>10. Passed(t \o d, h)
  BY <1>9 DEF Passed
<1> QED BY <1>3, <1>6, <1>8, <1>10

-----------------------------------------------------------------------------
(* Prefixes and trimmed texts *)

LEMMA PrefixIs ==
  ASSUME NEW a \in Texts, NEW b \in Texts
  PROVE  IsPrefix(a, b) <=> Len(a) <= Len(b) /\ \A i \in 1..Len(a) : a[i] = b[i]
<1>1. Len(a) \in Nat /\ Len(b) \in Nat
  BY DEF Texts
<1>2. SubSeq(a, 1, Len(a)) = a
  BY SubSeqFull DEF Texts
<1>3. ASSUME Len(a) <= Len(b)
      PROVE  SubSeq(b, 1, Len(a)) = a <=> \A i \in 1..Len(a) : a[i] = b[i]
  <2> DEFINE c == SubSeq(b, 1, Len(a))
  <2>1. /\ c \in Texts /\ Len(c) = Len(a)
        /\ \A i \in 1..Len(a) : c[i] = b[i]
    <3>1. 1 \in 1 .. Len(b) + 1 /\ Len(a) \in 1 - 1 .. Len(b)
      BY <1>1, <1>3
    <3>2. /\ c \in Texts /\ Len(c) = Len(a) - 1 + 1
          /\ \A i \in 1 .. Len(a) - 1 + 1 : c[i] = b[1 - 1 + i]
      BY <3>1, PartIs
    <3>3. Len(a) - 1 + 1 = Len(a) /\ \A i \in 1..Len(a) : 1 - 1 + i = i
      BY <1>1
    <3> QED BY <3>2, <3>3
  <2> HIDE DEF c
  <2>2. (\A i \in 1..Len(a) : a[i] = b[i]) => c = a
    BY <2>1, SameTexts
  <2>3. c = a => \A i \in 1..Len(a) : a[i] = b[i]
    BY <2>1
  <2> QED BY <2>2, <2>3 DEF c
<1> QED BY <1>2, <1>3 DEF IsPrefix

LEMMA PrefixJoin ==
  ASSUME NEW a \in Texts, NEW b \in Texts
  PROVE  IsPrefix(a, a \o b)
<1> DEFINE c == a \o b
<1>1. /\ c \in Texts /\ Len(c) = Len(a) + Len(b) /\ Len(a) \in Nat /\ Len(b) \in Nat
      /\ \A i \in 1 .. Len(a) + Len(b) : c[i] = IF i <= Len(a) THEN a[i] ELSE b[i - Len(a)]
  BY JoinIs DEF Texts
<1> HIDE DEF c
<1>2. Len(a) <= Len(c) /\ \A i \in 1..Len(a) : a[i] = c[i]
  BY <1>1
<1>3. IsPrefix(a, c)
  BY <1>1, <1>2, PrefixIs
<1> QED BY <1>3 DEF c

LEMMA PrefixRest ==
  ASSUME NEW a \in Texts, NEW b \in Texts, IsPrefix(a, b)
  PROVE  /\ SubSeq(b, Len(a) + 1, Len(b)) \in Texts
         /\ a \o SubSeq(b, Len(a) + 1, Len(b)) = b
<1>1. /\ Len(a) \in Nat /\ Len(b) \in Nat /\ Len(a) <= Len(b)
      /\ \A i \in 1..Len(a) : a[i] = b[i]
  BY PrefixIs DEF Texts
<1> DEFINE c == SubSeq(b, Len(a) + 1, Len(b))
           d == a \o c
<1>2. /\ c \in Texts /\ Len(c) = Len(b) - Len(a)
      /\ \A k \in 1 .. Len(b) - Len(a) : c[k] = b[Len(a) + k]
  <2>1. Len(a) + 1 \in 1 .. Len(b) + 1 /\ Len(b) \in (Len(a) + 1) - 1 .. Len(b)
    BY <1>1
  <2>2. /\ c \in Texts /\ Len(c) = Len(b) - (Len(a) + 1) + 1
        /\ \A k \in 1 .. Len(b) - (Len(a) + 1) + 1 : c[k] = b[(Len(a) + 1) - 1 + k]
    BY <2>1, PartIs
  <2>3. /\ Len(b) - (Len(a) + 1) + 1 = Len(b) - Len(a)
        /\ \A k \in Int : (Len(a) + 1) - 1 + k = Len(a) + k
    BY <1>1
  <2> HIDE DEF c
  <2> QED BY <2>2, <2>3
<1> HIDE DEF c
<1>3. /\ d \in Texts /\ Len(d) = Len(a) + Len(c)
      /\ \A k \in 1 .. Len(a) + Len(c) : d[k] = IF k <= Len(a) THEN a[k] ELSE c[k - Len(a)]
  BY <1>2, JoinIs
<1> HIDE DEF d
<1>4. Len(d) = Len(b)
  BY <1>1, <1>2, <1>3
<1>5. \A k \in 1..Len(d) : d[k] = b[k]
  <2> TAKE k \in 1..Len(d)
  <2>1. CASE k <= Len(a)
    BY <1>1, <1>3, <2>1
  <2>2. CASE ~(k <= Len(a))
    <3>1. d[k] = c[k - Len(a)]
      BY <1>1, <1>3, <2>2
    <3>2. k - Len(a) \in 1 .. Len(b) - Len(a) /\ Len(a) + (k - Len(a)) = k
      BY <1>1, <1>4, <2>2
    <3> QED BY <1>2, <3>1, <3>2
  <2> QED BY <2>1, <2>2
<1>6. d = b
  BY <1>3, <1>4, <1>5, SameTexts
<1> QED BY <1>2, <1>6 DEF c, d

LEMMA PrefixSame ==
  ASSUME NEW a \in Texts, NEW b \in Texts, IsPrefix(a, b), Len(b) <= Len(a)
  PROVE  a = b
<1>1. /\ Len(a) \in Nat /\ Len(b) \in Nat /\ Len(a) <= Len(b)
      /\ \A i \in 1..Len(a) : a[i] = b[i]
  BY PrefixIs DEF Texts
<1>2. Len(a) = Len(b)
  BY <1>1
<1> QED BY <1>1, <1>2, SameTexts

Tight(s) == s # <<>> => s[1] # "_" /\ s[Len(s)] # "_"

LEMMA InkIs ==
  ASSUME NEW s \in Texts
  PROVE  /\ Len(s) \in Nat
         /\ Ink(s) \subseteq 1..Len(s)
         /\ \A i \in 1..Len(s) : i \in Ink(s) <=> s[i] # "_"
<1>1. DOMAIN s = 1..Len(s) /\ Len(s) \in Nat
  BY DEF Texts
<1>2. Ink(s) = {i \in 1..Len(s) : s[i] # "_"}
  BY <1>1 DEF Ink
<1> QED BY <1>1, <1>2

LEMMA InkOf ==
  ASSUME NEW s \in Texts, NEW i \in Ink(s)
  PROVE  i \in 1..Len(s) /\ i \in Nat /\ 1 <= i /\ i <= Len(s) /\ s[i] # "_"
<1>1. i \in 1..Len(s)
  BY InkIs
<1>2. s[i] # "_"
  BY <1>1, InkIs
<1>3. Len(s) \in Nat
  BY InkIs
<1>4. i \in Nat /\ 1 <= i /\ i <= Len(s)
  BY <1>1, <1>3
<1> QED BY <1>1, <1>2, <1>4

LEMMA TrimAs ==
  ASSUME NEW s \in Texts, NEW a \in Ink(s), NEW b \in Ink(s), \A i \in Ink(s) : a <= i /\ i <= b
  PROVE  Trim(s) = SubSeq(s, a, b)
<1> DEFINE m == Min(Ink(s))
           n == Max(Ink(s))
<1>1. /\ m \in Ink(s) /\ n \in Ink(s) /\ \A i \in Ink(s) : m <= i /\ i <= n
      /\ Trim(s) = SubSeq(s, m, n)
  BY TrimIs
<1> HIDE DEF m, n
<1>2. a <= m /\ m <= a /\ b <= n /\ n <= b
  BY <1>1
<1>3. a \in Nat /\ b \in Nat /\ m \in Nat /\ n \in Nat
  <2>1. a \in Nat /\ b \in Nat
    BY InkOf
  <2>2. m \in Nat /\ n \in Nat
    BY <1>1, InkOf
  <2> QED BY <2>1, <2>2
<1>4. a = m /\ b = n
  BY <1>2, <1>3
<1> QED BY <1>1, <1>4

LEMMA TrimTight ==
  ASSUME NEW s \in Texts, Tight(s)
  PROVE  Trim(s) = s
<1>1. CASE s = <<>>
  <2>1. Ink(s) = {}
    BY <1>1 DEF Ink
  <2> QED BY <1>1, <2>1, TrimIs
<1>2. CASE s # <<>>
  <2>1. Len(s) \in Nat /\ Len(s) >= 1
    BY <1>2 DEF Texts
  <2>2. s[1] # "_" /\ s[Len(s)] # "_"
    BY <1>2 DEF Tight
  <2>3. 1 \in 1..Len(s) /\ Len(s) \in 1..Len(s)
    BY <2>1
  <2>4. 1 \in Ink(s) /\ Len(s) \in Ink(s)
    BY <2>2, <2>3, InkIs
  <2>5. \A i \in Ink(s) : 1 <= i /\ i <= Len(s)
    BY InkOf
  <2>6. Trim(s) = SubSeq(s, 1, Len(s))
    BY <2>4, <2>5, TrimAs
  <2> QED BY <2>6, SubSeqFull DEF Texts
<1> QED BY <1>1, <1>2

LEMMA TrimmedTight ==
  ASSUME NEW s \in Texts
  PROVE  Tight(Trim(s))
<1>1. CASE Ink(s) = {}
  <2> DEFINE t == Trim(s)
  <2>1. t = <<>>
    BY <1>1, TrimIs
  <2> HIDE DEF t
  <2>2. Tight(t)
    BY <2>1 DEF Tight
  <2> QED BY <2>2 DEF t
<1>2. CASE Ink(s) # {}
  <2> DEFINE a == Min(Ink(s))
             b == Max(Ink(s))
             t == Trim(s)
  <2>1. a \in Ink(s) /\ b \in Ink(s) /\ a <= b /\ t = SubSeq(s, a, b)
    BY <1>2, TrimIs
  <2> HIDE DEF a, b
  <2>2. s[a] # "_" /\ s[b] # "_" /\ a \in 1..Len(s) /\ b \in 1..Len(s)
    BY <2>1, InkOf
  <2>3. a \in Nat /\ b \in Nat /\ Len(s) \in Nat /\ 1 <= a /\ a <= b /\ b <= Len(s)
    <3>1. Len(s) \in Nat
      BY InkIs
    <3>2. a \in Nat /\ 1 <= a /\ a <= b
      BY <2>1, InkOf
    <3>3. b \in Nat /\ b <= Len(s)
      BY <2>1, InkOf
    <3> QED BY <3>1, <3>2, <3>3
  <2>4. Len(t) = b - a + 1 /\ \A k \in 1 .. b - a + 1 : t[k] = s[a - 1 + k]
    <3>1. a \in 1 .. Len(s) + 1 /\ b \in a - 1 .. Len(s)
      BY <2>3
    <3> QED BY <2>1, <3>1, PartIs
  <2> HIDE DEF t
  <2>5. 1 \in 1 .. b - a + 1 /\ b - a + 1 \in 1 .. b - a + 1 /\ a - 1 + 1 = a
        /\ a - 1 + (b - a + 1) = b
    BY <2>3
  <2>6. t[1] = s[a] /\ t[b - a + 1] = s[b]
    BY <2>4, <2>5
  <2>7. t[1] # "_" /\ t[Len(t)] # "_"
    BY <2>2, <2>4, <2>6
  <2> QED BY <2>7 DEF Tight, t
<1> QED BY <1>1, <1>2

LEMMA PrefixInk ==
  ASSUME NEW v \in Texts, NEW w \in Texts, IsPrefix(v, w)
  PROVE  /\ Ink(v) \subseteq Ink(w)
         /\ \A i \in Ink(w) : i <= Len(v) => i \in Ink(v)
<1>1. Len(v) \in Nat /\ Len(w) \in Nat /\ Len(v) <= Len(w)
  <2>1. Len(v) \in Nat /\ Len(w) \in Nat
    BY DEF Texts
  <2> QED BY <2>1, PrefixIs
<1>2. \A i \in 1..Len(v) : v[i] = w[i]
  BY PrefixIs
<1>3. ASSUME NEW i \in Ink(v) PROVE i \in Ink(w)
  <2>1. i \in 1..Len(v) /\ v[i] # "_" /\ i \in Nat /\ 1 <= i /\ i <= Len(v)
    BY InkOf
  <2>2. \A k \in Nat : 1 <= k /\ k <= Len(v) => k \in 1..Len(w)
    BY <1>1
  <2>3. i \in 1..Len(w)
    BY <2>1, <2>2
  <2>4. w[i] # "_"
    BY <1>2, <2>1
  <2> QED BY <2>3, <2>4, InkIs
<1>4. ASSUME NEW i \in Ink(w), i <= Len(v) PROVE i \in Ink(v)
  <2>1. i \in 1..Len(w) /\ w[i] # "_" /\ i \in Nat /\ 1 <= i
    BY InkOf
  <2>2. \A k \in Nat : 1 <= k /\ k <= Len(v) => k \in 1..Len(v)
    BY <1>1
  <2>3. i \in 1..Len(v)
    BY <1>4, <2>1, <2>2
  <2>4. v[i] # "_"
    BY <1>2, <2>1, <2>3
  <2> QED BY <2>3, <2>4, InkIs
<1> QED BY <1>3, <1>4

LEMMA PartPrefix ==
  ASSUME NEW v \in Texts, NEW w \in Texts, IsPrefix(v, w),
         NEW a \in 1..Len(v), NEW b \in a..Len(v), NEW c \in b..Len(w)
  PROVE  IsPrefix(SubSeq(v, a, b), SubSeq(w, a, c))
<1>1. /\ Len(v) \in Nat /\ Len(w) \in Nat /\ Len(v) <= Len(w)
      /\ \A i \in 1..Len(v) : v[i] = w[i]
  BY PrefixIs DEF Texts
<1> DEFINE x == SubSeq(v, a, b)
           y == SubSeq(w, a, c)
<1>2. /\ x \in Texts /\ Len(x) = b - a + 1
      /\ \A k \in 1 .. b - a + 1 : x[k] = v[a - 1 + k]
  <2>1. a \in 1 .. Len(v) + 1 /\ b \in a - 1 .. Len(v)
    BY <1>1
  <2> QED BY <2>1, PartIs
<1>3. /\ y \in Texts /\ Len(y) = c - a + 1
      /\ \A k \in 1 .. c - a + 1 : y[k] = w[a - 1 + k]
  <2>1. a \in 1 .. Len(w) + 1 /\ c \in a - 1 .. Len(w)
    BY <1>1
  <2> QED BY <2>1, PartIs
<1> HIDE DEF x, y
<1>4. Len(x) <= Len(y)
  BY <1>1, <1>2, <1>3
<1>5. \A k \in 1..Len(x) : x[k] = y[k]
  <2> TAKE k \in 1..Len(x)
  <2>1. k \in 1 .. b - a + 1 /\ k \in 1 .. c - a + 1 /\ a - 1 + k \in 1..Len(v)
    BY <1>1, <1>2
  <2> QED BY <1>1, <1>2, <1>3, <2>1
<1>6. IsPrefix(x, y)
  BY <1>2, <1>3, <1>4, <1>5, PrefixIs
<1> QED BY <1>6 DEF x, y

LEMMA NonePrefix ==
  ASSUME NEW w \in Texts
  PROVE  IsPrefix(<<>>, w)
<1>1. <<>> \in Texts /\ Len(<<>>) = 0 /\ Len(w) \in Nat
  BY DEF Texts
<1> QED BY <1>1, PrefixIs

LEMMA TrimPrefix ==
  ASSUME NEW v \in Texts, NEW w \in Texts, IsPrefix(v, w)
  PROVE  IsPrefix(Trim(v), Trim(w))
<1>1. CASE Ink(v) = {}
  BY <1>1, TrimIs, NonePrefix
<1>2. CASE Ink(v) # {}
  <2> DEFINE a == Min(Ink(v))
             b == Max(Ink(v))
             c == Min(Ink(w))
             d == Max(Ink(w))
  <2>1. /\ a \in Ink(v) /\ b \in Ink(v) /\ \A i \in Ink(v) : a <= i /\ i <= b
        /\ Trim(v) = SubSeq(v, a, b)
    BY <1>2, TrimIs
  <2>2. Ink(w) # {}
    BY <2>1, PrefixInk
  <2>3. /\ c \in Ink(w) /\ d \in Ink(w) /\ \A i \in Ink(w) : c <= i /\ i <= d
        /\ Trim(w) = SubSeq(w, c, d)
    BY <2>2, TrimIs
  <2> HIDE DEF a, b, c, d
  <2>4. a \in 1..Len(v) /\ b \in 1..Len(v) /\ c \in 1..Len(w) /\ d \in 1..Len(w)
        /\ Len(v) \in Nat /\ Len(w) \in Nat
    BY <2>1, <2>3, InkIs
  <2>5. a \in Ink(w) /\ b \in Ink(w)
    BY <2>1, PrefixInk
  <2>6. c <= a /\ b <= d /\ a <= b
    BY <2>1, <2>3, <2>5
  <2>7. c \in Ink(v)
    <3>1. c <= Len(v)
      BY <2>4, <2>6
    <3> QED BY <2>3, <3>1, PrefixInk
  <2>8. a = c
    <3>1. a <= c
      BY <2>1, <2>7
    <3> QED BY <2>4, <2>6, <3>1
  <2>9. b \in a..Len(v) /\ d \in b..Len(w)
    BY <2>4, <2>6
  <2>10. IsPrefix(SubSeq(v, a, b), SubSeq(w, a, d))
    BY <2>4, <2>9, PartPrefix
  <2> QED BY <2>1, <2>3, <2>8, <2>10
<1> QED BY <1>1, <1>2

Inked(s) == s # <<>> => s[1] # "_"

LEMMA InkedIs ==
  ASSUME NEW s \in Texts, Inked(s), s # <<>>
  PROVE  1 \in Ink(s)
<1>1. Len(s) \in Nat /\ Len(s) # 0
  BY DEF Texts
<1>2. 1 \in 1..Len(s)
  BY <1>1
<1>3. s[1] # "_"
  BY DEF Inked
<1> QED BY <1>2, <1>3, InkIs

LEMMA TrimCut ==
  ASSUME NEW v \in Texts, NEW w \in Texts, IsPrefix(v, w), v # <<>>, Inked(v),
         ~IsPrefix(v, Trim(w))
  PROVE  Trim(v) = Trim(w)
<1>0. Len(v) \in Nat /\ Len(w) \in Nat /\ Len(v) <= Len(w) /\ Len(v) >= 1
  <2>1. Len(v) \in Nat /\ Len(w) \in Nat /\ Len(v) # 0
    BY DEF Texts
  <2>2. Len(v) <= Len(w)
    BY PrefixIs
  <2>3. \A k \in Nat : k # 0 => k >= 1
    OBVIOUS
  <2>4. Len(v) >= 1
    BY <2>1, <2>3
  <2> QED BY <2>1, <2>2, <2>4
<1>1. 1 \in Ink(v) /\ 1 \in Ink(w)
  <2>1. 1 \in Ink(v)
    BY InkedIs
  <2> QED BY <2>1, PrefixInk
<1> DEFINE d == Max(Ink(w))
<1>2. d \in Ink(w) /\ \A i \in Ink(w) : i <= d
  BY <1>1, TrimIs
<1> HIDE DEF d
<1>3. d \in Nat /\ 1 <= d /\ d <= Len(w)
  BY <1>2, InkOf
<1>4. Trim(w) = SubSeq(w, 1, d)
  <2>1. \A i \in Ink(w) : 1 <= i /\ i <= d
    BY <1>2, InkOf
  <2> QED BY <1>1, <1>2, <2>1, TrimAs
<1>5. SubSeq(v, 1, Len(v)) = v
  BY SubSeqFull DEF Texts
<1>6. d <= Len(v)
  <2> SUFFICES ASSUME ~(d <= Len(v)) PROVE FALSE
    OBVIOUS
  <2>0. \A k, n, e \in Nat : k >= 1 /\ ~(e <= k) /\ e <= n =>
          1 \in 1..k /\ k \in 1..k /\ e \in k..n
    OBVIOUS
  <2>1. 1 \in 1..Len(v) /\ Len(v) \in 1..Len(v) /\ d \in Len(v)..Len(w)
    BY <1>0, <1>3, <2>0
  <2>2. IsPrefix(SubSeq(v, 1, Len(v)), SubSeq(w, 1, d))
    BY <2>1, PartPrefix
  <2> QED BY <1>4, <1>5, <2>2
<1>7. d \in Ink(v)
  BY <1>2, <1>6, PrefixInk
<1>8. Trim(v) = SubSeq(v, 1, d)
  <2>1. \A i \in Ink(v) : 1 <= i
    BY InkOf
  <2>2. \A i \in Ink(v) : i <= d
    BY <1>2, PrefixInk
  <2> QED BY <1>1, <1>7, <2>1, <2>2, TrimAs
<1>9. SubSeq(v, 1, d) = SubSeq(w, 1, d)
  <2> DEFINE x == SubSeq(v, 1, d)
             y == SubSeq(w, 1, d)
  <2>0. \A k, n, e \in Nat : k >= 1 /\ 1 <= e /\ e <= k /\ e <= n =>
          /\ 1 \in 1..k /\ e \in 1..k /\ e \in e..n
          /\ 1 \in 1 .. k + 1 /\ e \in 1 - 1 .. k /\ 1 \in 1 .. n + 1 /\ e \in 1 - 1 .. n
    OBVIOUS
  <2>1. /\ 1 \in 1..Len(v) /\ d \in 1..Len(v) /\ d \in d..Len(w)
        /\ 1 \in 1 .. Len(v) + 1 /\ d \in 1 - 1 .. Len(v)
        /\ 1 \in 1 .. Len(w) + 1 /\ d \in 1 - 1 .. Len(w)
    BY <1>0, <1>3, <1>6, <2>0
  <2>2. IsPrefix(x, y)
    BY <2>1, PartPrefix
  <2>3. x \in Texts /\ y \in Texts /\ Len(x) = d - 1 + 1 /\ Len(y) = d - 1 + 1
    BY <2>1, PartIs
  <2> HIDE DEF x, y
  <2>4. \A k \in Nat : k - 1 + 1 <= k - 1 + 1
    OBVIOUS
  <2>5. Len(y) <= Len(x)
    BY <1>3, <2>3, <2>4
  <2>6. x = y
    BY <2>2, <2>3, <2>5, PrefixSame
  <2> QED BY <2>6 DEF x, y
<1> QED BY <1>4, <1>8, <1>9

(* The tail makes the trimmed text whole, unless what was let through      *)
(* begins with white space.                                                *)
LEMMA TailWhole ==
  ASSUME NEW v \in Texts, NEW w \in Texts, IsPrefix(v, w), NEW a, a = Trim(w),
         NEW h, h = v \o remainingOf(a, v)
  PROVE  /\ h \in Texts
         /\ IsPrefix(Trim(h), a)
         /\ Inked(v) => Trim(h) = a
<1>1. a \in Texts
  BY TrimIs
<1>2. CASE IsPrefix(v, a)
  <2>1. remainingOf(a, v) = SubSeq(a, Len(v) + 1, Len(a))
    BY <1>2 DEF remainingOf
  <2>2. h = a
    BY <1>1, <1>2, <2>1, PrefixRest
  <2>3. Trim(a) = a
    BY <1>1, TrimmedTight, TrimTight
  <2>4. IsPrefix(a, a)
    <3>1. a \o <<>> = a /\ <<>> \in Texts
      BY <1>1, JoinNone DEF Texts
    <3>2. IsPrefix(a, a \o <<>>)
      BY <1>1, <3>1, PrefixJoin
    <3> QED BY <3>1, <3>2
  <2> QED BY <1>1, <2>2, <2>3, <2>4
<1>3. CASE ~IsPrefix(v, a)
  <2>1. h = v
    <3>1. remainingOf(a, v) = <<>>
      BY <1>3 DEF remainingOf
    <3> QED BY <3>1, JoinNone
  <2>2. v # <<>>
    BY <1>1, <1>3, NonePrefix
  <2>3. IsPrefix(Trim(h), a)
    BY <2>1, TrimPrefix
  <2>4. Inked(v) => Trim(h) = a
    BY <1>3, <2>1, <2>2, TrimCut
  <2> QED BY <2>1, <2>2, <2>3, <2>4
<1> QED BY <1>2, <1>3

-----------------------------------------------------------------------------
(* What the client has been told after each write *)

Indexed(o) == Fields(o) /\ o.nextIdx \in Nat /\ o.msgIndex \in Nat \cup {None}
Says(o, h, s) == Indexed(o) /\ o.heard = h /\ o.thought = s

LEMMA PutsSays ==
  ASSUME NEW o, NEW h, NEW s, Says(o, h, s), NEW names, NEW idx
  PROVE  Says(Puts(o, names, idx), h, s)
<1> DEFINE tail == [i \in DOMAIN names |-> <<names[i], idx>>]
<1>1. Puts(o, names, idx) = [o EXCEPT !.log = @ \o tail]
  BY DEF Puts
<1> HIDE DEF tail
<1> QED BY <1>1 DEF Says, Indexed, Fields

LEMMA StreamsSays ==
  ASSUME NEW o, NEW h, NEW s, Says(o, h, s), NEW name, NEW idx
  PROVE  Says(Streams(o, name, idx), h, s)
<1>1. Says(Puts(o, <<name>>, idx), h, s)
  BY PutsSays
<1> QED BY <1>1 DEF Streams

LEMMA StartSays ==
  ASSUME NEW o, NEW h, NEW s, Says(o, h, s)
  PROVE  Says(Start(o), h, s)
<1> DEFINE p == [o EXCEPT !.started = TRUE]
<1>1. Says(p, h, s)
  BY DEF Says, Indexed, Fields
<1> HIDE DEF p
<1>2. Says(Puts(p, <<"role">>, 0), h, s)
  BY <1>1, PutsSays
<1> QED BY <1>2 DEF Start, p

LEMMA ContentSays ==
  ASSUME NEW o, NEW h \in Texts, NEW s, Says(o, h, s), NEW d
  PROVE  Says(SendContent(o, d), h \o d, s)
<1>1. CASE d = <<>>
  <2>1. SendContent(o, d) = o /\ h \o d = h
    BY <1>1, JoinNone DEF SendContent
  <2> QED BY <2>1
<1>2. CASE d # <<>>
  <2> DEFINE p == Start(o)
             q == [p EXCEPT !.heard = @ \o d]
             g == h \o d
  <2>1. Says(p, h, s)
    BY StartSays
  <2> HIDE DEF p
  <2>2. Says(q, g, s)
    BY <2>1 DEF Says, Indexed, Fields
  <2>3. SendContent(o, d) = Streams(q, "content", 0)
    BY <1>2 DEF SendContent, p
  <2> HIDE DEF q, g
  <2>4. Says(Streams(q, "content", 0), g, s)
    BY <2>2, StreamsSays
  <2> QED BY <2>3, <2>4 DEF g
<1> QED BY <1>1, <1>2

LEMMA ReasoningSays ==
  ASSUME NEW o, NEW h, NEW s \in Texts, Says(o, h, s), NEW d
  PROVE  Says(SendReasoning(o, d), h, s \o d)
<1>1. CASE d = <<>>
  <2>1. SendReasoning(o, d) = o /\ s \o d = s
    BY <1>1, JoinNone DEF SendReasoning
  <2> QED BY <2>1
<1>2. CASE d # <<>>
  <2> DEFINE p == Start(o)
             q == [p EXCEPT !.thought = @ \o d]
             g == s \o d
  <2>1. Says(p, h, s)
    BY StartSays
  <2> HIDE DEF p
  <2>2. Says(q, h, g)
    BY <2>1 DEF Says, Indexed, Fields
  <2>3. SendReasoning(o, d) = Streams(q, "reasoning", 0)
    BY <1>2 DEF SendReasoning, p
  <2> HIDE DEF q, g
  <2>4. Says(Streams(q, "reasoning", 0), h, g)
    BY <2>2, StreamsSays
  <2> QED BY <2>3, <2>4 DEF g
<1> QED BY <1>1, <1>2

LEMMA EnsureSays ==
  ASSUME NEW o, NEW h, NEW s, Says(o, h, s)
  PROVE  Says(EnsureMsg(o), h, s)
<1> DEFINE p == [o EXCEPT !.msgIndex = o.nextIdx, !.nextIdx = @ + 1]
<1>1. Says(p, h, s)
  BY DEF Says, Indexed, Fields
<1> HIDE DEF p
<1>2. Says(Puts(p, <<"item added", "part added">>, o.nextIdx), h, s)
  BY <1>1, PutsSays
<1> QED BY <1>2 DEF EnsureMsg, p

LEMMA DeltaSays ==
  ASSUME NEW o, NEW h, NEW s, Says(o, h, s), NEW d
  PROVE  Says(EmitDelta(o, d), h \o d, s)
<1> DEFINE p == EnsureMsg(o)
           q == [p EXCEPT !.heard = @ \o d]
           g == h \o d
<1>1. Says(p, h, s)
  BY EnsureSays
<1> HIDE DEF p
<1>2. Says(q, g, s)
  BY <1>1 DEF Says, Indexed, Fields
<1>3. EmitDelta(o, d) = Streams(q, "delta", p.msgIndex)
  BY DEF EmitDelta, p
<1> HIDE DEF q, g
<1>4. Says(Streams(q, "delta", p.msgIndex), g, s)
  BY <1>2, StreamsSays
<1> QED BY <1>3, <1>4 DEF g

LEMMA WriteSays ==
  ASSUME NEW o, NEW h \in Texts, NEW s, Says(o, h, s), NEW d
  PROVE  Says(Write(o, d), h \o d, s)
<1>1. CASE d = <<>>
  <2>1. Write(o, d) = o /\ h \o d = h
    BY <1>1, JoinNone DEF Write
  <2> QED BY <2>1
<1>2. CASE d # <<>> /\ Chat
  BY <1>2, ContentSays DEF Write
<1>3. CASE d # <<>> /\ ~Chat
  BY <1>3, DeltaSays DEF Write
<1> QED BY <1>1, <1>2, <1>3

LEMMA OutputSays ==
  ASSUME NEW o, NEW h, NEW s, Says(o, h, s), NEW text, NEW calls \in Nat
  PROVE  Says(Output(o, text, calls), h, s)
<1> DEFINE p == CallItems(o, calls)
           tail == [i \in 1 .. 3 * calls |->
                      <<CallEvents[((i - 1) % 3) + 1], o.nextIdx + (i - 1) \div 3>>]
           e == EnsureMsg(p)
           q == IF text # <<>> \/ calls = 0 THEN MessageItem(p) ELSE p
<1>1. p = [o EXCEPT !.nextIdx = @ + calls, !.log = @ \o tail]
  BY DEF CallItems
<1> HIDE DEF tail
<1>2. Says(p, h, s)
  BY <1>1 DEF Says, Indexed, Fields
<1> HIDE DEF p
<1>3. Says(e, h, s)
  BY <1>2, EnsureSays
<1>4. MessageItem(p) = Puts(e, <<"text done", "part done", "item done">>, e.msgIndex)
  BY DEF MessageItem
<1> HIDE DEF e
<1>5. Says(MessageItem(p), h, s)
  BY <1>3, <1>4, PutsSays
<1>6. Says(q, h, s)
  BY <1>2, <1>5
<1>7. Output(o, text, calls) = Puts(q, <<"completed">>, 0)
  BY DEF Output, Completed, p
<1> HIDE DEF q
<1> QED BY <1>6, <1>7, PutsSays

LEMMA ClosingSays ==
  ASSUME NEW o, NEW h \in Texts, NEW s, Chat => s \in Texts, Says(o, h, s), NEW text, NEW calls \in Nat
  PROVE  Says(Closing(o, text, calls), h \o remainingOf(text, sentText),
              IF Chat THEN s \o remainingOf(line.thought, tracker.thought) ELSE s)
<1> DEFINE x == remainingOf(line.thought, tracker.thought)
           d == remainingOf(text, sentText)
           g == h \o d
           u == IF Chat THEN s \o x ELSE s
           told == IF Chat THEN SendReasoning(o, x) ELSE o
           full == Write(told, d)
<1>1. Says(told, h, u)
  <2>1. Chat => Says(SendReasoning(o, x), h, s \o x)
    BY ReasoningSays
  <2> QED BY <2>1
<1> HIDE DEF told, u
<1>2. Says(full, g, u)
  BY <1>1, WriteSays
<1> HIDE DEF g, d
<1>3. CASE Chat
  <2> DEFINE q == IF calls > 0 THEN SendToolCalls(full) ELSE full
  <2>1. Closing(o, text, calls) = Finish(q)
    BY <1>3 DEF Closing, told, d, x
  <2> HIDE DEF full
  <2>2. Says(SendToolCalls(full), g, u)
    BY <1>2, StartSays, PutsSays DEF SendToolCalls
  <2>3. Says(q, g, u)
    BY <1>2, <2>2
  <2> HIDE DEF q
  <2>4. Says(Finish(q), g, u)
    BY <2>3, StartSays, PutsSays DEF Finish
  <2> QED BY <2>1, <2>4 DEF g, u, d, x
<1>4. CASE ~Chat
  <2>1. Closing(o, text, calls) = Output(full, text, calls)
    BY <1>4 DEF Closing, told, d, x
  <2> HIDE DEF full
  <2>2. Says(Output(full, text, calls), g, u)
    BY <1>2, OutputSays
  <2> QED BY <2>1, <2>2 DEF g, u, d, x
<1> QED BY <1>3, <1>4

-----------------------------------------------------------------------------
(* A blank text has nothing to say *)

(* Taking blocks out leaves letters of the text.                           *)
LEMMA WithoutIn ==
  ASSUME NEW V \in SUBSET Letters, NEW s \in Seq(V), NEW word
  PROVE  Without(s, word) \in Seq(V)
<1> DEFINE p == [i \in DOMAIN s |-> IF Closed(s, word, i) THEN <<>> ELSE <<s[i]>>]
<1>1. Len(s) \in Nat /\ DOMAIN s = 1..Len(s) /\ \A i \in 1..Len(s) : s[i] \in V
  OBVIOUS
<1>2. Len(p) = Len(s)
  BY <1>1
<1>3. \A i \in 1..Len(s) : p[i] \in Seq(V)
  <2>1. \A e \in V : <<e>> \in Seq(V)
    OBVIOUS
  <2>2. <<>> \in Seq(V)
    OBVIOUS
  <2> QED BY <1>1, <2>1, <2>2
<1>4. Without(s, word) = Gather(p, Onward(s, word))
  BY DEF Without
<1>5. s \in Texts
  BY DEF Texts
<1> HIDE DEF p
<1>6. Onwards(p, Onward(s, word), V)
  BY <1>1, <1>2, <1>3, <1>5, OnwardIs DEF Onwards
<1> QED BY <1>4, <1>6, GatherTyped

LEMMA WithoutNone ==
  ASSUME NEW word
  PROVE  Without(<<>>, word) = <<>>
<1>1. <<>> \in Seq({}) /\ {} \in SUBSET Letters
  OBVIOUS
<1>2. Without(<<>>, word) \in Seq({})
  BY <1>1, WithoutIn
<1> DEFINE w == Without(<<>>, word)
<1> HIDE DEF w
<1>3. w \in Seq({})
  BY <1>2 DEF w
<1>4. w = <<>>
  BY <1>3
<1> QED BY <1>4 DEF w

LEMMA BlankIs ==
  ASSUME NEW s \in Texts, Trim(s) = <<>>
  PROVE  s \in Seq({"_"})
<1>1. Ink(s) = {}
  <2> SUFFICES ASSUME Ink(s) # {} PROVE FALSE
    OBVIOUS
  <2> DEFINE a == Min(Ink(s))
             b == Max(Ink(s))
  <2>1. a \in Ink(s) /\ b \in Ink(s) /\ a <= b /\ Trim(s) = SubSeq(s, a, b)
    BY TrimIs
  <2> HIDE DEF a, b
  <2>2. a \in Nat /\ 1 <= a /\ b \in Nat /\ b <= Len(s) /\ Len(s) \in Nat
    <3>1. a \in Nat /\ 1 <= a /\ b \in Nat /\ b <= Len(s)
      BY <2>1, InkOf
    <3>2. Len(s) \in Nat
      BY DEF Texts
    <3> QED BY <3>1, <3>2
  <2>3. a \in 1 .. Len(s) + 1 /\ b \in a - 1 .. Len(s) /\ b - a + 1 # 0
    BY <2>1, <2>2
  <2>4. Len(SubSeq(s, a, b)) = b - a + 1
    BY <2>3, PartIs
  <2>5. Len(<<>>) = 0
    OBVIOUS
  <2> QED BY <2>1, <2>3, <2>4, <2>5
<1>2. Len(s) \in Nat /\ DOMAIN s = 1..Len(s) /\ s = [i \in 1..Len(s) |-> s[i]]
  BY DEF Texts
<1>3. \A i \in 1..Len(s) : s[i] = "_"
  BY <1>1, InkIs
<1>4. \A i \in 1..Len(s) : s[i] \in {"_"}
  BY <1>3
<1> DEFINE V == {"_"}
<1> HIDE DEF V
<1>5. \A i \in 1..Len(s) : s[i] \in V
  BY <1>4 DEF V
<1>6. s \in Seq(V)
  BY <1>2, <1>5
<1> QED BY <1>6 DEF V

LEMMA LettersOf ==
  ASSUME NEW V, NEW s \in Seq(V)
  PROVE  \A i \in DOMAIN s : s[i] \in V
OBVIOUS

LEMMA TrimBlank ==
  ASSUME NEW s \in Texts, s \in Seq({"_"})
  PROVE  Trim(s) = <<>>
<1> DEFINE V == {"_"}
<1> HIDE DEF V
<1>0. s \in Seq(V)
  BY DEF V
<1>1. \A i \in DOMAIN s : s[i] \in V
  BY <1>0, LettersOf
<1>2. Ink(s) = {}
  BY <1>1 DEF Ink, V
<1> QED BY <1>2, TrimIs

LEMMA BlankClean ==
  ASSUME NEW s \in Texts, Trim(s) = <<>>
  PROVE  cleanGeminiText(s) = <<>>
<1>1. s \in Seq({"_"})
  BY BlankIs
<1>2. {"_"} \in SUBSET Letters
  BY DEF Letters
<1>3. Without(s, "x") \in Seq({"_"})
  BY <1>1, <1>2, WithoutIn
<1>4. Without(s, "x") \in Texts
  BY WithoutIs
<1> QED BY <1>3, <1>4, TrimBlank DEF cleanGeminiText

LEMMA NoneClean == cleanGeminiText(<<>>) = <<>>
<1>1. <<>> \in Texts /\ <<>> \in Seq({"_"})
  BY DEF Texts
<1>2. Trim(<<>>) = <<>>
  BY <1>1, TrimBlank
<1> QED BY <1>1, <1>2, BlankClean

(* What the answer is read from begins with all that was passed on.        *)
LEMMA ExtractedMeans ==
  ASSUME NEW s \in Texts, NEW e, e = (IF s = <<>> THEN <<>> ELSE extractResponseText(s))
  PROVE  /\ e \in Texts /\ Tight(e)
         /\ cleanGeminiText(s) # <<>> => e = cleanGeminiText(s)
<1> DEFINE c == cleanGeminiText(s)
           u == Gather([i \in DOMAIN s |-> IF s[i] = "x" THEN <<>> ELSE <<s[i]>>],
                       [i \in DOMAIN s |-> i + 1])
<1>1. c \in Texts /\ Tight(c)
  BY CleanIs, WithoutIs, TrimmedTight DEF cleanGeminiText
<1>2. u \in Texts
  BY UnmarkedIs
<1>3. extractResponseText(s) = IF c # <<>> THEN c ELSE Trim(u)
  BY DEF extractResponseText
<1> HIDE DEF c, u
<1>4. Trim(u) \in Texts /\ Tight(Trim(u))
  BY <1>2, TrimIs, TrimmedTight
<1>5. CASE s = <<>>
  <2>1. e = <<>>
    BY <1>5
  <2>2. e \in Texts
    <3>1. <<>> \in Texts
      BY DEF Texts
    <3> QED BY <2>1, <3>1
  <2>3. Tight(e)
    BY <2>1, ZenonT(40) DEF Tight
  <2>4. c = <<>>
    BY <1>5, NoneClean DEF c
  <2> QED BY <2>2, <2>3, <2>4 DEF c
<1>6. CASE s # <<>>
  <2>1. e = IF c # <<>> THEN c ELSE Trim(u)
    BY <1>3, <1>6
  <2>2. e \in Texts /\ Tight(e) /\ (c # <<>> => e = c)
    BY <1>1, <1>4, <2>1
  <2> QED BY <2>2 DEF c
<1> QED BY <1>5, <1>6

-----------------------------------------------------------------------------
(* The inductive invariant of what is heard *)

(* Reasoning comes as the text does: a longer one extends a shorter.       *)
Chained == \A r, q \in Thoughts : Len(r) < Len(q) => IsPrefix(r, q)

(* Tools are not offered together with pictures: the text of such an       *)
(* answer is not parsed, and its gate drops what looks like a call.        *)
PlainTools == \A r \in Queries : r.tools => r.product # "media"

(* What the client has heard is what the gate or the tracker let through,  *)
(* and the tracker has passed on all of the text so far.                   *)
Heard ==
  /\ Says(out, sentText, out.thought)
  /\ req.tools => Passed(tracker.text, gate)
  /\ line.steady => tracker.text = cleanGeminiText(line.text)
  /\ stage # "reading" => line = NoLine /\ tracker = Fresh
  /\ Chat => out.thought \in Texts
  /\ Chat /\ Chained => /\ out.thought = tracker.thought /\ tracker.thought = line.thought
                        /\ line.thought \in Thoughts \cup {<<>>}

AnswerInv ==
  /\ gate \in Gates
  /\ stage = "idle" => gate = NewGate
  /\ Indexed(out)
  /\ Underway /\ req.stream => Heard
  /\ Chained /\ PlainTools => StreamIsAnswer

LEMMA StillAnswered ==
  ASSUME stage # "done" \/ rows # << 200 >> \/ req.product = "canvas" \/ ~req.stream
  PROVE  StreamIsAnswer
BY DEF StreamIsAnswer, Streamed

LEMMA SentTyped ==
  ASSUME gate \in Gates, tracker \in [text : Texts, thought : Texts]
  PROVE  sentText \in Texts
BY DEF Gates, sentText

LEMMA HeardQuiet ==
  ASSUME AnswerInv, Underway, stage # "reading", stage' \in {"call", "prepare", "post"},
         UNCHANGED <<req, line, tracker, gate, out>>
  PROVE  AnswerInv'
<1>1. gate' \in Gates /\ stage' # "idle" /\ stage' # "done"
  BY DEF AnswerInv
<1>2. ASSUME req'.stream PROVE Heard'
  <2>1. Heard
    BY <1>2 DEF AnswerInv
  <2> QED BY <2>1 DEF Heard, sentText, Chat
<1>3. StreamIsAnswer'
  BY <1>1 DEF StreamIsAnswer, Streamed
<1> QED BY <1>1, <1>2, <1>3 DEF AnswerInv

LEMMA HeardFails ==
  ASSUME ClientInv, AnswerInv, Underway, NEW kind, Fails(kind), UNCHANGED gate
  PROVE  AnswerInv'
<1>1. rows = <<>>
  BY DEF ClientInv, OutInv, UnderwayInv
<1>2. rows' = <<502>> /\ stage' = "done"
  BY <1>1 DEF Fails
<1>3. rows' # <<200>>
  BY <1>2
<1>4. StreamIsAnswer'
  BY <1>3 DEF StreamIsAnswer, Streamed
<1>5. Indexed(out')
  <2> DEFINE h == out.heard
             s == out.thought
  <2>1. Says(out, h, s)
    BY DEF AnswerInv, Says
  <2> HIDE DEF h, s
  <2>2. out' = Error(out, kind)
    BY DEF Fails
  <2>3. Says(Json(out, Status(kind)), h, s) /\ Says(Failed(out), h, s)
    BY <2>1, PutsSays DEF Json, Failed
  <2>4. Says(Fail(out), h, s)
    BY <2>1, StartSays, PutsSays DEF Fail
  <2> QED BY <2>2, <2>3, <2>4 DEF Error, Says
<1> QED BY <1>2, <1>4, <1>5 DEF AnswerInv, Underway

LEMMA HeardRejects ==
  ASSUME ClientInv, AnswerInv, NEW r \in Queries, Reject(r)
  PROVE  AnswerInv'
<1>1. stage = "idle" /\ stage' = "done" /\ rows' = rows /\ gate' = gate
  BY DEF Reject
<1>2. rows' # <<200>>
  BY <1>1 DEF ClientInv, OutInv
<1>3. StreamIsAnswer'
  BY <1>2 DEF StreamIsAnswer, Streamed
<1>4. Indexed(out')
  <2>1. out' = Json(out, 400)
    BY DEF Reject
  <2>2. Says(out, out.heard, out.thought)
    BY DEF AnswerInv, Says
  <2>3. Says(Json(out, 400), out.heard, out.thought)
    BY <2>2, PutsSays DEF Json
  <2> QED BY <2>1, <2>3 DEF Says
<1> QED BY <1>1, <1>3, <1>4 DEF AnswerInv, Underway

LEMMA HeardAccepts ==
  ASSUME ClientInv, AnswerInv, NEW r \in Queries, Accept(r)
  PROVE  AnswerInv'
<1>1. /\ stage = "idle" /\ stage' = "call" /\ gate' = gate /\ line' = line /\ tracker' = tracker
      /\ out' = IF r.stream /\ r.api = "responses" THEN Created(out) ELSE out
  BY DEF Accept
<1>2. gate' = NewGate /\ line' = NoLine /\ tracker' = Fresh /\ out = Silent
  BY <1>1 DEF ClientInv, OutInv, AnswerInv
<1>3. Says(Silent, <<>>, <<>>)
  BY SilentIs DEF Says, Indexed, Silent
<1>4. Says(Created(Silent), <<>>, <<>>)
  <2> DEFINE p == [Silent EXCEPT !.started = TRUE]
  <2>1. Says(p, <<>>, <<>>)
    BY <1>3 DEF Says, Indexed, Fields
  <2> HIDE DEF p
  <2>2. Says(Puts(p, <<"created">>, 0), <<>>, <<>>)
    BY <2>1, PutsSays
  <2> QED BY <2>2 DEF Created, p
<1>5. Says(out', <<>>, <<>>)
  BY <1>1, <1>2, <1>3, <1>4
<1>6. Heard'
  <2>1. tracker'.text = <<>> /\ tracker'.thought = <<>> /\ line'.text = <<>> /\ line'.thought = <<>>
    BY <1>2 DEF NoLine, Fresh
  <2>2. gate'.sent = <<>>
    BY <1>2 DEF NewGate
  <2>3. sentText' = <<>>
    BY <2>1, <2>2 DEF sentText
  <2>4. Passed(tracker'.text, gate')
    BY <1>2, <2>1, NewPasses
  <2>5. tracker'.text = cleanGeminiText(line'.text)
    BY <2>1, NoneClean
  <2>6. out'.thought = <<>> /\ <<>> \in Texts
    BY <1>5 DEF Says, Texts
  <2>7. Says(out', sentText', out'.thought)
    BY <1>5, <2>3, <2>6
  <2> QED BY <1>2, <2>1, <2>4, <2>5, <2>6, <2>7 DEF Heard
<1>7. StreamIsAnswer'
  BY <1>1 DEF StreamIsAnswer, Streamed
<1>8. gate' \in Gates
  BY <1>2, NewPasses
<1>9. Indexed(out')
  BY <1>5 DEF Says
<1> QED BY <1>1, <1>6, <1>7, <1>8, <1>9 DEF AnswerInv

LEMMA HeardPosts ==
  ASSUME ClientInv, AnswerInv, Post
  PROVE  AnswerInv'
<1>1. /\ stage = "post" /\ stage' = "reading"
      /\ \E plan \in Answers : line' = [NoLine EXCEPT !.plan = plan]
      /\ UNCHANGED <<req, tracker, gate, out>>
  BY DEF Post
<1>2. line'.text = <<>> /\ line'.thought = <<>>
  BY <1>1 DEF NoLine
<1>3. ASSUME req'.stream PROVE Heard'
  <2>1. Heard /\ tracker = Fresh
    BY <1>1, <1>3 DEF AnswerInv, Underway, Heard
  <2>2. tracker'.text = <<>> /\ tracker'.thought = <<>>
    BY <1>1, <2>1 DEF Fresh
  <2>3. tracker'.text = cleanGeminiText(line'.text)
    BY <1>2, <2>2, NoneClean
  <2> QED BY <1>1, <1>2, <2>1, <2>2, <2>3 DEF Heard, sentText, Chat
<1>4. StreamIsAnswer'
  BY <1>1 DEF StreamIsAnswer, Streamed
<1> QED BY <1>1, <1>3, <1>4 DEF AnswerInv

LEMMA HeardRetries ==
  ASSUME ClientInv, AnswerInv, PostFails
  PROVE  AnswerInv'
<1>1. stage = "reading" /\ line' = NoLine /\ UNCHANGED <<req, tracker, gate>> /\ Underway
  BY DEF PostFails, Underway
<1>2. CASE Spoken \/ call.attempt = RetryAttempts
  BY <1>1, <1>2, HeardFails DEF PostFails
<1>3. CASE ~(Spoken \/ call.attempt = RetryAttempts)
  <2>1. stage' = "post" /\ out' = out
    BY <1>3 DEF PostFails
  <2>2. tracker.text = <<>> /\ tracker.thought = <<>>
    BY <1>3 DEF Spoken
  <2>3. tracker' = Fresh
    <3>1. tracker \in [text : Texts, thought : Texts]
      BY DEF ClientInv, ClientTyped
    <3> QED BY <1>1, <2>2, <3>1 DEF Fresh
  <2>4. NoLine.text = <<>> /\ NoLine.thought = <<>>
    BY DEF NoLine
  <2>5. ASSUME req'.stream PROVE Heard'
    <3>1. Heard
      BY <1>1, <2>5 DEF AnswerInv
    <3>2. tracker'.text = cleanGeminiText(line'.text)
      BY <1>1, <2>2, <2>4, NoneClean
    <3> QED BY <1>1, <2>1, <2>2, <2>3, <2>4, <3>1, <3>2 DEF Heard, sentText, Chat
  <2>6. StreamIsAnswer'
    BY <2>1 DEF StreamIsAnswer, Streamed
  <2> QED BY <1>1, <2>1, <2>5, <2>6 DEF AnswerInv
<1> QED BY <1>2, <1>3

(* What a tracker passes on completes what it has passed on before.        *)
LEMMA DeltaIs ==
  ASSUME NEW full \in Texts, NEW sent \in Texts
  PROVE  /\ Delta(full, sent) = <<>> /\ IsPrefix(sent, full) => full = sent
         /\ Delta(full, sent) # <<>> =>
              Delta(full, sent) \in Texts /\ sent \o Delta(full, sent) = full
<1>1. ASSUME Delta(full, sent) = <<>>, IsPrefix(sent, full) PROVE full = sent
  <2>1. Len(full) <= Len(sent)
    BY <1>1, DeltaAdds
  <2> QED BY <1>1, <2>1, PrefixSame
<1>2. ASSUME Delta(full, sent) # <<>>
      PROVE  Delta(full, sent) \in Texts /\ sent \o Delta(full, sent) = full
  <2>1. IsPrefix(sent, full) /\ Delta(full, sent) = SubSeq(full, Len(sent) + 1, Len(full))
    BY <1>2 DEF Delta
  <2> QED BY <2>1, PrefixRest
<1> QED BY <1>1, <1>2

(* A piece of text that is let through, with tools and without.            *)
LEMMA PassedOn ==
  ASSUME tracker \in [text : Texts, thought : Texts], gate \in Gates, req.stream, Heard,
         NEW d \in Texts, PassOn(d), tracker'.text = tracker.text \o d, req' = req
  PROVE  /\ gate' \in Gates /\ Says(out', sentText', out.thought)
         /\ req.tools => Passed(tracker'.text, gate')
<1>1. tracker.text \in Texts /\ Says(out, sentText, out.thought)
  BY DEF Heard
<1>2. CASE req.tools
  <2> DEFINE g == PushGate(gate, d)
             v == gate.sent
             w == g.sent
             x == SubSeq(w, Len(v) + 1, Len(w))
  <2>1. gate' = g /\ out' = Write(out, x)
    BY <1>2 DEF PassOn
  <2>2. Passed(tracker.text, gate)
    BY <1>2 DEF Heard
  <2>3. g \in Gates /\ Passed(tracker.text \o d, g) /\ \E e \in Texts : w = v \o e
    BY <1>1, <2>2, PushPasses
  <2>4. sentText = v /\ sentText' = w
    BY <1>2, <2>1 DEF sentText
  <2> HIDE DEF g
  <2>5. v \in Texts /\ w \in Texts
    BY <2>3 DEF Gates
  <2> HIDE DEF v, w
  <2>6. IsPrefix(v, w)
    BY <2>3, <2>5, PrefixJoin
  <2>7. v \o x = w
    BY <2>5, <2>6, PrefixRest
  <2> HIDE DEF x
  <2>8. Says(Write(out, x), v \o x, out.thought)
    BY <1>1, <2>4, <2>5, WriteSays
  <2> QED BY <2>1, <2>3, <2>4, <2>7, <2>8
<1>3. CASE ~req.tools
  <2>1. out' = Write(out, d) /\ gate' = gate
    BY <1>3 DEF PassOn
  <2>2. sentText = tracker.text /\ sentText' = tracker.text \o d
    BY <1>3 DEF sentText
  <2>3. Says(Write(out, d), tracker.text \o d, out.thought)
    BY <1>1, <2>2, WriteSays
  <2> QED BY <1>3, <2>1, <2>2, <2>3
<1> QED BY <1>2, <1>3

LEMMA HeardText ==
  ASSUME ClientInv, AnswerInv, stage = "reading", NEW t \in Texts, Len(t) > 0,
         NEW steady \in BOOLEAN, steady => line.steady, Text(t, steady)
  PROVE  AnswerInv'
<1> DEFINE clean == cleanGeminiText(t)
           d == IF req.stream THEN Delta(clean, tracker.text) ELSE <<>>
           sure == steady /\ IsPrefix(tracker.text, clean)
<1>1. line \in Lines /\ tracker \in [text : Texts, thought : Texts] /\ gate \in Gates
  BY DEF ClientInv, ClientTyped, AnswerInv
<1>2. clean \in Texts
  BY CleanIs
<1>3. /\ line' = [line EXCEPT !.text = IF Trim(t) = <<>> THEN @ ELSE t, !.any = TRUE,
                              !.steady = sure,
                              !.plan = IF steady THEN @ ELSE t, !.at = Len(t)]
      /\ tracker' = [tracker EXCEPT !.text = IF d = <<>> THEN @ ELSE clean]
      /\ IF d = <<>> THEN UNCHANGED <<gate, out>> ELSE PassOn(d)
      /\ UNCHANGED <<req, stage, rows>>
  BY DEF Text
<1>4. d = IF req.stream THEN Delta(clean, tracker.text) ELSE <<>>
  OBVIOUS
<1>5. Trim(t) = <<>> => clean = <<>>
  BY BlankClean
<1>6. clean = cleanGeminiText(t) /\ (sure => steady /\ IsPrefix(tracker.text, clean))
  OBVIOUS
<1> HIDE DEF clean, d, sure
<1>7. /\ line'.text = IF Trim(t) = <<>> THEN line.text ELSE t
      /\ line'.steady = sure /\ line'.thought = line.thought
      /\ tracker'.thought = tracker.thought
      /\ tracker'.text = IF d = <<>> THEN tracker.text ELSE clean
  BY <1>1, <1>3 DEF Lines
<1>8. tracker.text \in Texts
  BY <1>1
<1>9. ASSUME req.stream PROVE gate' \in Gates /\ Heard' /\ Indexed(out')
  <2>1. Heard
    BY <1>9 DEF AnswerInv, Underway
  <2>2. d = Delta(clean, tracker.text)
    BY <1>4, <1>9
  <2>3. line'.steady => tracker'.text = cleanGeminiText(line'.text)
    <3> SUFFICES ASSUME sure PROVE tracker'.text = cleanGeminiText(line'.text)
      BY <1>7
    <3>1. line.steady /\ IsPrefix(tracker.text, clean)
      BY <1>6
    <3>2. tracker'.text = clean
      BY <1>2, <1>7, <1>8, <2>2, <3>1, DeltaIs
    <3>3. CASE Trim(t) = <<>>
      <4>1. clean = <<>>
        BY <1>5, <3>3
      <4>2. tracker.text = <<>>
        <5>1. Len(tracker.text) <= Len(clean) /\ Len(clean) = 0 /\ Len(tracker.text) \in Nat
          <6>1. Len(tracker.text) <= Len(clean)
            BY <1>2, <1>8, <3>1, PrefixIs
          <6>2. Len(clean) = 0
            BY <4>1
          <6>3. Len(tracker.text) \in Nat
            BY <1>8 DEF Texts
          <6> QED BY <6>1, <6>2, <6>3
        <5>2. Len(tracker.text) = 0
          BY <5>1
        <5> QED BY <1>8, <5>2 DEF Texts
      <4>3. tracker.text = cleanGeminiText(line.text)
        BY <2>1, <3>1 DEF Heard
      <4> QED BY <1>7, <3>2, <3>3, <4>1, <4>2, <4>3
    <3>4. CASE Trim(t) # <<>>
      BY <1>6, <1>7, <3>2, <3>4
    <3> QED BY <3>3, <3>4
  <2>4. CASE d = <<>>
    <3>1. gate' = gate /\ out' = out /\ tracker'.text = tracker.text
      BY <1>3, <1>7, <2>4
    <3>2. Indexed(out')
      BY <3>1 DEF AnswerInv
    <3> QED BY <1>1, <1>3, <1>7, <2>1, <2>3, <3>1, <3>2 DEF Heard, sentText, Chat
  <2>5. CASE d # <<>>
    <3>1. d \in Texts /\ tracker.text \o d = clean
      BY <1>2, <1>8, <2>2, <2>5, DeltaIs
    <3>2. tracker'.text = tracker.text \o d /\ PassOn(d)
      BY <1>3, <1>7, <2>5, <3>1
    <3>3. /\ gate' \in Gates /\ Says(out', sentText', out.thought)
          /\ req.tools => Passed(tracker'.text, gate')
      BY <1>1, <1>3, <1>9, <2>1, <3>1, <3>2, PassedOn
    <3>4. out'.thought = out.thought /\ Says(out', sentText', out'.thought)
      BY <3>3 DEF Says
    <3>5. stage' = "reading" /\ req' = req
      BY <1>3
    <3>6. /\ Chat' => out'.thought \in Texts
          /\ Chat' /\ Chained => /\ out'.thought = tracker'.thought /\ tracker'.thought = line'.thought
                                /\ line'.thought \in Thoughts \cup {<<>>}
      BY <1>7, <2>1, <3>4, <3>5 DEF Heard, Chat
    <3>7. Indexed(out')
      BY <3>3 DEF Says
    <3> QED BY <2>3, <3>3, <3>4, <3>5, <3>6, <3>7 DEF Heard
  <2> QED BY <2>4, <2>5
<1>10. CASE ~req.stream
  <2>1. gate' = gate /\ stage' = "reading" /\ ~req'.stream /\ out' = out
    BY <1>3, <1>4, <1>10
  <2>2. StreamIsAnswer'
    BY <2>1 DEF StreamIsAnswer, Streamed
  <2> QED BY <1>1, <2>1, <2>2 DEF AnswerInv
<1>11. CASE req.stream
  <2>1. stage' = "reading"
    BY <1>3
  <2>2. StreamIsAnswer'
    BY <2>1 DEF StreamIsAnswer, Streamed
  <2> QED BY <1>9, <1>11, <2>1, <2>2 DEF AnswerInv
<1> QED BY <1>10, <1>11

LEMMA HeardThought ==
  ASSUME ClientInv, AnswerInv, ReadThought
  PROVE  AnswerInv'
<1>1. PICK r \in Thoughts :
        LET d == IF req.stream /\ Chat THEN Delta(r, tracker.thought) ELSE <<>>
        IN /\ Len(r) > Len(line.thought)
           /\ line' = [line EXCEPT !.thought = r, !.any = TRUE]
           /\ tracker' = [tracker EXCEPT !.thought = IF d = <<>> THEN @ ELSE r]
           /\ out' = SendReasoning(out, d)
  BY DEF ReadThought
<1>2. stage = "reading" /\ stage' = stage /\ req' = req /\ gate' = gate
  BY DEF ReadThought
<1>3. line \in Lines /\ tracker \in [text : Texts, thought : Texts]
  BY DEF ClientInv, ClientTyped
<1>4. r \in Texts
  BY TextsAssumption DEF Texts
<1> DEFINE d == IF req.stream /\ Chat THEN Delta(r, tracker.thought) ELSE <<>>
<1>5. /\ Len(r) > Len(line.thought)
      /\ line' = [line EXCEPT !.thought = r, !.any = TRUE]
      /\ tracker' = [tracker EXCEPT !.thought = IF d = <<>> THEN @ ELSE r]
      /\ out' = SendReasoning(out, d)
  BY <1>1
<1>6. (req.stream /\ Chat => d = Delta(r, tracker.thought)) /\ (~(req.stream /\ Chat) => d = <<>>)
  OBVIOUS
<1> HIDE DEF d
<1>7. /\ line'.text = line.text /\ line'.steady = line.steady /\ line'.thought = r
      /\ tracker'.text = tracker.text
      /\ tracker'.thought = IF d = <<>> THEN tracker.thought ELSE r
  BY <1>3, <1>5 DEF Lines
<1>8. ASSUME req.stream PROVE Heard' /\ Indexed(out')
  <2>1. Heard
    BY <1>2, <1>8 DEF AnswerInv, Underway
  <2>2. CASE Chat
    <3>1. Says(out, sentText, out.thought) /\ out.thought \in Texts
      BY <2>1, <2>2 DEF Heard
    <3>2. tracker.thought \in Texts /\ d = Delta(r, tracker.thought)
      BY <1>3, <1>6, <1>8, <2>2
    <3>3. d \in Texts
      <4>1. <<>> \in Texts
        BY DEF Texts
      <4> QED BY <1>4, <3>2, <4>1, DeltaIs
    <3>4. Says(out', sentText, out.thought \o d) /\ out.thought \o d \in Texts
      BY <1>5, <3>1, <3>3, ReasoningSays, JoinIs
    <3>5. ASSUME Chained
          PROVE  tracker'.thought = r /\ out.thought \o d = r
      <4>1. out.thought = tracker.thought /\ tracker.thought = line.thought
            /\ line.thought \in Thoughts \cup {<<>>}
        BY <2>1, <2>2, <3>5 DEF Heard
      <4>2. IsPrefix(tracker.thought, r)
        <5>1. CASE line.thought \in Thoughts
          <6>1. Len(line.thought) < Len(r)
            <7>1. Len(line.thought) \in Nat /\ Len(r) \in Nat
              BY <1>3, <1>4 DEF Lines, Texts
            <7> QED BY <1>5, <7>1
          <6> QED BY <3>5, <4>1, <5>1, <6>1 DEF Chained
        <5>2. CASE line.thought = <<>>
          BY <1>4, <4>1, <5>2, NonePrefix
        <5> QED BY <4>1, <5>1, <5>2
      <4>3. CASE d = <<>>
        <5>1. r = tracker.thought
          BY <1>4, <3>2, <4>2, <4>3, DeltaIs
        <5>2. tracker.thought \o d = tracker.thought
          BY <3>2, <4>3, JoinNone
        <5> QED BY <1>7, <4>1, <4>3, <5>1, <5>2
      <4>4. CASE d # <<>>
        BY <1>4, <1>7, <3>2, <4>1, <4>4, DeltaIs
      <4> QED BY <4>3, <4>4
    <3>6. sentText' = sentText
      BY <1>2, <1>7 DEF sentText
    <3>7. out'.thought = out.thought \o d /\ Indexed(out')
      BY <3>4 DEF Says
    <3>8. Says(out', sentText', out'.thought) /\ out'.thought \in Texts
      BY <3>4, <3>6, <3>7
    <3> QED BY <1>2, <1>7, <2>1, <3>5, <3>7, <3>8 DEF Heard
  <2>3. CASE ~Chat
    <3>1. out' = out
      BY <1>5, <1>6, <2>3 DEF SendReasoning
    <3>2. sentText' = sentText /\ ~Chat'
      BY <1>2, <1>7, <2>3 DEF sentText, Chat
    <3>3. Indexed(out')
      BY <3>1 DEF AnswerInv
    <3> QED BY <1>2, <1>7, <2>1, <3>1, <3>2, <3>3 DEF Heard
  <2> QED BY <2>2, <2>3
<1>9. StreamIsAnswer'
  BY <1>2 DEF StreamIsAnswer, Streamed
<1>10. ~req.stream => out' = out
  BY <1>5, <1>6 DEF SendReasoning
<1> QED BY <1>2, <1>8, <1>9, <1>10 DEF AnswerInv

-----------------------------------------------------------------------------
(* The end of a stream that succeeds *)

(* The answer is a trimmed text that begins with all that was let through. *)
Foretold(text) == \E w \in Texts : IsPrefix(sentText, w) /\ text = Trim(w)

LEMMA HeardSucceeds ==
  ASSUME ClientInv, AnswerInv, stage = "reading", UNCHANGED <<req, line, tracker, gate>>,
         NEW text, NEW calls \in Nat, Succeeds(text, calls),
         Chained /\ PlainTools /\ req.stream /\ req.product # "canvas" /\ line.steady
           => Foretold(text)
  PROVE  AnswerInv'
<1>1. /\ answer' = text /\ stage' = "done"
      /\ req.stream => out' = Closing(out, text, calls)
      /\ ~req.stream => out' = [Json(out, 200) EXCEPT !.heard = text, !.thought = line.thought]
  BY DEF Succeeds
<1>2. tracker \in [text : Texts, thought : Texts] /\ gate \in Gates /\ line \in Lines
  BY DEF ClientInv, ClientTyped, AnswerInv
<1>3. sentText' = sentText
  BY DEF sentText
<1> DEFINE v == sentText
           h == v \o remainingOf(text, v)
           s == IF Chat THEN out.thought \o remainingOf(line.thought, tracker.thought)
                ELSE out.thought
<1>4. v \in Texts
  BY <1>2, SentTyped
<1>5. req.stream => Says(out', h, s)
  <2> SUFFICES ASSUME req.stream PROVE Says(out', h, s)
    OBVIOUS
  <2>1. Heard
    BY DEF AnswerInv, Underway
  <2>2. Says(out, v, out.thought) /\ (Chat => out.thought \in Texts)
    BY <2>1 DEF Heard
  <2> QED BY <1>1, <1>4, <2>2, ClosingSays
<1>6. ASSUME Chained, PlainTools, req.stream, req.product # "canvas", line.steady
      PROVE  /\ IsPrefix(Trim(out'.heard), text)
             /\ Inked(v) => Trim(out'.heard) = text
             /\ Chat => out'.thought = line.thought
  <2>1. Heard
    BY <1>6 DEF AnswerInv, Underway
  <2>2. PICK w \in Texts : IsPrefix(v, w) /\ text = Trim(w)
    BY <1>6 DEF Foretold
  <2>3. Chat => s = line.thought
    <3> SUFFICES ASSUME Chat PROVE s = line.thought
      OBVIOUS
    <3>1. out.thought = line.thought /\ tracker.thought = line.thought /\ line.thought \in Texts
      BY <1>2, <1>6, <2>1 DEF Heard, Lines
    <3>2. Len(line.thought) <= Len(line.thought)
      <4>1. Len(line.thought) \in Nat
        BY <3>1 DEF Texts
      <4> QED BY <4>1
    <3>3. remainingOf(line.thought, tracker.thought) = <<>>
      BY <3>1, <3>2, NothingLeft
    <3>4. line.thought \o <<>> = line.thought
      BY <3>1, JoinNone
    <3> QED BY <3>1, <3>3, <3>4
  <2> HIDE DEF v, s
  <2>4. IsPrefix(Trim(h), text) /\ (Inked(v) => Trim(h) = text)
    BY <1>4, <2>2, TailWhole
  <2> HIDE DEF h
  <2>5. out'.heard = h /\ out'.thought = s
    BY <1>5, <1>6 DEF Says
  <2> QED BY <2>3, <2>4, <2>5
<1>7. Indexed(out')
  <2>1. CASE req.stream
    BY <1>5, <2>1 DEF Says
  <2>2. CASE ~req.stream
    <3> DEFINE o == Json(out, 200)
    <3>1. Says(out, out.heard, out.thought)
      BY DEF AnswerInv, Says
    <3>2. Says(o, out.heard, out.thought)
      BY <3>1, PutsSays DEF Json
    <3>3. out' = [o EXCEPT !.heard = text, !.thought = line.thought]
      BY <1>1, <2>2
    <3> HIDE DEF o
    <3> QED BY <3>2, <3>3 DEF Says, Indexed, Fields
  <2> QED BY <2>1, <2>2
<1>8. ASSUME Chained, PlainTools PROVE StreamIsAnswer'
  <2> SUFFICES ASSUME Streamed'
               PROVE  /\ IsPrefix(Trim(out'.heard), text)
                      /\ (sentText # <<>> => sentText[1] # "_") => Trim(out'.heard) = text
                      /\ Chat => out'.thought = line.thought
    BY <1>1, <1>3 DEF StreamIsAnswer, Chat
  <2>1. req.stream /\ req.product # "canvas" /\ line.steady
    BY DEF Streamed
  <2> QED BY <1>6, <1>8, <2>1, ZenonT(40) DEF Inked
<1> QED BY <1>1, <1>2, <1>7, <1>8 DEF AnswerInv, Underway

LEMMA NoneForetold ==
  ASSUME NEW v \in Texts
  PROVE  IsPrefix(v, v)
<1>1. v \o <<>> = v /\ <<>> \in Texts
  BY JoinNone DEF Texts
<1>2. IsPrefix(v, v \o <<>>)
  BY <1>1, PrefixJoin
<1> QED BY <1>1, <1>2

(* Without tools what was passed on begins the text that was extracted,    *)
(* with tools it begins that text without its calls.                       *)
LEMMA SentBefore ==
  ASSUME ClientInv, AnswerInv, stage = "reading", req.stream, line.steady
  PROVE  /\ Extracted \in Texts /\ Tight(Extracted)
         /\ IsPrefix(sentText, IF req.tools THEN Without(Extracted, "t") ELSE Extracted)
<1> DEFINE e == Extracted
           t == tracker.text
<1>1. Heard /\ gate \in Gates
  BY DEF AnswerInv, Underway
<1>2. line.text \in Texts /\ t \in Texts /\ sentText \in Texts
  BY <1>1, SentTyped DEF ClientInv, ClientTyped, Lines
<1>3. e \in Texts /\ Tight(e) /\ (cleanGeminiText(line.text) # <<>> => e = cleanGeminiText(line.text))
  BY <1>2, ExtractedMeans DEF Extracted
<1>4. t = cleanGeminiText(line.text)
  BY <1>1 DEF Heard
<1> HIDE DEF e
<1>5. t # <<>> => e = t
  BY <1>3, <1>4
<1>6. CASE ~req.tools
  <2>1. sentText = t
    BY <1>6 DEF sentText
  <2>2. CASE t = <<>>
    BY <1>3, <1>6, <2>1, <2>2, NonePrefix DEF e
  <2>3. CASE t # <<>>
    BY <1>2, <1>3, <1>5, <1>6, <2>1, <2>3, NoneForetold DEF e
  <2> QED BY <2>2, <2>3
<1>7. CASE req.tools
  <2> DEFINE v == gate.sent
             w == Without(t, "t")
             x == Without(Kept(gate) \o <<>>, "t")
  <2>1. sentText = v /\ v \in Texts
    BY <1>2, <1>7 DEF sentText
  <2>2. w = v \o x
    <3>1. Passed(t, gate)
      BY <1>1, <1>7 DEF Heard
    <3>2. <<>> \in Texts /\ t \o <<>> = t
      BY <1>2, JoinNone DEF Texts
    <3>3. Without(t \o <<>>, "t") = v \o x
      BY <3>1, <3>2 DEF Passed
    <3> QED BY <3>2, <3>3
  <2>3. x \in Texts
    <3>1. <<>> \in Texts /\ Kept(gate) \in Texts
      BY <1>1, KeptTyped DEF Texts
    <3>2. Kept(gate) \o <<>> \in Texts
      BY <3>1, JoinIs
    <3> QED BY <3>2, WithoutIs
  <2> HIDE DEF x, v
  <2>4. IsPrefix(v, w)
    BY <2>1, <2>2, <2>3, PrefixJoin
  <2>5. CASE t # <<>>
    BY <1>3, <1>5, <1>7, <2>1, <2>4, <2>5 DEF e
  <2>6. CASE t = <<>>
    <3>1. w = <<>>
      BY <2>6, WithoutNone
    <3>2. v = <<>>
      <4>1. <<>> \in Texts /\ Len(<<>>) = 0 /\ Len(v) \in Nat
        BY <2>1 DEF Texts
      <4>2. Len(v) <= Len(<<>>)
        BY <2>1, <2>4, <3>1, <4>1, PrefixIs
      <4>3. Len(v) = 0
        BY <4>1, <4>2
      <4> QED BY <2>1, <4>3 DEF Texts
    <3>3. Without(e, "t") \in Texts
      BY <1>3, WithoutIs
    <3>4. IsPrefix(v, Without(e, "t"))
      BY <3>2, <3>3, NonePrefix
    <3> QED BY <1>3, <1>7, <2>1, <3>4 DEF e
  <2> QED BY <2>5, <2>6
<1> QED BY <1>6, <1>7

LEMMA HeardAnswers ==
  ASSUME ClientInv, AnswerInv, Answer
  PROVE  AnswerInv'
<1>1. stage = "reading" /\ UNCHANGED <<req, line, tracker, gate>> /\ Underway
  BY DEF Answer, Ends, Underway
<1>2. CASE Fails("upstream")
  BY <1>1, <1>2, HeardFails
<1>3. CASE Succeeds(Parsed, Calls)
  <2>1. ASSUME req.stream, line.steady PROVE Foretold(Parsed)
    <3>1. /\ Extracted \in Texts /\ Tight(Extracted)
          /\ IsPrefix(sentText, IF req.tools THEN Without(Extracted, "t") ELSE Extracted)
      BY <1>1, <2>1, SentBefore
    <3>2. CASE req.tools
      <4>1. Parsed = Trim(Without(Extracted, "t"))
        BY <3>2 DEF Parsed, ToolText
      <4>2. Without(Extracted, "t") \in Texts
        BY <3>1, WithoutIs
      <4> QED BY <3>1, <3>2, <4>1, <4>2 DEF Foretold
    <3>3. CASE ~req.tools
      <4>1. Parsed = Extracted /\ Trim(Extracted) = Extracted
        BY <3>1, <3>3, TrimTight DEF Parsed
      <4> QED BY <3>1, <3>3, <4>1 DEF Foretold
    <3> QED BY <3>2, <3>3
  <2>2. Calls \in Nat
    BY CallsAre
  <2> QED BY <1>1, <1>3, <2>1, <2>2, HeardSucceeds
<1> QED BY <1>2, <1>3 DEF Answer

LEMMA InkTight ==
  ASSUME NEW s \in Texts, 1 \in Ink(s), Len(s) \in Ink(s)
  PROVE  Trim(s) = s
<1>1. \A i \in Ink(s) : 1 <= i /\ i <= Len(s)
  BY InkOf
<1>2. Trim(s) = SubSeq(s, 1, Len(s))
  BY <1>1, TrimAs
<1>3. SubSeq(s, 1, Len(s)) = s
  BY SubSeqFull DEF Texts
<1> QED BY <1>2, <1>3

LEMMA EndsInInk ==
  ASSUME NEW e \in Texts, NEW x \in Texts, Len(x) \in Ink(x)
  PROVE  Len(e \o x) \in Ink(e \o x)
<1> DEFINE w == e \o x
           n == Len(x)
<1>1. w \in Texts /\ Len(w) = Len(e) + n
  BY JoinIs
<1>2. \A i \in 1 .. Len(e) + n : w[i] = IF i <= Len(e) THEN e[i] ELSE x[i - Len(e)]
  BY JoinIs
<1> HIDE DEF w
<1>3. n \in Nat /\ 1 <= n /\ x[n] # "_"
  BY InkOf
<1> HIDE DEF n
<1>4. Len(e) \in Nat
  BY DEF Texts
<1>5. Len(e) + n \in 1 .. Len(e) + n /\ ~(Len(e) + n <= Len(e)) /\ (Len(e) + n) - Len(e) = n
  <2>1. n \in Nat /\ 1 <= n
    BY <1>3
  <2> QED BY <1>4, <2>1
<1>6. w[Len(e) + n] = x[(Len(e) + n) - Len(e)]
  BY <1>2, <1>5
<1>7. w[Len(w)] # "_"
  BY <1>1, <1>3, <1>5, <1>6
<1>8. Len(w) \in 1..Len(w)
  BY <1>1, <1>5
<1>9. Len(w) \in Ink(w)
  BY <1>1, <1>7, <1>8, InkIs
<1> QED BY <1>9 DEF w

LEMMA LinkIs ==
  /\ <<"D">> \in Texts /\ 1 \in Ink(<<"D">>) /\ Len(<<"D">>) \in Ink(<<"D">>)
  /\ <<"_", "D">> \in Texts /\ Len(<<"_", "D">>) \in Ink(<<"_", "D">>)
<1>1. <<"D">> \in Texts /\ <<"_", "D">> \in Texts
  BY DEF Texts, Letters
<1> DEFINE x == <<"_", "D">>
           y == <<"D">>
<1>2. Len(y) = 1 /\ Len(x) = 2
  OBVIOUS
<1>3. y[1] = "D" /\ x[2] = "D"
  OBVIOUS
<1>4. x \in Texts /\ y \in Texts
  BY <1>1
<1> HIDE DEF x, y
<1>5. y[1] # "_" /\ x[2] # "_"
  BY <1>3
<1>6. 1 \in 1..Len(y) /\ 2 \in 1..Len(x)
  BY <1>2
<1>7. 1 \in Ink(y) /\ 2 \in Ink(x)
  BY <1>4, <1>5, <1>6, InkIs
<1>8. Len(y) \in Ink(y) /\ Len(x) \in Ink(x)
  BY <1>2, <1>7
<1> QED BY <1>4, <1>7, <1>8 DEF x, y

(* A text and the link after it are as tight as the text.                  *)
LEMMA LinkTight ==
  ASSUME NEW e \in Texts, Tight(e)
  PROVE  LET w == IF e = <<>> THEN <<"D">> ELSE e \o <<"_", "D">>
         IN  w \in Texts /\ IsPrefix(e, w) /\ Trim(w) = w
<1> DEFINE x == <<"_", "D">>
           y == <<"D">>
           w == IF e = <<>> THEN y ELSE e \o x
<1>1. /\ y \in Texts /\ 1 \in Ink(y) /\ Len(y) \in Ink(y)
      /\ x \in Texts /\ Len(x) \in Ink(x)
  BY LinkIs
<1> HIDE DEF x, y
<1>2. CASE e = <<>>
  <2>1. Trim(y) = y /\ IsPrefix(<<>>, y)
    BY <1>1, InkTight, NonePrefix
  <2>2. w = y
    BY <1>2
  <2> HIDE DEF w
  <2>3. w \in Texts /\ IsPrefix(e, w) /\ Trim(w) = w
    BY <1>1, <1>2, <2>1, <2>2
  <2> QED BY <2>3 DEF w, x, y
<1>3. CASE e # <<>>
  <2>1. w = e \o x
    BY <1>3
  <2> HIDE DEF w
  <2>2. w \in Texts /\ IsPrefix(e, w)
    BY <1>1, <2>1, JoinIs, PrefixJoin
  <2>3. Len(w) \in Ink(w)
    BY <1>1, <2>1, EndsInInk
  <2>4. 1 \in Ink(w)
    <3>1. Inked(e)
      BY DEF Tight, Inked
    <3>2. 1 \in Ink(e)
      BY <1>3, <3>1, InkedIs
    <3> QED BY <2>2, <3>2, PrefixInk
  <2>5. Trim(w) = w
    BY <2>2, <2>3, <2>4, InkTight
  <2> QED BY <2>2, <2>5 DEF w, x, y
<1> QED BY <1>2, <1>3

LEMMA PrefixChain ==
  ASSUME NEW a \in Texts, NEW b \in Texts, NEW c \in Texts, IsPrefix(a, b), IsPrefix(b, c)
  PROVE  IsPrefix(a, c)
<1>1. Len(a) <= Len(b) /\ Len(b) <= Len(c)
  BY PrefixIs
<1>2. Len(a) \in Nat /\ Len(b) \in Nat /\ Len(c) \in Nat
  BY DEF Texts
<1>3. Len(a) <= Len(c) /\ \A i \in 1..Len(a) : i \in 1..Len(b)
  BY <1>1, <1>2
<1>4. \A i \in 1..Len(a) : a[i] = b[i]
  BY PrefixIs
<1>5. \A i \in 1..Len(b) : b[i] = c[i]
  BY PrefixIs
<1>6. \A i \in 1..Len(a) : a[i] = c[i]
  BY <1>3, <1>4, <1>5
<1> QED BY <1>3, <1>6, PrefixIs

LEMMA HeardMedia ==
  ASSUME ClientInv, AnswerInv, Media
  PROVE  AnswerInv'
<1>1. stage = "reading" /\ UNCHANGED <<req, line, tracker, gate>> /\ Underway
      /\ req.product = "media"
  BY DEF Media, Ends, Underway
<1> DEFINE w == IF Extracted = <<>> THEN <<"D">> ELSE Extracted \o <<"_", "D">>
<1>2. CASE Fails("upstream")
  BY <1>1, <1>2, HeardFails
<1>3. CASE Succeeds(w, 0)
  <2>1. ASSUME PlainTools, req.stream, line.steady PROVE Foretold(w)
    <3>1. ~req.tools
      <4>1. req \in Queries
        BY <1>1 DEF ClientInv, ClientTyped
      <4> QED BY <1>1, <2>1, <4>1 DEF PlainTools
    <3>2. Extracted \in Texts /\ Tight(Extracted) /\ IsPrefix(sentText, Extracted)
      BY <1>1, <2>1, <3>1, SentBefore
    <3>3. w \in Texts /\ IsPrefix(Extracted, w) /\ Trim(w) = w
      BY <3>2, LinkTight
    <3>4. sentText \in Texts
      BY SentTyped DEF AnswerInv, ClientInv, ClientTyped
    <3> HIDE DEF w
    <3>5. IsPrefix(sentText, w)
      BY <3>2, <3>3, <3>4, PrefixChain
    <3> QED BY <3>3, <3>5 DEF Foretold
  <2> HIDE DEF w
  <2> QED BY <1>1, <1>3, <2>1, HeardSucceeds
<1> QED BY <1>2, <1>3 DEF Media

LEMMA HeardCanvas ==
  ASSUME ClientInv, AnswerInv, Canvas
  PROVE  AnswerInv'
<1>1. stage = "reading" /\ UNCHANGED <<req, line, tracker, gate>> /\ Underway
      /\ req.product = "canvas"
  BY DEF Canvas, Ends, Underway
<1>2. Fails("upstream") \/ \E text : Succeeds(text, 0)
  BY DEF Canvas
<1> QED BY <1>1, <1>2, HeardFails, HeardSucceeds

-----------------------------------------------------------------------------
(* What is counted *)

Counted ==
  /\ changes \in 0..MaxChanges
  /\ call.attempt \in 0..RetryAttempts
  /\ stage \notin {"reading", "done"} => call.attempt < RetryAttempts

LEMMA CountedStep ==
  ASSUME ClientInv, Counted, [StreamNext]_streamVars
  PROVE  Counted'
<1>1. call \in [acct : BOOLEAN, attempt : Int, files : BOOLEAN, over : BOOLEAN]
      /\ RetryAttempts \in 1..10 /\ MaxChanges \in Nat
  BY BudgetAssumption, ChangesAssumption DEF ClientInv, ClientTyped
<1>2. CASE PoolChanges
  <2>1. changes' = changes + 1 /\ changes < MaxChanges /\ stage' = stage /\ call' = call
    BY <1>2 DEF PoolChanges
  <2> QED BY <1>1, <2>1 DEF Counted
<1>3. CASE Post
  <2>1. stage = "post" /\ stage' = "reading" /\ changes' = changes
        /\ call' = [call EXCEPT !.attempt = @ + 1]
    BY <1>3 DEF Post, account
  <2>2. call'.attempt = call.attempt + 1
    BY <1>1, <2>1
  <2>3. call.attempt \in 0..RetryAttempts /\ call.attempt < RetryAttempts
    BY <2>1 DEF Counted
  <2>4. call'.attempt \in 0..RetryAttempts
    BY <1>1, <2>2, <2>3
  <2> QED BY <2>1, <2>4 DEF Counted
<1>4. CASE PostFails
  <2>1. changes' = changes /\ call' = call
    BY <1>4 DEF PostFails, account
  <2>2. CASE Spoken \/ call.attempt = RetryAttempts
    BY <1>4, <2>1, <2>2 DEF PostFails, Fails, Counted
  <2>3. CASE ~(Spoken \/ call.attempt = RetryAttempts)
    <3>1. call.attempt \in 0..RetryAttempts /\ call.attempt # RetryAttempts
      BY <2>3 DEF Counted
    <3>2. call.attempt < RetryAttempts
      BY <1>1, <3>1
    <3> QED BY <2>1, <3>2 DEF Counted
  <2> QED BY <2>2, <2>3
<1>5. CASE Pick
  <2>1. stage = "call" /\ changes' = changes /\ stage' = "prepare"
        /\ \E a \in BOOLEAN : call' = [call EXCEPT !.acct = a]
    BY <1>5 DEF Pick, account
  <2>2. call'.attempt = call.attempt
    BY <1>1, <2>1
  <2> QED BY <2>1, <2>2 DEF Counted
<1>6. CASE Prepare
  <2>1. stage = "prepare" /\ changes' = changes /\ stage' \in {"post", "done"}
    BY <1>6 DEF Prepare, account, Fails
  <2>2. call' = call \/ \E f, v : call' = [call EXCEPT !.files = f, !.over = v]
    BY <1>6 DEF Prepare
  <2>3. call'.attempt = call.attempt
    BY <1>1, <2>2
  <2> QED BY <2>1, <2>3 DEF Counted
<1>7. ASSUME NEW r \in Queries, Reject(r) \/ Accept(r) PROVE Counted'
  BY <1>7 DEF Reject, Accept, account, Counted
<1>8. CASE NoSlot \/ PrepareFails
  BY <1>8 DEF NoSlot, PrepareFails, Fails, account, Counted
<1>9. CASE ReadText \/ ReadRewritten \/ ReadThought
  <2>1. UNCHANGED <<changes, call, stage>>
    BY <1>9 DEF ReadText, ReadRewritten, ReadThought, Text, account
  <2> QED BY <2>1 DEF Counted
<1>10. CASE Answer \/ Canvas \/ Media
  <2>1. changes' = changes /\ call' = call /\ stage' = "done"
    BY <1>10 DEF Answer, Canvas, Media, Ends, Fails, Succeeds, account
  <2> QED BY <2>1 DEF Counted
<1>11. CASE Done \/ UNCHANGED streamVars
  BY <1>11 DEF Done, streamVars, Counted
<1> QED BY <1>2, <1>3, <1>4, <1>5, <1>6, <1>7, <1>8, <1>9, <1>10, <1>11 DEF StreamNext

LEMMA AnswerStep ==
  ASSUME ClientInv, AnswerInv, [StreamNext]_streamVars
  PROVE  AnswerInv'
<1>1. CASE PoolChanges
  <2>1. /\ Underway /\ stage = "call" /\ stage' = "call"
        /\ UNCHANGED <<req, line, tracker, gate, out>>
    BY <1>1 DEF PoolChanges, Underway
  <2> QED BY <2>1, HeardQuiet
<1>2. ASSUME NEW r \in Queries, Reject(r) PROVE AnswerInv'
  BY <1>2, HeardRejects
<1>3. ASSUME NEW r \in Queries, Accept(r) PROVE AnswerInv'
  BY <1>3, HeardAccepts
<1>4. CASE NoSlot
  <2>1. Underway /\ Fails("limit") /\ UNCHANGED gate
    BY <1>4 DEF NoSlot, Underway
  <2> QED BY <2>1, HeardFails
<1>5. CASE Pick
  <2>1. /\ Underway /\ stage = "call" /\ stage' = "prepare"
        /\ UNCHANGED <<req, line, tracker, gate, out>>
    BY <1>5 DEF Pick, Underway
  <2> QED BY <2>1, HeardQuiet
<1>6. CASE PrepareFails
  <2>1. Underway /\ Fails("upstream") /\ UNCHANGED gate
    BY <1>6 DEF PrepareFails, Underway
  <2> QED BY <2>1, HeardFails
<1>7. CASE Prepare
  <2>1. Underway /\ stage = "prepare" /\ UNCHANGED <<req, line, tracker, gate>>
    BY <1>7 DEF Prepare, Underway
  <2>2. (\E kind : Fails(kind)) \/ (stage' = "post" /\ UNCHANGED out)
    BY <1>7 DEF Prepare
  <2> QED BY <2>1, <2>2, HeardFails, HeardQuiet
<1>8. CASE Post
  BY <1>8, HeardPosts
<1>9. CASE ReadText
  <2>1. PICK n \in line.at + 1 .. Len(line.plan) : Text(SubSeq(line.plan, 1, n), line.steady)
    BY <1>9 DEF ReadText
  <2>2. stage = "reading" /\ line \in Lines
    BY <1>9 DEF ReadText, ClientInv, ClientTyped
  <2>3. line.at \in Nat /\ line.plan \in Texts /\ line.steady \in BOOLEAN /\ Len(line.plan) \in Nat
    BY <2>2 DEF Lines, Texts
  <2> DEFINE t == SubSeq(line.plan, 1, n)
  <2>4. n \in 1..Len(line.plan)
    BY <2>3
  <2>5. t \in Texts /\ Len(t) = n
    BY <2>3, <2>4 DEF Texts
  <2>6. Len(t) > 0
    BY <2>4, <2>5
  <2>7. Text(t, line.steady)
    BY <2>1
  <2> HIDE DEF t
  <2> QED BY <2>2, <2>3, <2>5, <2>6, <2>7, HeardText
<1>10. CASE ReadRewritten
  <2>1. PICK t \in Rewrites : Text(t, FALSE)
    BY <1>10 DEF ReadRewritten
  <2>2. stage = "reading"
    BY <1>10 DEF ReadRewritten
  <2>3. t \in Seq(Letters) \ {<<>>}
    BY TextsAssumption
  <2>4. t \in Texts /\ Len(t) > 0
    BY <2>3 DEF Texts
  <2> QED BY <2>1, <2>2, <2>4, HeardText
<1>11. CASE ReadThought
  BY <1>11, HeardThought
<1>12. CASE PostFails
  BY <1>12, HeardRetries
<1>13. CASE Answer
  BY <1>13, HeardAnswers
<1>14. CASE Canvas
  BY <1>14, HeardCanvas
<1>15. CASE Media
  BY <1>15, HeardMedia
<1>16. CASE Done \/ UNCHANGED streamVars
  <2>1. UNCHANGED streamVars
    BY <1>16 DEF Done
  <2> QED BY <2>1 DEF streamVars, AnswerInv, Underway, Heard, sentText, Chat, StreamIsAnswer, Streamed
<1> QED BY <1>1, <1>2, <1>3, <1>4, <1>5, <1>6, <1>7, <1>8, <1>9, <1>10, <1>11, <1>12, <1>13, <1>14,
           <1>15, <1>16 DEF StreamNext

LEMMA AnswerInit == StreamInit => AnswerInv /\ Counted
<1> SUFFICES ASSUME StreamInit PROVE AnswerInv /\ Counted
  OBVIOUS
<1>1. stage = "idle" /\ gate = NewGate /\ out = Silent /\ changes = 0 /\ call = NoCall
  BY DEF StreamInit
<1>2. gate \in Gates
  BY <1>1, NewPasses
<1>3. Indexed(out)
  BY <1>1, SilentIs DEF Indexed, Silent
<1>4. StreamIsAnswer
  BY <1>1 DEF StreamIsAnswer, Streamed
<1>5. AnswerInv
  BY <1>1, <1>2, <1>3, <1>4 DEF AnswerInv, Underway
<1>6. Counted
  <2>1. call.attempt = 0
    BY <1>1 DEF NoCall
  <2>2. 0 \in 0..MaxChanges /\ 0 \in 0..RetryAttempts /\ 0 < RetryAttempts
    BY BudgetAssumption, ChangesAssumption
  <2> QED BY <1>1, <2>1, <2>2 DEF Counted
<1> QED BY <1>5, <1>6

LEMMA AnswerInvAlways == StreamSpec => [](ClientInv /\ AnswerInv /\ Counted)
<1>1. StreamInit => ClientInv /\ AnswerInv /\ Counted
  BY ClientInit, AnswerInit
<1>2. ClientInv /\ AnswerInv /\ Counted /\ [StreamNext]_streamVars
        => (ClientInv /\ AnswerInv /\ Counted)'
  BY ClientStep, AnswerStep, CountedStep
<1> QED BY <1>1, <1>2, PTL DEF StreamSpec

(* Type correctness of a request: the gate never keeps more than one mark  *)
(* outside a fence and no closing mark inside, the items of a Responses    *)
(* stream keep an index once they are announced, the attempts and account  *)
(* changes stay within their budgets (messages.go, server.go, gemini.go).  *)
THEOREM StreamTyped == StreamSpec => []StreamTypeOK
<1>1. ClientInv /\ AnswerInv /\ Counted => StreamTypeOK
  <2> SUFFICES ASSUME ClientInv, AnswerInv, Counted PROVE StreamTypeOK
    OBVIOUS
  <2>1. /\ pool \in BOOLEAN /\ stage \in Stages /\ req \in Queries \cup {None}
        /\ call \in [acct : BOOLEAN, attempt : Int, files : BOOLEAN, over : BOOLEAN]
        /\ line \in Lines /\ tracker \in [text : Texts, thought : Texts]
    BY DEF ClientInv, ClientTyped
  <2>2. call \in [acct : BOOLEAN, attempt : 0..RetryAttempts, files : BOOLEAN, over : BOOLEAN]
    BY <2>1 DEF Counted
  <2>3. line.at \in Nat /\ line.any \in BOOLEAN /\ line.steady \in BOOLEAN
        /\ DOMAIN tracker = {"text", "thought"}
    BY <2>1 DEF Lines
  <2>4. /\ gate.inFence \in BOOLEAN
        /\ gate.inFence => Fences(gate.buf, 1) = {}
        /\ ~gate.inFence => gate.buf \in {<<>>, <<"f">>}
    BY DEF AnswerInv, Gates
  <2>5. out.msgIndex \in Nat \cup {None} /\ out.nextIdx \in Nat
    BY DEF AnswerInv, Indexed
  <2>6. rows \in {<<>>, <<200>>, <<502>>}
    BY <2>1 DEF ClientInv, OutInv, UnderwayInv, DoneInv, Underway, Stages
  <2>7. changes \in 0..MaxChanges
    BY DEF Counted
  <2> QED BY <2>1, <2>2, <2>3, <2>4, <2>5, <2>6, <2>7 DEF StreamTypeOK, Stages
<1> QED BY <1>1, AnswerInvAlways, PTL

(* However the answer is cut into lines, whatever is held back by the gate *)
(* and however often the call is repeated, a streamed text is the answer   *)
(* the same request gets without streaming (messages.go:toolFenceGate,     *)
(* gemini.go:deltaTracker, server.go), when its reasoning grows as it      *)
(* comes and no tools are offered with pictures.                           *)
THEOREM StreamIsAnswerAlways ==
  ASSUME Chained, PlainTools
  PROVE  StreamSpec => []StreamIsAnswer
<1>1. ClientInv /\ AnswerInv /\ Counted => StreamIsAnswer
  BY DEF AnswerInv
<1> QED BY <1>1, AnswerInvAlways, PTL
=============================================================================
