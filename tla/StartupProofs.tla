---------------------------- MODULE StartupProofs ----------------------------
(* Proofs about Startup for every set of values, parameters, older         *)
(* releases and savers, and without a bound on starts, edits or faults.    *)
EXTENDS Startup, FiniteSetTheorems, TLAPS

Seeding == {"adopt", "mark", "compare", "drop", "create", "value", "id"}
Steps == Seeding \cup {"down", "init", "purge", "up"}
Row == [value : Values \cup {Renewed}, born : Values \cup {Renewed},
        by : {"seed", "adopted", "admin", "slots"}]

(* The shapes of the pools and of the start.                               *)
PoolTyped(k) ==
  /\ nextId[k] \in Nat
  /\ \A i \in DOMAIN table[k] :
       /\ i \in Nat /\ i < nextId[k]
       /\ table[k][i] \in Row
       /\ table[k][i].by = "seed" => table[k][i].born \in Values
Handed(k, id) == id # None => id \in Nat /\ id < nextId[k]
PoolsTyped ==
  /\ DOMAIN table = Kinds /\ DOMAIN nextId = Kinds
  /\ \A k \in Kinds : PoolTyped(k)
RecordsTyped ==
  /\ seedVal \in [Kinds -> Values \cup {None}]
  /\ DOMAIN seedId = Kinds /\ \A k \in Kinds : Handed(k, seedId[k])
StartTyped ==
  /\ flag \in [Kinds -> Values \cup {None, Unreadable}]
  /\ old \in [Kinds -> Values \cup {None}]
  /\ at.step \in Steps
  /\ at.step \in Seeding => at.kind \in Kinds
  /\ at.step \in {"drop", "create", "value"} => flag[at.kind] # Unreadable
  /\ at.step = "create" => flag[at.kind] # None
  /\ at.step \in {"value", "id"} => Handed(at.kind, at.id)
Typed == PoolsTyped /\ RecordsTyped /\ StartTyped

(* The one record of a parameter: while it is being replaced the row that  *)
(* was created for the new value, otherwise the row noted in kv.           *)
Replacing(k) == at.kind = k /\ at.step \in {"value", "id"}
Holder(k) == IF Replacing(k) THEN at.id ELSE seedId[k]
Value(k) == IF at.kind = k /\ at.step = "value" THEN flag[k] ELSE seedVal[k]
IsUnchanged(k, i) == table[k][i].by = "seed" /\ table[k][i].value = table[k][i].born

(* No other row has the value it was seeded with, and that row was seeded  *)
(* with the value of the parameter.                                        *)
RecordOf(k) ==
  /\ \A i \in DOMAIN table[k] : IsUnchanged(k, i) => i = Holder(k)
  /\ Holder(k) \in DOMAIN table[k] =>
       table[k][Holder(k)].by = "seed" /\ table[k][Holder(k)].born = Value(k)
  /\ Value(k) = None => Holder(k) = None
  /\ at.kind = k /\ at.step = "create" => \A i \in DOMAIN table[k] : ~IsUnchanged(k, i)
RecordInv == \A k \in Kinds \ cut : RecordOf(k)

(* The configuration: who saves, and who still has to put something back.  *)
Saves(s) == pc[s] # "idle" /\ back[s] = None
Probes(s) == pc[s] # "idle" /\ back[s] # None
OwesKv(s) ==
  /\ Probes(s)
  /\ \/ pc[s] = "call"
     \/ pc[s] = "rt" /\ next[s] # back[s]
     \/ pc[s] = "kv" /\ next[s] = back[s]
OwesRt(s) == Probes(s) /\ (pc[s] = "call" \/ next[s] = back[s])
ConfigTyped ==
  /\ saved \in Retries \cup {None} /\ running \in Retries /\ wanted \in Retries
  /\ pc \in [Savers -> {"idle", "kv", "rt", "call"}]
  /\ DOMAIN next = Savers /\ DOMAIN back = Savers
  /\ ~Up => Idle
  /\ \A s \in Savers : pc[s] = "idle" => back[s] = None
  /\ \A s \in Savers : pc[s] # "idle" => next[s] \in Retries /\ back[s] \in Retries \cup {None}
  /\ \A s \in Savers : Saves(s) => pc[s] # "call"
(* Undisturbed, a save of the administrator's is alone, and whatever a     *)
(* verification lowered is owed by one that is under way.                  *)
ConfigInv == ~muddled =>
  /\ \A s \in Savers : Saves(s) =>
       /\ next[s] = wanted /\ (pc[s] = "rt" => saved = wanted)
       /\ \A t \in Savers \ {s} : pc[t] = "idle"
  /\ \A s \in Savers : Probes(s) => back[s] = wanted /\ next[s] \in {1, wanted}
  /\ (\A s \in Savers : ~Saves(s)) =>
       /\ saved \in {wanted, None} \/ \E s \in Savers : OwesKv(s)
       /\ saved = None => wanted = Default
       /\ running = wanted \/ (running = 1 /\ \E s \in Savers : OwesRt(s))

-----------------------------------------------------------------------------
(* What a change of one pool is *)

(* A row is added under the next id.                                       *)
LEMMA WithIs ==
  ASSUME PoolsTyped, NEW k \in Kinds, NEW v, NEW b, table' = With(k, v, b)
  PROVE  /\ DOMAIN table' = Kinds
         /\ \A j \in Kinds \ {k} : table'[j] = table[j]
         /\ DOMAIN table'[k] = DOMAIN table[k] \cup {nextId[k]}
         /\ \A i \in DOMAIN table[k] : table'[k][i] = table[k][i]
         /\ table'[k][nextId[k]] = [value |-> v, born |-> v, by |-> b]
         /\ nextId[k] \notin DOMAIN table[k]
<1>1. nextId[k] \notin DOMAIN table[k]
  BY DEF PoolsTyped, PoolTyped
<1> QED BY <1>1 DEF With, PoolsTyped

(* Rows are removed.                                                       *)
LEMMA WithoutIs ==
  ASSUME PoolsTyped, NEW k \in Kinds, NEW ids, table' = Without(k, ids)
  PROVE  /\ DOMAIN table' = Kinds
         /\ \A j \in Kinds \ {k} : table'[j] = table[j]
         /\ DOMAIN table'[k] = DOMAIN table[k] \ ids
         /\ \A i \in DOMAIN table[k] \ ids : table'[k][i] = table[k][i]
  BY DEF Without, PoolsTyped

LEMMA WithTyped ==
  ASSUME PoolsTyped, NEW k \in Kinds, NEW v \in Values \cup {Renewed},
         NEW b \in {"seed", "adopted", "admin", "slots"}, b = "seed" => v \in Values,
         table' = With(k, v, b), nextId' = [nextId EXCEPT ![k] = @ + 1]
  PROVE  /\ PoolsTyped'
         /\ \A j \in Kinds : nextId[j] \in Nat /\ nextId'[j] \in Nat /\ nextId[j] <= nextId'[j]
         /\ nextId[k] < nextId'[k]
<1>0. /\ DOMAIN table' = Kinds
      /\ \A j \in Kinds \ {k} : table'[j] = table[j]
      /\ DOMAIN table'[k] = DOMAIN table[k] \cup {nextId[k]}
      /\ \A i \in DOMAIN table[k] : table'[k][i] = table[k][i]
      /\ table'[k][nextId[k]] = [value |-> v, born |-> v, by |-> b]
  BY WithIs, Zenon
<1>1. /\ DOMAIN nextId' = Kinds
      /\ \A j \in Kinds : nextId'[j] = IF j = k THEN nextId[j] + 1 ELSE nextId[j]
      /\ \A j \in Kinds : nextId[j] \in Nat
  BY DEF PoolsTyped, PoolTyped
<1>2. [value |-> v, born |-> v, by |-> b] \in Row
  BY DEF Row
<1>3. ASSUME NEW j \in Kinds PROVE PoolTyped(j)'
  <2>1. CASE j = k
    <3>1. ASSUME NEW i \in DOMAIN table[k]
          PROVE  /\ i \in Nat /\ i < nextId'[k] /\ table'[k][i] \in Row
                 /\ table'[k][i].by = "seed" => table'[k][i].born \in Values
      BY <1>0, <1>1, <3>1 DEF PoolsTyped, PoolTyped
    <3>2. /\ nextId[k] \in Nat /\ nextId[k] < nextId'[k] /\ table'[k][nextId[k]] \in Row
          /\ table'[k][nextId[k]].by = "seed" => table'[k][nextId[k]].born \in Values
      BY <1>1, <1>2, <1>0
    <3> QED BY <2>1, <1>0, <1>1, <3>1, <3>2 DEF PoolTyped
  <2>2. CASE j # k
    BY <2>2, <1>0, <1>1 DEF PoolsTyped, PoolTyped
  <2> QED BY <2>1, <2>2
<1> QED BY <1>0, <1>1, <1>3 DEF PoolsTyped

LEMMA WithoutTyped ==
  ASSUME PoolsTyped, NEW k \in Kinds, NEW ids, table' = Without(k, ids), nextId' = nextId
  PROVE  PoolsTyped'
<1>1. ASSUME NEW j \in Kinds PROVE PoolTyped(j)'
  <2>1. CASE j = k BY <2>1, WithoutIs DEF PoolsTyped, PoolTyped
  <2>2. CASE j # k BY <2>2, WithoutIs DEF PoolsTyped, PoolTyped
  <2> QED BY <2>1, <2>2
<1> QED BY <1>1, WithoutIs DEF PoolsTyped

(* The records in kv keep their shape while ids only grow.                 *)
LEMMA RecordsStay ==
  ASSUME RecordsTyped, UNCHANGED <<seedVal, seedId>>,
         \A j \in Kinds : nextId[j] \in Nat /\ nextId'[j] \in Nat /\ nextId[j] <= nextId'[j]
  PROVE  RecordsTyped'
<1>1. ASSUME NEW j \in Kinds PROVE Handed(j, seedId[j])'
  BY <1>1 DEF RecordsTyped, Handed
<1> QED BY <1>1 DEF RecordsTyped
LEMMA RecordsSame ==
  ASSUME RecordsTyped, UNCHANGED <<seedVal, seedId, nextId>>
  PROVE  RecordsTyped'
  BY DEF RecordsTyped, Handed
LEMMA PoolsSame ==
  ASSUME PoolsTyped, UNCHANGED <<table, nextId>>
  PROVE  PoolsTyped'
  BY DEF PoolsTyped, PoolTyped

-----------------------------------------------------------------------------
(* The shapes are kept *)

(* Leave goes to a step at which nothing is asked of the start's data.     *)
LEMMA LeaveIs ==
  ASSUME Leave
  PROVE  /\ at'.step \in {"adopt", "purge"}
         /\ at'.step = "adopt" => at'.kind = "cookie"
  BY DEF Leave, Step
LEMMA AfterDropIs ==
  ASSUME NEW k, AfterDrop(k)
  PROVE  /\ at'.kind = k /\ at'.id = None /\ at'.step \in {"value", "create"}
         /\ at'.step = "create" => flag[k] # None
  BY DEF AfterDrop, Step
LEMMA TypedInit == ASSUME Init PROVE Typed
<1>1. DOMAIN table = Kinds /\ \A k \in Kinds : table[k] = [i \in {} |-> None]
  BY DEF Init
<1>2. PoolsTyped
  BY <1>1 DEF Init, PoolsTyped, PoolTyped
<1>3. RecordsTyped
  BY DEF Init, RecordsTyped, Handed
<1>4. StartTyped
  BY StartsAssumption DEF Init, StartTyped, Steps, Seeding
<1> QED BY <1>2, <1>3, <1>4 DEF Typed

(* A step of the start that changes neither pools nor records.             *)
LEMMA QuietTyped ==
  ASSUME Typed, UNCHANGED <<table, nextId, seedVal, seedId>>,
         \/ Start \/ InitRuntimeConfig \/ Compare \/ Ends
         \/ Adopt \/ Mark \/ Drop \/ Create \/ RecordValue \/ RecordId
  PROVE  Typed'
<1>1. PoolsTyped' /\ RecordsTyped'
  BY PoolsSame, RecordsSame DEF Typed
<1> USE DEF Typed, StartTyped, Steps, Seeding, Step
<1>2. CASE Start
  BY <1>1, <1>2, StartsAssumption DEF Start
<1>3. CASE InitRuntimeConfig
  BY <1>1, <1>3 DEF InitRuntimeConfig, Kinds
<1>4. CASE Compare
  <2>1. /\ UNCHANGED <<old, flag>> /\ at.kind \in Kinds
        /\ \/ Leave
           \/ flag[at.kind] # Unreadable /\ at'.step = "drop" /\ at'.kind = at.kind
    BY <1>4 DEF Compare, Does
  <2> QED BY <1>1, <2>1, LeaveIs DEF Kinds
<1>5. CASE Ends
  BY <1>1, <1>5 DEF Ends
<1>6. CASE Adopt
  BY <1>1, <1>6 DEF Adopt, Does, FaultAt
<1>7. CASE Mark
  BY <1>1, <1>7 DEF Mark, Does, FaultAt
<1>8. CASE Drop
  <2>1. /\ UNCHANGED <<old, flag>> /\ at.kind \in Kinds /\ flag[at.kind] # Unreadable
        /\ AfterDrop(at.kind)
    BY <1>8 DEF Drop, Does, FaultAt
  <2> QED BY <1>1, <2>1, AfterDropIs DEF Handed
<1>9. CASE Create
  <2>1. UNCHANGED <<old, flag>> /\ at.kind \in Kinds
    BY <1>9 DEF Create, Does, FaultAt
  <2>2. CASE Leave
    BY <1>1, <2>1, <2>2, LeaveIs DEF Kinds
  <2>3. CASE ~Leave
    BY <1>1, <1>9, <2>1, <2>3 DEF Create, Does, FaultAt, PoolsTyped, PoolTyped
  <2> QED BY <2>2, <2>3
<1>10. CASE RecordValue
  BY <1>1, <1>10 DEF RecordValue, Does, FaultAt, Handed
<1>11. CASE RecordId
  <2>1. UNCHANGED <<old, flag>> /\ Leave
    BY <1>11 DEF RecordId, Does, FaultAt
  <2> QED BY <1>1, <2>1, LeaveIs DEF Kinds
<1> QED BY <1>2, <1>3, <1>4, <1>5, <1>6, <1>7, <1>8, <1>9, <1>10, <1>11

(* A step of the start on the pools or the records.                        *)
LEMMA StartingTyped ==
  ASSUME Typed, Adopt \/ Drop \/ Create \/ RecordValue \/ RecordId \/ Purge
  PROVE  Typed'
<1> DEFINE k == at.kind
<1> USE DEF Typed, StartTyped, Steps, Seeding, Step
<1>1. CASE Adopt
  <2>1. CASE UNCHANGED <<table, nextId>>
    BY <1>1, <2>1, QuietTyped DEF Adopt, pools
  <2>2. CASE ~UNCHANGED <<table, nextId>>
    <3>1. /\ k \in Kinds /\ old[k] \in Values /\ UNCHANGED <<old, flag, seedVal, seedId>>
          /\ table' = With(k, old[k], "adopted") /\ nextId' = [nextId EXCEPT ![k] = @ + 1]
          /\ at'.step = "mark" /\ at'.kind = k
      BY <1>1, <2>2 DEF Adopt, Does, FaultAt, pools
    <3>2. PoolsTyped' /\ RecordsTyped'
      BY <3>1, WithTyped, RecordsStay
    <3> QED BY <3>1, <3>2
  <2> QED BY <2>1, <2>2
<1>2. CASE Drop
  <2>1. CASE table' = table
    BY <1>2, <2>1, QuietTyped DEF Drop
  <2>2. CASE table' # table
    <3> DEFINE mine == {i \in Recorded(k) : table[k][i].value = seedVal[k]}
    <3>1. /\ k \in Kinds /\ flag[k] # Unreadable /\ UNCHANGED <<old, flag, seedVal, seedId, nextId>>
          /\ table' = Without(k, mine) /\ AfterDrop(k)
      BY <1>2, <2>2 DEF Drop, Does, FaultAt
    <3>2. PoolsTyped' /\ RecordsTyped'
      BY <3>1, WithoutTyped, RecordsSame
    <3>3. /\ at'.kind = k /\ at'.id = None /\ at'.step \in {"value", "create"}
          /\ at'.step = "create" => flag[k] # None
      BY <3>1, AfterDropIs, Zenon
    <3>4. Handed(at.kind, at.id)'
      BY <3>3 DEF Handed
    <3>5. StartTyped'
      BY <3>1, <3>3, <3>4
    <3> QED BY <3>2, <3>5
  <2> QED BY <2>1, <2>2
<1>3. CASE Create
  <2>1. CASE UNCHANGED <<table, nextId>>
    BY <1>3, <2>1, QuietTyped DEF Create, pools
  <2>2. CASE ~UNCHANGED <<table, nextId>>
    <3>1. /\ k \in Kinds /\ flag[k] \in Values /\ UNCHANGED <<old, flag, seedVal, seedId>>
          /\ table' = With(k, flag[k], "seed") /\ nextId' = [nextId EXCEPT ![k] = @ + 1]
          /\ at'.step = "value" /\ at'.kind = k /\ at'.id = nextId[k]
      BY <1>3, <2>2 DEF Create, Does, FaultAt, pools
    <3>2. PoolsTyped' /\ RecordsTyped' /\ nextId[k] \in Nat /\ nextId[k] < nextId'[k]
      BY <3>1, WithTyped, RecordsStay
    <3>3. flag'[k] # Unreadable
      BY <3>1, BadAssumption
    <3>4. Handed(at.kind, at.id)'
      BY <3>1, <3>2 DEF Handed
    <3> QED BY <3>1, <3>2, <3>3, <3>4
  <2> QED BY <2>1, <2>2
<1>4. CASE RecordValue
  <2>1. /\ k \in Kinds /\ flag[k] # Unreadable /\ Handed(k, at.id)
        /\ UNCHANGED <<table, nextId, seedId, old, flag>>
        /\ seedVal' = seedVal \/ seedVal' = [seedVal EXCEPT ![k] = flag[k]]
        /\ at'.step = "id" /\ at'.kind = k /\ at'.id = at.id
    BY <1>4 DEF RecordValue, Does, FaultAt
  <2>2. flag[k] \in Values \cup {None}
    BY <2>1
  <2>3. seedVal' \in [Kinds -> Values \cup {None}]
    BY <2>1, <2>2 DEF RecordsTyped
  <2> QED BY <2>1, <2>3, PoolsSame DEF RecordsTyped, Handed
<1>5. CASE RecordId
  <2>1. /\ k \in Kinds /\ Handed(k, at.id)
        /\ UNCHANGED <<table, nextId, seedVal, old, flag>>
        /\ seedId' = seedId \/ seedId' = [seedId EXCEPT ![k] = at.id]
        /\ Leave
    BY <1>5 DEF RecordId, Does, FaultAt
  <2>2. RecordsTyped'
    BY <2>1 DEF RecordsTyped, Handed
  <2> QED BY <2>1, <2>2, PoolsSame, LeaveIs DEF Kinds
<1>6. CASE Purge
  <2>1. /\ table' = Without("cookie", {i \in DOMAIN table["cookie"] : table["cookie"][i].by = "slots"})
        /\ UNCHANGED <<nextId, seedVal, seedId, old, flag>> /\ at'.step = "up"
    BY <1>6 DEF Purge, Does
  <2>2. PoolsTyped' /\ RecordsTyped'
    BY <2>1, WithoutTyped, RecordsSame DEF Kinds
  <2> QED BY <2>1, <2>2
<1> QED BY <1>1, <1>2, <1>3, <1>4, <1>5, <1>6

(* What changes the pools while the service runs.                          *)
Served ==
  \/ PushSlot
  \/ \E kind \in Kinds, value \in Values : AddRow(kind, value)
  \/ \E kind \in Kinds : \E i \in DOMAIN table[kind] :
       DeleteRow(kind, i) \/ \E value \in Values : EditRow(kind, i, value)
  \/ \E i \in DOMAIN table["cookie"] : Renew(i)

LEMMA ServedIs ==
  ASSUME Served
  PROVE  UNCHANGED <<seedVal, seedId, old, at, flag, config, cut>> /\ at.step = "up"
<1>1. \E kind \in Kinds : OnPool(kind)
  BY DEF Served, PushSlot, AddRow, DeleteRow, EditRow, Renew, Kinds
<1> QED BY <1>1 DEF OnPool, Up

(* One row is changed: an edit or a renewed cookie.                        *)
OneRow(k, i, v) ==
  /\ k \in Kinds /\ i \in DOMAIN table[k] /\ v \in Values \cup {Renewed}
  /\ DOMAIN table' = Kinds
  /\ \A j \in Kinds \ {k} : table'[j] = table[j]
  /\ DOMAIN table'[k] = DOMAIN table[k]
  /\ \A j \in DOMAIN table[k] \ {i} : table'[k][j] = table[k][j]
  /\ table'[k][i].value = v /\ table'[k][i].born = table[k][i].born
  /\ table'[k][i] \in Row
  /\ table'[k][i].by = table[k][i].by \/ (i # seedId[k] /\ table'[k][i].by = "admin")
LEMMA RowChanges ==
  ASSUME PoolsTyped, NEW k \in Kinds, NEW i \in DOMAIN table[k],
         NEW v \in Values \cup {Renewed},
         \/ table' = [table EXCEPT ![k][i].value = v]
         \/ table' = [table EXCEPT ![k][i].value = v,
                                   ![k][i].by = IF i = seedId[k] THEN @ ELSE "admin"]
  PROVE  OneRow(k, i, v)
<1> DEFINE r == table[k][i]
<1>1. r \in Row /\ DOMAIN table = Kinds
  BY DEF PoolsTyped, PoolTyped
<1>2. /\ DOMAIN table' = Kinds
      /\ \A j \in Kinds \ {k} : table'[j] = table[j]
      /\ DOMAIN table'[k] = DOMAIN table[k]
      /\ \A j \in DOMAIN table[k] \ {i} : table'[k][j] = table[k][j]
  BY <1>1
<1>3. CASE table' = [table EXCEPT ![k][i].value = v]
  <2>1. table'[k][i] = [r EXCEPT !.value = v]
    BY <1>1, <1>3
  <2>2. r = [value |-> r.value, born |-> r.born, by |-> r.by]
    BY <1>1 DEF Row
  <2>3. table'[k][i] = [value |-> v, born |-> r.born, by |-> r.by]
    BY <2>1, <2>2
  <2> QED BY <1>1, <1>2, <2>3 DEF OneRow, Row
<1>4. CASE table' = [table EXCEPT ![k][i].value = v,
                                  ![k][i].by = IF i = seedId[k] THEN @ ELSE "admin"]
  <2> DEFINE b == IF i = seedId[k] THEN r.by ELSE "admin"
  <2>1. table'[k][i] = [[r EXCEPT !.value = v] EXCEPT !.by = b]
    BY <1>1, <1>4 DEF Row
  <2>2. r = [value |-> r.value, born |-> r.born, by |-> r.by]
    BY <1>1 DEF Row
  <2>3. table'[k][i] = [value |-> v, born |-> r.born, by |-> b]
    BY <2>1, <2>2
  <2>4. table'[k][i] \in Row /\ table'[k][i].by = b
    BY <1>1, <2>3 DEF Row
  <2> QED BY <1>1, <1>2, <2>3, <2>4 DEF OneRow
<1> QED BY <1>3, <1>4
LEMMA OneRowTyped ==
  ASSUME PoolsTyped, NEW k, NEW i, NEW v, OneRow(k, i, v), nextId' = nextId
  PROVE  PoolsTyped'
<1>1. ASSUME NEW j \in Kinds PROVE PoolTyped(j)'
  <2>1. CASE j = k BY <2>1 DEF OneRow, PoolsTyped, PoolTyped, Row
  <2>2. CASE j # k BY <2>2 DEF OneRow, PoolsTyped, PoolTyped
  <2> QED BY <2>1, <2>2
<1> QED BY <1>1 DEF OneRow, PoolsTyped

LEMMA ServedTyped ==
  ASSUME Typed, Served
  PROVE  Typed'
<1> USE DEF Typed, StartTyped
<1>1. UNCHANGED <<seedVal, seedId, old, at, flag>> /\ at.step = "up"
  BY ServedIs
<1>2. StartTyped'
  BY <1>1 DEF Seeding
<1>3. CASE PushSlot
  BY <1>1, <1>2, <1>3, WithTyped, RecordsStay DEF PushSlot, Kinds
<1>4. ASSUME NEW k \in Kinds, NEW v \in Values, AddRow(k, v) PROVE Typed'
  BY <1>1, <1>2, <1>4, WithTyped, RecordsStay DEF AddRow
<1>5. ASSUME NEW k \in Kinds, NEW i \in DOMAIN table[k], DeleteRow(k, i) PROVE Typed'
  BY <1>1, <1>2, <1>5, WithoutTyped, RecordsSame DEF DeleteRow
<1>6. ASSUME NEW k \in Kinds, NEW i \in DOMAIN table[k], NEW v \in Values, EditRow(k, i, v)
      PROVE Typed'
  <2>1. OneRow(k, i, v)
    BY <1>6, RowChanges DEF EditRow
  <2> QED BY <1>1, <1>2, <1>6, <2>1, OneRowTyped, RecordsSame DEF EditRow
<1>7. ASSUME NEW i \in DOMAIN table["cookie"], Renew(i) PROVE Typed'
  <2>1. OneRow("cookie", i, Renewed)
    BY <1>7, RowChanges DEF Renew, Kinds
  <2> QED BY <1>1, <1>2, <1>7, <2>1, OneRowTyped, RecordsSame DEF Renew
<1> QED BY <1>3, <1>4, <1>5, <1>6, <1>7 DEF Served

(* What saves the configuration.                                           *)
Configured ==
  \E s \in Savers : \/ ProbeStarts(s) \/ SaveKv(s) \/ SaveRt(s) \/ Restore(s)
                    \/ \E value \in Retries : AdminSaves(s, value)
LEMMA ConfiguredIs ==
  ASSUME Configured
  PROVE  UNCHANGED <<pools, at, flag, ever, cut>> /\ at.step = "up"
         /\ (old' = old \/ old' = [old EXCEPT !["proxy"] = None])
  BY DEF Configured, ProbeStarts, SaveKv, SaveRt, Restore, AdminSaves, OnConfig, Up
(* Every step is the start's, a change of a pool or one of the              *)
(* configuration.                                                          *)
OfStart == Adopt \/ Mark \/ Compare \/ Drop \/ Create \/ RecordValue \/ RecordId
LEMMA NextIs ==
  ASSUME Next
  PROVE  Served \/ Configured \/ OfStart \/ Start \/ InitRuntimeConfig \/ Purge \/ Ends
  BY DEF Next, Served, Configured, OfStart
LEMMA OfStartIs ==
  ASSUME OfStart
  PROVE  /\ UNCHANGED config /\ cut' \in {cut, cut \cup {at.kind}}
         /\ at.step \in {"adopt", "mark", "compare", "drop", "create", "value", "id"}
<1>1. CASE Adopt \/ Mark \/ Compare BY <1>1 DEF Adopt, Mark, Compare, Does, FaultAt, Fault
<1>2. CASE Drop \/ Create BY <1>2 DEF Drop, Create, Does, FaultAt, Fault
<1>3. CASE RecordValue \/ RecordId BY <1>3 DEF RecordValue, RecordId, Does, FaultAt, Fault
<1> QED BY <1>1, <1>2, <1>3 DEF OfStart
LEMMA TypedNext ==
  ASSUME Typed, [Next]_vars
  PROVE  Typed'
<1>1. CASE Configured
  <2>1. /\ UNCHANGED <<table, nextId, seedVal, seedId, at, flag>> /\ at.step = "up"
        /\ (old' = old \/ old' = [old EXCEPT !["proxy"] = None])
    BY <1>1, ConfiguredIs DEF pools
  <2> QED BY <2>1, PoolsSame, RecordsSame DEF Typed, StartTyped, Seeding
<1>2. CASE UNCHANGED vars
  <2>1. UNCHANGED <<table, nextId, seedVal, seedId, at, flag, old>>
    BY <1>2 DEF vars, pools
  <2> QED BY <2>1, PoolsSame, RecordsSame DEF Typed, StartTyped, Handed
<1>3. CASE Start \/ InitRuntimeConfig \/ Compare \/ Mark \/ Ends
  BY <1>3, QuietTyped DEF Start, InitRuntimeConfig, Compare, Mark, Ends, pools
<1> QED BY <1>1, <1>2, <1>3, NextIs, StartingTyped, ServedTyped DEF OfStart

(* The pools, the records in kv and the start's position keep their        *)
(* shapes, and a record in kv is of an id the table has handed out.        *)
THEOREM ShapesKept == Spec => []Typed
<1>1. Init => Typed BY TypedInit
<1>2. Typed /\ [Next]_vars => Typed' BY TypedNext
<1> QED BY <1>1, <1>2, PTL DEF Spec

-----------------------------------------------------------------------------
(* One record of a parameter *)

LEMMA RecordInit == ASSUME Init PROVE RecordInv
<1>1. \A k \in Kinds : table[k] = [i \in {} |-> None] /\ seedId[k] = None
  BY DEF Init
<1>2. at.step = "down"
  BY DEF Init
<1> QED BY <1>1, <1>2 DEF RecordInv, RecordOf, Holder, Value, Replacing

(* Nothing of what is said of the record of k changes.                     *)
LEMMA Framed ==
  ASSUME NEW k \in Kinds, RecordOf(k), table'[k] = table[k],
         seedVal'[k] = seedVal[k], seedId'[k] = seedId[k],
         ~Replacing(k), ~Replacing(k)', ~(at'.kind = k /\ at'.step = "create")
  PROVE  RecordOf(k)'
<1>1. Holder(k) = seedId[k] /\ Value(k) = seedVal[k]
  BY DEF Holder, Value, Replacing
<1>2. Holder(k)' = seedId[k] /\ Value(k)' = seedVal[k]
  BY DEF Holder, Value, Replacing
<1>3. \A i \in DOMAIN table[k] : IsUnchanged(k, i)' = IsUnchanged(k, i)
  BY DEF IsUnchanged
<1> QED BY <1>1, <1>2, <1>3 DEF RecordOf

(* The start works on the pool of the other kind, or only looks.           *)
Elsewhere(k) ==
  /\ table'[k] = table[k] /\ seedVal'[k] = seedVal[k] /\ seedId'[k] = seedId[k]
  /\ ~Replacing(k) /\ ~Replacing(k)' /\ ~(at'.kind = k /\ at'.step = "create")
LEMMA OtherPool ==
  ASSUME Typed, NEW k \in Kinds, at.kind # k,
         Adopt \/ Mark \/ Compare \/ Drop \/ Create \/ RecordValue \/ RecordId
  PROVE  Elsewhere(k)
<1>1. at.step \in Seeding /\ at.kind \in Kinds
  BY DEF Typed, StartTyped, Seeding, Adopt, Mark, Compare, Drop, Create, RecordValue, RecordId,
         Does, FaultAt
<1>2. seedVal'[k] = seedVal[k] /\ seedId'[k] = seedId[k]
  BY <1>1 DEF Typed, RecordsTyped, Adopt, Mark, Compare, Drop, Create, RecordValue, RecordId, pools
<1>3. at'.kind = at.kind \/ at'.step \in {"adopt", "purge"}
  BY LeaveIs DEF Adopt, Mark, Compare, Drop, Create, RecordValue, RecordId, AfterDrop, Step
<1>4. CASE UNCHANGED table
  BY <1>2, <1>3, <1>4 DEF Elsewhere, Replacing
<1>5. CASE ~UNCHANGED table
  <2>1. \/ \E v, b : table' = With(at.kind, v, b)
        \/ \E ids : table' = Without(at.kind, ids)
    BY <1>5 DEF Adopt, Mark, Compare, Drop, Create, RecordValue, RecordId, pools
  <2>2. table'[k] = table[k]
    <3>1. ASSUME NEW v, NEW b, table' = With(at.kind, v, b) PROVE table'[k] = table[k]
      BY <3>1, <1>1, WithIs, ZenonT(60) DEF Typed
    <3>2. ASSUME NEW ids, table' = Without(at.kind, ids) PROVE table'[k] = table[k]
      BY <3>2, <1>1, WithoutIs, ZenonT(60) DEF Typed
    <3> QED BY <2>1, <3>1, <3>2
  <2> QED BY <1>2, <1>3, <2>2 DEF Elsewhere, Replacing
<1> QED BY <1>4, <1>5

(* A row that is not one of the parameter's is added.                      *)
LEMMA AnotherRow ==
  ASSUME Typed, NEW k \in Kinds, RecordOf(k), NEW v, NEW b, b # "seed",
         table' = With(k, v, b), UNCHANGED <<seedVal, seedId>>,
         ~Replacing(k), ~Replacing(k)', ~(at'.kind = k /\ at'.step = "create")
  PROVE  RecordOf(k)'
<1>1. /\ DOMAIN table'[k] = DOMAIN table[k] \cup {nextId[k]}
      /\ \A i \in DOMAIN table[k] : table'[k][i] = table[k][i]
      /\ table'[k][nextId[k]] = [value |-> v, born |-> v, by |-> b]
      /\ nextId[k] \notin DOMAIN table[k]
  BY WithIs, ZenonT(60) DEF Typed
<1>2. Holder(k) = seedId[k] /\ Value(k) = seedVal[k] /\ Holder(k)' = seedId[k] /\ Value(k)' = seedVal[k]
  BY DEF Holder, Value, Replacing
<1>3. seedId[k] # nextId[k] \/ seedId[k] = None
  BY DEF Typed, RecordsTyped, PoolsTyped, PoolTyped, Handed
<1>4. nextId[k] # None
  BY NoneAssumption DEF Typed, PoolsTyped, PoolTyped
<1>5. \A i \in DOMAIN table[k] : IsUnchanged(k, i)' = IsUnchanged(k, i)
  BY <1>1 DEF IsUnchanged
<1>6. \A i \in {nextId[k]} : ~IsUnchanged(k, i)'
  BY <1>1 DEF IsUnchanged
<1> QED BY <1>1, <1>2, <1>3, <1>4, <1>5, <1>6 DEF RecordOf

(* Rows are removed from the pool, and the record may be one of them.      *)
LEMMA FewerRows ==
  ASSUME Typed, NEW k \in Kinds, RecordOf(k), NEW ids,
         table' = Without(k, ids), UNCHANGED <<seedVal, seedId>>,
         ~Replacing(k), ~Replacing(k)', ~(at'.kind = k /\ at'.step = "create")
  PROVE  RecordOf(k)'
<1>1. /\ DOMAIN table'[k] = DOMAIN table[k] \ ids
      /\ \A i \in DOMAIN table[k] \ ids : table'[k][i] = table[k][i]
  BY WithoutIs, ZenonT(60) DEF Typed
<1>2. Holder(k) = seedId[k] /\ Value(k) = seedVal[k] /\ Holder(k)' = seedId[k] /\ Value(k)' = seedVal[k]
  BY DEF Holder, Value, Replacing
<1>3. \A i \in DOMAIN table[k] \ ids : IsUnchanged(k, i)' = IsUnchanged(k, i)
  BY <1>1 DEF IsUnchanged
<1> QED BY <1>1, <1>2, <1>3 DEF RecordOf

(* A row of the pool gets another value: the record may lose the one it    *)
(* was seeded with, or have it again.                                      *)
LEMMA EditedRow ==
  ASSUME Typed, NEW k \in Kinds, RecordOf(k), NEW i, NEW v, OneRow(k, i, v),
         v = Renewed \/ i = seedId[k] \/ table'[k][i].by = "admin",
         UNCHANGED <<seedVal, seedId>>,
         ~Replacing(k), ~Replacing(k)', ~(at'.kind = k /\ at'.step = "create")
  PROVE  RecordOf(k)'
<1>1. Holder(k) = seedId[k] /\ Value(k) = seedVal[k] /\ Holder(k)' = seedId[k] /\ Value(k)' = seedVal[k]
  BY DEF Holder, Value, Replacing
<1>2. \A j \in DOMAIN table[k] \ {i} : IsUnchanged(k, j)' = IsUnchanged(k, j)
  BY DEF OneRow, IsUnchanged
<1>3. IsUnchanged(k, i)' => i = seedId[k]
  <2>1. CASE v = Renewed
    <3>1. table'[k][i].by = "seed" => table'[k][i].born \in Values
      BY DEF OneRow, Typed, PoolsTyped, PoolTyped
    <3> QED BY <2>1, <3>1, BadAssumption DEF IsUnchanged, OneRow
  <2>2. CASE table'[k][i].by = "admin"
    BY <2>2 DEF IsUnchanged
  <2> QED BY <2>1, <2>2
<1>4. DOMAIN table'[k] = DOMAIN table[k]
  BY DEF OneRow
<1>5. seedId[k] \in DOMAIN table[k] =>
        table'[k][seedId[k]].by = "seed" /\ table'[k][seedId[k]].born = seedVal[k]
  BY <1>1 DEF RecordOf, OneRow
<1> QED BY <1>1, <1>2, <1>3, <1>4, <1>5 DEF RecordOf

(* While the service runs.                                                 *)
LEMMA ServedRecord ==
  ASSUME Typed, NEW k \in Kinds, RecordOf(k), Served
  PROVE  RecordOf(k)'
<1>1. UNCHANGED <<seedVal, seedId, at>> /\ at.step = "up"
  BY ServedIs
<1>2. ~Replacing(k) /\ ~Replacing(k)' /\ ~(at'.kind = k /\ at'.step = "create")
  BY <1>1 DEF Replacing
<1>3. CASE table'[k] = table[k]
  BY <1>1, <1>2, <1>3, Framed
<1>4. CASE PushSlot
  <2>1. table' = With("cookie", Renewed, "slots")
    BY <1>4 DEF PushSlot
  <2>2. CASE k = "cookie"
    BY <1>1, <1>2, <2>1, <2>2, AnotherRow
  <2>3. CASE k # "cookie"
    <3>1. table'[k] = table[k]
      BY <2>1, <2>3, WithIs, ZenonT(60) DEF Kinds, Typed
    <3> QED BY <1>3, <3>1
  <2> QED BY <2>2, <2>3
<1>5. ASSUME NEW kind \in Kinds, NEW v \in Values, AddRow(kind, v) PROVE RecordOf(k)'
  <2>1. table' = With(kind, v, "admin")
    BY <1>5 DEF AddRow
  <2>2. CASE k = kind
    BY <1>1, <1>2, <2>1, <2>2, AnotherRow
  <2>3. CASE k # kind
    <3>1. table'[k] = table[k]
      BY <2>1, <2>3, WithIs, ZenonT(60) DEF Typed
    <3> QED BY <1>3, <3>1
  <2> QED BY <2>2, <2>3
<1>6. ASSUME NEW kind \in Kinds, NEW i \in DOMAIN table[kind], DeleteRow(kind, i)
      PROVE RecordOf(k)'
  <2>1. table' = Without(kind, {i})
    BY <1>6 DEF DeleteRow
  <2>2. CASE k = kind
    BY <1>1, <1>2, <2>1, <2>2, FewerRows
  <2>3. CASE k # kind
    <3>1. table'[k] = table[k]
      BY <2>1, <2>3, WithoutIs, ZenonT(60) DEF Typed
    <3> QED BY <1>3, <3>1
  <2> QED BY <2>2, <2>3
<1>7. ASSUME NEW kind \in Kinds, NEW i \in DOMAIN table[kind], NEW v \in Values,
             EditRow(kind, i, v)
      PROVE RecordOf(k)'
  <2>1. OneRow(kind, i, v)
    BY <1>7, RowChanges DEF EditRow, Typed
  <2>2. CASE k = kind
    <3>1. i = seedId[k] \/ table'[k][i].by = "admin"
      <4>1. table[k][i] \in Row /\ DOMAIN table = Kinds
        BY <2>2 DEF Typed, PoolsTyped, PoolTyped
      <4> QED BY <1>7, <2>2, <4>1 DEF EditRow, Row
    <3> QED BY <1>1, <1>2, <2>1, <2>2, <3>1, EditedRow
  <2>3. CASE k # kind
    BY <1>3, <2>1, <2>3 DEF OneRow
  <2> QED BY <2>2, <2>3
<1>8. ASSUME NEW i \in DOMAIN table["cookie"], Renew(i) PROVE RecordOf(k)'
  <2>1. OneRow("cookie", i, Renewed)
    BY <1>8, RowChanges DEF Renew, Kinds, Typed
  <2>2. CASE k = "cookie"
    BY <1>1, <1>2, <2>1, <2>2, EditedRow
  <2>3. CASE k # "cookie"
    BY <1>3, <2>1, <2>3 DEF OneRow
  <2> QED BY <2>2, <2>3
<1> QED BY <1>4, <1>5, <1>6, <1>7, <1>8 DEF Served

(* The start withdraws the record of the parameter in hand, undisturbed.   *)
LEMMA DropRecord ==
  ASSUME Typed, NEW k \in Kinds \ cut', RecordOf(k), at.kind = k, Drop
  PROVE  RecordOf(k)'
<1> DEFINE mine == {i \in Recorded(k) : table[k][i].value = seedVal[k]}
<1>1. /\ at.step = "drop" /\ table' = Without(k, mine) /\ AfterDrop(k)
      /\ UNCHANGED <<seedVal, seedId, flag>>
  BY DEF Drop, Does, FaultAt, Fault
<1>2. /\ DOMAIN table'[k] = DOMAIN table[k] \ mine
      /\ \A i \in DOMAIN table[k] \ mine : table'[k][i] = table[k][i]
  BY <1>1, WithoutIs, ZenonT(60) DEF Typed
<1>3. Holder(k) = seedId[k] /\ Value(k) = seedVal[k]
  BY <1>1 DEF Holder, Value, Replacing
<1>4. \A i \in DOMAIN table[k] : IsUnchanged(k, i) => i \in mine
  <2>1. ASSUME NEW i \in DOMAIN table[k], IsUnchanged(k, i) PROVE i \in mine
    <3>1. i = seedId[k] /\ table[k][i].born = seedVal[k] /\ table[k][i].by = "seed"
      BY <1>3, <2>1 DEF RecordOf
    <3>2. table[k][i].born \in Values
      BY <3>1 DEF Typed, PoolsTyped, PoolTyped
    <3>3. seedVal[k] # None
      BY <3>1, <3>2, BadAssumption
    <3> QED BY <2>1, <3>1, <3>3 DEF IsUnchanged, Recorded
  <2> QED BY <2>1
<1>5. \A i \in DOMAIN table'[k] : ~IsUnchanged(k, i)'
  BY <1>2, <1>4 DEF IsUnchanged
<1>6. CASE at'.step = "value"
  <2>1. Holder(k)' = None /\ at'.kind = k
    <3>1. at' = [step |-> "value", kind |-> k, id |-> None]
      BY <1>1, <1>6 DEF AfterDrop, Step
    <3> QED BY <3>1 DEF Holder, Replacing
  <2>2. None \notin DOMAIN table'[k]
    BY <1>2, NoneAssumption DEF Typed, PoolsTyped, PoolTyped
  <2> QED BY <1>5, <1>6, <2>1, <2>2 DEF RecordOf
<1>7. CASE at'.step = "create"
  <2>1. Holder(k)' = seedId[k] /\ Value(k)' = seedVal[k] /\ at'.kind = k
    BY <1>1, <1>7 DEF AfterDrop, Step, Holder, Value, Replacing
  <2> QED BY <1>2, <1>3, <1>5, <2>1 DEF RecordOf
<1> QED BY <1>1, <1>6, <1>7 DEF AfterDrop, Step

(* The row for the new value of the parameter.                             *)
LEMMA CreateRecord ==
  ASSUME Typed, NEW k \in Kinds \ cut', RecordOf(k), at.kind = k, Create
  PROVE  RecordOf(k)'
<1>1. at.step = "create" /\ UNCHANGED <<seedVal, seedId, flag>>
  BY DEF Create, Does, FaultAt, pools
<1>2. \A i \in DOMAIN table[k] : ~IsUnchanged(k, i)
  BY <1>1 DEF RecordOf
<1>3. CASE table' = With(k, flag[k], "seed")
           /\ at'.step = "value" /\ at'.kind = k /\ at'.id = nextId[k] /\ flag[k] \in Values
  <2>1. /\ DOMAIN table'[k] = DOMAIN table[k] \cup {nextId[k]}
        /\ \A i \in DOMAIN table[k] : table'[k][i] = table[k][i]
        /\ table'[k][nextId[k]] = [value |-> flag[k], born |-> flag[k], by |-> "seed"]
    BY <1>3, WithIs, ZenonT(60) DEF Typed
  <2>2. Holder(k)' = nextId[k] /\ Value(k)' = flag[k]
    BY <1>1, <1>3 DEF Holder, Value, Replacing
  <2>3. \A i \in DOMAIN table[k] : ~IsUnchanged(k, i)'
    BY <1>2, <2>1 DEF IsUnchanged
  <2>4. flag[k] # None
    BY <1>3, BadAssumption
  <2> QED BY <1>3, <2>1, <2>2, <2>3, <2>4 DEF RecordOf
<1>4. CASE UNCHANGED table /\ Leave
  <2>1. Holder(k) = seedId[k] /\ Value(k) = seedVal[k]
    BY <1>1 DEF Holder, Value, Replacing
  <2>2. Holder(k)' = seedId[k] /\ Value(k)' = seedVal[k] /\ at'.step # "create"
    BY <1>1, <1>4, LeaveIs DEF Holder, Value, Replacing
  <2>3. \A i \in DOMAIN table[k] : ~IsUnchanged(k, i)'
    BY <1>2, <1>4 DEF IsUnchanged
  <2> QED BY <1>4, <2>1, <2>2, <2>3 DEF RecordOf
<1>5. flag[k] \notin Bad => flag[k] \in Values
  BY <1>1 DEF Typed, StartTyped, Seeding
<1> QED BY <1>3, <1>4, <1>5 DEF Create, Does, FaultAt, Fault, Step, pools

(* Its value and its id are noted in kv.                                   *)
LEMMA NoteRecord ==
  ASSUME Typed, NEW k \in Kinds \ cut', RecordOf(k), at.kind = k, RecordValue \/ RecordId
  PROVE  RecordOf(k)'
<1>1. table' = table /\ flag' = flag
  BY DEF RecordValue, RecordId, Does, FaultAt
<1>2. \A i \in DOMAIN table[k] : IsUnchanged(k, i)' = IsUnchanged(k, i)
  BY <1>1 DEF IsUnchanged
<1>3. CASE RecordValue
  <2>1. /\ at.step = "value" /\ at'.step = "id" /\ at'.kind = k /\ at'.id = at.id
        /\ seedVal'[k] = flag[k]
    BY <1>3 DEF RecordValue, Does, FaultAt, Fault, Step, Typed, RecordsTyped
  <2>2. Holder(k)' = Holder(k) /\ Value(k)' = Value(k)
    BY <2>1 DEF Holder, Value, Replacing
  <2> QED BY <1>1, <1>2, <2>1, <2>2 DEF RecordOf
<1>4. CASE RecordId
  <2>1. /\ at.step = "id" /\ at'.step \in {"adopt", "purge"} /\ seedId'[k] = at.id
        /\ seedVal' = seedVal
    BY <1>4, LeaveIs DEF RecordId, Does, FaultAt, Fault, Typed, RecordsTyped
  <2>2. Holder(k)' = Holder(k) /\ Value(k)' = Value(k)
    BY <2>1 DEF Holder, Value, Replacing
  <2> QED BY <1>1, <1>2, <2>1, <2>2 DEF RecordOf
<1> QED BY <1>3, <1>4

LEMMA RecordNext ==
  ASSUME Typed, RecordInv, [Next]_vars
  PROVE  RecordInv'
<1> SUFFICES ASSUME NEW k \in Kinds \ cut' PROVE RecordOf(k)'
  BY DEF RecordInv
<1>1. k \notin cut
  <2>1. Start \/ InitRuntimeConfig \/ Purge \/ Ends => cut \subseteq cut'
    BY DEF Start, InitRuntimeConfig, Purge, Ends
  <2> QED BY <2>1, NextIs, ServedIs, ConfiguredIs, OfStartIs DEF vars
<1>2. RecordOf(k)
  BY <1>1 DEF RecordInv
<1>3. CASE Served
  BY <1>2, <1>3, ServedRecord
<1>4. CASE Configured
  <2>1. UNCHANGED <<table, seedVal, seedId, at>> /\ at.step = "up"
    BY <1>4, ConfiguredIs DEF pools
  <2> QED BY <1>2, <2>1, Framed DEF Replacing
<1>5. CASE UNCHANGED vars
  <2>1. UNCHANGED <<table, seedVal, seedId, at, flag>>
    BY <1>5 DEF vars, pools
  <2> QED BY <1>2, <2>1 DEF RecordOf, Holder, Value, Replacing, IsUnchanged
<1>6. CASE Start \/ InitRuntimeConfig
  <2>1. UNCHANGED <<table, seedVal, seedId>> /\ {at.step, at'.step} \subseteq {"down", "init", "adopt"}
    BY <1>6 DEF Start, InitRuntimeConfig, Step, pools
  <2> QED BY <1>2, <2>1, Framed DEF Replacing
<1>7. CASE Purge
  <2>1. /\ table' = Without("cookie", {i \in DOMAIN table["cookie"] : table["cookie"][i].by = "slots"})
        /\ UNCHANGED <<seedVal, seedId>> /\ at.step = "purge" /\ at'.step = "up"
    BY <1>7 DEF Purge, Does, Step
  <2>2. ~Replacing(k) /\ ~Replacing(k)' /\ at'.step # "create"
    BY <2>1 DEF Replacing
  <2>3. CASE k = "cookie"
    BY <1>2, <2>1, <2>2, <2>3, FewerRows
  <2>4. CASE k # "cookie"
    <3>1. table'[k] = table[k]
      BY <2>1, <2>4, WithoutIs, ZenonT(60) DEF Kinds, Typed
    <3> QED BY <1>2, <2>1, <2>2, <3>1, Framed
  <2> QED BY <2>3, <2>4
<1>8. CASE Ends
  <2>1. UNCHANGED <<table, seedVal, seedId>> /\ at'.step = "down"
        /\ ~Replacing(k)
    <3>1. Replacing(k) => at.kind # None /\ ~Up
      BY NoneAssumption DEF Replacing, Kinds, Up
    <3> QED BY <1>8, <3>1 DEF Ends, Step, pools, Replacing
  <2> QED BY <1>2, <2>1, Framed DEF Replacing
<1>9. CASE Adopt \/ Mark \/ Compare \/ Drop \/ Create \/ RecordValue \/ RecordId
  <2>1. CASE at.kind # k
    BY <1>2, <1>9, <2>1, OtherPool, Framed DEF Elsewhere
  <2>2. CASE at.kind = k /\ (Mark \/ Compare)
    <3>1. UNCHANGED <<table, seedVal, seedId>> /\ at.step \in {"mark", "compare"}
          /\ at'.step \in {"compare", "drop", "adopt", "purge"}
      BY <2>2, LeaveIs DEF Mark, Compare, Does, FaultAt, Step, pools
    <3> QED BY <1>2, <3>1, Framed DEF Replacing
  <2>3. CASE at.kind = k /\ Adopt
    <3>1. UNCHANGED <<seedVal, seedId>> /\ at.step = "adopt" /\ at'.step \in {"compare", "mark"}
      BY <2>3 DEF Adopt, Does, FaultAt, Step, pools
    <3>2. ~Replacing(k) /\ ~Replacing(k)' /\ at'.step # "create"
      BY <3>1 DEF Replacing
    <3>3. CASE table' = table
      BY <1>2, <3>1, <3>2, <3>3, Framed
    <3>4. CASE table' = With(k, old[k], "adopted")
      BY <1>2, <3>1, <3>2, <3>4, AnotherRow
    <3> QED BY <2>3, <3>3, <3>4 DEF Adopt, pools
  <2> QED BY <1>2, <1>9, <2>1, <2>2, <2>3, DropRecord, CreateRecord, NoteRecord
<1> QED BY <1>3, <1>4, <1>5, <1>6, <1>7, <1>8, <1>9, NextIs DEF OfStart

LEMMA InvSpec == Spec => [](Typed /\ RecordInv)
<1>1. Init => Typed /\ RecordInv
  BY TypedInit, RecordInit
<1>2. Typed /\ RecordInv /\ [Next]_vars => Typed' /\ RecordInv'
  BY TypedNext, RecordNext
<1> QED BY <1>1, <1>2, PTL DEF Spec

(* A parameter has at most one record in its pool, whatever it was before  *)
(* and however often it changed, unless a fault or a restart fell inside   *)
(* a seeding of that pool (syncSeededProxy, syncSeededCookieFile).         *)
THEOREM OneRecordAlways == Spec => []OneRecord
<1>1. Typed /\ RecordInv => OneRecord
  <2> SUFFICES ASSUME Typed, RecordInv, Up, NEW k \in Kinds \ cut
               PROVE Cardinality(Unchanged(k)) <= 1
    BY DEF OneRecord
  <2>1. \A i \in Unchanged(k) : i = Holder(k)
    BY DEF RecordInv, RecordOf, Unchanged, Seeded, IsUnchanged
  <2>2. CASE Unchanged(k) = {}
    BY <2>2, FS_EmptySet
  <2>3. CASE Unchanged(k) # {}
    <3>1. Unchanged(k) = {Holder(k)}
      BY <2>1, <2>3
    <3> QED BY <3>1, FS_Singleton
  <2> QED BY <2>2, <2>3
<1> QED BY <1>1, InvSpec, PTL

(* A start never deletes or changes a row that the administrator made,     *)
(* adopted or changed, nor one the program has renewed (dropSeededProxy,   *)
(* dropSeededCookie).                                                      *)
THEOREM OthersKeptAlways == Spec => OthersKept
<1> DEFINE Kept == at.step \notin {"up", "down", "purge"} =>
                     \A kind \in Kinds \ cut : \A i \in DOMAIN table[kind] \ Unchanged(kind) :
                       i \in DOMAIN table'[kind] /\ table'[kind][i] = table[kind][i]
<1>1. Typed /\ RecordInv /\ [Next]_vars => [Kept]_vars
  <2> SUFFICES ASSUME Typed, RecordInv, Next, at.step \notin {"up", "down", "purge"},
                      NEW k \in Kinds \ cut, NEW i \in DOMAIN table[k], i \notin Unchanged(k)
               PROVE i \in DOMAIN table'[k] /\ table'[k][i] = table[k][i]
    OBVIOUS
  <2>1. CASE table' = table
    BY <2>1
  <2>2. CASE at.kind # k /\ (Adopt \/ Mark \/ Compare \/ Drop \/ Create \/ RecordValue \/ RecordId)
    BY <2>2, OtherPool DEF Elsewhere
  <2>3. CASE at.kind = k /\ (Adopt \/ Create) /\ table' # table
    <3>1. \E v, b : table' = With(k, v, b)
      BY <2>3 DEF Adopt, Create, pools
    <3> QED BY <3>1, WithIs, ZenonT(60) DEF Typed
  <2>4. CASE at.kind = k /\ Drop /\ table' # table
    <3> DEFINE mine == {j \in Recorded(k) : table[k][j].value = seedVal[k]}
    <3>1. at.step = "drop" /\ table' = Without(k, mine)
      BY <2>4 DEF Drop, Does
    <3>2. Holder(k) = seedId[k] /\ Value(k) = seedVal[k]
      BY <3>1 DEF Holder, Value, Replacing
    <3>3. i \notin mine
      BY <3>2 DEF RecordInv, RecordOf, Recorded, Unchanged, Seeded
    <3> QED BY <3>1, <3>3, WithoutIs, ZenonT(60) DEF Typed
  <2>5. CASE Mark \/ Compare \/ RecordValue \/ RecordId \/ InitRuntimeConfig \/ Ends
    BY <2>1, <2>5 DEF Mark, Compare, RecordValue, RecordId, InitRuntimeConfig, Ends, pools
  <2>6. ~Start /\ ~Purge
    BY DEF Start, Purge, Does
  <2> QED BY <2>1, <2>2, <2>3, <2>4, <2>5, <2>6, NextIs, ServedIs, ConfiguredIs DEF OfStart
<1> QED BY <1>1, InvSpec, PTL DEF Spec, OthersKept

-----------------------------------------------------------------------------
(* What verifications lowered is put back *)

LEMMA ConfigInit == ASSUME Init PROVE ConfigTyped /\ ConfigInv
<1>1. /\ Default \in Retries
      /\ saved \in {Default, None} /\ running = Default /\ wanted = Default
      /\ \A s \in Savers : pc[s] = "idle" /\ back[s] = None
      /\ pc \in [Savers -> {"idle", "kv", "rt", "call"}]
      /\ DOMAIN next = Savers /\ DOMAIN back = Savers
  BY RetriesAssumption DEF Init
<1>2. ConfigTyped
  BY <1>1 DEF ConfigTyped, Saves, Idle
<1>3. ConfigInv
  BY <1>1 DEF ConfigInv, Saves, Probes
<1> QED BY <1>2, <1>3

(* One saver moves: where it stands, what it writes and what it restores.  *)
Moves(s, p, n, b) ==
  /\ s \in Savers /\ pc'[s] = p /\ next'[s] = n /\ back'[s] = b
  /\ \A t \in Savers \ {s} : pc'[t] = pc[t] /\ next'[t] = next[t] /\ back'[t] = back[t]
  /\ DOMAIN pc' = Savers /\ DOMAIN next' = Savers /\ DOMAIN back' = Savers
  /\ pc' \in [Savers -> {"idle", "kv", "rt", "call"}]
(* What is said of the savers that do not move stays.                      *)
LEMMA MovesOthers ==
  ASSUME NEW s, NEW p, NEW n, NEW b, Moves(s, p, n, b)
  PROVE  \A t \in Savers \ {s} : /\ Saves(t)' = Saves(t) /\ Probes(t)' = Probes(t)
                                 /\ OwesKv(t)' = OwesKv(t) /\ OwesRt(t)' = OwesRt(t)
  BY DEF Moves, Saves, Probes, OwesKv, OwesRt

LEMMA AdminStep ==
  ASSUME ConfigTyped, ConfigInv, NEW s \in Savers, NEW v \in Retries, AdminSaves(s, v)
  PROVE  ConfigTyped' /\ ConfigInv'
<1>1. /\ at' = at /\ Up /\ pc[s] = "idle" /\ wanted' = v
      /\ UNCHANGED <<saved, running>> /\ muddled' = (muddled \/ ~Idle)
  BY DEF AdminSaves, OnConfig
<1>2. back[s] = None
  BY <1>1 DEF ConfigTyped
<1>3. Moves(s, "kv", v, None)
  BY <1>2 DEF AdminSaves, ConfigTyped, Moves
<1>4. ConfigTyped'
  BY <1>1, <1>3 DEF ConfigTyped, Moves, Saves, Up
<1>5. ASSUME ~muddled' PROVE ConfigInv'
  <2>1. \A t \in Savers \ {s} : pc'[t] = "idle"
    BY <1>1, <1>3, <1>5 DEF Idle, Moves
  <2>2. Saves(s)' /\ ~Probes(s)' /\ \A t \in Savers \ {s} : ~Saves(t)' /\ ~Probes(t)'
    BY <1>3, <2>1 DEF Saves, Probes, Moves
  <2> QED BY <1>1, <1>3, <2>1, <2>2 DEF ConfigInv, Moves
<1> QED BY <1>4, <1>5 DEF ConfigInv

LEMMA ProbeStep ==
  ASSUME ConfigTyped, ConfigInv, NEW s \in Savers, ProbeStarts(s)
  PROVE  ConfigTyped' /\ ConfigInv'
<1>1. /\ at' = at /\ Up /\ pc[s] = "idle" /\ running > 1
      /\ UNCHANGED <<saved, running, wanted>>
      /\ muddled' = (muddled \/ \E t \in Savers : pc[t] # "idle" /\ back[t] = None)
  BY DEF ProbeStarts, OnConfig
<1>2. Moves(s, "kv", 1, running)
  BY DEF ProbeStarts, ConfigTyped, Moves
<1>3. 1 \in Retries /\ None \notin Retries /\ running # None
  BY RetriesAssumption, NoneAssumption DEF ConfigTyped
<1>4. ConfigTyped'
  BY <1>1, <1>2, <1>3 DEF ConfigTyped, Moves, Saves, Up
<1>5. ASSUME ~muddled' PROVE ConfigInv'
  <2>1. ~muddled /\ \A t \in Savers : ~Saves(t)
    BY <1>1, <1>5 DEF Saves
  <2>2. running = wanted /\ running # 1
    BY <1>1, <2>1 DEF ConfigInv
  <2>3. /\ ~Saves(s)' /\ Probes(s)' /\ ~Probes(s)
        /\ back'[s] = wanted /\ next'[s] = 1
    BY <1>1, <1>2, <1>3, <2>2 DEF Saves, Probes, Moves
  <2>4. \A t \in Savers : ~Saves(t)'
    BY <1>2, <2>1, <2>3, MovesOthers
  <2>5. \A t \in Savers : Probes(t)' => back'[t] = wanted /\ next'[t] \in {1, wanted}
    BY <1>2, <2>1, <2>3, MovesOthers DEF ConfigInv, Moves
  <2>6. \A t \in Savers : OwesKv(t) => OwesKv(t)'
    BY <1>2, <2>3, MovesOthers DEF OwesKv
  <2> QED BY <1>1, <2>1, <2>2, <2>4, <2>5, <2>6 DEF ConfigInv
<1> QED BY <1>4, <1>5 DEF ConfigInv

LEMMA SaveKvStep ==
  ASSUME ConfigTyped, ConfigInv, NEW s \in Savers, SaveKv(s)
  PROVE  ConfigTyped' /\ ConfigInv'
<1>1. at' = at /\ Up /\ pc[s] = "kv" /\ UNCHANGED <<running, wanted>> /\ next[s] \in Retries
  BY DEF SaveKv, OnConfig, ConfigTyped
<1>2. CASE /\ saved' = next[s] /\ pc' = [pc EXCEPT ![s] = "rt"]
           /\ UNCHANGED <<next, back, muddled>>
  <2>1. Moves(s, "rt", next[s], back[s])
    BY <1>2 DEF ConfigTyped, Moves
  <2>2. Saves(s)' = Saves(s) /\ Probes(s)' = Probes(s)
    BY <1>1, <2>1 DEF Saves, Probes, Moves
  <2>3. ConfigTyped'
    BY <1>1, <1>2, <2>1, <2>2 DEF ConfigTyped, Moves, Saves, Up
  <2>4. CASE muddled BY <1>2, <2>3, <2>4 DEF ConfigInv
  <2>5. CASE ~muddled /\ Saves(s)
    <3>1. next[s] = wanted /\ \A t \in Savers \ {s} : pc[t] = "idle"
      BY <2>5 DEF ConfigInv
    <3>2. \A t \in Savers \ {s} : pc'[t] = "idle" /\ ~Saves(t)' /\ ~Probes(t)'
      BY <2>1, <3>1 DEF Moves, Saves, Probes
    <3>3. ~Probes(s)'
      BY <2>2, <2>5 DEF Saves, Probes
    <3> QED BY <1>1, <1>2, <2>1, <2>2, <2>3, <2>5, <3>1, <3>2, <3>3 DEF ConfigInv, Moves
  <2>6. CASE ~muddled /\ Probes(s)
    <3>1. \A t \in Savers : ~Saves(t)
      BY <1>1, <2>6 DEF ConfigInv, Saves, Probes
    <3>2. \A t \in Savers : ~Saves(t)'
      BY <2>1, <2>2, <3>1, MovesOthers
    <3>3. back[s] = wanted /\ next[s] \in {1, wanted}
      BY <2>6 DEF ConfigInv
    <3>4. \A t \in Savers : Probes(t)' => back'[t] = wanted /\ next'[t] \in {1, wanted}
      BY <2>1, <2>2, <2>6, <3>3, MovesOthers DEF ConfigInv, Moves
    <3>5. saved' = wanted \/ OwesKv(s)'
      BY <1>2, <2>1, <2>2, <2>6, <3>3 DEF OwesKv, Moves
    <3>6. \A t \in Savers : OwesRt(t) => OwesRt(t)'
      BY <1>1, <2>1, <2>2, MovesOthers DEF OwesRt, Moves
    <3>7. saved' # None
      BY <1>1, <1>2, RetriesAssumption, NoneAssumption
    <3> QED BY <1>1, <1>2, <2>3, <2>6, <3>1, <3>2, <3>4, <3>5, <3>6, <3>7 DEF ConfigInv
  <2> QED BY <1>1, <2>4, <2>5, <2>6 DEF Saves, Probes
<1>3. CASE /\ muddled' = TRUE /\ saved' = saved
           /\ IF back[s] = None \/ next[s] = back[s]
              THEN /\ pc' = [pc EXCEPT ![s] = "idle"] /\ next' = [next EXCEPT ![s] = None]
                   /\ back' = [back EXCEPT ![s] = None]
              ELSE pc' = [pc EXCEPT ![s] = "call"] /\ UNCHANGED <<next, back>>
  <2>1. \/ Moves(s, "idle", None, None)
        \/ Moves(s, "call", next[s], back[s]) /\ back[s] # None
    BY <1>3 DEF ConfigTyped, Moves
  <2>2. ConfigTyped'
    BY <1>1, <1>3, <2>1 DEF ConfigTyped, Moves, Saves, Up
  <2> QED BY <1>3, <2>2 DEF ConfigInv
<1> QED BY <1>2, <1>3 DEF SaveKv

LEMMA SaveRtStep ==
  ASSUME ConfigTyped, ConfigInv, NEW s \in Savers, SaveRt(s)
  PROVE  ConfigTyped' /\ ConfigInv'
<1>1. /\ at' = at /\ Up /\ pc[s] = "rt" /\ UNCHANGED <<saved, wanted, muddled>>
      /\ running' = next[s] /\ next[s] \in Retries
  BY DEF SaveRt, OnConfig, ConfigTyped
<1>2. CASE back[s] = None \/ next[s] = back[s]
  <2>1. Moves(s, "idle", None, None)
    BY <1>2 DEF SaveRt, ConfigTyped, Moves
  <2>2. ~Saves(s)' /\ ~Probes(s)'
    BY <2>1 DEF Moves, Saves, Probes
  <2>3. ConfigTyped'
    BY <1>1, <2>1 DEF ConfigTyped, Moves, Saves, Up
  <2>4. CASE muddled BY <1>1, <2>3, <2>4 DEF ConfigInv
  <2>5. CASE ~muddled /\ Saves(s)
    <3>1. next[s] = wanted /\ saved = wanted /\ \A t \in Savers \ {s} : pc[t] = "idle"
      BY <1>1, <2>5 DEF ConfigInv
    <3>2. \A t \in Savers : ~Saves(t)' /\ ~Probes(t)'
      BY <2>1, <2>2, <3>1 DEF Moves, Saves, Probes
    <3>3. saved # None
      BY <1>1, <3>1, RetriesAssumption, NoneAssumption
    <3> QED BY <1>1, <2>3, <3>1, <3>2, <3>3 DEF ConfigInv
  <2>6. CASE ~muddled /\ Probes(s)
    <3>1. \A t \in Savers : ~Saves(t)
      BY <1>1, <2>6 DEF ConfigInv, Saves, Probes
    <3>2. next[s] = wanted /\ back[s] = wanted
      BY <1>2, <2>6 DEF ConfigInv, Probes
    <3>3. \A t \in Savers : ~Saves(t)'
      BY <2>1, <2>2, <3>1, MovesOthers
    <3>4. \A t \in Savers : Probes(t)' => back'[t] = wanted /\ next'[t] \in {1, wanted}
      BY <2>1, <2>2, <2>6, MovesOthers DEF ConfigInv, Moves
    <3>5. ~OwesKv(s)
      BY <1>1, <3>2 DEF OwesKv
    <3>6. \A t \in Savers : OwesKv(t) => OwesKv(t)'
      BY <2>1, <3>5, MovesOthers
    <3> QED BY <1>1, <2>3, <2>6, <3>1, <3>2, <3>3, <3>4, <3>6 DEF ConfigInv
  <2> QED BY <1>1, <2>4, <2>5, <2>6 DEF Saves, Probes
<1>3. CASE ~(back[s] = None \/ next[s] = back[s])
  <2>1. Moves(s, "call", next[s], back[s])
    BY <1>3 DEF SaveRt, ConfigTyped, Moves
  <2>2. ~Saves(s)' /\ Probes(s)' /\ ~Saves(s) /\ Probes(s)
    BY <1>1, <1>3, <2>1 DEF Moves, Saves, Probes
  <2>3. ConfigTyped'
    BY <1>1, <1>3, <2>1 DEF ConfigTyped, Moves, Saves, Up
  <2>4. CASE muddled BY <1>1, <2>3, <2>4 DEF ConfigInv
  <2>5. CASE ~muddled
    <3>1. \A t \in Savers : ~Saves(t)
      BY <1>1, <2>2, <2>5 DEF ConfigInv, Saves
    <3>2. back[s] = wanted /\ next[s] = 1
      BY <1>3, <2>2, <2>5 DEF ConfigInv
    <3>3. \A t \in Savers : ~Saves(t)'
      BY <2>1, <2>2, <3>1, MovesOthers
    <3>4. \A t \in Savers : Probes(t)' => back'[t] = wanted /\ next'[t] \in {1, wanted}
      BY <2>1, <2>2, <2>5, <3>2, MovesOthers DEF ConfigInv, Moves
    <3>5. OwesKv(s)' /\ OwesRt(s)'
      BY <2>1, <2>2 DEF OwesKv, OwesRt, Moves
    <3>6. saved = None => wanted = Default
      BY <2>5, <3>1 DEF ConfigInv
    <3> QED BY <1>1, <2>3, <3>2, <3>3, <3>4, <3>5, <3>6 DEF ConfigInv
  <2> QED BY <2>4, <2>5
<1> QED BY <1>2, <1>3

LEMMA RestoreStep ==
  ASSUME ConfigTyped, ConfigInv, NEW s \in Savers, Restore(s)
  PROVE  ConfigTyped' /\ ConfigInv'
<1>1. at' = at /\ Up /\ pc[s] = "call" /\ UNCHANGED <<saved, running, wanted, muddled>>
  BY DEF Restore, OnConfig
<1>2. back[s] \in Retries /\ back[s] # None
  BY <1>1 DEF ConfigTyped, Saves
<1>3. Moves(s, "kv", back[s], back[s])
  BY DEF Restore, ConfigTyped, Moves
<1>4. ~Saves(s)' /\ Probes(s)' /\ ~Saves(s) /\ Probes(s)
  BY <1>1, <1>2, <1>3 DEF Moves, Saves, Probes
<1>5. ConfigTyped'
  BY <1>1, <1>2, <1>3 DEF ConfigTyped, Moves, Saves, Up
<1>6. CASE muddled BY <1>1, <1>5, <1>6 DEF ConfigInv
<1>7. CASE ~muddled
  <2>1. \A t \in Savers : ~Saves(t)
    BY <1>1, <1>4, <1>7 DEF ConfigInv, Saves
  <2>2. \A t \in Savers : ~Saves(t)'
    BY <1>3, <1>4, <2>1, MovesOthers
  <2>3. \A t \in Savers : Probes(t)' => back'[t] = wanted /\ next'[t] \in {1, wanted}
    BY <1>3, <1>4, <1>7, MovesOthers DEF ConfigInv, Moves
  <2>4. OwesKv(s)' /\ OwesRt(s)'
    BY <1>3, <1>4 DEF OwesKv, OwesRt, Moves
  <2>5. (running = wanted \/ running = 1) /\ (saved = None => wanted = Default)
    BY <1>7, <2>1 DEF ConfigInv
  <2> QED BY <1>1, <1>5, <2>2, <2>3, <2>4, <2>5 DEF ConfigInv
<1> QED BY <1>6, <1>7

(* The process ends, or starts with what was saved.                        *)
LEMMA BoundaryStep ==
  ASSUME ConfigTyped, ConfigInv, Ends \/ InitRuntimeConfig
  PROVE  ConfigTyped' /\ ConfigInv'
<1>1. CASE Ends
  <2>1. /\ UNCHANGED <<saved, running, wanted>>
        /\ \A s \in Savers : pc'[s] = "idle" /\ back'[s] = None
        /\ pc' \in [Savers -> {"idle", "kv", "rt", "call"}]
        /\ DOMAIN next' = Savers /\ DOMAIN back' = Savers
        /\ muddled' = (muddled \/ \E s \in Savers : pc[s] # "idle")
    BY <1>1 DEF Ends
  <2>2. ConfigTyped'
    BY <2>1 DEF ConfigTyped, Saves, Idle
  <2>3. ~muddled' => \A s \in Savers : ~Saves(s) /\ ~Probes(s)
    BY <2>1 DEF Saves, Probes
  <2>4. \A s \in Savers : ~Saves(s)' /\ ~Probes(s)'
    BY <2>1 DEF Saves, Probes
  <2>5. ~muddled' => saved \in {wanted, None} /\ (saved = None => wanted = Default) /\ running = wanted
    BY <2>1, <2>3 DEF ConfigInv, OwesKv, OwesRt
  <2> QED BY <2>1, <2>2, <2>4, <2>5 DEF ConfigInv
<1>2. CASE InitRuntimeConfig
  <2>1. /\ UNCHANGED <<saved, pc, next, back, wanted, muddled>>
        /\ running' = (IF saved = None THEN Default ELSE saved)
        /\ at.step = "init" /\ at'.step # "up"
    BY <1>2 DEF InitRuntimeConfig, Step
  <2>2. \A s \in Savers : ~Saves(s) /\ ~Probes(s) /\ ~Saves(s)' /\ ~Probes(s)'
    BY <2>1 DEF ConfigTyped, Saves, Probes, Up, Idle
  <2>3. running' \in Retries
    BY <2>1, RetriesAssumption DEF ConfigTyped
  <2>4. ConfigTyped'
    BY <2>1, <2>2, <2>3 DEF ConfigTyped, Up, Idle
  <2>5. ~muddled => saved \in {wanted, None} /\ (saved = None => wanted = Default)
    BY <2>2 DEF ConfigInv, OwesKv
  <2> QED BY <2>1, <2>2, <2>4, <2>5 DEF ConfigInv
<1> QED BY <1>1, <1>2

LEMMA ConfigNext ==
  ASSUME ConfigTyped, ConfigInv, [Next]_vars
  PROVE  ConfigTyped' /\ ConfigInv'
<1>1. CASE Configured
  BY <1>1, AdminStep, ProbeStep, SaveKvStep, SaveRtStep, RestoreStep DEF Configured
<1>2. CASE Ends \/ InitRuntimeConfig
  BY <1>2, BoundaryStep
<1>3. CASE UNCHANGED config /\ (Up => Up')
  <2>1. UNCHANGED <<saved, running, pc, next, back, wanted, muddled>>
    BY <1>3 DEF config
  <2>2. \A s \in Savers : /\ Saves(s)' = Saves(s) /\ Probes(s)' = Probes(s)
                          /\ OwesKv(s)' = OwesKv(s) /\ OwesRt(s)' = OwesRt(s)
    BY <2>1 DEF Saves, Probes, OwesKv, OwesRt
  <2>3. ConfigTyped'
    BY <1>3, <2>1, <2>2 DEF ConfigTyped, Idle
  <2> QED BY <2>1, <2>2, <2>3 DEF ConfigInv
<1>4. CASE ~Configured /\ ~(Ends \/ InitRuntimeConfig)
  <2>1. CASE Start \/ Purge
    BY <1>3, <2>1 DEF Start, Purge, Does, Up
  <2>2. CASE UNCHANGED vars \/ Served \/ OfStart
    BY <1>3, <2>2, ServedIs, OfStartIs DEF vars, Up
  <2> QED BY <1>4, <2>1, <2>2, NextIs
<1> QED BY <1>1, <1>2, <1>4

(* Once verifications and saves are over the configuration is what the     *)
(* administrator saved last, in kv and in memory, unless a verification    *)
(* was interrupted or overlapped with another save (probeWithModel).       *)
THEOREM ProbesRestoreAlways == Spec => []ProbesRestore
<1>1. Init => ConfigTyped /\ ConfigInv
  BY ConfigInit
<1>2. ConfigTyped /\ ConfigInv /\ [Next]_vars => ConfigTyped' /\ ConfigInv'
  BY ConfigNext
<1>3. ConfigTyped /\ ConfigInv => ProbesRestore
  BY DEF ProbesRestore, ConfigInv, Idle, Saves, OwesKv, OwesRt, Probes
<1> QED BY <1>1, <1>2, <1>3, PTL DEF Spec
=============================================================================
