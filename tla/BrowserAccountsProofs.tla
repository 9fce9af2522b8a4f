------------------------ MODULE BrowserAccountsProofs ------------------------
(* Proofs about BrowserAccounts for every set of profiles, slots and       *)
(* goroutines, every start and every value of the bounds.                  *)
EXTENDS BrowserAccounts, FiniteSetTheorems, TLAPS

Labels == {"idle", "each", "gate", "look", "load", "lookup", "insert", "update", "merge",
           "schedule", "verify", "result"}
Sources == {"browser", "remote"}
Row == [profile : Profiles, slot : Slots, source : Sources, on : BOOLEAN, readable : BOOLEAN]
Job == [id : Ids \cup {None}, profile : Profiles, slot : Slots, source : Sources, on : BOOLEAN]
Waits(p) == pc[p] \in {"idle", "each"}

(* The shapes of the variables, without the bounds.                        *)
TableTyped ==
  /\ nextId \in Nat
  /\ DOMAIN rows \subseteq Ids
  /\ \A i \in DOMAIN rows : rows[i] \in Row /\ i < nextId

LocalsTyped ==
  /\ pc \in [Procs -> Labels]
  /\ job \in [Procs -> Job \cup {None}]
  /\ \A p \in Procs : ~Waits(p) => job[p] \in Job
  /\ list \in [Listers -> SUBSET Job]
  /\ row \in [Procs -> Ids \cup {None}]
  /\ DOMAIN result = Procs

TimesTyped ==
  /\ now \in Nat
  /\ began \in Nat
  /\ due \in [Profiles -> Nat]
  /\ autoAt \in [Profiles -> Nat \cup {None}]

Typed == TableTyped /\ LocalsTyped /\ TimesTyped

(* An account that was read before was readable and still is, if its row   *)
(* is still there: ids are not used twice.  A store updates a row of its   *)
(* own profile and slot.                                                   *)
Seen(i) == i \in Nat => i < nextId /\ (i \in DOMAIN rows => rows[i].readable = TRUE)
Own(what, i) ==
  /\ i \in Ids /\ i < nextId
  /\ i \in DOMAIN rows => rows[i].profile = what.profile /\ rows[i].slot = what.slot
ReadInv ==
  /\ \A p \in Listers : \A account \in list[p] : Seen(account.id)
  /\ \A p \in Procs : ~Waits(p) => Seen(job[p].id)
  /\ \A p \in Procs : pc[p] = "update" => Own(job[p], row[p])

(* Two accounts of one profile and slot can be seen only while a store is  *)
(* about to delete one of them, or after one that could not.               *)
Alike(i, j) == rows[i].profile = rows[j].profile /\ rows[i].slot = rows[j].slot
Excused(b, s) ==
  \/ <<"store", b, s>> \in cut
  \/ \E p \in Procs : pc[p] = "merge" /\ job[p].profile = b /\ job[p].slot = s
TwinsInv ==
  \A i, j \in DOMAIN rows :
    rows[i].readable = TRUE /\ rows[j].readable = TRUE /\ Alike(i, j) =>
      i = j \/ Excused(rows[i].profile, rows[i].slot)

(* The refresher's next visit is never due before the cooldown is over     *)
(* while it is not at that account's browser itself.                       *)
Apart(b, time) == autoAt[b] # None => autoAt[b] + Cooldown <= time
Capturing == pc[Refresher] \notin {"idle", "each", "gate"}
SpaceInv ==
  /\ began <= now
  /\ pc[Refresher] # "verify"
  /\ \A b \in Profiles : autoAt[b] # None => autoAt[b] <= now
  /\ \A b \in Profiles :
       <<"capture", b>> \notin cut /\ ~(Capturing /\ Profile(Refresher) = b) => Apart(b, due[b])
  /\ pc[Refresher] = "gate" /\ <<"capture", Profile(Refresher)>> \notin cut => Apart(Profile(Refresher), now)
  /\ pc[Refresher] = "result" /\ result[Refresher] = "ok" => Apart(Profile(Refresher), due[Profile(Refresher)])

-----------------------------------------------------------------------------
(* The table: an id is used once, a row keeps its profile and slot, and a  *)
(* row that can be read stays so.                                          *)
Moves ==
  /\ nextId <= nextId'
  /\ \A i \in DOMAIN rows' : i < nextId =>
       /\ i \in DOMAIN rows
       /\ rows'[i].profile = rows[i].profile /\ rows'[i].slot = rows[i].slot
       /\ rows[i].readable = TRUE => rows'[i].readable = TRUE

LEMMA TableSame == ASSUME TableTyped, UNCHANGED <<rows, nextId>> PROVE TableTyped' /\ Moves
  BY DEF TableTyped, Moves

LEMMA TableShrinks ==
  ASSUME TableTyped, NEW ids, rows' = [i \in DOMAIN rows \ ids |-> rows[i]], UNCHANGED nextId
  PROVE  TableTyped' /\ Moves
  BY DEF TableTyped, Moves

LEMMA OneRowChanges ==
  ASSUME TableTyped, NEW k \in DOMAIN rows, UNCHANGED nextId,
         DOMAIN rows' = DOMAIN rows,
         \A i \in DOMAIN rows \ {k} : rows'[i] = rows[i],
         rows'[k] \in Row,
         rows'[k].profile = rows[k].profile, rows'[k].slot = rows[k].slot,
         rows[k].readable = TRUE => rows'[k].readable = TRUE
  PROVE  TableTyped' /\ Moves
<1>1. ASSUME NEW i \in DOMAIN rows
      PROVE  /\ rows'[i] \in Row
             /\ rows'[i].profile = rows[i].profile /\ rows'[i].slot = rows[i].slot
             /\ rows[i].readable = TRUE => rows'[i].readable = TRUE
  <2>1. CASE i = k
    BY <2>1
  <2>2. CASE i # k
    BY <2>2, rows'[i] = rows[i] DEF TableTyped
  <2> QED BY <2>1, <2>2
<1>2. TableTyped'
  BY <1>1 DEF TableTyped
<1>3. Moves
  BY <1>1 DEF Moves, TableTyped
<1> QED BY <1>2, <1>3

LEMMA TableMarked ==
  ASSUME TableTyped, NEW id, rows' = Marked(id), UNCHANGED nextId
  PROVE  TableTyped' /\ Moves
<1>1. CASE id \in DOMAIN rows
  <2>1. DOMAIN rows' = DOMAIN rows /\ rows'[id] = [rows[id] EXCEPT !.readable = TRUE]
        /\ \A i \in DOMAIN rows \ {id} : rows'[i] = rows[i]
    BY <1>1 DEF Marked
  <2>2. rows[id] \in Row
    BY <1>1 DEF TableTyped
  <2>3. rows'[id] \in Row /\ rows'[id].profile = rows[id].profile
        /\ rows'[id].slot = rows[id].slot /\ rows'[id].readable = TRUE
    BY <2>1, <2>2 DEF Row
  <2> QED BY <1>1, <2>1, <2>3, OneRowChanges
<1>2. CASE id \notin DOMAIN rows
  BY <1>2, TableSame DEF Marked
<1> QED BY <1>1, <1>2

LEMMA TableUpdate ==
  ASSUME Typed, NEW p \in Procs, Update(p)
  PROVE  TableTyped' /\ Moves
<1>1. CASE row[p] \in DOMAIN rows
  <2> DEFINE i == row[p]
  <2>1. /\ DOMAIN rows' = DOMAIN rows
        /\ rows'[i] = [rows[i] EXCEPT !.source = job[p].source, !.readable = TRUE]
        /\ \A j \in DOMAIN rows \ {i} : rows'[j] = rows[j]
    BY <1>1 DEF Update
  <2>2. rows[i] \in Row /\ job[p] \in Job
    BY <1>1 DEF Typed, TableTyped, LocalsTyped, Waits, Update, Storing
  <2>3. rows'[i] \in Row /\ rows'[i].profile = rows[i].profile
        /\ rows'[i].slot = rows[i].slot /\ rows'[i].readable = TRUE
    BY <2>1, <2>2 DEF Row, Job
  <2>4. TableTyped /\ UNCHANGED nextId
    BY DEF Typed, Update
  <2> QED BY <1>1, <2>1, <2>3, <2>4, OneRowChanges
<1>2. CASE row[p] \notin DOMAIN rows
  BY <1>2, TableSame DEF Update, Typed
<1> QED BY <1>1, <1>2

LEMMA TableInsert ==
  ASSUME Typed, NEW p \in Procs, Insert(p)
  PROVE  TableTyped' /\ Moves
<1>1. job[p] \in Job /\ nextId \in Ids /\ nextId' = nextId + 1
  BY DEF Typed, LocalsTyped, Waits, Insert, Storing
<1>2. /\ DOMAIN rows' = DOMAIN rows \cup {nextId}
      /\ \A i \in DOMAIN rows : rows'[i] = rows[i]
      /\ nextId \notin DOMAIN rows
  BY DEF Insert, Typed, TableTyped
<1>3. rows'[nextId] = [profile |-> Profile(p), slot |-> job[p].slot, source |-> job[p].source,
                       on |-> TRUE, readable |-> FALSE]
  BY <1>2 DEF Insert
<1>4. rows'[nextId] \in Row
  BY <1>1, <1>3 DEF Row, Job, Profile
<1>5. TableTyped'
  <2>1. \A i \in DOMAIN rows : rows'[i] \in Row /\ i < nextId /\ nextId \in Nat
    BY <1>2 DEF Typed, TableTyped
  <2>2. nextId \in Nat /\ \A i \in DOMAIN rows : i \in Nat
    BY IdsAssumption DEF Typed, TableTyped
  <2>3. nextId + 1 \in Nat /\ \A i \in DOMAIN rows : i < nextId + 1
    BY <2>1, <2>2
  <2> QED BY <1>1, <1>2, <1>4, <2>1, <2>2, <2>3 DEF Typed, TableTyped
<1>6. Moves
  BY <1>1, <1>2 DEF Moves, Typed, TableTyped
<1> QED BY <1>5, <1>6

LEMMA TableToggle ==
  ASSUME TableTyped, NEW k \in Ids, Toggle(k)
  PROVE  TableTyped' /\ Moves
<1>1. k \in DOMAIN rows /\ rows[k] \in Row
  BY DEF Toggle, Listed, TableTyped
<1>2. DOMAIN rows' = DOMAIN rows /\ rows'[k] = [rows[k] EXCEPT !.on = ~@]
      /\ (\A i \in DOMAIN rows \ {k} : rows'[i] = rows[i]) /\ nextId' = nextId
  BY <1>1 DEF Toggle, ByAdmin
<1>3. rows'[k] \in Row /\ rows'[k].profile = rows[k].profile
      /\ rows'[k].slot = rows[k].slot /\ rows'[k].readable = rows[k].readable
  BY <1>1, <1>2 DEF Row
<1> QED BY <1>1, <1>2, <1>3, OneRowChanges

LEMMA TableStep == Typed /\ [Next]_vars => TableTyped' /\ Moves
<1> SUFFICES ASSUME Typed, [Next]_vars PROVE TableTyped' /\ Moves
  OBVIOUS
<1>t. TableTyped
  BY DEF Typed
<1>1. ASSUME NEW p \in Listers, StartRound(p) \/ NextAccount(p) PROVE TableTyped' /\ Moves
  BY <1>t, <1>1, TableSame DEF StartRound, NextAccount
<1>2. ASSUME NEW p \in Admins, StartFetch(p) \/ FetchResult(p) PROVE TableTyped' /\ Moves
  BY <1>t, <1>2, TableSame DEF StartFetch, FetchResult, AtResult
<1>3. ASSUME NEW p \in Admins, NowResult(p) PROVE TableTyped' /\ Moves
  BY <1>t, <1>3, TableSame, TableMarked DEF NowResult, AtResult
<1>4. ASSUME NEW p \in Ingesters, Ingest(p) PROVE TableTyped' /\ Moves
  BY <1>t, <1>4, TableSame DEF Ingest
<1>5. ASSUME NEW p \in Procs, Gate(p) \/ Look(p) \/ Load(p) \/ Lookup(p) PROVE TableTyped' /\ Moves
  BY <1>t, <1>5, TableSame DEF Gate, Look, Load, Asking, Lookup
<1>6. ASSUME NEW p \in Procs, StoreFails(p) \/ Schedule(p) \/ Verify(p) PROVE TableTyped' /\ Moves
  BY <1>t, <1>6, TableSame DEF StoreFails, Schedule, Verify
<1>7. ASSUME NEW p \in Procs, Update(p) PROVE TableTyped' /\ Moves
  BY <1>7, TableUpdate
<1>8. ASSUME NEW p \in Procs, Insert(p) PROVE TableTyped' /\ Moves
  BY <1>8, TableInsert
<1>9. ASSUME NEW p \in Procs, Merge(p) PROVE TableTyped' /\ Moves
  BY <1>t, <1>9, TableSame, TableShrinks DEF Merge
<1>10. CASE AutoResult
  <2>1. rows' = rows \/ rows' = Marked(job[Refresher].id) \/ rows' = Without({job[Refresher].id})
    BY <1>10 DEF AutoResult
  <2>2. nextId' = nextId
    BY <1>10 DEF AutoResult, AtResult
  <2> QED BY <1>t, <2>1, <2>2, TableSame, TableMarked, TableShrinks DEF Without
<1>11. ASSUME NEW b \in Profiles, DeleteProfile(b) PROVE TableTyped' /\ Moves
  BY <1>t, <1>11, TableShrinks DEF DeleteProfile, ByAdmin, Without
<1>12. ASSUME NEW i \in Ids, Toggle(i) PROVE TableTyped' /\ Moves
  BY <1>t, <1>12, TableToggle
<1>13. CASE Crash \/ Tick \/ UNCHANGED vars
  BY <1>t, <1>13, TableSame DEF Crash, Tick, vars
<1> QED
  BY <1>1, <1>2, <1>3, <1>4, <1>5, <1>6, <1>7, <1>8, <1>9, <1>10, <1>11, <1>12, <1>13 DEF Next, Capture

-----------------------------------------------------------------------------
(* The goroutines *)

LEMMA Members == Refresher \in Listers /\ Listers \subseteq Procs /\ Admins \subseteq Listers
                 /\ Ingesters \subseteq Procs /\ Admins \subseteq Procs /\ Refresher \in Procs
                 /\ Refresher \notin Admins /\ Refresher \notin Ingesters
  BY ProcsAssumption DEF Listers, Procs

LEMMA Freed ==
  ASSUME LocalsTyped, NEW p \in Procs, NEW label \in {"idle", "each"}, Free(p, label), UNCHANGED list
  PROVE  LocalsTyped'
  BY DEF LocalsTyped, Free, Goto, Set, Waits, Labels

LEMMA Moved ==
  ASSUME LocalsTyped, NEW p \in Procs, ~Waits(p), NEW label \in Labels, Goto(p, label), 
         UNCHANGED <<job, list>>, row' \in [Procs -> Ids \cup {None}], DOMAIN result' = Procs
  PROVE  LocalsTyped'
  BY DEF LocalsTyped, Goto, Waits

LEMMA Taken ==
  ASSUME LocalsTyped, NEW p \in Procs, NEW what \in Job, NEW label \in Labels, Take(p, what, label),
         list' \in [Listers -> SUBSET Job]
  PROVE  LocalsTyped'
  BY DEF LocalsTyped, Take, Goto, Set, Waits

LEMMA AccountIsJob == ASSUME TableTyped, NEW i \in DOMAIN rows PROVE Account(i) \in Job
  BY SlotsAssumption DEF TableTyped, Account, Row, Job, Sources

LEMMA LocalsStep == Typed /\ [Next]_vars => LocalsTyped'
<1> SUFFICES ASSUME Typed, [Next]_vars PROVE LocalsTyped'
  OBVIOUS
<1>t. LocalsTyped
  BY DEF Typed
<1>1. ASSUME NEW p \in Listers, StartRound(p) PROVE LocalsTyped'
  <2>1. {Account(i) : i \in Listed} \subseteq Job
    BY AccountIsJob DEF Listed, Typed
  <2> QED BY <1>1, <1>t, <2>1, Members DEF StartRound, LocalsTyped, Goto, Set, Waits, Labels
<1>2. ASSUME NEW p \in Listers, NextAccount(p) PROVE LocalsTyped'
  <2>1. CASE Goto(p, "idle") /\ UNCHANGED <<list, job, row, result>>
    BY <1>t, <2>1, Members DEF LocalsTyped, Goto, Waits, Labels
  <2>2. ASSUME NEW account \in list[p], list' = Set(list, p, list[p] \ {account}),
               Take(p, account, "gate") \/ UNCHANGED <<pc, job, row, result>>
        PROVE  LocalsTyped'
    <3>1. account \in Job /\ list' \in [Listers -> SUBSET Job]
      BY <1>t, <2>2 DEF LocalsTyped, Set
    <3>2. CASE Take(p, account, "gate")
      BY <1>t, <3>1, <3>2, Taken, Members DEF Labels
    <3>3. CASE UNCHANGED <<pc, job, row, result>>
      BY <1>t, <3>1, <3>3 DEF LocalsTyped, Waits
    <3> QED BY <2>2, <3>2, <3>3
  <2> QED BY <1>2, <2>1, <2>2 DEF NextAccount
<1>3. ASSUME NEW p \in Admins, StartFetch(p) PROVE LocalsTyped'
  <2>1. PICK b \in Profiles :
          Take(p, [id |-> None, profile |-> b, slot |-> 0, source |-> "browser", on |-> TRUE], "gate")
    BY <1>3 DEF StartFetch
  <2>2. [id |-> None, profile |-> b, slot |-> 0, source |-> "browser", on |-> TRUE] \in Job
    BY SlotsAssumption DEF Job, Sources
  <2>3. list' \in [Listers -> SUBSET Job]
    BY <1>3, <1>t DEF StartFetch, LocalsTyped
  <2> QED BY <1>t, <2>1, <2>2, <2>3, Taken, Members DEF Labels
<1>4. ASSUME NEW p \in Ingesters, Ingest(p) PROVE LocalsTyped'
  <2>1. PICK b \in Profiles, s \in Slots :
          Take(p, [id |-> None, profile |-> b, slot |-> s, source |-> "remote", on |-> TRUE], "lookup")
    BY <1>4 DEF Ingest
  <2>2. [id |-> None, profile |-> b, slot |-> s, source |-> "remote", on |-> TRUE] \in Job
    BY DEF Job, Sources
  <2>3. list' \in [Listers -> SUBSET Job]
    BY <1>4, <1>t DEF Ingest, LocalsTyped
  <2> QED BY <1>t, <2>1, <2>2, <2>3, Taken, Members DEF Labels
<1>5. ASSUME NEW p \in Admins, FetchResult(p) \/ NowResult(p) PROVE LocalsTyped'
  <2>1. CASE Goto(p, "verify") /\ UNCHANGED <<job, row>>
    <3>1. p \in Procs /\ ~Waits(p) /\ UNCHANGED list
      BY <1>5, Members DEF FetchResult, NowResult, AtResult, Waits
    <3>2. DOMAIN result' = Procs
      BY <1>5, <1>t DEF FetchResult, NowResult, Free, LocalsTyped, Set
    <3> QED BY <1>t, <2>1, <3>1, <3>2, Moved DEF LocalsTyped, Labels
  <2>2. CASE \E label \in {"idle", "each"} : Free(p, label)
    BY <1>5, <1>t, <2>2, Members, Freed DEF FetchResult, NowResult, AtResult
  <2> QED BY <1>5, <2>1, <2>2 DEF FetchResult, NowResult
<1>6. ASSUME NEW p \in Procs, Gate(p) PROVE LocalsTyped'
  BY <1>6, <1>t DEF Gate, Ends, LocalsTyped, Goto, Set, Waits, Labels
<1>7. ASSUME NEW p \in Procs, Look(p) \/ Load(p) PROVE LocalsTyped'
  BY <1>7, <1>t DEF Look, Load, Asking, Ends, LocalsTyped, Goto, Set, Waits, Labels
<1>8. ASSUME NEW p \in Procs, Lookup(p) PROVE LocalsTyped'
  <2>1. row' \in [Procs -> Ids \cup {None}]
    BY <1>8, <1>t DEF Lookup, Mine, LocalsTyped, Typed, TableTyped, Set
  <2> QED BY <1>8, <1>t, <2>1 DEF Lookup, Storing, LocalsTyped, Goto, Waits, Labels
<1>9. ASSUME NEW p \in Procs, Update(p) PROVE LocalsTyped'
  BY <1>9, <1>t DEF Update, Storing, LocalsTyped, Goto, Waits, Labels
<1>10. ASSUME NEW p \in Procs, Merge(p) \/ Insert(p) PROVE LocalsTyped'
  BY <1>10, <1>t DEF Merge, Insert, Storing, Stored, LocalsTyped, Goto, Waits, Labels
<1>11. ASSUME NEW p \in Procs, StoreFails(p) PROVE LocalsTyped'
  <2>1. CASE Free(p, "idle")
    BY <1>11, <1>t, <2>1, Freed DEF StoreFails
  <2>2. CASE (Goto(p, "load") /\ UNCHANGED result) \/ Ends(p, "failed")
    BY <1>11, <1>t, <2>2, Freed DEF StoreFails, Ends, LocalsTyped, Goto, Set, Waits, Labels
  <2> QED BY <1>11, <2>1, <2>2 DEF StoreFails
<1>12. ASSUME NEW p \in Procs, Schedule(p) PROVE LocalsTyped'
  BY <1>12, <1>t DEF Schedule, Ends, LocalsTyped, Goto, Set, Waits, Labels
<1>13. ASSUME NEW p \in Procs, Verify(p) PROVE LocalsTyped'
  <2>1. CASE Free(p, "idle")
    BY <1>13, <1>t, <2>1, Freed DEF Verify
  <2>2. CASE Goto(p, "gate") /\ UNCHANGED <<job, row, result>>
    BY <1>13, <1>t, <2>2 DEF Verify, LocalsTyped, Goto, Waits, Labels
  <2> QED BY <1>13, <2>1, <2>2 DEF Verify
<1>14. CASE AutoResult
  BY <1>14, <1>t, Members, Freed DEF AutoResult, AtResult
<1>15. CASE Crash
  BY <1>15, <1>t DEF Crash, LocalsTyped, Waits, Labels
<1>16. CASE UNCHANGED local
  BY <1>16, <1>t DEF local, LocalsTyped, Waits
<1> QED
  BY <1>1, <1>2, <1>3, <1>4, <1>5, <1>6, <1>7, <1>8, <1>9, <1>10, <1>11, <1>12, <1>13, <1>14, <1>15, <1>16
  DEF Next, Capture, DeleteProfile, Toggle, ByAdmin, Tick, vars

LEMMA TimesStep == Typed /\ [Next]_vars => TimesTyped'
<1> SUFFICES ASSUME Typed, [Next]_vars PROVE TimesTyped'
  OBVIOUS
<1>t. TimesTyped
  BY DEF Typed
<1>1. ASSUME NEW p \in Listers, StartRound(p) \/ NextAccount(p) PROVE TimesTyped'
  <2>1. UNCHANGED <<now, due, autoAt>> /\ began' \in {now, began, 0}
    BY <1>1 DEF StartRound, NextAccount, history
  <2> QED BY <1>t, <2>1 DEF TimesTyped
<1>2. ASSUME NEW p \in Admins, StartFetch(p) \/ FetchResult(p) \/ NowResult(p) PROVE TimesTyped'
  BY <1>2, <1>t DEF StartFetch, FetchResult, NowResult, AtResult, TimesTyped
<1>3. ASSUME NEW p \in Ingesters, Ingest(p) PROVE TimesTyped'
  BY <1>3, <1>t DEF Ingest, TimesTyped
<1>4. ASSUME NEW p \in Procs, Gate(p) PROVE TimesTyped'
  BY <1>4, <1>t DEF Gate, TimesTyped
<1>5. ASSUME NEW p \in Procs, Schedule(p) PROVE TimesTyped'
  <2>1. PICK gap \in Cooldown..MaxGap : due' = [due EXCEPT ![Profile(p)] = now + gap]
    BY <1>5 DEF Schedule
  <2>2. now + gap \in Nat
    BY <1>t, TimesAssumption DEF TimesTyped
  <2> QED BY <1>5, <1>t, <2>1, <2>2 DEF Schedule, TimesTyped
<1>6. ASSUME NEW p \in Procs, Capture(p) \/ Verify(p), ~Gate(p), ~Schedule(p) PROVE TimesTyped'
  <2>1. UNCHANGED <<now, began, due, autoAt>>
    BY <1>6 DEF Capture, Verify, Look, Load, Asking, Lookup, Update, Merge, Insert, Storing, StoreFails
  <2> QED BY <2>1, <1>t DEF TimesTyped
<1>7. CASE AutoResult
  <2>1. UNCHANGED <<now, began>>
    BY <1>7 DEF AutoResult, AtResult
  <2>2. autoAt' \in [Profiles -> Nat \cup {None}]
    BY <1>7, <1>t DEF AutoResult, Forgets, TimesTyped
  <2>3. due' \in [Profiles -> Nat]
    <3>1. now + Defer \in Nat /\ now + Cooldown \in Nat
      BY <1>t, TimesAssumption DEF TimesTyped
    <3> QED BY <1>7, <1>t, <3>1 DEF AutoResult, TimesTyped
  <2> QED BY <1>t, <2>1, <2>2, <2>3 DEF TimesTyped
<1>8. ASSUME NEW b \in Profiles, DeleteProfile(b) PROVE TimesTyped'
  BY <1>8, <1>t DEF DeleteProfile, ByAdmin, local, history, TimesTyped
<1>9. ASSUME NEW i \in Ids, Toggle(i) PROVE TimesTyped'
  BY <1>9, <1>t DEF Toggle, ByAdmin, local, history, TimesTyped
<1>10. CASE Crash \/ Tick \/ UNCHANGED vars
  BY <1>10, <1>t DEF Crash, Tick, vars, local, history, TimesTyped
<1> QED
  BY <1>1, <1>2, <1>3, <1>4, <1>5, <1>6, <1>7, <1>8, <1>9, <1>10 DEF Next, Capture

LEMMA TypedInit == Init => Typed
<1> SUFFICES ASSUME Init PROVE Typed
  OBVIOUS
<1>1. LocalsTyped /\ TimesTyped
  BY DEF Init, LocalsTyped, TimesTyped, Waits, Labels
<1>2. Cardinality(DOMAIN rows) \in Nat
  BY TablesAssumption, FS_CardinalityType DEF Init
<1>3. TableTyped
  BY <1>2, TablesAssumption DEF Init, TableTyped, Row, Sources
<1> QED BY <1>1, <1>3 DEF Typed

(* Every table, goroutine and time keeps its shape.                        *)
THEOREM ShapesKept == Spec => []Typed
<1>1. Typed /\ [Next]_vars => Typed'
  BY TableStep, LocalsStep, TimesStep DEF Typed
<1> QED BY TypedInit, <1>1, PTL DEF Spec

-----------------------------------------------------------------------------
(* What was read of the table *)

LEMMA SeenKept ==
  ASSUME Typed, Typed', Moves, NEW i, Seen(i)
  PROVE  Seen(i)'
<1> SUFFICES ASSUME i \in Nat PROVE i < nextId' /\ (i \in DOMAIN rows' => rows'[i].readable = TRUE)
  BY DEF Seen
<1>1. nextId \in Nat /\ nextId' \in Nat /\ i < nextId /\ nextId <= nextId'
  BY DEF Seen, Moves, Typed, TableTyped
<1>2. ASSUME i \in DOMAIN rows' PROVE rows'[i].readable = TRUE
  BY <1>1, <1>2 DEF Seen, Moves
<1>3. i < nextId'
  BY <1>1
<1> QED BY <1>2, <1>3

LEMMA OwnKept ==
  ASSUME Typed, Typed', Moves, NEW what, NEW i, Own(what, i)
  PROVE  i \in Ids /\ i < nextId' /\ (i \in DOMAIN rows' =>
           rows'[i].profile = what.profile /\ rows'[i].slot = what.slot)
<1>1. nextId \in Nat /\ nextId' \in Nat /\ i < nextId /\ nextId <= nextId' /\ i \in Nat /\ i \in Ids
  BY IdsAssumption DEF Own, Moves, Typed, TableTyped
<1>2. ASSUME i \in DOMAIN rows' PROVE rows'[i].profile = what.profile /\ rows'[i].slot = what.slot
  BY <1>1, <1>2 DEF Own, Moves
<1> QED BY <1>1, <1>2

(* One goroutine moves; what the lists hold was in them before.            *)
LEMMA ReadFrame ==
  ASSUME Typed, Typed', Moves, ReadInv, NEW p \in Procs,
         \A q \in Procs \ {p} : pc'[q] = pc[q] /\ job'[q] = job[q] /\ row'[q] = row[q],
         \A q \in Listers : \A account \in list'[q] : account \in list[q],
         pc'[p] \notin {"idle", "each"} => Seen(job'[p].id),
         pc'[p] = "update" => Own(job'[p], row'[p])
  PROVE  ReadInv'
<1>1. ASSUME NEW q \in Listers, NEW account \in list'[q] PROVE Seen(account.id)'
  BY <1>1, SeenKept DEF ReadInv
<1>2. ASSUME NEW q \in Procs, pc'[q] \notin {"idle", "each"} PROVE (Seen(job[q].id))'
  <2>1. Seen(job'[q].id)
    BY <1>2 DEF ReadInv, Waits
  <2> QED BY <2>1, SeenKept
<1>3. ASSUME NEW q \in Procs, pc'[q] = "update" PROVE (Own(job[q], row[q]))'
  <2>1. Own(job'[q], row'[q])
    BY <1>3 DEF ReadInv
  <2> QED BY <2>1, OwnKept DEF Own
<1> QED BY <1>1, <1>2, <1>3 DEF ReadInv, Waits

LEMMA ReadStep == Typed /\ Typed' /\ Moves /\ ReadInv /\ [Next]_vars => ReadInv'
<1> SUFFICES ASSUME Typed, Typed', Moves, ReadInv, [Next]_vars PROVE ReadInv'
  OBVIOUS
<1>t. LocalsTyped
  BY DEF Typed
<1>a. ASSUME NEW p \in Procs, ~Waits(p), NEW label \in Labels \ {"update"}, Goto(p, label),
             UNCHANGED <<job, list>>, \E value : row' = Set(row, p, value)
      PROVE  ReadInv'
  <2>1. \A q \in Procs \ {p} : pc'[q] = pc[q] /\ job'[q] = job[q] /\ row'[q] = row[q]
    BY <1>a, <1>t DEF LocalsTyped, Goto, Set
  <2>2. pc'[p] = label /\ Seen(job'[p].id)
    BY <1>a, <1>t DEF LocalsTyped, Goto, ReadInv
  <2> QED BY <1>a, <2>1, <2>2, ReadFrame
<1>r. ASSUME NEW p \in Procs, UNCHANGED row PROVE \E value : row' = Set(row, p, value)
  <2>1. row' = Set(row, p, row[p])
    BY <1>r, <1>t DEF LocalsTyped, Set
  <2> QED BY <2>1
<1>b. ASSUME NEW p \in Procs, NEW label \in {"idle", "each"}, Free(p, label), UNCHANGED list
      PROVE  ReadInv'
  <2>1. \A q \in Procs \ {p} : pc'[q] = pc[q] /\ job'[q] = job[q] /\ row'[q] = row[q]
    BY <1>b, <1>t DEF LocalsTyped, Free, Goto, Set
  <2>2. pc'[p] = label
    BY <1>b, <1>t DEF LocalsTyped, Free, Goto
  <2> QED BY <1>b, <2>1, <2>2, ReadFrame
<1>c. ASSUME NEW p \in Procs, NEW what, Seen(what.id), NEW label \in Labels \ {"update"},
             Take(p, what, label), \A q \in Listers : \A account \in list'[q] : account \in list[q]
      PROVE  ReadInv'
  <2>1. \A q \in Procs \ {p} : pc'[q] = pc[q] /\ job'[q] = job[q] /\ row'[q] = row[q]
    BY <1>c, <1>t DEF LocalsTyped, Take, Goto, Set
  <2>2. pc'[p] = label /\ job'[p] = what
    BY <1>c, <1>t DEF LocalsTyped, Take, Goto, Set
  <2> QED BY <1>c, <2>1, <2>2, ReadFrame
<1>n. Seen(None)
  BY IdsAssumption DEF Seen
<1>u. ASSUME UNCHANGED <<pc, job, row>>, \A q \in Listers : \A account \in list'[q] : account \in list[q]
      PROVE  ReadInv'
  <2>1. (pc'[Refresher] \notin {"idle", "each"} => Seen(job'[Refresher].id))
        /\ (pc'[Refresher] = "update" => Own(job'[Refresher], row'[Refresher]))
    BY <1>u, Members DEF ReadInv, Waits
  <2> QED BY <1>u, <2>1, Members, ReadFrame
<1>1. ASSUME NEW p \in Listers, StartRound(p) PROVE ReadInv'
  <2>1. ASSUME NEW q \in Listers, NEW account \in list'[q] PROVE Seen(account.id)
    <3>1. CASE account \in list[q]
      BY <3>1 DEF ReadInv
    <3>2. CASE account \notin list[q]
      <4>1. PICK i \in Listed : account = Account(i)
        BY <1>1, <1>t, <2>1, <3>2 DEF StartRound, LocalsTyped, Set
      <4> QED BY <4>1 DEF Account, Listed, Seen, Typed, TableTyped
    <3> QED BY <3>1, <3>2
  <2>2. ASSUME NEW q \in Listers, NEW account \in list'[q] PROVE Seen(account.id)'
    BY <2>1, <2>2, SeenKept
  <2>3. ASSUME NEW q \in Procs, pc'[q] \notin {"idle", "each"} PROVE pc'[q] = pc[q]
    BY <1>1, <1>t, <2>3, Members DEF StartRound, Goto, LocalsTyped
  <2>4. UNCHANGED <<rows, nextId, job, row>>
    BY <1>1 DEF StartRound
  <2> QED BY <2>2, <2>3, <2>4 DEF ReadInv, Waits, Seen, Own
<1>2. ASSUME NEW p \in Listers, NextAccount(p) PROVE ReadInv'
  <2>1. CASE Goto(p, "idle") /\ UNCHANGED <<list, job, row>>
    <3>1. \A q \in Procs \ {p} : pc'[q] = pc[q] /\ job'[q] = job[q] /\ row'[q] = row[q]
      BY <1>t, <2>1 DEF LocalsTyped, Goto
    <3>2. pc'[p] = "idle"
      BY <1>t, <2>1, Members DEF LocalsTyped, Goto
    <3> QED BY <2>1, <3>1, <3>2, Members, ReadFrame
  <2>2. ASSUME NEW account \in list[p], list' = Set(list, p, list[p] \ {account}),
               Take(p, account, "gate") \/ UNCHANGED <<pc, job, row>>
        PROVE  ReadInv'
    <3>1. Seen(account.id) /\ \A q \in Listers : \A other \in list'[q] : other \in list[q]
      BY <1>t, <2>2 DEF LocalsTyped, Set, ReadInv
    <3> QED BY <2>2, <3>1, <1>c, <1>u, Members DEF Labels
  <2> QED BY <1>2, <2>1, <2>2 DEF NextAccount
<1>3. ASSUME NEW p \in Admins, StartFetch(p) PROVE ReadInv'
  <2>1. PICK b \in Profiles :
          Take(p, [id |-> None, profile |-> b, slot |-> 0, source |-> "browser", on |-> TRUE], "gate")
    BY <1>3 DEF StartFetch
  <2>2. UNCHANGED list
    BY <1>3 DEF StartFetch
  <2> QED BY <1>c, <1>n, <2>1, <2>2, Members DEF Labels
<1>4. ASSUME NEW p \in Ingesters, Ingest(p) PROVE ReadInv'
  <2>1. PICK b \in Profiles, s \in Slots :
          Take(p, [id |-> None, profile |-> b, slot |-> s, source |-> "remote", on |-> TRUE], "lookup")
    BY <1>4 DEF Ingest
  <2>2. UNCHANGED list
    BY <1>4 DEF Ingest
  <2> QED BY <1>c, <1>n, <2>1, <2>2, Members DEF Labels
<1>5. ASSUME NEW p \in Admins, FetchResult(p) \/ NowResult(p) PROVE ReadInv'
  <2>1. CASE Goto(p, "verify") /\ UNCHANGED <<job, row>>
    <3>1. p \in Procs /\ ~Waits(p) /\ UNCHANGED list
      BY <1>5, Members DEF FetchResult, NowResult, AtResult, Waits
    <3> QED BY <2>1, <3>1, <1>a, <1>r DEF Labels
  <2>2. CASE \E label \in {"idle", "each"} : Free(p, label)
    BY <1>5, <2>2, <1>b, Members DEF FetchResult, NowResult, AtResult
  <2> QED BY <1>5, <2>1, <2>2 DEF FetchResult, NowResult
<1>6. ASSUME NEW p \in Procs, Gate(p) \/ Look(p) \/ Load(p) PROVE ReadInv'
  <2>1. ~Waits(p) /\ UNCHANGED <<job, list, row>>
    BY <1>6 DEF Gate, Look, Load, Asking, Waits
  <2>2. \E label \in Labels \ {"update"} : Goto(p, label)
    BY <1>6 DEF Gate, Look, Load, Ends, Labels
  <2> QED BY <2>1, <2>2, <1>a, <1>r
<1>7. ASSUME NEW p \in Procs, Lookup(p) PROVE ReadInv'
  <2>1. ~Waits(p) /\ UNCHANGED <<job, list>>
    BY <1>7 DEF Lookup, Storing, Waits
  <2>2. CASE Goto(p, "insert") /\ row' = Set(row, p, None)
    BY <2>1, <2>2, <1>a DEF Labels
  <2>3. ASSUME NEW i \in Mine(p), Goto(p, "update"), row' = Set(row, p, i)
        PROVE  ReadInv'
    <3>1. \A q \in Procs \ {p} : pc'[q] = pc[q] /\ job'[q] = job[q] /\ row'[q] = row[q]
      BY <1>t, <2>1, <2>3 DEF LocalsTyped, Goto, Set
    <3>2. job'[p] = job[p] /\ row'[p] = i /\ Seen(job[p].id)
      BY <1>t, <2>1, <2>3 DEF LocalsTyped, Set, ReadInv
    <3>3. Own(job[p], i)
      BY <2>3 DEF Mine, OfJob, Own, Profile, Typed, TableTyped
    <3> QED BY <2>1, <3>1, <3>2, <3>3, ReadFrame
  <2> QED BY <1>7, <2>2, <2>3 DEF Lookup
<1>8. ASSUME NEW p \in Procs, Update(p) \/ Merge(p) \/ Insert(p) PROVE ReadInv'
  <2>1. ~Waits(p) /\ UNCHANGED <<job, list, row>>
    BY <1>8 DEF Update, Merge, Insert, Storing, Waits
  <2>2. \E label \in Labels \ {"update"} : Goto(p, label)
    BY <1>8 DEF Update, Merge, Insert, Stored, Labels
  <2> QED BY <2>1, <2>2, <1>a, <1>r
<1>9. ASSUME NEW p \in Procs, StoreFails(p) PROVE ReadInv'
  <2>1. CASE Free(p, "idle")
    BY <1>9, <2>1, <1>b DEF StoreFails
  <2>2. CASE (Goto(p, "load") \/ Ends(p, "failed")) /\ UNCHANGED <<job, row>>
    <3>1. ~Waits(p) /\ UNCHANGED <<job, list, row>>
      BY <1>9, <2>2 DEF StoreFails, Waits
    <3>2. \E label \in Labels \ {"update"} : Goto(p, label)
      BY <2>2 DEF Ends, Labels
    <3> QED BY <3>1, <3>2, <1>a, <1>r
  <2> QED BY <1>9, <2>1, <2>2 DEF StoreFails
<1>10. ASSUME NEW p \in Procs, Schedule(p) PROVE ReadInv'
  BY <1>10, <1>a DEF Schedule, Ends, Waits, Labels
<1>11. ASSUME NEW p \in Procs, Verify(p) PROVE ReadInv'
  <2>1. CASE Free(p, "idle")
    BY <1>11, <2>1, <1>b DEF Verify
  <2>2. CASE Goto(p, "gate") /\ UNCHANGED <<job, row>>
    <3>1. ~Waits(p) /\ UNCHANGED list
      BY <1>11 DEF Verify, Waits
    <3> QED BY <2>2, <3>1, <1>a, <1>r DEF Labels
  <2> QED BY <1>11, <2>1, <2>2 DEF Verify
<1>12. CASE AutoResult
  BY <1>12, <1>b, Members DEF AutoResult, AtResult
<1>13. CASE Crash
  <2>1. (\A q \in Procs : pc'[q] = "idle") /\ (\A q \in Listers : list'[q] = {})
    BY <1>13 DEF Crash
  <2> QED BY <2>1 DEF ReadInv, Waits
<1>14. CASE UNCHANGED local
  BY <1>14, <1>u DEF local
<1> QED
  BY <1>1, <1>2, <1>3, <1>4, <1>5, <1>6, <1>7, <1>8, <1>9, <1>10, <1>11, <1>12, <1>13, <1>14
  DEF Next, Capture, DeleteProfile, Toggle, ByAdmin, Tick, vars

-----------------------------------------------------------------------------
(* One visible account per profile and slot *)

LEMMA KeysDiffer == \A b, c, s : <<"store", b, s>> # <<"capture", c>>
<1> SUFFICES ASSUME NEW b, NEW c, NEW s, <<"store", b, s>> = <<"capture", c>> PROVE FALSE
  OBVIOUS
<1>1. <<"store", b, s>>[1] = <<"capture", c>>[1]
  OBVIOUS
<1> QED BY <1>1

Visible(i) == i \in DOMAIN rows /\ rows[i].readable = TRUE

(* No account becomes visible, and nobody's excuse goes.                   *)
LEMMA TwinsFrame ==
  ASSUME Typed, Typed', Moves, TwinsInv,
         \A i \in DOMAIN rows' : rows'[i].readable = TRUE => Visible(i),
         \A key : key[1] = "store" /\ key \in cut => key \in cut',
         \A q \in Procs : pc[q] = "merge" => pc'[q] = "merge" /\ job'[q] = job[q]
  PROVE  TwinsInv'
<1>1. ASSUME NEW i \in DOMAIN rows', rows'[i].readable = TRUE
      PROVE  Visible(i) /\ rows'[i].profile = rows[i].profile /\ rows'[i].slot = rows[i].slot
  <2>1. i \in DOMAIN rows /\ i < nextId
    BY <1>1 DEF Visible, Typed, TableTyped
  <2> QED BY <1>1, <2>1 DEF Moves
<1>2. ASSUME NEW b, NEW s, Excused(b, s) PROVE Excused(b, s)'
  <2>1. <<"store", b, s>>[1] = "store"
    OBVIOUS
  <2> QED BY <1>2, <2>1 DEF Excused
<1>3. ASSUME NEW i \in DOMAIN rows', NEW j \in DOMAIN rows', i # j,
             rows'[i].readable = TRUE, rows'[j].readable = TRUE,
             rows'[i].profile = rows'[j].profile, rows'[i].slot = rows'[j].slot
      PROVE  Excused(rows[i].profile, rows[i].slot)
  BY <1>1, <1>3 DEF TwinsInv, Visible, Alike
<1>4. ASSUME NEW i \in DOMAIN rows', NEW j \in DOMAIN rows', i # j,
             rows'[i].readable = TRUE, rows'[j].readable = TRUE,
             rows'[i].profile = rows'[j].profile, rows'[i].slot = rows'[j].slot
      PROVE  (Excused(rows[i].profile, rows[i].slot))'
  <2>1. Excused(rows'[i].profile, rows'[i].slot)
    BY <1>1, <1>3, <1>4
  <2> QED BY <2>1, <1>2 DEF Excused
<1> QED BY <1>4 DEF TwinsInv, Alike

LEMMA TwinsUpdate ==
  ASSUME Typed, Typed', Moves, ReadInv, TwinsInv, NEW p \in Procs, Update(p)
  PROVE  TwinsInv'
<1> DEFINE k == row[p]
<1>1. /\ pc[p] = "update" /\ pc'[p] = "merge" /\ UNCHANGED <<job, cut, nextId>>
      /\ \A q \in Procs \ {p} : pc'[q] = pc[q]
  BY DEF Update, Storing, Goto, Typed, LocalsTyped
<1>2. DOMAIN rows' = DOMAIN rows /\ \A i \in DOMAIN rows \ {k} : rows'[i] = rows[i]
  BY DEF Update
<1>3. \A i \in DOMAIN rows : rows'[i].profile = rows[i].profile /\ rows'[i].slot = rows[i].slot
  BY <1>1, <1>2 DEF Moves, Typed, TableTyped
<1>4. k \in DOMAIN rows => rows[k].profile = job[p].profile /\ rows[k].slot = job[p].slot
  BY <1>1 DEF ReadInv, Own
<1>5. Excused(job[p].profile, job[p].slot)'
  BY <1>1 DEF Excused
<1>6. \A b, s : Excused(b, s) => Excused(b, s)'
  <2>1. \A q \in Procs : pc[q] = "merge" => pc'[q] = "merge"
    BY <1>1
  <2> QED BY <1>1, <2>1 DEF Excused
<1> HIDE DEF k
<1>7. ASSUME NEW i \in DOMAIN rows', NEW j \in DOMAIN rows', i # j,
             rows'[i].readable = TRUE, rows'[j].readable = TRUE,
             rows'[i].profile = rows'[j].profile, rows'[i].slot = rows'[j].slot
      PROVE  (Excused(rows[i].profile, rows[i].slot))'
  <2>1. i \in DOMAIN rows /\ j \in DOMAIN rows
    BY <1>2
  <2>2. CASE i = k \/ j = k
    <3>1. rows'[i].profile = job[p].profile /\ rows'[i].slot = job[p].slot
      BY <1>3, <1>4, <1>7, <2>1, <2>2
    <3> QED BY <1>1, <1>5, <3>1 DEF Excused
  <2>3. CASE i # k /\ j # k
    <3>1. Excused(rows[i].profile, rows[i].slot)
      BY <1>2, <1>7, <2>1, <2>3 DEF TwinsInv, Alike
    <3> QED BY <1>3, <1>6, <2>1, <3>1 DEF Excused
  <2> QED BY <2>2, <2>3
<1> QED BY <1>7 DEF TwinsInv, Alike

LEMMA TwinsMerge ==
  ASSUME Typed, Typed', Moves, TwinsInv, NEW p \in Procs, Merge(p)
  PROVE  TwinsInv'
<1> DEFINE key == <<"store", Profile(p), job[p].slot>>
<1>1. /\ pc[p] = "merge" /\ UNCHANGED <<job, nextId>>
      /\ \A q \in Procs \ {p} : pc'[q] = pc[q]
  BY DEF Merge, Storing, Stored, Goto, Typed, LocalsTyped
<1>2. ASSUME NEW b, NEW s, Excused(b, s), <<"store", b, s>> # key, cut \ {key} \subseteq cut'
      PROVE  Excused(b, s)'
  <2>1. CASE <<"store", b, s>> \in cut
    BY <1>2, <2>1 DEF Excused
  <2>2. ASSUME NEW q \in Procs, pc[q] = "merge", job[q].profile = b, job[q].slot = s
        PROVE  Excused(b, s)'
    <3>1. q # p
      BY <1>2, <2>2 DEF Profile
    <3> QED BY <1>1, <2>2, <3>1 DEF Excused
  <2> QED BY <1>2, <2>1, <2>2 DEF Excused
<1>3. CASE rows' = rows /\ cut' = cut \cup {key}
  <2>1. ASSUME NEW b, NEW s, Excused(b, s) PROVE Excused(b, s)'
    BY <1>2, <1>3, <2>1 DEF Excused
  <2> QED BY <1>3, <2>1 DEF TwinsInv, Alike, Excused
<1>4. CASE rows' = [i \in DOMAIN rows \ (Mine(p) \ {row[p]}) |-> rows[i]] /\ cut' = cut \ {key}
  <2>1. \A i \in DOMAIN rows' : i \in DOMAIN rows /\ rows'[i] = rows[i] /\ (i \in Mine(p) => i = row[p])
    BY <1>4
  <2>2. ASSUME NEW i \in DOMAIN rows', NEW j \in DOMAIN rows', i # j,
               rows'[i].readable = TRUE, rows'[j].readable = TRUE,
               rows'[i].profile = rows'[j].profile, rows'[i].slot = rows'[j].slot
        PROVE  (Excused(rows[i].profile, rows[i].slot))'
    <3>1. Excused(rows[i].profile, rows[i].slot)
      BY <2>1, <2>2 DEF TwinsInv, Alike
    <3>2. ~(i \in Mine(p) /\ j \in Mine(p))
      BY <2>1, <2>2
    <3>3. ~(rows[i].profile = Profile(p) /\ rows[i].slot = job[p].slot)
      BY <2>1, <2>2, <3>2 DEF Mine, OfJob
    <3>4. <<"store", rows[i].profile, rows[i].slot>> # key
      BY <3>3
    <3>5. \/ <<"store", rows[i].profile, rows[i].slot>> \in cut'
          \/ \E q \in Procs : pc'[q] = "merge" /\ job'[q].profile = rows[i].profile
                                             /\ job'[q].slot = rows[i].slot
      BY <1>2, <1>4, <2>1, <3>1, <3>4 DEF Excused
    <3> QED BY <2>1, <3>5 DEF Excused
  <2> QED BY <2>2 DEF TwinsInv, Alike
<1> QED BY <1>3, <1>4 DEF Merge

LEMMA TwinsCrash ==
  ASSUME Typed, Typed', Moves, TwinsInv, Crash
  PROVE  TwinsInv'
<1>1. UNCHANGED rows
  BY DEF Crash
<1>2. cut \cup {<<"store", Profile(p), job[p].slot>> : p \in {q \in Procs : pc[q] = "merge"}} \subseteq cut'
  BY DEF Crash
<1>3. ASSUME NEW b, NEW s, Excused(b, s) PROVE <<"store", b, s>> \in cut'
  BY <1>2, <1>3 DEF Excused, Profile
<1> QED BY <1>1, <1>3 DEF TwinsInv, Alike, Excused

LEMMA TwinsStep == Typed /\ Typed' /\ Moves /\ ReadInv /\ TwinsInv /\ [Next]_vars => TwinsInv'
<1> SUFFICES ASSUME Typed, Typed', Moves, ReadInv, TwinsInv, [Next]_vars PROVE TwinsInv'
  OBVIOUS
<1>t. LocalsTyped
  BY DEF Typed
<1>a. ASSUME NEW p \in Procs, pc[p] # "merge", NEW label, Goto(p, label),
             \A q \in Procs \ {p} : job'[q] = job[q],
             UNCHANGED cut, \A i \in DOMAIN rows' : rows'[i].readable = TRUE => Visible(i)
      PROVE  TwinsInv'
  <2>1. \A q \in Procs : pc[q] = "merge" => pc'[q] = "merge" /\ job'[q] = job[q]
    BY <1>a, <1>t DEF LocalsTyped, Goto
  <2> QED BY <1>a, <2>1, TwinsFrame
<1>v. UNCHANGED rows => \A i \in DOMAIN rows' : rows'[i].readable = TRUE => Visible(i)
  BY DEF Visible
<1>w. ASSUME NEW ids, rows' = [i \in DOMAIN rows \ ids |-> rows[i]]
      PROVE  \A i \in DOMAIN rows' : rows'[i].readable = TRUE => Visible(i)
  BY <1>w DEF Visible
<1>m. ASSUME NEW p \in Procs, ~Waits(p), rows' = Marked(job[p].id)
      PROVE  \A i \in DOMAIN rows' : rows'[i].readable = TRUE => Visible(i)
  <2>1. Seen(job[p].id)
    BY <1>m DEF ReadInv
  <2>2. \A i \in DOMAIN rows : i \in Nat
    BY IdsAssumption DEF Typed, TableTyped
  <2>3. job[p].id \in DOMAIN rows => Visible(job[p].id)
    BY <2>1, <2>2 DEF Seen, Visible
  <2>4. DOMAIN rows' = DOMAIN rows /\ \A i \in DOMAIN rows \ {job[p].id} : rows'[i] = rows[i]
    BY <1>m DEF Marked
  <2> QED BY <2>3, <2>4 DEF Visible
<1>o. ASSUME NEW p \in Procs, (\E what : job' = Set(job, p, what)) \/ UNCHANGED job
      PROVE  \A q \in Procs \ {p} : job'[q] = job[q]
  BY <1>o, <1>t DEF LocalsTyped, Set
<1>u. ASSUME UNCHANGED <<pc, job, cut>>, \A i \in DOMAIN rows' : rows'[i].readable = TRUE => Visible(i)
      PROVE  TwinsInv'
  BY <1>u, TwinsFrame
<1>1. ASSUME NEW p \in Listers, StartRound(p) PROVE TwinsInv'
  BY <1>1, <1>a, <1>o, <1>v, Members DEF StartRound, history
<1>2. ASSUME NEW p \in Listers, NextAccount(p) PROVE TwinsInv'
  <2>1. UNCHANGED <<rows, cut>> /\ pc[p] # "merge"
    BY <1>2 DEF NextAccount
  <2>2. UNCHANGED <<pc, job>> \/ \E label : Goto(p, label) /\ ((\E what : job' = Set(job, p, what)) \/ UNCHANGED job)
    BY <1>2 DEF NextAccount, Take
  <2> QED BY <2>1, <2>2, <1>a, <1>o, <1>u, <1>v, Members
<1>3. ASSUME NEW p \in Procs, StartFetch(p) \/ Ingest(p) PROVE TwinsInv'
  <2>1. UNCHANGED <<rows, cut>> /\ pc[p] # "merge"
    BY <1>3 DEF StartFetch, Ingest
  <2>2. \E label : Goto(p, label) /\ \E what : job' = Set(job, p, what)
    BY <1>3 DEF StartFetch, Ingest, Take
  <2> QED BY <2>1, <2>2, <1>a, <1>o, <1>v
<1>4. ASSUME NEW p \in Procs, FetchResult(p) \/ Verify(p) \/ StoreFails(p) PROVE TwinsInv'
  <2>1. UNCHANGED <<rows, cut>> /\ pc[p] # "merge"
    BY <1>4 DEF FetchResult, AtResult, Verify, StoreFails
  <2>2. \E label : Goto(p, label) /\ ((\E what : job' = Set(job, p, what)) \/ UNCHANGED job)
    BY <1>4 DEF FetchResult, Verify, StoreFails, Free, Ends
  <2> QED BY <2>1, <2>2, <1>a, <1>o, <1>v
<1>5. ASSUME NEW p \in Procs, Gate(p) PROVE TwinsInv'
  <2>1. \A q \in Procs : pc[q] = "merge" => pc'[q] = "merge" /\ job'[q] = job[q]
    BY <1>5, <1>t DEF Gate, Ends, Goto, LocalsTyped
  <2>2. \A key : key[1] = "store" /\ key \in cut => key \in cut'
    <3>1. cut' = cut \/ cut' = cut \ {<<"capture", Profile(p)>>}
      BY <1>5 DEF Gate
    <3>2. <<"capture", Profile(p)>>[1] # "store"
      OBVIOUS
    <3> QED BY <3>1, <3>2
  <2> QED BY <1>5, <1>v, <2>1, <2>2, TwinsFrame DEF Gate
<1>6. ASSUME NEW p \in Procs, Look(p) \/ Load(p) \/ Lookup(p) \/ Schedule(p) PROVE TwinsInv'
  <2>1. UNCHANGED <<rows, cut, job>> /\ pc[p] # "merge"
    BY <1>6 DEF Look, Load, Asking, Lookup, Storing, Schedule
  <2>2. \E label : Goto(p, label)
    BY <1>6 DEF Look, Load, Lookup, Schedule, Ends
  <2> QED BY <2>1, <2>2, <1>a, <1>o, <1>v
<1>7. ASSUME NEW p \in Procs, Update(p) PROVE TwinsInv'
  BY <1>7, TwinsUpdate
<1>8. ASSUME NEW p \in Procs, Merge(p) PROVE TwinsInv'
  BY <1>8, TwinsMerge
<1>9. ASSUME NEW p \in Procs, Insert(p) PROVE TwinsInv'
  <2>1. /\ DOMAIN rows' = DOMAIN rows \cup {nextId}
        /\ \A i \in DOMAIN rows : rows'[i] = rows[i]
    BY <1>9 DEF Insert
  <2>2. nextId \notin DOMAIN rows
    BY DEF Typed, TableTyped
  <2>3. rows'[nextId].readable = FALSE
    BY <1>9, <2>2 DEF Insert
  <2>4. \A i \in DOMAIN rows' : rows'[i].readable = TRUE => Visible(i)
    BY <2>1, <2>3 DEF Visible
  <2> QED BY <1>9, <2>4, <1>a DEF Insert, Storing, Stored
<1>10. ASSUME NEW p \in Admins, NowResult(p) PROVE TwinsInv'
  <2>1. p \in Procs /\ ~Waits(p) /\ pc[p] # "merge" /\ UNCHANGED cut
    BY <1>10, Members DEF NowResult, AtResult, Waits
  <2>2. Goto(p, "each") /\ \E what : job' = Set(job, p, what)
    BY <1>10 DEF NowResult, Free
  <2>3. \A i \in DOMAIN rows' : rows'[i].readable = TRUE => Visible(i)
    BY <1>10, <2>1, <1>m, <1>v DEF NowResult
  <2> QED BY <2>1, <2>2, <2>3, <1>a, <1>o
<1>11. CASE AutoResult
  <2>1. ~Waits(Refresher) /\ pc[Refresher] # "merge" /\ UNCHANGED cut
    BY <1>11 DEF AutoResult, AtResult, Waits
  <2>2. Goto(Refresher, "each") /\ \E what : job' = Set(job, Refresher, what)
    BY <1>11 DEF AutoResult, Free
  <2>3. rows' = rows \/ rows' = Marked(job[Refresher].id) \/ rows' = Without({job[Refresher].id})
    BY <1>11 DEF AutoResult
  <2>4. \A i \in DOMAIN rows' : rows'[i].readable = TRUE => Visible(i)
    BY <2>1, <2>3, <1>m, <1>v, <1>w, Members DEF Without
  <2> QED BY <2>1, <2>2, <2>4, <1>a, <1>o, Members
<1>12. ASSUME NEW b \in Profiles, DeleteProfile(b) PROVE TwinsInv'
  BY <1>12, <1>u, <1>w DEF DeleteProfile, ByAdmin, local, history, Without
<1>13. ASSUME NEW k \in Ids, Toggle(k) PROVE TwinsInv'
  <2>1. k \in DOMAIN rows /\ rows[k] \in Row
    BY <1>13 DEF Toggle, Listed, Typed, TableTyped
  <2>2. Visible(k)
    BY <1>13, <2>1 DEF Toggle, Listed, Visible, Row
  <2>3. DOMAIN rows' = DOMAIN rows /\ \A i \in DOMAIN rows \ {k} : rows'[i] = rows[i]
    BY <1>13 DEF Toggle
  <2>4. \A i \in DOMAIN rows' : rows'[i].readable = TRUE => Visible(i)
    BY <2>2, <2>3 DEF Visible
  <2> QED BY <1>13, <2>4, <1>u DEF Toggle, ByAdmin, local, history
<1>14. CASE Crash
  BY <1>14, TwinsCrash
<1>15. CASE Tick \/ UNCHANGED vars
  BY <1>15, <1>u, <1>v DEF Tick, vars, local, history
<1> QED
  BY <1>1, <1>2, <1>3, <1>4, <1>5, <1>6, <1>7, <1>8, <1>9, <1>10, <1>11, <1>12, <1>13, <1>14, <1>15, Members
  DEF Next, Capture

(* Rows that are equal whenever they are visible are at most one.          *)
LEMMA TwinsOnce == Typed /\ TwinsInv => VisibleOnce
<1> SUFFICES ASSUME Typed, TwinsInv, NEW b \in Profiles, NEW s \in Slots, ~Excused(b, s)
             PROVE  Cardinality(Twins(b, s)) <= 1
  BY DEF VisibleOnce, Excused
<1>1. \A i, j \in Twins(b, s) : i = j
  <2> SUFFICES ASSUME NEW i \in Twins(b, s), NEW j \in Twins(b, s) PROVE i = j
    OBVIOUS
  <2>1. i \in DOMAIN rows /\ j \in DOMAIN rows /\ rows[i] \in Row /\ rows[j] \in Row
    BY DEF Twins, Listed, Typed, TableTyped
  <2>2. rows[i].readable = TRUE /\ rows[j].readable = TRUE
    BY <2>1 DEF Twins, Listed, Row
  <2>3. rows[i].profile = b /\ rows[i].slot = s /\ Alike(i, j)
    BY DEF Twins, Alike
  <2> QED BY <2>1, <2>2, <2>3 DEF TwinsInv
<1>2. CASE Twins(b, s) = {}
  BY <1>2, FS_EmptySet
<1>3. ASSUME NEW i \in Twins(b, s) PROVE Cardinality(Twins(b, s)) <= 1
  <2>1. Twins(b, s) = {i}
    BY <1>1, <1>3
  <2> QED BY <2>1, FS_Singleton
<1> QED BY <1>2, <1>3

(* An account is visible once per profile and slot, whoever stores it and  *)
(* wherever a restart comes between.                                       *)
THEOREM OneVisible == Spec => []VisibleOnce
<1>1. Init => ReadInv /\ TwinsInv
  <2> SUFFICES ASSUME Init PROVE ReadInv /\ TwinsInv
    OBVIOUS
  <2>1. ReadInv
    BY DEF Init, ReadInv, Waits
  <2>2. TwinsInv
    BY TablesAssumption DEF Init, TwinsInv, Alike
  <2> QED BY <2>1, <2>2
<1>2. Typed /\ Typed' /\ ReadInv /\ TwinsInv /\ [Next]_vars => ReadInv' /\ TwinsInv'
  BY TableStep, ReadStep, TwinsStep
<1> QED
  BY <1>1, <1>2, ShapesKept, TwinsOnce, PTL DEF Spec

-----------------------------------------------------------------------------
(* The refresher keeps its distance *)

LEMMA TimesAre ==
  ASSUME Typed, NEW b \in Profiles
  PROVE  /\ now \in Nat /\ began \in Nat /\ due[b] \in Nat /\ Cooldown \in Nat
         /\ autoAt[b] # None => autoAt[b] \in Nat
  BY TimesAssumption DEF Typed, TimesTyped

(* Others move, and whatever they schedule is due after a cooldown.        *)
LEMMA SpaceFrame ==
  ASSUME Typed, Typed', SpaceInv, UNCHANGED <<autoAt, began>>, now <= now',
         pc'[Refresher] = pc[Refresher], job'[Refresher] = job[Refresher],
         result'[Refresher] = result[Refresher],
         \A b \in Profiles : <<"capture", b>> \in cut => <<"capture", b>> \in cut',
         \A b \in Profiles : due'[b] = due[b] \/ now + Cooldown <= due'[b]
  PROVE  SpaceInv'
<1>1. began <= now' /\ pc'[Refresher] # "verify"
  BY DEF SpaceInv, Typed, TimesTyped
<1>2. \A b \in Profiles : autoAt[b] # None => autoAt[b] <= now'
  <2> SUFFICES ASSUME NEW b \in Profiles, autoAt[b] # None PROVE autoAt[b] <= now'
    OBVIOUS
  <2>1. now' \in Nat /\ autoAt[b] <= now
    BY DEF Typed, TimesTyped, SpaceInv
  <2> QED BY <2>1, TimesAre
<1>3. ASSUME NEW b \in Profiles, Apart(b, due[b]) PROVE Apart(b, due'[b])
  <2> SUFFICES ASSUME autoAt[b] # None PROVE autoAt[b] + Cooldown <= due'[b]
    BY DEF Apart
  <2>1. autoAt[b] \in Nat /\ autoAt[b] <= now /\ due'[b] \in Nat
    BY TimesAre DEF SpaceInv, Typed, TimesTyped
  <2>2. CASE due'[b] = due[b]
    BY <1>3, <2>2 DEF Apart
  <2>3. CASE now + Cooldown <= due'[b]
    BY <2>1, <2>3, TimesAre
  <2> QED BY <2>2, <2>3
<1>4. ASSUME NEW b \in Profiles, Apart(b, now) PROVE Apart(b, now')
  <2> SUFFICES ASSUME autoAt[b] # None PROVE autoAt[b] + Cooldown <= now'
    BY DEF Apart
  <2>1. now' \in Nat
    BY DEF Typed, TimesTyped
  <2> QED BY <1>4, <2>1, TimesAre DEF Apart
<1>5. pc[Refresher] \notin {"idle", "each"} => Profile(Refresher) \in Profiles
  BY Members DEF Typed, LocalsTyped, Waits, Job, Profile
<1>6. \A b \in Profiles :
        <<"capture", b>> \notin cut' /\ ~(Capturing /\ Profile(Refresher) = b) => Apart(b, due'[b])
  BY <1>3 DEF SpaceInv
<1>7. pc[Refresher] = "gate" /\ <<"capture", Profile(Refresher)>> \notin cut' => Apart(Profile(Refresher), now')
  BY <1>4, <1>5 DEF SpaceInv
<1>8. pc[Refresher] = "result" /\ result[Refresher] = "ok" => Apart(Profile(Refresher), due'[Profile(Refresher)])
  BY <1>3, <1>5 DEF SpaceInv
<1> QED BY <1>1, <1>2, <1>6, <1>7, <1>8 DEF SpaceInv, Apart, Capturing, Profile

(* The refresher goes on with a capture, which has not succeeded yet.      *)
LEMMA SpaceCapture ==
  ASSUME Typed, SpaceInv, Capturing, UNCHANGED <<autoAt, began, now, due>>,
         pc'[Refresher] \notin {"idle", "each", "gate", "verify"}, job'[Refresher] = job[Refresher],
         pc'[Refresher] = "result" => result'[Refresher] # "ok",
         \A b \in Profiles : <<"capture", b>> \in cut => <<"capture", b>> \in cut'
  PROVE  SpaceInv'
  BY DEF SpaceInv, Apart, Capturing, Profile

LEMMA SpaceOthers ==
  ASSUME Typed, Typed', SpaceInv, NEW p \in Procs \ {Refresher}, Capture(p) \/ Verify(p)
  PROVE  SpaceInv'
<1>t. LocalsTyped /\ DOMAIN due = Profiles
  BY DEF Typed, TimesTyped
<1>1. UNCHANGED <<now, began, autoAt>>
  BY DEF Capture, Verify, Gate, Look, Load, Asking, Lookup, Update, Merge, Insert, Storing,
         StoreFails, Schedule
<1>2. pc'[Refresher] = pc[Refresher]
  <2>1. \E label : Goto(p, label)
    BY DEF Capture, Verify, Gate, Look, Load, Lookup, Update, Merge, Insert, Stored, Ends, Free,
           StoreFails, Schedule
  <2> QED BY <1>t, <2>1, Members DEF LocalsTyped, Goto
<1>3. job'[Refresher] = job[Refresher]
  <2>1. UNCHANGED job \/ job' = Set(job, p, None)
    BY DEF Capture, Verify, Gate, Look, Load, Asking, Lookup, Update, Merge, Insert, Storing, Free,
           StoreFails, Schedule
  <2> QED BY <1>t, <2>1, Members DEF LocalsTyped, Set
<1>4. result'[Refresher] = result[Refresher]
  <2>1. UNCHANGED result \/ \E how : result' = Set(result, p, how)
    BY DEF Capture, Verify, Gate, Look, Load, Lookup, Update, Merge, Insert, Ends, Free,
           StoreFails, Schedule
  <2> QED BY <1>t, <2>1, Members DEF LocalsTyped, Set
<1>5. \A b \in Profiles : <<"capture", b>> \in cut => <<"capture", b>> \in cut'
  <2>1. \/ UNCHANGED cut
        \/ \E b, s : cut' = cut \ {<<"store", b, s>>} \/ cut' = cut \cup {<<"store", b, s>>}
    BY DEF Capture, Verify, Gate, Look, Load, Asking, Lookup, Update, Merge, Insert,
           StoreFails, Schedule
  <2> QED BY <2>1, KeysDiffer
<1>6. \A b \in Profiles : due'[b] = due[b] \/ now + Cooldown <= due'[b]
  <2>1. CASE UNCHANGED due
    BY <2>1
  <2>2. CASE Schedule(p)
    <3>1. PICK gap \in Cooldown..MaxGap : due' = [due EXCEPT ![Profile(p)] = now + gap]
      BY <2>2 DEF Schedule
    <3>2. now + Cooldown <= now + gap
      BY TimesAssumption DEF Typed, TimesTyped
    <3> QED BY <1>t, <3>1, <3>2
  <2> QED
    BY <2>1, <2>2 DEF Capture, Verify, Gate, Look, Load, Asking, Lookup, Update, Merge, Insert, Storing,
                      StoreFails
<1>7. now <= now'
  BY <1>1 DEF Typed, TimesTyped
<1> QED BY <1>1, <1>2, <1>3, <1>4, <1>5, <1>6, <1>7, SpaceFrame

LEMMA SpaceGate ==
  ASSUME Typed, SpaceInv, Gate(Refresher)
  PROVE  SpaceInv'
<1> DEFINE b == Profile(Refresher)
<1>1. /\ pc[Refresher] = "gate" /\ b \in Profiles
      /\ UNCHANGED <<now, began, due, job>>
  BY Members DEF Gate, Typed, LocalsTyped, Waits, Job, Profile
<1>2. CASE Ends(Refresher, "failed") /\ UNCHANGED <<autoAt, cut>>
  <2>1. pc'[Refresher] = "result" /\ result'[Refresher] = "failed"
    BY <1>2, Members DEF Ends, Goto, Set, Typed, LocalsTyped
  <2> QED BY <1>1, <1>2, <2>1 DEF SpaceInv, Apart, Capturing, Profile
<1>3. CASE /\ autoAt' = [autoAt EXCEPT ![b] = now] /\ cut' = cut \ {<<"capture", b>>}
           /\ Goto(Refresher, "look")
  <2>1. pc'[Refresher] = "look"
    BY <1>3, Members DEF Goto, Typed, LocalsTyped
  <2>2. autoAt'[b] = now /\ \A other \in Profiles \ {b} : autoAt'[other] = autoAt[other]
    BY <1>1, <1>3 DEF Typed, TimesTyped
  <2>3. \A other \in Profiles \ {b} : <<"capture", other>> \notin cut' => <<"capture", other>> \notin cut
    <3>1. \A other \in Profiles \ {b} : <<"capture", other>> # <<"capture", b>>
      OBVIOUS
    <3> QED BY <1>3, <3>1
  <2>4. \A other \in Profiles \ {b} : <<"capture", other>> \notin cut' => Apart(other, due[other])'
    BY <1>1, <2>2, <2>3 DEF SpaceInv, Apart, Capturing
  <2>5. \A other \in Profiles : autoAt'[other] # None => autoAt'[other] <= now'
    BY <1>1, <2>2, TimesAre DEF SpaceInv
  <2>6. Profile(Refresher)' = b /\ began' <= now'
    BY <1>1 DEF Profile, SpaceInv
  <2> QED BY <1>1, <2>1, <2>4, <2>5, <2>6 DEF SpaceInv, Capturing
<1> QED BY <1>2, <1>3 DEF Gate

LEMMA SpaceResult ==
  ASSUME Typed, SpaceInv, AutoResult
  PROVE  SpaceInv'
<1> DEFINE b == Profile(Refresher)
<1>1. /\ pc[Refresher] = "result" /\ pc'[Refresher] = "each" /\ b \in Profiles
      /\ UNCHANGED <<now, began, cut>>
  BY Members DEF AutoResult, AtResult, Free, Goto, Typed, LocalsTyped, Waits, Job, Profile
<1>2. /\ \A other \in Profiles \ {b} : autoAt'[other] = autoAt[other] /\ due'[other] = due[other]
      /\ autoAt'[b] \in {autoAt[b], None}
  BY <1>1 DEF AutoResult, Forgets, Typed, TimesTyped
<1>3. autoAt'[b] # None => autoAt'[b] + Cooldown <= due'[b]
  <2>1. CASE result[Refresher] = "incomplete"
    <3>1. autoAt'[b] = None
      BY <1>1, <2>1 DEF AutoResult, Forgets, Typed, TimesTyped
    <3> QED BY <3>1
  <2>2. CASE result[Refresher] = "ok"
    <3>1. UNCHANGED <<autoAt, due>>
      BY <2>2 DEF AutoResult, Forgets
    <3> QED BY <1>1, <2>2, <3>1 DEF SpaceInv, Apart
  <2>3. CASE result[Refresher] \notin {"ok", "incomplete"}
    <3>1. autoAt' = autoAt /\ due'[b] \in {now + Defer, now + Cooldown}
      BY <1>1, <2>3 DEF AutoResult, Forgets, Typed, TimesTyped
    <3>2. autoAt[b] # None => autoAt[b] \in Nat /\ autoAt[b] <= now
      BY <1>1, TimesAre DEF SpaceInv
    <3>3. autoAt[b] # None => autoAt[b] + Cooldown <= now + Cooldown /\ autoAt[b] + Cooldown <= now + Defer
      BY <1>1, <3>2, TimesAre, TimesAssumption
    <3> QED BY <3>1, <3>3 DEF Apart
  <2> QED BY <2>1, <2>2, <2>3
<1>4. ASSUME NEW other \in Profiles, other # b, <<"capture", other>> \notin cut'
      PROVE  autoAt'[other] # None => autoAt'[other] + Cooldown <= due'[other]
  BY <1>1, <1>2, <1>4 DEF SpaceInv, Apart
<1>5. \A other \in Profiles : autoAt'[other] # None => autoAt'[other] <= now'
  BY <1>1, <1>2 DEF SpaceInv
<1>6. \A other \in Profiles : <<"capture", other>> \notin cut' => Apart(other, due[other])'
  BY <1>3, <1>4 DEF Apart
<1> QED BY <1>1, <1>5, <1>6 DEF SpaceInv

LEMMA SpaceSchedule ==
  ASSUME Typed, SpaceInv, Schedule(Refresher)
  PROVE  SpaceInv'
<1> DEFINE b == Profile(Refresher)
<1>1. /\ pc[Refresher] = "schedule" /\ pc'[Refresher] = "result" /\ b \in Profiles
      /\ UNCHANGED <<now, began, cut, job, autoAt>>
  BY Members DEF Schedule, Ends, Goto, Typed, LocalsTyped, Waits, Job, Profile
<1>2. PICK gap \in Cooldown..MaxGap : due' = [due EXCEPT ![b] = now + gap]
  BY DEF Schedule
<1>3. due'[b] = now + gap /\ \A other \in Profiles \ {b} : due'[other] = due[other]
  BY <1>1, <1>2 DEF Typed, TimesTyped
<1>4. autoAt[b] # None => autoAt[b] + Cooldown <= now + gap
  <2>1. autoAt[b] # None => autoAt[b] \in Nat /\ autoAt[b] <= now
    BY <1>1, TimesAre DEF SpaceInv
  <2> QED BY <1>1, <2>1, TimesAre, TimesAssumption
<1>5. Apart(b, due'[b])
  BY <1>3, <1>4 DEF Apart
<1>6. \A other \in Profiles \ {b} : <<"capture", other>> \notin cut => Apart(other, due'[other])
  BY <1>3 DEF SpaceInv
<1> QED BY <1>1, <1>5, <1>6 DEF SpaceInv, Apart, Capturing, Profile

LEMMA SpaceStep == Typed /\ Typed' /\ SpaceInv /\ [Next]_vars => SpaceInv'
<1> SUFFICES ASSUME Typed, Typed', SpaceInv, [Next]_vars PROVE SpaceInv'
  OBVIOUS
<1>t. LocalsTyped
  BY DEF Typed
<1>q. ASSUME UNCHANGED <<autoAt, began, now, due, cut>>, pc'[Refresher] = pc[Refresher],
             job'[Refresher] = job[Refresher], result'[Refresher] = result[Refresher]
      PROVE  SpaceInv'
  BY <1>q, SpaceFrame DEF Typed, TimesTyped
<1>1. ASSUME NEW p \in Admins, StartRound(p) \/ NextAccount(p) \/ StartFetch(p) PROVE SpaceInv'
  <2>1. UNCHANGED <<autoAt, began, now, due, cut>>
    BY <1>1, Members DEF StartRound, NextAccount, StartFetch, history
  <2>2. UNCHANGED <<pc, job, result>> \/ (UNCHANGED <<job, result>> /\ \E label : Goto(p, label))
        \/ (UNCHANGED result /\ \E label, what : Goto(p, label) /\ job' = Set(job, p, what))
    BY <1>1 DEF StartRound, NextAccount, StartFetch, Take
  <2>3. /\ pc'[Refresher] = pc[Refresher] /\ job'[Refresher] = job[Refresher]
        /\ result'[Refresher] = result[Refresher]
    BY <1>t, <2>2, Members DEF LocalsTyped, Goto, Set
  <2> QED BY <2>1, <2>3, <1>q
<1>2. ASSUME NEW p \in Ingesters, Ingest(p) PROVE SpaceInv'
  <2>1. UNCHANGED <<autoAt, began, now, due, cut, result>>
    BY <1>2 DEF Ingest, Take
  <2>2. \E label, what : Goto(p, label) /\ job' = Set(job, p, what)
    BY <1>2 DEF Ingest, Take
  <2>3. pc'[Refresher] = pc[Refresher] /\ job'[Refresher] = job[Refresher]
    BY <1>t, <2>2, Members DEF LocalsTyped, Goto, Set
  <2> QED BY <2>1, <2>3, <1>q
<1>3. ASSUME NEW p \in Admins, FetchResult(p) \/ NowResult(p) PROVE SpaceInv'
  <2>1. UNCHANGED <<autoAt, began, now, due, cut>>
    BY <1>3 DEF FetchResult, NowResult, AtResult
  <2>2. /\ \E label : Goto(p, label)
        /\ UNCHANGED job \/ job' = Set(job, p, None)
        /\ result' = Set(result, p, None)
    BY <1>3 DEF FetchResult, NowResult, Free
  <2>3. /\ pc'[Refresher] = pc[Refresher] /\ job'[Refresher] = job[Refresher]
        /\ result'[Refresher] = result[Refresher]
    BY <1>t, <2>2, Members DEF LocalsTyped, Goto, Set
  <2> QED BY <2>1, <2>3, <1>q
<1>4. CASE StartRound(Refresher)
  <2>1. /\ pc[Refresher] = "idle" /\ pc'[Refresher] = "each" /\ began' = now
        /\ UNCHANGED <<autoAt, now, due, cut>>
    BY <1>4, <1>t, Members DEF StartRound, Goto, LocalsTyped, history
  <2>2. now <= now
    BY DEF Typed, TimesTyped
  <2> QED BY <2>1, <2>2 DEF SpaceInv, Apart, Capturing
<1>5. CASE NextAccount(Refresher)
  <2>1. pc[Refresher] = "each" /\ UNCHANGED <<autoAt, now, due, cut>>
    BY <1>5 DEF NextAccount
  <2>2. CASE Goto(Refresher, "idle") /\ began' = 0
    <3>1. pc'[Refresher] = "idle" /\ 0 <= now
      BY <2>2, <1>t, Members DEF Goto, LocalsTyped, Typed, TimesTyped
    <3> QED BY <2>1, <2>2, <3>1 DEF SpaceInv, Apart, Capturing
  <2>3. CASE UNCHANGED <<pc, began>>
    BY <2>1, <2>3 DEF SpaceInv, Apart, Capturing
  <2>4. ASSUME NEW account \in list[Refresher], Wanted(Refresher, account),
               Take(Refresher, account, "gate"), UNCHANGED began
        PROVE  SpaceInv'
    <3>1. pc'[Refresher] = "gate" /\ job'[Refresher] = account
      BY <2>4, <1>t, Members DEF Take, Goto, Set, LocalsTyped
    <3>2. account.profile \in Profiles /\ due[account.profile] <= now
      <4>1. account \in Job
        BY <1>t, Members DEF LocalsTyped
      <4>2. account.profile \in Profiles /\ due[account.profile] <= began /\ began <= now
        BY <2>4, <4>1 DEF Wanted, Job, SpaceInv
      <4> QED BY <4>2, TimesAre
    <3>3. <<"capture", account.profile>> \notin cut => Apart(account.profile, now)
      <4> SUFFICES ASSUME <<"capture", account.profile>> \notin cut, autoAt[account.profile] # None
                   PROVE  autoAt[account.profile] + Cooldown <= now
        BY DEF Apart
      <4>1. autoAt[account.profile] + Cooldown <= due[account.profile]
        BY <2>1, <3>2 DEF SpaceInv, Apart, Capturing
      <4> QED BY <3>2, <4>1, TimesAre
    <3>4. pc[Refresher] = "each" /\ ~Capturing /\ ~Capturing'
      BY <2>1, <3>1 DEF Capturing
    <3>5. (Profile(Refresher))' = account.profile
      BY <3>1 DEF Profile
    <3> QED BY <2>1, <2>4, <3>1, <3>3, <3>4, <3>5 DEF SpaceInv, Apart
  <2> QED BY <1>5, <2>2, <2>3, <2>4 DEF NextAccount
<1>6. ASSUME NEW p \in Procs, Capture(p) \/ Verify(p), p # Refresher PROVE SpaceInv'
  BY <1>6, SpaceOthers
<1>7. CASE Gate(Refresher)
  BY <1>7, SpaceGate
<1>8. CASE Schedule(Refresher)
  BY <1>8, SpaceSchedule
<1>9. CASE Look(Refresher) \/ Load(Refresher) \/ Lookup(Refresher)
  <2>1. /\ Capturing /\ UNCHANGED <<autoAt, began, now, due, cut, job>>
        /\ pc'[Refresher] \in {"lookup", "load", "insert", "update", "result"}
        /\ pc'[Refresher] = "result" => result'[Refresher] # "ok"
    BY <1>9, <1>t, Members DEF Look, Load, Lookup, Asking, Storing, Ends, Goto, Set, LocalsTyped, Capturing
  <2> QED BY <2>1, SpaceCapture
<1>10. CASE Update(Refresher) \/ Merge(Refresher) \/ Insert(Refresher)
  <2>1. /\ Capturing /\ UNCHANGED <<autoAt, began, now, due, job>>
        /\ pc'[Refresher] \in {"merge", "schedule"}
    BY <1>10, <1>t, Members DEF Update, Merge, Insert, Stored, Storing, Goto, LocalsTyped, Capturing
  <2>2. \/ UNCHANGED cut
        \/ \E b, s : cut' = cut \ {<<"store", b, s>>} \/ cut' = cut \cup {<<"store", b, s>>}
    BY <1>10 DEF Update, Merge, Insert
  <2> QED BY <2>1, <2>2, KeysDiffer, SpaceCapture
<1>11. CASE StoreFails(Refresher)
  <2>1. /\ Capturing /\ UNCHANGED <<autoAt, began, now, due, cut, job>>
        /\ pc'[Refresher] \in {"load", "result"}
        /\ pc'[Refresher] = "result" => result'[Refresher] # "ok"
    BY <1>11, <1>t, Members DEF StoreFails, Ends, Goto, Set, LocalsTyped, Capturing
  <2> QED BY <2>1, SpaceCapture
<1>12. CASE AutoResult
  BY <1>12, SpaceResult
<1>13. CASE Crash
  <2>1. /\ pc'[Refresher] = "idle" /\ began' = 0 /\ UNCHANGED <<autoAt, now, due>>
        /\ 0 <= now
    BY <1>13, Members DEF Crash, Typed, TimesTyped
  <2>2. cut \subseteq cut' /\ (Capturing => <<"capture", Profile(Refresher)>> \in cut')
    BY <1>13 DEF Crash, Capturing
  <2> QED BY <2>1, <2>2 DEF SpaceInv, Apart, Capturing
<1>14. CASE Tick
  BY <1>14, SpaceFrame DEF Tick, local, history, Typed, TimesTyped
<1>15. CASE (\E b \in Profiles : DeleteProfile(b)) \/ (\E i \in Ids : Toggle(i)) \/ UNCHANGED vars
  BY <1>15, <1>q DEF DeleteProfile, Toggle, ByAdmin, vars, local, history
<1>16. ~Verify(Refresher)
  BY DEF Verify, SpaceInv
<1> QED
  BY <1>1, <1>2, <1>3, <1>4, <1>5, <1>6, <1>7, <1>8, <1>9, <1>10, <1>11, <1>12, <1>13, <1>14, <1>15, <1>16
  DEF Next, Capture, Listers

LEMMA SpaceNow ==
  ASSUME Typed, SpaceInv, [Next]_vars, NEW b \in Profiles, autoAt'[b] # autoAt[b],
         autoAt[b] # None, autoAt'[b] # None, <<"capture", b>> \notin cut
  PROVE  autoAt'[b] - autoAt[b] >= Cooldown
<1>1. Gate(Refresher) \/ (AutoResult /\ autoAt' = [autoAt EXCEPT ![Profile(Refresher)] = None])
  <2>1. ASSUME NEW p \in Procs, Capture(p) \/ Verify(p) PROVE Gate(Refresher) \/ UNCHANGED autoAt
    BY <2>1 DEF Capture, Verify, Gate, Look, Load, Asking, Lookup, Update, Merge, Insert, Storing,
                StoreFails, Schedule
  <2>2. ASSUME NEW p, \/ StartRound(p) \/ NextAccount(p) \/ StartFetch(p) \/ Ingest(p)
                      \/ FetchResult(p) \/ NowResult(p)
        PROVE  UNCHANGED autoAt
    BY <2>2 DEF StartRound, NextAccount, StartFetch, Ingest, FetchResult, NowResult, AtResult, history
  <2>3. CASE AutoResult
    BY <2>3 DEF AutoResult, Forgets
  <2>4. ASSUME \/ \E c \in Profiles : DeleteProfile(c)
               \/ \E i \in Ids : Toggle(i)
               \/ Crash \/ Tick \/ UNCHANGED vars
        PROVE  UNCHANGED autoAt
    BY <2>4 DEF DeleteProfile, Toggle, ByAdmin, Crash, Tick, vars, history
  <2> QED BY <2>1, <2>2, <2>3, <2>4 DEF Next
<1>2. CASE AutoResult /\ autoAt' = [autoAt EXCEPT ![Profile(Refresher)] = None]
  BY <1>2 DEF Typed, TimesTyped
<1>3. CASE Gate(Refresher)
  <2>1. autoAt' = [autoAt EXCEPT ![Profile(Refresher)] = now] /\ pc[Refresher] = "gate"
    BY <1>3 DEF Gate
  <2>2. b = Profile(Refresher) /\ autoAt'[b] = now
    BY <2>1 DEF Typed, TimesTyped
  <2>3. autoAt[b] + Cooldown <= now
    BY <2>1, <2>2 DEF SpaceInv, Apart
  <2> QED BY <2>2, <2>3, TimesAre
<1> QED BY <1>1, <1>2, <1>3

(* The refresher's visits to one account's browser are a cooldown apart,   *)
(* over any number of restarts but one in the middle of a capture.         *)
THEOREM VisitsSpaced == Spec => AutoSpaced
<1>1. Init => SpaceInv
  BY Members DEF Init, SpaceInv, Capturing, Apart
<1>2. Typed /\ SpaceInv /\ [Next]_vars =>
        [\A b \in Profiles :
           (autoAt'[b] # autoAt[b] /\ None \notin {autoAt[b], autoAt'[b]} /\ <<"capture", b>> \notin cut)
             => autoAt'[b] - autoAt[b] >= Cooldown]_vars
  BY SpaceNow
<1> QED
  BY <1>1, <1>2, SpaceStep, ShapesKept, PTL DEF Spec, AutoSpaced
=============================================================================
