-------------------------- MODULE ProxyPoolProofs --------------------------
(* Proofs about ProxyPool for every set of ids, requests, administrators   *)
(* and every value of the bounds.                                          *)
EXTENDS ProxyPool, FiniteSetTheorems, SequenceTheorems, TLAPS

(* Every list that may still be installed is one the table had.            *)
SnapshotInv ==
  /\ Flags(db) \in seen
  /\ \A l \in Loaders : loader[l] = "install" => Flags(rows[l]) \in seen
  /\ CacheIsSnapshot

(* Nothing but the first load runs before start-up is over.                *)
StartInv ==
  ~up => /\ cache = <<>>
         /\ \A l \in Loaders \ {Boot} : loader[l] = "idle"
         /\ \A r \in Requests : pc[r] = "idle"

(* A request holds an exit exactly between Grab and Release.               *)
HolderInv ==
  \A r \in Requests :
    /\ exit[r] # None <=> pc[r] \in {"held", "record"}
    /\ pc[r] = "prefer" => prefer[r] \in Ids
    /\ pc[r] = "record" => result[r] \in Result

MayGoDirect == FallbackDirect \/ bootFailed \/ <<>> \in seen

(* ... and whoever is about to connect directly may.                       *)
DirectInv ==
  \A r \in Requests : pc[r] = "direct" \/ exit[r] = Direct => MayGoDirect

IInv == TypeOK /\ SnapshotInv /\ StartInv /\ HolderInv /\ DirectInv /\ ExitsAccounted

-----------------------------------------------------------------------------
(* Operators on tables, rows and lists of exits *)

(* What a row may become by a result: still a row, enabled as before.      *)
LEMMA OutcomeIsRow ==
  ASSUME NEW row \in Row, NEW ok \in BOOLEAN, NEW t \in Nat
  PROVE  Outcome(row, ok, t) \in Row /\ Outcome(row, ok, t).on = row.on
BY DEF Row, Outcome

(* Changing, adding or removing one row of a table gives a table.          *)
LEMMA WithIsTable ==
  ASSUME NEW t, IsTable(t), NEW i \in Ids, NEW row \in Row
  PROVE  IsTable(With(t, i, row))
BY DEF IsTable, With

LEMMA WithoutIsTable ==
  ASSUME NEW t, IsTable(t), NEW i
  PROVE  IsTable(Without(t, i))
BY DEF IsTable, Without

(* A result recorded for a row leaves ids and enabled flags as they were.  *)
LEMMA OutcomeKeepsFlags ==
  ASSUME NEW t, IsTable(t), NEW i \in DOMAIN t, NEW ok \in BOOLEAN, NEW n \in Nat
  PROVE  /\ IsTable(With(t, i, Outcome(t[i], ok, n)))
         /\ Flags(With(t, i, Outcome(t[i], ok, n))) = Flags(t)
<1>1. i \in Ids /\ t[i] \in Row
  BY DEF IsTable
<1>2. Outcome(t[i], ok, n) \in Row /\ Outcome(t[i], ok, n).on = t[i].on
  BY <1>1, OutcomeIsRow
<1>3. IsTable(With(t, i, Outcome(t[i], ok, n)))
  BY <1>1, <1>2, WithIsTable
<1>4. Flags(With(t, i, Outcome(t[i], ok, n))) = Flags(t)
  BY <1>2 DEF Flags, With
<1> QED BY <1>3, <1>4

LEMMA EmptyFlags == Flags(<<>>) = <<>> /\ IsTable(<<>>)
BY DEF Flags, IsTable

(* The round robin is a list of exits again.                               *)
LEMMA RotationIsSeq ==
  ASSUME NEW s \in Seq(Ids), NEW start \in Nat
  PROVE  Rotation(s, start) \in Seq(Ids)
<1> DEFINE n == Len(s)
<1>1. n \in Nat /\ \A k \in 1..n : s[k] \in Ids
  BY LenProperties, ElementOfSeq
<1>2. \A i \in 1..n : 1 + ((start + i - 1) % n) \in 1..n
  <2> SUFFICES ASSUME NEW i \in 1..n PROVE 1 + ((start + i - 1) % n) \in 1..n
    OBVIOUS
  <2>1. n \in Nat \ {0} /\ start + i - 1 \in Int
    BY <1>1
  <2> HIDE DEF n
  <2>2. (start + i - 1) % n \in 0..(n - 1)
    BY <2>1
  <2> QED BY <2>1, <2>2
<1>3. Rotation(s, start) = [i \in 1..n |-> s[1 + ((start + i - 1) % n)]]
  BY DEF Rotation
<1> HIDE DEF n
<1>4. [i \in 1..n |-> s[1 + ((start + i - 1) % n)]] \in [1..n -> Ids]
  BY <1>1, <1>2
<1> QED BY <1>1, <1>3, <1>4

LEMMA AscendingIsSeq ==
  ASSUME NEW S \in SUBSET Ids, NEW q \in Ascending(S)
  PROVE  q \in Seq(Ids)
<1>1. Cardinality(S) \in Nat
  BY FiniteAssumption, FS_Subset, FS_CardinalityType
<1>2. q \in [1..Cardinality(S) -> Ids]
  BY DEF Ascending
<1> QED BY <1>1, <1>2

-----------------------------------------------------------------------------
(* Type correctness *)

LEMMA TypeInit == Init => TypeOK
<1> SUFFICES ASSUME Init PROVE TypeOK
  OBVIOUS
<1>1. IsTable(db) /\ IsTable(<<>>)
  BY TablesAssumption, EmptyFlags DEF Init
<1>2. now \in Nat /\ cursor \in Nat /\ up \in BOOLEAN /\ bootFailed \in BOOLEAN
  BY DEF Init
<1>3. DOMAIN rows = Loaders /\ \A l \in Loaders : IsTable(rows[l])
  BY <1>1 DEF Init
<1>4. loader \in [Loaders -> {"idle", "query", "install"}]
  BY DEF Init
<1>5. /\ pc \in [Requests -> {"idle"}] /\ prefer \in [Requests -> {0}]
      /\ exit \in [Requests -> {None}] /\ result \in [Requests -> {None}]
      /\ queue \in [Requests -> Seq(Ids)]
      /\ inflight \in [Ids \cup {Direct} -> Nat]
  BY DEF Init
<1> QED BY <1>1, <1>2, <1>3, <1>4, <1>5 DEF Init, TypeOK

(* The parts of the state that only loads and edits write.                 *)
LEMMA LoadTypes ==
  ASSUME TypeOK, NEW l \in Loaders, Load(l)
  PROVE  TypeOK'
<1>1. CASE Query(l)
  BY <1>1 DEF TypeOK, Query, table, asking, serving
<1>2. ASSUME Finish(l)
      PROVE  /\ DOMAIN rows' = Loaders /\ \A k \in Loaders : IsTable(rows'[k])
             /\ loader' \in [Loaders -> {"idle", "query", "install"}]
             /\ up' \in BOOLEAN
  BY <1>2, EmptyFlags DEF TypeOK, Finish
<1>3. CASE Abort(l)
  <2>1. Finish(l) /\ bootFailed' \in BOOLEAN
    BY <1>3 DEF Abort, TypeOK
  <2> QED BY <1>2, <1>3, <2>1 DEF TypeOK, Abort, asking, serving
<1>4. CASE Install(l)
  <2>1. Finish(l) /\ IsTable(cache')
    BY <1>4 DEF Install, TypeOK
  <2> QED BY <1>2, <1>4, <2>1 DEF TypeOK, Install, asking, serving
<1> QED BY <1>1, <1>3, <1>4 DEF Load

LEMMA EditTypes ==
  ASSUME TypeOK, NEW a \in Admins, Administrate(a)
  PROVE  TypeOK'
<1>1. ASSUME NEW t, IsTable(t), Edit(a, t)
      PROVE  TypeOK'
  BY <1>1 DEF TypeOK, Edit, Loaders, asking, serving
<1>2. CASE Create(a)
  <2>1. IsTable(With(db, nextId, NewRow))
    BY <1>2, WithIsTable DEF Create, TypeOK, NewRow, Row
  <2> QED BY <1>1, <1>2, <2>1 DEF Create
<1>3. ASSUME NEW i \in Ids, Switch(a, i)
      PROVE  TypeOK'
  <2>1. [db[i] EXCEPT !.on = ~@] \in Row
    BY <1>3 DEF Switch, TypeOK, IsTable, Row
  <2>2. IsTable(With(db, i, [db[i] EXCEPT !.on = ~@]))
    BY <2>1, WithIsTable DEF TypeOK
  <2> QED BY <1>1, <1>3, <2>2 DEF Switch
<1>4. ASSUME NEW i \in Ids, Delete(a, i)
      PROVE  TypeOK'
  <2>1. IsTable(Without(db, i))
    BY WithoutIsTable DEF TypeOK
  <2> QED BY <1>1, <1>4, <2>1 DEF Delete
<1>5. ASSUME NEW S, ResetFailures(a, S)
      PROVE  TypeOK'
  <2> DEFINE t == [i \in DOMAIN db |-> IF i \in S THEN [db[i] EXCEPT !.fails = 0] ELSE db[i]]
  <2>1. IsTable(t)
    BY DEF TypeOK, IsTable, Row
  <2>2. Edit(a, t)
    BY <1>5 DEF ResetFailures
  <2> QED BY <1>1, <2>1, <2>2
<1> QED BY <1>2, <1>3, <1>4, <1>5 DEF Administrate

LEMMA GrabTypes ==
  ASSUME TypeOK, NEW r \in Requests, NEW s \in Ids \cup {Direct}, Grab(r, s)
  PROVE  /\ inflight' \in [Ids \cup {Direct} -> Nat]
         /\ exit' \in [Requests -> Ids \cup {Direct, None}]
         /\ queue' \in [Requests -> Seq(Ids)]
         /\ prefer' \in [Requests -> Ids \cup {0}]
         /\ pc' \in [Requests -> {"idle", "check", "pick", "prefer", "rotate", "scan",
                                  "none", "direct", "held", "record"}]
BY DEF TypeOK, Grab

LEMMA AcquireTypes ==
  ASSUME TypeOK, NEW r \in Requests, Acquire(r)
  PROVE  TypeOK'
<1>1. CASE Check(r)
  BY <1>1 DEF TypeOK, Acquire, Check, loading, table, asking, serving
<1>2. CASE Pick(r)
  <2> DEFINE usable == {i \in DOMAIN cache : Usable(cache[i])}
  <2>1. usable \in SUBSET Ids
    BY DEF TypeOK, IsTable
  <2>2. PICK q \in Ascending(usable) : queue' = [queue EXCEPT ![r] = q]
    BY <1>2 DEF Pick
  <2>3. queue' \in [Requests -> Seq(Ids)]
    BY <2>1, <2>2, AscendingIsSeq DEF TypeOK
  <2>4. pc' \in [Requests -> {"idle", "check", "pick", "prefer", "rotate", "scan",
                             "none", "direct", "held", "record"}]
    <3>1. PICK x \in {"none", "prefer", "rotate"} : pc' = [pc EXCEPT ![r] = x]
      BY <1>2 DEF Pick
    <3> QED BY <3>1 DEF TypeOK
  <2> QED BY <1>2, <2>3, <2>4 DEF TypeOK, Acquire, Pick, loading, table, serving
<1>3. CASE Prefer(r)
  <2>1. CASE Grab(r, prefer[r])
    <3>1. prefer[r] \in Ids \cup {Direct}
      BY DEF TypeOK, Direct
    <3> QED BY <1>3, <2>1, <3>1, GrabTypes
            DEF TypeOK, Acquire, Prefer, Grab, loading, table
  <2>2. CASE ~Grab(r, prefer[r])
    BY <1>3, <2>2 DEF TypeOK, Acquire, Prefer, loading, table, serving
  <2> QED BY <2>1, <2>2
<1>4. CASE Rotate(r)
  <2>1. Rotation(queue[r], cursor) \in Seq(Ids) /\ cursor' \in Nat
    BY <1>4, RotationIsSeq DEF TypeOK, Rotate
  <2> QED BY <1>4, <2>1 DEF TypeOK, Acquire, Rotate, loading, table, serving
<1>5. CASE Try(r)
  <2>1. queue[r] \in Seq(Ids) /\ Head(queue[r]) \in Ids /\ Tail(queue[r]) \in Seq(Ids)
    BY <1>5, HeadTailProperties DEF TypeOK, Try
  <2>2. CASE Grab(r, Head(queue[r]))
    <3>1. Head(queue[r]) \in Ids \cup {Direct}
      BY <2>1
    <3> QED BY <1>5, <2>2, <3>1, GrabTypes
            DEF TypeOK, Acquire, Try, Grab, loading, table
  <2>3. CASE ~Grab(r, Head(queue[r]))
    BY <1>5, <2>1, <2>3 DEF TypeOK, Acquire, Try, loading, table, serving
  <2> QED BY <2>2, <2>3
<1>6. CASE GiveUp(r)
  BY <1>6 DEF TypeOK, Acquire, GiveUp, loading, table, asking, serving
<1>7. CASE FallBack(r)
  BY <1>7 DEF TypeOK, Acquire, FallBack, Refused, loading, table, serving
<1>8. CASE ConnectDirect(r)
  <2>1. CASE Grab(r, Direct)
    BY <1>8, <2>1, GrabTypes DEF TypeOK, Acquire, ConnectDirect, Grab, loading, table
  <2>2. CASE Refused(r)
    BY <1>8, <2>2 DEF TypeOK, Acquire, ConnectDirect, Refused, loading, table, serving
  <2> QED BY <1>8, <2>1, <2>2 DEF ConnectDirect
<1> QED BY <1>1, <1>2, <1>3, <1>4, <1>5, <1>6, <1>7, <1>8 DEF Acquire

LEMMA ServeTypes ==
  ASSUME TypeOK, HolderInv, NEW r \in Requests, Serve(r)
  PROVE  TypeOK'
<1>1. CASE \E p \in Ids \cup {0} : Arrive(r, p)
  BY <1>1 DEF TypeOK, Arrive, loading, table, serving
<1>2. CASE Acquire(r)
  BY <1>2, AcquireTypes
<1>3. ASSUME NEW ok \in BOOLEAN, RecordRow(r, ok)
      PROVE  TypeOK'
  <2>1. result' \in [Requests -> Result \cup {None}]
    BY <1>3 DEF TypeOK, RecordRow, Result
  <2>2. IsTable(db')
    <3>1. CASE db' = With(db, exit[r], Outcome(db[exit[r]], ok, now)) /\ exit[r] \in DOMAIN db
      BY <3>1, OutcomeKeepsFlags DEF TypeOK
    <3>2. CASE db' = db
      BY <3>2 DEF TypeOK
    <3> QED BY <1>3, <3>1, <3>2 DEF RecordRow
  <2>3. pc' \in [Requests -> {"idle", "check", "pick", "prefer", "rotate", "scan",
                             "none", "direct", "held", "record"}]
    BY <1>3 DEF TypeOK, RecordRow
  <2> QED BY <1>3, <2>1, <2>2, <2>3 DEF TypeOK, RecordRow, loading
<1>4. CASE RecordCache(r)
  <2>1. result[r].ok \in BOOLEAN /\ result[r].stamp \in Nat
    BY <1>4 DEF HolderInv, RecordCache, Result
  <2>2. IsTable(cache')
    BY <1>4, <2>1, OutcomeKeepsFlags DEF TypeOK, RecordCache
  <2> QED BY <1>4, <2>2 DEF TypeOK, RecordCache, loading, table, asking
<1>5. CASE Release(r)
  <2>1. inflight' \in [Ids \cup {Direct} -> Nat]
    <3>1. exit[r] \in Ids \cup {Direct}
      BY <1>5 DEF TypeOK, HolderInv, Release
    <3>2. inflight[exit[r]] \in Nat
      BY <3>1 DEF TypeOK
    <3> QED BY <1>5, <3>1, <3>2 DEF TypeOK, Release
  <2>2. /\ exit' \in [Requests -> Ids \cup {Direct, None}]
        /\ pc' \in [Requests -> {"idle", "check", "pick", "prefer", "rotate", "scan",
                                "none", "direct", "held", "record"}]
    BY <1>5 DEF TypeOK, Release
  <2> QED BY <1>5, <2>1, <2>2 DEF TypeOK, Release, loading, table
<1> QED BY <1>1, <1>2, <1>3, <1>4, <1>5 DEF Serve

LEMMA TypeStep ==
  ASSUME TypeOK, HolderInv, [Next]_vars
  PROVE  TypeOK'
<1>1. ASSUME NEW l \in Loaders, Load(l) PROVE TypeOK'
  BY <1>1, LoadTypes
<1>2. CASE StartTicker
  BY <1>2 DEF TypeOK, StartTicker, Loaders, table, asking, serving
<1>3. ASSUME NEW a \in Admins, Administrate(a) PROVE TypeOK'
  BY <1>3, EditTypes
<1>4. ASSUME NEW r \in Requests, Serve(r) PROVE TypeOK'
  BY <1>4, ServeTypes
<1>5. CASE Tick
  BY <1>5 DEF TypeOK, Tick, loading, table, asking, serving
<1>6. CASE UNCHANGED vars
  BY <1>6 DEF TypeOK, vars, loading, table, asking, serving
<1> QED BY <1>1, <1>2, <1>3, <1>4, <1>5, <1>6 DEF Next

-----------------------------------------------------------------------------
(* Which steps leave which part of the state alone *)

(* Loads, edits and the clock do not touch the requests.                   *)
LEMMA OthersLeaveRequests ==
  ASSUME \/ \E l \in Loaders : Load(l)
         \/ StartTicker
         \/ \E a \in Admins : Administrate(a)
         \/ Tick
         \/ UNCHANGED vars
  PROVE  UNCHANGED <<pc, asking, serving>>
<1>1. ASSUME NEW l \in Loaders, Load(l) PROVE UNCHANGED <<pc, asking, serving>>
  BY <1>1 DEF Load, Query, Abort, Install
<1>2. ASSUME NEW a \in Admins, Administrate(a) PROVE UNCHANGED <<pc, asking, serving>>
  BY <1>2 DEF Administrate, Create, Switch, Delete, ResetFailures, Edit
<1> QED BY <1>1, <1>2 DEF StartTicker, Tick, vars

(* A request writes neither a load's list nor the history of the table.    *)
LEMMA RequestsLeaveLoads ==
  ASSUME NEW r \in Requests, Serve(r)
  PROVE  UNCHANGED <<loader, rows, seen, up, bootFailed>>
<1>1. ASSUME NEW p \in Ids \cup {0}, Arrive(r, p)
      PROVE  UNCHANGED <<loader, rows, seen, up, bootFailed>>
  BY <1>1 DEF Arrive, table, loading
<1>2. CASE Acquire(r)
  BY <1>2 DEF Acquire, table, loading
<1>3. ASSUME NEW ok \in BOOLEAN, RecordRow(r, ok)
      PROVE  UNCHANGED <<loader, rows, seen, up, bootFailed>>
  BY <1>3 DEF RecordRow, loading
<1>4. CASE RecordCache(r) \/ Release(r)
  BY <1>4 DEF RecordCache, Release, table, loading
<1> QED BY <1>1, <1>2, <1>3, <1>4 DEF Serve

(* The step of one request does not move another one.                      *)
LEMMA RequestsLeaveRequests ==
  ASSUME TypeOK, NEW r \in Requests, NEW q \in Requests \ {r}, Serve(r)
  PROVE  /\ pc'[q] = pc[q] /\ exit'[q] = exit[q]
         /\ prefer'[q] = prefer[q] /\ result'[q] = result[q]
<1> USE DEF TypeOK
<1>1. ASSUME NEW p \in Ids \cup {0}, Arrive(r, p)
      PROVE  /\ pc'[q] = pc[q] /\ exit'[q] = exit[q]
             /\ prefer'[q] = prefer[q] /\ result'[q] = result[q]
  BY <1>1 DEF Arrive, serving
<1>2. CASE Check(r) \/ Pick(r) \/ Rotate(r) \/ GiveUp(r)
  BY <1>2 DEF Check, Pick, Rotate, GiveUp, asking, serving
<1>3. CASE Prefer(r) \/ Try(r)
  BY <1>3 DEF Prefer, Try, Grab, serving
<1>4. CASE FallBack(r) \/ ConnectDirect(r)
  BY <1>4 DEF FallBack, ConnectDirect, Grab, Refused, serving
<1>5. ASSUME NEW ok \in BOOLEAN, RecordRow(r, ok)
      PROVE  /\ pc'[q] = pc[q] /\ exit'[q] = exit[q]
             /\ prefer'[q] = prefer[q] /\ result'[q] = result[q]
  BY <1>5 DEF RecordRow
<1>6. CASE RecordCache(r) \/ Release(r)
  BY <1>6 DEF RecordCache, Release, asking
<1> QED BY <1>1, <1>2, <1>3, <1>4, <1>5, <1>6 DEF Serve, Acquire

-----------------------------------------------------------------------------
(* The list requests read is one the table had *)

LEMMA SnapshotStep ==
  ASSUME TypeOK, SnapshotInv, StartInv, HolderInv, [Next]_vars
  PROVE  SnapshotInv'
<1> USE DEF SnapshotInv, CacheIsSnapshot
<1>1. ASSUME NEW l \in Loaders, Load(l) PROVE SnapshotInv'
  <2>1. CASE Query(l)
    BY <1>1, <2>1 DEF Query, TypeOK, table
  <2>2. CASE Abort(l)
    BY <1>1, <2>2 DEF Abort, Finish, TypeOK, StartInv
  <2>3. CASE Install(l)
    <3>1. Flags(cache') \in seen /\ seen' = seen /\ db' = db
      BY <2>3 DEF Install
    <3>2. \A k \in Loaders : loader'[k] = "install" =>
            loader[k] = "install" /\ rows'[k] = rows[k]
      BY <2>3 DEF Install, Finish, TypeOK
    <3> QED BY <3>1, <3>2
  <2> QED BY <1>1, <2>1, <2>2, <2>3 DEF Load
<1>2. CASE StartTicker
  BY <1>2 DEF StartTicker, TypeOK, table, Loaders
<1>3. ASSUME NEW a \in Admins, Administrate(a) PROVE SnapshotInv'
  <2>1. ASSUME NEW t, Edit(a, t) PROVE SnapshotInv'
    BY <2>1 DEF Edit, TypeOK, Loaders
  <2> QED BY <1>3, <2>1 DEF Administrate, Create, Switch, Delete, ResetFailures
<1>4. ASSUME NEW r \in Requests, Serve(r) PROVE SnapshotInv'
  <2>1. UNCHANGED <<loader, rows, seen, up, bootFailed>>
    BY <1>4, RequestsLeaveLoads
  <2>2. Flags(db') = Flags(db)
    <3>1. ASSUME NEW ok \in BOOLEAN, RecordRow(r, ok) PROVE Flags(db') = Flags(db)
      BY <3>1, OutcomeKeepsFlags DEF RecordRow, TypeOK
    <3> QED BY <1>4, <3>1 DEF Serve, Arrive, Acquire, RecordCache, Release, table
  <2>3. Flags(cache') = Flags(cache) /\ (cache = <<>> => cache' = <<>>)
    <3>1. CASE RecordCache(r)
      <4>1. result[r].ok \in BOOLEAN /\ result[r].stamp \in Nat
        BY <3>1 DEF HolderInv, RecordCache, Result
      <4> QED BY <3>1, <4>1, OutcomeKeepsFlags DEF RecordCache, TypeOK
    <3> QED BY <1>4, <3>1 DEF Serve, Arrive, Acquire, RecordRow, Release
  <2> QED BY <2>1, <2>2, <2>3
<1>5. CASE Tick
  BY <1>5 DEF Tick, table, loading
<1>6. CASE UNCHANGED vars
  BY <1>6 DEF vars, table, loading
<1> QED BY <1>1, <1>2, <1>3, <1>4, <1>5, <1>6 DEF Next

(* No request is under way before start-up is over.                        *)
LEMMA ServeNeedsUp ==
  ASSUME StartInv, NEW r \in Requests, Serve(r)
  PROVE  up
<1> SUFFICES ASSUME pc[r] = "idle" PROVE up
  BY DEF StartInv
<1>1. ~Acquire(r)
  BY DEF Acquire, Check, Pick, Prefer, Rotate, Try, GiveUp, FallBack, ConnectDirect
<1>2. ~(\E ok \in BOOLEAN : RecordRow(r, ok)) /\ ~RecordCache(r) /\ ~Release(r)
  BY DEF RecordRow, RecordCache, Release
<1> QED BY <1>1, <1>2 DEF Serve, Arrive

LEMMA StartStep ==
  ASSUME TypeOK, StartInv, [Next]_vars
  PROVE  StartInv'
<1>1. ASSUME NEW l \in Loaders, Load(l) PROVE StartInv'
  <2>1. CASE Query(l)
    BY <1>1, <2>1 DEF Query, StartInv, TypeOK
  <2>2. CASE Abort(l) \/ Install(l)
    BY <1>1, <2>2 DEF Abort, Install, Finish, StartInv, TypeOK
  <2> QED BY <1>1, <2>1, <2>2 DEF Load
<1>2. CASE StartTicker
  BY <1>2 DEF StartTicker, StartInv
<1>3. ASSUME NEW a \in Admins, Administrate(a) PROVE StartInv'
  BY <1>3 DEF Administrate, Create, Switch, Delete, ResetFailures, Edit, StartInv
<1>4. ASSUME NEW r \in Requests, Serve(r) PROVE StartInv'
  BY <1>4, ServeNeedsUp, RequestsLeaveLoads DEF StartInv
<1>5. CASE Tick
  BY <1>5 DEF Tick, StartInv, loading
<1>6. CASE UNCHANGED vars
  BY <1>6 DEF vars, StartInv, loading
<1> QED BY <1>1, <1>2, <1>3, <1>4, <1>5, <1>6 DEF Next

-----------------------------------------------------------------------------
(* What a request holds *)

HolderOf(r) ==
  /\ exit[r] # None <=> pc[r] \in {"held", "record"}
  /\ pc[r] = "prefer" => prefer[r] \in Ids
  /\ pc[r] = "record" => result[r] \in Result

LEMMA ServeHolder ==
  ASSUME TypeOK, NEW r \in Requests, HolderOf(r), Serve(r)
  PROVE  HolderOf(r)'
<1> USE DEF TypeOK, HolderOf
<1>1. ASSUME NEW p \in Ids \cup {0}, Arrive(r, p) PROVE HolderOf(r)'
  BY <1>1 DEF Arrive, serving
<1>2. CASE Check(r) \/ GiveUp(r) \/ Rotate(r)
  BY <1>2 DEF Check, GiveUp, Rotate, asking, serving
<1>3. CASE Pick(r)
  <2>1. pc'[r] = "prefer" => prefer[r] \in Ids
    BY <1>3 DEF Pick, IsTable
  <2>2. pc'[r] \in {"none", "prefer", "rotate"}
    BY <1>3 DEF Pick
  <2> QED BY <1>3, <2>1, <2>2 DEF Pick, serving
<1>4. ASSUME NEW s \in Ids \cup {Direct}, Grab(r, s) PROVE HolderOf(r)'
  BY <1>4, IdsAssumption DEF Grab
<1>5. CASE Prefer(r)
  <2>1. prefer[r] \in Ids
    BY <1>5 DEF Prefer
  <2> QED BY <1>4, <1>5, <2>1 DEF Prefer, serving
<1>6. CASE Try(r)
  <2>1. Head(queue[r]) \in Ids
    BY <1>6, HeadTailProperties DEF Try
  <2> QED BY <1>4, <1>6, <2>1 DEF Try, serving
<1>7. CASE FallBack(r) \/ ConnectDirect(r)
  BY <1>4, <1>7 DEF FallBack, ConnectDirect, Refused, serving
<1>8. ASSUME NEW ok \in BOOLEAN, RecordRow(r, ok) PROVE HolderOf(r)'
  BY <1>8 DEF RecordRow, Result
<1>9. CASE RecordCache(r) \/ Release(r)
  BY <1>9 DEF RecordCache, Release, asking
<1> QED BY <1>1, <1>2, <1>3, <1>5, <1>6, <1>7, <1>8, <1>9 DEF Serve, Acquire

LEMMA HolderStep ==
  ASSUME TypeOK, HolderInv, [Next]_vars
  PROVE  HolderInv'
<1>1. ASSUME NEW r \in Requests, Serve(r) PROVE HolderInv'
  <2>1. HolderOf(r)'
    BY <1>1, ServeHolder DEF HolderInv, HolderOf
  <2>2. ASSUME NEW q \in Requests \ {r} PROVE HolderOf(q)'
    BY <1>1, RequestsLeaveRequests DEF HolderInv, HolderOf
  <2> QED BY <2>1, <2>2 DEF HolderInv, HolderOf
<1>2. CASE UNCHANGED <<pc, asking, serving>>
  BY <1>2 DEF HolderInv, asking, serving
<1> QED BY <1>1, <1>2, OthersLeaveRequests DEF Next

-----------------------------------------------------------------------------
(* Connecting directly *)

LEMMA DirectStep ==
  ASSUME TypeOK, SnapshotInv, StartInv, HolderInv, DirectInv, [Next]_vars
  PROVE  DirectInv'
<1>1. MayGoDirect => MayGoDirect'
  <2>1. seen \subseteq seen' /\ (bootFailed => bootFailed')
    <3>1. ASSUME NEW l \in Loaders, Load(l) PROVE seen \subseteq seen' /\ (bootFailed => bootFailed')
      BY <3>1 DEF Load, Query, Abort, Install, table, TypeOK
    <3>2. ASSUME NEW a \in Admins, Administrate(a) PROVE seen \subseteq seen' /\ (bootFailed => bootFailed')
      BY <3>2 DEF Administrate, Create, Switch, Delete, ResetFailures, Edit, TypeOK
    <3>3. ASSUME NEW r \in Requests, Serve(r) PROVE seen \subseteq seen' /\ (bootFailed => bootFailed')
      BY <3>3, RequestsLeaveLoads
    <3> QED BY <3>1, <3>2, <3>3 DEF Next, StartTicker, Tick, vars, table
  <2> QED BY <2>1 DEF MayGoDirect
<1>2. CASE UNCHANGED <<pc, asking, serving>>
  BY <1>1, <1>2 DEF DirectInv, serving
<1>3. ASSUME NEW r \in Requests, Serve(r) PROVE DirectInv'
  <2> DEFINE Bad == pc'[r] = "direct" \/ exit'[r] = Direct
  <2>1. \A q \in Requests \ {r} : pc'[q] = "direct" \/ exit'[q] = Direct => MayGoDirect'
    BY <1>1, <1>3, RequestsLeaveRequests DEF DirectInv
  <2>2. CASE pc[r] = "direct" \/ exit[r] = Direct
    BY <1>1, <2>1, <2>2 DEF DirectInv
  <2>3. CASE pc[r] # "direct" /\ exit[r] # Direct
    <3>1. CASE Check(r)
      <4>1. up
        BY <1>3, ServeNeedsUp
      <4>2. cache = <<>> => MayGoDirect
        BY <4>1, EmptyFlags DEF SnapshotInv, CacheIsSnapshot, MayGoDirect
      <4> QED BY <1>1, <2>1, <2>3, <3>1, <4>2 DEF Check, DirectInv, TypeOK, serving
    <3>2. CASE FallBack(r)
      BY <1>1, <2>1, <2>3, <3>2 DEF FallBack, Refused, DirectInv, TypeOK, MayGoDirect, serving
    <3>3. CASE ~Check(r) /\ ~FallBack(r)
      <4>1. ASSUME NEW s \in Ids, Grab(r, s) PROVE ~Bad
        BY <4>1, IdsAssumption DEF Grab, TypeOK, Direct
      <4>2. ASSUME Prefer(r) PROVE ~Bad
        BY <2>3, <4>1, <4>2 DEF Prefer, HolderInv, TypeOK, serving
      <4>3. ASSUME Try(r) PROVE ~Bad
        <5>1. Head(queue[r]) \in Ids
          BY <4>3, HeadTailProperties DEF Try, TypeOK
        <5> QED BY <2>3, <4>1, <4>3, <5>1 DEF Try, TypeOK, serving
      <4>4. ASSUME Pick(r) PROVE ~Bad
        <5>1. pc'[r] \in {"none", "prefer", "rotate"}
          BY <4>4 DEF Pick, TypeOK
        <5> QED BY <2>3, <4>4, <5>1 DEF Pick, serving
      <4>5. ASSUME Rotate(r) \/ GiveUp(r) PROVE ~Bad
        BY <2>3, <4>5 DEF Rotate, GiveUp, TypeOK, serving
      <4>6. ~ConnectDirect(r)
        BY <2>3 DEF ConnectDirect
      <4>7. ASSUME \E p \in Ids \cup {0} : Arrive(r, p) PROVE ~Bad
        BY <2>3, <4>7 DEF Arrive, TypeOK, serving
      <4>8. ASSUME NEW ok \in BOOLEAN, RecordRow(r, ok) PROVE ~Bad
        BY <2>3, <4>8 DEF RecordRow, TypeOK
      <4>9. ASSUME RecordCache(r) \/ Release(r) PROVE ~Bad
        BY <2>3, <4>9, IdsAssumption DEF RecordCache, Release, TypeOK
      <4> QED BY <1>3, <2>1, <3>3, <4>2, <4>3, <4>4, <4>5, <4>6, <4>7, <4>8, <4>9
              DEF Serve, Acquire, DirectInv
    <3> QED BY <3>1, <3>2, <3>3
  <2> QED BY <2>2, <2>3
<1> QED BY <1>2, <1>3, OthersLeaveRequests DEF Next

-----------------------------------------------------------------------------
(* Counters of exits *)

Holders(e, s) == {r \in Requests : e[r] = s}

LEMMA HoldersFinite ==
  ASSUME NEW e, NEW s
  PROVE  IsFiniteSet(Holders(e, s)) /\ Cardinality(Holders(e, s)) \in Nat
BY FiniteAssumption, FS_Subset, FS_CardinalityType DEF Holders

LEMMA GrabCounts ==
  ASSUME TypeOK, ExitsAccounted, NEW r \in Requests, NEW s \in Ids \cup {Direct},
         exit[r] = None, Grab(r, s)
  PROVE  ExitsAccounted'
<1> SUFFICES ASSUME NEW k \in Ids \cup {Direct}
             PROVE  inflight'[k] = Cardinality(Holders(exit', k))
  BY DEF ExitsAccounted, Holders
<1>1. inflight[k] = Cardinality(Holders(exit, k))
  BY DEF ExitsAccounted, Holders
<1>2. CASE k = s
  <2>1. Holders(exit', k) = Holders(exit, k) \cup {r}
    BY <1>2 DEF Grab, TypeOK, Holders
  <2>2. r \notin Holders(exit, k)
    BY IdsAssumption DEF Holders
  <2>3. Cardinality(Holders(exit', k)) = Cardinality(Holders(exit, k)) + 1
    BY <2>1, <2>2, HoldersFinite, FS_AddElement
  <2> QED BY <1>1, <1>2, <2>3 DEF Grab, TypeOK
<1>3. CASE k # s
  <2>1. Holders(exit', k) = Holders(exit, k)
    BY <1>3, IdsAssumption DEF Grab, TypeOK, Holders
  <2> QED BY <1>1, <1>3, <2>1 DEF Grab, TypeOK
<1> QED BY <1>2, <1>3

LEMMA ReleaseCounts ==
  ASSUME TypeOK, HolderInv, ExitsAccounted, NEW r \in Requests, Release(r)
  PROVE  ExitsAccounted'
<1> SUFFICES ASSUME NEW k \in Ids \cup {Direct}
             PROVE  inflight'[k] = Cardinality(Holders(exit', k))
  BY DEF ExitsAccounted, Holders
<1>1. inflight[k] = Cardinality(Holders(exit, k))
  BY DEF ExitsAccounted, Holders
<1>2. exit[r] \in Ids \cup {Direct}
  BY DEF Release, HolderInv, TypeOK
<1>3. CASE k = exit[r]
  <2>1. Holders(exit', k) = Holders(exit, k) \ {r} /\ r \in Holders(exit, k)
    BY <1>2, <1>3, IdsAssumption DEF Release, TypeOK, Holders
  <2>2. Cardinality(Holders(exit', k)) = Cardinality(Holders(exit, k)) - 1
    BY <2>1, HoldersFinite, FS_RemoveElement
  <2>3. Cardinality(Holders(exit, k)) \in Nat /\ Cardinality(Holders(exit', k)) \in Nat
    BY HoldersFinite
  <2> QED BY <1>1, <1>3, <2>2, <2>3 DEF Release, TypeOK
<1>4. CASE k # exit[r]
  <2>1. Holders(exit', k) = Holders(exit, k)
    BY <1>4, IdsAssumption DEF Release, TypeOK, Holders
  <2> QED BY <1>1, <1>2, <1>4, <2>1 DEF Release, TypeOK
<1> QED BY <1>3, <1>4

LEMMA CountStep ==
  ASSUME TypeOK, HolderInv, ExitsAccounted, [Next]_vars
  PROVE  ExitsAccounted'
<1>1. CASE UNCHANGED serving
  BY <1>1 DEF ExitsAccounted, serving
<1>2. ASSUME NEW r \in Requests, Serve(r) PROVE ExitsAccounted'
  <2>1. CASE Acquire(r)
    <3>1. CASE Check(r) \/ Pick(r) \/ Rotate(r) \/ GiveUp(r)
      BY <1>1, <3>1 DEF Check, Pick, Rotate, GiveUp
    <3>2. CASE Prefer(r)
      <4>1. prefer[r] \in Ids \cup {Direct} /\ exit[r] = None
        BY <3>2 DEF Prefer, HolderInv
      <4> QED BY <1>1, <3>2, <4>1, GrabCounts DEF Prefer
    <3>3. CASE Try(r)
      <4>1. Head(queue[r]) \in Ids \cup {Direct} /\ exit[r] = None
        BY <3>3, HeadTailProperties DEF Try, HolderInv, TypeOK
      <4> QED BY <1>1, <3>3, <4>1, GrabCounts DEF Try
    <3>4. CASE FallBack(r)
      BY <1>1, <3>4 DEF FallBack, Refused
    <3>5. CASE ConnectDirect(r)
      <4>1. exit[r] = None
        BY <3>5 DEF ConnectDirect, HolderInv
      <4> QED BY <1>1, <3>5, <4>1, GrabCounts DEF ConnectDirect, Refused
    <3> QED BY <2>1, <3>1, <3>2, <3>3, <3>4, <3>5 DEF Acquire
  <2>2. CASE Release(r)
    BY <2>2, ReleaseCounts
  <2>3. CASE RecordCache(r) \/ \E ok \in BOOLEAN : RecordRow(r, ok)
    BY <2>3 DEF RecordCache, RecordRow, ExitsAccounted
  <2>4. CASE \E p \in Ids \cup {0} : Arrive(r, p)
    BY <1>1, <2>4 DEF Arrive
  <2> QED BY <1>2, <2>1, <2>2, <2>3, <2>4 DEF Serve
<1> QED BY <1>1, <1>2, OthersLeaveRequests DEF Next

-----------------------------------------------------------------------------
(* The inductive invariant and what follows from it *)

LEMMA InitIInv == Init => IInv
<1> SUFFICES ASSUME Init PROVE IInv
  OBVIOUS
<1>1. TypeOK
  BY TypeInit
<1>2. SnapshotInv /\ StartInv
  BY DEF Init, SnapshotInv, CacheIsSnapshot, StartInv, Loaders
<1>3. HolderInv /\ DirectInv
  BY IdsAssumption DEF Init, HolderInv, DirectInv
<1>4. ExitsAccounted
  <2> SUFFICES ASSUME NEW s \in Ids \cup {Direct}
               PROVE  inflight[s] = Cardinality({r \in Requests : exit[r] = s})
    BY DEF ExitsAccounted
  <2>1. {r \in Requests : exit[r] = s} = {}
    BY IdsAssumption DEF Init
  <2> QED BY <2>1, FS_EmptySet DEF Init
<1> QED BY <1>1, <1>2, <1>3, <1>4 DEF IInv

(* IInv is an invariant: it holds initially and every step keeps it.       *)
THEOREM Invariance == Spec => []IInv
<1>1. IInv /\ [Next]_vars => IInv'
  BY TypeStep, SnapshotStep, StartStep, HolderStep, DirectStep, CountStep DEF IInv
<1> QED BY InitIInv, <1>1, PTL DEF Spec

(* Every variable has its type: the breaker's failure counts stay natural  *)
(* numbers, the round robin hands out exits of the table only.             *)
THEOREM TypeCorrect == Spec => []TypeOK
<1>1. IInv => TypeOK
  BY DEF IInv
<1> QED BY Invariance, <1>1, PTL

(* loadProxies never leaves a truncated list to the requests: what         *)
(* proxyCache holds is, in ids and enabled flags, a list the table had.    *)
THEOREM ListIsSnapshot == Spec => []CacheIsSnapshot
<1>1. IInv => CacheIsSnapshot
  BY DEF IInv, SnapshotInv
<1> QED BY Invariance, <1>1, PTL

(* releaseSlot undoes what trySlotAcquire counted, however the list of     *)
(* exits was edited or replaced while the request was under way.           *)
THEOREM NoExitLeaks == Spec => []ExitsAccounted
<1>1. IInv => ExitsAccounted
  BY DEF IInv
<1> QED BY Invariance, <1>1, PTL

(* With fallback_direct off, acquireSlot connects directly only when the   *)
(* table was empty, or unreadable at start-up.                             *)
THEOREM DirectOnlyWhenEmpty == Spec => []DirectNeedsEmptyTable
<1>1. IInv => DirectNeedsEmptyTable
  BY DEF IInv, DirectInv, DirectNeedsEmptyTable, MayGoDirect
<1> QED BY Invariance, <1>1, PTL

-----------------------------------------------------------------------------
(* The round robin leaves nobody out *)

LEMMA Remainder ==
  ASSUME NEW n \in Nat \ {0}, NEW q \in Nat, NEW c \in 0..(n - 1)
  PROVE  (n * q + c) % n = c
BY SMTT(30)

(* From any start, n steps of +1 modulo n visit every remainder.           *)
LEMMA EveryRemainder ==
  ASSUME NEW n \in Nat \ {0}, NEW start \in Nat, NEW k \in 1..n
  PROVE  \E i \in 1..n : 1 + ((start + i - 1) % n) = k
<1> DEFINE q == start \div n
           m == start % n
<1>1. q \in Nat /\ m \in 0..(n - 1) /\ start = n * q + m
  OBVIOUS
<1> HIDE DEF q, m
<1>2. k - 1 \in 0..(n - 1) /\ n * (q + 1) = n * q + n /\ n * q \in Nat
  BY <1>1
<1>3. CASE m <= k - 1
  <2> DEFINE i == k - m
  <2>1. i \in 1..n /\ start + i - 1 = n * q + (k - 1)
    BY <1>1, <1>2, <1>3
  <2>2. (n * q + (k - 1)) % n = k - 1
    BY <1>1, <1>2, Remainder
  <2>3. 1 + ((start + i - 1) % n) = k
    BY <2>1, <2>2
  <2> HIDE DEF i
  <2> QED BY <2>1, <2>3
<1>4. CASE k - 1 < m
  <2> DEFINE i == k - m + n
  <2>1. i \in 1..n /\ start + i - 1 = n * (q + 1) + (k - 1) /\ q + 1 \in Nat
    BY <1>1, <1>2, <1>4
  <2>2. (n * (q + 1) + (k - 1)) % n = k - 1
    BY <1>2, <2>1, Remainder
  <2>3. 1 + ((start + i - 1) % n) = k
    <3> HIDE DEF i
    <3> QED BY <2>1, <2>2
  <2> HIDE DEF i
  <2> QED BY <2>1, <2>3
<1> QED BY <1>1, <1>3, <1>4

LEMMA RotationComplete ==
  ASSUME NEW s \in Seq(Ids), NEW start \in Nat
  PROVE  ToSet(Rotation(s, start)) = ToSet(s)
<1> DEFINE n == Len(s)
           step(i) == 1 + ((start + i - 1) % n)
<1>1. n \in Nat /\ DOMAIN s = 1..n
  BY LenProperties
<1>2. Rotation(s, start) = [i \in 1..n |-> s[step(i)]]
  BY DEF Rotation
<1> HIDE DEF n
<1>3. \A i \in 1..n : step(i) \in 1..n
  <2> SUFFICES ASSUME NEW i \in 1..n PROVE step(i) \in 1..n
    OBVIOUS
  <2>1. n \in Nat \ {0} /\ start + i - 1 \in Int
    BY <1>1
  <2>2. (start + i - 1) % n \in 0..(n - 1)
    BY <2>1
  <2> QED BY <2>1, <2>2
<1>4. \A k \in 1..n : \E i \in 1..n : step(i) = k
  <2> SUFFICES ASSUME NEW k \in 1..n PROVE \E i \in 1..n : step(i) = k
    OBVIOUS
  <2>1. n \in Nat \ {0}
    BY <1>1
  <2>2. \E i \in 1..n : 1 + ((start + i - 1) % n) = k
    BY <2>1, EveryRemainder
  <2> QED BY <2>2
<1>5. ToSet(Rotation(s, start)) = {s[step(i)] : i \in 1..n}
  <2> DEFINE rot == Rotation(s, start)
  <2>1. DOMAIN rot = 1..n /\ \A i \in 1..n : rot[i] = s[step(i)]
    BY <1>2
  <2>2. ToSet(rot) = {rot[i] : i \in DOMAIN rot}
    BY DEF ToSet
  <2> HIDE DEF rot, step
  <2>3. {rot[i] : i \in DOMAIN rot} = {s[step(i)] : i \in 1..n}
    BY <2>1
  <2> QED BY <2>2, <2>3 DEF rot
<1>6. ToSet(s) = {s[k] : k \in 1..n}
  BY <1>1 DEF ToSet
<1> HIDE DEF step
<1> QED BY <1>3, <1>4, <1>5, <1>6

(* pickProxyPreferring tries every usable exit before it gives up, from    *)
(* any value of proxyCursor and for any number of exits.                   *)
THEOREM NobodyIsLeftOut == Spec => TriesEveryExit
<1>1. TypeOK /\ [Next]_vars =>
        [\A r \in Requests : Rotate(r) => ToSet(queue'[r]) = ToSet(queue[r])]_vars
  <2> SUFFICES ASSUME TypeOK, NEW r \in Requests, Rotate(r)
               PROVE  ToSet(queue'[r]) = ToSet(queue[r])
    OBVIOUS
  <2>1. queue'[r] = Rotation(queue[r], cursor)
    BY DEF Rotate, TypeOK
  <2>2. queue[r] \in Seq(Ids) /\ cursor \in Nat
    BY DEF TypeOK
  <2> QED BY <2>1, <2>2, RotationComplete
<1> QED BY TypeCorrect, <1>1, PTL DEF Spec, TriesEveryExit
=============================================================================
