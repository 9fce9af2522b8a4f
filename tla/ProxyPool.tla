------------------------------ MODULE ProxyPool ------------------------------
(***************************************************************************)
(* The proxy pool of internal/app/proxy.go and acquireSlot of gemini.go.   *)
(*                                                                         *)
(* The table proxies is the truth; requests read proxyCache, a list that   *)
(* loadProxies replaces as a whole: it reads the table without a lock and  *)
(* installs what it read later, under proxyMu.  Loaders are the start-up,  *)
(* the 60-second ticker and every administrator's handler; in between,     *)
(* recordProxyResult updates one row of the table and then the same row of *)
(* the cache.  A request that finds the cache empty connects directly.     *)
(***************************************************************************)
EXTENDS Integers, Sequences, FiniteSets, SequencesExt

CONSTANTS
  Ids,            \* proxy ids the table may hand out, an initial segment of 1, 2, ...
  Requests,       \* request handlers
  Admins,         \* administrators' handlers that may run at the same time
  Ticker, Boot,   \* the scheduler's reload and the one of start-up
  InitialTables,  \* tables a restart may find
  Threshold,      \* proxyFailThreshold (5 in the code)
  Cooldown,       \* ProxyCooldownMin, in clock ticks; 0 = never reopen
  Capacity,       \* PerIPConcurrent
  FallbackDirect, \* the fallback_direct setting
  Attempts,       \* retry_attempts
  MaxTime, MaxCalls, MaxEdits, MaxErrors, \* bounds
  None

Direct == 0
Loaders == Admins \cup {Ticker, Boot}

ASSUME IdsAssumption == Ids \subseteq Nat \ {0} /\ None \notin Ids \cup {Direct}
ASSUME LoadersAssumption == Ticker # Boot /\ {Ticker, Boot} \cap Admins = {}
ASSUME FiniteAssumption == IsFiniteSet(Ids) /\ IsFiniteSet(Requests)
ASSUME BreakerAssumption == Threshold \in Nat \ {0} /\ Cooldown \in Nat

VARIABLES
  now,       \* time.Now()
  db,        \* the table proxies: id -> row
  nextId,    \* its AUTOINCREMENT counter
  cache,     \* proxyCache
  cursor,    \* proxyCursor
  loader,    \* where each loadProxies stands: "idle", "query" or "install"
  rows,      \* what it read
  pc,        \* where each request stands
  prefer,    \* the exit its account is bound to, 0 = none
  queue,     \* the usable exits it has still to try
  exit,      \* the exit it holds, None before
  result,    \* the result being recorded: [ok, stamp]
  inflight,  \* ipSlot.inflight of every exit
  calls, edits, errors, tries, \* counters for the bounds
  up,        \* start-up is over
  bootFailed,\* history: the first load failed
  seen,      \* history: the enabled flags of every table there has been
  ready,     \* history: exits whose creation returned and that nobody deleted
  leaky,     \* history: requests that arrived while ready held an enabled exit
  creating,  \* the exit an administrator is adding
  streak     \* history: failures of an exit since its last success or reset

table == <<db, nextId, seen, ready, streak>>
loading == <<loader, rows, creating>>
asking == <<prefer, queue, tries, leaky>>
serving == <<exit, result, inflight>>
vars == <<now, cache, cursor, pc, calls, edits, errors, up, bootFailed,
          table, loading, asking, serving>>

Row == [on : BOOLEAN, fails : Nat, used : Nat]
IsTable(t) == DOMAIN t \subseteq Ids /\ t \in [DOMAIN t -> Row]

ASSUME TablesAssumption == \A t \in InitialTables : IsTable(t)

NewRow == [on |-> TRUE, fails |-> 0, used |-> 0]
Flags(t) == [i \in DOMAIN t |-> t[i].on]
Without(t, i) == [j \in DOMAIN t \ {i} |-> t[j]]
With(t, i, row) == [j \in DOMAIN t \cup {i} |-> IF j = i THEN row ELSE t[j]]
Change(t, i, row) == IF i \in DOMAIN t THEN With(t, i, row) ELSE t

(* proxyUsable: enabled, and not tripped or cooled down again.             *)
Usable(row) ==
  /\ row.on
  /\ \/ row.fails < Threshold
     \/ Cooldown > 0 /\ now - row.used >= Cooldown

(* The reader's lock of proxyMu is held while a request tries exits.       *)
Scanning(r) == pc[r] \in {"prefer", "rotate", "scan"}
NoReader == \A r \in Requests : ~Scanning(r)

Init ==
  /\ now = 0
  /\ db \in InitialTables
  /\ nextId = 1 + Cardinality(DOMAIN db)
  /\ cache = <<>>
  /\ cursor = 0
  /\ loader = [l \in Loaders |-> IF l = Boot THEN "query" ELSE "idle"]
  /\ rows = [l \in Loaders |-> <<>>]
  /\ pc = [r \in Requests |-> "idle"]
  /\ prefer = [r \in Requests |-> 0]
  /\ queue = [r \in Requests |-> <<>>]
  /\ exit = [r \in Requests |-> None]
  /\ result = [r \in Requests |-> None]
  /\ inflight = [s \in Ids \cup {Direct} |-> 0]
  /\ calls = 0 /\ edits = 0 /\ errors = 0
  /\ tries = [r \in Requests |-> 0]
  /\ up = FALSE /\ bootFailed = FALSE
  /\ seen = {Flags(db)}
  /\ ready = DOMAIN db
  /\ leaky = {}
  /\ creating = [a \in Admins |-> None]
  /\ streak = [i \in Ids |-> IF i \in DOMAIN db THEN db[i].fails ELSE 0]

-----------------------------------------------------------------------------
(* Loading *)

(* The load is over: start-up goes on, an administrator's handler returns. *)
Finish(l) ==
  /\ loader' = [loader EXCEPT ![l] = "idle"]
  /\ rows' = [rows EXCEPT ![l] = <<>>]
  /\ up' = (up \/ l = Boot)
  /\ IF l \in Admins
     THEN /\ ready' = ready \cup ({creating[l]} \cap DOMAIN db)
          /\ creating' = [creating EXCEPT ![l] = None]
     ELSE UNCHANGED <<ready, creating>>

(* Deviation: the ticker only fills a pool that is empty.                  *)
StartTickerWhenEmpty ==
  /\ up /\ loader[Ticker] = "idle" /\ cache = <<>>
  /\ loader' = [loader EXCEPT ![Ticker] = "query"]
  /\ UNCHANGED <<now, cache, cursor, pc, calls, edits, errors, up, bootFailed,
                 table, rows, creating, asking, serving>>

StartTicker ==
  /\ up /\ loader[Ticker] = "idle"
  /\ loader' = [loader EXCEPT ![Ticker] = "query"]
  /\ UNCHANGED <<now, cache, cursor, pc, calls, edits, errors, up, bootFailed,
                 table, rows, creating, asking, serving>>

(* The SELECT and the loop over its rows: one snapshot of the table.       *)
Query(l) ==
  /\ loader[l] = "query"
  /\ rows' = [rows EXCEPT ![l] = db]
  /\ loader' = [loader EXCEPT ![l] = "install"]
  /\ UNCHANGED <<now, cache, cursor, pc, calls, edits, errors, up, bootFailed,
                 table, creating, asking, serving>>

(* Deviation: rows.Err is not looked at, what was read is installed.       *)
AbortPartial(l) ==
  /\ loader[l] = "query" /\ errors < MaxErrors
  /\ errors' = errors + 1
  /\ \E part \in SUBSET DOMAIN db :
       rows' = [rows EXCEPT ![l] = [i \in part |-> db[i]]]
  /\ loader' = [loader EXCEPT ![l] = "install"]
  /\ UNCHANGED <<now, cache, cursor, pc, calls, edits, up, bootFailed,
                 table, creating, asking, serving>>

(* Query, Scan or rows.Err fails: the pool stays as it was.                *)
Abort(l) ==
  /\ loader[l] = "query" /\ errors < MaxErrors
  /\ errors' = errors + 1
  /\ bootFailed' = (bootFailed \/ l = Boot)
  /\ Finish(l)
  /\ UNCHANGED <<now, cache, cursor, pc, calls, edits,
                 db, nextId, seen, streak, asking, serving>>

Install(l) ==
  /\ loader[l] = "install" /\ NoReader
  /\ cache' = rows[l]
  /\ Finish(l)
  /\ UNCHANGED <<now, cursor, pc, calls, edits, errors, bootFailed,
                 db, nextId, seen, streak, asking, serving>>

-----------------------------------------------------------------------------
(* The administrator: one statement on the table, then loadProxies *)

Edit(a, t) ==
  /\ up /\ loader[a] = "idle" /\ edits < MaxEdits
  /\ edits' = edits + 1
  /\ loader' = [loader EXCEPT ![a] = "query"]
  /\ db' = t
  /\ seen' = seen \cup {Flags(t)}
  /\ UNCHANGED <<now, cache, cursor, pc, calls, errors, up, bootFailed, rows,
                 asking, serving>>

Create(a) ==
  /\ nextId \in Ids
  /\ Edit(a, With(db, nextId, NewRow))
  /\ nextId' = nextId + 1
  /\ creating' = [creating EXCEPT ![a] = nextId]
  /\ UNCHANGED <<ready, streak>>

(* proxyUpdate of the enabled flag.                                        *)
Switch(a, i) ==
  /\ i \in DOMAIN db
  /\ Edit(a, With(db, i, [db[i] EXCEPT !.on = ~@]))
  /\ UNCHANGED <<nextId, creating, ready, streak>>

Delete(a, i) ==
  /\ i \in DOMAIN db
  /\ Edit(a, Without(db, i))
  /\ ready' = ready \ {i}
  /\ UNCHANGED <<nextId, creating, streak>>

(* proxyResetFailures of one row, resetAllProxyFailures of all.            *)
ResetFailures(a, S) ==
  /\ Edit(a, [i \in DOMAIN db |-> IF i \in S THEN [db[i] EXCEPT !.fails = 0] ELSE db[i]])
  /\ streak' = [i \in Ids |-> IF i \in S THEN 0 ELSE streak[i]]
  /\ UNCHANGED <<nextId, creating, ready>>

-----------------------------------------------------------------------------
(* A request: acquireSlot *)

Arrive(r, p) ==
  /\ up /\ pc[r] = "idle" /\ calls < MaxCalls
  /\ calls' = calls + 1
  /\ pc' = [pc EXCEPT ![r] = "check"]
  /\ prefer' = [prefer EXCEPT ![r] = p]
  /\ leaky' = IF \E i \in ready : db[i].on THEN leaky \cup {r} ELSE leaky
  /\ UNCHANGED <<now, cache, cursor, edits, errors, up, bootFailed, table, loading,
                 queue, tries, serving>>

(* hasProxies: is a pool configured at all?                                *)
Check(r) ==
  /\ pc[r] = "check"
  /\ pc' = [pc EXCEPT ![r] = IF cache = <<>> THEN "direct" ELSE "pick"]
  /\ UNCHANGED <<asking, serving, cursor>>

(* The members of S in ascending order, the order of the list: one sequence. *)
Ascending(S) ==
  {q \in [1..Cardinality(S) -> S] : \A i, j \in DOMAIN q : i < j => q[i] < q[j]}

(* pickProxyPreferring takes the lock again and selects the usable exits.  *)
Pick(r) ==
  LET usable == {i \in DOMAIN cache : Usable(cache[i])} IN
  /\ pc[r] = "pick"
  /\ \E q \in Ascending(usable) : queue' = [queue EXCEPT ![r] = q]
  /\ pc' = [pc EXCEPT ![r] = CASE usable = {} -> "none"
                               [] prefer[r] \in usable -> "prefer"
                               [] OTHER -> "rotate"]
  /\ UNCHANGED <<prefer, tries, leaky, serving, cursor>>

(* trySlotAcquire in one step (SlotLimiter has the rest): the in-flight    *)
(* limit is exact, the windows may refuse at any time.                     *)
Grab(r, s) ==
  /\ inflight[s] < Capacity
  /\ inflight' = [inflight EXCEPT ![s] = @ + 1]
  /\ exit' = [exit EXCEPT ![r] = s]
  /\ queue' = [queue EXCEPT ![r] = <<>>]
  /\ prefer' = [prefer EXCEPT ![r] = 0]
  /\ pc' = [pc EXCEPT ![r] = "held"]
  /\ UNCHANGED <<result, leaky>>

Refused(r) ==
  /\ pc' = [pc EXCEPT ![r] = "idle"]
  /\ prefer' = [prefer EXCEPT ![r] = 0]
  /\ leaky' = leaky \ {r}
  /\ UNCHANGED <<queue, serving>>

Prefer(r) ==
  /\ pc[r] = "prefer"
  /\ \/ Grab(r, prefer[r])
     \/ pc' = [pc EXCEPT ![r] = "rotate"] /\ UNCHANGED <<prefer, queue, leaky, serving>>
  /\ UNCHANGED <<tries, cursor>>

(* Deviation: the round robin stops one short.                             *)
RotationShort(s, start) == [i \in 1..(Len(s) - 1) |-> s[1 + ((start + i - 1) % Len(s))]]
Rotation(s, start) == [i \in 1..Len(s) |-> s[1 + ((start + i - 1) % Len(s))]]

Rotate(r) ==
  /\ pc[r] = "rotate"
  /\ cursor' = cursor + 1
  /\ queue' = [queue EXCEPT ![r] = Rotation(@, cursor)]
  /\ pc' = [pc EXCEPT ![r] = "scan"]
  /\ UNCHANGED <<prefer, tries, leaky, serving>>

Try(r) ==
  /\ pc[r] = "scan" /\ queue[r] # <<>>
  /\ \/ Grab(r, Head(queue[r]))
     \/ queue' = [queue EXCEPT ![r] = Tail(@)] /\ UNCHANGED <<pc, prefer, leaky, serving>>
  /\ UNCHANGED <<tries, cursor>>

GiveUp(r) ==
  /\ pc[r] = "scan" /\ queue[r] = <<>>
  /\ pc' = [pc EXCEPT ![r] = "none"]
  /\ UNCHANGED <<asking, serving, cursor>>

(* Deviation: an unusable pool always falls back.                          *)
FallBackSilently(r) ==
  /\ pc[r] = "none"
  /\ pc' = [pc EXCEPT ![r] = "direct"]
  /\ UNCHANGED <<asking, serving, cursor>>

(* No exit of the pool will do: refuse, unless fallback_direct is on.      *)
FallBack(r) ==
  /\ pc[r] = "none"
  /\ IF FallbackDirect
     THEN pc' = [pc EXCEPT ![r] = "direct"] /\ UNCHANGED <<prefer, queue, leaky, serving>>
     ELSE Refused(r)
  /\ UNCHANGED <<tries, cursor>>

ConnectDirect(r) ==
  /\ pc[r] = "direct"
  /\ Grab(r, Direct) \/ Refused(r)
  /\ UNCHANGED <<tries, cursor>>

(* acquireSlot touches nothing but the request, the cursor and the slots.  *)
Acquire(r) ==
  /\ Check(r) \/ Pick(r) \/ Prefer(r) \/ Rotate(r) \/ Try(r) \/ GiveUp(r)
       \/ FallBack(r) \/ ConnectDirect(r)
  /\ UNCHANGED <<now, cache, calls, edits, errors, up, bootFailed, table, loading>>

-----------------------------------------------------------------------------
(* Its results *)

(* Deviation: a success takes one failure back.                            *)
OutcomeDecaying(row, ok, t) ==
  [on |-> row.on, fails |-> IF ok THEN row.fails - 1 ELSE row.fails + 1, used |-> t]
Outcome(row, ok, t) ==
  [on |-> row.on, fails |-> IF ok THEN 0 ELSE row.fails + 1, used |-> t]

(* recordProxyResult, first half: the row of the table.  The error of the  *)
(* statement is not looked at.                                             *)
RecordRow(r, ok) ==
  LET i == exit[r] IN
  /\ pc[r] = "held" /\ i # Direct /\ tries[r] < Attempts
  /\ pc' = [pc EXCEPT ![r] = "record"]
  /\ tries' = [tries EXCEPT ![r] = IF ok THEN Attempts ELSE @ + 1]
  /\ result' = [result EXCEPT ![r] = [ok |-> ok, stamp |-> now]]
  /\ streak' = [streak EXCEPT ![i] = IF ok THEN 0 ELSE @ + 1]
  /\ \/ /\ i \in DOMAIN db
        /\ db' = With(db, i, Outcome(db[i], ok, now))
        /\ UNCHANGED errors
     \/ /\ i \notin DOMAIN db
        /\ UNCHANGED <<db, errors>>
     \/ /\ errors < MaxErrors
        /\ errors' = errors + 1
        /\ UNCHANGED db
  /\ UNCHANGED <<now, cache, cursor, calls, edits, up, bootFailed, nextId, seen, ready,
                 loading, prefer, queue, leaky, exit, inflight>>

(* Second half: the row of the cache, if it is still there.                *)
RecordCache(r) ==
  LET i == exit[r] IN
  /\ pc[r] = "record" /\ NoReader
  /\ cache' = IF i \in DOMAIN cache
              THEN With(cache, i, Outcome(cache[i], result[r].ok, result[r].stamp))
              ELSE cache
  /\ result' = [result EXCEPT ![r] = None]
  /\ pc' = [pc EXCEPT ![r] = "held"]
  /\ UNCHANGED <<now, cursor, calls, edits, errors, up, bootFailed, table, loading,
                 asking, exit, inflight>>

(* Deviation: an exit that left the pool is not released.                  *)
ReleaseIfListed(r) ==
  /\ pc[r] = "held"
  /\ inflight' = IF exit[r] \in DOMAIN cache \cup {Direct}
                 THEN [inflight EXCEPT ![exit[r]] = IF @ > 0 THEN @ - 1 ELSE @]
                 ELSE inflight
  /\ exit' = [exit EXCEPT ![r] = None]
  /\ pc' = [pc EXCEPT ![r] = "idle"]
  /\ tries' = [tries EXCEPT ![r] = 0]
  /\ leaky' = leaky \ {r}
  /\ UNCHANGED <<now, cache, cursor, calls, edits, errors, up, bootFailed, table,
                 loading, prefer, queue, result>>

(* The handler returns, with or without a recorded result.                 *)
Release(r) ==
  /\ pc[r] = "held"
  /\ inflight' = [inflight EXCEPT ![exit[r]] = IF @ > 0 THEN @ - 1 ELSE @]
  /\ exit' = [exit EXCEPT ![r] = None]
  /\ pc' = [pc EXCEPT ![r] = "idle"]
  /\ tries' = [tries EXCEPT ![r] = 0]
  /\ leaky' = leaky \ {r}
  /\ UNCHANGED <<now, cache, cursor, calls, edits, errors, up, bootFailed, table,
                 loading, prefer, queue, result>>

Tick ==
  /\ now < MaxTime
  /\ now' = now + 1
  /\ UNCHANGED <<cache, cursor, pc, calls, edits, errors, up, bootFailed, table,
                 loading, asking, serving>>

-----------------------------------------------------------------------------

Load(l) == Query(l) \/ Abort(l) \/ Install(l)

Administrate(a) ==
  \/ Create(a)
  \/ \E i \in Ids : Switch(a, i) \/ Delete(a, i) \/ ResetFailures(a, {i})
  \/ ResetFailures(a, Ids)

Serve(r) ==
  \/ \E p \in Ids \cup {0} : Arrive(r, p)
  \/ Acquire(r)
  \/ \E ok \in BOOLEAN : RecordRow(r, ok)
  \/ RecordCache(r) \/ Release(r)

Next ==
  \/ \E l \in Loaders : Load(l)
  \/ StartTicker
  \/ \E a \in Admins : Administrate(a)
  \/ \E r \in Requests : Serve(r)
  \/ Tick

Spec == Init /\ [][Next]_vars

(* Goroutines inside the pool run; the ticker ticks; errors are bounded by *)
(* MaxErrors, which says that SQLite answers again.                        *)
Fairness ==
  /\ \A l \in Loaders : WF_vars(Query(l) \/ Abort(l)) /\ WF_vars(Install(l))
  /\ WF_vars(StartTicker)
  /\ \A r \in Requests : WF_vars(Acquire(r)) /\ WF_vars(RecordCache(r))

FairSpec == Spec /\ Fairness

-----------------------------------------------------------------------------

Result == [ok : BOOLEAN, stamp : Nat]

TypeOK ==
  /\ now \in Nat /\ cursor \in Nat /\ up \in BOOLEAN /\ bootFailed \in BOOLEAN
  /\ IsTable(db) /\ IsTable(cache)
  /\ loader \in [Loaders -> {"idle", "query", "install"}]
  /\ DOMAIN rows = Loaders /\ \A l \in Loaders : IsTable(rows[l])
  /\ pc \in [Requests -> {"idle", "check", "pick", "prefer", "rotate", "scan", "none",
                          "direct", "held", "record"}]
  /\ prefer \in [Requests -> Ids \cup {0}]
  /\ queue \in [Requests -> Seq(Ids)]
  /\ exit \in [Requests -> Ids \cup {Direct, None}]
  /\ result \in [Requests -> Result \cup {None}]
  /\ inflight \in [Ids \cup {Direct} -> Nat]

(* The list requests read is, in ids and enabled flags, one the table had  *)
(* as a whole: an error half-way never shortens it.  Only a start-up whose *)
(* first load failed begins with an empty one.                             *)
CacheIsSnapshot ==
  up => \/ Flags(cache) \in seen
        \/ bootFailed /\ cache = <<>>

(* Without fallback_direct a request leaves from the host's own address    *)
(* only if the table was empty at some moment since start-up, or could not *)
(* be read then: never because exits are disabled, tripped or full.        *)
DirectNeedsEmptyTable ==
  (\E r \in Requests : exit[r] = Direct) =>
     FallbackDirect \/ bootFailed \/ <<>> \in seen

(* An exit's counter is the number of requests that hold it, also after    *)
(* the exit was deleted or its row replaced under them.                    *)
ExitsAccounted ==
  \A s \in Ids \cup {Direct} :
    inflight[s] = Cardinality({r \in Requests : exit[r] = s})

(* A request gives up only after every usable exit it found refused it.    *)
TriesEveryExit ==
  [][\A r \in Requests : Rotate(r) => ToSet(queue'[r]) = ToSet(queue[r])]_vars

(* What gemini.go says of a configured pool: traffic must not leave from   *)
(* the host's own address.  A request that arrives when the creation of an *)
(* enabled exit has returned and nobody deletes it does not go direct.     *)
NoDirectWhileConfigured ==
  \A r \in Requests :
    exit[r] = Direct /\ r \in leaky => ~\E i \in ready : db[i].on

(* What the breaker says: an exit trips after Threshold failures in a row. *)
TripsAtThreshold ==
  \A i \in DOMAIN cache : cache[i].fails >= Threshold => streak[i] >= Threshold

(* When the last edit and the last result are in, the cache ends up equal  *)
(* to the table, whatever stale list was installed on the way.             *)
Converges == <>[](cache = db)
=============================================================================
