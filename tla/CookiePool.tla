----------------------------- MODULE CookiePool -----------------------------
(***************************************************************************)
(* The account pool of internal/app/cookie_pool.go and the part of         *)
(* streamGenerateWithFiles (gemini.go) that picks an account, obtains its  *)
(* page token, changes accounts when it cannot, binds the exit and writes  *)
(* the account's health back; next to it checkAccountCookie and the        *)
(* administrator.  Every SQL statement is a step of its own, pickMu joins  *)
(* the SELECT and the UPDATE of one pick.                                  *)
(*                                                                         *)
(* What upstream answers is open: any member of Answers, to a check any of *)
(* CheckAnswers, at any time.                                              *)
(***************************************************************************)
EXTENDS Integers, FiniteSets, SequencesExt

CONSTANTS
  Ids,            \* account ids the table may hand out, an initial segment of 1, 2, ...
  Requests, Checkers,
  Exits,          \* proxies of the pool; 0 is the direct connection
  InitialTables,  \* tables a restart may find
  InitiallyUsable,\* proxies that are usable at first
  Answers,        \* what upstream answers requests, among "ok", "auth", "stale", "net"
  CheckAnswers,   \* what it answers checks
  MaxCookieTries, \* maxCookieTries (3 in the code)
  MaxAuthFailures,\* maxCookieAuthFailures (3 in the code)
  FallbackAnon,   \* the fallback_anon setting
  AnonFirst,      \* anon_first is on and the request is eligible
  Gap,            \* the least number of seconds between two picks
  MaxTime, MaxCalls, MaxChecks, MaxEdits, MaxSwitches, MaxErrors,
  MaxFlips,       \* bounds
  Nil

Procs == Requests \cup Checkers
Direct == 0

ASSUME IdsAssumption == Ids \subseteq Nat \ {0} /\ Nil \notin Ids
ASSUME ExitsAssumption == Exits \subseteq Nat \ {0} /\ Nil \notin Exits \cup {Direct}
ASSUME LimitsAssumption == {MaxCookieTries, MaxAuthFailures} \subseteq Nat \ {0}
ASSUME ProcsAssumption == Requests \cap Checkers = {} /\ Nil \notin Procs

Row == [on : BOOLEAN, fails : Nat, used : Nat, proxy : Exits \cup {Direct},
        slot : Nat, managed : BOOLEAN]
Account == [id : Ids, proxy : Exits \cup {Direct}, slot : Nat, managed : BOOLEAN]

ASSUME TablesAssumption ==
  \A t \in InitialTables :
    /\ IsFiniteSet(DOMAIN t) /\ DOMAIN t = 1..Cardinality(DOMAIN t)
    /\ DOMAIN t \subseteq Ids /\ t \in [DOMAIN t -> Row]
ASSUME UsableAssumption == InitiallyUsable \subseteq Exits /\ Nil \notin Account

VARIABLES
  now,     \* time.Now().Unix()
  db,      \* the table accounts: id -> row
  nextId,  \* its AUTOINCREMENT counter
  pickMu,  \* who holds pickMu, Nil when nobody does
  usable,  \* the proxies proxyUsableByID accepts
  pc,      \* where each goroutine stands
  acct,    \* the account it works with, as it was read: [id, proxy, slot, managed]
  tried,   \* the accounts a request has tried
  exit,    \* the exit it holds, Nil before
  dying,   \* autoDisableIfDead: "served" or "picking", what follows it
  bounds,  \* counters for the bounds
  turns,   \* history: how often an account was taken in turn
  auths,   \* history: 401 and 403 answers for an account
  streak,  \* history: those counted since its last success or re-enabling
  retired, \* history: accounts autoDisableIfDead switched off, with the streak then
  downs,   \* history: proxies that were unusable at some time
  silent   \* history: anonymous requests that found an enabled or a retired account

history == <<turns, auths, streak, retired, downs, silent>>
request == <<acct, tried, exit, dying>>
poolVars == <<now, db, nextId, pickMu, usable, pc, request, bounds, history>>

NewRow == [on |-> TRUE, fails |-> 0, used |-> 0, proxy |-> 0, slot |-> 0, managed |-> FALSE]

(* UPDATE ... WHERE id=?: nothing when the row is gone.                    *)
Update(i, row) == IF i \in DOMAIN db THEN [db EXCEPT ![i] = row] ELSE db

Count(bound, max) == bounds[bound] < max /\ bounds' = [bounds EXCEPT ![bound] = @ + 1]
Goto(p, label) == pc' = [pc EXCEPT ![p] = label]
Enabled(t) == {i \in DOMAIN t : t[i].on}

PoolInit ==
  /\ now = 1
  /\ db \in InitialTables
  /\ nextId = 1 + Cardinality(DOMAIN db)
  /\ pickMu = Nil
  /\ usable = InitiallyUsable
  /\ pc = [p \in Procs |-> "idle"]
  /\ acct = [p \in Procs |-> Nil]
  /\ tried = [r \in Requests |-> {}]
  /\ exit = [r \in Requests |-> Nil]
  /\ dying = [p \in Procs |-> "served"]
  /\ bounds = [calls |-> 0, checks |-> 0, edits |-> 0, switches |-> 0,
               errors |-> 0, flips |-> 0]
  /\ turns = [i \in Ids |-> 0]
  /\ auths = [i \in Ids |-> 0]
  /\ streak = [i \in Ids |-> IF i \in DOMAIN db THEN db[i].fails ELSE 0]
  /\ retired = [i \in Ids |-> Nil]
  /\ downs = Exits \ InitiallyUsable
  /\ silent = {}

-----------------------------------------------------------------------------
(* Picking an account *)

(* anonFirstEligible decides whether the request wants an account at all.  *)
StartRequest(r) ==
  /\ pc[r] = "idle" /\ Count("calls", MaxCalls)
  /\ \/ Goto(r, "pick")
     \/ AnonFirst /\ Goto(r, "exit")
  /\ UNCHANGED <<now, db, nextId, pickMu, usable, request, history>>

(* ORDER BY fail_count, last_used_at, id.                                  *)
Before(i, j) ==
  \/ db[i].fails < db[j].fails
  \/ db[i].fails = db[j].fails /\ db[i].used < db[j].used
  \/ db[i].fails = db[j].fails /\ db[i].used = db[j].used /\ i <= j

(* What the SELECT reads of the row: the column authuser is not in it.     *)
Snapshot(i) == [id |-> i, proxy |-> db[i].proxy, slot |-> 0, managed |-> db[i].managed]

(* Deviation: no lock around the SELECT and the UPDATE.                    *)
SelectUnlocked(r) ==
  LET eligible == Enabled(db) \ tried[r] IN
  /\ pc[r] = "pick" /\ eligible # {}
  /\ \A i \in DOMAIN db : db[i].used + Gap <= now
  /\ \E i \in eligible :
       /\ \A j \in eligible : Before(i, j)
       /\ acct' = [acct EXCEPT ![r] = Snapshot(i)]
  /\ Goto(r, "touch")
  /\ UNCHANGED <<now, db, nextId, pickMu, usable, tried, exit, dying, bounds, history>>

Select(r) ==
  LET eligible == Enabled(db) \ tried[r] IN
  /\ pc[r] = "pick" /\ pickMu = Nil /\ eligible # {}
  /\ \A i \in DOMAIN db : db[i].used + Gap <= now
  /\ \E i \in eligible :
       /\ \A j \in eligible : Before(i, j)
       /\ acct' = [acct EXCEPT ![r] = Snapshot(i)]
  /\ pickMu' = r
  /\ Goto(r, "touch")
  /\ UNCHANGED <<now, db, nextId, usable, tried, exit, dying, bounds, history>>

(* Deviation: the early return leaves the mutex locked.                    *)
SelectNothingLocked(r) ==
  /\ pc[r] = "pick" /\ pickMu = Nil
  /\ Enabled(db) \ tried[r] = {} /\ UNCHANGED bounds
  /\ pickMu' = r
  /\ acct' = [acct EXCEPT ![r] = Nil]
  /\ Goto(r, IF exit[r] = Nil THEN "exit" ELSE "exhausted")
  /\ UNCHANGED <<now, db, nextId, usable, tried, exit, dying, history>>

(* Nobody is left, or the query failed: (nil, false) either way.           *)
SelectNothing(r) ==
  /\ pc[r] = "pick" /\ pickMu = Nil
  /\ \/ Enabled(db) \ tried[r] = {} /\ UNCHANGED bounds
     \/ Count("errors", MaxErrors)
  /\ acct' = [acct EXCEPT ![r] = Nil]
  /\ Goto(r, IF exit[r] = Nil THEN "exit" ELSE "exhausted")
  /\ UNCHANGED <<now, db, nextId, pickMu, usable, tried, exit, dying, history>>

(* The UPDATE of last_used_at.  The fourth account of a request is taken   *)
(* in turn as well, and not tried any more.                                *)
Touch(r) ==
  LET i == acct[r].id IN
  /\ pc[r] = "touch"
  /\ db' = Update(i, [db[i] EXCEPT !.used = now])
  /\ turns' = [turns EXCEPT ![i] = @ + 1]
  /\ pickMu' = Nil
  /\ Goto(r, IF exit[r] = Nil THEN "exit"
             ELSE IF Cardinality(tried[r]) < MaxCookieTries THEN "token" ELSE "exhausted")
  /\ UNCHANGED <<now, nextId, usable, request, bounds, auths, streak, retired, downs, silent>>

-----------------------------------------------------------------------------
(* The exit and the page token *)

(* acquireSlot: see ProxyPool; here any usable exit, a direct connection,  *)
(* or a refusal that ends the request.                                     *)
TakeExit(r) ==
  /\ pc[r] = "exit"
  /\ \/ /\ \E e \in usable \cup {Direct} : exit' = [exit EXCEPT ![r] = e]
        /\ Goto(r, IF acct[r] = Nil THEN "serve" ELSE "token")
        /\ UNCHANGED <<acct>>
     \/ /\ Goto(r, "idle")
        /\ acct' = [acct EXCEPT ![r] = Nil]
        /\ UNCHANGED exit
  /\ silent' = IF /\ acct[r] = Nil /\ pc'[r] = "serve" /\ ~AnonFirst
                  /\ \E i \in DOMAIN db : db[i].on \/ retired[i] # Nil
               THEN silent \cup {r} ELSE silent
  /\ UNCHANGED <<now, db, nextId, pickMu, usable, tried, dying, bounds,
                 turns, auths, streak, retired, downs>>

Answered(i, answer) ==
  auths' = IF answer = "auth" THEN [auths EXCEPT ![i] = @ + 1] ELSE auths

(* getXSRF.                                                                *)
ObtainToken(r) ==
  LET i == acct[r].id IN
  /\ pc[r] = "token"
  /\ tried' = [tried EXCEPT ![r] = @ \cup {i}]
  /\ \E answer \in Answers :
       /\ Answered(i, answer)
       /\ Goto(r, IF answer = "ok" THEN "bind" ELSE "rotate")
  /\ UNCHANGED <<now, db, nextId, pickMu, usable, acct, exit, dying, bounds,
                 turns, streak, retired, downs, silent>>

(* rotateAccount succeeded: the account is read again, with its slot.      *)
Rotate(r) ==
  LET i == acct[r].id IN
  /\ pc[r] = "rotate"
  /\ \/ /\ ~acct[r].managed /\ i \in DOMAIN db
        /\ acct' = [acct EXCEPT ![r] = [Snapshot(i) EXCEPT !.slot = db[i].slot]]
        /\ Goto(r, "retry")
     \/ Goto(r, "fail") /\ UNCHANGED acct
  /\ UNCHANGED <<now, db, nextId, pickMu, usable, tried, exit, dying, bounds, history>>

Retry(r) ==
  /\ pc[r] = "retry"
  /\ \E answer \in Answers :
       /\ Answered(acct[r].id, answer)
       /\ Goto(r, IF answer = "ok" THEN "bind" ELSE "fail")
  /\ UNCHANGED <<now, db, nextId, pickMu, usable, request, bounds,
                 turns, streak, retired, downs, silent>>

(* Deviation: the exit of this request is bound whatever was bound before. *)
BindAlways(r) ==
  LET i == acct[r].id IN
  /\ pc[r] = "bind"
  /\ db' = Update(i, [db[i] EXCEPT !.proxy = exit[r]])
  /\ Goto(r, "serve")
  /\ UNCHANGED <<now, nextId, pickMu, usable, request, bounds, history>>

(* bindAccountProxy, only if the snapshot had no exit or an unusable one.  *)
Bind(r) ==
  LET i == acct[r].id IN
  /\ pc[r] = "bind"
  /\ db' = IF acct[r].proxy \in usable THEN db ELSE Update(i, [db[i] EXCEPT !.proxy = exit[r]])
  /\ Goto(r, "serve")
  /\ UNCHANGED <<now, nextId, pickMu, usable, request, bounds, history>>

(* Deviation: the error is returned only if every try has been used up.    *)
ExhaustedSilently(r) ==
  /\ pc[r] = "exhausted"
  /\ acct' = [acct EXCEPT ![r] = Nil]
  /\ IF FallbackAnon \/ Cardinality(tried[r]) < MaxCookieTries
     THEN Goto(r, "serve") /\ UNCHANGED <<tried, exit>>
     ELSE /\ Goto(r, "idle")
          /\ tried' = [tried EXCEPT ![r] = {}]
          /\ exit' = [exit EXCEPT ![r] = Nil]
  /\ UNCHANGED <<now, db, nextId, pickMu, usable, dying, bounds, history>>

(* No account could be used: an error, unless fallback_anon is on.         *)
Exhausted(r) ==
  /\ pc[r] = "exhausted"
  /\ acct' = [acct EXCEPT ![r] = Nil]
  /\ IF FallbackAnon
     THEN Goto(r, "serve") /\ UNCHANGED <<tried, exit>>
     ELSE /\ Goto(r, "idle")
          /\ tried' = [tried EXCEPT ![r] = {}]
          /\ exit' = [exit EXCEPT ![r] = Nil]
  /\ UNCHANGED <<now, db, nextId, pickMu, usable, dying, bounds, history>>

-----------------------------------------------------------------------------
(* Health *)

(* markAccountResult(id, false): fail_count=fail_count+1 in one statement, *)
(* and then autoDisableIfDead.                                             *)
CountFailure(p, after) ==
  LET i == acct[p].id IN
  /\ db' = Update(i, [db[i] EXCEPT !.fails = @ + 1])
  /\ streak' = IF i \in DOMAIN db THEN [streak EXCEPT ![i] = @ + 1] ELSE streak
  /\ dying' = [dying EXCEPT ![p] = after]
  /\ Goto(p, "dead")

(* markAccountResult(id, true).                                            *)
RecordSuccess(i) ==
  /\ db' = Update(i, [db[i] EXCEPT !.fails = 0])
  /\ streak' = [streak EXCEPT ![i] = 0]

(* The goroutine is done with its account.                                 *)
Leave(p) ==
  /\ Goto(p, "idle")
  /\ acct' = [acct EXCEPT ![p] = Nil]
  /\ tried' = [r \in Requests |-> IF r = p THEN {} ELSE tried[r]]
  /\ exit' = [r \in Requests |-> IF r = p THEN Nil ELSE exit[r]]

(* getXSRF failed for good: counted as a 401 whatever the error was.       *)
Fail(r) ==
  /\ pc[r] = "fail"
  /\ CountFailure(r, "picking")
  /\ UNCHANGED <<now, nextId, pickMu, usable, acct, tried, exit, bounds,
                 turns, auths, retired, downs, silent>>

(* Deviation: the limit is one too low.                                    *)
ReadHealthEarly(p) ==
  LET i == acct[p].id IN
  /\ pc[p] = "dead"
  /\ Goto(p, IF i \in DOMAIN db /\ db[i].on /\ db[i].fails >= MaxAuthFailures - 1
             THEN "disable" ELSE "settled")
  /\ UNCHANGED <<now, db, nextId, pickMu, usable, request, bounds, history>>

(* autoDisableIfDead reads the counter ...                                 *)
ReadHealth(p) ==
  LET i == acct[p].id IN
  /\ pc[p] = "dead"
  /\ Goto(p, IF i \in DOMAIN db /\ db[i].on /\ db[i].fails >= MaxAuthFailures
             THEN "disable" ELSE "settled")
  /\ UNCHANGED <<now, db, nextId, pickMu, usable, request, bounds, history>>

(* ... and switches the account off, whatever the counter is by then.      *)
Disable(p) ==
  LET i == acct[p].id IN
  /\ pc[p] = "disable"
  /\ db' = Update(i, [db[i] EXCEPT !.on = FALSE])
  /\ retired' = IF i \in DOMAIN db /\ db[i].on
                THEN [retired EXCEPT ![i] = streak[i]] ELSE retired
  /\ Goto(p, "settled")
  /\ UNCHANGED <<now, nextId, pickMu, usable, request, bounds,
                 turns, auths, streak, downs, silent>>

(* The failure is written; the request picks the next account or is over.  *)
Settled(p) ==
  /\ pc[p] = "settled"
  /\ IF dying[p] = "picking"
     THEN Goto(p, "pick") /\ UNCHANGED <<acct, tried, exit>>
     ELSE Leave(p)
  /\ UNCHANGED <<now, db, nextId, pickMu, usable, dying, bounds, history>>

(* The request's answer; markCookieByStatus counts only 401 and 403.       *)
Serve(r) ==
  /\ pc[r] = "serve"
  /\ silent' = silent \ {r}
  /\ IF acct[r] = Nil
     THEN Leave(r) /\ UNCHANGED <<db, streak, auths, dying>>
     ELSE \E answer \in Answers :
            /\ Answered(acct[r].id, answer)
            /\ CASE answer = "ok" -> RecordSuccess(acct[r].id) /\ Leave(r) /\ UNCHANGED dying
                 [] answer = "auth" -> CountFailure(r, "served") /\ UNCHANGED <<acct, tried, exit>>
                 [] OTHER -> Leave(r) /\ UNCHANGED <<db, streak, dying>>
  /\ UNCHANGED <<now, nextId, pickMu, usable, bounds, turns, retired, downs>>

-----------------------------------------------------------------------------
(* checkAccountCookie, started by an administrator *)

StartCheck(c) ==
  /\ pc[c] = "idle" /\ Count("checks", MaxChecks)
  /\ \E i \in DOMAIN db :
       acct' = [acct EXCEPT ![c] = [Snapshot(i) EXCEPT !.slot = db[i].slot]]
  /\ Goto(c, "check")
  /\ UNCHANGED <<now, db, nextId, pickMu, usable, tried, exit, dying, history>>

Check(c) ==
  /\ pc[c] = "check"
  /\ \E answer \in CheckAnswers :
       /\ Answered(acct[c].id, answer)
       /\ CASE answer = "ok" -> RecordSuccess(acct[c].id) /\ Leave(c) /\ UNCHANGED dying
            [] answer = "auth" -> CountFailure(c, "served") /\ UNCHANGED <<acct, tried, exit>>
            [] OTHER -> Leave(c) /\ UNCHANGED <<db, streak, dying>>
  /\ UNCHANGED <<now, nextId, pickMu, usable, bounds, turns, retired, downs, silent>>

-----------------------------------------------------------------------------
(* The administrator and the surroundings *)

Add ==
  /\ nextId \in Ids /\ Count("edits", MaxEdits)
  /\ db' = [i \in DOMAIN db \cup {nextId} |-> IF i = nextId THEN NewRow ELSE db[i]]
  /\ nextId' = nextId + 1
  /\ UNCHANGED <<now, pickMu, usable, pc, request, history>>

Delete(i) ==
  /\ i \in DOMAIN db /\ Count("edits", MaxEdits)
  /\ db' = [j \in DOMAIN db \ {i} |-> db[j]]
  /\ UNCHANGED <<now, nextId, pickMu, usable, pc, request, history>>

(* accountSetStatus leaves the failure counter as it is.                   *)
SetStatus(i, on) ==
  /\ i \in DOMAIN db
  /\ IF on THEN Count("switches", MaxSwitches) ELSE Count("edits", MaxEdits)
  /\ db' = [db EXCEPT ![i].on = on]
  /\ streak' = IF on /\ ~db[i].on THEN [streak EXCEPT ![i] = 0] ELSE streak
  /\ retired' = [retired EXCEPT ![i] = Nil]
  /\ UNCHANGED <<now, nextId, pickMu, usable, pc, request, turns, auths, downs, silent>>

(* A proxy trips, cools down, is switched or deleted: see ProxyPool.       *)
Flip(e) ==
  /\ Count("flips", MaxFlips)
  /\ usable' = IF e \in usable THEN usable \ {e} ELSE usable \cup {e}
  /\ downs' = IF e \in usable THEN downs \cup {e} ELSE downs
  /\ UNCHANGED <<now, db, nextId, pickMu, pc, request, turns, auths, streak, retired, silent>>

Tick ==
  /\ now < MaxTime
  /\ now' = now + 1
  /\ UNCHANGED <<db, nextId, pickMu, usable, pc, request, bounds, history>>

-----------------------------------------------------------------------------

Request(r) ==
  \/ Select(r) \/ SelectNothing(r) \/ Touch(r) \/ TakeExit(r)
  \/ ObtainToken(r) \/ Rotate(r) \/ Retry(r) \/ Bind(r) \/ Exhausted(r)
  \/ Fail(r) \/ Serve(r)

AutoDisable(p) == ReadHealth(p) \/ Disable(p) \/ Settled(p)

Administrate == Add \/ \E i \in Ids : Delete(i) \/ \E on \in BOOLEAN : SetStatus(i, on)

PoolNext ==
  \/ \E r \in Requests : StartRequest(r) \/ Request(r)
  \/ \E c \in Checkers : StartCheck(c) \/ Check(c)
  \/ \E p \in Procs : AutoDisable(p)
  \/ Administrate
  \/ \E e \in Exits : Flip(e)
  \/ Tick

PoolSpec == PoolInit /\ [][PoolNext]_poolVars

(* Goroutines run, upstream and SQLite answer within their timeouts, and   *)
(* the clock advances.                                                     *)
FairPoolSpec ==
  /\ PoolSpec
  /\ \A r \in Requests : SF_poolVars(Select(r) \/ SelectNothing(r)) /\ WF_poolVars(Request(r))
  /\ \A p \in Procs : WF_poolVars(AutoDisable(p))
  /\ WF_poolVars(Tick)

-----------------------------------------------------------------------------

PoolTypeOK ==
  /\ now \in Nat
  /\ DOMAIN db \subseteq Ids /\ \A i \in DOMAIN db : db[i] \in Row
  /\ pickMu \in Requests \cup {Nil}
  /\ usable \subseteq Exits
  /\ pc \in [Procs -> {"idle", "pick", "touch", "exit", "token", "rotate", "retry", "bind",
                       "serve", "exhausted", "fail", "dead", "disable", "settled", "check"}]
  /\ acct \in [Procs -> Account \cup {Nil}]
  /\ tried \in [Requests -> SUBSET Ids]
  /\ exit \in [Requests -> Exits \cup {Direct, Nil}]

(* No two accounts that were never rejected are more than one turn apart:  *)
(* what "the next one's turn" of pickCookieAccount means when requests     *)
(* overlap and checks count failures meanwhile.                            *)
TurnsAlternate ==
  \A i, j \in DOMAIN db : auths[i] = 0 /\ auths[j] = 0 => turns[i] <= turns[j] + 1

(* No failure is counted against an account that upstream did not reject:  *)
(* the counter never exceeds the number of its 401 and 403 answers.        *)
CountsOnlyRejections ==
  \A i \in DOMAIN db : db[i].fails <= auths[i]

(* An account is switched off only by MaxAuthFailures failures in a row,   *)
(* counted since its last success and since it was switched on.            *)
DisabledForARow ==
  \A i \in DOMAIN db : retired[i] # Nil => retired[i] >= MaxAuthFailures

(* A binding is replaced only when its exit was unusable at some time: a   *)
(* request that happened to leave elsewhere does not move the account.     *)
BindingKept ==
  [][\A i \in DOMAIN db \cap DOMAIN db' :
       db[i].proxy # db'[i].proxy => db[i].proxy \in downs \cup {Direct}]_poolVars

(* A request that has had to give an account up is never answered          *)
(* anonymously behind the client's back.                                   *)
GivenUpIsRefused ==
  \A r \in Requests : pc[r] = "serve" /\ acct[r] = Nil =>
    FallbackAnon \/ tried[r] = {}

(* What gemini.go wants: rather an error than an anonymous answer that     *)
(* looks like a success while accounts are configured and merely failing.  *)
NeverSilentlyAnonymous == silent = {}

(* A request speaks for the Google slot of the account it uses.            *)
SlotOfAccount ==
  \A r \in Requests : pc[r] = "serve" /\ acct[r] # Nil =>
    (acct[r].id \in DOMAIN db => acct[r].slot = db[acct[r].id].slot)

(* Every request comes to an end: nobody waits for pickMu for ever and the *)
(* change of accounts terminates.                                          *)
RequestEnds == \A r \in Requests : pc[r] # "idle" ~> pc[r] = "idle"
=============================================================================
