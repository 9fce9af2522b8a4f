---------------------------- MODULE CookieTickets ----------------------------
(***************************************************************************)
(* The short-lived ticket __Secure-1PSIDTS of an account and everybody who *)
(* exchanges or overwrites it: rotateAccount and tryRotate1PSIDTS          *)
(* (rotate.go) for the keeper, an administrator and a request whose page   *)
(* token failed; checkAccountCookie and the model guard, which call        *)
(* tryRotate1PSIDTS alone; a request that merges its Set-Cookie; the       *)
(* browser, which stores what it holds.                                    *)
(*                                                                         *)
(* A cookie is its identity (SAPISID and __Secure-1PSID) and its ticket;   *)
(* what else an answer refreshes (the *SIDCC family) is only the fact that *)
(* the cookie has changed.  Upstream takes a ticket once: the exchange     *)
(* replaces it, and whoever holds the old one is refused.                  *)
(***************************************************************************)
EXTENDS Integers

CONSTANTS
  Ids,              \* accounts
  Managed,          \* those a browser manages (browserManagedCookie)
  Keeper, Admins, Requests,   \* the callers of rotateAccount
  Checkers, Guards,           \* the callers of tryRotate1PSIDTS
  Own, Foreign,     \* identities a cookie may have
  MinInterval,      \* min1PSIDTSInterval
  GuardCooldown,    \* modelGuardCooldownSec
  MaxTime, MaxTickets, MaxStarts, MaxDeletes,   \* bounds
  None

Rotators == {Keeper} \cup Admins \cup Requests
Droppers == Checkers \cup Guards
Procs == Rotators \cup Droppers
Identities == {Own, Foreign}

ASSUME IdsAssumption == Ids \subseteq Nat /\ Managed \subseteq Ids
ASSUME IntervalAssumption == MinInterval \in Nat \ {0} /\ GuardCooldown \in Nat
ASSUME NoneAssumption == None \notin Nat

VARIABLES
  now,      \* the clock
  db,       \* the table accounts: id -> [managed, cookie]
  lastAt,   \* psidtsLastAt
  fired,    \* modelGuardLastFired
  google,   \* the ticket upstream will take, per account
  pc,       \* where each goroutine stands
  snap,     \* the account as it was read: [id, managed, cookie]
  cur,      \* the cookie it works with
  touched,  \* whether cur differs from what it was before the last answer
  phase,    \* "rotate" in rotateAccount, "serve" while a request is sent
  queue,    \* the accounts the keeper has still to visit in this round
  bounds,   \* counters for the bounds
  lostBy,   \* history: how the ticket of an account went missing
  answered, \* history: when upstream last answered an exchange, per caller and account
  owned     \* history: identities that a browser or the administrator stored

history == <<lostBy, answered, owned>>
vars == <<now, db, lastAt, fired, google, pc, snap, cur, touched, phase, queue, bounds, history>>

Count(bound, max) == bounds[bound] < max /\ bounds' = [bounds EXCEPT ![bound] = @ + 1]
Goto(p, label) == pc' = [pc EXCEPT ![p] = label]
Read(i) == [id |-> i, managed |-> db[i].managed, cookie |-> db[i].cookie]
Id(p) == snap[p].id
Lose(i, cause) == lostBy' = [lostBy EXCEPT ![i] = @ \cup {cause}]
Elapsed(since, seconds) == IF since = None THEN TRUE ELSE now - since >= seconds
First == [id |-> Own, ticket |-> 1]

Init ==
  /\ now = 1
  /\ db = [i \in Ids |-> [managed |-> i \in Managed, cookie |-> First]]
  /\ lastAt = [i \in Ids |-> None]
  /\ fired = [i \in Ids |-> None]
  /\ google = [i \in Ids |-> 1]
  /\ pc = [p \in Procs |-> "idle"]
  /\ snap = [p \in Procs |-> None]
  /\ cur = [p \in Procs |-> First]
  /\ touched = [p \in Procs |-> FALSE]
  /\ phase = [p \in Procs |-> "rotate"]
  /\ queue = {}
  /\ bounds = [starts |-> 0, deletes |-> 0]
  /\ lostBy = [i \in Ids |-> {}]
  /\ answered = [p \in Procs |-> [i \in Ids |-> None]]
  /\ owned = [i \in Ids |-> {Own}]

-----------------------------------------------------------------------------
(* Who starts an exchange *)

(* The goroutine is back where it waits for work.                          *)
Finish(p) ==
  /\ Goto(p, IF p = Keeper THEN "next" ELSE "idle")
  /\ snap' = [snap EXCEPT ![p] = None]
  /\ cur' = [cur EXCEPT ![p] = First]
  /\ touched' = [touched EXCEPT ![p] = FALSE]
  /\ phase' = [phase EXCEPT ![p] = "rotate"]

(* The goroutine works on an account it has read.                          *)
Take(p, account, label) ==
  /\ Goto(p, label)
  /\ snap' = [snap EXCEPT ![p] = account]
  /\ cur' = [cur EXCEPT ![p] = account.cookie]
  /\ touched' = [touched EXCEPT ![p] = FALSE]

(* Deviation: an account of a browser is rotated like any other.           *)
RotateEveryone(p, account) == Take(p, account, "gate") /\ UNCHANGED phase

(* rotateAccount: an account of a browser is left alone.                   *)
RotateAccount(p, account) ==
  IF account.managed THEN Finish(p) ELSE Take(p, account, "gate") /\ UNCHANGED phase

(* rotateAllAccounts reads the whole list once ...                         *)
StartRound ==
  /\ pc[Keeper] = "idle" /\ Count("starts", MaxStarts)
  /\ queue' = {Read(i) : i \in DOMAIN db}
  /\ Goto(Keeper, "next")
  /\ UNCHANGED <<now, db, lastAt, fired, google, snap, cur, touched, phase, history>>

(* ... and rotates one account after the other by id, whatever fails.      *)
NextAccount ==
  /\ pc[Keeper] = "next"
  /\ \/ /\ queue = {}
        /\ Goto(Keeper, "idle") /\ UNCHANGED <<snap, cur, touched, phase, queue>>
     \/ \E account \in queue :
          /\ \A other \in queue : account.id <= other.id
          /\ RotateAccount(Keeper, account)
          /\ queue' = queue \ {account}
  /\ UNCHANGED <<now, db, lastAt, fired, google, bounds, history>>

(* POST /admin/api/cookies/{id}/rotate.                                    *)
AdminRotates(a) ==
  /\ pc[a] = "idle" /\ Count("starts", MaxStarts)
  /\ \E i \in DOMAIN db : RotateAccount(a, Read(i))
  /\ UNCHANGED <<now, db, lastAt, fired, google, queue, history>>

(* A request has picked an account: its page token is there, or the        *)
(* account is rotated once.                                                *)
StartRequest(r) ==
  /\ pc[r] = "idle" /\ Count("starts", MaxStarts)
  /\ \E i \in DOMAIN db :
       \/ Take(r, Read(i), "send") /\ phase' = [phase EXCEPT ![r] = "serve"]
       \/ RotateAccount(r, Read(i))
  /\ UNCHANGED <<now, db, lastAt, fired, google, queue, history>>

(* checkAccountCookie whose page token failed with a stale session.        *)
StartCheck(c) ==
  /\ pc[c] = "idle" /\ Count("starts", MaxStarts)
  /\ \E i \in DOMAIN db : ~db[i].managed /\ Take(c, Read(i), "gate")
  /\ UNCHANGED <<now, db, lastAt, fired, google, phase, queue, history>>

(* modelGuardCheck saw a downgraded answer: once in the cooldown.          *)
GuardFires(g) ==
  /\ pc[g] = "idle" /\ Count("starts", MaxStarts)
  /\ \E i \in Ids :
       /\ Elapsed(fired[i], GuardCooldown)
       /\ fired' = [fired EXCEPT ![i] = now]
       /\ snap' = [snap EXCEPT ![g] = [id |-> i, managed |-> FALSE, cookie |-> First]]
  /\ Goto(g, "refetch")
  /\ UNCHANGED <<now, db, lastAt, google, cur, touched, phase, queue, history>>

(* modelGuardRefetch reads the account; a browser's is refetched there.    *)
GuardReads(g) ==
  /\ pc[g] = "refetch"
  /\ IF Id(g) \in DOMAIN db /\ ~db[Id(g)].managed
     THEN Take(g, Read(Id(g)), "gate") /\ UNCHANGED phase
     ELSE Finish(g)
  /\ UNCHANGED <<now, db, lastAt, fired, google, queue, bounds, history>>

-----------------------------------------------------------------------------
(* tryRotate1PSIDTS *)

(* Where a caller goes on after the exchange, with what it has.            *)
Exchanged(p) == IF p \in Rotators THEN "page" ELSE "reread"

(* allow1PSIDTSRotate; a refusal is no error.                              *)
Gate(p) ==
  /\ pc[p] = "gate"
  /\ Goto(p, IF Elapsed(lastAt[Id(p)], MinInterval) THEN "exchange" ELSE Exchanged(p))
  /\ UNCHANGED <<now, db, lastAt, fired, google, snap, cur, touched, phase, queue, bounds, history>>

(* Upstream takes the ticket and gives out the next one.                   *)
Spend(i) ==
  /\ google[i] < MaxTickets
  /\ google' = [google EXCEPT ![i] = @ + 1]

(* The exchange succeeds.  What a check or the guard gets for it is        *)
(* dropped: only its being there matters to them.                          *)
Granted(p) ==
  LET i == Id(p) IN
  /\ pc[p] = "exchange" /\ cur[p].ticket = google[i]
  /\ Spend(i)
  /\ cur' = IF p \in Rotators THEN [cur EXCEPT ![p].ticket = google'[i]] ELSE cur
  /\ touched' = [touched EXCEPT ![p] = TRUE]
  /\ IF p \in Droppers THEN Lose(i, "dropped") ELSE UNCHANGED lostBy
  /\ answered' = [answered EXCEPT ![p][i] = now]
  /\ Goto(p, "note")
  /\ UNCHANGED <<now, db, lastAt, fired, snap, phase, queue, bounds, owned>>

(* HTTP 401 for a spent ticket, 403 and 429 for any.                       *)
Refused(p) ==
  /\ pc[p] = "exchange"
  /\ answered' = [answered EXCEPT ![p][Id(p)] = now]
  /\ Goto(p, "note")
  /\ UNCHANGED <<now, db, lastAt, fired, google, snap, cur, touched, phase, queue, bounds,
                 lostBy, owned>>

(* No answer: the request was lost, or its answer was, after the exchange. *)
Unanswered(p) ==
  LET i == Id(p) IN
  /\ pc[p] = "exchange"
  /\ \/ UNCHANGED <<google, lostBy>>
     \/ cur[p].ticket = google[i] /\ Spend(i) /\ Lose(i, "reply")
  /\ Goto(p, Exchanged(p))
  /\ UNCHANGED <<now, db, lastAt, fired, snap, cur, touched, phase, queue, bounds, answered, owned>>

(* Deviation: only a success is noted.                                     *)
NoteSuccess(p) ==
  /\ pc[p] = "note"
  /\ lastAt' = IF touched[p] THEN [lastAt EXCEPT ![Id(p)] = now] ELSE lastAt
  /\ Goto(p, Exchanged(p))
  /\ UNCHANGED <<now, db, fired, google, snap, cur, touched, phase, queue, bounds, history>>

(* note1PSIDTSAttempt: every answer is noted.                              *)
Note(p) ==
  /\ pc[p] = "note"
  /\ lastAt' = [lastAt EXCEPT ![Id(p)] = now]
  /\ Goto(p, Exchanged(p))
  /\ UNCHANGED <<now, db, fired, google, snap, cur, touched, phase, queue, bounds, history>>

-----------------------------------------------------------------------------
(* rotateSIDCC and the answers of a request *)

(* mergeSetCookie: nothing new, something of the session, or another one.  *)
Merge(p) ==
  \/ UNCHANGED <<cur, touched>>
  \/ /\ touched' = [touched EXCEPT ![p] = TRUE]
     /\ \E identity \in {cur[p].id, Foreign} : cur' = [cur EXCEPT ![p].id = identity]

(* Deviation: without a new SIDCC nothing is written back.                 *)
PageFirst(p) ==
  /\ pc[p] = "page"
  /\ \/ Goto(p, "rotated") /\ UNCHANGED <<cur, touched>>
     \/ Goto(p, "compare") /\ UNCHANGED cur /\ touched' = [touched EXCEPT ![p] = TRUE]
  /\ UNCHANGED <<now, db, lastAt, fired, google, snap, phase, queue, bounds, history>>

(* The page and the second POST; what the exchange brought is written back *)
(* even if they fail.                                                      *)
Page(p) ==
  /\ pc[p] = "page"
  /\ Merge(p)
  /\ Goto(p, IF touched'[p] THEN "compare" ELSE "rotated")
  /\ UNCHANGED <<now, db, lastAt, fired, google, snap, phase, queue, bounds, history>>

(* An answer of StreamGenerate, or an attempt without one.                 *)
Send(r) ==
  /\ r \in Requests /\ pc[r] = "send"
  /\ Merge(r)
  /\ IF touched'[r] THEN Goto(r, "compare") ELSE Goto(r, "rotated")
  /\ UNCHANGED <<now, db, lastAt, fired, google, snap, phase, queue, bounds, history>>

(* Deviation: no comparison of the identities.                             *)
CompareNothing(p) ==
  /\ pc[p] = "compare"
  /\ Goto(p, "write")
  /\ UNCHANGED <<now, db, lastAt, fired, google, snap, cur, touched, phase, queue, bounds, history>>

(* updateAccountCookie reads the row and drops another identity's cookie ... *)
Compare(p) ==
  LET i == Id(p)
      other == i \in DOMAIN db /\ db[i].cookie.id # cur[p].id IN
  /\ pc[p] = "compare"
  /\ Goto(p, IF other THEN "rotated" ELSE "write")
  /\ IF other /\ cur[p].ticket = google[i] THEN Lose(i, "foreign") ELSE UNCHANGED lostBy
  /\ UNCHANGED <<now, db, lastAt, fired, google, snap, cur, touched, phase, queue, bounds,
                 answered, owned>>

(* ... and writes in a second statement.                                   *)
Write(p) ==
  LET i == Id(p) IN
  /\ pc[p] = "write"
  /\ db' = IF i \in DOMAIN db THEN [db EXCEPT ![i].cookie = cur[p]] ELSE db
  /\ IF i \in DOMAIN db /\ cur[p].ticket < db[i].cookie.ticket
     THEN Lose(i, "overlap") ELSE UNCHANGED lostBy
  /\ Goto(p, "rotated")
  /\ UNCHANGED <<now, lastAt, fired, google, snap, cur, touched, phase, queue, bounds,
                 answered, owned>>

(* rotateAccount returns, or an attempt is over: a request goes on with    *)
(* the account read again, sends once more, or is done.                    *)
Rotated(p) ==
  /\ pc[p] = "rotated"
  /\ \/ Finish(p)
     \/ p \in Requests /\ phase[p] = "rotate" /\ Goto(p, "reread")
        /\ UNCHANGED <<snap, cur, touched, phase>>
     \/ p \in Requests /\ phase[p] = "serve" /\ Goto(p, "send")
        /\ touched' = [touched EXCEPT ![p] = FALSE] /\ UNCHANGED <<snap, cur, phase>>
  /\ UNCHANGED <<now, db, lastAt, fired, google, queue, bounds, history>>

(* accountByID after the exchange.  A check and the guard are done with    *)
(* what the row says; a request sends with it if its page token is there.  *)
Reread(p) ==
  /\ pc[p] = "reread"
  /\ \/ Finish(p)
     \/ /\ p \in Requests /\ Id(p) \in DOMAIN db
        /\ Take(p, Read(Id(p)), "send")
        /\ phase' = [phase EXCEPT ![p] = "serve"]
  /\ UNCHANGED <<now, db, lastAt, fired, google, queue, bounds, history>>

-----------------------------------------------------------------------------
(* The browser, the administrator and the clock *)

(* The browser exchanges its own ticket and a capture stores it; the       *)
(* profile may have been logged in to another account.                     *)
BrowserStores(i) ==
  /\ i \in DOMAIN db /\ db[i].managed
  /\ Spend(i)
  /\ \E identity \in Identities :
       /\ db' = [db EXCEPT ![i].cookie = [id |-> identity, ticket |-> google'[i]]]
       /\ owned' = [owned EXCEPT ![i] = @ \cup {identity}]
  /\ UNCHANGED <<now, lastAt, fired, pc, snap, cur, touched, phase, queue, bounds, lostBy, answered>>

Delete(i) ==
  /\ i \in DOMAIN db /\ Count("deletes", MaxDeletes)
  /\ db' = [j \in DOMAIN db \ {i} |-> db[j]]
  /\ UNCHANGED <<now, lastAt, fired, google, pc, snap, cur, touched, phase, queue, history>>

Tick ==
  /\ now < MaxTime
  /\ now' = now + 1
  /\ UNCHANGED <<db, lastAt, fired, google, pc, snap, cur, touched, phase, queue, bounds, history>>

Step(p) ==
  \/ Gate(p) \/ Granted(p) \/ Refused(p) \/ Unanswered(p) \/ Note(p)
  \/ Page(p) \/ Send(p) \/ Compare(p) \/ Write(p) \/ Rotated(p) \/ Reread(p)

Next ==
  \/ StartRound \/ NextAccount \/ Tick
  \/ \E a \in Admins : AdminRotates(a)
  \/ \E r \in Requests : StartRequest(r)
  \/ \E c \in Checkers : StartCheck(c)
  \/ \E g \in Guards : GuardFires(g) \/ GuardReads(g)
  \/ \E p \in Procs : Step(p)
  \/ \E i \in Ids : BrowserStores(i) \/ Delete(i)

Spec == Init /\ [][Next]_vars

-----------------------------------------------------------------------------
(* Properties *)

Cookie == [id : Identities, ticket : 1..MaxTickets]
Labels == {"idle", "next", "refetch", "gate", "exchange", "note", "page", "send", "compare",
           "write", "rotated", "reread"}

(* Every variable has its type: a row is a managed flag and a cookie, a    *)
(* goroutine that is not waiting works on an account.                      *)
TypeOK ==
  /\ now \in 1..MaxTime
  /\ DOMAIN db \subseteq Ids
  /\ \A i \in DOMAIN db : db[i].managed \in BOOLEAN /\ db[i].cookie \in Cookie
  /\ {lastAt, fired} \subseteq [Ids -> 1..MaxTime \cup {None}]
  /\ google \in [Ids -> 1..MaxTickets]
  /\ pc \in [Procs -> Labels] /\ phase \in [Procs -> {"rotate", "serve"}]
  /\ cur \in [Procs -> Cookie] /\ touched \in [Procs -> BOOLEAN]
  /\ \A p \in Procs : pc[p] \notin {"idle", "next"} => Id(p) \in Ids

(* A goroutine that has the current ticket and is on its way to store it.  *)
Carries(p, i) ==
  /\ p \in Rotators /\ pc[p] \in {"note", "page", "compare", "write"}
  /\ Id(p) = i /\ cur[p].ticket = google[i]

(* The ticket in the row of an account that no browser manages is the one  *)
(* upstream takes, or rotateAccount carries that one, or it went missing   *)
(* in one of four ways: the answer to the exchange was lost, a check or    *)
(* the guard dropped it, the answer brought another identity, or a         *)
(* goroutine that had read the row before wrote its own cookie over it.    *)
(* rotateAccount itself never loses one, whichever half of it fails.       *)
TicketAccounted ==
  \A i \in DOMAIN db :
    \/ db[i].managed
    \/ db[i].cookie.ticket = google[i]
    \/ lostBy[i] # {}
    \/ \E p \in Rotators : Carries(p, i)

(* A row carries only an identity that was stored for it, by the browser   *)
(* or when it was created: a session upstream answers with is not written. *)
OwnIdentity == \A i \in DOMAIN db : db[i].cookie.id \in owned[i]

(* The ticket of an account a browser manages is exchanged by the browser  *)
(* alone, whoever found the account stale: an exchange by the service      *)
(* would spend the ticket the browser holds (rotate.go 64, model_guard.go  *)
(* 115, cookie_pool.go 586).                                               *)
LeftToBrowser ==
  [][\A p \in Procs : pc[p] = "exchange" /\ pc'[p] # "exchange" => Id(p) \notin Managed]_vars

(* No caller gets two answers for the ticket of one account within         *)
(* MinInterval, not even refusals, and however long the answer took.       *)
(* (Two callers may: the time is read before the exchange and noted after  *)
(* it.)                                                                    *)
SpacedPerCaller ==
  [][\A p \in Procs :
       pc[p] = "exchange" /\ pc'[p] = "note" =>
         Elapsed(answered[p][Id(p)], MinInterval)]_vars
=============================================================================
