--------------------------- MODULE BrowserAccounts ---------------------------
(***************************************************************************)
(* Accounts that come from browsers: the capture of a profile's cookies    *)
(* (browserRefreshOne, browserRefreshCore, browserTryReadOnly in           *)
(* browser_cdp.go), their storing by profile and slot, the refresher that  *)
(* visits the accounts every minute, the administrator's fetch with its    *)
(* verification (browser_verify.go, admin_browser.go) and the extension    *)
(* that pushes cookies from a user's own browser (browser_ingest.go).      *)
(*                                                                         *)
(* What the controller, the page and the jar say is open at every step.    *)
(* Each SQL statement and each question to the browser is a step of its    *)
(* own; a restart may come between any two.                                *)
(***************************************************************************)
EXTENDS Integers, FiniteSets

CONSTANTS
  Profiles, Slots,   \* profiles and account slots (authuser); captures are of slot 0
  Ids,               \* ids the table accounts may hand out, 1, 2, ...
  InitialTables,     \* tables a start may find
  Refresher,         \* the goroutine of startBrowserAutoRefresh
  Admins, Ingesters, \* refresh-all, fetches and recaptures; the extension's pushes
  Cooldown,          \* browserRefreshCooldownSec
  MaxGap,            \* browserRefreshMaxGapSec
  Defer,             \* how long an account that needs a login is left alone
  MaxTime, MaxCalls, MaxFaults,   \* bounds
  None

Listers == {Refresher} \cup Admins
Procs == Listers \cup Ingesters

ASSUME IdsAssumption == Ids \subseteq Nat \ {0} /\ None \notin Nat
ASSUME ProcsAssumption == Refresher \notin Admins \cup Ingesters /\ Admins \cap Ingesters = {}
ASSUME TablesAssumption ==
  \A table \in InitialTables :
    /\ IsFiniteSet(DOMAIN table) /\ DOMAIN table \subseteq Ids \cap 1..Cardinality(DOMAIN table)
    /\ \A i \in DOMAIN table : table[i] \in [profile : Profiles, slot : Slots,
         source : {"browser", "remote"}, on : BOOLEAN, readable : BOOLEAN]
    /\ \A i, j \in DOMAIN table :
         table[i].profile = table[j].profile /\ table[i].slot = table[j].slot => i = j
ASSUME SlotsAssumption == 0 \in Slots
ASSUME TimesAssumption ==
  /\ Cooldown \in Nat \ {0} /\ MaxGap \in Nat /\ Defer \in Nat
  /\ MaxGap >= Cooldown /\ Defer >= Cooldown

VARIABLES
  now,      \* the clock
  rows,     \* the table accounts: id -> [profile, slot, source, on, readable]
  nextId,   \* its AUTOINCREMENT counter
  last,     \* browserLastRefreshAt
  due,      \* browser_next_refresh in kv, 0 when there is none
  pc,       \* where each goroutine stands
  job,      \* what it captures or pushes: [id, profile, slot, source]
  list,     \* the accounts a lister has still to visit, as it read them
  began,    \* the time at which the refresher's round began, 0 between rounds
  stage,    \* whether its capture has only read ("read") or loaded the page ("nav")
  force,    \* a capture that follows a failed verification
  row,      \* the row a store has found, None for an insert
  result,   \* how the capture ended
  bounds,   \* counters for the bounds
  autoAt,   \* history: when the refresher last turned to an account's browser
  cut       \* history: profiles whose capture or store a restart cut off

local == <<pc, job, list, began, stage, force, row, result>>
history == <<autoAt, cut>>
vars == <<now, rows, nextId, last, due, local, bounds, history>>

Count(bound, max) == bounds[bound] < max /\ bounds' = [bounds EXCEPT ![bound] = @ + 1]
Goto(p, label) == pc' = [pc EXCEPT ![p] = label]
Set(f, p, value) == [f EXCEPT ![p] = value]
Profile(p) == job[p].profile

Init ==
  /\ now = 1
  /\ rows \in InitialTables
  /\ nextId = 1 + Cardinality(DOMAIN rows)
  /\ last = [b \in Profiles |-> None]
  /\ due = [b \in Profiles |-> 0]
  /\ pc = [p \in Procs |-> "idle"]
  /\ job = [p \in Procs |-> None]
  /\ list = [p \in Listers |-> {}]
  /\ began = 0
  /\ stage = [p \in Procs |-> "read"]
  /\ force = [p \in Procs |-> FALSE]
  /\ row = [p \in Procs |-> None]
  /\ result = [p \in Procs |-> None]
  /\ bounds = [calls |-> 0, faults |-> 0]
  /\ autoAt = [b \in Profiles |-> None]
  /\ cut = {}

-----------------------------------------------------------------------------
(* Who captures *)

(* What a goroutine knew of a capture is gone when it is over.             *)
Free(p, label) ==
  /\ Goto(p, label)
  /\ job' = Set(job, p, None)
  /\ stage' = Set(stage, p, "read")
  /\ force' = Set(force, p, FALSE)
  /\ row' = Set(row, p, None)
  /\ result' = Set(result, p, None)

(* browserAccounts: a row that does not scan is skipped.                   *)
Listed == {i \in DOMAIN rows : rows[i].readable}
Account(i) ==
  [id |-> i, profile |-> rows[i].profile, slot |-> 0, source |-> rows[i].source, on |-> rows[i].on]

(* The goroutine takes up a capture or a push.                             *)
Take(p, what, label) ==
  /\ Goto(p, label)
  /\ job' = Set(job, p, what)
  /\ stage' = Set(stage, p, "read")
  /\ UNCHANGED <<row, result>>

(* browserAutoRefresh, and POST /admin/api/browser/refresh: the accounts   *)
(* are read once; without accounts or without a controller nothing is done. *)
StartRound(p) ==
  /\ pc[p] = "idle" /\ Listed # {}
  /\ IF p = Refresher THEN UNCHANGED bounds ELSE Count("calls", MaxCalls)
  /\ list' = Set(list, p, {Account(i) : i \in Listed})
  /\ began' = IF p = Refresher THEN now ELSE began
  /\ Goto(p, "each")
  /\ UNCHANGED <<now, rows, nextId, last, due, job, stage, force, row, result, history>>

(* Whether a lister turns to an account at all: the extension's are its    *)
(* own; the refresher also leaves out disabled ones and those not due.     *)
Wanted(p, account) ==
  /\ account.source # "remote"
  /\ p = Refresher => account.on /\ due[account.profile] <= began

NextAccount(p) ==
  /\ pc[p] = "each"
  /\ \/ /\ list[p] = {}
        /\ Goto(p, "idle")
        /\ began' = IF p = Refresher THEN 0 ELSE began
        /\ UNCHANGED <<list, job, stage, row, result>>
     \/ \E account \in list[p] :
          /\ \A other \in list[p] : account.id <= other.id
          /\ list' = Set(list, p, list[p] \ {account})
          /\ IF Wanted(p, account)
             THEN Take(p, account, "gate")
             ELSE UNCHANGED <<pc, job, stage, row, result>>
          /\ UNCHANGED began
  /\ UNCHANGED <<now, rows, nextId, last, due, force, bounds, autoAt, cut>>

(* .../profiles/<name>/fetch, and the recapture of an account of the       *)
(* browser's by a check or the model guard.                                *)
StartFetch(p) ==
  /\ p \in Admins /\ pc[p] = "idle" /\ Count("calls", MaxCalls)
  /\ \E b \in Profiles :
       Take(p, [id |-> None, profile |-> b, slot |-> 0, source |-> "browser", on |-> TRUE], "gate")
  /\ UNCHANGED <<now, rows, nextId, last, due, list, began, force, autoAt, cut>>

(* handleBrowserIngest: a push that says it is logged in, has the session  *)
(* cookies, and whose slot shows the account it names (verifySlotIdentity); *)
(* any other is refused and leaves nothing behind.                         *)
Ingest(p) ==
  /\ p \in Ingesters /\ pc[p] = "idle" /\ Count("calls", MaxCalls)
  /\ \E b \in Profiles, s \in Slots :
       Take(p, [id |-> None, profile |-> b, slot |-> s, source |-> "remote", on |-> TRUE], "lookup")
  /\ UNCHANGED <<now, rows, nextId, last, due, list, began, force, autoAt, cut>>

(* A capture is over.                                                      *)
Ends(p, how) ==
  /\ Goto(p, "result")
  /\ result' = Set(result, p, how)

(* browserRefreshGate; browserRefreshOneForce passes it and notes the time. *)
Gate(p) ==
  LET since == last[Profile(p)] IN
  /\ pc[p] = "gate"
  /\ IF force[p] \/ (IF since = None THEN TRUE ELSE now - since >= Cooldown)
     THEN /\ last' = [last EXCEPT ![Profile(p)] = now]
          /\ autoAt' = IF p = Refresher THEN [autoAt EXCEPT ![Profile(p)] = now] ELSE autoAt
          /\ cut' = IF p = Refresher THEN cut \ {<<"capture", Profile(p)>>} ELSE cut
          /\ Goto(p, "look") /\ UNCHANGED result
     ELSE Ends(p, "failed") /\ UNCHANGED <<last, autoAt, cut>>
  /\ UNCHANGED <<now, rows, nextId, due, job, list, began, stage, force, row, bounds>>

-----------------------------------------------------------------------------
(* browserRefreshCore *)

Asking(p, label) ==
  /\ pc[p] = label
  /\ UNCHANGED <<now, rows, nextId, last, due, job, list, began, force, row, bounds, autoAt, cut>>

(* The hold is released and the controller wakes the profile, or fails.    *)
(* Then browserTryReadOnly: with the session cookies in the jar and the    *)
(* page on gemini, verifyByInPageFetch decides, and a session upstream     *)
(* refuses ends the capture; without them, a page that shows a token is    *)
(* believed and the jar read again; anything else is to be loaded.         *)
Look(p) ==
  /\ Asking(p, "look")
  /\ \/ \E how \in {"failed", "relogin"} : Ends(p, how) /\ UNCHANGED stage
     \/ Goto(p, "lookup") /\ UNCHANGED <<stage, result>>
     \/ Goto(p, "load") /\ stage' = Set(stage, p, "nav") /\ UNCHANGED result

(* The page is loaded (cdpNavigate), or not; up to twelve looks find an    *)
(* error page, Google's sign-in, a token, or nothing, and then upstream is *)
(* asked.  Sign-in and a refusal end it as "relogin", a page that could    *)
(* not be read as "failed".  Of a session alive the jar is read: an error, *)
(* no session cookies, or the cookies to store.                            *)
Load(p) ==
  /\ Asking(p, "load") /\ UNCHANGED stage
  /\ \/ \E how \in {"failed", "relogin", "incomplete"} : Ends(p, how)
     \/ Goto(p, "lookup") /\ UNCHANGED result

-----------------------------------------------------------------------------
(* browserStoreCookieSourceAuthUser *)

OfJob(p, i) == rows[i].profile = Profile(p) /\ rows[i].slot = job[p].slot
Mine(p) == {i \in DOMAIN rows : OfJob(p, i)}

Storing(p, label) ==
  /\ pc[p] = label
  /\ UNCHANGED <<now, last, due, job, list, began, force, autoAt>>

Stored(p) == Goto(p, IF p \in Ingesters THEN "verify" ELSE "schedule")

(* The newest row of the profile and slot, of whatever source.  A query    *)
(* that fails counts as no row.                                            *)
Lookup(p) ==
  /\ Storing(p, "lookup")
  /\ \/ \E i \in Mine(p) :
          /\ \A j \in Mine(p) : j <= i
          /\ row' = Set(row, p, i) /\ Goto(p, "update")
          /\ UNCHANGED bounds
     \/ /\ (Mine(p) = {} /\ UNCHANGED bounds) \/ Count("faults", MaxFaults)
        /\ row' = Set(row, p, None) /\ Goto(p, "insert")
  /\ UNCHANGED <<rows, nextId, stage, result, cut>>

(* The UPDATE: the row is the last writer's, and readable from now on.     *)
Update(p) ==
  /\ Storing(p, "update")
  /\ rows' = IF row[p] \in DOMAIN rows
             THEN [rows EXCEPT ![row[p]].source = job[p].source, ![row[p]].readable = TRUE]
             ELSE rows
  /\ Goto(p, "merge")
  /\ UNCHANGED <<nextId, stage, row, result, bounds, cut>>

(* Deviation: only rows of the same source are taken for the same account. *)
MergeOfSource(p) ==
  LET others == {i \in Mine(p) \ {row[p]} : rows[i].source = job[p].source} IN
  /\ Storing(p, "merge")
  /\ rows' = [i \in DOMAIN rows \ others |-> rows[i]]
  /\ cut' = cut \ {<<"store", Profile(p), job[p].slot>>}
  /\ Stored(p)
  /\ UNCHANGED <<nextId, stage, row, result, bounds>>

(* The DELETE of the other rows of the profile and slot; an error is only  *)
(* logged.                                                                 *)
Merge(p) ==
  LET others == Mine(p) \ {row[p]}
      key == <<"store", Profile(p), job[p].slot>> IN
  /\ Storing(p, "merge")
  /\ \/ /\ rows' = [i \in DOMAIN rows \ others |-> rows[i]]
        /\ cut' = cut \ {key}
        /\ UNCHANGED bounds
     \/ Count("faults", MaxFaults) /\ cut' = cut \cup {key} /\ UNCHANGED rows
  /\ Stored(p)
  /\ UNCHANGED <<nextId, stage, row, result>>

(* The INSERT puts '' into last_ok_at: the row cannot be read.             *)
Insert(p) ==
  /\ Storing(p, "insert") /\ nextId \in Ids
  /\ rows' = [i \in DOMAIN rows \cup {nextId} |->
                IF i \in DOMAIN rows THEN rows[i]
                ELSE [profile |-> Profile(p), slot |-> job[p].slot, source |-> job[p].source,
                      on |-> TRUE, readable |-> FALSE]]
  /\ nextId' = nextId + 1
  /\ Stored(p)
  /\ UNCHANGED <<stage, row, result, bounds, cut>>

(* The UPDATE or the INSERT fails: a read-only capture navigates, another  *)
(* one is over, a push is refused.                                         *)
StoreFails(p) ==
  /\ pc[p] \in {"update", "insert"} /\ Count("faults", MaxFaults)
  /\ \/ p \in Ingesters /\ Free(p, "idle")
     \/ /\ p \notin Ingesters /\ stage[p] = "read"
        /\ Goto(p, "load") /\ stage' = Set(stage, p, "nav")
        /\ UNCHANGED <<job, force, row, result>>
     \/ /\ p \notin Ingesters /\ stage[p] = "nav" /\ Ends(p, "failed")
        /\ UNCHANGED <<job, stage, force, row>>
  /\ UNCHANGED <<now, rows, nextId, last, due, list, began, autoAt, cut>>

(* browserScheduleNextRefresh: between the cooldown and the largest gap.   *)
Schedule(p) ==
  /\ pc[p] = "schedule"
  /\ \E gap \in Cooldown..MaxGap : due' = [due EXCEPT ![Profile(p)] = now + gap]
  /\ Ends(p, "ok")
  /\ stage' = Set(stage, p, "read") /\ row' = Set(row, p, None)
  /\ UNCHANGED <<now, rows, nextId, last, job, list, began, force, bounds, autoAt, cut>>

-----------------------------------------------------------------------------
(* What follows a capture *)

AtResult(p) == pc[p] = "result" /\ UNCHANGED <<now, nextId, last, list, began, bounds, cut>>

(* The refresher deletes an account: its next one is another.              *)
Forgets(p) ==
  autoAt' = IF result[p] = "incomplete" THEN [autoAt EXCEPT ![Profile(p)] = None] ELSE autoAt

(* markAccountResult(id, true, ""): last_ok_at is written.                 *)
Marked(id) == IF id \in DOMAIN rows THEN [rows EXCEPT ![id].readable = TRUE] ELSE rows
Without(ids) == [i \in DOMAIN rows \ ids |-> rows[i]]

(* Deviation: a failure does not put the next visit off.                   *)
AutoResultAtOnce ==
  /\ AtResult(Refresher) /\ Forgets(Refresher) /\ Free(Refresher, "each")
  /\ rows' = CASE result[Refresher] = "ok"         -> Marked(job[Refresher].id)
               [] result[Refresher] = "incomplete" -> Without({job[Refresher].id})
               [] OTHER                       -> rows
  /\ UNCHANGED due

(* browserAutoRefresh after a capture: a success marks the account, a jar  *)
(* without session cookies deletes it, anything else puts it off.          *)
AutoResult ==
  /\ AtResult(Refresher) /\ Forgets(Refresher) /\ Free(Refresher, "each")
  /\ rows' = CASE result[Refresher] = "ok"         -> Marked(job[Refresher].id)
               [] result[Refresher] = "incomplete" -> Without({job[Refresher].id})
               [] OTHER                       -> rows
  /\ LET wait == IF result[Refresher] = "relogin" THEN Defer ELSE Cooldown IN
     due' = IF result[Refresher] \in {"ok", "incomplete"} THEN due
            ELSE [due EXCEPT ![Profile(Refresher)] = now + wait]

(* handleAdminBrowserNow.                                                  *)
NowResult(p) ==
  /\ p \in Admins /\ AtResult(p) /\ job[p].id # None
  /\ Free(p, "each")
  /\ rows' = IF result[p] = "ok" THEN Marked(job[p].id) ELSE rows
  /\ UNCHANGED <<due, autoAt>>

(* A fetch verifies what it stored; a recapture is over.                   *)
FetchResult(p) ==
  /\ p \in Admins /\ AtResult(p) /\ job[p].id = None
  /\ \/ Free(p, "idle")
     \/ /\ result[p] = "ok" /\ Goto(p, "verify") /\ result' = Set(result, p, None)
        /\ UNCHANGED <<job, stage, force, row>>
  /\ UNCHANGED <<rows, due, autoAt>>

(* browserVerifyAfterFetch: a fetch whose verification fails for another   *)
(* reason than its exit captures once more, past the gate.                 *)
Verify(p) ==
  /\ pc[p] = "verify"
  /\ \/ Free(p, "idle")
     \/ /\ p \in Admins /\ ~force[p]
        /\ Goto(p, "gate") /\ force' = Set(force, p, TRUE)
        /\ stage' = Set(stage, p, "read")
        /\ UNCHANGED <<job, row, result>>
  /\ UNCHANGED <<now, rows, nextId, last, due, list, began, bounds, autoAt, cut>>

-----------------------------------------------------------------------------
(* The administrator, restarts and the clock *)

ByAdmin ==
  /\ Count("faults", MaxFaults)
  /\ UNCHANGED <<now, nextId, last, due, local, history>>

(* DELETE .../profiles/<name>: the instance is stopped, then every row of  *)
(* the profile goes.                                                       *)
DeleteProfile(b) == ByAdmin /\ rows' = Without({i \in DOMAIN rows : rows[i].profile = b})

Toggle(i) == ByAdmin /\ i \in Listed /\ rows' = [rows EXCEPT ![i].on = ~@]

(* A restart: the gate's times are lost, the table and kv are not.         *)
Crash ==
  /\ Count("faults", MaxFaults)
  /\ last' = [b \in Profiles |-> None]
  /\ pc' = [p \in Procs |-> "idle"]
  /\ job' = [p \in Procs |-> None]
  /\ list' = [p \in Listers |-> {}]
  /\ stage' = [p \in Procs |-> "read"]
  /\ force' = [p \in Procs |-> FALSE]
  /\ row' = [p \in Procs |-> None]
  /\ result' = [p \in Procs |-> None]
  /\ cut' = cut \cup {<<"store", Profile(p), job[p].slot>> : p \in {q \in Procs : pc[q] = "merge"}}
                \cup IF pc[Refresher] \in {"idle", "each", "gate"} THEN {}
                     ELSE {<<"capture", Profile(Refresher)>>}
  /\ began' = 0
  /\ UNCHANGED <<now, rows, nextId, due, autoAt>>

Tick == now < MaxTime /\ now' = now + 1 /\ UNCHANGED <<rows, nextId, last, due, local, bounds, history>>

Capture(p) ==
  \/ Gate(p) \/ Look(p) \/ Load(p)
  \/ Lookup(p) \/ Update(p) \/ Merge(p) \/ Insert(p) \/ StoreFails(p) \/ Schedule(p)

Next ==
  \/ \E p \in Listers : StartRound(p) \/ NextAccount(p)
  \/ \E p \in Admins : StartFetch(p) \/ FetchResult(p) \/ NowResult(p)
  \/ \E p \in Ingesters : Ingest(p)
  \/ \E p \in Procs : Capture(p) \/ Verify(p)
  \/ AutoResult
  \/ \E b \in Profiles : DeleteProfile(b)
  \/ \E i \in Ids : Toggle(i)
  \/ Crash \/ Tick

Spec == Init /\ [][Next]_vars

-----------------------------------------------------------------------------
(* Properties *)

(* Every table and capture is of the shape the code gives it, and no visit *)
(* is put off further than the largest gap or a login's respite.           *)
TypeOK ==
  /\ DOMAIN rows \subseteq Ids /\ nextId \in Nat
  /\ \A i \in DOMAIN rows :
       /\ i < nextId
       /\ rows[i] \in [profile : Profiles, slot : Slots, source : {"browser", "remote"},
                       on : BOOLEAN, readable : BOOLEAN]
  /\ last \in [Profiles -> 1..MaxTime \cup {None}]
  /\ \A b \in Profiles : due[b] \in Nat /\ (due[b] <= now + MaxGap \/ due[b] <= now + Defer)
  /\ \A p \in Procs : stage[p] \in {"read", "nav"} /\ (pc[p] \in {"idle", "each"} \/ job[p] # None)
  /\ \A p \in Procs : result[p] # None => pc[p] = "result"

(* Per profile and slot at most one account can be seen and scheduled,     *)
(* whichever of browser and extension wrote it last: the twin is deleted   *)
(* before the store is over, unless that DELETE failed or a restart came   *)
(* first (browser_cdp.go:1243-1248, one account drawn on as two).          *)
Twins(b, s) == {i \in Listed : rows[i].profile = b /\ rows[i].slot = s}
VisibleOnce ==
  \A b \in Profiles, s \in Slots :
    \/ Cardinality(Twins(b, s)) <= 1
    \/ <<"store", b, s>> \in cut
    \/ \E p \in Procs : pc[p] = "merge" /\ job[p].profile = b /\ job[p].slot = s

(* The refresher comes back to an account's browser no sooner than after   *)
(* the cooldown, over restarts too, which forget the gate's times but not  *)
(* what is in kv; a restart in the middle of a capture is the exception.   *)
AutoSpaced ==
  [][\A b \in Profiles :
       (autoAt'[b] # autoAt[b] /\ None \notin {autoAt[b], autoAt'[b]} /\ <<"capture", b>> \notin cut)
         => autoAt'[b] - autoAt[b] >= Cooldown]_vars

(* An account that was stored can be seen by what visits and lists the     *)
(* accounts (browser_cdp.go:1309).                                         *)
StoredIsListed == \A i \in DOMAIN rows : rows[i].readable

(* The refresher never touches an account that is the extension's          *)
(* (browser_cdp.go:1366-1369).                                             *)
RemoteKept ==
  [][(pc[Refresher] = "result" /\ pc'[Refresher] = "each")
       => \A i \in DOMAIN rows : rows[i].source = "remote" => i \in DOMAIN rows']_vars

=============================================================================
