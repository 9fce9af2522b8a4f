------------------------------- MODULE Startup -------------------------------
(***************************************************************************)
(* What outlives a restart, and how a start brings it in line with its     *)
(* parameters (Run in app.go): the runtime configuration with its saves    *)
(* (runtime.go) and the verification that lowers retry_attempts for one    *)
(* call (browser_verify.go); the adoption of a value left by an older      *)
(* release, and the one record each of --proxy and --cookie-file keeps in  *)
(* the pools (proxy.go, cookie_pool.go); the removal of legacy profiles    *)
(* (account_identity.go).                                                  *)
(*                                                                         *)
(* The two pools follow the same protocol; kind is "proxy" or "cookie".    *)
(* Every statement is a step; any may fail, and a restart may come between *)
(* any two.                                                                *)
(***************************************************************************)
EXTENDS Integers, FiniteSets

CONSTANTS
  Values,      \* proxy URLs, cookies
  Bad,         \* those proxyCreate refuses
  Renewed,     \* a cookie after a Set-Cookie or a rotated ticket
  Unreadable,  \* what a --cookie-file that cannot be read or parsed holds
  Flags,       \* what a start may be given: [kind -> value, None or Unreadable]
  Olds,        \* what an older release may have left: [kind -> value or None]
  Savers,      \* administrators and verifications that save the configuration
  Retries, Default,   \* values of retry_attempts, and that of the start-up configuration
  Budgets,     \* bounds on starts, edits, faults, saves and probes; a behaviour has one
  None

Kinds == {"proxy", "cookie"}
ASSUME BadAssumption == Bad \subseteq Values /\ {None, Unreadable, Renewed} \cap Values = {}
ASSUME RetriesAssumption == Retries \subseteq Nat \ {0} /\ {1, Default} \subseteq Retries
ASSUME StartsAssumption ==
  /\ Flags \subseteq [Kinds -> Values \cup {None, Unreadable}]
  /\ Olds \subseteq [Kinds -> Values \cup {None}]
ASSUME NoneAssumption == None \notin Nat \cup Kinds /\ None # Unreadable

VARIABLES
  table,    \* kind -> id -> [value, born, by]: the pool, with the value a row began with
  nextId,   \* kind -> the table's AUTOINCREMENT counter
  seedVal,  \* kind -> kvSeededProxyURL, kvSeededCookieVal
  seedId,   \* kind -> kvSeededProxyID, kvSeededCookieID
  done,     \* kind -> kvLegacyProxyDone, kvLegacyCookieDone
  old,      \* kind -> the older release's value: a key of runtime_config, google_cookie
  saved,    \* retry_attempts in kv's runtime_config, None before the first save
  running,  \* that of rtVal
  at,       \* where the start stands: [step, kind, id]
  flag,     \* kind -> --proxy, and what --cookie-file holds
  pc, next, back,  \* each saver: where it stands, what it writes, what it restores
  left,     \* what is left of the budget
  old0, ever, cut, wanted, muddled
            \* history: the older values; all values that were in a pool; pools with a
            \* fault or restart inside their seeding; what the administrator saved last;
            \* whether a verification was disturbed

pools == <<table, nextId, seedVal, seedId, done>>
config == <<saved, running, pc, next, back, wanted, muddled>>
vars == <<pools, old, at, flag, config, left, old0, ever, cut>>

Spend(what) == left[what] > 0 /\ left' = [left EXCEPT ![what] = @ - 1]
Step(step, kind, id) == at' = [step |-> step, kind |-> kind, id |-> id]
Up == at.step = "up"
Pooled(kind) == {table[kind][i].value : i \in DOMAIN table[kind]}
With(kind, value, by) ==
  [table EXCEPT ![kind] = [i \in DOMAIN @ \cup {nextId[kind]} |->
     IF i \in DOMAIN @ THEN @[i] ELSE [value |-> value, born |-> value, by |-> by]]]
Without(kind, ids) == [table EXCEPT ![kind] = [i \in DOMAIN @ \ ids |-> @[i]]]

Init ==
  /\ table \in [Kinds -> {[i \in {} |-> None]}]
  /\ nextId = [kind \in Kinds |-> 1]
  /\ seedVal = [kind \in Kinds |-> None]
  /\ seedId = [kind \in Kinds |-> None]
  /\ done = [kind \in Kinds |-> FALSE]
  /\ old0 \in Olds /\ old = old0
  /\ saved = IF old0["proxy"] = None THEN None ELSE Default
  /\ running = Default /\ wanted = Default /\ muddled = FALSE
  /\ at = [step |-> "down", kind |-> None, id |-> None]
  /\ flag = [kind \in Kinds |-> None]
  /\ pc = [s \in Savers |-> "idle"]
  /\ next = [s \in Savers |-> None]
  /\ back = [s \in Savers |-> None]
  /\ left \in Budgets
  /\ ever = [kind \in Kinds |-> {}]
  /\ cut = {}

-----------------------------------------------------------------------------
(* The start *)

(* A statement on the pool of the kind in hand; or it fails.               *)
Does(step) == at.step = step /\ UNCHANGED <<old, flag, config, left, old0>>
Fault == left.faults > 0 /\ left' = [left EXCEPT !.faults = @ - 1] /\ cut' = cut \cup {at.kind}
FaultAt(step) == at.step = step /\ Fault /\ UNCHANGED <<old, flag, config, old0>>
Noted == ever' = [kind \in Kinds |-> ever[kind] \cup {table'[kind][i].value : i \in DOMAIN table'[kind]}]

(* One pool is done: the other's turn, then the legacy profiles'.          *)
Leave == IF at.kind = "proxy" THEN Step("adopt", "cookie", None) ELSE Step("purge", None, None)

(* main and Run: the flags are what this start was given.                  *)
Start ==
  /\ at.step = "down" /\ Spend("starts")
  /\ flag' \in Flags
  /\ Step("init", None, None)
  /\ UNCHANGED <<pools, old, config, old0, ever, cut>>

(* initRuntimeConfig: what was saved, over the start-up configuration.     *)
InitRuntimeConfig ==
  /\ at.step = "init"
  /\ running' = IF saved = None THEN Default ELSE saved
  /\ Step("adopt", "proxy", None)
  /\ UNCHANGED <<pools, old, flag, saved, pc, next, back, wanted, muddled, left, old0, ever, cut>>

(* migrateLegacyStaticProxy, migrateLegacyCookie: once, and not before the *)
(* value is in the pool; a value the pool refuses is tried at every start. *)
Adopt ==
  LET k == at.kind IN
  \/ /\ Does("adopt") /\ done[k] /\ Step("compare", k, None)
     /\ UNCHANGED <<pools, ever, cut>>
  \/ /\ Does("adopt") /\ ~done[k] /\ old[k] \in Pooled(k) \cup {None}
     /\ Step("mark", k, None)
     /\ UNCHANGED <<pools, ever, cut>>
  \/ /\ Does("adopt") /\ ~done[k] /\ old[k] \in Values \ (Bad \cup Pooled(k))
     /\ table' = With(k, old[k], "adopted") /\ nextId' = [nextId EXCEPT ![k] = @ + 1]
     /\ Noted /\ Step("mark", k, None)
     /\ UNCHANGED <<seedVal, seedId, done, cut>>
  \/ /\ Does("adopt") /\ ~done[k] /\ old[k] \in Bad \ Pooled(k)
     /\ Step("compare", k, None)
     /\ UNCHANGED <<pools, ever, cut>>
  \/ /\ FaultAt("adopt") /\ ~done[k] /\ old[k] \in Values \ Pooled(k)
     /\ Step("compare", k, None)
     /\ UNCHANGED <<pools, ever>>

Mark ==
  /\ \/ Does("mark") /\ done' = [done EXCEPT ![at.kind] = TRUE] /\ UNCHANGED cut
     \/ FaultAt("mark") /\ UNCHANGED done
  /\ Step("compare", at.kind, None)
  /\ UNCHANGED <<table, nextId, seedVal, seedId, ever>>

(* syncSeededProxy, syncSeededCookieFile: the pool is left alone while the *)
(* parameter is what it was, or the file cannot be read.                   *)
Compare ==
  /\ Does("compare")
  /\ IF flag[at.kind] \in {seedVal[at.kind], Unreadable} THEN Leave ELSE Step("drop", at.kind, None)
  /\ UNCHANGED <<pools, ever, cut>>

Recorded(k) == {i \in DOMAIN table[k] : i = seedId[k] /\ seedVal[k] # None}
AfterDrop(k) ==
  IF flag[k] = None \/ flag[k] \in {table'[k][i].value : i \in DOMAIN table'[k]}
  THEN Step("value", k, None) ELSE Step("create", k, None)

(* Deviation: the record is withdrawn whatever became of it.               *)
DropById ==
  LET k == at.kind IN
  /\ Does("drop") /\ table' = Without(k, Recorded(k)) /\ UNCHANGED cut
  /\ AfterDrop(k)
  /\ UNCHANGED <<nextId, seedVal, seedId, done, ever>>

(* Deviation: what the parameter was before stays.                         *)
DropNothing ==
  /\ Does("drop") /\ UNCHANGED <<pools, ever, cut>>
  /\ AfterDrop(at.kind)

(* dropSeededProxy, dropSeededCookie: the record is withdrawn if it still  *)
(* has the value it was created with.                                      *)
Drop ==
  LET k == at.kind
      mine == {i \in Recorded(k) : table[k][i].value = seedVal[k]} IN
  /\ \/ Does("drop") /\ table' = Without(k, mine) /\ UNCHANGED cut
     \/ FaultAt("drop") /\ mine # {} /\ UNCHANGED table
  /\ AfterDrop(k)
  /\ UNCHANGED <<nextId, seedVal, seedId, done, ever>>

(* proxyCreate, accountAdopt; a failure leaves everything for the next     *)
(* start.                                                                  *)
Create ==
  LET k == at.kind IN
  \/ /\ Does("create") /\ flag[k] \notin Bad
     /\ table' = With(k, flag[k], "seed") /\ nextId' = [nextId EXCEPT ![k] = @ + 1]
     /\ Noted /\ Step("value", k, nextId[k])
     /\ UNCHANGED <<seedVal, seedId, done, cut>>
  \/ Does("create") /\ flag[k] \in Bad /\ Leave /\ UNCHANGED <<pools, ever, cut>>
  \/ FaultAt("create") /\ Leave /\ UNCHANGED <<pools, ever>>

(* The two kvSet that record it; each may fail unnoticed.                  *)
RecordValue ==
  /\ \/ Does("value") /\ seedVal' = [seedVal EXCEPT ![at.kind] = flag[at.kind]] /\ UNCHANGED cut
     \/ FaultAt("value") /\ UNCHANGED seedVal
  /\ Step("id", at.kind, at.id)
  /\ UNCHANGED <<table, nextId, seedId, done, ever>>

RecordId ==
  /\ \/ Does("id") /\ seedId' = [seedId EXCEPT ![at.kind] = at.id] /\ UNCHANGED cut
     \/ FaultAt("id") /\ UNCHANGED seedId
  /\ Leave
  /\ UNCHANGED <<table, nextId, seedVal, done, ever>>

(* purgeLegacySlotProfiles: the rows of profiles named like browser1-u1.   *)
Purge ==
  /\ Does("purge")
  /\ table' = Without("cookie", {i \in DOMAIN table["cookie"] : table["cookie"][i].by = "slots"})
  /\ Step("up", None, None)
  /\ UNCHANGED <<nextId, seedVal, seedId, done, ever, cut>>

(* The process ends: any time while it serves, or in the middle of a start. *)
Ends ==
  /\ at.step # "down"
  /\ IF Up THEN UNCHANGED <<left, cut>>
     ELSE Spend("faults") /\ cut' = IF at.kind = None THEN cut ELSE cut \cup {at.kind}
  /\ Step("down", None, None)
  /\ pc' = [s \in Savers |-> "idle"]
  /\ next' = [s \in Savers |-> None]
  /\ back' = [s \in Savers |-> None]
  /\ muddled' = (muddled \/ \E s \in Savers : pc[s] # "idle")
  /\ UNCHANGED <<pools, old, flag, saved, running, wanted, old0, ever>>

-----------------------------------------------------------------------------
(* While it serves *)

OnPool(kind) == Up /\ UNCHANGED <<seedVal, seedId, done, old, at, flag, config, old0, cut>>

(* The administrator adds, changes or deletes a row.                       *)
AddRow(kind, value) ==
  /\ OnPool(kind) /\ Spend("edits") /\ value \notin Bad
  /\ table' = With(kind, value, "admin") /\ nextId' = [nextId EXCEPT ![kind] = @ + 1] /\ Noted
EditRow(kind, i, value) ==
  /\ OnPool(kind) /\ Spend("edits") /\ value \notin Bad
  /\ i \in DOMAIN table[kind]
  /\ table' = [table EXCEPT ![kind][i].value = value,
                            ![kind][i].by = IF i = seedId[kind] THEN @ ELSE "admin"]
  /\ Noted /\ UNCHANGED nextId
DeleteRow(kind, i) ==
  /\ OnPool(kind) /\ Spend("edits") /\ i \in DOMAIN table[kind] /\ table' = Without(kind, {i})
  /\ UNCHANGED <<nextId, ever>>

(* A cookie changes under its account: mergeSetCookie, rotateAccountTicket. *)
Renew(i) ==
  /\ OnPool("cookie") /\ Spend("edits") /\ i \in DOMAIN table["cookie"]
  /\ table' = [table EXCEPT !["cookie"][i].value = Renewed]
  /\ UNCHANGED <<nextId, ever>>

(* An extension of an older release pushed browser1-u1.                    *)
PushSlot ==
  /\ OnPool("cookie") /\ Spend("edits")
  /\ table' = With("cookie", Renewed, "slots") /\ nextId' = [nextId EXCEPT !["cookie"] = @ + 1]
  /\ UNCHANGED ever

OnConfig == Up /\ UNCHANGED <<pools, at, flag, old0, ever, cut>>
Idle == \A s \in Savers : pc[s] = "idle"

(* PUT /admin/api/config: a valid configuration.                           *)
AdminSaves(s, value) ==
  /\ OnConfig /\ pc[s] = "idle" /\ Spend("saves")
  /\ pc' = [pc EXCEPT ![s] = "kv"] /\ next' = [next EXCEPT ![s] = value]
  /\ wanted' = value /\ muddled' = (muddled \/ ~Idle)
  /\ UNCHANGED <<old, saved, running, back>>

(* probeWithModel: more than one attempt is lowered to one for this call.  *)
ProbeStarts(s) ==
  /\ OnConfig /\ pc[s] = "idle" /\ Spend("probes") /\ running > 1
  /\ pc' = [pc EXCEPT ![s] = "kv"]
  /\ next' = [next EXCEPT ![s] = 1] /\ back' = [back EXCEPT ![s] = running]
  /\ muddled' = (muddled \/ \E t \in Savers : pc[t] # "idle" /\ back[t] = None)
  /\ UNCHANGED <<old, saved, running, wanted>>

(* saveRuntimeConfig: kv is written, with the fields this release knows    *)
(* and no others, then rtVal.  A failed write saves nothing.               *)
SaveKv(s) ==
  /\ OnConfig /\ pc[s] = "kv"
  /\ \/ /\ saved' = next[s] /\ old' = [old EXCEPT !["proxy"] = None]
        /\ pc' = [pc EXCEPT ![s] = "rt"]
        /\ UNCHANGED <<left, next, back, muddled>>
     \/ /\ Spend("faults") /\ muddled' = TRUE
        /\ IF back[s] = None \/ next[s] = back[s]
           THEN /\ pc' = [pc EXCEPT ![s] = "idle"] /\ next' = [next EXCEPT ![s] = None]
                /\ back' = [back EXCEPT ![s] = None]
           ELSE pc' = [pc EXCEPT ![s] = "call"] /\ UNCHANGED <<next, back>>
        /\ UNCHANGED <<saved, old>>
  /\ UNCHANGED <<running, wanted>>

SaveRt(s) ==
  /\ OnConfig /\ pc[s] = "rt" /\ running' = next[s]
  /\ IF back[s] = None \/ next[s] = back[s]
     THEN /\ pc' = [pc EXCEPT ![s] = "idle"] /\ next' = [next EXCEPT ![s] = None]
          /\ back' = [back EXCEPT ![s] = None]
     ELSE pc' = [pc EXCEPT ![s] = "call"] /\ UNCHANGED <<next, back>>
  /\ UNCHANGED <<saved, old, wanted, muddled, left>>

(* Deviation: a call that fails is not followed by the restoring save.     *)
CallFails(s) ==
  /\ OnConfig /\ pc[s] = "call" /\ pc' = [pc EXCEPT ![s] = "idle"]
  /\ next' = [next EXCEPT ![s] = None] /\ back' = [back EXCEPT ![s] = None]
  /\ UNCHANGED <<saved, running, old, wanted, muddled, left>>

(* The call is over, the deferred save restores what was read before it.   *)
Restore(s) ==
  /\ OnConfig /\ pc[s] = "call"
  /\ pc' = [pc EXCEPT ![s] = "kv"] /\ next' = [next EXCEPT ![s] = back[s]]
  /\ UNCHANGED <<saved, running, back, old, wanted, muddled, left>>

Next ==
  \/ Start \/ InitRuntimeConfig \/ Adopt \/ Mark \/ Compare \/ Drop \/ Create
  \/ RecordValue \/ RecordId \/ Purge \/ Ends \/ PushSlot
  \/ \E kind \in Kinds, value \in Values : AddRow(kind, value)
  \/ \E kind \in Kinds : \E i \in DOMAIN table[kind] :
       DeleteRow(kind, i) \/ \E value \in Values : EditRow(kind, i, value)
  \/ \E i \in DOMAIN table["cookie"] : Renew(i)
  \/ \E s \in Savers : ProbeStarts(s) \/ SaveKv(s) \/ SaveRt(s) \/ Restore(s)
  \/ \E s \in Savers, value \in Retries : AdminSaves(s, value)

Spec == Init /\ [][Next]_vars

-----------------------------------------------------------------------------
(* Properties *)

(* The pools, the records in kv and the configuration are of their shapes, *)
(* and a record in kv is of a row the table has handed out.                *)
TypeOK ==
  /\ \A kind \in Kinds :
       /\ \A i \in DOMAIN table[kind] :
            /\ i \in 1..(nextId[kind] - 1)
            /\ table[kind][i].value \in Values \cup {Renewed}
            /\ table[kind][i].by \in {"seed", "adopted", "admin", "slots"}
       /\ seedVal[kind] \in Values \cup {None}
       /\ seedId[kind] # None => seedId[kind] \in 1..(nextId[kind] - 1)
  /\ done \in [Kinds -> BOOLEAN]
  /\ saved \in Retries \cup {None} /\ running \in Retries
  /\ \A s \in Savers : pc[s] # "idle" => next[s] \in Retries

Seeded(kind) == {i \in DOMAIN table[kind] : table[kind][i].by = "seed"}
Unchanged(kind) == {i \in Seeded(kind) : table[kind][i].value = table[kind][i].born}

(* A parameter has at most one record in its pool, whatever it was before: *)
(* a changed value replaces the record and does not add one, unless a      *)
(* fault or a restart fell inside a seeding (proxy.go:166-172).            *)
OneRecord == \A kind \in Kinds \ cut : Up => Cardinality(Unchanged(kind)) <= 1

(* A start never deletes or changes a row that the administrator made,     *)
(* adopted or changed, nor one the program has renewed, unless a fault or  *)
(* a restart fell inside a seeding of that pool (proxy.go:204-206).        *)
OthersKept ==
  [][at.step \notin {"up", "down", "purge"} =>
       \A kind \in Kinds \ cut : \A i \in DOMAIN table[kind] \ Unchanged(kind) :
         i \in DOMAIN table'[kind] /\ table'[kind][i] = table[kind][i]]_vars

(* The single cookie of an older release is given up only after it was in  *)
(* the pool, however many starts that takes (cookie_pool.go:263-265).      *)
OldCookieKept == done["cookie"] => old0["cookie"] \in ever["cookie"] \cup {None}

(* Once verifications and saves are over the configuration is what the     *)
(* administrator saved last, in kv and in memory, unless a verification    *)
(* was interrupted or overlapped with another save (browser_verify.go:86). *)
ProbesRestore == Up /\ Idle /\ ~muddled => running = wanted /\ saved \in {wanted, None}

(* The static proxy of an older release is kept until it is in the pool    *)
(* (proxy.go:117-125).                                                     *)
OldProxyKept == done["proxy"] => old0["proxy"] \in ever["proxy"] \cup {None}

(* What --cookie-file held before does not stay (cookie_pool.go:289-293).  *)
OneCookieFile ==
  Up /\ "cookie" \notin cut =>
    Cardinality({i \in Seeded("cookie") :
                   table["cookie"][i].value \in {table["cookie"][i].born, Renewed}}) <= 1

(* After a start the proxy that --proxy names is in the pool if it is a    *)
(* legal one, unless the administrator took it out (proxy.go:166).         *)
ProxyPooled ==
  Up /\ left.edits = 2 /\ cut = {} /\ flag["proxy"] \in Values \ Bad => flag["proxy"] \in Pooled("proxy")

=============================================================================
