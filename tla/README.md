# Verification of gemini-web2api-go

The repository is an HTTP gateway in Go that speaks the OpenAI, Anthropic and
MCP protocols to its clients and the protocol of the Gemini web front end to
Google.  It keeps a pool of Google accounts (cookies) and a pool of exits
(proxies), logs accounts in through real browsers, refreshes their cookies,
limits the rate of each exit and serves an admin panel.  This directory holds
TLA+ models of its stateful parts, TLC instances that check them and TLAPS
proofs about them.  Paths without a directory are in `src/internal/app/`.

Contents: 1 inventory, 2 plan, 3 the modules, 4 the runs, 5 bounds, 6 fairness,
7 what is proved, 8 findings, 9 other divergences, 10 what is not modelled.

## 1. Inventory

| component | source | state it keeps | operations | what makes it correct |
|---|---|---|---|---|
| per-exit limiter | `ratelimit.go` | per exit: requests in flight, two windows of admission times | `trySlotAcquire`, `slotRelease`, `slotUsage` | the counter is exact; no sliding minute or hour exceeds its cap; the mutex is never kept |
| proxy pool | `proxy.go`, `gemini.go` 230-305 | table `proxies`, `proxyCache`, `proxyCursor` | load, pick, record a result, create, switch, delete, reset | the list requests read is a whole one and converges to the table; every usable exit is tried; never a silent direct connection |
| account pool | `cookie_pool.go`, `gemini.go` 400-480 | table `accounts`, `pickMu` | pick, mark, disable, bind, check, add, delete, switch | turns alternate; only rejections count; three in a row means in a row; a binding moves only when its exit fails; no silent anonymous answer |
| upstream call, page tokens | `gemini.go` 500-790, `xsrf.go`, `authuser.go` | `xsrfCache`; per call: attempt, token, what was emitted | fetch a token, post, judge, stream, heal, collect | tokens do not cross slots; one answer without repetition or gap; every post is reported; posts are bounded |
| conversations | `conversation.go` | `convStore`, the `convState`s it points to | `convGet`, `convPut`, `convDelete`, `streamGenerateConv` | a continuation names its client's history; a failed one is not continued; the store is bounded |
| runtime configuration | `runtime.go`, `config.go` | `rtVal` under `rtMu`, one kv row | `initRuntimeConfig`, `rtCfg`, `saveRuntimeConfig` | saved is what is read after a restart; concurrent saves do not lose fields |
| seeding at start-up | `proxy.go` 109-222, `cookie_pool.go` 249-353 | kv pairs `seeded_*`, one row in each pool | follow the start parameter with one record | exactly one record per parameter across restarts and crashes; the user's edits win |
| ticket rotation | `rotate.go`, `model_guard.go`, `cookie_pool.go` 569-683, 730-760 | cookies in `accounts`, `psidtsLastAt`, `modelGuardLastFired` | `rotateAccount`, `tryRotate1PSIDTS`, `rotateAllAccounts`, `updateAccountCookie` | a one-time ticket is in its row, on its way there, or it is known how it was lost; no foreign identity is written; a browser's ticket is left to it |
| client version | `bl.go` | cached version, fetching flag | `currentBL`, `refreshBL` | one fetch at a time, the flag always falls |
| browser accounts | `browser_cdp.go`, `browser_ingest.go`, `browser_verify.go`, `admin_browser.go` | columns `source`, `profile`, `authuser` of `accounts`, kv rows `browser_next_refresh…`, refresh gate | capture, ingest, verify, schedule, delete | one visible row per profile and slot; the refresher keeps its distance; a stored account is usable |
| browser controller | `src/tools/browser-controller/*.js` | Chromium processes, VNC sessions | start, stop, idle out, prune | one process per profile |
| browser extension | `ext_assets/background.js` | pending uploads, alarm | push, retry | what was captured arrives |
| cookie scripts | `src/tools/cookie-sync/*.py` | a queue file, logins | refresh, log in again | each account at most once in the queue |
| client requests | `server.go`, `sse.go`, `messages.go` 250-459 | none beyond a request | `handleChatCompletions`, `handleResponses`, the tool-fence gate, tails | one ending of one kind; a streamed text is the answer; items are announced before they are used |
| video jobs and pictures | `videos.go`, `images.go`, `media.go` | `videoJobs`; per request tries, echoes, pictures | create, run, poll, collect, try again | a job ends once and is told forwards; what was obtained is delivered; nothing is given up without a reason |
| statistics | `scheduler.go` | tables `requests`, `stats_hourly`, `stats_daily` | aggregate, retain | every request is counted once before its row goes |
| API keys, admin sessions | `apikey.go`, `admin.go`, `db.go` | the key, session rows | check, reset, log in and out | single statements |
| database layer | `db.go`, `dbdialect.go` | the connection | open, migrate, rewrite dialects | single statements are atomic |
| wire formats | `messages.go`, `media.go`, `images.go`, `mcp.go`, `sse.go`, `vision.go`, `upload.go`, … | none beyond a request | translation | the closing tail of a stream (in UpstreamCall) |
| pages | `admin_ui/`, `src/tools/image-gen` | none | serve | static |

How they interact.  A request handler picks an account, asks the proxy pool for
an exit (preferring the one the account is bound to), which asks the limiter of
each exit in turn; it fetches a page token with the account, posts upstream, and
writes results back to both pools.  Background goroutines reload the proxy list
every 60 s, rotate cookies, refresh browsers and aggregate statistics.  The
administrator's handlers write the same tables and caches at any time.  All of
it is one process with SQLite behind it (WAL, several connections); a restart
keeps the tables and loses the maps.

What is hard: several reads of one configuration within one decision; a table
and its cache changed in two steps by several goroutines; a list read before and
installed after another writer's change; tokens and cookies fetched without a
lock and written back over newer ones; retries in which the health of an
account, of its exit and of the answer already passed on meet; conversations
whose state is shared by several keys; crashes between two writes at start-up.
`PROJECT.json` lists the hazards that matter most at their lines, with the
properties that guard each one, or why none does.

## 2. Plan

Done, in this order, the most depended upon first:

1. `SlotLimiter`, its abstract specification `ExitQuota`, proofs in
   `RequestProofs`.
2. `ProxyPool`, proofs in `ProxyPoolProofs`.
3. `CookiePool`, proofs in `CallProofs`.
4. `Conversation`, proofs in `ConversationProofs`.
5. `UpstreamCall`, proofs in `CallProofs` too: the two are the halves of one
   request, the account and the posts.
6. `CookieTickets`, proofs in `CookieTicketsProofs`.
7. `BrowserAccounts`, proofs in `BrowserAccountsProofs`.
8. `Startup` (seeding and the saved configuration), proofs in `StartupProofs`.
9. `ClientStream`, proofs in `RequestProofs` too: with `SlotLimiter` the two ends
   of a request, its admission to an exit and what its client is sent.
10. `MediaJobs`, proofs in `MediaJobsProofs`.

Left: the aggregation of statistics and the fetch of the client version, should
either grow state.

Composition.  The components meet in narrow places, and each module models its
neighbour by what it may do at that place: `ProxyPool` takes an admission of
`SlotLimiter` as one step with an exact counter (which `RequestProofs`
proves) that may also refuse; `CookiePool` takes an exit of `ProxyPool` as any
usable one, a direct connection or a refusal, and the rotation of a ticket as a
success or a failure; `CookieTickets` looks into that rotation, with every
writer of a cookie; `BrowserAccounts` has the rows and `CookieTickets` the
cookies that browsers store; `UpstreamCall` starts with an account and an exit;
`Conversation` takes a post as answered, lost or refused; `ClientStream` takes
the account as there or not and the answer as lines that `UpstreamCall` has let
through; `MediaJobs` takes a call's posts as ending in one of their ways and
has the wait for its artifact, which is one step of `UpstreamCall`.

## 3. The modules

Every module models one component; definitions carry the source's names where
they can, and the `map` of `PROJECT.json` gives the lines each stands for.
Definitions commented as deviations (`RefuseLocked`, `AbortPartial`, ...) are what
the code does not do: a plausible mistake at that place, under which the
property named in `PROJECT.json` fails.  Variables commented as history are not
in the code; properties read them, actions never do.

Each module has a `TypeOK` (`CookiePool` a `PoolTypeOK`, `ClientStream` a
`StreamTypeOK`); where no run lists it, it holds on the run's instance and the
proofs of the module establish its content.  A few more
definitions state what was checked once and is kept for the reader:
`WindowsRespected` (proved), `CallReturns` of `SlotLimiter`, `CallEnds` of
`Conversation`, `SlotsAreCalls` and `RowsAgree` of `MediaJobs`, `OldCookieKept`
of `Startup`, and those of section 9, which do not hold.

### SlotLimiter and ExitQuota

`trySlotAcquire` is split where it can be interrupted: `Enter` takes the mutex,
reads the clock and prunes both windows, `ReadSwitch` and `Within`/`Refuse` are
the two reads of `rtCfg()` for each of the three limits, `Admit` counts.  The
mutex keeps other requests out but not `SaveLimits`, the administrator's save.
`Release` is `slotRelease` in the handler's `defer`, `Usage` the panel's
`slotUsage`, which prunes as well.  `caps` remembers what a call compared with.

`ExitQuota` promises the same without windows, mutex or reads: it keeps every
admission for ever and lets a request in if the whole history leaves room under
some combination of saved caps.  `SlotLimiter` refines it with
`holders <- Holders` and `log <- grants`.

### ProxyPool

`db` is the table, `cache` is `proxyCache`.  `loadProxies` is `Query` (reading
the rows without a lock), `Abort` (an error of the query, a scan or the
iteration) and `Install` (under `proxyMu`); it is run by start-up, the ticker and
every handler of the administrator after its statement (`Create`, `Switch`,
`Delete`, `ResetFailures`).  A request goes through `acquireSlot`: `Check` (is a
pool configured), `Pick` (the usable exits, under the reader's lock), `Prefer`
(the bound exit), `Rotate` and `Try` (round robin), `FallBack` and
`ConnectDirect`.  `recordProxyResult` is `RecordRow` and `RecordCache`: one result
written twice.  Usability, thresholds and the cooling-down are the code's.

### CookiePool

Each SQL statement is a step.  `Select` and `Touch` are the pick, joined by
`pickMu`; `ObtainToken`, `Rotate`, `Retry`, `Fail` are the loop over accounts of
`streamGenerateWithFiles`; `Bind` decides on the row as it was read; `Exhausted`
is the decision between an error and an anonymous request; `Serve` is the answer
and `markCookieByStatus`; `ReadHealth` and `Disable` are `autoDisableIfDead`;
`StartCheck` and `Check` are `checkAccountCookie`.  Upstream's answers are open:
`ok`, `auth` (401, 403), `stale` (the ticket wants rotating) and `net`.

### Conversation

A handler is `Get` (`convGet`), `Send` (the body is built once), `Answer` or
`Lose`, `WriteRid` and `WriteRcid` (assignments to the shared `convState`, which
`convMu` does not guard), `Put` (`convPut` with its eviction) or `Fail`
(`convDelete`).  Fingerprints of histories are taken to be injective; upstream is
external and extends exactly the history the ids name.

### UpstreamCall

`getXSRF` is `Lookup`, `FetchPage`, `StorePage` and `FetchFails` over a cache all
calls share, keyed by cookie and slot.  `Post` sends; upstream accepts or refuses
its token on arrival.  A response ends in one of the ways the loop
distinguishes: `Heal`, `RefusedAgain`, `Status`, `Reset`, `TimeOut`, `Empty`,
`Succeed`, each with the cookie it may refresh (`SetCookie`), the report for the
exit and the decision to go on (`Failed`, `Stops`).  `Frame` is one line of the
response through `deltaTracker.Push`; `Closing` is the tail the handlers send at
the end (`remainingOf`); `Collect` is the poll for a media artifact.  `Expire` and
`Lapse` are the world: a token expires upstream, a cache entry times out.

### CookieTickets

A cookie is an identity and a ticket; upstream (`google`) takes one ticket per
account, once.  `rotateAccount` is `Reread`, `Gate`, `Granted`/`Refused`/
`Unanswered` (the exchange of `tryRotate1PSIDTS`), `Note` (the time, success or
not), `Page` (loading the page, which refreshes the rest of the cookie), `Compare`
(the identities) and `Write`, for the keeper's round (`StartRound`,
`NextAccount`), the administrator (`AdminRotates`) and a request whose page token
failed.  A check and the model guard (`GuardFires`, `GuardReads`) exchange
without storing.  A request also merges the `Set-Cookie` of its answer into the
cookie it began with (`Send`, `Write`).  `BrowserStores` is the browser or the
administrator, who replace the whole cookie.  `lostBy` records how a ticket went
missing; the four ways are what the code does, and `TicketAccounted` says there
is no fifth.

### BrowserAccounts

A capture is `Gate`, `Look` (reading the jar of a running browser), `Load`
(opening the page), and the store: `Lookup` by profile and slot, `Update` and
`Merge` (the twin row of the other source is deleted) or `Insert`, then
`Schedule` in kv; any statement may fail (`StoreFails`).  The refresher's round is
`StartRound`, `NextAccount`, `AutoResult`, the administrator's a round, a fetch
(`StartFetch`, `FetchResult`, `Verify`) or a deletion, the extension's `Ingest`.  What the
controller, the page and the jar say is open at each step.  `Crash` loses the
gate's times and every goroutine, and keeps the table and kv.  `readable` is
whether the row can be scanned (finding 1).

### Startup

The start is one position `at` that goes through both pools: `Adopt` and `Mark`
take over an older release's value once, `Compare`, `Drop`, `Create`,
`RecordValue` and `RecordId` replace the record of a changed parameter, `Purge`
removes legacy profiles.  `Ends` is a kill or a stop at any time.  While the
service is up, the administrator edits rows (`AddRow`, `EditRow`, `DeleteRow`), a
cookie is renewed (`Renew`), and the configuration is saved: `AdminSaves`, and a
verification's `ProbeStarts` and `Restore`, each through `SaveKv` and `SaveRt`.
`retry_attempts` stands for the configuration.

### ClientStream

One request from `Accept` or `Reject` to `Answer`, `Canvas`, `Media` or an error.
Texts are sequences of seven letters, the fewest with which a fence, a tool call,
run code and white space can be told apart; `PushGate`/`Settle` are
`toolFenceGate`, `Text` and `Delta` are `deltaTracker`, `Output` and `Closing` the
tails of the two APIs, `out` what has been written.  Taking blocks out of a text is one walk over
it, `Gather`, with what each position contributes and where it leads.  The pool gains or loses its
accounts at any time (`PoolChanges`).  `line.steady` is whether the model only
extended what it had said.

### MediaJobs

`Create`, `Run`, `Resolve`, `RecordVideo`, `Finish` are a video job and its
goroutine, `Read` and `Content` what a client is told; `Request`, `Collect` and
`Returned` are the tries of `runImageRequest`.  Both make calls: `TakeSlot`,
`PostFails`/`PostTimesOut`/`PostAnswers` within the time budget, `Poll` until
there is a link, a refusal or a reason to give up, `Download`.  `Panic` is a
parser's panic that the goroutine recovers from, `Age` the two hours after which
a job may be purged, `Restart` the loss of the map.

## 4. The runs

| run | question | answer |
|---|---|---|
| `slot_limiter` | does the limiter with its split reads keep the counter exact and every group under the cap it was checked against, and implement the quota? | yes |
| `pool` | with loads, one edit, an error anywhere and results in any order: is the list whole, does nobody leave directly without cause, leak a slot or skip an exit, and does the ticker bring the list back to the table? | yes |
| `cookie_safety` | is a request whose accounts failed refused, are failures counted in a row, do bindings stay, does every request end? | yes |
| `cookie_turns` | do overlapping requests and a check take turns? | yes, with picks a second apart |
| `conversation` | do two clients who wait for their answers continue their own history, through losses, expiry and eviction; is the store bounded; is a conversation that failed never continued? | yes |
| `upstream_call` | tokens, retries, increments, reports: the right slot, one answer, nothing twice or missing, every post accounted for, an end | yes |
| `cookie_tickets` | with eight goroutines' kinds on one cookie: is every lost ticket lost in a known way, no foreign identity written, a browser's ticket left alone, every caller spaced? | yes |
| `browser_accounts` | with captures, pushes, rounds, edits and restarts: is an account visible once, and does the refresher keep its distance? | yes |
| `browser_hidden` | is every stored account listed? | no: finding 1 |
| `startup` | with restarts, edits, faults and kills at any statement: one record, nobody else's rows touched, verifications undone? | yes |
| `client_stream` | for every cut of every answer: one ending, items announced, files only with an account, the stream equal to the answer? | yes |
| `media_jobs` | pictures delivered, verdicts justified, a job told forwards, every job ending? | yes |

A model that passes does so with its hard cases reached: `PROJECT.json` names for
each property a deviation of one mapped definition under which TLC finds that
property violated in the same instance.

## 5. Bounds

Every bound is a constant of its module whose name starts with `Max` (or, for
tables, plans, budgets and texts, a set defined in the `MC` module).

* `slot_limiter`: two requests, one exit (exits share nothing but the clock and
  the configuration), windows of 1 and 2 ticks instead of 60 and 3600 s, three
  admissions and three ticks.  The two settings exchanged make each limit bind
  and go off in turn; a window can fill, expire and fill again.  The theorems of
  section 7 remove all of these bounds.
* `pool`: two ids, of which the table holds none, one or two at first, one of
  them tripped; one request, two calls one after the other; one administrator
  with one edit; one error; a threshold of 2; `fallback_direct` off (the proofs
  cover both).  That is one loader of each kind in any order with a request
  between any two of its steps.  The safety theorems hold for any number of each.
* `cookie_safety`: one request after another, two accounts (one free, one bound
  and one managed by a browser among the tables), a limit of 2 failures, one edit, one failing
  query, one exit that comes or goes.  Two overlapping requests would break
  `DisabledForARow` and `BindingKept` (section 9), so they are in `cookie_turns`,
  with three accounts and a check, picks a second apart, four calls.
* `conversation`: two clients with different texts, two handlers, three turns,
  four calls, a store of two.  Three histories exceed the store, so eviction of
  both kinds happens.
* `upstream_call`: two calls at a time under four plans (a stream alone; two
  media calls of one slot; two of different slots with one cookie; an anonymous
  call), three attempts, so that the media budget of two differs, one expiry, one
  refreshed cookie, and frames that extend, repeat and rewrite each other on both
  channels.
* `cookie_tickets`: two accounts, one of them a browser's, one caller of each
  kind, two exchanges, two starts, one deletion, three ticks with intervals of
  two: any two callers meet on an account in any order, and a caller can be held
  off and come back.
* `browser_accounts`: one profile, slot and table of two ids, one of each kind of
  goroutine, two calls, one fault or restart, three ticks with a cooldown of two.  Twins need two
  ids; a third row would need a third store of the same profile.
* `startup`: three starts with two edits, or with one edit and one fault, or two
  starts with a fault, a save and two verifications; one parameter at a time,
  which the proofs show to be no restriction.  Three starts are a first value, a
  change and a change back.
* `client_stream`: a retry, one change of the pool, and answers of a few letters
  in every cut: a fence in two halves, a tool call before, after and between
  text, a block never closed, run code, a rewriting half-way.
* `media_jobs`: two callers for one slot, two posts, a budget of four ticks of
  which two are kept for fetching and one for the download, three polls, a
  patience of two for mere text, two tries, one restart.

## 6. Fairness

* Goroutines inside a critical section or a handler are scheduled by Go's
  runtime: weak fairness for `ReadSwitch`, `Within`, `Refuse`, `Admit`, `Acquire`,
  `RecordCache`, `Handle`, `Work`, the steps of a request in `CookiePool` and
  those of a caller in `MediaJobs`.
* `SlotLimiter!Enter` and the pick of `CookiePool` wait for a `sync.Mutex` that
  others take again and again: Go's mutex hands itself to a waiter that has
  starved for a millisecond, hence strong fairness where the other steps can
  disable the wait.
* Each call to upstream has a time limit (`request_timeout_sec`,
  `mediaTimeoutSec`), so a post ends in one of its ways and a poll comes to its
  last; nothing says it succeeds.
* The ticker of `scheduler.go` ticks for ever: weak fairness of `StartTicker`.
* Queries fail at most `MaxErrors` times: SQLite answers again.  Without it
  nothing that reads the table can be promised.
* The clock of `CookiePool` advances (time does); no other module needs its clock to.
* No fairness for clients, administrators, expiries, restarts or releases.
* `CookieTickets`, `BrowserAccounts`, `Startup` and `ClientStream` state safety
  only and have none.

## 7. What is proved

TLAPS checks every step of the `...Proofs` modules.  The theorems hold for every
value of the constants that satisfies the named assumptions of the modules.

**SlotLimiter**, assuming a finite set of requests (`RequestsAssumption`), caps
that are naturals (`LimitsAssumption`) and natural window widths
(`WidthAssumption`).

* `TypeCorrect`: `TypeOK`, with `PhaseInv` (which limit a call examines).
* `InflightExact`: the counter is the number of holders; each action adds a
  holder and one, removes a holder and one, or neither.
* `WindowsHold`: no window of the full history exceeds its cap, although the code
  forgets.  `WindowsRespected` is not inductive: an admission looks at the pruned
  window only.  `CoreInv` adds `MutexInv` (one caller inside), `CapInv` (every
  limit examined so far still has room: true because usage of a slot only grows
  in `Admit`, which needs the mutex) and `WindowInv` (a window is the history
  without a prefix older than the width, for the clock and for the time any
  caller inside has read).
* `ConcurrencyHolds`: the last to enter saw room under its cap, and the group has
  only shrunk since.
* `Refinement`: every step is a step of `ExitQuota` or leaves its variables
  alone; `Admit` is the only case with content, and rests on `CoreInv`.

**ProxyPool**, assuming finite sets of ids and requests, distinct loaders, a
positive threshold and initial tables of rows.

* `Invariance`: `IInv` is `TypeOK`, `SnapshotInv` (a list read and not yet
  installed is one the table had), `StartInv` (nothing runs before the first
  load), `HolderInv` (an exit is held exactly between taking and releasing it),
  `DirectInv` (whoever is about to connect directly may) and `ExitsAccounted`.
  The invariants of the runs are not inductive alone: `Install` needs
  `SnapshotInv` for rows read long before, and a release needs `HolderInv` to
  count down the exit it counted up.
* `TypeCorrect`, `ListIsSnapshot`, `NoExitLeaks`, `DirectOnlyWhenEmpty` follow.
* `NobodyIsLeftOut`: a step that rotates keeps the set of usable exits, for any
  cursor and any number of exits.  It rests on `EveryRemainder`: adding a constant
  modulo n reaches every remainder.

**CookiePool**, assuming that ids and exits are positive, the two limits of the
loop are positive, initial tables hold rows with ids 1 to n, and `Nil` is no
value.  Bounds of the model are not used, except that `MaxSwitches = 0` says
nobody switches accounts on again and `MaxEdits = 0` that nobody adds or deletes
one.

* `PoolAlways`: `PoolInv` has the shape of the table and of the goroutines
  (`Table`, `Control`), and says of each of them by itself that it is seated: it
  has an account wherever it works with one, that account is one the table has
  handed out, `pickMu` is held exactly between SELECT and UPDATE, nobody has been
  tried before the first exit was taken, and who is about to be answered without
  an account has tried none or may because of `fallback_anon`.
  `PoolTypeCorrect` and `GivenUpIsRefusedAlways` follow for any requests, checks
  and edits.
* `BindingKeptAlone`, where requests do not overlap (`OneRequest`): `Bound` says
  that from its SELECT to its UPDATE of the binding a request's copy has the
  exit the row has, because `Bind` alone moves a binding and a new row has a new
  id.
* `DisabledForARowAlone`, where one goroutine at a time works with accounts and
  none is switched on again (`Alone`, `NeverReenabled`): `HealthInv` says that a
  counter never exceeds the failures in a row, that whoever is about to switch an
  account off saw the limit reached and it still is, and that an id never handed
  out was never switched off.
* `TurnsAlternateAlways`, for any overlapping requests and checks, while requests
  are answered well, nobody edits, all accounts start on and without failures,
  and picks are a second apart (`Undisturbed`): in `TurnInv` an account never
  rejected is on (`ProvenFresh`); of two such accounts the one used longer ago has
  as many turns or one less, never more (`Even`); who holds `pickMu` has the one
  that is next (`Straight`), and by the time it writes no other turn was taken.
  Checks can switch accounts off meanwhile, but only after they were rejected
  (`Rejecting`), and a rejected account is out of the comparison.

The hypotheses of the last three are the settings of their runs without the
bounds, and are needed: section 9 has the runs that refute each property without
them.

**UpstreamCall**, assuming frames of non-empty texts, plans of kinds, a budget
from 1 to 10 (what `runtime.go` 140 accepts), statuses other than 0, 200 and
400, and that `None` is no slot, number or kind.  The bounds of the model
(`MaxExpiries`, `MaxCookies`) are not used: the invariant has naturals in their
place.

* `Always`: `Inv` says of each call by itself that it is `Good`, which no step of
  another call disturbs, and of the cache that every entry is its slot's.
* `TokenOfSlotAlways`: `Placed`, and `World` for the cache.  A token reaches the
  body from the cache under the call's own key, or from its own page.
* `PostsAccountedAlways`: `Counted`.  The bound on posts is not inductive: it
  needs that the posts are the rounds used up, the one repeated for free and the
  one under way, that a round is left before each post, and that a call which
  asks for a token after a refusal still owes that refusal, which `FetchFails`
  takes back.
* `OneAnswerAlways` and `StreamExactAlways`: `Told`.  Until the call ends the
  letters sent are what the tracker remembers, and nothing was sent before the
  post under way; so a round is repeated only when nothing was heard, and the
  rest that is sent last makes the text whole unless an earlier frame is no
  prefix of it.  `RestIs`, `TagIs` and `FullTextIs` are the facts about sequences
  they rest on; that a last and a longest frame exist follows from the least
  number of a set (`SomeLeast`).

**CookieTickets**, assuming that ids are naturals, the interval is positive and
`None` is not a time.

* `ShapesKept`: `Typed`, the shapes of rows, copies and times.
* `LeftToBrowser` needs `ManagedInv`: a goroutine between its reading of a row
  and its exchange holds a copy that says whether a browser manages it, and that
  never changes (theorem `BrowserTicketsLeft`).
* `OwnIdentity` needs `OwnInv`: whatever a goroutine may still write has an
  identity stored for that account (`IdentityKept`).
* `SpacedPerCaller` needs `SpaceInv`: the time noted by a caller is never before
  upstream answered it, and the gate it passed read a noted time
  (`CallersSpaced`).
* `TicketAccounted` needs `GivenOut` (no copy holds a ticket newer than
  upstream's) and `ReadInv` (a copy that is older than the row's was read before
  the row was written, so that writing it back is recorded) (`TicketsAccounted`).

**BrowserAccounts**, assuming positive ids, disjoint kinds of goroutines, tables
with at most one row per profile and slot, slot 0, and a gap and a respite no
shorter than the cooldown.

* `ShapesKept`: the table, the goroutines and the times keep their shapes.
* `VisibleOnce` (theorem `OneVisible`) needs `Moves` (an id is handed out once),
  `ReadInv` (the row a store has found, or its absence, was so when it looked)
  and `TwinsInv`: two visible rows of one profile and slot are excused by a store
  that is about to merge them or by a recorded fault.
* `AutoSpaced` (`VisitsSpaced`) needs `SpaceInv`: after a visit either the time in
  kv or the gate's keeps the refresher off until a cooldown has passed.

**Startup**, assuming legal flags and retry counts and that `None` is no value.

* `ShapesKept`: the pools, the records in kv and the position of the start.
* `OneRecord` (`OneRecordAlways`) needs `RecordInv`: in a pool whose seeding was
  never cut off, only one row can still have the value it was seeded with, the
  one noted in kv or, while it is being replaced, the new one; it was seeded with
  the parameter's value; and when the new row is created the old one is gone.
  Neither half is inductive alone: `Drop` removes the right row because it is the
  noted one with the noted value, and that it is the only one follows from there
  having been none when it was created.
* `OthersKept` (`OthersKeptAlways`) follows from the same invariant: what `Drop`
  removes is unchanged.
* `ProbesRestore` (`ProbesRestoreAlways`) needs `ConfigInv`: an undisturbed save of
  the administrator's is alone, every verification restores what the
  administrator wanted, and if kv or memory differ from that then a verification
  under way still owes a save that puts it back.

**Conversation**, assuming that each client may say a set of texts and that the
store's bound and the attempts are positive (`ConstantsAssumption`).

* `TypeCorrect` and `StoreBoundedAlways` hold for any clients: `Typed` and
  `BoundInv`, which says that `Evict` leaves room for the entry put next, because
  the share it removes of a full store is at least one entry.
* `OwnHistoryContinued` and `DeadNotContinued` have the hypothesis `Alone`:
  clients wait for their answers and never say each other's words.  It is needed
  (section 9 has the runs that refute both properties without it) and what the
  run checks is the smallest instance of it.  `OwnInv` says that a `convState` has
  one client (`OneOwner`), that the client has one request under way
  (`OneRequest`), that stored histories are its own words (`OwnWords`), that a
  handler's state is where the handler stands in its five assignments (`InStep`),
  and that whatever the store still names, no handler being at it, carries the
  ids of the history it is named by (`Continued`).  That a step of one client's
  handler does not reach another's state is proved once and used for every
  action.

**MediaJobs**, assuming finitely many callers, positive numbers of posts, polls,
tries and slots, and `Reserve < Floor <= Budget`, which the constants of the code
satisfy (`gemini.go` 794-803).  The number of restarts is not bounded.

* `Inv` says of each caller by itself that it is `Good`, which no step of another
  caller disturbs (`Untouched`), and that the slots taken are the calls that run.
* `SlotsAccounted`: a slot is taken by `TakeSlot` and given back by `Back` and
  `Panic`, by nothing else.
* `RowsAgreeAlways` needs where the row is written: `RowInv` says that none is
  before the call returned, and what it says between `RecordVideo` and `Finish`.
* `PicturesAlwaysDelivered` needs `PictureInv`: at every turn of the loop what was
  kept is not echoes alone, because a batch that is kept is not, and an echo
  comes only to who sent a picture.
* `VerdictAlwaysJustified` needs `WaitInv`: the second the wait started with is in
  the history of the polls with nothing but texts and failures after it; and the
  first poll is always within the limit, since what is kept for the download is
  less than the least that is left for both.
* `ToldForwardAlways` follows from `JobInv`, which ties a job's state to its
  goroutine's position: only four actions write the table (`JobsMove`).

**ClientStream**, assuming requests of the legal shapes, answers that are
sequences of letters and a budget from 1 to 10 (`QueriesAssumption`,
`TextsAssumption`, `BudgetAssumption`).  The theorems hold for every text, so for
every way to cut one, and for any number of changes of the pool: that
`MaxChanges` is a natural (`ChangesAssumption`) is used for the type of the
counter alone.

* `FilesHaveAccountAlways`: `FilesInv`, which `Prepare` decides again for the
  account the call has, whatever the handler saw.
* `OneEndingAlways`: `OutInv` says what has been sent in each stage.  The log of a
  chat is strictly rising in the order role, reasoning, content, tool calls, end
  (`Rising`; deltas of one kind in a row count as one chunk).  That reasoning is
  never sent after text rests on the thoughts of an answer coming before its text,
  and on nothing of them being left for the tail once text was sent (`ChatInv`).  A call is posted again only
  while nothing was sent, so that a failure can still be a status.
* `ItemsAnnouncedAlways`: the log of a Responses stream is always `Announced`: its
  items are numbered from 0 as they come and every use has its item before it;
  `Response` adds the set of items still open, of which there is at most the
  message.  One lemma says when an event may follow (`ResponseFollows`), and every
  writer is a sequence of such events; `Output` writes any number of tool calls,
  by the least number at which a log would go wrong.
* That `Gather` yields a text at all is a recursion downwards from the end of a
  text, done once by `DownwardRecursion` and used for `Without`, `Blocks` and the
  unmarked code.

* `StreamIsAnswerAlways`: what a client has heard is what the gate, or without
  tools the tracker, let through (`Heard`), and for the gate `Passed` says what
  that amounts to: however the text goes on, what was let through, followed by
  what the parser leaves of the rest held back, is what the parser leaves of the
  whole.  `PushPasses` proves that a push keeps this, whatever the piece pushed;
  it rests on `SettleMeans`, that one push, whose loop is a recursion over
  positions, drops the calls that are closed and holds the rest, and on facts
  about how blocks of a text look from a later position (`RestShift`, `RestJoin`,
  `ClosesFirst`).  A tracker only passes on extensions, so at the end what was
  heard is a prefix of what the parser leaves of the whole; the answer is the
  same trimmed, and `TailWhole` says when the tail completes it.  `AnswerInv` has
  this for every stage, with the gate in one of its states (`Gates`) and the
  items of a Responses stream numbered (`Indexed`).
* It has two hypotheses, both true of the run.  `Chained`: of two states of the
  reasoning the longer extends the shorter, as upstream's cumulative frames do
  (`gemini.go` 978-983); else the tracker leaves out what it cannot compare and
  the tail of the reasoning may be lost.  `PlainTools`: no tools are offered with
  pictures; without it the property is false, see section 9.
* `StreamTyped` (`StreamTypeOK`) follows from the same invariant and the budgets
  (`Counted`), without hypotheses.

Only model-checked: all liveness (`CallReturns`, `Converges`, `RequestEnds`,
`CallEnds`, `JobEnds`), because the prover has no rules for fairness and
`ENABLED`.

`Converges`, `RequestEnds`, `CallEnds`, `JobEnds`), because the
prover has no rules for fairness and `ENABLED`.

## 8. Findings

1. `browser_hidden`, `browser_cdp.go` 1295.  The INSERT for a new browser account
   swaps two literals: `last_ok_at` gets an empty text and `last_error` a number.
   SQLite keeps the text in the INTEGER column, every `Scan` into an `int64` fails
   on it, and the row is skipped by `browserAccounts`, the pick and the list until
   a second store of the same profile and slot takes the UPDATE path.
   `browser_cdp.go` 1309 says that `browserAccounts` returns every account that
   comes from a browser.

## 9. Other divergences

Stated as properties of the modules, refuted by TLC, and in none of the runs.
Each can be reproduced with the named configuration under `Spec` (`PoolSpec` for `CookiePool`, `StreamSpec` for `ClientStream`),
changed as said, with that property alone.  The definitions `MCSwitched`, `MCSlot`,
`MCSingle`, `MCSolo`, `MCSoloTwo`, `MCAlike` and `MCPictured` of the `MC` modules are there for
these.

| property | shows | configuration |
|---|---|---|
| `ZeroMeansUnlimited` | a save between the two reads of one limit refuses a request although the new limit is 0, "unlimited" (`ratelimit.go` 75) | `SlotLimiter.cfg`, `Limits <- MCSwitched`, `MaxTime = 1` |
| `NoDirectWhileConfigured` | while a first load has failed, or after the ticker installed a list read before the first proxy was created, requests connect from the host's own address (`proxy.go` 65), which `gemini.go` 258-259 says a configured pool is there to hide | `ProxyPool.cfg` |
| `TripsAtThreshold` | the list counts one failure twice when a reload falls between the halves of `recordProxyResult`: the exit trips early | `ProxyPool.cfg`, `Attempts = 2`, `MaxEdits = 0` |
| `CountsOnlyRejections` | an account whose page token cannot be had is told 401 whatever the error was (`gemini.go` 452); `xsrf.go` 211-213 and `cookie_pool.go` 475-477 say that only rejections count | `CookiePool.cfg` |
| `NeverSilentlyAnonymous` | with the last account switched off, or after a failing SELECT, no error is kept and requests are answered anonymously with `fallback_anon` off (`gemini.go` 457); 459-461 says an error is preferred | `CookiePool.cfg` |
| `SlotOfAccount` | the SELECT of the pick leaves `authuser` out (`cookie_pool.go` 450): every picked account speaks for Google slot 0 until it is read again; `gemini.go` 398-399 says its slot is used | `CookiePool.cfg`, `InitialTables <- MCSlot` |
| `DisabledForARow` | a success between the two statements of `autoDisableIfDead` does not save the account | `CookiePool.cfg`, `Requests = {r1, r2}`, `MaxCalls = 4`, `InitialTables <- MCSingle` |
| `DisabledForARow` | switching an account on again leaves its counter: one more failure switches it off | `CookiePool.cfg`, `MaxSwitches = 1` |
| `BindingKept` | two requests that read the same unbound account both bind it; the second replaces a binding that works | `CookiePool.cfg`, `Requests = {r1, r2}`, `Exits` and `InitiallyUsable` `{1, 2}`, `InitialTables <- MCSingle` |
| `TurnsAlternate` | within one second `last_used_at` ties and the smaller id wins again | `CookiePoolTurns.cfg`, `Requests = {r1}`, `Checkers = {}`, `Gap = 0`, `MaxTime = 5`, `MaxCalls = 5` |
| `ContinuesOwnHistory` | all histories of a conversation share one `convState`, which moves on (`conversation.go` 488): a client that goes back and asks again hits the older key and is continued from the newest turn; 121-122 says a hit is a continuation of that history | `Conversation.cfg`, `Clients = {"c1"}`, `Texts <- MCSolo`, `Branching = TRUE` |
| `ContinuesOwnHistory` | two clients whose histories read alike share a conversation | `Conversation.cfg`, `Texts <- MCAlike` |
| `IdsOfOneTurn` | two handlers of one client write one `convState` and leave the ids of two turns | `Conversation.cfg`, `Clients = {"c1"}`, `Texts <- MCSoloTwo`, `Branching = TRUE` |
| `StoredIsFound` | eviction may take the entry that was just stored, when several have the same age | `Conversation.cfg`, `Clients = {"c1"}`, `Texts <- MCSolo` |
| `HealRenews` | a page read before the token expired is stored after `invalidateXSRF`: the repeated post carries the same token (`xsrf.go` 85-91) | `UpstreamCall.cfg` |
| `CollectsWithPosted` | after self-healing `xsrfToken` keeps the old token, with which the artifact is polled for and the conversation deleted (`gemini.go` 711-713, 801-803) | `UpstreamCall.cfg` |
| `RemoteKept` | the refresher lists an account as the browser's, the extension takes it over, and the failed capture deletes it (`browser_cdp.go` 1366-1369 says the extension's are not touched) | `BrowserAccounts.cfg` |
| `OldProxyKept` | a save drops the static proxy of an older release from kv before it was adopted, because the pool refused it or a statement failed; `proxy.go` 117-125 wants it kept until then | `Startup.cfg` |
| `OneCookieFile` | a record whose cookie was renewed is no longer recognised and stays beside its successor (`cookie_pool.go` 289-293) | `Startup.cfg` |
| `ProxyPooled` | after a start with a URL that the pool refuses, the record is gone but kv still has the old value: going back to that value changes nothing and the proxy is not in the pool (`proxy.go` 166) | `Startup.cfg` |
| `StreamMatchesAnswer` | the gate's rest at the end is compared with a trimmed text (`messages.go` 391): when what was let through began with white space the rest is lost (`toolgate_test.go` 83-84, 101) | `ClientStream.cfg` |
| `StreamIsAnswer` | the gate drops a tool call from a streamed text, but the text of a picture or a video is not parsed (`server.go` 153-166): when tools are offered and the text before the link contains something like a call, what was let through is no prefix of the answer and the link is never sent (`remainingOf`, 431-440); 373-374 compare the tail with what was sent so that it is not lost | `ClientStream.cfg`, `Queries <- MCPictured` |
| `NoEmptyMessage` | an answer of two tool calls with white space between them sends an empty message after all (`server.go` 586-587) | `ClientStream.cfg` |
| `CompletedHasContent` | an empty download makes a job that is completed and whose content is "not ready" for good (`videos.go` 7) | `MediaJobs.cfg` |

Read in the code and not stated as properties:

* `gemini.go` 620 calls `lastStatus` the last status received; a 200 without
  content does not set it, so an account may be told an earlier round's status
  (`Empty` models the code).
* The path through conversations never checks `max_prompt_bytes`, and
  `callGemini` looks for an empty answer before it is parsed, `callGeminiConv`
  after.  A canvas answer's preamble is lost when streamed.
* In `BrowserAccounts` as in the code, a SELECT that fails counts as no row and
  the INSERT makes a duplicate, an UPDATE of a row deleted meanwhile reports
  success, deleting a profile during a capture lets the store re-create it, and a
  kill in the middle of a capture forgets the gate.
* Two concurrent saves may leave kv and memory different (`muddled` excludes
  them); a check that exchanges a ticket drops the new one (`cookie_pool.go` 594,
  one of the ways of `TicketAccounted`).

## 10. What is not modelled

* Statistics (`scheduler.go` 56-96): SQL over a clock with one writer.  An hour
  is aggregated once, so a request recorded later, or after a failed statement,
  is not counted, and the daily roll-up may come before the last hour's.
* The client version (`bl.go`): a string in a URL, fetched by one goroutine.
* The hold that keeps a profile open during a manual login: only the idle timer
  of the controller reads it.
* Restarts inside `CookiePool`, `ProxyPool`, `Conversation`, `UpstreamCall` and
  `SlotLimiter`: the maps are lost and the tables kept, so a restart is an initial
  state of these modules (`InitialTables`); crash points between two writes are
  in `Startup`, `BrowserAccounts` and `MediaJobs`.
* The order of memory operations below a mutex, and data races on the fields of
  `convState`, beyond the single assignments `WriteRid` and `WriteRcid`.
* Request and response formats, prompts, tokens counted, uploads and media
  transcoding: pure translation, except for what `UpstreamCall`, `ClientStream`
  and `MediaJobs` say of increments, gates, tails, polls and downloads.
* Browser controller, extension, cookie scripts, admin pages and the image page:
  separate programs or static files; the gateway sees them only through the
  endpoints of `BrowserAccounts` and `CookieTickets`.
* API keys and admin sessions: each operation is one statement or one critical
  section.  The database layer: opening, schema and dialects.
