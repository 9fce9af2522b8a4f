----------------------------- MODULE UpstreamCall -----------------------------
(***************************************************************************)
(* One upstream call: the retry loop of streamGenerateWithFiles            *)
(* (internal/app/gemini.go) over the page-token cache of                   *)
(* internal/app/xsrf.go.                                                   *)
(*                                                                         *)
(* A call with an account needs the XSRF token of the account's slot: it   *)
(* takes it from a cache all handlers share, or fetches a page and stores  *)
(* what it found.  It then posts until a post succeeds, the budget is used *)
(* up, or something has been passed on to the client that cannot be taken  *)
(* back.  Tokens expire upstream at any time; the first refusal for the    *)
(* token renews it outside the budget.  Which account and exit serve the   *)
(* call is the business of CookiePool and ProxyPool: here a call starts    *)
(* with both, and one whose account yields no token ends unposted.         *)
(***************************************************************************)
EXTENDS Integers, Sequences, FiniteSets, TLC, SequencesExt

CONSTANTS
  Calls,          \* handlers
  Slots,          \* authuser slots that share one cookie
  Plans,          \* what the calls may ask for together: a kind for each, or None
  Frames,         \* what a line of a response may carry: a channel, a cumulative text
  Codes,          \* HTTP statuses of a refusal that is not about the token
  RetryAttempts,  \* retry_attempts
  MaxExpiries, MaxCookies, \* bounds
  None

Tools == {"none", "image", "music", "video"}
Channels == {"reasoning", "text"}

Kinds == [slot : Slots \cup {None}, tool : Tools, pooled : BOOLEAN, streams : BOOLEAN,
          frames : SUBSET Frames, lines : Nat]

ASSUME FramesAssumption ==
  Frames \subseteq [ch : Channels, text : Seq(Nat) \ {<<>>}]
ASSUME PlansAssumption == Plans \subseteq [Calls -> Kinds \cup {None}]
ASSUME BudgetAssumption == RetryAttempts \in 1..10
ASSUME CodesAssumption == Codes \subseteq Nat \ {0, 200} /\ 400 \notin Codes
ASSUME NoneAssumption == None \notin Slots \cup Nat \cup Kinds

VARIABLES
  live,   \* upstream: the generation of each slot's valid token
  jar,    \* the cookie in the row of each slot's account
  baked,  \* how many cookies upstream has issued
  cache,  \* xsrfCache
  call,   \* the locals of every call
  log     \* history of every call

vars == <<live, jar, baked, cache, call, log>>
upstream == <<live, jar, baked>>

(***************************************************************************)
(* The locals: pc; kind; cookie = cookieStr; token = xsrfToken; at = the   *)
(* token in the body; page = a page read and not yet stored; healed =      *)
(* xsrfRetried; attempt; frames of the response so far; emitted = tracker  *)
(* and rtracker; lastStatus; verdict = what markCookieByStatus is told.    *)
(***************************************************************************)
Silence == [ch \in Channels |-> <<>>]
Idle(k) == [pc |-> "idle", kind |-> k, cookie |-> None, token |-> None, at |-> None,
            page |-> None, healed |-> FALSE, attempt |-> 0, frames |-> <<>>,
            emitted |-> Silence, lastStatus |-> 0, verdict |-> None, artifact |-> FALSE]

(***************************************************************************)
(* The history: posts made; good and bad results reported for the exit;    *)
(* excused = posts refused for their token and repeated for free; waits =  *)
(* time limits a media call ran into; heard = what the client was sent,    *)
(* each letter with the post it comes from.                                *)
(***************************************************************************)
Unheard == [posts |-> 0, good |-> 0, bad |-> 0, excused |-> 0, waits |-> 0, heard |-> Silence]

Init ==
  /\ live = [s \in Slots |-> 0]
  /\ jar = [s \in Slots |-> 0]
  /\ baked = 0
  /\ cache = <<>>
  /\ \E plan \in Plans : call = [c \in Calls |-> Idle(plan[c])]
  /\ log = [c \in Calls |-> Unheard]

Slot(c) == call[c].kind.slot
Media(k) == k.tool # "none"
Budget(k) == IF Media(k) /\ RetryAttempts > 2 THEN 2 ELSE RetryAttempts

(* Deviation: the cache is keyed by the cookie alone.                      *)
KeyWithoutSlot(cookie, s) == <<cookie, CHOOSE t \in Slots : TRUE>>
Key(cookie, s) == <<cookie, s>>
KeyOf(c) == Key(call[c].cookie, Slot(c))
Drop(key) == [k \in DOMAIN cache \ {key} |-> cache[k]]
At(c, pc) == call[c].pc = pc

-----------------------------------------------------------------------------
(* The token: getXSRF *)

(* The handler has its account and exit; an anonymous call needs no token. *)
Start(c) ==
  /\ At(c, "idle")
  /\ call[c].kind # None
  /\ call' = [call EXCEPT ![c].cookie = IF Slot(c) = None THEN None ELSE jar[Slot(c)],
                          ![c].pc = IF Slot(c) = None THEN "post" ELSE "lookup"]
  /\ UNCHANGED <<upstream, cache, log>>

(* getXSRF returns t: the body is built with it.  Only the first token is  *)
(* kept in xsrfToken, a renewed one is not.                                *)
Returns(c, t) ==
  call' = [call EXCEPT ![c].at = t,
                       ![c].token = IF call[c].healed THEN @ ELSE t,
                       ![c].page = None,
                       ![c].pc = "post"]

Lookup(c) ==
  /\ At(c, "lookup")
  /\ IF KeyOf(c) \in DOMAIN cache
     THEN Returns(c, cache[KeyOf(c)])
     ELSE call' = [call EXCEPT ![c].pc = "fetch"]
  /\ UNCHANGED <<upstream, cache, log>>

(* fetchAppTokens reads the page of the call's own slot.                   *)
FetchPage(c) ==
  /\ At(c, "fetch")
  /\ call' = [call EXCEPT ![c].page = [slot |-> Slot(c), gen |-> live[Slot(c)]],
                          ![c].pc = "store"]
  /\ UNCHANGED <<upstream, cache, log>>

StorePage(c) ==
  /\ At(c, "store")
  /\ cache' = [key \in DOMAIN cache \cup {KeyOf(c)} |->
                 IF key = KeyOf(c) THEN call[c].page ELSE cache[key]]
  /\ Returns(c, call[c].page)
  /\ UNCHANGED <<upstream, log>>

-----------------------------------------------------------------------------
(* Judging a response *)

(* Any response may refresh the cookie; a refreshed one replaces whatever  *)
(* the account's row holds by now.                                         *)
Refreshed(c) ==
  {call[c].cookie} \cup IF Slot(c) # None /\ baked < MaxCookies THEN {baked + 1} ELSE {}

SetCookie(c, cookie) ==
  /\ IF cookie = call[c].cookie
     THEN UNCHANGED <<jar, baked>>
     ELSE jar' = [jar EXCEPT ![Slot(c)] = cookie] /\ baked' = cookie
  /\ UNCHANGED live

(* Deviation: reasoning that was passed on does not count.                 *)
SpokenText(k) == k.emitted["text"] # <<>>
(* Something was passed on to the client, on either channel.               *)
Spoken(k) == \E ch \in Channels : k.emitted[ch] # <<>>
Stops(k) == Spoken(k) \/ k.attempt >= Budget(k.kind)

(* The end of one round that failed with an HTTP status, 0 = none: another *)
(* post, or the account is told the last status there was.                 *)
Failed(k, status, over) ==
  LET n == [k EXCEPT !.attempt = @ + 1,
                     !.lastStatus = IF status = 0 THEN @ ELSE status]
  IN IF over \/ Stops(n)
     THEN [n EXCEPT !.pc = "done", !.verdict = n.lastStatus]
     ELSE [n EXCEPT !.pc = "post"]

(* recordProxyResult, for a call through an exit of the pool.              *)
Blamed(c) == [log[c] EXCEPT !.bad = IF call[c].kind.pooled THEN @ + 1 ELSE @]
Praised(c) == [log[c] EXCEPT !.good = IF call[c].kind.pooled THEN @ + 1 ELSE @]

(* The request is sent; upstream looks at its token when it arrives.       *)
Post(c) ==
  /\ At(c, "post")
  /\ call' = [call EXCEPT
       ![c].frames = <<>>,
       ![c].pc = IF Slot(c) = None \/ call[c].at = [slot |-> Slot(c), gen |-> live[Slot(c)]]
                 THEN "open" ELSE "refused"]
  /\ log' = [log EXCEPT ![c].posts = @ + 1]
  /\ UNCHANGED <<upstream, cache>>

(* The first refusal for the token: drop the cached one, get another, and  *)
(* post again outside the budget.                                          *)
Heal(c) ==
  /\ At(c, "refused")
  /\ ~call[c].healed
  /\ \E cookie \in Refreshed(c) :
       /\ SetCookie(c, cookie)
       /\ cache' = Drop(Key(cookie, Slot(c)))
       /\ call' = [call EXCEPT ![c].cookie = cookie, ![c].healed = TRUE, ![c].pc = "lookup"]
  /\ log' = [log EXCEPT ![c].excused = @ + 1]

RefusedAgain(c) ==
  /\ At(c, "refused")
  /\ call[c].healed
  /\ \E cookie \in Refreshed(c) :
       /\ SetCookie(c, cookie)
       /\ call' = [call EXCEPT ![c] = Failed([call[c] EXCEPT !.cookie = cookie], 400, FALSE)]
  /\ log' = [log EXCEPT ![c] = Blamed(c)]
  /\ UNCHANGED cache

(* Deviation: a renewal that fails is tried again.                         *)
FetchFailsForever(c) ==
  /\ At(c, "fetch")
  /\ call' = [call EXCEPT ![c].pc = IF call[c].healed THEN "lookup" ELSE "done"]
  /\ UNCHANGED <<upstream, cache, log>>

(* The page cannot be had, or shows nobody signed in.  Before the first    *)
(* post the call is over; a refused post is counted after all.             *)
FetchFails(c) ==
  /\ At(c, "fetch")
  /\ IF call[c].healed
     THEN /\ call' = [call EXCEPT ![c] = Failed(call[c], 400, FALSE)]
          /\ log' = [log EXCEPT ![c] = [Blamed(c) EXCEPT !.excused = @ - 1]]
     ELSE /\ call' = [call EXCEPT ![c].pc = "done"]
          /\ UNCHANGED log
  /\ UNCHANGED <<upstream, cache>>

(* The connection breaks before or while the response is read.             *)
Reset(c) ==
  /\ At(c, "open")
  /\ \E cookie \in Refreshed(c) :
       /\ SetCookie(c, cookie)
       /\ call' = [call EXCEPT ![c] = Failed([call[c] EXCEPT !.cookie = cookie], 0, FALSE)]
  /\ log' = [log EXCEPT ![c] = Blamed(c)]
  /\ UNCHANGED cache

(* Deviation: the wait of a media call counts against its exit as well.    *)
TimeOutBlaming(c) ==
  /\ At(c, "open")
  /\ call' = [call EXCEPT ![c] = Failed(@, 0, Media(@.kind))]
  /\ log' = [log EXCEPT ![c] = [Blamed(c) EXCEPT
       !.waits = IF Media(call[c].kind) THEN @ + 1 ELSE @]]
  /\ UNCHANGED <<upstream, cache>>

(* The response takes too long.  A media call does not hold that against   *)
(* the exit and does not wait a second time.                               *)
TimeOut(c) ==
  /\ At(c, "open")
  /\ \E cookie \in Refreshed(c) :
       /\ SetCookie(c, cookie)
       /\ call' = [call EXCEPT ![c] =
            Failed([call[c] EXCEPT !.cookie = cookie], 0, Media(call[c].kind))]
  /\ log' = [log EXCEPT ![c] = IF Media(call[c].kind) THEN [log[c] EXCEPT !.waits = @ + 1]
                               ELSE Blamed(c)]
  /\ UNCHANGED cache

Status(c, code) ==
  /\ At(c, "open")
  /\ call[c].frames = <<>>
  /\ \E cookie \in Refreshed(c) :
       /\ SetCookie(c, cookie)
       /\ call' = [call EXCEPT ![c] = Failed([call[c] EXCEPT !.cookie = cookie], code, FALSE)]
  /\ log' = [log EXCEPT ![c] = Blamed(c)]
  /\ UNCHANGED cache

(* 200 without a content frame and without an accepted video.  lastStatus  *)
(* keeps what it was.                                                      *)
Empty(c) ==
  /\ At(c, "open")
  /\ call[c].frames = <<>>
  /\ \E cookie \in Refreshed(c) :
       /\ SetCookie(c, cookie)
       /\ call' = [call EXCEPT ![c] = Failed([call[c] EXCEPT !.cookie = cookie], 0, FALSE)]
  /\ log' = [log EXCEPT ![c] = Blamed(c)]
  /\ UNCHANGED cache

-----------------------------------------------------------------------------
(* Passing the answer on *)

Tagged(c, letters) == [i \in DOMAIN letters |-> <<log[c].posts, letters[i]>>]
Rest(full, said) == SubSeq(full, Len(said) + 1, Len(full))

(* deltaTracker.Push: a frame that does not extend what was emitted is     *)
(* skipped.                                                                *)
Push(c, ch, t) ==
  LET said == call[c].emitted[ch] IN
  IF Len(t) > Len(said) /\ IsPrefix(said, t)
  THEN [say |-> Rest(t, said), emitted |-> t]
  ELSE [say |-> <<>>, emitted |-> said]

(* One line of the response, with the cumulative text of one channel.      *)
Frame(c, f) ==
  /\ At(c, "open")
  /\ f \in call[c].kind.frames
  /\ Len(call[c].frames) < call[c].kind.lines
  /\ LET d == Push(c, f.ch, f.text)
         framed == [call EXCEPT ![c].frames = Append(@, f)]
     IN IF call[c].kind.streams
        THEN /\ call' = [framed EXCEPT ![c].emitted[f.ch] = d.emitted]
             /\ log' = [log EXCEPT ![c].heard[f.ch] = @ \o Tagged(c, d.say)]
        ELSE call' = framed /\ UNCHANGED log
  /\ UNCHANGED <<upstream, cache>>

(* extractResponseText takes the last text, extractReasoning the longest   *)
(* chain of thought, the first of several.                                 *)
TextsOf(frames, ch) == {i \in DOMAIN frames : frames[i].ch = ch}
FullText(frames, ch) ==
  LET all == TextsOf(frames, ch)
      Length(i) == Len(frames[i].text)
      last == CHOOSE i \in all : \A j \in all : j <= i
      longest == CHOOSE i \in all : \A j \in all :
                   Length(j) < Length(i) \/ (Length(j) = Length(i) /\ i <= j)
  IN IF all = {} THEN <<>> ELSE frames[IF ch = "text" THEN last ELSE longest].text

(* Deviation: nothing said, nothing remaining.                             *)
RemainingOfSaid(full, said) ==
  IF said # <<>> /\ IsPrefix(said, full) THEN Rest(full, said) ELSE <<>>

(* remainingOf: what the client has not got, unless the text was rewritten *)
Remaining(full, said) == IF IsPrefix(said, full) THEN Rest(full, said) ELSE <<>>

(* What the handler sends at the end.  An answer without a text is an      *)
(* error, and a media call answers when its artifact is there.             *)
Closing(c, ch) ==
  IF Media(call[c].kind) \/ TextsOf(call[c].frames, "text") = {} THEN <<>>
  ELSE Remaining(FullText(call[c].frames, ch), call[c].emitted[ch])

(* A response with content, or with the id under which a video is made.    *)
Succeed(c) ==
  /\ At(c, "open")
  /\ call[c].frames # <<>> \/ call[c].kind.tool = "video"
  /\ \E cookie \in Refreshed(c) :
       /\ SetCookie(c, cookie)
       /\ call' = [call EXCEPT ![c].cookie = cookie,
                               ![c].verdict = 200,
                               ![c].pc = IF Media(call[c].kind) THEN "collect" ELSE "done"]
  /\ log' = [log EXCEPT ![c] = [Praised(c) EXCEPT
       !.heard = [ch \in Channels |-> @[ch] \o Tagged(c, Closing(c, ch))]]]
  /\ UNCHANGED cache

(* fetchMediaArtifactsBudget: the link to an image may be in the answer,   *)
(* everything else is polled for with xsrfToken until the budget ends.     *)
Collect(c) ==
  /\ At(c, "collect")
  /\ \E got \in BOOLEAN :
       /\ got => \/ call[c].kind.tool = "image" \/ Slot(c) = None
                 \/ call[c].token = [slot |-> Slot(c), gen |-> live[Slot(c)]]
       /\ call' = [call EXCEPT ![c].artifact = got, ![c].pc = "done"]
  /\ UNCHANGED <<upstream, cache, log>>

-----------------------------------------------------------------------------
(* The world *)

Expire(s) ==
  /\ MapThenSumSet(LAMBDA t : live[t], Slots) < MaxExpiries
  /\ live' = [live EXCEPT ![s] = @ + 1]
  /\ UNCHANGED <<jar, baked, cache, call, log>>

(* xsrfTTL has passed, or a check of the account invalidates its token.    *)
Lapse(key) ==
  /\ key \in DOMAIN cache
  /\ cache' = Drop(key)
  /\ UNCHANGED <<upstream, call, log>>

Work(c) ==
  \/ Lookup(c) \/ FetchPage(c) \/ FetchFails(c) \/ StorePage(c)
  \/ Post(c) \/ Heal(c) \/ RefusedAgain(c)
  \/ Reset(c) \/ TimeOut(c) \/ Empty(c) \/ Succeed(c) \/ Collect(c)
  \/ \E code \in Codes : Status(c, code)
  \/ \E f \in Frames : Frame(c, f)

Done == (\A c \in Calls : call[c].kind = None \/ At(c, "done")) /\ UNCHANGED vars

Next ==
  \/ \E c \in Calls : Start(c) \/ Work(c)
  \/ \E s \in Slots : Expire(s)
  \/ \E key \in DOMAIN cache : Lapse(key)
  \/ Done

Spec == Init /\ [][Next]_vars
(* A goroutine runs, and every request to upstream has a time limit.       *)
FairSpec == Spec /\ \A c \in Calls : WF_vars(Work(c))

-----------------------------------------------------------------------------
(* Properties *)

Tokens == [slot : Slots, gen : 0..MaxExpiries]
Cookies == 0..MaxCookies
Steps == {"idle", "lookup", "fetch", "store", "post", "open", "refused", "collect", "done"}

(* Every variable keeps its type; the cache is keyed by cookie and slot.   *)
TypeOK ==
  /\ live \in [Slots -> 0..MaxExpiries]
  /\ jar \in [Slots -> Cookies] /\ baked \in Cookies
  /\ DOMAIN cache \subseteq Cookies \X Slots
  /\ \A key \in DOMAIN cache : cache[key] \in Tokens
  /\ \A c \in Calls :
       /\ call[c].pc \in Steps
       /\ call[c].kind \in Kinds \cup {None}
       /\ call[c].cookie \in Cookies \cup {None}
       /\ {call[c].token, call[c].at, call[c].page} \subseteq Tokens \cup {None}
       /\ call[c].healed \in BOOLEAN /\ call[c].artifact \in BOOLEAN
       /\ call[c].attempt \in 0..RetryAttempts
       /\ call[c].verdict \in {None, 0, 200, 400} \cup Codes
       /\ \A ch \in Channels : call[c].emitted[ch] \in {<<>>} \cup {f.text : f \in Frames}

(* The cache and the handlers never take the token of one slot for another *)
(* slot's, although the slots share one cookie (cookieKey; upstream        *)
(* answers such a post with 400).                                          *)
TokenOfSlot ==
  /\ \A key \in DOMAIN cache : cache[key].slot = key[2]
  /\ \A c \in Calls : \A t \in {call[c].token, call[c].at, call[c].page} \ {None} :
       t.slot = Slot(c)

(* Nothing the client has been sent comes from two posts, on any channel:  *)
(* a call that has passed something on is not repeated.                    *)
OneAnswer ==
  \A c \in Calls : \A ch \in Channels : \A i \in DOMAIN log[c].heard[ch] :
    log[c].heard[ch][i][1] = log[c].posts

Letters(heard) == [i \in DOMAIN heard |-> heard[i][2]]

HeardOneFrame(c, ch) ==
  LET heard == Letters(log[c].heard[ch]) IN
  heard # <<>> => \E i \in DOMAIN call[c].frames :
                    call[c].frames[i] = [ch |-> ch, text |-> heard]

HeardAll(c, ch) ==
  LET full == FullText(call[c].frames, ch) IN
  (\A i \in TextsOf(call[c].frames, ch) : IsPrefix(call[c].frames[i].text, full))
    => Letters(log[c].heard[ch]) = full

(* What the client has been sent on a channel reads exactly as one frame   *)
(* of the response: increments never repeat or splice rewritten text.  And *)
(* when a call succeeds it is complete: unless upstream took back what had *)
(* been passed on, the client ends up with the full text.                  *)
StreamExact ==
  \A c \in Calls, ch \in Channels :
    /\ HeardOneFrame(c, ch)
    /\ (/\ At(c, "done") /\ call[c].verdict = 200 /\ ~Media(call[c].kind)
        /\ TextsOf(call[c].frames, "text") # {}) => HeardAll(c, ch)

(* Every post of a call through the pool is reported for its exit exactly  *)
(* once, as good or bad, but for the refused token that was renewed and    *)
(* the wait of a media call.  A call posts at most its budget and once     *)
(* more for a renewed token; a media call's budget is two and it sits out  *)
(* one time limit at most.                                                 *)
PostsAccounted ==
  \A c \in Calls : call[c].kind # None =>
    /\ call[c].kind.pooled =>
         log[c].good + log[c].bad + log[c].excused + log[c].waits
           + (IF call[c].pc \in {"open", "refused"} THEN 1 ELSE 0) = log[c].posts
    /\ log[c].posts <= RetryAttempts + 1
    /\ Media(call[c].kind) => log[c].posts <= 3 /\ log[c].waits <= 1

(* Every call that starts comes to its end.                                *)
CallEnds == \A c \in Calls : ~At(c, "idle") ~> At(c, "done")

(* Comments the code does not live up to (see README).                     *)

(* gemini.go 703: the token is dropped and fetched anew, so the next post  *)
(* is made with another one.                                               *)
HealRenews ==
  [][\A c \in Calls : call[c].healed /\ At(c, "lookup") /\ At(c, "post")' =>
       call'[c].at # call[c].at]_vars

(* The artifact is fetched with the token the post went through with.      *)
CollectsWithPosted ==
  [][\A c \in Calls : At(c, "collect") /\ At(c, "done")' => call[c].token = call[c].at]_vars
=============================================================================
